------------------------------ MODULE ApiLevel ------------------------------
(***************************************************************************)
(* The level ApiLevelFilter reads from the API-Level header of a request.  *)
(***************************************************************************)
EXTENDS Integers

CONSTANTS
  IntMax   \* the largest int

ASSUME IntMaxOK == IntMax \in Nat \ {0}

kDefaultLevel == 1
kPlatformLevel == 1

\* A header as far as std::stoi tells its texts apart: white space, a sign, digits, and
\* what follows them.  No header is a text with none of them.
NoDigits == -1
Header(numbers) ==
  [ space  : BOOLEAN,
    sign   : {"none", "plus", "minus"},
    digits : numbers \union {NoDigits},
    rest   : BOOLEAN ]

\* Nothing but digits.
Plain(h) == ~h.space /\ h.sign = "none" /\ h.digits # NoDigits /\ ~h.rest

\* The int that std::stoi returns, or none where it throws.  White space, a plus and
\* what follows the digits make no difference.
stoi(h) ==
  { n \in -IntMax - 1 .. IntMax :
      /\ h.digits # NoDigits
      /\ n = IF h.sign = "minus" THEN -h.digits ELSE h.digits }

\* Mutant of Level: what stoi returns is not looked at.
LevelUnchecked(h) ==
  IF stoi(h) # {} THEN CHOOSE n \in stoi(h) : TRUE ELSE kDefaultLevel

\* doFilter: a number that is not positive is thrown out as well.
Level(h) ==
  IF \E n \in stoi(h) : n > 0 THEN CHOOSE n \in stoi(h) : TRUE ELSE kDefaultLevel

effectiveLevel(level) == IF level < kPlatformLevel THEN level ELSE kPlatformLevel

=============================================================================
