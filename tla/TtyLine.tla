------------------------------ MODULE TtyLine ------------------------------
(***************************************************************************)
(* What the TTY of psycho promises: characters collect in a line, and a    *)
(* newline, and nothing else, delivers the line ("this event will not be   *)
(* raised until a newline is seen", ctx.h:49).  A line of Size characters  *)
(* without a newline is torn: it starts again from nothing, its delivery   *)
(* may be anything, and the line after it is whole again.                  *)
(***************************************************************************)
EXTENDS Naturals, Sequences

CONSTANTS Char, NUL, NEWLINE, Size

VARIABLES
  line,        \* the characters since the last delivery or tear
  torn,        \* part of the line is lost
  delivered    \* the lines the last step delivered, by their place in it

vars == <<line, torn, delivered>>

Printable(s) ==
  LET ends == {n \in 1 .. Len(s) : s[n] = NUL}
  IN  IF ends = {} THEN s
      ELSE SubSeq(s, 1, (CHOOSE n \in ends : \A m \in ends : n <= m) - 1)

Nothing(lines) == DOMAIN lines = {}

Init == line = << >> /\ torn = FALSE /\ Nothing(delivered)

Collect(c) ==
  /\ c # NEWLINE
  /\ Len(line) + 1 < Size
  /\ line' = Append(line, c)
  /\ torn' = torn
  /\ Nothing(delivered')

Tear(c) ==
  /\ c # NEWLINE
  /\ Len(line) + 1 = Size
  /\ line' = << >>
  /\ torn' = TRUE
  /\ Nothing(delivered')

Deliver ==
  /\ \E n \in DOMAIN delivered' :
       /\ DOMAIN delivered' = {n}
       /\ torn \/ delivered'[n] = Printable(Append(line, NEWLINE))
  /\ line' = << >>
  /\ torn' = FALSE

\* A step that is not a call of putchar.
Quiet == Nothing(delivered') /\ UNCHANGED <<line, torn>>

Next == (\E c \in Char : Collect(c) \/ Tear(c)) \/ Deliver \/ Quiet

Spec == Init /\ [][Next]_vars
=============================================================================
