----------------------------- MODULE LoadDelay -----------------------------
(***************************************************************************)
(* What the R3000 promises about its register file: a load is visible to   *)
(* the second instruction after it, unless the instruction in between      *)
(* writes, or loads, the same register, in which case the load is lost.    *)
(* Register 0 is always 0.  One step is one instruction.                   *)
(***************************************************************************)
CONSTANTS Reg, Word

VARIABLES
  regs,      \* the registers the next instruction reads
  inflight,  \* the load the last instruction issued; dst = 0 if none
  computed,  \* the register the last instruction computed, and its value
  reset      \* the last event was a reset

vars == <<regs, inflight, computed, reset>>

None == [dst |-> 0, val |-> 0]

Delivered == [regs EXCEPT ![inflight.dst] = inflight.val]

Init ==
  /\ regs = [r \in Reg |-> 0]
  /\ inflight = None
  /\ computed = None
  /\ reset = TRUE

\* An instruction that writes no register.
Quiet ==
  /\ regs' = Delivered
  /\ computed' = None
  /\ inflight' = None
  /\ reset' = FALSE

\* An instruction that computes a register: the next one reads that value,
\* even if a load of the same register was in flight.
Write(r, v) ==
  /\ regs' = [Delivered EXCEPT ![r] = v]
  /\ computed' = [dst |-> r, val |-> v]
  /\ inflight' = None
  /\ reset' = FALSE

\* A load.
Issue(r, v) ==
  /\ regs' = IF inflight.dst = r THEN regs ELSE Delivered
  /\ inflight' = [dst |-> r, val |-> v]
  /\ computed' = None
  /\ reset' = FALSE

\* A reset drops the loads in flight; the register the last one was about
\* to reach may hold anything.
Reset ==
  /\ \E r \in Reg \ {0}, v \in Word : regs' = [regs EXCEPT ![r] = v]
  /\ computed' = None
  /\ inflight' = None
  /\ reset' = TRUE

Next ==
  \/ Quiet
  \/ \E r \in Reg \ {0}, v \in Word : Write(r, v) \/ Issue(r, v)
  \/ Reset

Spec == Init /\ [][Next]_vars
=============================================================================
