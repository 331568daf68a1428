------------------------------- MODULE MCCpu -------------------------------
(***************************************************************************)
(* Instances of Cpu for TLC.  Words have 8 bits (ByteBits = 2), there are  *)
(* three registers ($zero, one more, and $ra), 32 bytes of physical        *)
(* address space seen through eight virtual images, and code is mapped at  *)
(* the reset, exception and debug entry points.  Each set below is the     *)
(* instructions one run lets memory hold, in every order.                  *)
(***************************************************************************)
EXTENDS Cpu

CONSTANT MaxSteps     \* bound on the number of steps of a behaviour

VARIABLE steps

MCInit == Init /\ steps = 0
MCNext == steps < MaxSteps /\ Next /\ steps' = steps + 1
MCSpec == MCInit /\ [][MCNext]_<<vars, steps>>

I(op, rs, rt, rd, arg) ==
  [op |-> op, rs |-> rs, rt |-> rt, rd |-> rd, cr |-> "PRID", arg |-> arg]

C0(op, rt, cr) ==
  [op |-> op, rs |-> 0, rt |-> rt, rd |-> 0, cr |-> cr, arg |-> 0]

\* Loads to every register, the writes that cancel them, and the steps that
\* come between the two stages of the delay.
LoadInstrs ==
  { I("LW", 0, r, 0, 4) : r \in Reg }
    \cup { I("LB", 0, 1, 0, 1), I("LHU", 0, 1, 0, 2), I("LWL", 0, 1, 0, 1),
           I("LWR", 0, 1, 0, 2), I("LH", 0, 2, 0, 1),
           I("ADDIU", 0, 1, 0, 5), I("ADDIU", 0, 0, 0, 5),
           I("OR", 1, 0, 2, 0), I("J", 0, 0, 0, 2), I("JAL", 0, 0, 0, 2),
           I("MFC0", 0, 2, 0, 0), IllegalInstr }

\* Jumps, branches and everything that raises an exception, with the
\* registers they read taken from the address-like constants.
ControlInstrs ==
  { I("J", 0, 0, 0, 2), I("JAL", 0, 0, 0, 3), I("JR", 1, 0, 0, 0),
    I("JALR", 1, 0, 2, 0), I("BEQ", 0, 0, 0, 3), I("BNE", 0, 1, 0, 1),
    I("BGEZAL", 1, 0, 0, 15), I("SYSCALL", 0, 0, 0, 0),
    I("BREAK", 0, 0, 0, 0), C0("RFE", 0, "PRID"), C0("MTC0", 1, "SR"),
    C0("MFC0", 1, "EPC"), I("ORI", 0, 1, 0, 10), I("ADD", 1, 1, 2, 0),
    I("LUI", 0, 1, 0, 7), I("SUBU", 0, 1, 1, 0), I("LW", 0, 1, 0, 4) }

\* Loads and stores of every width under cache isolation and breakpoints.
DataInstrs ==
  { I(op, 1, 2, 0, 1) : op \in LoadOps \cup StoreOps }
    \cup { I("LW", 0, 2, 0, 4), I("SW", 0, 2, 0, 4), I("ORI", 0, 1, 0, 1),
           I("ORI", 0, 1, 0, 3), C0("MTC0", 2, "SR"), C0("MTC0", 2, "DCIC"),
           C0("MTC0", 1, "BDA"), C0("MTC0", 2, "BDAM") }
=============================================================================
