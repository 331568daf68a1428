------------------------------- MODULE MCBus -------------------------------
(***************************************************************************)
(* An instance of Bus for TLC: four bytes of RAM, four of scratchpad and   *)
(* eight of BIOS, each with the addresses around it.                       *)
(***************************************************************************)
EXTENDS Bus

CONSTANT MaxSteps     \* bound on the number of accesses of a behaviour

VARIABLE steps

MCInit == Init /\ steps = 0
MCNext == steps < MaxSteps /\ Next /\ steps' = steps + 1
MCSpec == MCInit /\ [][MCNext]_<<vars, steps>>

MCPhysAddr == {0, 1, 2, 4, 5} \cup {16, 18, 19, 20} \cup {31, 32, 33, 36, 39}

MCBiosImage == [k \in 0 .. BIOS_SIZE - 1 |-> IF k % 3 = 0 THEN Ones ELSE Zero]
=============================================================================
