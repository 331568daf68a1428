----------------------------- MODULE AppProofs -----------------------------
(***************************************************************************)
(* The whole application, for every memory map, decoder and command line   *)
(* that keeps the loader's contract.                                       *)
(*                                                                         *)
(* AppInv says what holds between two actions of main.  Its CPU part is    *)
(* the invariants of Cpu, which the lemmas of CpuSafetyProofs carry over   *)
(* a step and ExeLoads over the loader; its memory part comes from         *)
(* MachineProofs.                                                          *)
(***************************************************************************)
EXTENDS App, MachineProofs

Running == phase \in {"loop", "step"}

CpuPart ==
  /\ TypeOK /\ ZeroInv /\ JumpLeavesNoLoad
  /\ Running => NextPcSequential

DisasmPart ==
  /\ disasm \in [trace_instruction : BOOLEAN, result : {disasm.result}]
  /\ Running => disasm.trace_instruction

AppInv ==
  /\ CpuPart /\ DisasmPart
  /\ Memory /\ B!PointersIntact
  /\ argv \in CommandLine
  /\ phase \in Phase /\ (halted <=> phase = "trapped")

(***************************************************************************)
(* The EXE loader.                                                         *)
(***************************************************************************)
\* The registers of exe_cpu, and the base of the stack that it uses.
ExeBase(c, exe) == IF exe.sp_fp_base # 0 THEN exe.sp_fp_base ELSE c.gpr[CPU_GPR_SP]

ExeGpr(c, exe) ==
  [[[c.gpr EXCEPT ![CPU_GPR_GP] = exe.gp]
      EXCEPT ![CPU_GPR_SP] = Wrap(ExeBase(c, exe) + exe.sp_fp_off)]
      EXCEPT ![CPU_GPR_FP] = Wrap(exe.sp_fp_base + exe.sp_fp_off)]

\* Five registers, none of which is $zero.
LEMMA ExeRegs ==
  /\ CPU_GPR_T1 \in Reg /\ CPU_GPR_A0 \in Reg
  /\ CPU_GPR_GP \in Reg /\ CPU_GPR_SP \in Reg /\ CPU_GPR_FP \in Reg
  /\ CPU_GPR_GP # 0 /\ CPU_GPR_SP # 0 /\ CPU_GPR_FP # 0
  /\ CPU_GPR_GP # CPU_GPR_SP /\ CPU_GPR_GP # CPU_GPR_FP /\ CPU_GPR_SP # CPU_GPR_FP
PROOF
  BY AppAssumption

\* What psycho_exe_load does to the CPU.
LEMMA ExeCpu ==
  ASSUME NEW c \in CpuType, NEW exe \in ExeFile
  PROVE  /\ exe_cpu(c, exe) \in CpuType
         /\ exe_cpu(c, exe).pc = exe.pc
         /\ exe_cpu(c, exe).next_pc = Wrap(exe.pc + 4)
         /\ exe_cpu(c, exe).gpr = ExeGpr(c, exe)
         /\ exe_cpu(c, exe).ld_next = c.ld_next /\ exe_cpu(c, exe).ld_pend = c.ld_pend
         /\ exe_cpu(c, exe).in_branch_delay_slot = c.in_branch_delay_slot
         /\ exe_cpu(c, exe).next_in_branch_delay_slot = c.next_in_branch_delay_slot
         /\ ExeGpr(c, exe) \in [Reg -> Word]
         /\ ExeGpr(c, exe)[0] = c.gpr[0]
         /\ ExeGpr(c, exe)[CPU_GPR_GP] = exe.gp
         /\ ExeGpr(c, exe)[CPU_GPR_SP] = Wrap(ExeBase(c, exe) + exe.sp_fp_off)
         /\ ExeGpr(c, exe)[CPU_GPR_FP] = Wrap(exe.sp_fp_base + exe.sp_fp_off)
PROOF
<1> DEFINE sp == Wrap(ExeBase(c, exe) + exe.sp_fp_off)
           fp == Wrap(exe.sp_fp_base + exe.sp_fp_off)
           next == Wrap(exe.pc + 4)
           g == ExeGpr(c, exe)
<1>1. /\ exe.pc \in Word /\ exe.gp \in Word /\ exe.sp_fp_base \in Word /\ exe.sp_fp_off \in Word
      /\ c.gpr \in [Reg -> Word]
  BY DEF ExeFile, CpuType
<1>2. ExeBase(c, exe) \in Word
  BY <1>1, ExeRegs DEF ExeBase
<1>3. sp \in Word /\ fp \in Word /\ next \in Word
  BY <1>1, <1>2, WrapType, WordFacts
<1>4. /\ g \in [Reg -> Word] /\ g[0] = c.gpr[0]
      /\ g[CPU_GPR_GP] = exe.gp /\ g[CPU_GPR_SP] = sp /\ g[CPU_GPR_FP] = fp
  BY <1>1, <1>3, ExeRegs, NoLoadType DEF ExeGpr
<1>5. exe_cpu(c, exe) = [c EXCEPT !.pc = exe.pc, !.next_pc = next, !.gpr[CPU_GPR_GP] = exe.gp,
                                  !.gpr[CPU_GPR_SP] = sp, !.gpr[CPU_GPR_FP] = fp]
  BY DEF exe_cpu, ExeBase
<1>6. g = [[[c.gpr EXCEPT ![CPU_GPR_GP] = exe.gp] EXCEPT ![CPU_GPR_SP] = sp]
             EXCEPT ![CPU_GPR_FP] = fp]
  BY DEF ExeGpr
<1> HIDE DEF sp, fp, next, g
<1>7. exe_cpu(c, exe) = [c EXCEPT !.pc = exe.pc, !.next_pc = next, !.gpr = g]
  BY <1>5, <1>6 DEF CpuType
<1>8. exe_cpu(c, exe) \in CpuType
  BY <1>1, <1>3, <1>4, <1>7 DEF CpuType
<1> QED
  BY <1>4, <1>7, <1>8 DEF CpuType, sp, fp, next, g

\* The place of the EXE in RAM.
LEMMA ExePlace ==
  ASSUME NEW exe \in ExeFile, ExeContract(exe)
  PROVE  /\ vaddr_to_paddr(exe.dest_addr) \in Nat
         /\ exe.file_size \in Nat /\ exe.code \in Seq(Byte)
         /\ exe.file_size <= Len(exe.code)
         /\ vaddr_to_paddr(exe.dest_addr) + exe.file_size <= RAM_ADDR_END
         /\ RAM_ADDR_END \in Nat /\ RAM_ADDR_END < B!pointers
PROOF
<1>1. exe.dest_addr \in Word /\ exe.file_size \in Nat /\ exe.code \in Seq(Byte)
  BY DEF ExeFile
<1>2. vaddr_to_paddr(exe.dest_addr) \in Nat
  BY <1>1, AddrType, WordFacts
<1>3. RAM_ADDR_END \in Nat /\ RAM_ADDR_END < B!pointers
  BY MachineAssumption DEF B!BusAssumption, B!pointers, B!scratchpad, B!bios, B!RAM_SIZE,
                           B!BIOS_SIZE, B!SCRATCHPAD_SIZE
<1> QED
  BY <1>1, <1>2, <1>3 DEF ExeContract, B!RAM_SIZE

\* What psycho_exe_load does to memory: it stays in RAM.
LEMMA ExeMemory ==
  ASSUME Memory, B!PointersIntact, NEW exe \in ExeFile, ExeContract(exe)
  PROVE  /\ exe_host(exe) \in [B!HostCell -> Byte]
         /\ \A c \in B!HostCell : c >= B!pointers => exe_host(exe)[c] = ByteSize - 1
PROOF
<1> DEFINE dst == B!ram + vaddr_to_paddr(exe.dest_addr)
<1>1. dst \in Nat /\ dst + exe.file_size <= RAM_ADDR_END /\ dst = vaddr_to_paddr(exe.dest_addr)
  BY ExePlace DEF B!ram
<1>2. \A c \in B!HostCell : c \in Int
  BY ExePlace DEF B!HostCell
<1>3. ASSUME NEW c \in B!HostCell, c - dst \in 0 .. exe.file_size - 1
      PROVE  exe.code[c - dst + 1] \in Byte
  <2>1. c - dst + 1 \in 1 .. Len(exe.code)
    BY <1>1, <1>2, <1>3, ExePlace
  <2> QED
    BY <2>1, ExePlace
<1>4. ASSUME NEW c \in B!HostCell, c >= B!pointers
      PROVE  c - dst \notin 0 .. exe.file_size - 1
  <2>1. B!pointers \in Int
    BY MachineAssumption DEF B!BusAssumption, B!pointers, B!scratchpad, B!bios, B!RAM_SIZE,
                             B!BIOS_SIZE, B!SCRATCHPAD_SIZE
  <2> QED
    BY <1>1, <1>2, <1>4, <2>1, ExePlace
<1>5. exe_host(exe) = [c \in B!HostCell |->
                         IF c - dst \in 0 .. exe.file_size - 1
                         THEN exe.code[c - dst + 1] ELSE host[c]]
  BY DEF exe_host
<1> HIDE DEF dst
<1> QED
  BY <1>3, <1>4, <1>5 DEF Memory, B!PointersIntact

(***************************************************************************)
(* The invariant.                                                          *)
(***************************************************************************)
\* What psycho_reset and psycho_exe_load leave of the CPU's invariants.
LEMMA ResetPart ==
  ASSUME TypeOK, ZeroInv
  PROVE  /\ psycho_cpu_reset(cpu) \in CpuType
         /\ psycho_cpu_reset(cpu).gpr = cpu.gpr
         /\ psycho_cpu_reset(cpu).ld_next = NoLoad /\ psycho_cpu_reset(cpu).ld_pend = NoLoad
         /\ psycho_cpu_reset(cpu).next_pc = Wrap(psycho_cpu_reset(cpu).pc + 4)
PROOF
<1>1. psycho_cpu_reset(cpu) \in CpuType
  BY psycho_cpu_reset_Type DEF TypeOK
<1> QED
  BY <1>1 DEF psycho_cpu_reset, TypeOK, CpuType

\* main starts in the invariant: static storage is zero, save the pointers.
LEMMA InitInv == AppInit => AppInv
PROOF
<1> SUFFICES ASSUME AppInit PROVE AppInv
  OBVIOUS
<1>1. IllegalInstr \in InstrType
  BY NoLoadType DEF IllegalInstr, InstrType, InstrOp, Cop0Reg
<1>2. TypeOK
  <2>1. << >> \in Seq(BusCall) /\ << >> \in Seq(ExcCode)
    OBVIOUS
  <2>2. ZeroCpu \in CpuType
    BY <1>1, <2>1, WordFacts, NoLoadType DEF ZeroCpu, CpuType
  <2> QED
    BY <2>1, <2>2 DEF AppInit, TypeOK
<1>3. ZeroInv /\ JumpLeavesNoLoad /\ ~ Running
  BY NoLoadType DEF AppInit, ZeroCpu, ZeroInv, SlotsClean, GprZero, JumpLeavesNoLoad, NoLoad, Running
<1>4. DisasmPart
  BY <1>3 DEF AppInit, InitDisasm, DisasmPart
<1>5. Memory /\ B!PointersIntact
  BY ByteAssumption DEF AppInit, Memory, B!PointersIntact, Byte
<1> QED
  BY <1>2, <1>3, <1>4, <1>5 DEF AppInit, AppInv, CpuPart, Phase

\* load_bios_file fills emu.bios and no more.
LEMMA BiosMemory ==
  ASSUME Memory, B!PointersIntact, argv \in CommandLine
  PROVE  /\ ReadBios \in [B!HostCell -> Byte]
         /\ \A c \in B!HostCell : c >= B!pointers => ReadBios[c] = ByteSize - 1
PROOF
<1>1. argv.bios \in Seq(Byte)
  BY AppAssumption
<1>2. B!bios \in Nat /\ B!pointers \in Nat /\ B!BIOS_SIZE \in Nat /\ B!bios + B!BIOS_SIZE <= B!pointers
  BY MachineAssumption DEF B!BusAssumption, B!pointers, B!scratchpad, B!bios, B!RAM_SIZE,
                           B!BIOS_SIZE, B!SCRATCHPAD_SIZE
<1>3. \A c \in B!HostCell : c \in Int
  BY DEF B!HostCell
<1> DEFINE In(c) == c - B!bios \in 0 .. B!BIOS_SIZE - 1 /\ c - B!bios < Len(argv.bios)
<1>4. ASSUME NEW c \in B!HostCell, In(c) PROVE argv.bios[c - B!bios + 1] \in Byte
  <2>1. c - B!bios + 1 \in 1 .. Len(argv.bios)
    BY <1>1, <1>2, <1>3, <1>4
  <2> QED
    BY <1>1, <2>1
<1>5. ASSUME NEW c \in B!HostCell, c >= B!pointers PROVE ~ In(c)
  BY <1>2, <1>3, <1>5
<1>6. ReadBios = [c \in B!HostCell |-> IF In(c) THEN argv.bios[c - B!bios + 1] ELSE host[c]]
  BY DEF ReadBios
<1> HIDE DEF In
<1> QED
  BY <1>4, <1>5, <1>6 DEF Memory, B!PointersIntact

\* A step of the CPU keeps its part of the invariant.
LEMMA StepPart ==
  ASSUME TypeOK, ZeroInv, JumpLeavesNoLoad, Memory, psycho_cpu_step
  PROVE  /\ TypeOK' /\ ZeroInv' /\ JumpLeavesNoLoad' /\ NextPcSequential'
         /\ RegStep /\ FlowStep(Stepped)
PROOF
<1>1. Stepped \in InstrType
  BY StepOnMemory
<1>2. PICK words \in SUBSET Word : Execute(Stepped, words)
  BY StepOnMemory
<1>3. TypeOK'
  BY <1>1, <1>2, ExecuteType
<1>4. RegStep
  BY <1>1, <1>2, RegEffect
<1>5. FlowStep(Stepped)
  BY <1>1, <1>2, ControlEffect
<1>6. ZeroInv'
  BY <1>4, ZeroStep
<1>7. JumpLeavesNoLoad'
  BY <1>1, <1>4, <1>5, NoLoadStep
<1>8. NextPcSequential'
  BY <1>5 DEF FlowStep, NextPcSequential
<1> QED
  BY <1>3, <1>4, <1>5, <1>6, <1>7, <1>8

\* The disassembler's part of a step.
LEMMA DisasmStep ==
  ASSUME DisasmPart
  PROVE  /\ DisasmBegun \in [trace_instruction : {disasm.trace_instruction},
                             result : {DisasmBegun.result}]
         /\ disasm.trace_instruction =>
              DisasmBegun.result =
                [pc |-> cpu.pc, str |-> psycho_disasm_instr(Peeked, cpu.pc)]
PROOF
  BY DEF DisasmPart, DisasmBegun, psycho_disasm_trace_begin

\* Every action of main keeps the invariant.
LEMMA NextInv == AppInv /\ [main]_appVars => AppInv'
PROOF
<1> SUFFICES ASSUME AppInv, [main]_appVars PROVE AppInv'
  OBVIOUS
<1> USE DEF Phase
<1>1. /\ TypeOK /\ ZeroInv /\ JumpLeavesNoLoad /\ (Running => NextPcSequential)
      /\ DisasmPart /\ Memory /\ B!PointersIntact /\ argv \in CommandLine
      /\ phase \in Phase /\ (halted <=> phase = "trapped")
  BY DEF AppInv, CpuPart
<1>2. ASSUME cpu' = cpu, bus' = bus, halted' = halted
      PROVE  /\ TypeOK' /\ ZeroInv' /\ JumpLeavesNoLoad'
             /\ NextPcSequential => NextPcSequential'
  BY <1>1, <1>2 DEF TypeOK, ZeroInv, SlotsClean, GprZero, JumpLeavesNoLoad, NextPcSequential
<1>3. ASSUME host' = host PROVE Memory' /\ B!PointersIntact'
  BY <1>1, <1>3 DEF Memory, B!PointersIntact
<1>4. ASSUME disasm' = disasm, Running' => Running PROVE DisasmPart'
  BY <1>1, <1>4 DEF DisasmPart
<1>5. ASSUME disasm' = psycho_disasm_trace_instruction_enable(disasm, TRUE) PROVE DisasmPart'
  BY <1>1, <1>5 DEF DisasmPart, psycho_disasm_trace_instruction_enable
<1>6. CASE CheckArguments \/ load_exe_file \/ Crash
  <2>1. UNCHANGED <<machine, argv, disasm>> /\ phase' \in Phase \ {"loop", "step", "trapped"}
    BY <1>6 DEF CheckArguments, load_exe_file, Crash, Exit
  <2>2. ~ Running' /\ phase # "trapped"
    BY <1>6, <2>1 DEF Running, CheckArguments, load_exe_file, Crash, Stepping
  <2> QED
    BY <1>1, <1>2, <1>3, <1>4, <2>1, <2>2 DEF machine, AppInv, CpuPart
<1>7. CASE load_bios_file
  <2>1. /\ UNCHANGED <<cpu, bus, halted, argv, disasm>> /\ phase = "load bios"
        /\ phase' \in {"load exe", "exit"} /\ host' \in {host, ReadBios}
    BY <1>7 DEF load_bios_file, Exit
  <2>2. ~ Running'
    BY <2>1 DEF Running
  <2>3. Memory' /\ B!PointersIntact'
    BY <1>1, <1>3, <2>1, BiosMemory DEF Memory, B!PointersIntact
  <2> QED
    BY <1>1, <1>2, <1>4, <2>1, <2>2, <2>3 DEF AppInv, CpuPart
<1>8. CASE SetUp
  <2>1. /\ phase = "set up" /\ phase' = "loop" /\ cpu' = psycho_cpu_reset(cpu)
        /\ disasm' = psycho_disasm_trace_instruction_enable(disasm, TRUE)
        /\ UNCHANGED <<bus, halted, host, argv>>
    BY <1>8 DEF SetUp
  <2>2. /\ cpu' \in CpuType /\ cpu'.gpr = cpu.gpr /\ cpu'.ld_next = NoLoad
        /\ cpu'.ld_pend = NoLoad /\ cpu'.next_pc = Wrap(cpu'.pc + 4)
    BY <1>1, <2>1, ResetPart
  <2>3. TypeOK'
    BY <1>1, <2>1, <2>2 DEF TypeOK
  <2>4. ZeroInv' /\ JumpLeavesNoLoad'
    <3>1. cpu'.gpr[0] = 0
      BY <1>1, <2>2 DEF ZeroInv, GprZero
    <3>2. /\ cpu'.ld_next.dst = 0 /\ cpu'.ld_next.val = 0
          /\ cpu'.ld_pend.dst = 0 /\ cpu'.ld_pend.val = 0
      BY <2>2 DEF NoLoad
    <3> QED
      BY <3>1, <3>2 DEF ZeroInv, SlotsClean, GprZero, JumpLeavesNoLoad
  <2>5. NextPcSequential'
    BY <2>2 DEF NextPcSequential
  <2> QED
    BY <1>1, <1>3, <1>5, <2>1, <2>3, <2>4, <2>5 DEF AppInv, CpuPart
<1>9. CASE ReachShell
  <2> DEFINE exe == argv.exe
  <2>1. /\ phase = "loop" /\ phase' = "step"
        /\ disasm' = psycho_disasm_trace_instruction_enable(disasm, TRUE)
        /\ UNCHANGED <<bus, halted, argv>>
    <3>1. exe_return_code(exe) # 0
      BY DEF exe_return_code, EXE_SIZE_BAD, EXE_ID_BAD, PSYCHO_OK
    <3> QED
      BY <1>9, <3>1 DEF ReachShell
  <2>2. exe \in ExeFile /\ ExeContract(exe)
    BY <1>1, AppAssumption
  <2>3. \/ cpu' = cpu /\ host' = host
        \/ cpu' = exe_cpu(cpu, exe) /\ host' = exe_host(exe)
    BY <1>9 DEF ReachShell, psycho_exe_load
  <2> HIDE DEF exe
  <2>4. CASE cpu' = cpu /\ host' = host
    BY <1>1, <1>2, <1>3, <1>5, <2>1, <2>4 DEF AppInv, CpuPart, Running
  <2>5. CASE cpu' = exe_cpu(cpu, exe) /\ host' = exe_host(exe)
    <3>1. /\ cpu' \in CpuType /\ cpu'.gpr = ExeGpr(cpu, exe)
          /\ cpu'.pc = exe.pc /\ cpu'.next_pc = Wrap(exe.pc + 4)
          /\ cpu'.ld_next = cpu.ld_next /\ cpu'.ld_pend = cpu.ld_pend
          /\ cpu'.in_branch_delay_slot = cpu.in_branch_delay_slot
          /\ cpu'.next_in_branch_delay_slot = cpu.next_in_branch_delay_slot
          /\ ExeGpr(cpu, exe)[0] = cpu.gpr[0]
      BY <1>1, <2>2, <2>5, ExeCpu DEF TypeOK
    <3>2. TypeOK'
      BY <1>1, <2>1, <3>1 DEF TypeOK
    <3>3. ZeroInv' /\ JumpLeavesNoLoad' /\ NextPcSequential'
      BY <1>1, <3>1 DEF ZeroInv, SlotsClean, GprZero, JumpLeavesNoLoad, NextPcSequential
    <3>4. Memory' /\ B!PointersIntact'
      BY <1>1, <2>2, <2>5, ExeMemory DEF Memory, B!PointersIntact
    <3> QED
      BY <1>1, <1>5, <2>1, <3>2, <3>3, <3>4 DEF AppInv, CpuPart
  <2> QED
    BY <2>3, <2>4, <2>5
<1>10. CASE psycho_step
  <2>1. /\ psycho_cpu_step /\ phase \in {"loop", "step"} /\ disasm' = DisasmBegun
        /\ phase' = IF halted' THEN "trapped" ELSE "loop"
        /\ argv' = argv
    BY <1>10 DEF psycho_step, Stepping
  <2>2. TypeOK' /\ ZeroInv' /\ JumpLeavesNoLoad' /\ NextPcSequential'
    BY <1>1, <2>1, StepPart
  <2>3. Memory' /\ B!PointersIntact'
    BY <1>1, <2>1, StepMemory
  <2>4. Running
    BY <2>1 DEF Running
  <2>5. DisasmPart'
    BY <1>1, <2>1, <2>4, DisasmStep DEF DisasmPart
  <2>6. halted' \in BOOLEAN
    BY <2>2 DEF TypeOK
  <2> QED
    BY <1>1, <2>1, <2>2, <2>3, <2>5, <2>6 DEF AppInv, CpuPart
<1>11. CASE UNCHANGED appVars
  <2>1. UNCHANGED <<cpu, bus, halted, host, phase, argv, disasm>>
    BY <1>11 DEF appVars, machine, app
  <2> QED
    BY <1>1, <1>2, <1>3, <1>4, <2>1 DEF AppInv, CpuPart, Running
<1> QED
  BY <1>6, <1>7, <1>8, <1>9, <1>10, <1>11 DEF main

\* The invariant holds throughout.
LEMMA AppInvariant == AppSpec => []AppInv
PROOF
  BY InitInv, NextInv, PTL DEF AppSpec

\* Registers, memory and phase keep their types, and the program has trapped
\* exactly when it says so, whatever files main is given and the guest does.
THEOREM AppTypes == AppSpec => []AppTypeOK
PROOF
<1>1. AppInv => AppTypeOK
  BY DEF AppInv, AppTypeOK, CpuPart, TypeOK, Memory
<1> QED
  BY <1>1, AppInvariant, PTL

\* No store of a guest program and no EXE that keeps its contract reaches
\* the pointers behind the scratchpad.
THEOREM PointersSafe == AppSpec => []PointersIntact
PROOF
<1>1. AppInv => PointersIntact
  BY DEF AppInv, PointersIntact
<1> QED
  BY <1>1, AppInvariant, PTL

(***************************************************************************)
(* The instruction a step executes.                                        *)
(***************************************************************************)
\* At a step of the context main does nothing else.
LEMMA OnlyStep ==
  ASSUME main, Stepping, phase' # "crashed"
  PROVE  psycho_step
PROOF
  BY DEF main, Stepping, CheckArguments, load_bios_file, load_exe_file, SetUp, ReachShell, Crash

\* Outside the folded part both translations agree.
LEMMA SamePaddr ==
  ASSUME NEW v \in Word, v \notin HackSize .. HackLimit
  PROVE  DataPaddr(v) = vaddr_to_paddr(v)
PROOF
<1>1. v \in Nat /\ HackLimit \in Nat /\ HackSize \in Nat \ {0}
  BY WordFacts, CpuDefsAssumption
<1>2. v <= HackLimit => v % HackSize = v
  BY <1>1
<1> QED
  BY <1>2 DEF DataPaddr

\* The fetch and the data loads of psycho_cpu_step see the same memory: a
\* step executes what a load from the address would have returned.
THEOREM FetchIsLoad == AppSpec => FetchSeesStores
PROOF
<1>1. ASSUME AppInv, main, Stepping, phase' # "crashed", cpu'.curr_pc \notin HackSize .. HackLimit
      PROVE  cpu'.instr = Decode[LoadValue(DataPaddr(cpu'.curr_pc), 4)]
  <2>1. psycho_cpu_step
    BY <1>1, OnlyStep DEF psycho_step
  <2>2. FlowStep(Stepped)
    BY <1>1, <2>1, StepPart DEF AppInv, CpuPart
  <2>3. cpu'.instr = Stepped /\ cpu'.curr_pc = FetchPc
    BY <2>2 DEF FlowStep
  <2>4. FetchPc \in Word
    BY <1>1, CpuDefsAssumption DEF FetchPc, AppInv, CpuPart, TypeOK, CpuType
  <2>5. DataPaddr(FetchPc) = vaddr_to_paddr(FetchPc)
    BY <1>1, <2>3, <2>4, SamePaddr
  <2> QED
    BY <2>3, <2>5 DEF Stepped, InstrAt
<1>2. AppInv /\ [main]_appVars =>
        [ Stepping /\ phase' # "crashed" /\ cpu'.curr_pc \notin HackSize .. HackLimit =>
            cpu'.instr = Decode[LoadValue(DataPaddr(cpu'.curr_pc), 4)] ]_appVars
  BY <1>1
<1> QED
  BY <1>2, AppInvariant, PTL DEF AppSpec, FetchSeesStores

(***************************************************************************)
(* The disassembler.                                                       *)
(***************************************************************************)
\* Two additions to the PC that each wrap around wrap like one.
LEMMA WrapTwice ==
  ASSUME NEW x \in Nat
  PROVE  Wrap(Wrap(x + 4) + 4) = Wrap(x + 8)
PROOF
<1>1. (((x + 4) % WordSize) + 4) % WordSize = ((x + 4) + 4) % WordSize
  <2>1. WordSize \in Nat \ {0} /\ x + 4 \in Int /\ 4 \in Int
    BY SizeFacts
  <2> QED
    BY <2>1, ModAdd
<1>2. (x + 4) + 4 = x + 8
  OBVIOUS
<1> QED
  BY <1>1, <1>2 DEF Wrap

\* Where a step that executes a jump or a branch goes next.
LEMMA JumpTarget ==
  ASSUME TypeOK, NEW i \in InstrType, NEW words \in SUBSET Word, Execute(i, words),
         i.op \in {"J", "JAL"}
  PROVE  cpu'.next_pc = calc_jmp_addr(i.arg, cpu'.curr_pc)
PROOF
<1> DEFINE f == F(i)
           target == calc_jmp_addr(i.arg, f.curr_pc)
           linked == gpr_set(f, CPU_GPR_RA, LinkAddr(f))
<1>1. f \in CpuType /\ i.arg \in Nat
  BY HeadType DEF TypeOK
<1>2. f.curr_pc \in Word /\ target \in Word
  BY <1>1, CpuFields, AddrType
<1>3. LinkAddr(f) \in Word
  BY <1>2, WordFacts, WrapType DEF LinkAddr
<1>4. linked \in CpuType /\ SameFlow(linked, f)
  BY <1>1, <1>3, NoLoadType, gpr_set_Type, gpr_set_Frame
<1>5. Jump(i)
  BY DEF Execute, AluReg, AluImm, AddSub, AddSubOverflow, MulDiv, HiLoMove, Branch, Trap, Cop0,
         Illegal, Load, LoadAddressError, Store, StoreIsolated, StoreAddressError, Isolated,
         AluRegOps, AluImmOps, OverflowOps, MulDivOps, BranchOps, LoadOps, StoreOps
<1>6. Done(jmp(f, target)) \/ Done(jmp(linked, target))
  BY <1>5 DEF Jump
<1>7. ASSUME NEW c \in CpuType, c.curr_pc = f.curr_pc, Done(jmp(c, target))
      PROVE  cpu'.next_pc = calc_jmp_addr(i.arg, cpu'.curr_pc)
  <2>1. jmp(c, target) \in CpuType /\ jmp(c, target).curr_pc = f.curr_pc
    BY <1>2, <1>7, jmp_Type, jmp_Frame
  <2>2. jmp(c, target).next_pc = target
    BY DEF jmp, CpuType
  <2>3. SameFlow(cpu', jmp(c, target))
    BY <1>7, <2>1, DoneEffect
  <2> QED
    BY <2>1, <2>2, <2>3 DEF SameFlow
<1> QED
  BY <1>1, <1>4, <1>6, <1>7 DEF SameFlow

\* A branch outside a delay slot goes on or to the target it encodes.
LEMMA BranchGoes ==
  ASSUME TypeOK, NEW i \in InstrType, NEW words \in SUBSET Word, Execute(i, words),
         i.op \in BranchOps, ~ cpu.next_in_branch_delay_slot
  PROVE  \/ cpu'.next_pc = F(i).next_pc
         \/ cpu'.next_pc = calc_branch_addr(i.arg, cpu'.curr_pc)
PROOF
<1> DEFINE f == F(i)
           linked == gpr_set(f, CPU_GPR_RA, LinkAddr(f))
<1>1. f \in CpuType /\ i.arg \in Nat
  BY HeadType DEF TypeOK
<1>2. f.curr_pc \in Word /\ f.in_branch_delay_slot = cpu.next_in_branch_delay_slot
  BY <1>1, CpuFields, fetch_Frame DEF F, TypeOK
<1>3. LinkAddr(f) \in Word
  BY <1>2, WordFacts, WrapType DEF LinkAddr
<1>4. linked \in CpuType /\ SameFlow(linked, f)
  BY <1>1, <1>3, NoLoadType, gpr_set_Type, gpr_set_Frame
<1>5. Branch(i)
  BY DEF Execute, AluReg, AluImm, AddSub, AddSubOverflow, MulDiv, HiLoMove, Jump, Trap, Cop0,
         Illegal, Load, LoadAddressError, Store, StoreIsolated, StoreAddressError, Isolated,
         AluRegOps, AluImmOps, OverflowOps, MulDivOps, BranchOps, LoadOps, StoreOps
<1>6. Done(branch_if(f, i.arg, Taken(i))) \/ Done(branch_if(linked, i.arg, Taken(i)))
  BY <1>5 DEF Branch
<1>7. ASSUME NEW c \in CpuType, SameFlow(c, f), Done(branch_if(c, i.arg, Taken(i)))
      PROVE  cpu'.next_pc \in {f.next_pc, calc_branch_addr(i.arg, cpu'.curr_pc)}
  <2> DEFINE b == branch_if(c, i.arg, Taken(i))
  <2>1. b \in CpuType /\ b.curr_pc = f.curr_pc
    <3>1. b \in CpuType
      BY <1>1, branch_if_Type
    <3>2. b.curr_pc = c.curr_pc
      BY DEF branch_if, CpuType
    <3> QED
      BY <1>7, <3>1, <3>2 DEF SameFlow
  <2>2. c.in_branch_delay_slot = FALSE /\ c.curr_pc = f.curr_pc /\ c.next_pc = f.next_pc
    BY <1>2, <1>7 DEF SameFlow
  <2>3. f.curr_pc + 0 = f.curr_pc
    BY <1>2, WordFacts
  <2>4. b.next_pc \in {f.next_pc, calc_branch_addr(i.arg, f.curr_pc)}
    BY <2>2, <2>3 DEF branch_if, CpuType
  <2>5. SameFlow(cpu', b)
    BY <1>7, <2>1, DoneEffect
  <2> QED
    BY <2>1, <2>4, <2>5 DEF SameFlow
<1> QED
  BY <1>1, <1>4, <1>6, <1>7 DEF SameFlow

\* The disassembler names every instruction by its own name, those it
\* misnames excepted: no other lacks a case that returns.
LEMMA OwnName ==
  ASSUME NEW i \in InstrType, i.op \notin Misnamed
  PROVE  mnemonic(i) = IF i = Nop THEN "NOP" ELSE i.op
PROOF
<1>1. i.op \in InstrOp
  BY DEF InstrType
<1>2. i.op \in Named \ {"DIVU"} \/ i.op = "ILLEGAL"
  BY <1>1 DEF InstrOp, Misnamed, Named, NamedSpecial, NamedBcond, NamedCop0, NamedOp,
              AluRegOps, AluImmOps, OverflowOps, MulDivOps, HiLoOps, JumpOps, BranchOps,
              TrapOps, Cop0Ops, LoadOps, StoreOps
<1>3. Nop.op = "SLL" /\ i.op # "DIVU"
  BY DEF Nop, IllegalInstr, Misnamed
<1>4. "ILLEGAL" \notin Named
  BY DEF Named, NamedSpecial, NamedBcond, NamedCop0, NamedOp,
         AluRegOps, AluImmOps, MulDivOps, HiLoOps, LoadOps, StoreOps
<1> HIDE DEF Named
<1>5. CASE i = Nop
  BY <1>3, <1>5 DEF mnemonic
<1>6. CASE i # Nop /\ i.op \in Named
  BY <1>2, <1>3, <1>4, <1>6 DEF mnemonic
<1>7. CASE i # Nop /\ i.op \notin Named
  BY <1>2, <1>3, <1>7 DEF mnemonic
<1> QED
  BY <1>5, <1>6, <1>7

\* What the trace shows is what runs: the address, the name and, outside a
\* delay slot, the target of the instruction psycho_cpu_step executes; the
\* seven instructions of Misnamed are shown under another name.
THEOREM TraceShowsStep == AppSpec => TraceFaithful
PROOF
<1> DEFINE Shown ==
      /\ disasm'.result.pc = cpu'.curr_pc
      /\ cpu'.instr.op \notin Misnamed =>
           disasm'.result.str.op = IF cpu'.instr = Nop THEN "NOP" ELSE cpu'.instr.op
      /\ \/ cpu'.instr.op \notin Targeted
         \/ cpu'.instr.op \in BranchOps /\ cpu'.in_branch_delay_slot
         \/ cpu'.next_pc = Wrap(cpu'.curr_pc + 8)
         \/ cpu'.next_pc = disasm'.result.str.target
<1>1. ASSUME AppInv, main, Stepping, phase' # "crashed", cpu.pc % 4 = 0
      PROVE  Shown
  <2> DEFINE i == Stepped
  <2>1. psycho_cpu_step /\ disasm' = DisasmBegun
    BY <1>1, OnlyStep DEF psycho_step
  <2>2. /\ TypeOK /\ ZeroInv /\ JumpLeavesNoLoad /\ Memory /\ DisasmPart
        /\ NextPcSequential /\ disasm.trace_instruction
    BY <1>1 DEF AppInv, CpuPart, DisasmPart, Running, Stepping
  <2>3. FlowStep(i)
    BY <2>1, <2>2, StepPart
  <2>4. i \in InstrType
    BY <2>1, <2>2, StepOnMemory
  <2>5. PICK words \in SUBSET Word : Execute(i, words)
    BY <2>1, <2>2, StepOnMemory
  <2>6. FetchPc = cpu.pc /\ Peeked = i
    BY <1>1 DEF FetchPc, Peeked, Stepped
  <2>7. /\ cpu'.instr = i /\ cpu'.curr_pc = cpu.pc
        /\ cpu'.in_branch_delay_slot = cpu.next_in_branch_delay_slot
    BY <2>3, <2>6 DEF FlowStep
  <2>8. disasm'.result = [pc |-> cpu.pc, str |-> psycho_disasm_instr(i, cpu.pc)]
    BY <2>1, <2>2, <2>6, DisasmStep
  <2>9. /\ disasm'.result.pc = cpu.pc
        /\ i.op \notin Misnamed =>
             disasm'.result.str.op = IF i = Nop THEN "NOP" ELSE i.op
        /\ disasm'.result.str.target = shown_target(i, cpu.pc)
    BY <2>4, <2>8, OwnName DEF psycho_disasm_instr
  <2> HIDE DEF i
  <2>10. CASE i.op \in {"J", "JAL"}
    <3>1. cpu'.next_pc = calc_jmp_addr(i.arg, cpu'.curr_pc)
      BY <2>2, <2>4, <2>5, <2>10, JumpTarget
    <3>2. shown_target(i, cpu.pc) = calc_jmp_addr(i.arg, cpu.pc)
      BY <2>10 DEF shown_target, BranchOps
    <3> QED
      BY <2>7, <2>9, <3>1, <3>2
  <2>11. CASE i.op \in BranchOps \ Misnamed /\ ~ cpu.next_in_branch_delay_slot
    <3>1. cpu'.next_pc = F(i).next_pc \/ cpu'.next_pc = calc_branch_addr(i.arg, cpu'.curr_pc)
      BY <2>2, <2>4, <2>5, <2>11, BranchGoes
    <3>2. shown_target(i, cpu.pc) = calc_branch_addr(i.arg, cpu.pc)
      BY <2>11 DEF shown_target, BranchOps, Misnamed, Named, NamedBcond, NamedOp
    <3>3. cpu.pc \in Nat /\ cpu.next_pc = Wrap(cpu.pc + 4)
      BY <2>2, <2>11, WordFacts DEF NextPcSequential, TypeOK, CpuType
    <3>4. F(i).next_pc = Wrap(F(i).pc + 4) /\ F(i).pc = cpu.next_pc
      <4>1. cpu \in CpuType
        BY <2>2 DEF TypeOK
      <4>2. fetch(cpu, i).next_pc = Wrap(fetch(cpu, i).pc + 4)
        BY <2>4, <4>1, fetch_Frame
      <4>3. cpu.pc % 4 = 0 => fetch(cpu, i).pc = cpu.next_pc
        BY <2>4, <4>1, fetch_Frame
      <4> QED
        BY <1>1, <4>2, <4>3 DEF F
    <3>5. F(i).next_pc = Wrap(cpu.pc + 8)
      BY <3>3, <3>4, WrapTwice
    <3> QED
      BY <2>7, <2>9, <3>1, <3>2, <3>5
  <2>12. CASE i.op \in BranchOps /\ cpu.next_in_branch_delay_slot
    BY <2>7, <2>9, <2>12
  <2>13. CASE i.op \notin Targeted
    BY <2>7, <2>9, <2>13
  <2> QED
    BY <2>10, <2>11, <2>12, <2>13 DEF Targeted
<1>2. AppInv /\ [main]_appVars =>
        [ Stepping /\ phase' # "crashed" /\ cpu.pc % 4 = 0 => Shown ]_appVars
  BY <1>1
<1> QED
  BY <1>2, AppInvariant, PTL DEF AppSpec, TraceFaithful

(***************************************************************************)
(* The EXE's first instruction.                                            *)
(***************************************************************************)
\* An address inside the EXE is as far from its start in RAM as it is in the
\* address space: nothing wraps, and CACHE_CTRL is not in RAM.
LEMMA ExeAddr ==
  ASSUME NEW exe \in ExeFile, ExeContract(exe), exe.pc - exe.dest_addr \in 0 .. exe.file_size - 4
  PROVE  vaddr_to_paddr(exe.pc) = vaddr_to_paddr(exe.dest_addr) + (exe.pc - exe.dest_addr)
PROOF
<1> DEFINE n == PhysSize
           v == exe.dest_addr
           p == exe.pc
           off == exe.pc - exe.dest_addr
           r == v % n
<1>1. n \in Nat \ {0} /\ v \in Nat /\ p \in Nat /\ exe.file_size \in Nat /\ CACHE_CTRL \in Nat
  BY CpuDefsAssumption, WordFacts DEF ExeFile
<1>2. off \in Nat /\ off + 4 <= exe.file_size /\ p = v + off
  BY <1>1
<1>3. B!RAM_SIZE <= CACHE_CTRL % n /\ B!RAM_SIZE \in Nat
  <2>1. RAM_ADDR_END \in Nat /\ RAM_ADDR_END < BIOS_ADDR_END /\ BIOS_ADDR_END \in Nat
    BY MachineAssumption DEF B!BusAssumption, B!SCRATCHPAD_SIZE, B!BIOS_SIZE
  <2>2. BIOS_ADDR_END < CACHE_CTRL % n /\ CACHE_CTRL % n \in Nat
    BY <1>1, MachineAssumption
  <2> QED
    BY <2>1, <2>2 DEF B!RAM_SIZE
<1>4. vaddr_to_paddr(v) + exe.file_size <= B!RAM_SIZE
  BY DEF ExeContract
<1>5. r \in 0 .. n - 1
  BY <1>1
<1>6. CACHE_CTRL % n \in 0 .. n - 1 /\ CACHE_CTRL % n <= CACHE_CTRL
  BY <1>1
<1> HIDE DEF n, v, p, off, r
<1>7. v # CACHE_CTRL /\ vaddr_to_paddr(v) = r
  <2>1. v # CACHE_CTRL
    BY <1>1, <1>2, <1>3, <1>4, <1>6 DEF vaddr_to_paddr
  <2> QED
    BY <2>1 DEF vaddr_to_paddr, r, n
<1>8. r + off \in 0 .. n - 1 /\ r + off < CACHE_CTRL % n
  BY <1>1, <1>2, <1>3, <1>4, <1>5, <1>6, <1>7
<1>9. p % n = r + off
  <2>1. ((v % n) + off) % n = (v + off) % n
    <3>1. n \in Nat \ {0} /\ v \in Int /\ off \in Int
      BY <1>1, <1>2
    <3> QED
      BY <3>1, ModAdd
  <2>2. (r + off) % n = r + off
    BY <1>1, <1>8
  <2> QED
    BY <1>2, <2>1, <2>2 DEF r
<1>10. p # CACHE_CTRL
  BY <1>1, <1>8, <1>9, <1>6
<1> QED
  BY <1>7, <1>9, <1>10 DEF vaddr_to_paddr, n, p, v, off

\* What psycho_exe_load leaves at the EXE's entry point is the EXE's word.
LEMMA ExeInstr ==
  ASSUME Memory, NEW exe \in ExeFile, ExeContract(exe), host' = exe_host(exe),
         exe.pc - exe.dest_addr \in 0 .. exe.file_size - 4
  PROVE  LoadValue(vaddr_to_paddr(exe.pc), 4)' =
           ValueOf(SubSeq(exe.code, (exe.pc - exe.dest_addr) + 1, (exe.pc - exe.dest_addr) + 4))
PROOF
<1> DEFINE off == exe.pc - exe.dest_addr
           dst == vaddr_to_paddr(exe.dest_addr)
           at == vaddr_to_paddr(exe.pc)
           word == SubSeq(exe.code, off + 1, off + 4)
           read == [k \in 1 .. 4 |-> host'[at + k - 1]]
<1>1. exe.file_size \in Nat /\ exe.pc \in Nat /\ exe.dest_addr \in Nat
  BY WordFacts DEF ExeFile
<1>2. off \in Nat /\ off + 4 <= exe.file_size
  BY <1>1
<1>3. at = dst + off
  BY ExeAddr
<1>4. /\ dst \in Nat /\ dst + exe.file_size <= RAM_ADDR_END /\ RAM_ADDR_END \in Nat
      /\ exe.code \in Seq(Byte) /\ exe.file_size <= Len(exe.code)
      /\ RAM_ADDR_END < B!pointers /\ B!pointers \in Nat /\ PtrBytes \in Nat
  <2>1. B!pointers \in Nat /\ PtrBytes \in Nat
    BY MachineAssumption DEF B!BusAssumption, B!pointers, B!scratchpad, B!bios, B!RAM_SIZE,
                             B!BIOS_SIZE, B!SCRATCHPAD_SIZE
  <2> QED
    BY <2>1, ExePlace
<1>5. host' = [c \in B!HostCell |->
                 IF c - dst \in 0 .. exe.file_size - 1 THEN exe.code[c - dst + 1] ELSE host[c]]
  <2>1. B!ram + vaddr_to_paddr(exe.dest_addr) = vaddr_to_paddr(exe.dest_addr)
    BY <1>4 DEF B!ram
  <2> QED
    BY <2>1 DEF exe_host
<1> HIDE DEF off, dst
<1>6. B!Region(at) = "ram" /\ B!Cell(at) = at
  <2>1. at \in 0 .. RAM_ADDR_END
    BY <1>1, <1>2, <1>3, <1>4
  <2> HIDE DEF at
  <2>2. B!Region(at) = "ram"
    <3>1. /\ at \notin SCRATCHPAD_ADDR_START .. SCRATCHPAD_ADDR_END
          /\ at \notin BIOS_ADDR_START .. BIOS_ADDR_END
      BY <1>4, <2>1, MachineAssumption DEF B!BusAssumption, B!SCRATCHPAD_SIZE
    <3> QED
      BY <2>1, <3>1 DEF B!Region
  <2> QED
    BY <1>4, <2>1, <2>2 DEF B!Cell, B!ram
<1>7. B!psycho_bus_load_word(at)' = read
  BY <1>6 DEF B!psycho_bus_load_word, B!load, B!Region, B!Cell, B!ram
<1>8. ASSUME NEW k \in 1 .. 4 PROVE read[k] = exe.code[off + k]
  <2>1. /\ at + k - 1 \in B!HostCell
        /\ (at + k - 1) - dst \in 0 .. exe.file_size - 1
        /\ (at + k - 1) - dst + 1 = off + k
    BY <1>1, <1>2, <1>3, <1>4 DEF B!HostCell
  <2> QED
    BY <1>5, <2>1
<1>9. Len(word) = 4 /\ \A k \in 1 .. 4 : word[k] = exe.code[off + k]
  BY <1>2, <1>4
<1>10. Len(read) = 4
  OBVIOUS
<1> HIDE DEF read, word, at
<1>11. ValueOf(read) = ValueOf(word)
  BY <1>8, <1>9, <1>10 DEF ValueOf
<1> QED
  BY <1>7, <1>11 DEF LoadValue, at, word, off

\* What the loader leaves behind for the step after it: the EXE's word at the
\* PC, and the header's registers unless a load in ld_next is about to
\* overwrite one.
Entered ==
  phase = "step" /\ ExeLoaded =>
    /\ cpu.pc = argv.exe.pc
    /\ HasWord(cpu.pc) => InstrAt(vaddr_to_paddr(cpu.pc)) = Decode[ExeWord(cpu.pc)]
    /\ \A r \in DOMAIN Header(argv.exe) :
         Visible(cpu)[r] = Header(argv.exe)[r] \/ LateLoad(r)

\* psycho_exe_load establishes that.
LEMMA LoaderEnters == ASSUME AppInv, ReachShell, ExeLoaded PROVE Entered'
PROOF
<1>0. PICK exe : exe = argv.exe
  OBVIOUS
<1> DEFINE off == exe.pc - exe.dest_addr
           top == Wrap(exe.sp_fp_base + exe.sp_fp_off)
           g == ExeGpr(cpu, exe)
<1>1. exe \in ExeFile /\ ExeContract(exe) /\ argv' = argv
  BY <1>0, AppAssumption DEF AppInv, ReachShell
<1>2. cpu' = exe_cpu(cpu, exe) /\ host' = exe_host(exe)
  BY <1>0 DEF ReachShell, psycho_exe_load, ExeLoaded
<1>3. cpu \in CpuType /\ SlotsClean /\ GprZero /\ JumpLeavesNoLoad /\ Memory
  BY DEF AppInv, CpuPart, TypeOK, ZeroInv
<1> HIDE DEF g
<1>4. /\ cpu'.pc = exe.pc /\ cpu'.gpr = g /\ cpu'.ld_next = cpu.ld_next
      /\ cpu'.in_branch_delay_slot = cpu.in_branch_delay_slot
      /\ g \in [Reg -> Word] /\ g[CPU_GPR_GP] = exe.gp
      /\ g[CPU_GPR_SP] = Wrap(ExeBase(cpu, exe) + exe.sp_fp_off) /\ g[CPU_GPR_FP] = top
  BY <1>1, <1>2, <1>3, ExeCpu DEF g
<1>5. ASSUME HasWord(cpu.pc)'
      PROVE  InstrAt(vaddr_to_paddr(cpu.pc))' = Decode[ExeWord(cpu.pc)]'
  <2>1. off \in 0 .. exe.file_size - 4
    BY <1>0, <1>1, <1>4, <1>5 DEF HasWord
  <2>2. LoadValue(vaddr_to_paddr(exe.pc), 4)' = ValueOf(SubSeq(exe.code, off + 1, off + 4))
    BY <1>1, <1>2, <1>3, <2>1, ExeInstr
  <2>3. ExeWord(cpu.pc)' = ValueOf(SubSeq(exe.code, off + 1, off + 4))
    BY <1>0, <1>1, <1>4 DEF ExeWord
  <2> QED
    BY <1>4, <2>2, <2>3 DEF InstrAt
<1>6. ASSUME NEW r \in DOMAIN Header(exe)
      PROVE  Visible(cpu')[r] = Header(exe)[r] \/ LateLoad(r)'
  <2>1. r \in Reg \ {0} /\ g[r] = Header(exe)[r]
    <3>1. \/ r = CPU_GPR_GP \/ r = CPU_GPR_FP
          \/ r = CPU_GPR_SP /\ exe.sp_fp_base # 0
      BY DEF Header
    <3>2. exe.sp_fp_base # 0 => g[CPU_GPR_SP] = top
      BY <1>4 DEF ExeBase
    <3>3. Header(exe)[r] = IF r = CPU_GPR_GP THEN exe.gp ELSE top
      BY DEF Header
    <3> QED
      BY <1>4, <3>1, <3>2, <3>3, ExeRegs
  <2>2. CASE cpu.ld_next.dst # r
    <3>1. Visible(cpu')[r] = g[r]
      BY <1>4, <2>1, <2>2 DEF Visible
    <3> QED
      BY <2>1, <3>1
  <2>3. CASE cpu.ld_next.dst = r
    <3>1. ~ cpu.in_branch_delay_slot
      BY <1>3, <2>1, <2>3 DEF JumpLeavesNoLoad
    <3> QED
      BY <1>4, <2>3, <3>1 DEF LateLoad
  <2> QED
    BY <2>2, <2>3
<1>7. argv'.exe = exe
  BY <1>0, <1>1
<1> QED
  BY <1>4, <1>5, <1>6, <1>7 DEF Entered, Visible

\* Nothing else makes main step from there.
LEMMA EnteredNext == AppInv /\ Entered /\ [main]_appVars => Entered'
PROOF
<1> SUFFICES ASSUME AppInv, Entered, [main]_appVars PROVE Entered'
  OBVIOUS
<1>1. CASE UNCHANGED appVars
  <2>1. UNCHANGED <<cpu, host, phase, argv>>
    BY <1>1 DEF appVars, machine, app
  <2>2. /\ ExeLoaded' = ExeLoaded
        /\ HasWord(cpu.pc)' = HasWord(cpu.pc)
        /\ ExeWord(cpu.pc)' = ExeWord(cpu.pc)
        /\ InstrAt(vaddr_to_paddr(cpu.pc))' = InstrAt(vaddr_to_paddr(cpu.pc))
    BY <2>1 DEF ExeLoaded, HasWord, ExeWord, InstrAt, LoadValue, B!psycho_bus_load_word,
                B!psycho_bus_load_halfword, B!psycho_bus_load_byte, B!load, B!Region, B!Cell
  <2> QED
    BY <2>1, <2>2 DEF Entered, LateLoad
<1>2. CASE ReachShell /\ ExeLoaded
  BY <1>2, LoaderEnters
<1>3. CASE ReachShell /\ ~ ExeLoaded
  BY <1>3 DEF ReachShell, ExeLoaded, Entered
<1>4. CASE main /\ ~ ReachShell
  <2>1. phase' # "step"
    BY <1>4 DEF main, CheckArguments, load_bios_file, load_exe_file, SetUp, psycho_step, Crash,
                Exit
  <2> QED
    BY <2>1 DEF Entered
<1> QED
  BY <1>1, <1>2, <1>3, <1>4

\* A step changes no register the next instruction reads but the one it
\* computes and the one of the load that the instruction before it issued.
LEMMA RegisterKept ==
  ASSUME TypeOK, RegStep, NEW r \in Reg \ {0}, cpu.ld_pend.dst # r, cpu'.wrote.dst # r
  PROVE  Visible(cpu')[r] = Visible(cpu)[r]
PROOF
<1> DEFINE g == Visible(cpu)
<1>1. g \in [Reg -> Word] /\ 0 \in Reg /\ r # 0 /\ 0 \in Word
  BY NoLoadType DEF TypeOK, CpuType, LoadSlot, NoLoad, Visible
<1> HIDE DEF g
<1>2. cpu'.gpr \in [Reg -> Word] /\ cpu'.gpr[r] = g[r] /\ cpu'.ld_next.dst # r
  <2>1. CASE RegQuiet(cpu', cpu)
    BY <1>1, <2>1 DEF RegQuiet, g
  <2>2. ASSUME NEW x \in Reg, NEW v \in Word, RegWrite(cpu', cpu, x, v)
        PROVE  cpu'.gpr \in [Reg -> Word] /\ cpu'.gpr[r] = g[r] /\ cpu'.ld_next.dst # r
    <3>1. x # r
      BY <1>1, <2>2 DEF RegWrite, Written
    <3> QED
      BY <1>1, <2>2, <3>1 DEF RegWrite, NoLoad, g
  <2>3. ASSUME NEW x \in Reg, NEW v \in Word, RegLoad(cpu', cpu, x, v)
        PROVE  cpu'.gpr \in [Reg -> Word] /\ cpu'.gpr[r] = g[r] /\ cpu'.ld_next.dst # r
    BY <1>1, <2>3 DEF RegLoad, NoLoad, g
  <2> QED
    BY <2>1, <2>2, <2>3 DEF RegStep
<1>3. Visible(cpu')[r] = cpu'.gpr[r]
  BY <1>2 DEF Visible
<1> QED
  BY <1>2, <1>3 DEF g

\* The step after psycho_exe_load executes the EXE's first instruction, and
\* it and the next one read $gp, $sp and $fp as the header sets them, but for
\* the loads in flight that the property names.
THEOREM EntersExe == AppSpec => ExeEntry
PROOF
<1> DEFINE Started ==
      /\ HasWord(cpu.pc) =>
           cpu'.curr_pc = argv.exe.pc /\ cpu'.instr = Decode[ExeWord(cpu.pc)]
      /\ \A r \in DOMAIN Header(argv.exe) :
           /\ Visible(cpu)[r] = Header(argv.exe)[r] \/ LateLoad(r)
           /\ \/ Visible(cpu')[r] = Header(argv.exe)[r] \/ LateLoad(r)
              \/ cpu.ld_pend.dst = r
              \/ cpu'.wrote.dst = r
<1>1. AppInit => Entered
  BY DEF AppInit, Entered
<1>2. ASSUME AppInv, Entered, main, phase = "step", ExeLoaded, phase' # "crashed"
      PROVE  Started
  <2>1. psycho_cpu_step
    BY <1>2, OnlyStep DEF psycho_step, Stepping
  <2>2. TypeOK /\ RegStep /\ FlowStep(Stepped)
    BY <1>2, <2>1, StepPart DEF AppInv, CpuPart
  <2>3. ASSUME HasWord(cpu.pc)
        PROVE  cpu'.curr_pc = argv.exe.pc /\ cpu'.instr = Decode[ExeWord(cpu.pc)]
    <3>1. FetchPc = cpu.pc
      BY <2>3 DEF HasWord, FetchPc
    <3>2. cpu'.curr_pc = cpu.pc /\ cpu'.instr = InstrAt(vaddr_to_paddr(cpu.pc))
      BY <2>2, <3>1 DEF FlowStep, Stepped
    <3> QED
      BY <1>2, <2>3, <3>2 DEF Entered
  <2>4. ASSUME NEW r \in DOMAIN Header(argv.exe)
        PROVE  /\ Visible(cpu)[r] = Header(argv.exe)[r] \/ LateLoad(r)
               /\ \/ Visible(cpu')[r] = Header(argv.exe)[r] \/ LateLoad(r)
                  \/ cpu.ld_pend.dst = r
                  \/ cpu'.wrote.dst = r
    <3>1. r \in Reg \ {0}
      BY <2>4, ExeRegs DEF Header
    <3>2. Visible(cpu)[r] = Header(argv.exe)[r] \/ LateLoad(r)
      BY <1>2, <2>4 DEF Entered
    <3> QED
      BY <2>2, <3>1, <3>2, RegisterKept
  <2> QED
    BY <2>3, <2>4
<1>3. AppInv /\ Entered /\ [main]_appVars =>
        [ phase = "step" /\ ExeLoaded /\ phase' # "crashed" => Started ]_appVars
  BY <1>2
<1> QED
  BY <1>1, <1>3, EnteredNext, AppInvariant, PTL DEF AppSpec, ExeEntry

(***************************************************************************)
(* Pairs of unaligned loads.                                               *)
(***************************************************************************)
BeforeLoop == phase \in {"start", "load bios", "load exe", "set up"}

\* Until the loop no instruction has been executed; in it, the first part
\* of an unaligned word is in flight after the step that loaded it.
PairInv ==
  /\ BeforeLoop => cpu.instr = IllegalInstr
  /\ phase = "loop" => FirstLoaded

\* Every action of main keeps that.
LEMMA PairNext == AppInv /\ PairInv /\ [main]_appVars => PairInv'
PROOF
<1> SUFFICES ASSUME AppInv, PairInv, [main]_appVars PROVE PairInv'
  OBVIOUS
<1>1. TypeOK /\ ZeroInv /\ Memory
  BY DEF AppInv, CpuPart
<1>2. ASSUME cpu' = cpu, phase' = "loop" => FirstLoaded', BeforeLoop' => BeforeLoop
      PROVE  PairInv'
  BY <1>2 DEF PairInv
<1>3. CASE CheckArguments \/ load_bios_file \/ load_exe_file \/ Crash
  <2>1. cpu' = cpu /\ phase' # "loop" /\ (BeforeLoop' => BeforeLoop)
    BY <1>3 DEF CheckArguments, load_bios_file, load_exe_file, Crash, Exit, machine, BeforeLoop
  <2> QED
    BY <1>2, <2>1
<1>4. CASE SetUp
  <2>1. BeforeLoop /\ cpu' = psycho_cpu_reset(cpu) /\ phase' = "loop"
    BY <1>4 DEF SetUp, BeforeLoop
  <2>2. cpu'.instr = IllegalInstr
    BY <1>1, <2>1 DEF PairInv, psycho_cpu_reset, TypeOK, CpuType
  <2>3. FirstLoaded'
    BY <2>2 DEF FirstLoaded, IllegalInstr
  <2> QED
    BY <2>1, <2>3 DEF PairInv, BeforeLoop
<1>5. CASE ReachShell
  <2>1. phase' \in {"trapped", "step"}
    BY <1>5 DEF ReachShell
  <2> QED
    BY <2>1 DEF PairInv, BeforeLoop
<1>6. CASE psycho_step
  <2>1. psycho_cpu_step /\ phase' \in {"trapped", "loop"}
    BY <1>6 DEF psycho_step
  <2> QED
    BY <1>1, <2>1, FirstStep DEF PairInv, BeforeLoop
<1>7. CASE UNCHANGED appVars
  <2>1. cpu' = cpu /\ host' = host /\ phase' = phase
    BY <1>7 DEF appVars, machine, app
  <2>2. \A x : WordOf(x)' = WordOf(x)
    BY <2>1 DEF WordOf, LoadValue, B!psycho_bus_load_word, B!load
  <2>3. FirstLoaded => FirstLoaded'
    BY <2>1, <2>2 DEF FirstLoaded
  <2> QED
    BY <2>1, <2>3 DEF PairInv, BeforeLoop
<1> QED
  BY <1>3, <1>4, <1>5, <1>6, <1>7 DEF main

\* Two loads of the parts of an unaligned word, in either order, leave its
\* four bytes in flight, wherever it lies and whatever the register held.
THEOREM PairsLoad == AppSpec => UnalignedPair
PROOF
<1>1. AppInit => PairInv
  BY DEF AppInit, PairInv, BeforeLoop, ZeroCpu
<1>2. ASSUME AppInv, PairInv, [main]_appVars PROVE phase = "loop" => PairLoaded
  <2>1. SUFFICES ASSUME phase = "loop" PROVE PairLoaded
    OBVIOUS
  <2>2. CASE psycho_step
    <3>1. psycho_cpu_step /\ TypeOK /\ ZeroInv /\ Memory /\ FirstLoaded
      BY <1>2, <2>1, <2>2 DEF psycho_step, AppInv, CpuPart, PairInv
    <3> QED
      BY <3>1, PairStep
  <2>3. CASE ~ psycho_step
    <3>1. cpu'.instr = cpu.instr
      <4>1. CASE ReachShell
        <5>1. PICK exe : exe = argv.exe
          OBVIOUS
        <5>2. cpu' = cpu \/ cpu' = exe_cpu(cpu, exe)
          BY <4>1, <5>1 DEF ReachShell, psycho_exe_load
        <5> QED
          BY <1>2, <5>2 DEF exe_cpu, AppInv, CpuPart, TypeOK, CpuType
      <4>2. CASE Crash \/ UNCHANGED appVars
        BY <4>2 DEF Crash, appVars, machine, app
      <4> QED
        BY <1>2, <2>1, <2>3, <4>1, <4>2 DEF main, CheckArguments, load_bios_file, load_exe_file, SetUp
    <3> QED
      BY <3>1 DEF PairLoaded, PairOf
  <2> QED
    BY <2>2, <2>3
<1>3. AppInv /\ PairInv /\ [main]_appVars => [phase = "loop" => PairLoaded]_appVars
  BY <1>2
<1> QED
  BY <1>1, <1>3, PairNext, AppInvariant, PTL DEF AppSpec, UnalignedPair

\* A store of psycho_cpu_step, unless it is misaligned or an SW with the
\* cache isolated (cpu.c:648), changes the bytes at its own addresses to
\* those of its register, and no step of the guest changes memory otherwise.
THEOREM StoresWrite == AppSpec => StoresLand
PROOF
<1>1. ASSUME AppInv, main, Stepping, phase' # "crashed" PROVE StoreLands
  <2>1. psycho_cpu_step
    BY <1>1, OnlyStep DEF psycho_step
  <2> QED
    BY <1>1, <2>1, StoreStep DEF AppInv, CpuPart
<1>2. AppInv /\ [main]_appVars => [Stepping /\ phase' # "crashed" => StoreLands]_appVars
  BY <1>1
<1> QED
  BY <1>2, AppInvariant, PTL DEF AppSpec, StoresLand
=============================================================================
