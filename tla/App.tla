-------------------------------- MODULE App --------------------------------
(***************************************************************************)
(* The application: app/main.c driving the context of core/ctx.c.          *)
(*                                                                         *)
(* main reads the BIOS and the EXE file, sets the context up and steps it  *)
(* for ever; when the PC reaches the BIOS's shell it loads the EXE in its  *)
(* place.  A step is the CPU's step between the hooks of the disassembler  *)
(* and of the BIOS tracer.  Files may be missing, unreadable or too short. *)
(***************************************************************************)
EXTENDS Machine, BiosTrace, Disasm

CONSTANTS
  CPU_GPR_T1, CPU_GPR_A0, CPU_GPR_GP, CPU_GPR_SP, CPU_GPR_FP,
  SHELL_PC,        \* 0x80030000
  EXE_MIN_SIZE,    \* 0x800
  CommandLine      \* the pairs of BIOS file and EXE file main is given

\* size is that of the file, id whether it starts with "PS-X EXE", code what
\* is at EXE_OFF_CODE, and the others are the fields of the header.
ExeFile == [size : Nat, id : BOOLEAN, pc : Word, gp : Word, dest_addr : Word,
            file_size : Nat, sp_fp_base : Word, sp_fp_off : Word,
            code : Seq(Byte)]

\* psycho_exe_load trusts the header: the code is in the file and has its
\* place in RAM.
ExeContract(exe) ==
  /\ exe.file_size <= Len(exe.code)
  /\ vaddr_to_paddr(exe.dest_addr) + exe.file_size <= B!RAM_SIZE

ASSUME AppAssumption ==
  /\ {CPU_GPR_T1, CPU_GPR_A0, CPU_GPR_GP, CPU_GPR_SP, CPU_GPR_FP} \subseteq Reg \ {0}
  /\ CPU_GPR_GP # CPU_GPR_SP /\ CPU_GPR_GP # CPU_GPR_FP /\ CPU_GPR_SP # CPU_GPR_FP
  /\ SHELL_PC \in Word /\ SHELL_PC % 4 = 0
  /\ EXE_MIN_SIZE \in Nat
  /\ \A cl \in CommandLine : /\ cl.bios \in Seq(Byte)
                             /\ cl.exe \in ExeFile
                             /\ ExeContract(cl.exe)
  /\ CharSize = ByteSize
  /\ HostTraps

VARIABLES
  phase,     \* where main is; "exit", "trapped" and "crashed" are the ends
  argv,      \* the files on the command line
  tty_file,  \* was tty_file.txt opened?
  t,         \* the context's log and bios_trace
  disasm     \* the context's disasm

Phase == {"start", "load bios", "load exe", "set up", "loop", "step",
          "exit", "trapped", "crashed"}

app == <<phase, argv, tty_file, t, disasm>>
machine == <<cpu, bus, halted, host>>
appVars == <<machine, app>>

AppInit ==
  /\ cpu = ZeroCpu /\ bus = << >> /\ halted = FALSE
  /\ host = [c \in B!HostCell |-> IF c >= B!pointers THEN ByteSize - 1 ELSE 0]
  /\ phase = "start" /\ argv \in CommandLine /\ tty_file = FALSE
  /\ t = InitTrace /\ disasm = InitDisasm

(***************************************************************************)
(* main, up to its loop.                                                   *)
(***************************************************************************)
Exit == phase' = "exit"

CheckArguments ==
  /\ phase = "start"
  /\ phase' \in {"load bios", "exit"}
  /\ UNCHANGED <<machine, argv, tty_file, t, disasm>>

\* emu.bios after fread of at most BIOS_SIZE bytes.
ReadBios ==
  [c \in B!HostCell |->
     IF c - B!bios \in 0 .. B!BIOS_SIZE - 1 /\ c - B!bios < Len(argv.bios)
     THEN argv.bios[c - B!bios + 1] ELSE host[c]]

\* stat and fopen may fail, and so may the read, at once or in the middle.
load_bios_file ==
  /\ phase = "load bios"
  /\ \/ host' = host /\ Exit
     \/ /\ host' = ReadBios
        /\ \/ Exit
           \/ Len(argv.bios) >= B!BIOS_SIZE /\ phase' = "load exe"
  /\ UNCHANGED <<cpu, bus, halted, argv, tty_file, t, disasm>>

\* exe_data and exe_size are argv.exe from here on.
load_exe_file ==
  /\ phase = "load exe"
  /\ Exit \/ phase' = "set up"
  /\ UNCHANGED <<machine, argv, tty_file, t, disasm>>

\* The result of fopen("tty_file.txt") is not checked.
SetUp ==
  /\ phase = "set up"
  /\ tty_file' \in BOOLEAN
  /\ cpu' = psycho_cpu_reset(cpu)
  /\ t' = psycho_log_level_set_global(psycho_tty_stdout_enable(t, TRUE), TRACE)
  /\ disasm' = psycho_disasm_trace_instruction_enable(disasm, TRUE)
  /\ phase' = "loop"
  /\ UNCHANGED <<bus, halted, host, argv>>

(***************************************************************************)
(* psycho_exe_load.                                                        *)
(***************************************************************************)
EXE_SIZE_BAD == -1
EXE_ID_BAD   == -2
PSYCHO_OK    == 1

exe_return_code(exe) == CASE exe.size < EXE_MIN_SIZE -> EXE_SIZE_BAD
                          [] exe.size >= EXE_MIN_SIZE /\ ~ exe.id -> EXE_ID_BAD
                          [] OTHER -> PSYCHO_OK

\* Mutant: the EXE loader redirects only the second fetch.
MutExeCpu(c, exe) ==
  [c EXCEPT !.next_pc = exe.pc, !.gpr[CPU_GPR_GP] = exe.gp,
            !.gpr[CPU_GPR_FP] = Wrap(exe.sp_fp_base + exe.sp_fp_off)]

exe_cpu(c, exe) ==
  LET base == IF exe.sp_fp_base # 0 THEN exe.sp_fp_base ELSE c.gpr[CPU_GPR_SP]
  IN  [c EXCEPT !.pc = exe.pc, !.next_pc = Wrap(exe.pc + 4),
                !.gpr[CPU_GPR_GP] = exe.gp,
                !.gpr[CPU_GPR_SP] = Wrap(base + exe.sp_fp_off),
                !.gpr[CPU_GPR_FP] = Wrap(exe.sp_fp_base + exe.sp_fp_off)]

exe_host(exe) ==
  LET dst == B!ram + vaddr_to_paddr(exe.dest_addr)
  IN  [c \in B!HostCell |->
         IF c - dst \in 0 .. exe.file_size - 1 THEN exe.code[c - dst + 1] ELSE host[c]]

psycho_exe_load(exe) ==
  IF exe_return_code(exe) = PSYCHO_OK
  THEN /\ cpu' = exe_cpu(cpu, exe)
       /\ host' = exe_host(exe)
       /\ t' = psycho_log_level_set_global(
                 LOG_HANDLE([t EXCEPT !.out = << >>], "CTX", INFO, << >>), TRACE)
  ELSE /\ UNCHANGED <<cpu, host>>
       /\ t' = psycho_log_level_set_global([t EXCEPT !.out = << >>], TRACE)

\* The top of the loop when the PC is the shell's; a return code of zero
\* would trap.
ReachShell ==
  /\ phase = "loop" /\ cpu.pc = SHELL_PC
  /\ psycho_exe_load(argv.exe)
  /\ phase' = IF exe_return_code(argv.exe) = 0 THEN "trapped" ELSE "step"
  /\ disasm' = psycho_disasm_trace_instruction_enable(disasm, TRUE)
  /\ UNCHANGED <<bus, halted, argv, tty_file>>

(***************************************************************************)
(* psycho_step.                                                            *)
(***************************************************************************)
\* Mutant: the disassembler looks where a data access would.
MutPeeked == InstrAt(DataPaddr(cpu.pc))

\* psycho_bus_peek_word of a PC that need not be aligned.
Peeked == InstrAt(vaddr_to_paddr(cpu.pc))

DisasmBegun ==
  IF disasm.trace_instruction
  THEN psycho_disasm_trace_begin(disasm, Peeked, cpu.pc) ELSE disasm

TraceBegun ==
  psycho_bios_trace_begin([t EXCEPT !.out = << >>], cpu.pc,
                          cpu.gpr[CPU_GPR_T1], cpu.gpr[CPU_GPR_A0])

\* handle_tty_message on a file that was not opened.
WritesToNull == ~ tty_file /\ \E n \in DOMAIN TraceBegun.out : TraceBegun.out[n].kind = "TTY"

Stepping == phase = "step" \/ (phase = "loop" /\ cpu.pc # SHELL_PC)

psycho_step ==
  /\ Stepping
  /\ ~ WritesToNull
  /\ psycho_cpu_step
  /\ disasm' = DisasmBegun
  /\ IF halted'
     THEN /\ phase' = "trapped"
          /\ t' = LOG_HANDLE(TraceBegun, "CPU", ERROR, << >>)
     ELSE /\ phase' = "loop"
          /\ t' = psycho_bios_trace_end(
                    IF disasm.trace_instruction
                    THEN psycho_disasm_trace_end(TraceBegun, DisasmBegun)
                    ELSE TraceBegun)
  /\ UNCHANGED <<argv, tty_file>>

\* fprintf on a null FILE ends the process in the middle of the step.
Crash ==
  /\ Stepping
  /\ WritesToNull
  /\ phase' = "crashed"
  /\ UNCHANGED <<machine, argv, tty_file, t, disasm>>

main ==
  \/ CheckArguments \/ load_bios_file \/ load_exe_file \/ SetUp
  \/ ReachShell \/ psycho_step \/ Crash

\* Between two iterations of its loop main has no loop of its own: it leaves
\* each of these phases.  That is the fairness of one running thread, stated
\* of phase alone; nothing is assumed of the guest's program.
InPassing ==
  \/ phase \in {"start", "load bios", "load exe", "set up", "step"}
  \/ phase = "loop" /\ cpu.pc = SHELL_PC

MainGoesOn == InPassing /\ phase' \in Phase \ {phase}

AppSpec == AppInit /\ [][main]_appVars /\ WF_phase(MainGoesOn)

(***************************************************************************)
(* Properties.                                                             *)
(***************************************************************************)
\* Type invariant of the composed system.
AppTypeOK ==
  /\ cpu \in CpuType
  /\ host \in [B!HostCell -> Byte]
  /\ phase \in Phase
  /\ halted <=> phase = "trapped"

\* Neither the guest's stores nor the EXE loader reach the pointers behind
\* the scratchpad: the CPU's alignment checks keep the bus's memcpys inside
\* their region, and the loader's contract its own.
PointersIntact == B!PointersIntact

\* The instructions that the disassembler shows under another name than their
\* own: srlv and srav break out of its switch after they are formatted and end
\* as illegal (disasm.c:137-145), divu is shown as div (disasm.c:184), and
\* syscall, break, bgezal and rfe have no case (disasm.c:230, 252, 270).
Misnamed == {"SRLV", "SRAV", "DIVU", "SYSCALL", "BREAK", "BGEZAL", "RFE"}

\* The instructions whose text has a target to compare with.
Targeted == (BranchOps \cup {"J", "JAL"}) \ Misnamed

\* The trace shows the address of the instruction the step executes, the
\* instruction's own name and the target it jumps to, although the text is
\* made of a word peeked at before the step.  Exempt are a misaligned PC,
\* where the step executes the exception entry point instead, the names of
\* Misnamed, and the target of a branch in a delay slot, which branch_if
\* moves by 12 bytes (cpu.c:49).
TraceFaithful ==
  [][ Stepping /\ phase' # "crashed" /\ cpu.pc % 4 = 0 =>
        LET i     == cpu'.instr
            shown == disasm'.result
        IN  /\ shown.pc = cpu'.curr_pc
            /\ i.op \notin Misnamed => shown.str.op = IF i = Nop THEN "NOP" ELSE i.op
            /\ \/ i.op \notin Targeted
               \/ i.op \in BranchOps /\ cpu'.in_branch_delay_slot
               \/ cpu'.next_pc = Wrap(cpu'.curr_pc + 8)
               \/ cpu'.next_pc = shown.str.target
    ]_appVars

\* An instruction is the word a data load from its address would return:
\* code written by a store is the code that runs.  Exempt are the addresses
\* that get_phys_addr folds and the fetch does not (cpu.c:153).
FetchSeesStores ==
  [][ Stepping /\ phase' # "crashed" /\ cpu'.curr_pc \notin HackSize .. HackLimit =>
        cpu'.instr = Decode[LoadValue(DataPaddr(cpu'.curr_pc), 4)] ]_appVars

\* LWR and LWL three bytes on, in either order and without an instruction
\* in between, load the four bytes at the address, although the second one
\* runs while the first is still in flight (cpu.c:549).  Exempt is a pair
\* that psycho_exe_load comes between: it changes registers and memory.
UnalignedPair == [][phase = "loop" => PairLoaded]_appVars

\* Memory changes by the guest's stores only, each of which writes the bytes
\* of its register where byte loads find them, under any alignment, data
\* breakpoint and state of the cache.
StoresLand == [][Stepping /\ phase' # "crashed" => StoreLands]_appVars

ExeLoaded == exe_return_code(argv.exe) = PSYCHO_OK

\* The EXE's word at a virtual address.
ExeWord(vaddr) ==
  LET off == vaddr - argv.exe.dest_addr
  IN  ValueOf(SubSeq(argv.exe.code, off + 1, off + 4))

HasWord(vaddr) ==
  vaddr % 4 = 0 /\ vaddr - argv.exe.dest_addr \in 0 .. argv.exe.file_size - 4

\* What the header says of $gp, $fp and, unless its base is 0, $sp.
Header(exe) ==
  [r \in {CPU_GPR_GP, CPU_GPR_FP} \cup (IF exe.sp_fp_base # 0 THEN {CPU_GPR_SP} ELSE {}) |->
     IF r = CPU_GPR_GP THEN exe.gp ELSE Wrap(exe.sp_fp_base + exe.sp_fp_off)]

\* A load that the EXE's first instruction finds completed, although it was
\* issued before the loader set its register.  After a jump there is none.
LateLoad(r) == cpu.ld_next.dst = r /\ ~ cpu.in_branch_delay_slot

\* The EXE starts as its file says.  The step after the load executes the
\* EXE's own first instruction; that instruction, and the one after it, read
\* $gp, $sp and $fp as the header sets them.  The loader leaves the load
\* slots alone (ctx.c:99-118), so that load_delay_process may overwrite what
\* it has set (cpu.c:84-86), and these are all the ways in which that
\* happens: a load in ld_next, which only a fall-through into the shell has,
\* reaches the first instruction, and one in ld_pend, issued just before the
\* shell was reached and so by the delay slot if a jump led there, the second.
ExeEntry ==
  [][ phase = "step" /\ ExeLoaded /\ phase' # "crashed" =>
        /\ HasWord(cpu.pc) =>
             cpu'.curr_pc = argv.exe.pc /\ cpu'.instr = Decode[ExeWord(cpu.pc)]
        /\ \A r \in DOMAIN Header(argv.exe) :
             /\ Visible(cpu)[r] = Header(argv.exe)[r] \/ LateLoad(r)
             /\ \/ Visible(cpu')[r] = Header(argv.exe)[r] \/ LateLoad(r)
                \/ cpu.ld_pend.dst = r
                \/ cpu'.wrote.dst = r
    ]_appVars

\* Once the PC is the shell's, the EXE runs: its first instruction is
\* executed.
ExeRuns ==
  (phase = "loop" /\ cpu.pc = SHELL_PC /\ ExeLoaded /\ HasWord(argv.exe.pc))
    ~> (/\ cpu.curr_pc = argv.exe.pc
        /\ cpu.instr = Decode[ExeWord(argv.exe.pc)])

\* "if (!psycho_exe_load(&emu.ctx, exe_data, exe_size)) __builtin_trap();"
\* (main.c:198): main steps on from the shell only with an EXE loaded.
\* Violated: no return code is zero.
FailedLoadTraps == phase = "step" => ExeLoaded
=============================================================================
