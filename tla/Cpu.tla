-------------------------------- MODULE Cpu --------------------------------
(***************************************************************************)
(* The R3000 interpreter of psycho, core/cpu.c.                            *)
(*                                                                         *)
(* cpu is struct psycho_cpu; the helpers of cpu.c are operators from a cpu *)
(* record to the updated one, in the order the C code calls them, and one  *)
(* action of Next is one call of psycho_cpu_step executing one kind of     *)
(* instruction.  Memory is the environment of this module: a fetch from a  *)
(* mapped address returns any instruction of Instr, a data load any word   *)
(* of MemWord, and the data-side calls on the bus are recorded in bus.     *)
(***************************************************************************)
EXTENDS CpuDefs, Sequences

CONSTANTS
  Instr,      \* the instructions memory can hold
  CodeAddr,   \* the physical addresses a word load finds mapped
  MemWord,    \* the words a data load can return
  HostTraps   \* does the host's handler of PSYCHO_EVENT_CPU_ILLEGAL trap?

ASSUME CpuAssumption ==
  /\ Instr \subseteq InstrType
  /\ MemWord \subseteq Word
  /\ HostTraps \in BOOLEAN

VARIABLES
  cpu,     \* struct psycho_cpu, and the three ghost fields below
  bus,     \* the data-side bus calls of the last step, in order
  halted   \* the host has trapped

vars == <<cpu, bus, halted>>

NoLoad == [dst |-> 0, val |-> 0]

(***************************************************************************)
(* Register writes and the two-stage load delay.  Ghost field wrote is the *)
(* register the last instruction computed, and the value; dst = 0 if none. *)
(***************************************************************************)
Written(reg, val) == IF reg = 0 THEN NoLoad ELSE [dst |-> reg, val |-> val]

\* Mutant: a load in flight survives a write to its destination.
MutGprSet(c, reg, val) ==
  [c EXCEPT !.gpr[reg] = val, !.wrote = Written(reg, val)]

gpr_set(c, reg, val) ==
  [c EXCEPT !.ld_next = IF @.dst = reg THEN NoLoad ELSE @,
            !.gpr[reg] = val,
            !.wrote = Written(reg, val)]

\* Mutant: a load to $zero is not rejected.
MutGprSetDelayed(c, dst, val) ==
  [c EXCEPT !.ld_pend = [dst |-> dst, val |-> val],
            !.ld_next = IF @.dst = dst THEN NoLoad ELSE @]

\* Mutant: a load skips the first stage of its delay.
MutGprSetDelayedEarly(c, dst, val) ==
  IF dst = 0 THEN c ELSE [c EXCEPT !.ld_next = [dst |-> dst, val |-> val]]

gpr_set_delayed(c, dst, val) ==
  IF dst = 0 THEN c
  ELSE [c EXCEPT !.ld_pend = [dst |-> dst, val |-> val],
                 !.ld_next = IF @.dst = dst THEN NoLoad ELSE @]

load_delay_process(c) ==
  [c EXCEPT !.gpr[c.ld_next.dst] = c.ld_next.val,
            !.ld_next = c.ld_pend,
            !.ld_pend = NoLoad]

(***************************************************************************)
(* Branches and jumps.                                                     *)
(***************************************************************************)
branch_if(c, imm, cond_met) ==
  LET adjust == IF c.in_branch_delay_slot THEN 12 ELSE 0
  IN  [c EXCEPT !.next_in_branch_delay_slot = TRUE,
                !.next_pc = IF cond_met
                            THEN calc_branch_addr(imm, c.curr_pc + adjust)
                            ELSE @]

\* Mutant: the delay slot of a jump is not announced.
MutJmp(c, val) == [c EXCEPT !.next_pc = val]

jmp(c, val) == [c EXCEPT !.next_in_branch_delay_slot = TRUE, !.next_pc = val]

LinkAddr(c) == Wrap(c.curr_pc + 8)

(***************************************************************************)
(* Exceptions.  Ghost field raised lists the exceptions raised by the      *)
(* instruction the last step executed; ghost field via tells how the last  *)
(* action got there: a reset, a fetch, or a fetch from the exception entry *)
(* point because the PC was misaligned.                                    *)
(***************************************************************************)
\* Mutant: next_pc is not redirected, so the entry point's second
\* instruction is skipped.
MutRaiseException(c, exc) ==
  [c EXCEPT !.cop0["EPC"] = c.curr_pc,
            !.cop0["SR"] = sr_push(@),
            !.cop0["CAUSE"] = cause_set(@, exc),
            !.pc = EXC_PC,
            !.raised = Append(@, exc)]

\* Mutant: an exception throws away the load that is about to complete.
MutRaiseFlush(c, exc) ==
  [c EXCEPT !.cop0["EPC"] = c.curr_pc,
            !.cop0["SR"] = sr_push(@),
            !.cop0["CAUSE"] = cause_set(@, exc),
            !.pc = EXC_PC,
            !.next_pc = Wrap(EXC_PC + 4),
            !.ld_next = NoLoad,
            !.raised = Append(@, exc)]

raise_exception(c, exc) ==
  [c EXCEPT !.cop0["EPC"] = c.curr_pc,
            !.cop0["SR"] = sr_push(@),
            !.cop0["CAUSE"] = cause_set(@, exc),
            !.pc = EXC_PC,
            !.next_pc = Wrap(EXC_PC + 4),
            !.raised = Append(@, exc)]

BreakpointHit(c, vaddr) ==
  /\ BitsOf(c.cop0["DCIC"]) \cap DCIC_BITS # {}
  /\ \A i \in BitsOf(c.cop0["BDAM"]) :
       i \in BitsOf(vaddr) <=> i \in BitsOf(c.cop0["BDA"])

\* Mutant: the breakpoint redirects only the first fetch.
MutDbgDataBpChk(c, vaddr) ==
  IF BreakpointHit(c, vaddr)
  THEN [raise_exception(c, EXCEPTION_BP) EXCEPT !.pc = DBG_PC]
  ELSE c

dbg_data_bp_chk(c, vaddr) ==
  IF BreakpointHit(c, vaddr)
  THEN [raise_exception(c, EXCEPTION_BP) EXCEPT !.pc = DBG_PC,
                                                !.next_pc = Wrap(DBG_PC + 4)]
  ELSE c

(***************************************************************************)
(* The head and the tail of psycho_cpu_step, and reset.                    *)
(***************************************************************************)
\* Mutant: the PC is not checked before the fetch.
MutFetch(c, i) ==
  LET d == load_delay_process(
             [c EXCEPT !.in_branch_delay_slot = c.next_in_branch_delay_slot,
                       !.next_in_branch_delay_slot = FALSE])
  IN  [d EXCEPT !.curr_pc = d.pc, !.instr = i, !.pc = d.next_pc,
                !.next_pc = Wrap(d.next_pc + 4),
                !.via = "fetch", !.raised = << >>, !.wrote = NoLoad]

\* Mutant: the flag that announces a delay slot is never cleared.
MutFetchSlot(c, i) ==
  LET d == load_delay_process(
             [c EXCEPT !.in_branch_delay_slot = c.next_in_branch_delay_slot])
      e == IF d.pc % 4 # 0 THEN raise_exception(d, EXCEPTION_ADEL) ELSE d
  IN  [e EXCEPT !.curr_pc = e.pc, !.instr = i, !.pc = e.next_pc,
                !.next_pc = Wrap(e.next_pc + 4),
                !.via = IF d.pc % 4 # 0 THEN "fault" ELSE "fetch",
                !.raised = << >>, !.wrote = NoLoad]

fetch(c, i) ==
  LET d == load_delay_process(
             [c EXCEPT !.in_branch_delay_slot = c.next_in_branch_delay_slot,
                       !.next_in_branch_delay_slot = FALSE])
      misaligned == d.pc % 4 # 0
      e == IF misaligned THEN raise_exception(d, EXCEPTION_ADEL) ELSE d
  IN  [e EXCEPT !.curr_pc = e.pc, !.instr = i, !.pc = e.next_pc,
                !.next_pc = Wrap(e.next_pc + 4),
                !.via = IF misaligned THEN "fault" ELSE "fetch",
                !.raised = << >>, !.wrote = NoLoad]

\* gpr[0] = 0x00000000 at the end of the step.
Retire(c) == [c EXCEPT !.gpr[0] = 0]

psycho_cpu_reset(c) ==
  [c EXCEPT !.pc = RESET_PC, !.next_pc = Wrap(RESET_PC + 4),
            !.curr_pc = RESET_PC,
            !.in_branch_delay_slot = FALSE,
            !.next_in_branch_delay_slot = FALSE,
            !.ld_next = NoLoad, !.ld_pend = NoLoad,
            !.via = "reset", !.raised = << >>, !.wrote = NoLoad]

\* The context is zero-initialised static storage.
ZeroCpu ==
  [gpr |-> [r \in Reg |-> 0], cop0 |-> [r \in Cop0Reg |-> 0],
   hi |-> 0, lo |-> 0, curr_pc |-> 0, pc |-> 0, next_pc |-> 0,
   instr |-> IllegalInstr, ld_next |-> NoLoad, ld_pend |-> NoLoad,
   next_in_branch_delay_slot |-> FALSE, in_branch_delay_slot |-> FALSE,
   via |-> "reset", raised |-> << >>, wrote |-> NoLoad]

\* psycho_init resets it.
Init ==
  /\ cpu = psycho_cpu_reset(ZeroCpu)
  /\ bus = << >>
  /\ halted = FALSE

(***************************************************************************)
(* One action per kind of instruction.  F(i) is the CPU after the head of  *)
(* the step; Done ends a step that makes no data access.                   *)
(***************************************************************************)
F(i) == fetch(cpu, i)
Rs(i) == F(i).gpr[i.rs]
Rt(i) == F(i).gpr[i.rt]

Done(c) == cpu' = Retire(c) /\ bus' = << >> /\ halted' = halted

AluReg(i) ==
  /\ i.op \in AluRegOps
  /\ Done(gpr_set(F(i), i.rd, alu_reg(i.op, Rs(i), Rt(i), i.arg)))

AluImm(i) ==
  /\ i.op \in AluImmOps
  /\ Done(gpr_set(F(i), i.rt, alu_imm(i.op, Rs(i), i.arg)))

\* The exact result of ADD, SUB and ADDI and the register it goes to.
ExactResult(i) ==
  CASE i.op = "ADD" -> Signed(Rs(i)) + Signed(Rt(i))
    [] i.op = "SUB" -> Signed(Rs(i)) - Signed(Rt(i))
    [] OTHER        -> Signed(sign_ext_16_32(i.arg)) + Signed(Rs(i))

AddSub(i) ==
  /\ i.op \in OverflowOps
  /\ ~ Overflows(ExactResult(i))
  /\ Done(gpr_set(F(i), IF i.op = "ADDI" THEN i.rt ELSE i.rd, Wrap(ExactResult(i))))

AddSubOverflow(i) ==
  /\ i.op \in OverflowOps
  /\ Overflows(ExactResult(i))
  /\ Done(raise_exception(F(i), EXCEPTION_OV))

MulDivResult(i) ==
  CASE i.op = "MULT"  -> mult(Rs(i), Rt(i))
    [] i.op = "MULTU" -> multu(Rs(i), Rt(i))
    [] i.op = "DIV"   -> div(Rs(i), Rt(i))
    [] OTHER          -> divu(Rs(i), Rt(i))

MulDiv(i) ==
  /\ i.op \in MulDivOps
  /\ Done([F(i) EXCEPT !.hi = MulDivResult(i).hi, !.lo = MulDivResult(i).lo])

HiLoMove(i) ==
  \/ i.op = "MFHI" /\ Done(gpr_set(F(i), i.rd, F(i).hi))
  \/ i.op = "MFLO" /\ Done(gpr_set(F(i), i.rd, F(i).lo))
  \/ i.op = "MTHI" /\ Done([F(i) EXCEPT !.hi = Rs(i)])
  \/ i.op = "MTLO" /\ Done([F(i) EXCEPT !.lo = Rs(i)])

\* J, JAL and JR do not check the target; JALR does, after it has linked.
Jump(i) ==
  LET f == F(i)
      target == calc_jmp_addr(i.arg, f.curr_pc)
      linked(reg) == gpr_set(f, reg, LinkAddr(f))
  IN  \/ i.op = "J"   /\ Done(jmp(f, target))
      \/ i.op = "JAL" /\ Done(jmp(linked(CPU_GPR_RA), target))
      \/ i.op = "JR"  /\ Done(jmp(f, Rs(i)))
      \/ i.op = "JALR" /\ Rs(i) % 4 = 0 /\ Done(jmp(linked(i.rd), Rs(i)))
      \/ i.op = "JALR" /\ Rs(i) % 4 # 0
           /\ Done(raise_exception(linked(i.rd), EXCEPTION_ADEL))

Taken(i) ==
  CASE i.op = "BEQ"  -> Rs(i) = Rt(i)
    [] i.op = "BNE"  -> Rs(i) # Rt(i)
    [] i.op = "BLEZ" -> Signed(Rs(i)) <= 0
    [] i.op = "BGTZ" -> Signed(Rs(i)) > 0
    [] i.op \in {"BLTZ", "BLTZAL"} -> Negative(Rs(i))
    [] OTHER -> ~ Negative(Rs(i))

Branch(i) ==
  /\ i.op \in BranchOps
  /\ LET c == IF i.op \in {"BLTZAL", "BGEZAL"}
              THEN gpr_set(F(i), CPU_GPR_RA, LinkAddr(F(i)))
              ELSE F(i)
     IN  Done(branch_if(c, i.arg, Taken(i)))

Trap(i) ==
  \/ i.op = "SYSCALL" /\ Done(raise_exception(F(i), EXCEPTION_SYS))
  \/ i.op = "BREAK"   /\ Done(raise_exception(F(i), EXCEPTION_BP))

Cop0(i) ==
  \/ i.op = "MFC0" /\ Done(gpr_set(F(i), i.rt, F(i).cop0[i.cr]))
  \/ i.op = "MTC0" /\ Done([F(i) EXCEPT !.cop0[i.cr] = Rt(i)])
  \/ i.op = "RFE"  /\ Done([F(i) EXCEPT !.cop0["SR"] = sr_pop(@)])

\* illegal() tells the host and the step returns without its tail.
Illegal(i) ==
  /\ i.op = "ILLEGAL"
  /\ cpu' = F(i)
  /\ bus' = << >>
  /\ halted' = HostTraps

(***************************************************************************)
(* Data accesses.  get_phys_addr checks the data breakpoint first; a hit   *)
(* raises the exception and the access goes on all the same.               *)
(***************************************************************************)
AccessLen(op) == CASE op \in {"LB", "LBU", "SB"} -> 1
                   [] op \in {"LH", "LHU", "SH"} -> 2
                   [] OTHER -> 4

Unaligned == {"LWL", "LWR", "SWL", "SWR"}

Vaddr(i) == get_vaddr(i.arg, Rs(i))
Checked(i) == dbg_data_bp_chk(F(i), Vaddr(i))
Paddr(i) == DataPaddr(Vaddr(i))
ByteInWord(i) == Paddr(i) % 4

\* Mutant: no halfword or word access is ever found misaligned.
MutMisaligned(i) == FALSE

Misaligned(i) == i.op \notin Unaligned /\ Paddr(i) % AccessLen(i.op) # 0

\* The address on the bus: LWL, LWR, SWL and SWR access the containing word.
BusAddr(i) == IF i.op \in Unaligned THEN Paddr(i) - ByteInWord(i) ELSE Paddr(i)

\* Mutant: LWL and LWR merge with the register alone.
MutMergeBase(i) == Rt(i)

\* LWL and LWR merge with a load of the same register still in flight.
MergeBase(i) == IF F(i).ld_next.dst = i.rt THEN F(i).ld_next.val ELSE Rt(i)

load_value(i, w) ==
  CASE i.op = "LB"  -> sign_ext_8_32(w % ByteSize)
    [] i.op = "LBU" -> w % ByteSize
    [] i.op = "LH"  -> sign_ext_16_32(w % HalfSize)
    [] i.op = "LHU" -> w % HalfSize
    [] i.op = "LW"  -> w
    [] i.op = "LWL" -> lwl_merge(MergeBase(i), w, ByteInWord(i))
    [] OTHER        -> lwr_merge(MergeBase(i), w, ByteInWord(i))

store_value(i, w) ==
  CASE i.op = "SB"  -> Rt(i) % ByteSize
    [] i.op = "SH"  -> Rt(i) % HalfSize
    [] i.op = "SW"  -> Rt(i)
    [] i.op = "SWL" -> swl_merge(Rt(i), w, ByteInWord(i))
    [] OTHER        -> swr_merge(Rt(i), w, ByteInWord(i))

Call(kind, i, val) ==
  [kind |-> kind, addr |-> BusAddr(i), len |-> AccessLen(i.op), val |-> val]

Load(i, w) ==
  /\ i.op \in LoadOps
  /\ ~ Misaligned(i)
  /\ cpu' = Retire(gpr_set_delayed(Checked(i), i.rt, load_value(i, w)))
  /\ bus' = << Call("load", i, w) >>
  /\ halted' = halted

LoadAddressError(i) ==
  /\ i.op \in LoadOps
  /\ Misaligned(i)
  /\ Done(raise_exception(Checked(i), EXCEPTION_ADEL))

\* Mutant: every store is lost with the cache isolated.
MutIsolated(i) == i.op \in StoreOps /\ SR_ISC_BIT \in BitsOf(F(i).cop0["SR"])

\* With the cache isolated SW, and SW alone, does nothing at all.
Isolated(i) == i.op = "SW" /\ SR_ISC_BIT \in BitsOf(F(i).cop0["SR"])

StoreIsolated(i) == Isolated(i) /\ Done(F(i))

Store(i, w) ==
  /\ i.op \in StoreOps
  /\ ~ Isolated(i)
  /\ ~ Misaligned(i)
  /\ cpu' = Retire(Checked(i))
  /\ bus' = IF i.op \in Unaligned
            THEN << Call("load", i, w), Call("store", i, store_value(i, w)) >>
            ELSE << Call("store", i, store_value(i, w)) >>
  /\ halted' = halted

StoreAddressError(i) ==
  /\ i.op \in StoreOps
  /\ ~ Isolated(i)
  /\ Misaligned(i)
  /\ Done(raise_exception(Checked(i), EXCEPTION_ADES))

\* The host may reset the context between two steps (psycho_reset).
Reset == cpu' = psycho_cpu_reset(cpu) /\ bus' = << >> /\ halted' = halted

(***************************************************************************)
(* The instruction fetch: the address psycho_cpu_step fetches from, and    *)
(* what the bus may return for it.                                         *)
(***************************************************************************)
FetchPc == IF cpu.pc % 4 # 0 THEN EXC_PC ELSE cpu.pc

Fetched == IF vaddr_to_paddr(FetchPc) \in CodeAddr THEN Instr ELSE {IllegalInstr}

\* The switch of psycho_cpu_step; words is what a data load can return.
Execute(i, words) ==
  \/ AluReg(i) \/ AluImm(i) \/ AddSub(i) \/ AddSubOverflow(i)
  \/ MulDiv(i) \/ HiLoMove(i) \/ Jump(i) \/ Branch(i)
  \/ Trap(i) \/ Cop0(i) \/ Illegal(i)
  \/ \E w \in words : Load(i, w)
  \/ LoadAddressError(i)
  \/ \E w \in words : Store(i, w)
  \/ StoreIsolated(i) \/ StoreAddressError(i)

Step == \E i \in Fetched : Execute(i, MemWord)

Next == ~ halted /\ (Step \/ Reset)

Spec == Init /\ [][Next]_vars

(***************************************************************************)
(* Properties.                                                             *)
(***************************************************************************)
LoadSlot == [dst : Reg, val : Word]

CpuType ==
  [gpr : [Reg -> Word], cop0 : [Cop0Reg -> Word], hi : Word, lo : Word,
   curr_pc : Word, pc : Word, next_pc : Word, instr : InstrType,
   ld_next : LoadSlot, ld_pend : LoadSlot,
   next_in_branch_delay_slot : BOOLEAN, in_branch_delay_slot : BOOLEAN,
   via : {"reset", "fetch", "fault"}, raised : Seq(ExcCode),
   wrote : LoadSlot]

BusCall == [kind : {"load", "store"}, addr : Word, len : {1, 2, 4}, val : Word]

\* Type invariant: every register, both load slots and every bus call of
\* psycho_cpu_step stay within their C types.
TypeOK ==
  /\ cpu \in CpuType
  /\ bus \in Seq(BusCall)
  /\ halted \in BOOLEAN

\* An empty load slot (dst = 0) carries the value 0, so that the write of
\* load_delay_process to gpr[0] is harmless.
SlotsClean ==
  /\ cpu.ld_next.dst = 0 => cpu.ld_next.val = 0
  /\ cpu.ld_pend.dst = 0 => cpu.ld_pend.val = 0

\* $zero reads as zero between any two steps, also after an illegal
\* instruction, whose step returns before gpr[0] is cleared (cpu.c:402).
GprZero == cpu.gpr[0] = 0

\* The PC pair is consecutive unless a delay slot is pending: no exception,
\* reset or fall-through leaves a half-taken branch behind.
NextPcSequential ==
  ~ cpu.next_in_branch_delay_slot => cpu.next_pc = Wrap(cpu.pc + 4)

\* A delay slot is pending only after a jump or a branch that raised nothing.
DelaySlotAfterBranch ==
  cpu.next_in_branch_delay_slot =>
    cpu.instr.op \in JumpOps \cup BranchOps /\ cpu.raised = << >>

\* No load is in flight across a jump: the instruction in the delay slot
\* finds none behind it, and the one at the target finds every register
\* written back.  What reads gpr between two steps (the BIOS tracer,
\* bios-trace.c:125, and the EXE loader, which adds to $sp, ctx.c:117) then
\* sees the registers the next instruction sees; only a fall-through can
\* leave it one behind.
JumpLeavesNoLoad ==
  /\ cpu.next_in_branch_delay_slot => cpu.ld_pend.dst = 0
  /\ cpu.in_branch_delay_slot => cpu.ld_next.dst = 0

\* No instruction is executed from a misaligned address: a misaligned PC is
\* replaced by the exception entry point before the fetch (cpu.c:201).
FetchAligned == cpu.curr_pc % 4 = 0

\* After an exception the next two instructions come from the entry point:
\* neither the branch an excepting delay slot belongs to nor the data
\* access that follows a breakpoint redirects control again.
ExceptionEntry ==
  cpu.raised # << >> =>
    /\ cpu.pc \in {EXC_PC, DBG_PC}
    /\ cpu.next_pc = Wrap(cpu.pc + 4)
    /\ ~ cpu.next_in_branch_delay_slot

\* Every access the bus is asked for is aligned to its size, which is what
\* keeps the memcpys of bus.c inside a region.
BusAligned ==
  \A n \in DOMAIN bus : bus[n].addr % bus[n].len = 0

\* The registers the next instruction reads: gpr with the older of the two
\* loads in flight written back (load_delay_process).
Visible(c) == [c.gpr EXCEPT ![c.ld_next.dst] = c.ld_next.val]

DataBreakpoint(c) ==
  c.instr.op \in LoadOps \cup StoreOps /\ EXCEPTION_BP \in {c.raised[n] : n \in DOMAIN c.raised}

\* An instruction that raises an exception has no other effect: the load
\* before it completes, and no register, HI, LO or memory cell changes.
\* Two cases are exempt: JALR links before it checks its target (cpu.c:246),
\* and a data breakpoint does not stop the access it is raised for.
PreciseExceptions ==
  [][ cpu'.raised # << >> /\ ~ DataBreakpoint(cpu') =>
        /\ bus' = << >>
        /\ cpu'.hi = cpu.hi /\ cpu'.lo = cpu.lo
        /\ \A r \in Reg :
             \/ cpu'.instr.op = "JALR" /\ r = cpu'.instr.rd
             \/ Visible(cpu')[r] = [Visible(cpu) EXCEPT ![cpu.ld_pend.dst] = cpu.ld_pend.val][r]
    ]_vars

(***************************************************************************)
(* The comments of raise_exception (cpu.c:108-116), as properties; each is *)
(* violated (see the findings in README.md).                               *)
(***************************************************************************)
\* "the pre-existing user-mode and interrupt-enable flags in SR are saved by
\* pushing the 3-entry stack inside SR": after the exceptions of one
\* instruction the previous pair is the pair that was current before it.
ModeSaved ==
  [][ cpu'.raised # << >> /\ cpu'.via = "fetch" =>
        (cpu'.cop0["SR"] \div 4) % 4 = cpu.cop0["SR"] % 4 ]_vars

\* "sets up EPC to point to the restart location": when the fetch finds the
\* PC misaligned, the restart location is that PC.
EpcOfMisalignedFetch ==
  [][ cpu'.via = "fault" /\ cpu'.raised = << >> /\ cpu'.instr.op # "MTC0" =>
        cpu'.cop0["EPC"] = cpu.pc ]_vars

\* "sets up EPC to point to the restart location": for an instruction in the
\* delay slot of a branch, restarting means executing the branch again.
EpcOfDelaySlot ==
  [][ cpu'.raised # << >> /\ cpu'.via = "fetch" /\ cpu'.in_branch_delay_slot =>
        cpu'.cop0["EPC"] = cpu.curr_pc ]_vars

(***************************************************************************)
(* The register file as the programmer sees it: LoadDelay.                 *)
(***************************************************************************)
Arch == INSTANCE LoadDelay WITH
          regs <- Visible(cpu), inflight <- cpu.ld_pend,
          computed <- cpu.wrote, reset <- cpu.via = "reset"

\* The two load slots implement a register file with one architectural load
\* delay slot.
LoadDelaySpec == Arch!Spec
=============================================================================
