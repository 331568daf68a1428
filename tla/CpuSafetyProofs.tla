-------------------------- MODULE CpuSafetyProofs --------------------------
(***************************************************************************)
(* The safety invariants of Cpu, for every word size, register count,      *)
(* memory map and set of instructions.                                     *)
(*                                                                         *)
(* The proofs go through two lemmas that say what one step does to the     *)
(* register file (RegEffect) and to the flow of control (ControlEffect),   *)
(* each by one case per action; every theorem below then follows from      *)
(* them without looking at an instruction again.                           *)
(***************************************************************************)
EXTENDS CpuProofs

(***************************************************************************)
(* What each helper of cpu.c leaves alone.                                 *)
(***************************************************************************)
SameRegs(c, d) ==
  /\ c.gpr = d.gpr /\ c.ld_next = d.ld_next /\ c.ld_pend = d.ld_pend
  /\ c.wrote = d.wrote

SameFlow(c, d) ==
  /\ c.pc = d.pc /\ c.next_pc = d.next_pc /\ c.curr_pc = d.curr_pc
  /\ c.next_in_branch_delay_slot = d.next_in_branch_delay_slot
  /\ c.in_branch_delay_slot = d.in_branch_delay_slot
  /\ c.raised = d.raised /\ c.instr = d.instr /\ c.via = d.via

\* A register write does not touch the flow of control.
LEMMA gpr_set_Frame ==
  ASSUME NEW c \in CpuType, NEW reg \in Reg, NEW val \in Word
  PROVE  /\ SameFlow(gpr_set(c, reg, val), c)
         /\ gpr_set(c, reg, val).gpr = [c.gpr EXCEPT ![reg] = val]
         /\ gpr_set(c, reg, val).ld_next = IF c.ld_next.dst = reg THEN NoLoad ELSE c.ld_next
         /\ gpr_set(c, reg, val).ld_pend = c.ld_pend
         /\ gpr_set(c, reg, val).wrote = Written(reg, val)
PROOF
  BY DEF gpr_set, CpuType, SameFlow

\* Neither does a delayed one, and it writes no register.
LEMMA gpr_set_delayed_Frame ==
  ASSUME NEW c \in CpuType, NEW dst \in Reg, NEW val \in Word
  PROVE  /\ SameFlow(gpr_set_delayed(c, dst, val), c)
         /\ dst = 0 => SameRegs(gpr_set_delayed(c, dst, val), c)
         /\ dst # 0 =>
              /\ gpr_set_delayed(c, dst, val).gpr = c.gpr
              /\ gpr_set_delayed(c, dst, val).ld_next =
                   IF c.ld_next.dst = dst THEN NoLoad ELSE c.ld_next
              /\ gpr_set_delayed(c, dst, val).ld_pend = [dst |-> dst, val |-> val]
              /\ gpr_set_delayed(c, dst, val).wrote = c.wrote
PROOF
  BY DEF gpr_set_delayed, CpuType, SameFlow, SameRegs

Redirected(c, d, entry) ==
  /\ SameRegs(c, d)
  /\ c.pc = entry /\ c.next_pc = Wrap(entry + 4)
  /\ c.curr_pc = d.curr_pc /\ c.instr = d.instr /\ c.via = d.via
  /\ c.next_in_branch_delay_slot = d.next_in_branch_delay_slot
  /\ c.in_branch_delay_slot = d.in_branch_delay_slot
  /\ c.raised # << >>

\* An exception redirects both PCs and touches no register or load slot.
LEMMA raise_exception_Frame ==
  ASSUME NEW c \in CpuType, NEW exc \in ExcCode
  PROVE  Redirected(raise_exception(c, exc), c, EXC_PC)
PROOF
<1>1. c.raised \in Seq(ExcCode)
  BY CpuFields
<1>2. Append(c.raised, exc) # << >>
  BY <1>1
<1> QED
  BY <1>2 DEF raise_exception, CpuType, Redirected, SameRegs

\* The breakpoint check does nothing or redirects to the debug entry point.
LEMMA dbg_data_bp_chk_Frame ==
  ASSUME NEW c \in CpuType, NEW vaddr
  PROVE  \/ dbg_data_bp_chk(c, vaddr) = c
         \/ Redirected(dbg_data_bp_chk(c, vaddr), c, DBG_PC)
PROOF
<1>1. raise_exception(c, EXCEPTION_BP) \in CpuType
  BY raise_exception_Type DEF ExcCode
<1>2. Redirected(raise_exception(c, EXCEPTION_BP), c, EXC_PC)
  BY raise_exception_Frame DEF ExcCode
<1> QED
  BY <1>1, <1>2 DEF dbg_data_bp_chk, CpuType, Redirected, SameRegs

\* A jump announces its delay slot and redirects the fetch after it.
LEMMA jmp_Frame ==
  ASSUME NEW c \in CpuType, NEW val \in Word
  PROVE  /\ SameRegs(jmp(c, val), c)
         /\ jmp(c, val).next_in_branch_delay_slot = TRUE
         /\ jmp(c, val).pc = c.pc /\ jmp(c, val).curr_pc = c.curr_pc
         /\ jmp(c, val).raised = c.raised /\ jmp(c, val).instr = c.instr
         /\ jmp(c, val).via = c.via
         /\ jmp(c, val).in_branch_delay_slot = c.in_branch_delay_slot
PROOF
  BY DEF jmp, CpuType, SameRegs

\* So does a branch, taken or not.
LEMMA branch_if_Frame ==
  ASSUME NEW c \in CpuType, NEW n \in Nat, NEW cond
  PROVE  /\ SameRegs(branch_if(c, n, cond), c)
         /\ branch_if(c, n, cond).next_in_branch_delay_slot = TRUE
         /\ branch_if(c, n, cond).pc = c.pc
         /\ branch_if(c, n, cond).curr_pc = c.curr_pc
         /\ branch_if(c, n, cond).raised = c.raised
         /\ branch_if(c, n, cond).instr = c.instr
         /\ branch_if(c, n, cond).via = c.via
         /\ branch_if(c, n, cond).in_branch_delay_slot = c.in_branch_delay_slot
PROOF
  BY DEF branch_if, CpuType, SameRegs

\* The tail of the step writes gpr[0] only.
LEMMA Retire_Frame ==
  ASSUME NEW c \in CpuType
  PROVE  /\ SameFlow(Retire(c), c)
         /\ Retire(c).gpr = [c.gpr EXCEPT ![0] = 0]
         /\ Retire(c).ld_next = c.ld_next /\ Retire(c).ld_pend = c.ld_pend
         /\ Retire(c).wrote = c.wrote
PROOF
  BY DEF Retire, CpuType, SameFlow

(***************************************************************************)
(* What the head of the step does.                                         *)
(***************************************************************************)
\* After the head the older load has been written back, the younger one has
\* moved up, the PC pair is consecutive and nothing is raised or announced.
LEMMA fetch_Frame ==
  ASSUME NEW c \in CpuType, NEW i \in InstrType
  PROVE  /\ fetch(c, i).gpr = Visible(c)
         /\ fetch(c, i).ld_next = c.ld_pend
         /\ fetch(c, i).ld_pend = NoLoad
         /\ fetch(c, i).wrote = NoLoad
         /\ fetch(c, i).next_pc = Wrap(fetch(c, i).pc + 4)
         /\ fetch(c, i).curr_pc = IF c.pc % 4 # 0 THEN EXC_PC ELSE c.pc
         /\ c.pc % 4 = 0 => fetch(c, i).pc = c.next_pc
         /\ fetch(c, i).next_in_branch_delay_slot = FALSE
         /\ fetch(c, i).in_branch_delay_slot = c.next_in_branch_delay_slot
         /\ fetch(c, i).raised = << >>
         /\ fetch(c, i).instr = i
         /\ fetch(c, i).via # "reset"
PROOF
<1> DEFINE s == [c EXCEPT !.in_branch_delay_slot = c.next_in_branch_delay_slot,
                          !.next_in_branch_delay_slot = FALSE]
           d == load_delay_process(s)
           e == IF d.pc % 4 # 0 THEN raise_exception(d, EXCEPTION_ADEL) ELSE d
<1>1. /\ s \in CpuType
      /\ SameRegs(s, c) /\ s.pc = c.pc /\ s.next_pc = c.next_pc
      /\ s.next_in_branch_delay_slot = FALSE
      /\ s.in_branch_delay_slot = c.next_in_branch_delay_slot
  BY DEF CpuType, SameRegs
<1>2. d \in CpuType
  BY <1>1, load_delay_process_Type
<1>3. /\ d.gpr = Visible(c) /\ d.ld_next = c.ld_pend /\ d.ld_pend = NoLoad
      /\ d.pc = c.pc /\ d.next_pc = c.next_pc /\ d.next_in_branch_delay_slot = FALSE
      /\ d.in_branch_delay_slot = c.next_in_branch_delay_slot
  BY <1>1 DEF load_delay_process, CpuType, Visible, SameRegs
<1> HIDE DEF d
<1>4. e \in CpuType
  BY <1>2, raise_exception_Type DEF ExcCode
<1>5. Redirected(raise_exception(d, EXCEPTION_ADEL), d, EXC_PC)
  BY <1>2, raise_exception_Frame DEF ExcCode
<1>6. /\ e.gpr = Visible(c) /\ e.ld_next = c.ld_pend /\ e.ld_pend = NoLoad
      /\ e.next_in_branch_delay_slot = FALSE
      /\ e.in_branch_delay_slot = c.next_in_branch_delay_slot
  BY <1>3, <1>5 DEF Redirected, SameRegs
<1>7. /\ e.pc = IF c.pc % 4 # 0 THEN EXC_PC ELSE c.pc
      /\ c.pc % 4 = 0 => e.next_pc = c.next_pc
  BY <1>3, <1>5 DEF Redirected
<1>8. fetch(c, i) = [e EXCEPT !.curr_pc = e.pc, !.instr = i, !.pc = e.next_pc,
                              !.next_pc = Wrap(e.next_pc + 4),
                              !.via = IF d.pc % 4 # 0 THEN "fault" ELSE "fetch",
                              !.raised = << >>, !.wrote = NoLoad]
  BY DEF fetch, d
<1> HIDE DEF e
<1> QED
  BY <1>4, <1>6, <1>7, <1>8 DEF CpuType

(***************************************************************************)
(* The effect of a step on the register file: it writes no register, one   *)
(* register, or issues a load.                                             *)
(***************************************************************************)
RegQuiet(c, old) ==
  /\ c.gpr = Visible(old) \/ c.gpr = [Visible(old) EXCEPT ![0] = 0]
  /\ c.ld_next = old.ld_pend
  /\ c.ld_pend = NoLoad
  /\ c.wrote = NoLoad

RegWrite(c, old, r, v) ==
  /\ c.gpr = [[Visible(old) EXCEPT ![r] = v] EXCEPT ![0] = 0]
  /\ c.ld_next = IF old.ld_pend.dst = r THEN NoLoad ELSE old.ld_pend
  /\ c.ld_pend = NoLoad
  /\ c.wrote = Written(r, v)

RegLoad(c, old, r, v) ==
  /\ c.instr.op \in LoadOps
  /\ r # 0
  /\ c.gpr = [Visible(old) EXCEPT ![0] = 0]
  /\ c.ld_next = IF old.ld_pend.dst = r THEN NoLoad ELSE old.ld_pend
  /\ c.ld_pend = [dst |-> r, val |-> v]
  /\ c.wrote = NoLoad

RegStep ==
  \/ RegQuiet(cpu', cpu)
  \/ \E r \in Reg, v \in Word : RegWrite(cpu', cpu, r, v) \/ RegLoad(cpu', cpu, r, v)

\* The effect on the flow of control: straight on, a jump or branch, or an
\* exception.
FlowStep(i) ==
  /\ cpu'.instr = i /\ cpu'.via # "reset"
  /\ cpu'.curr_pc = FetchPc
  /\ cpu'.in_branch_delay_slot = cpu.next_in_branch_delay_slot
  /\ \/ /\ ~ cpu'.next_in_branch_delay_slot
        /\ cpu'.next_pc = Wrap(cpu'.pc + 4)
        /\ cpu'.raised = << >>
     \/ /\ i.op \in JumpOps \cup BranchOps
        /\ cpu'.next_in_branch_delay_slot
        /\ cpu'.raised = << >>
     \/ /\ ~ cpu'.next_in_branch_delay_slot
        /\ cpu'.pc \in {EXC_PC, DBG_PC}
        /\ cpu'.next_pc = Wrap(cpu'.pc + 4)

\* A step that ends in Done(x) has the effect of x and the tail.
LEMMA DoneEffect ==
  ASSUME NEW x \in CpuType, Done(x)
  PROVE  /\ cpu'.gpr = [x.gpr EXCEPT ![0] = 0]
         /\ cpu'.ld_next = x.ld_next /\ cpu'.ld_pend = x.ld_pend
         /\ cpu'.wrote = x.wrote
         /\ SameFlow(cpu', x)
PROOF
  BY Retire_Frame DEF Done

\* A finished step that changed no register or slot after the head.
LEMMA DoneQuiet ==
  ASSUME cpu \in CpuType, NEW i \in InstrType, NEW x \in CpuType, Done(x),
         SameRegs(x, F(i))
  PROVE  RegQuiet(cpu', cpu) /\ RegStep
PROOF
<1>1. F(i).gpr = Visible(cpu) /\ F(i).ld_next = cpu.ld_pend /\ F(i).ld_pend = NoLoad
      /\ F(i).wrote = NoLoad
  BY fetch_Frame DEF F
<1>2. /\ cpu'.gpr = [x.gpr EXCEPT ![0] = 0]
      /\ cpu'.ld_next = x.ld_next /\ cpu'.ld_pend = x.ld_pend
      /\ cpu'.wrote = x.wrote
  BY DoneEffect
<1> QED
  BY <1>1, <1>2 DEF SameRegs, RegStep, RegQuiet

\* A finished step that set one register has the effect of a write.
LEMMA DoneWrite ==
  ASSUME cpu \in CpuType, NEW i \in InstrType, NEW x \in CpuType, Done(x),
         NEW r \in Reg, NEW v \in Word, SameRegs(x, gpr_set(F(i), r, v))
  PROVE  RegWrite(cpu', cpu, r, v) /\ RegStep
PROOF
<1>1. F(i) \in CpuType
  BY HeadType
<1>2. F(i).gpr = Visible(cpu) /\ F(i).ld_next = cpu.ld_pend /\ F(i).ld_pend = NoLoad
      /\ F(i).wrote = NoLoad
  BY fetch_Frame DEF F
<1>3. /\ x.gpr = [F(i).gpr EXCEPT ![r] = v]
      /\ x.ld_next = IF F(i).ld_next.dst = r THEN NoLoad ELSE F(i).ld_next
      /\ x.ld_pend = F(i).ld_pend /\ x.wrote = Written(r, v)
  BY <1>1, gpr_set_Frame DEF SameRegs
<1>4. /\ cpu'.gpr = [x.gpr EXCEPT ![0] = 0]
      /\ cpu'.ld_next = x.ld_next /\ cpu'.ld_pend = x.ld_pend
      /\ cpu'.wrote = x.wrote
  BY DoneEffect
<1>5. RegWrite(cpu', cpu, r, v)
  BY <1>2, <1>3, <1>4 DEF RegWrite
<1> QED
  BY <1>5 DEF RegStep

\* What a step does to the registers.
LEMMA RegEffect ==
  ASSUME TypeOK, NEW i \in InstrType, NEW words \in SUBSET Word, Execute(i, words)
  PROVE  RegStep
PROOF
<1>1. \/ AluReg(i) \/ AluImm(i) \/ AddSub(i) \/ AddSubOverflow(i)
      \/ MulDiv(i) \/ HiLoMove(i) \/ Jump(i) \/ Branch(i)
      \/ Trap(i) \/ Cop0(i) \/ Illegal(i)
      \/ \E w \in words : Load(i, w)
      \/ LoadAddressError(i)
      \/ \E w \in words : Store(i, w)
      \/ StoreIsolated(i) \/ StoreAddressError(i)
  BY DEF Execute
<1>2. cpu \in CpuType /\ i \in InstrType
  BY DEF TypeOK
<1>3. /\ F(i) \in CpuType /\ Rs(i) \in Word /\ Rt(i) \in Word
      /\ i.rs \in Reg /\ i.rt \in Reg /\ i.rd \in Reg
      /\ i.cr \in Cop0Reg /\ i.arg \in Nat
  BY <1>2, HeadType
<1>4. ASSUME NEW r \in Reg, NEW v \in Word, Done(gpr_set(F(i), r, v))
      PROVE  RegStep
  <2>1. gpr_set(F(i), r, v) \in CpuType
    BY <1>3, <1>4, gpr_set_Type
  <2> QED
    BY <1>2, <1>4, <2>1, DoneWrite DEF SameRegs
<1>5. ASSUME NEW c \in CpuType, SameRegs(c, F(i)), NEW exc \in ExcCode,
             Done(raise_exception(c, exc))
      PROVE  RegStep
  <2>1. raise_exception(c, exc) \in CpuType
    BY raise_exception_Type
  <2>2. SameRegs(raise_exception(c, exc), F(i))
    BY <1>5, raise_exception_Frame DEF Redirected, SameRegs
  <2> QED
    BY <1>2, <1>5, <2>1, <2>2, DoneQuiet
<1>6. LinkAddr(F(i)) \in Word
  <2>1. F(i).curr_pc \in Nat
    BY <1>3, CpuFields, WordFacts
  <2> QED
    BY <2>1, WrapType DEF LinkAddr
<1>7. Checked(i) \in CpuType /\ SameRegs(Checked(i), F(i)) /\ Checked(i).instr = i
  <2>1. Checked(i) \in CpuType
    BY <1>2, AccessType, WordFacts
  <2>2. Checked(i) = F(i) \/ Redirected(Checked(i), F(i), DBG_PC)
    BY <1>3, dbg_data_bp_chk_Frame DEF Checked
  <2>3. F(i).instr = i
    BY <1>2, fetch_Frame DEF F
  <2> QED
    BY <2>1, <2>2, <2>3 DEF Redirected, SameRegs
<1>8. CASE AluReg(i)
  BY <1>8, <1>3, <1>4, alu_reg_Type DEF AluReg
<1>9. CASE AluImm(i)
  BY <1>9, <1>3, <1>4, alu_imm_Type DEF AluImm
<1>10. CASE AddSub(i)
  <2>1. ExactResult(i) \in Int
    BY <1>3, SignedType, SignExtType DEF ExactResult
  <2> QED
    BY <1>10, <2>1, <1>3, <1>4, WrapType DEF AddSub
<1>11. CASE AddSubOverflow(i)
  BY <1>11, <1>3, <1>5 DEF AddSubOverflow, ExcCode, SameRegs
<1>12. CASE MulDiv(i)
  <2> DEFINE x == [F(i) EXCEPT !.hi = MulDivResult(i).hi, !.lo = MulDivResult(i).lo]
  <2>1. MulDivResult(i) \in HiLoType
    BY <1>3, MultType, DivType DEF MulDivResult
  <2>2. x \in CpuType /\ SameRegs(x, F(i))
    BY <2>1, <1>3 DEF HiLoType, CpuType, SameRegs
  <2> QED
    BY <1>12, <2>2, <1>2, DoneQuiet DEF MulDiv
<1>13. CASE HiLoMove(i)
  <2>1. F(i).hi \in Word /\ F(i).lo \in Word
    BY <1>3, CpuFields
  <2>2. /\ [F(i) EXCEPT !.hi = Rs(i)] \in CpuType
        /\ [F(i) EXCEPT !.lo = Rs(i)] \in CpuType
        /\ SameRegs([F(i) EXCEPT !.hi = Rs(i)], F(i))
        /\ SameRegs([F(i) EXCEPT !.lo = Rs(i)], F(i))
    BY <1>3 DEF CpuType, SameRegs
  <2> QED
    BY <1>13, <2>1, <2>2, <1>2, <1>3, <1>4, DoneQuiet DEF HiLoMove
<1>14. CASE Jump(i)
  <2> DEFINE target == calc_jmp_addr(i.arg, F(i).curr_pc)
             linked(reg) == gpr_set(F(i), reg, LinkAddr(F(i)))
  <2>1. target \in Word
    BY <1>3, CpuFields, AddrType
  <2>2. \A r \in Reg : linked(r) \in CpuType
    BY <1>3, <1>6, gpr_set_Type
  <2> HIDE DEF target
  <2>3. ASSUME NEW v \in Word, Done(jmp(F(i), v)) PROVE RegStep
    BY <2>3, <1>2, <1>3, jmp_Type, jmp_Frame, DoneQuiet
  <2>4. ASSUME NEW r \in Reg, NEW v \in Word, Done(jmp(linked(r), v)) PROVE RegStep
    <3>1. jmp(linked(r), v) \in CpuType /\ SameRegs(jmp(linked(r), v), linked(r))
      BY <2>2, jmp_Type, jmp_Frame
    <3> QED
      BY <2>4, <3>1, <1>2, <1>6, DoneWrite
  <2>5. ASSUME Done(raise_exception(linked(i.rd), EXCEPTION_ADEL)) PROVE RegStep
    <3>1. /\ raise_exception(linked(i.rd), EXCEPTION_ADEL) \in CpuType
          /\ SameRegs(raise_exception(linked(i.rd), EXCEPTION_ADEL), linked(i.rd))
      BY <2>2, <1>3, raise_exception_Type, raise_exception_Frame DEF ExcCode, Redirected
    <3> QED
      BY <2>5, <3>1, <1>2, <1>3, <1>6, DoneWrite
  <2> QED
    BY <1>14, <2>1, <2>3, <2>4, <2>5, <1>3, NoLoadType DEF Jump, target
<1>15. CASE Branch(i)
  <2>1. CASE i.op \in {"BLTZAL", "BGEZAL"}
    <3> DEFINE c == gpr_set(F(i), CPU_GPR_RA, LinkAddr(F(i)))
    <3>1. c \in CpuType
      BY <1>3, <1>6, NoLoadType, gpr_set_Type
    <3>2. /\ branch_if(c, i.arg, Taken(i)) \in CpuType
          /\ SameRegs(branch_if(c, i.arg, Taken(i)), c)
      BY <3>1, <1>3, branch_if_Type, branch_if_Frame
    <3>3. Done(branch_if(c, i.arg, Taken(i)))
      BY <1>15, <2>1 DEF Branch
    <3> QED
      BY <3>2, <3>3, <1>2, <1>6, NoLoadType, DoneWrite
  <2>2. CASE i.op \notin {"BLTZAL", "BGEZAL"}
    <3>1. Done(branch_if(F(i), i.arg, Taken(i)))
      BY <1>15, <2>2 DEF Branch
    <3> QED
      BY <3>1, <1>2, <1>3, branch_if_Type, branch_if_Frame, DoneQuiet
  <2> QED
    BY <2>1, <2>2
<1>16. CASE Trap(i)
  BY <1>16, <1>3, <1>5 DEF Trap, ExcCode, SameRegs
<1>17. CASE Cop0(i)
  <2>1. F(i).cop0[i.cr] \in Word /\ F(i).cop0["SR"] \in Word
    BY <1>3, CpuFields DEF Cop0Reg
  <2>2. /\ [F(i) EXCEPT !.cop0[i.cr] = Rt(i)] \in CpuType
        /\ SameRegs([F(i) EXCEPT !.cop0[i.cr] = Rt(i)], F(i))
    BY <1>3 DEF CpuType, SameRegs
  <2>3. sr_pop(F(i).cop0["SR"]) \in Word
    BY <2>1, StatusType DEF ExcCode
  <2>4. /\ [F(i) EXCEPT !.cop0["SR"] = sr_pop(@)] \in CpuType
        /\ SameRegs([F(i) EXCEPT !.cop0["SR"] = sr_pop(@)], F(i))
    BY <2>3, <1>3 DEF CpuType, Cop0Reg, SameRegs
  <2> QED
    BY <1>17, <2>1, <2>2, <2>4, <1>2, <1>3, <1>4, DoneQuiet DEF Cop0
<1>18. CASE Illegal(i)
  BY <1>18, <1>2, fetch_Frame DEF Illegal, F, RegStep, RegQuiet
<1>19. CASE \E w \in words : Load(i, w)
  <2>1. PICK w \in words : Load(i, w)
    BY <1>19
  <2>2. w \in Word
    BY <2>1
  <2> DEFINE v == load_value(i, w)
             x == gpr_set_delayed(Checked(i), i.rt, v)
  <2>3. v \in Word
    BY <2>2, <1>2, AccessType
  <2> HIDE DEF v
  <2>4. x \in CpuType
    BY <2>3, <1>3, <1>7, gpr_set_delayed_Type
  <2>5. /\ cpu'.gpr = [x.gpr EXCEPT ![0] = 0]
        /\ cpu'.ld_next = x.ld_next /\ cpu'.ld_pend = x.ld_pend
        /\ cpu'.wrote = x.wrote
    BY <2>1, <2>4, Retire_Frame DEF Load, v
  <2>6. CASE i.rt = 0
    <3>1. x = Checked(i)
      BY <2>6 DEF gpr_set_delayed
    <3> QED
      BY <2>5, <3>1, <1>2, <1>7, fetch_Frame DEF SameRegs, F, RegStep, RegQuiet
  <2>7. CASE i.rt # 0
    <3>1. /\ x.gpr = F(i).gpr
          /\ x.ld_next = IF F(i).ld_next.dst = i.rt THEN NoLoad ELSE F(i).ld_next
          /\ x.ld_pend = [dst |-> i.rt, val |-> v]
          /\ x.wrote = F(i).wrote
      BY <2>3, <2>7, <1>3, <1>7, gpr_set_delayed_Frame DEF SameRegs
    <3>2. cpu'.instr.op \in LoadOps
      <4>0. SameFlow(x, Checked(i))
        BY <2>3, <1>3, <1>7, gpr_set_delayed_Frame
      <4>1. x.instr = i
        BY <4>0, <1>7 DEF SameFlow
      <4>2. cpu'.instr = x.instr
        BY <2>1, <2>4, Retire_Frame DEF Load, v, SameFlow
      <4> QED
        BY <2>1, <4>1, <4>2 DEF Load
    <3>3. RegLoad(cpu', cpu, i.rt, v)
      BY <2>5, <2>7, <3>1, <3>2, <1>2, fetch_Frame DEF F, RegLoad
    <3> QED
      BY <3>3, <2>3, <1>3 DEF RegStep
  <2> QED
    BY <2>6, <2>7
<1>20. CASE LoadAddressError(i)
  BY <1>20, <1>5, <1>7 DEF LoadAddressError, ExcCode
<1>21. CASE \E w \in words : Store(i, w)
  <2>1. cpu' = Retire(Checked(i))
    BY <1>21 DEF Store
  <2>2. /\ cpu'.gpr = [Checked(i).gpr EXCEPT ![0] = 0]
        /\ cpu'.ld_next = Checked(i).ld_next /\ cpu'.ld_pend = Checked(i).ld_pend
        /\ cpu'.wrote = Checked(i).wrote
    BY <2>1, <1>7, Retire_Frame
  <2> QED
    BY <2>2, <1>2, <1>7, fetch_Frame DEF SameRegs, F, RegStep, RegQuiet
<1>22. CASE StoreIsolated(i)
  BY <1>22, <1>2, <1>3, DoneQuiet DEF StoreIsolated, SameRegs
<1>23. CASE StoreAddressError(i)
  BY <1>23, <1>5, <1>7 DEF StoreAddressError, ExcCode
<1> QED
  BY <1>1, <1>8, <1>9, <1>10, <1>11, <1>12, <1>13, <1>14, <1>15, <1>16, <1>17,
     <1>18, <1>19, <1>20, <1>21, <1>22, <1>23

(***************************************************************************)
(* The effect on the flow of control.                                      *)
(***************************************************************************)
\* The CPU after the head, or after a register write that follows it.
Straight(c, i) ==
  /\ c.instr = i /\ c.via # "reset"
  /\ c.curr_pc = FetchPc
  /\ c.in_branch_delay_slot = cpu.next_in_branch_delay_slot
  /\ ~ c.next_in_branch_delay_slot
  /\ c.next_pc = Wrap(c.pc + 4)
  /\ c.raised = << >>

Excepting(c, i) ==
  /\ c.instr = i /\ c.via # "reset"
  /\ c.curr_pc = FetchPc
  /\ c.in_branch_delay_slot = cpu.next_in_branch_delay_slot
  /\ ~ c.next_in_branch_delay_slot
  /\ c.pc \in {EXC_PC, DBG_PC}
  /\ c.next_pc = Wrap(c.pc + 4)

Jumping(c, i) ==
  /\ c.instr = i /\ c.via # "reset"
  /\ i.op \in JumpOps \cup BranchOps
  /\ c.curr_pc = FetchPc
  /\ c.in_branch_delay_slot = cpu.next_in_branch_delay_slot
  /\ c.next_in_branch_delay_slot
  /\ c.raised = << >>

FlowOf(c, i) == Straight(c, i) \/ Excepting(c, i) \/ Jumping(c, i)

\* The tail of the step keeps the flow of control.
LEMMA FlowRetire ==
  ASSUME NEW x \in CpuType, NEW i, FlowOf(x, i), cpu' = Retire(x)
  PROVE  FlowStep(i)
PROOF
<1>1. SameFlow(cpu', x)
  BY Retire_Frame
<1> QED
  BY <1>1 DEF SameFlow, FlowOf, Straight, Excepting, Jumping, FlowStep

\* What a step does to the flow of control.
LEMMA ControlEffect ==
  ASSUME TypeOK, NEW i \in InstrType, NEW words \in SUBSET Word, Execute(i, words)
  PROVE  FlowStep(i)
PROOF
<1>1. \/ AluReg(i) \/ AluImm(i) \/ AddSub(i) \/ AddSubOverflow(i)
      \/ MulDiv(i) \/ HiLoMove(i) \/ Jump(i) \/ Branch(i)
      \/ Trap(i) \/ Cop0(i) \/ Illegal(i)
      \/ \E w \in words : Load(i, w)
      \/ LoadAddressError(i)
      \/ \E w \in words : Store(i, w)
      \/ StoreIsolated(i) \/ StoreAddressError(i)
  BY DEF Execute
<1>2. cpu \in CpuType /\ i \in InstrType
  BY DEF TypeOK
<1>3. /\ F(i) \in CpuType /\ Rs(i) \in Word /\ Rt(i) \in Word
      /\ i.rs \in Reg /\ i.rt \in Reg /\ i.rd \in Reg
      /\ i.cr \in Cop0Reg /\ i.arg \in Nat
  BY <1>2, HeadType
<1>4. Straight(F(i), i)
  BY <1>2, fetch_Frame DEF F, Straight, FetchPc
<1>5. ASSUME NEW x \in CpuType, FlowOf(x, i), Done(x) PROVE FlowStep(i)
  BY <1>5, FlowRetire DEF Done
<1>6. ASSUME NEW r \in Reg, NEW v \in Word
      PROVE  gpr_set(F(i), r, v) \in CpuType /\ Straight(gpr_set(F(i), r, v), i)
  <2>1. gpr_set(F(i), r, v) \in CpuType
    BY <1>3, gpr_set_Type
  <2>2. SameFlow(gpr_set(F(i), r, v), F(i))
    BY <1>3, gpr_set_Frame
  <2> QED
    BY <2>1, <2>2, <1>4 DEF SameFlow, Straight
<1>7. ASSUME NEW c \in CpuType, Straight(c, i) \/ Excepting(c, i), NEW exc \in ExcCode
      PROVE  raise_exception(c, exc) \in CpuType /\ FlowOf(raise_exception(c, exc), i)
  <2>1. Redirected(raise_exception(c, exc), c, EXC_PC)
    BY raise_exception_Frame
  <2>2. Excepting(raise_exception(c, exc), i)
    BY <2>1, <1>7 DEF Redirected, Straight, Excepting
  <2> QED
    BY <2>2, raise_exception_Type DEF FlowOf
<1>8. Checked(i) \in CpuType /\ (Straight(Checked(i), i) \/ Excepting(Checked(i), i))
  <2>1. Checked(i) \in CpuType
    BY <1>2, AccessType, WordFacts
  <2>2. Checked(i) = F(i) \/ Redirected(Checked(i), F(i), DBG_PC)
    BY <1>3, dbg_data_bp_chk_Frame DEF Checked
  <2> QED
    BY <2>1, <2>2, <1>4 DEF Redirected, Straight, Excepting
<1>9. LinkAddr(F(i)) \in Word
  <2>1. F(i).curr_pc \in Nat
    BY <1>3, CpuFields, WordFacts
  <2> QED
    BY <2>1, WrapType DEF LinkAddr
<1>10. CASE AluReg(i)
  <2>1. alu_reg(i.op, Rs(i), Rt(i), i.arg) \in Word
    BY <1>3, alu_reg_Type
  <2> QED
    BY <1>10, <2>1, <1>3, <1>5, <1>6 DEF AluReg, FlowOf
<1>11. CASE AluImm(i)
  <2>1. alu_imm(i.op, Rs(i), i.arg) \in Word
    BY <1>3, alu_imm_Type
  <2> QED
    BY <1>11, <2>1, <1>3, <1>5, <1>6 DEF AluImm, FlowOf
<1>12. CASE AddSub(i)
  <2>1. ExactResult(i) \in Int
    BY <1>3, SignedType, SignExtType DEF ExactResult
  <2>2. Wrap(ExactResult(i)) \in Word
    BY <2>1, WrapType
  <2> QED
    BY <1>12, <2>2, <1>3, <1>5, <1>6 DEF AddSub, FlowOf
<1>13. CASE AddSubOverflow(i)
  BY <1>13, <1>3, <1>4, <1>5, <1>7 DEF AddSubOverflow, ExcCode
<1>14. CASE MulDiv(i)
  <2> DEFINE x == [F(i) EXCEPT !.hi = MulDivResult(i).hi, !.lo = MulDivResult(i).lo]
  <2>1. MulDivResult(i) \in HiLoType
    BY <1>3, MultType, DivType DEF MulDivResult
  <2>2. x \in CpuType /\ SameFlow(x, F(i))
    BY <2>1, <1>3 DEF HiLoType, CpuType, SameFlow
  <2>3. Straight(x, i)
    BY <2>2, <1>4 DEF SameFlow, Straight
  <2> QED
    BY <1>14, <2>2, <2>3, <1>5 DEF MulDiv, FlowOf
<1>15. CASE HiLoMove(i)
  <2>1. F(i).hi \in Word /\ F(i).lo \in Word
    BY <1>3, CpuFields
  <2>2. /\ [F(i) EXCEPT !.hi = Rs(i)] \in CpuType
        /\ [F(i) EXCEPT !.lo = Rs(i)] \in CpuType
        /\ SameFlow([F(i) EXCEPT !.hi = Rs(i)], F(i))
        /\ SameFlow([F(i) EXCEPT !.lo = Rs(i)], F(i))
    BY <1>3 DEF CpuType, SameFlow
  <2>3. /\ Straight([F(i) EXCEPT !.hi = Rs(i)], i)
        /\ Straight([F(i) EXCEPT !.lo = Rs(i)], i)
    BY <2>2, <1>4 DEF SameFlow, Straight
  <2> QED
    BY <1>15, <2>1, <2>2, <2>3, <1>3, <1>5, <1>6 DEF HiLoMove, FlowOf
<1>16. CASE Jump(i)
  <2> DEFINE target == calc_jmp_addr(i.arg, F(i).curr_pc)
             linked(reg) == gpr_set(F(i), reg, LinkAddr(F(i)))
  <2>1. target \in Word
    BY <1>3, CpuFields, AddrType
  <2>2. \A r \in Reg : linked(r) \in CpuType /\ Straight(linked(r), i)
    BY <1>6, <1>9
  <2>3. i.op \in JumpOps
    BY <1>16 DEF Jump, JumpOps
  <2>4. ASSUME NEW c \in CpuType, Straight(c, i), NEW v \in Word, Done(jmp(c, v))
        PROVE  FlowStep(i)
    <3>1. jmp(c, v) \in CpuType
      BY jmp_Type
    <3>2. Jumping(jmp(c, v), i)
      <4>1. /\ jmp(c, v).next_in_branch_delay_slot = TRUE
            /\ jmp(c, v).curr_pc = c.curr_pc
            /\ jmp(c, v).raised = c.raised /\ jmp(c, v).instr = c.instr
            /\ jmp(c, v).via = c.via
            /\ jmp(c, v).in_branch_delay_slot = c.in_branch_delay_slot
        BY jmp_Frame
      <4> QED
        BY <2>3, <2>4, <4>1 DEF Straight, Jumping
    <3> QED
      BY <2>4, <3>1, <3>2, <1>5 DEF FlowOf
  <2>5. ASSUME Done(raise_exception(linked(i.rd), EXCEPTION_ADEL)) PROVE FlowStep(i)
    BY <2>5, <2>2, <1>3, <1>5, <1>7 DEF ExcCode
  <2> HIDE DEF target, linked
  <2>6. \/ Done(jmp(F(i), target))
        \/ Done(jmp(linked(CPU_GPR_RA), target))
        \/ Done(jmp(F(i), Rs(i)))
        \/ Done(jmp(linked(i.rd), Rs(i)))
        \/ Done(raise_exception(linked(i.rd), EXCEPTION_ADEL))
    BY <1>16 DEF Jump, target, linked
  <2> QED
    BY <2>1, <2>2, <2>4, <2>5, <2>6, <1>3, <1>4, NoLoadType
<1>17. CASE Branch(i)
  <2>1. ASSUME NEW c \in CpuType, Straight(c, i), Done(branch_if(c, i.arg, Taken(i)))
        PROVE  FlowStep(i)
    <3>1. branch_if(c, i.arg, Taken(i)) \in CpuType
      BY <1>3, branch_if_Type
    <3>2. i.op \in BranchOps
      BY <1>17 DEF Branch
    <3>3. /\ branch_if(c, i.arg, Taken(i)).next_in_branch_delay_slot = TRUE
          /\ branch_if(c, i.arg, Taken(i)).curr_pc = c.curr_pc
          /\ branch_if(c, i.arg, Taken(i)).raised = c.raised
          /\ branch_if(c, i.arg, Taken(i)).instr = c.instr
          /\ branch_if(c, i.arg, Taken(i)).via = c.via
          /\ branch_if(c, i.arg, Taken(i)).in_branch_delay_slot = c.in_branch_delay_slot
      BY <1>3, branch_if_Frame
    <3>4. Jumping(branch_if(c, i.arg, Taken(i)), i)
      BY <2>1, <3>2, <3>3 DEF Straight, Jumping
    <3> QED
      BY <2>1, <3>1, <3>4, <1>5 DEF FlowOf
  <2>2. \/ Done(branch_if(F(i), i.arg, Taken(i)))
        \/ Done(branch_if(gpr_set(F(i), CPU_GPR_RA, LinkAddr(F(i))), i.arg, Taken(i)))
    BY <1>17 DEF Branch
  <2> QED
    BY <2>1, <2>2, <1>3, <1>4, <1>6, <1>9, NoLoadType
<1>18. CASE Trap(i)
  BY <1>18, <1>3, <1>4, <1>5, <1>7 DEF Trap, ExcCode
<1>19. CASE Cop0(i)
  <2>1. F(i).cop0[i.cr] \in Word /\ F(i).cop0["SR"] \in Word
    BY <1>3, CpuFields DEF Cop0Reg
  <2>2. /\ [F(i) EXCEPT !.cop0[i.cr] = Rt(i)] \in CpuType
        /\ SameFlow([F(i) EXCEPT !.cop0[i.cr] = Rt(i)], F(i))
    BY <1>3 DEF CpuType, SameFlow
  <2>3. sr_pop(F(i).cop0["SR"]) \in Word
    BY <2>1, StatusType DEF ExcCode
  <2>4. /\ [F(i) EXCEPT !.cop0["SR"] = sr_pop(@)] \in CpuType
        /\ SameFlow([F(i) EXCEPT !.cop0["SR"] = sr_pop(@)], F(i))
    BY <2>3, <1>3 DEF CpuType, Cop0Reg, SameFlow
  <2>5. /\ Straight([F(i) EXCEPT !.cop0[i.cr] = Rt(i)], i)
        /\ Straight([F(i) EXCEPT !.cop0["SR"] = sr_pop(@)], i)
    BY <2>2, <2>4, <1>4 DEF SameFlow, Straight
  <2> QED
    BY <1>19, <2>1, <2>2, <2>4, <2>5, <1>3, <1>5, <1>6 DEF Cop0, FlowOf
<1>20. CASE Illegal(i)
  BY <1>20, <1>4 DEF Illegal, Straight, FlowStep
<1>21. CASE \E w \in words : Load(i, w)
  <2>1. PICK w \in words : Load(i, w)
    BY <1>21
  <2> DEFINE x == gpr_set_delayed(Checked(i), i.rt, load_value(i, w))
  <2>2. load_value(i, w) \in Word
    BY <2>1, <1>2, AccessType
  <2>3. x \in CpuType /\ SameFlow(x, Checked(i))
    BY <2>2, <1>3, <1>8, gpr_set_delayed_Type, gpr_set_delayed_Frame
  <2>4. FlowOf(x, i)
    BY <2>3, <1>8 DEF SameFlow, FlowOf, Straight, Excepting
  <2> QED
    BY <2>1, <2>3, <2>4, FlowRetire DEF Load
<1>22. CASE LoadAddressError(i)
  BY <1>22, <1>5, <1>7, <1>8 DEF LoadAddressError, ExcCode
<1>23. CASE \E w \in words : Store(i, w)
  BY <1>23, <1>8, FlowRetire DEF Store, FlowOf
<1>24. CASE StoreIsolated(i)
  BY <1>24, <1>3, <1>4, <1>5 DEF StoreIsolated, FlowOf
<1>25. CASE StoreAddressError(i)
  BY <1>25, <1>5, <1>7, <1>8 DEF StoreAddressError, ExcCode
<1> QED
  BY <1>1, <1>10, <1>11, <1>12, <1>13, <1>14, <1>15, <1>16, <1>17, <1>18, <1>19,
     <1>20, <1>21, <1>22, <1>23, <1>24, <1>25

\* Both, of a step of this module.
LEMMA StepEffect ==
  ASSUME TypeOK, Step
  PROVE  RegStep /\ \E i \in InstrType : FlowStep(i)
PROOF
<1>1. PICK i \in InstrType : Execute(i, MemWord)
  BY StepExecutes
<1>2. MemWord \in SUBSET Word
  BY CpuAssumption
<1> QED
  BY <1>1, <1>2, RegEffect, ControlEffect

\* What a reset does: it empties the slots, keeps the registers and leaves a
\* consecutive PC pair.
LEMMA ResetEffect ==
  ASSUME TypeOK, Reset
  PROVE  /\ cpu'.gpr = cpu.gpr
         /\ cpu'.ld_next = NoLoad /\ cpu'.ld_pend = NoLoad /\ cpu'.wrote = NoLoad
         /\ cpu'.pc = RESET_PC /\ cpu'.curr_pc = RESET_PC
         /\ cpu'.next_pc = Wrap(RESET_PC + 4)
         /\ cpu'.next_in_branch_delay_slot = FALSE /\ cpu'.in_branch_delay_slot = FALSE
         /\ cpu'.raised = << >> /\ cpu'.via = "reset"
PROOF
  BY DEF Reset, TypeOK, psycho_cpu_reset, CpuType

\* The initial state.
LEMMA InitEffect ==
  ASSUME Init
  PROVE  /\ cpu.gpr = [r \in Reg |-> 0]
         /\ cpu.ld_next = NoLoad /\ cpu.ld_pend = NoLoad /\ cpu.wrote = NoLoad
         /\ cpu.pc = RESET_PC /\ cpu.curr_pc = RESET_PC
         /\ cpu.next_pc = Wrap(RESET_PC + 4)
         /\ cpu.next_in_branch_delay_slot = FALSE /\ cpu.in_branch_delay_slot = FALSE
         /\ cpu.raised = << >> /\ cpu.via = "reset"
PROOF
  BY DEF Init, ZeroCpu, psycho_cpu_reset

(***************************************************************************)
(* $zero.                                                                  *)
(***************************************************************************)
\* GprZero is not inductive: an illegal instruction skips the tail of the
\* step, so a dirty empty slot could leave a value in gpr[0].
ZeroInv == SlotsClean /\ GprZero

\* The invariant on $zero is preserved by whatever a step does to the registers.
LEMMA ZeroStep ==
  ASSUME TypeOK, ZeroInv, RegStep
  PROVE  ZeroInv'
PROOF
<1>1. /\ cpu.gpr \in [Reg -> Word] /\ cpu.ld_next \in LoadSlot /\ cpu.ld_pend \in LoadSlot
      /\ 0 \in Reg
  BY NoLoadType DEF TypeOK, CpuType
<1>2. Visible(cpu) \in [Reg -> Word] /\ Visible(cpu)[0] = 0
  BY <1>1 DEF Visible, LoadSlot, ZeroInv, SlotsClean, GprZero
<1>3. CASE RegQuiet(cpu', cpu)
  <2>1. cpu'.gpr[0] = 0
    BY <1>1, <1>2, <1>3 DEF RegQuiet
  <2>2. cpu'.ld_next = cpu.ld_pend /\ cpu'.ld_pend = NoLoad
    BY <1>3 DEF RegQuiet
  <2> QED
    BY <2>1, <2>2 DEF ZeroInv, SlotsClean, GprZero, NoLoad
<1>4. CASE \E r \in Reg, v \in Word : RegWrite(cpu', cpu, r, v)
  BY <1>1, <1>2, <1>4 DEF RegWrite, ZeroInv, SlotsClean, GprZero, NoLoad
<1>5. CASE \E r \in Reg, v \in Word : RegLoad(cpu', cpu, r, v)
  <2>1. PICK r \in Reg, v \in Word : RegLoad(cpu', cpu, r, v)
    BY <1>5
  <2>2. cpu'.gpr[0] = 0
    BY <2>1, <1>1, <1>2 DEF RegLoad
  <2>3. cpu'.ld_next.dst = 0 => cpu'.ld_next.val = 0
    BY <2>1 DEF RegLoad, ZeroInv, SlotsClean, NoLoad
  <2>4. cpu'.ld_pend.dst # 0
    BY <2>1 DEF RegLoad
  <2> QED
    BY <2>2, <2>3, <2>4 DEF ZeroInv, SlotsClean, GprZero
<1> QED
  BY <1>3, <1>4, <1>5 DEF RegStep

\* The load slots stay clean and gpr[0] stays zero (gpr_set_delayed rejects $zero).
LEMMA ZeroInvariant == Spec => []ZeroInv
PROOF
<1>1. Init => ZeroInv
  BY InitEffect, NoLoadType DEF ZeroInv, SlotsClean, GprZero, NoLoad
<1>2. TypeOK /\ ZeroInv /\ [Next]_vars => ZeroInv'
  <2> SUFFICES ASSUME TypeOK, ZeroInv, [Next]_vars PROVE ZeroInv'
    OBVIOUS
  <2>1. CASE Step
    BY <2>1, StepEffect, ZeroStep
  <2>2. CASE Reset
    BY <2>2, ResetEffect DEF ZeroInv, SlotsClean, GprZero, NoLoad
  <2>3. CASE UNCHANGED vars
    BY <2>3 DEF vars, ZeroInv, SlotsClean, GprZero
  <2> QED
    BY <2>1, <2>2, <2>3 DEF Next
<1> QED
  BY <1>1, <1>2, TypeCorrect, PTL DEF Spec

\* $zero reads as zero between any two steps, although psycho_cpu_step
\* writes gpr[0] freely and skips the reset of it after an illegal
\* instruction.
THEOREM ZeroRegister == Spec => []GprZero
PROOF
<1>1. ZeroInv => GprZero
  BY DEF ZeroInv
<1> QED
  BY <1>1, ZeroInvariant, PTL

(***************************************************************************)
(* Control flow.                                                           *)
(***************************************************************************)
ControlInv ==
  NextPcSequential /\ DelaySlotAfterBranch /\ ExceptionEntry /\ FetchAligned

\* Branches, exceptions and resets keep the PC pair, the delay-slot flag and
\* the entry points consistent.
THEOREM ControlFlow ==
  Spec => [](NextPcSequential /\ DelaySlotAfterBranch /\ ExceptionEntry /\ FetchAligned)
PROOF
<1> USE DEF ControlInv, NextPcSequential, DelaySlotAfterBranch, ExceptionEntry, FetchAligned
<1>1. Init => ControlInv
  BY InitEffect, CpuDefsAssumption
<1>2. TypeOK /\ ControlInv /\ [Next]_vars => ControlInv'
  <2> SUFFICES ASSUME TypeOK, ControlInv, [Next]_vars PROVE ControlInv'
    OBVIOUS
  <2>1. CASE Step
    <3>1. PICK i \in InstrType : FlowStep(i)
      BY <2>1, StepEffect
    <3>2. FetchPc % 4 = 0
      BY CpuDefsAssumption DEF FetchPc
    <3> QED
      BY <3>1, <3>2 DEF FlowStep
  <2>2. CASE Reset
    BY <2>2, ResetEffect, CpuDefsAssumption
  <2>3. CASE UNCHANGED vars
    BY <2>3 DEF vars
  <2> QED
    BY <2>1, <2>2, <2>3 DEF Next
<1> QED
  BY <1>1, <1>2, TypeCorrect, PTL DEF Spec

\* A delay slot is pending only after a jump or a branch of psycho_cpu_step
\* that raised nothing.
THEOREM DelaySlots == Spec => []DelaySlotAfterBranch
PROOF
  BY ControlFlow, PTL

\* After raise_exception or dbg_data_bp_chk the next two fetches are from the
\* entry point, also when the instruction sat in a delay slot.
THEOREM EntryPoint == Spec => []ExceptionEntry
PROOF
  BY ControlFlow, PTL

\* psycho_cpu_step executes no instruction from a misaligned address.
THEOREM AlignedFetch == Spec => []FetchAligned
PROOF
  BY ControlFlow, PTL

\* A jump or branch issues no load, and a load in front of it has completed
\* when its delay slot is executed.
LEMMA NoLoadStep ==
  ASSUME JumpLeavesNoLoad, RegStep, NEW i \in InstrType, FlowStep(i)
  PROVE  JumpLeavesNoLoad'
PROOF
<1>1. cpu'.next_in_branch_delay_slot => cpu'.ld_pend.dst = 0
  <2>1. SUFFICES ASSUME cpu'.next_in_branch_delay_slot PROVE cpu'.ld_pend = NoLoad
    BY DEF NoLoad
  <2>2. cpu'.instr.op \notin LoadOps
    BY <2>1 DEF FlowStep, JumpOps, BranchOps, LoadOps
  <2> QED
    BY <2>2 DEF RegStep, RegQuiet, RegWrite, RegLoad
<1>2. cpu'.in_branch_delay_slot => cpu'.ld_next.dst = 0
  <2>1. SUFFICES ASSUME cpu'.in_branch_delay_slot PROVE cpu'.ld_next.dst = 0
    OBVIOUS
  <2>2. cpu.ld_pend.dst = 0
    BY <2>1 DEF FlowStep, JumpLeavesNoLoad
  <2>3. cpu'.ld_next = NoLoad \/ cpu'.ld_next = cpu.ld_pend
    BY DEF RegStep, RegQuiet, RegWrite, RegLoad
  <2> QED
    BY <2>2, <2>3 DEF NoLoad
<1> QED
  BY <1>1, <1>2 DEF JumpLeavesNoLoad

\* A jump or branch issues no load, and the instruction before it has
\* delivered its own by the time the delay slot has run, so nothing is in
\* flight at the target: what the BIOS tracer and the EXE loader rely on.
THEOREM NoLoadAcrossJump == Spec => []JumpLeavesNoLoad
PROOF
<1>1. Init => JumpLeavesNoLoad
  BY InitEffect DEF JumpLeavesNoLoad
<1>2. TypeOK /\ JumpLeavesNoLoad /\ [Next]_vars => JumpLeavesNoLoad'
  <2> SUFFICES ASSUME TypeOK, JumpLeavesNoLoad, [Next]_vars PROVE JumpLeavesNoLoad'
    OBVIOUS
  <2>1. CASE Step
    <3>1. RegStep
      BY <2>1, StepEffect
    <3>2. PICK i \in InstrType : FlowStep(i)
      BY <2>1, StepEffect
    <3> QED
      BY <3>1, <3>2, NoLoadStep
  <2>2. CASE Reset
    BY <2>2, ResetEffect DEF JumpLeavesNoLoad
  <2>3. CASE UNCHANGED vars
    BY <2>3 DEF vars, JumpLeavesNoLoad
  <2> QED
    BY <2>1, <2>2, <2>3 DEF Next
<1> QED
  BY <1>1, <1>2, TypeCorrect, PTL DEF Spec

(***************************************************************************)
(* The load delay.                                                         *)
(***************************************************************************)
\* The two slots of struct psycho_cpu, processed at the head of every step
\* and cancelled by writes, implement one architectural load delay slot.
THEOREM LoadDelayRefinement == Spec => LoadDelaySpec
PROOF
<1>1. Init => Arch!Init
  BY InitEffect, NoLoadType DEF Arch!Init, Arch!None, Visible, NoLoad
<1>2. TypeOK /\ ZeroInv /\ [Next]_vars => [Arch!Next]_(Arch!vars)
  <2> SUFFICES ASSUME TypeOK, ZeroInv, [Next]_vars
               PROVE  Arch!Next \/ UNCHANGED Arch!vars
    OBVIOUS
  <2> DEFINE V == Visible(cpu)
             p == cpu.ld_pend
  <2>0. /\ V \in [Reg -> Word] /\ V[0] = 0
        /\ p.dst \in Reg /\ p.val \in Word
        /\ p.dst = 0 => p.val = 0
        /\ 0 \in Reg
    BY NoLoadType DEF TypeOK, CpuType, LoadSlot, Visible, ZeroInv, SlotsClean, GprZero
  <2>1. CASE Step
    <3>1. RegStep
      BY <2>1, StepEffect
    <3>2. ~ (cpu'.via = "reset")
      BY <2>1, StepEffect DEF FlowStep
    <3>3. Visible(cpu)' = [cpu'.gpr EXCEPT ![cpu'.ld_next.dst] = cpu'.ld_next.val]
      BY DEF Visible
    <3>4. Arch!Delivered = [V EXCEPT ![p.dst] = p.val]
      BY DEF Arch!Delivered
    <3>5. CASE RegQuiet(cpu', cpu)
      <4>1. cpu'.gpr = V
        BY <3>5, <2>0 DEF RegQuiet
      <4>2. Arch!Quiet
        BY <4>1, <3>2, <3>3, <3>4, <3>5 DEF RegQuiet, Arch!Quiet, Arch!None, NoLoad
      <4> QED
        BY <4>2 DEF Arch!Next
    <3>6. ASSUME NEW r \in Reg, NEW v \in Word, RegWrite(cpu', cpu, r, v)
          PROVE  Arch!Next
      <4>1. CASE r = 0
        <5>1. cpu'.gpr = V
          BY <3>6, <4>1, <2>0 DEF RegWrite
        <5>2. cpu'.ld_next.dst = p.dst /\ cpu'.ld_next.val = p.val
          BY <3>6, <4>1, <2>0 DEF RegWrite, NoLoad
        <5>3. Arch!Quiet
          BY <4>1, <5>1, <5>2, <3>2, <3>3, <3>4, <3>6
             DEF RegWrite, Arch!Quiet, Arch!None, NoLoad, Written
        <5> QED
          BY <5>3 DEF Arch!Next
      <4>2. CASE r # 0
        <5>1. cpu'.gpr = [V EXCEPT ![r] = v]
          BY <3>6, <4>2, <2>0 DEF RegWrite
        <5>2. CASE p.dst = r
          <6>1. cpu'.ld_next.dst = 0 /\ cpu'.ld_next.val = 0
            BY <3>6, <5>2 DEF RegWrite, NoLoad
          <6>2. [cpu'.gpr EXCEPT ![cpu'.ld_next.dst] = cpu'.ld_next.val] = [V EXCEPT ![r] = v]
            BY <6>1, <5>1, <4>2, <2>0
          <6>3. [Arch!Delivered EXCEPT ![r] = v] = [V EXCEPT ![r] = v]
            BY <3>4, <5>2, <2>0
          <6> QED
            BY <6>2, <6>3, <3>2, <3>3, <3>6, <4>2
               DEF RegWrite, Arch!Next, Arch!Write, Arch!None, NoLoad, Written
        <5>3. CASE p.dst # r
          <6>1. cpu'.ld_next = p
            BY <3>6, <5>3 DEF RegWrite
          <6>2. [cpu'.gpr EXCEPT ![cpu'.ld_next.dst] = cpu'.ld_next.val]
                  = [[V EXCEPT ![p.dst] = p.val] EXCEPT ![r] = v]
            BY <6>1, <5>1, <5>3, <2>0
          <6>3. Arch!Write(r, v)
            BY <4>2, <6>2, <3>2, <3>3, <3>4, <3>6
               DEF RegWrite, Arch!Write, Arch!None, NoLoad, Written
          <6> QED
            BY <6>3, <4>2 DEF Arch!Next
        <5> QED
          BY <5>2, <5>3
      <4> QED
        BY <4>1, <4>2
    <3>7. ASSUME NEW r \in Reg, NEW v \in Word, RegLoad(cpu', cpu, r, v)
          PROVE  Arch!Next
      <4>1. r # 0 /\ cpu'.gpr = V
        BY <3>7, <2>0 DEF RegLoad
      <4>2. [cpu'.gpr EXCEPT ![cpu'.ld_next.dst] = cpu'.ld_next.val]
              = IF p.dst = r THEN V ELSE [V EXCEPT ![p.dst] = p.val]
        <5>1. CASE p.dst = r
          <6>1. cpu'.ld_next.dst = 0 /\ cpu'.ld_next.val = 0
            BY <3>7, <5>1 DEF RegLoad, NoLoad
          <6> QED
            BY <6>1, <5>1, <4>1, <2>0
        <5>2. CASE p.dst # r
          <6>1. cpu'.ld_next = p
            BY <3>7, <5>2 DEF RegLoad
          <6> QED
            BY <6>1, <5>2, <4>1
        <5> QED
          BY <5>1, <5>2
      <4>3. Arch!Issue(r, v)
        BY <4>2, <3>2, <3>3, <3>4, <3>7 DEF RegLoad, Arch!Issue, Arch!None, NoLoad
      <4> QED
        BY <4>1, <4>3 DEF Arch!Next
    <3> QED
      BY <3>1, <3>5, <3>6, <3>7 DEF RegStep
  <2>2. CASE Reset
    <3>1. cpu'.gpr = cpu.gpr /\ cpu'.ld_next = NoLoad /\ cpu'.ld_pend = NoLoad
          /\ cpu'.via = "reset" /\ cpu'.wrote = NoLoad
      BY <2>2, ResetEffect
    <3>2. /\ cpu.gpr \in [Reg -> Word] /\ cpu.gpr[0] = 0
          /\ cpu.ld_next.dst \in Reg
          /\ cpu.ld_next.dst = 0 => cpu.ld_next.val = 0
      BY DEF TypeOK, CpuType, LoadSlot, ZeroInv, SlotsClean, GprZero
    <3>3. Visible(cpu)' = cpu.gpr
      BY <3>1, <3>2, <2>0 DEF Visible, NoLoad
    <3>4. PICK r \in Reg \ {0} : cpu.ld_next.dst \in {0, r}
      <4>1. CPU_GPR_RA \in Reg \ {0}
        BY CpuDefsAssumption, NoLoadType
      <4> QED
        BY <4>1, <3>2
    <3>5. cpu.gpr = [V EXCEPT ![r] = cpu.gpr[r]]
      BY <3>2, <3>4, <2>0 DEF Visible
    <3>6. cpu.gpr[r] \in Word
      BY <3>2
    <3>7. Arch!Reset
      BY <3>1, <3>3, <3>5, <3>6 DEF Arch!Reset, Arch!None, NoLoad
    <3> QED
      BY <3>7 DEF Arch!Next
  <2>3. CASE UNCHANGED vars
    BY <2>3 DEF vars, Arch!vars, Visible
  <2> QED
    BY <2>1, <2>2, <2>3 DEF Next
<1> QED
  BY <1>1, <1>2, TypeCorrect, ZeroInvariant, PTL DEF Spec, LoadDelaySpec, Arch!Spec
=============================================================================
