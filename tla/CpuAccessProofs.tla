-------------------------- MODULE CpuAccessProofs --------------------------
(***************************************************************************)
(* What the instructions of Cpu ask of the bus, and what one that raises   *)
(* an exception leaves behind.  As in CpuSafetyProofs, one lemma per       *)
(* question says what executing an instruction does (BusEffect,            *)
(* ExceptionEffect), by one case per action, and the theorems follow.      *)
(***************************************************************************)
EXTENDS CpuSafetyProofs

(***************************************************************************)
(* The bus.                                                                *)
(***************************************************************************)
\* An access that is not found misaligned is aligned on the bus: LWL, LWR,
\* SWL and SWR clear the low bits of the address, the others were checked.
LEMMA AccessAligned ==
  ASSUME cpu \in CpuType, NEW i \in InstrType, ~ Misaligned(i)
  PROVE  BusAddr(i) % AccessLen(i.op) = 0
PROOF
<1>1. Paddr(i) \in Nat
  BY HeadType, AddrType, WordFacts DEF Paddr, Vaddr
<1>2. CASE i.op \in Unaligned
  <2>1. AccessLen(i.op) = 4
    BY <1>2 DEF Unaligned, AccessLen
  <2>2. (Paddr(i) - (Paddr(i) % 4)) % 4 = 0
    BY <1>1
  <2>3. BusAddr(i) = Paddr(i) - (Paddr(i) % 4)
    BY <1>2 DEF BusAddr, ByteInWord
  <2> QED
    BY <2>1, <2>2, <2>3
<1>3. CASE i.op \notin Unaligned
  BY <1>3 DEF BusAddr, Misaligned
<1> QED
  BY <1>2, <1>3

\* A step makes no data access, or one load, or one store that a load may
\* precede, of one place.
BusStep(i) ==
  \/ bus' = << >>
  \/ /\ ~ Misaligned(i)
     /\ \E w \in Word : bus' = << Call("load", i, w) >>
  \/ /\ ~ Misaligned(i)
     /\ \E w \in Word, v \in Word :
          bus' \in { << Call("store", i, v) >>, << Call("load", i, w), Call("store", i, v) >> }

\* What executing an instruction asks of the bus.
LEMMA BusEffect ==
  ASSUME TypeOK, NEW i \in InstrType, NEW words \in SUBSET Word, Execute(i, words)
  PROVE  BusStep(i)
PROOF
<1>1. cpu \in CpuType
  BY DEF TypeOK
<1>2. ASSUME NEW w \in words, Load(i, w) PROVE BusStep(i)
  BY <1>2 DEF Load, BusStep
<1>3. ASSUME NEW w \in words, Store(i, w) PROVE BusStep(i)
  <2>1. store_value(i, w) \in Word
    BY <1>1, AccessType
  <2> QED
    BY <1>3, <2>1 DEF Store, BusStep
<1>4. \/ bus' = << >>
      \/ \E w \in words : Load(i, w) \/ Store(i, w)
  BY DEF Execute, AluReg, AluImm, AddSub, AddSubOverflow, MulDiv, HiLoMove, Jump,
         Branch, Trap, Cop0, Illegal, LoadAddressError, StoreIsolated,
         StoreAddressError, Done
<1> QED
  BY <1>2, <1>3, <1>4 DEF BusStep

\* The calls of a step are aligned to their size.
LEMMA StepAligned ==
  ASSUME TypeOK, NEW i \in InstrType, BusStep(i)
  PROVE  BusAligned'
PROOF
<1>1. CASE bus' = << >>
  BY <1>1 DEF BusAligned
<1>2. CASE bus' # << >>
  <2>1. BusAddr(i) % AccessLen(i.op) = 0
    BY <1>2, AccessAligned DEF TypeOK, BusStep
  <2>2. \A n \in DOMAIN bus' : bus'[n].addr = BusAddr(i) /\ bus'[n].len = AccessLen(i.op)
    <3>1. ASSUME NEW kind, NEW val
          PROVE  Call(kind, i, val).addr = BusAddr(i) /\ Call(kind, i, val).len = AccessLen(i.op)
      BY DEF Call
    <3> QED
      BY <1>2, <3>1 DEF BusStep
  <2> QED
    BY <2>1, <2>2 DEF BusAligned
<1> QED
  BY <1>1, <1>2

\* psycho_cpu_step asks the bus for aligned accesses only, which is what
\* keeps the memcpys of bus.c inside a region.
THEOREM AlignedAccess == Spec => []BusAligned
PROOF
<1>1. Init => BusAligned
  BY DEF Init, BusAligned
<1>2. TypeOK /\ BusAligned /\ [Next]_vars => BusAligned'
  <2> SUFFICES ASSUME TypeOK, BusAligned, [Next]_vars PROVE BusAligned'
    OBVIOUS
  <2>1. CASE Step
    <3>1. PICK i \in InstrType : Execute(i, MemWord)
      BY <2>1, StepExecutes
    <3>2. BusStep(i)
      BY <3>1, BusEffect, CpuAssumption
    <3> QED
      BY <3>2, StepAligned
  <2>2. CASE Reset
    BY <2>2 DEF Reset, BusAligned
  <2>3. CASE UNCHANGED vars
    BY <2>3 DEF vars, BusAligned
  <2> QED
    BY <2>1, <2>2, <2>3 DEF Next
<1> QED
  BY <1>1, <1>2, TypeCorrect, PTL DEF Spec

(***************************************************************************)
(* Exceptions.                                                             *)
(***************************************************************************)
SameHiLo(c, d) == c.hi = d.hi /\ c.lo = d.lo

\* Neither the head and the tail of the step, nor a register write, nor an
\* exception touches HI and LO.
LEMMA HiLoFrame ==
  ASSUME NEW c \in CpuType
  PROVE  /\ \A i \in InstrType : SameHiLo(fetch(c, i), c)
         /\ \A reg \in Reg, val \in Word : SameHiLo(gpr_set(c, reg, val), c)
         /\ \A exc \in ExcCode : SameHiLo(raise_exception(c, exc), c)
         /\ SameHiLo(Retire(c), c)
PROOF
<1>1. ASSUME NEW d \in CpuType, NEW exc \in ExcCode
      PROVE  SameHiLo(raise_exception(d, exc), d)
  BY DEF raise_exception, CpuType, SameHiLo
<1>2. ASSUME NEW i \in InstrType PROVE SameHiLo(fetch(c, i), c)
  <2> DEFINE s == [c EXCEPT !.in_branch_delay_slot = c.next_in_branch_delay_slot,
                            !.next_in_branch_delay_slot = FALSE]
             d == load_delay_process(s)
             e == IF d.pc % 4 # 0 THEN raise_exception(d, EXCEPTION_ADEL) ELSE d
  <2>1. s \in CpuType /\ SameHiLo(s, c)
    BY DEF CpuType, SameHiLo
  <2> HIDE DEF s
  <2>2. d \in CpuType /\ SameHiLo(d, s)
    BY <2>1, load_delay_process_Type DEF load_delay_process, CpuType, SameHiLo
  <2> HIDE DEF d
  <2>3. e \in CpuType /\ SameHiLo(e, d)
    BY <2>2, <1>1, raise_exception_Type DEF ExcCode, SameHiLo
  <2>4. fetch(c, i) = [e EXCEPT !.curr_pc = e.pc, !.instr = i, !.pc = e.next_pc,
                                !.next_pc = Wrap(e.next_pc + 4),
                                !.via = IF d.pc % 4 # 0 THEN "fault" ELSE "fetch",
                                !.raised = << >>, !.wrote = NoLoad]
    BY DEF fetch, d, s
  <2> HIDE DEF e
  <2>5. SameHiLo(fetch(c, i), e)
    BY <2>3, <2>4 DEF CpuType, SameHiLo
  <2> QED
    BY <2>1, <2>2, <2>3, <2>5 DEF SameHiLo
<1>3. \A reg \in Reg, val \in Word : SameHiLo(gpr_set(c, reg, val), c)
  BY DEF gpr_set, CpuType, SameHiLo
<1>4. SameHiLo(Retire(c), c)
  BY DEF Retire, CpuType, SameHiLo
<1> QED
  BY <1>1, <1>2, <1>3, <1>4

\* An instruction that raises something is a data access that hit a
\* breakpoint, or does nothing else, or is a JALR that has linked.
ExceptionStep(i) ==
  \/ cpu'.raised = << >>
  \/ DataBreakpoint(cpu')
  \/ /\ bus' = << >>
     /\ SameHiLo(cpu', cpu)
     /\ \/ RegQuiet(cpu', cpu)
        \/ i.op = "JALR" /\ \E v \in Word : RegWrite(cpu', cpu, i.rd, v)

\* The exceptions raised for one access are in the order raised.
LEMMA RaisedAfter ==
  ASSUME NEW c \in CpuType, NEW exc \in ExcCode
  PROVE  /\ raise_exception(c, exc).raised = Append(c.raised, exc)
         /\ \A x \in ExcCode : x \in {c.raised[n] : n \in DOMAIN c.raised} \cup {exc} =>
              x \in {raise_exception(c, exc).raised[n] :
                       n \in DOMAIN raise_exception(c, exc).raised}
PROOF
<1> DEFINE s == c.raised
           t == Append(s, exc)
<1>1. s \in Seq(ExcCode)
  BY CpuFields
<1>2. raise_exception(c, exc).raised = t
  BY DEF raise_exception, CpuType
<1>3. t[Len(s) + 1] = exc /\ Len(s) + 1 \in DOMAIN t
  BY <1>1
<1>4. ASSUME NEW n \in DOMAIN s PROVE n \in DOMAIN t /\ t[n] = s[n]
  BY <1>1
<1> HIDE DEF s, t
<1>5. ASSUME NEW x \in {s[n] : n \in DOMAIN s} \cup {exc}
      PROVE  x \in {t[n] : n \in DOMAIN t}
  BY <1>3, <1>4
<1> QED
  BY <1>2, <1>5 DEF s, t

\* What an instruction does when it raises something.
LEMMA ExceptionEffect ==
  ASSUME TypeOK, NEW i \in InstrType, NEW words \in SUBSET Word, Execute(i, words)
  PROVE  ExceptionStep(i)
PROOF
<1>1. cpu \in CpuType
  BY DEF TypeOK
<1>2. /\ F(i) \in CpuType /\ Rs(i) \in Word /\ Rt(i) \in Word
      /\ i.rs \in Reg /\ i.rt \in Reg /\ i.rd \in Reg
      /\ i.cr \in Cop0Reg /\ i.arg \in Nat
  BY <1>1, HeadType
<1>3. F(i).raised = << >> /\ F(i).instr = i /\ SameHiLo(F(i), cpu)
  BY <1>1, fetch_Frame, HiLoFrame DEF F
<1>4. LinkAddr(F(i)) \in Word
  BY <1>2, CpuFields, WordFacts, WrapType DEF LinkAddr
<1>5. ASSUME NEW x \in CpuType, x.raised = << >>, cpu' = Retire(x)
      PROVE  ExceptionStep(i)
  BY <1>5, Retire_Frame DEF ExceptionStep, SameFlow
<1>6. ASSUME NEW r \in Reg, NEW v \in Word
      PROVE  /\ gpr_set(F(i), r, v) \in CpuType
             /\ gpr_set(F(i), r, v).raised = << >>
             /\ SameHiLo(gpr_set(F(i), r, v), cpu)
  <2>1. SameFlow(gpr_set(F(i), r, v), F(i))
    BY <1>2, gpr_set_Frame
  <2>2. SameHiLo(gpr_set(F(i), r, v), F(i))
    BY <1>2, HiLoFrame
  <2> QED
    BY <2>1, <2>2, <1>2, <1>3, gpr_set_Type DEF SameFlow, SameHiLo
<1>7. ASSUME NEW exc \in ExcCode, Done(raise_exception(F(i), exc))
      PROVE  ExceptionStep(i)
  <2> DEFINE x == raise_exception(F(i), exc)
  <2>1. x \in CpuType /\ SameRegs(x, F(i)) /\ SameHiLo(x, F(i))
    BY <1>2, raise_exception_Type, raise_exception_Frame, HiLoFrame DEF Redirected
  <2> HIDE DEF x
  <2>2. Done(x)
    BY <1>7 DEF x
  <2>3. RegQuiet(cpu', cpu)
    BY <2>1, <2>2, <1>1, DoneQuiet
  <2>4. SameHiLo(cpu', x) /\ bus' = << >>
    BY <2>1, <2>2, HiLoFrame DEF Done
  <2> QED
    BY <2>1, <2>3, <2>4, <1>3 DEF ExceptionStep, SameHiLo
<1>8. ASSUME i.op \in LoadOps \cup StoreOps, Checked(i) # F(i), NEW x \in CpuType,
             x.instr = i, EXCEPTION_BP \in {x.raised[n] : n \in DOMAIN x.raised},
             cpu' = Retire(x)
      PROVE  ExceptionStep(i)
  <2>1. cpu'.instr = i /\ cpu'.raised = x.raised
    BY <1>8, Retire_Frame DEF SameFlow
  <2> QED
    BY <1>8, <2>1 DEF ExceptionStep, DataBreakpoint
<1>9. /\ Checked(i) \in CpuType
      /\ Checked(i).instr = i
      /\ \/ Checked(i) = F(i)
         \/ EXCEPTION_BP \in {Checked(i).raised[n] : n \in DOMAIN Checked(i).raised}
  <2>1. Checked(i) \in CpuType
    BY <1>1, AccessType, WordFacts
  <2>2. Checked(i) = F(i) \/ Redirected(Checked(i), F(i), DBG_PC)
    BY <1>2, dbg_data_bp_chk_Frame DEF Checked
  <2>3. Checked(i).instr = i
    BY <2>2, <1>3 DEF Redirected
  <2>4. ASSUME Checked(i) # F(i)
        PROVE  EXCEPTION_BP \in {Checked(i).raised[n] : n \in DOMAIN Checked(i).raised}
    <3> DEFINE y == raise_exception(F(i), EXCEPTION_BP)
    <3>1. y \in CpuType /\ EXCEPTION_BP \in {y.raised[n] : n \in DOMAIN y.raised}
      BY <1>2, RaisedAfter, raise_exception_Type DEF ExcCode
    <3>2. Checked(i) = [y EXCEPT !.pc = DBG_PC, !.next_pc = Wrap(DBG_PC + 4)]
      BY <2>4 DEF Checked, dbg_data_bp_chk
    <3> HIDE DEF y
    <3>3. Checked(i).raised = y.raised
      BY <3>1, <3>2 DEF CpuType
    <3> QED
      BY <3>1, <3>3
  <2> QED
    BY <2>1, <2>3, <2>4
<1>10. ASSUME i.op \in LoadOps \cup StoreOps, NEW exc \in ExcCode,
              Done(raise_exception(Checked(i), exc))
       PROVE  ExceptionStep(i)
  <2>1. CASE Checked(i) = F(i)
    BY <2>1, <1>7, <1>10
  <2>2. CASE Checked(i) # F(i)
    <3> DEFINE x == raise_exception(Checked(i), exc)
    <3>1. x \in CpuType /\ x.instr = i
      BY <1>9, raise_exception_Type, raise_exception_Frame DEF Redirected
    <3>2. EXCEPTION_BP \in {x.raised[n] : n \in DOMAIN x.raised}
      BY <2>2, <1>9, RaisedAfter DEF ExcCode
    <3> HIDE DEF x
    <3>3. cpu' = Retire(x)
      BY <1>10 DEF Done, x
    <3> QED
      BY <3>1, <3>2, <3>3, <2>2, <1>8, <1>10
  <2> QED
    BY <2>1, <2>2
<1>11. ASSUME NEW c \in CpuType, SameFlow(c, Checked(i)),
              i.op \in LoadOps \cup StoreOps, cpu' = Retire(c)
       PROVE  ExceptionStep(i)
  <2>1. c.raised = Checked(i).raised /\ c.instr = i
    BY <1>9, <1>11 DEF SameFlow
  <2>2. CASE Checked(i) = F(i)
    BY <2>1, <2>2, <1>3, <1>5, <1>11
  <2>3. CASE Checked(i) # F(i)
    <3>1. EXCEPTION_BP \in {c.raised[n] : n \in DOMAIN c.raised}
      BY <2>1, <2>3, <1>9
    <3> QED
      BY <2>1, <2>3, <3>1, <1>8, <1>11
  <2> QED
    BY <2>2, <2>3
<1>12. CASE AluReg(i)
  BY <1>12, <1>2, <1>5, <1>6, alu_reg_Type DEF AluReg, Done
<1>13. CASE AluImm(i)
  BY <1>13, <1>2, <1>5, <1>6, alu_imm_Type DEF AluImm, Done
<1>14. CASE AddSub(i)
  <2>1. ExactResult(i) \in Int
    BY <1>2, SignedType, SignExtType DEF ExactResult
  <2>2. Wrap(ExactResult(i)) \in Word
    BY <2>1, WrapType
  <2> QED
    BY <1>14, <2>2, <1>2, <1>5, <1>6 DEF AddSub, Done
<1>15. CASE AddSubOverflow(i)
  BY <1>15, <1>7 DEF AddSubOverflow, ExcCode
<1>16. CASE MulDiv(i)
  <2> DEFINE x == [F(i) EXCEPT !.hi = MulDivResult(i).hi, !.lo = MulDivResult(i).lo]
  <2>1. MulDivResult(i) \in HiLoType
    BY <1>2, MultType, DivType DEF MulDivResult
  <2>2. x \in CpuType /\ x.raised = << >>
    BY <2>1, <1>2, <1>3 DEF HiLoType, CpuType
  <2> QED
    BY <1>16, <2>2, <1>5 DEF MulDiv, Done
<1>17. CASE HiLoMove(i)
  <2>1. F(i).hi \in Word /\ F(i).lo \in Word
    BY <1>2, CpuFields
  <2>2. /\ [F(i) EXCEPT !.hi = Rs(i)] \in CpuType
        /\ [F(i) EXCEPT !.lo = Rs(i)] \in CpuType
        /\ [F(i) EXCEPT !.hi = Rs(i)].raised = << >>
        /\ [F(i) EXCEPT !.lo = Rs(i)].raised = << >>
    BY <1>2, <1>3 DEF CpuType
  <2> QED
    BY <1>17, <2>1, <2>2, <1>2, <1>5, <1>6 DEF HiLoMove, Done
<1>18. CASE Jump(i)
  <2> DEFINE target == calc_jmp_addr(i.arg, F(i).curr_pc)
             linked(reg) == gpr_set(F(i), reg, LinkAddr(F(i)))
  <2>1. target \in Word
    BY <1>2, CpuFields, AddrType
  <2>2. \A r \in Reg : /\ linked(r) \in CpuType /\ linked(r).raised = << >>
                       /\ SameHiLo(linked(r), cpu)
    BY <1>4, <1>6
  <2>3. ASSUME NEW c \in CpuType, c.raised = << >>, NEW v \in Word, Done(jmp(c, v))
        PROVE  ExceptionStep(i)
    <3>1. jmp(c, v) \in CpuType /\ jmp(c, v).raised = << >>
      BY <2>3, jmp_Type, jmp_Frame
    <3> QED
      BY <2>3, <3>1, <1>5 DEF Done
  <2>4. ASSUME i.op = "JALR", Done(raise_exception(linked(i.rd), EXCEPTION_ADEL))
        PROVE  ExceptionStep(i)
    <3> DEFINE x == raise_exception(linked(i.rd), EXCEPTION_ADEL)
    <3>1. /\ x \in CpuType /\ SameRegs(x, linked(i.rd))
          /\ SameHiLo(x, linked(i.rd))
      BY <2>2, <1>2, raise_exception_Type, raise_exception_Frame, HiLoFrame
         DEF ExcCode, Redirected
    <3> HIDE DEF x
    <3>2. Done(x)
      BY <2>4 DEF x
    <3>3. RegWrite(cpu', cpu, i.rd, LinkAddr(F(i)))
      BY <3>1, <3>2, <1>1, <1>2, <1>4, DoneWrite
    <3>4. SameHiLo(cpu', x) /\ bus' = << >>
      BY <3>1, <3>2, HiLoFrame DEF Done
    <3>5. SameHiLo(cpu', cpu)
      BY <3>1, <3>4, <2>2, <1>2 DEF SameHiLo
    <3> QED
      BY <2>4, <3>3, <3>4, <3>5, <1>4 DEF ExceptionStep
  <2> HIDE DEF target, linked
  <2>5. \/ Done(jmp(F(i), target))
        \/ Done(jmp(linked(CPU_GPR_RA), target))
        \/ Done(jmp(F(i), Rs(i)))
        \/ Done(jmp(linked(i.rd), Rs(i)))
        \/ i.op = "JALR" /\ Done(raise_exception(linked(i.rd), EXCEPTION_ADEL))
    BY <1>18 DEF Jump, target, linked
  <2> QED
    BY <2>1, <2>2, <2>3, <2>4, <2>5, <1>2, <1>3, NoLoadType
<1>19. CASE Branch(i)
  <2>1. ASSUME NEW c \in CpuType, c.raised = << >>, Done(branch_if(c, i.arg, Taken(i)))
        PROVE  ExceptionStep(i)
    <3>1. /\ branch_if(c, i.arg, Taken(i)) \in CpuType
          /\ branch_if(c, i.arg, Taken(i)).raised = << >>
      BY <2>1, <1>2, branch_if_Type, branch_if_Frame
    <3> QED
      BY <2>1, <3>1, <1>5 DEF Done
  <2>2. \/ Done(branch_if(F(i), i.arg, Taken(i)))
        \/ Done(branch_if(gpr_set(F(i), CPU_GPR_RA, LinkAddr(F(i))), i.arg, Taken(i)))
    BY <1>19 DEF Branch
  <2> QED
    BY <2>1, <2>2, <1>2, <1>3, <1>4, <1>6, NoLoadType
<1>20. CASE Trap(i)
  BY <1>20, <1>7 DEF Trap, ExcCode
<1>21. CASE Cop0(i)
  <2>1. F(i).cop0[i.cr] \in Word /\ F(i).cop0["SR"] \in Word
    BY <1>2, CpuFields DEF Cop0Reg
  <2>2. /\ [F(i) EXCEPT !.cop0[i.cr] = Rt(i)] \in CpuType
        /\ [F(i) EXCEPT !.cop0[i.cr] = Rt(i)].raised = << >>
    BY <1>2, <1>3 DEF CpuType
  <2>3. sr_pop(F(i).cop0["SR"]) \in Word
    BY <2>1, StatusType DEF ExcCode
  <2>4. /\ [F(i) EXCEPT !.cop0["SR"] = sr_pop(@)] \in CpuType
        /\ [F(i) EXCEPT !.cop0["SR"] = sr_pop(@)].raised = << >>
    BY <2>3, <1>2, <1>3 DEF CpuType, Cop0Reg
  <2> QED
    BY <1>21, <2>1, <2>2, <2>4, <1>2, <1>5, <1>6 DEF Cop0, Done
<1>22. CASE Illegal(i)
  BY <1>22, <1>3 DEF Illegal, ExceptionStep
<1>23. CASE \E w \in words : Load(i, w)
  <2>1. PICK w \in words : Load(i, w)
    BY <1>23
  <2> DEFINE x == gpr_set_delayed(Checked(i), i.rt, load_value(i, w))
  <2>2. load_value(i, w) \in Word
    BY <2>1, <1>1, AccessType
  <2>3. x \in CpuType /\ SameFlow(x, Checked(i))
    BY <2>2, <1>2, <1>9, gpr_set_delayed_Type, gpr_set_delayed_Frame
  <2> QED
    BY <2>1, <2>3, <1>11 DEF Load
<1>24. CASE LoadAddressError(i)
  BY <1>24, <1>10 DEF LoadAddressError, ExcCode
<1>25. CASE \E w \in words : Store(i, w)
  BY <1>25, <1>9, <1>11 DEF Store, SameFlow
<1>26. CASE StoreIsolated(i)
  BY <1>26, <1>2, <1>3, <1>5 DEF StoreIsolated, Done
<1>27. CASE StoreAddressError(i)
  BY <1>27, <1>10 DEF StoreAddressError, ExcCode
<1> QED
  BY <1>12, <1>13, <1>14, <1>15, <1>16, <1>17, <1>18, <1>19, <1>20, <1>21, <1>22,
     <1>23, <1>24, <1>25, <1>26, <1>27 DEF Execute

\* The register file after an instruction that raised something.
LEMMA PreciseStep ==
  ASSUME TypeOK, ZeroInv, NEW i \in InstrType, ExceptionStep(i), cpu'.instr = i,
         cpu'.raised # << >>, ~ DataBreakpoint(cpu')
  PROVE  /\ bus' = << >>
         /\ cpu'.hi = cpu.hi /\ cpu'.lo = cpu.lo
         /\ \A r \in Reg :
              \/ cpu'.instr.op = "JALR" /\ r = cpu'.instr.rd
              \/ Visible(cpu')[r] =
                   [Visible(cpu) EXCEPT ![cpu.ld_pend.dst] = cpu.ld_pend.val][r]
PROOF
<1> DEFINE V == Visible(cpu)
           p == cpu.ld_pend
<1>1. /\ V \in [Reg -> Word] /\ V[0] = 0
      /\ p.dst \in Reg /\ p.val \in Word
      /\ p.dst = 0 => p.val = 0
      /\ 0 \in Reg
  BY NoLoadType DEF TypeOK, CpuType, LoadSlot, Visible, ZeroInv, SlotsClean, GprZero
<1>2. Visible(cpu') = [cpu'.gpr EXCEPT ![cpu'.ld_next.dst] = cpu'.ld_next.val]
  BY DEF Visible
<1>3. /\ bus' = << >> /\ cpu'.hi = cpu.hi /\ cpu'.lo = cpu.lo
      /\ \/ RegQuiet(cpu', cpu)
         \/ i.op = "JALR" /\ \E v \in Word : RegWrite(cpu', cpu, i.rd, v)
  BY DEF ExceptionStep, SameHiLo
<1> HIDE DEF V
<1>4. CASE RegQuiet(cpu', cpu)
  <2>1. cpu'.gpr = V /\ cpu'.ld_next = p
    BY <1>1, <1>4 DEF RegQuiet, V
  <2>2. Visible(cpu') = [V EXCEPT ![p.dst] = p.val]
    BY <1>2, <2>1
  <2> QED
    BY <1>3, <2>2 DEF V
<1>5. CASE i.op = "JALR" /\ \E v \in Word : RegWrite(cpu', cpu, i.rd, v)
  <2>1. PICK v \in Word : RegWrite(cpu', cpu, i.rd, v)
    BY <1>5
  <2>2. i.rd \in Reg
    BY DEF InstrType
  <2>3. /\ cpu'.gpr = [[V EXCEPT ![i.rd] = v] EXCEPT ![0] = 0]
        /\ cpu'.ld_next = IF p.dst = i.rd THEN NoLoad ELSE p
    BY <2>1 DEF RegWrite, V
  <2>4. ASSUME NEW r \in Reg, r # i.rd
        PROVE  Visible(cpu')[r] = [V EXCEPT ![p.dst] = p.val][r]
    <3>1. CASE p.dst = i.rd
      BY <3>1, <1>1, <1>2, <2>2, <2>3, <2>4 DEF NoLoad
    <3>2. CASE p.dst # i.rd
      BY <3>2, <1>1, <1>2, <2>2, <2>3, <2>4
    <3> QED
      BY <3>1, <3>2
  <2> QED
    BY <1>3, <1>5, <2>4 DEF V
<1> QED
  BY <1>3, <1>4, <1>5

\* An instruction of psycho_cpu_step that raises an exception has no other
\* effect, except that JALR links first and that an access goes on after its
\* breakpoint.
THEOREM Precise == Spec => PreciseExceptions
PROOF
<1> DEFINE P == cpu'.raised # << >> /\ ~ DataBreakpoint(cpu') =>
                  /\ bus' = << >>
                  /\ cpu'.hi = cpu.hi /\ cpu'.lo = cpu.lo
                  /\ \A r \in Reg :
                       \/ cpu'.instr.op = "JALR" /\ r = cpu'.instr.rd
                       \/ Visible(cpu')[r] =
                            [Visible(cpu) EXCEPT ![cpu.ld_pend.dst] = cpu.ld_pend.val][r]
<1>1. TypeOK /\ ZeroInv /\ [Next]_vars => [P]_vars
  <2> SUFFICES ASSUME TypeOK, ZeroInv, Next, cpu'.raised # << >>, ~ DataBreakpoint(cpu')
               PROVE  P
    OBVIOUS
  <2>1. CASE Step
    <3>1. PICK i \in InstrType : Execute(i, MemWord)
      BY <2>1, StepExecutes
    <3>2. ExceptionStep(i) /\ FlowStep(i)
      BY <3>1, ExceptionEffect, ControlEffect, CpuAssumption
    <3>3. cpu'.instr = i
      BY <3>2 DEF FlowStep
    <3> QED
      BY <3>2, <3>3, PreciseStep
  <2>2. CASE Reset
    BY <2>2, ResetEffect
  <2> QED
    BY <2>1, <2>2 DEF Next
<1> QED
  BY <1>1, TypeCorrect, ZeroInvariant, PTL DEF Spec, PreciseExceptions
=============================================================================
