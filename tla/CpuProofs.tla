----------------------------- MODULE CpuProofs -----------------------------
(***************************************************************************)
(* Type correctness of Cpu, for every word size, register count, memory    *)
(* map and set of instructions: each operator of Words and CpuDefs returns *)
(* a word, each helper of cpu.c keeps the types of struct psycho_cpu, and  *)
(* so does each action.                                                    *)
(***************************************************************************)
EXTENDS Cpu, TLAPS

\* The numbers of halfwords and words are positive.
LEMMA SizeFacts ==
  /\ HalfSize \in Nat \ {0}
  /\ WordSize \in Nat \ {0}
PROOF
<1>1. HalfSize \in Nat \ {0}
  BY ByteAssumption DEF HalfSize
<1> QED
  BY <1>1 DEF WordSize

\* Zero and UINT32_MAX are words, and words are natural numbers.
LEMMA WordFacts ==
  /\ 0 \in Word
  /\ WordMax \in Word
  /\ \A w \in Word : w \in Nat
PROOF
  BY SizeFacts DEF Word, WordMax

\* Storing an integer in a u32 gives a word.
LEMMA WrapType ==
  ASSUME NEW x \in Int
  PROVE  Wrap(x) \in Word
PROOF
  BY SizeFacts DEF Wrap, Word

\* A set of bits makes a word.
LEMMA FromBitsType ==
  ASSUME NEW S
  PROVE  FromBits(S) \in Word
PROOF
<1> DEFINE words == {w \in Word : BitsOf(w) = S}
<1>1. CASE words = {}
  BY <1>1, WordFacts DEF FromBits
<1>2. CASE words # {}
  <2>1. (CHOOSE w \in words : TRUE) \in words
    BY <1>2
  <2> QED
    BY <1>2, <2>1 DEF FromBits
<1> QED
  BY <1>1, <1>2

(***************************************************************************)
(* The operators of Words and CpuDefs return words.                        *)
(***************************************************************************)
\* The cast to s32 is an integer.
LEMMA SignedType ==
  ASSUME NEW w \in Word
  PROVE  Signed(w) \in Int
PROOF
  BY WordFacts, SizeFacts DEF Signed

\* The sign extensions of core/util.h return a u32.
LEMMA SignExtType ==
  ASSUME NEW x \in Nat
  PROVE  sign_ext_16_32(x) \in Word /\ sign_ext_8_32(x) \in Word
PROOF
<1>1. ASSUME NEW size \in Nat PROVE SignExt(x, size) \in Word
  BY <1>1, WrapType DEF SignExt
<1> QED
  BY <1>1, SizeFacts, ByteAssumption DEF sign_ext_16_32, sign_ext_8_32

\* A C comparison is a u32.
LEMMA BoolType ==
  ASSUME NEW p
  PROVE  Bool(p) \in Word
PROOF
<1>1. WordSize >= 2
  <2>1. HalfSize >= 2
    BY ByteAssumption DEF HalfSize
  <2> QED
    BY <2>1, SizeFacts DEF WordSize
<1> QED
  BY <1>1, SizeFacts DEF Bool, Word

\* The register-register instructions compute a u32.
LEMMA alu_reg_Type ==
  ASSUME NEW op, NEW a \in Word, NEW b \in Word, NEW sh
  PROVE  alu_reg(op, a, b, sh) \in Word
PROOF
<1>1. \A s : Sll(b, s) \in Word /\ Srl(b, s) \in Word /\ Sra(b, s) \in Word
  BY FromBitsType DEF Sll, Srl, Sra
<1>2. And(a, b) \in Word /\ Or(a, b) \in Word /\ Xor(a, b) \in Word /\ Nor(a, b) \in Word
  BY FromBitsType DEF And, Or, Xor, Nor
<1>3. Wrap(a + b) \in Word /\ Wrap(a - b) \in Word
  BY WrapType, WordFacts
<1>4. Bool(Signed(a) < Signed(b)) \in Word /\ Bool(a < b) \in Word
  BY BoolType
<1> QED
  BY <1>1, <1>2, <1>3, <1>4 DEF alu_reg

\* The register-immediate instructions compute a u32.
LEMMA alu_imm_Type ==
  ASSUME NEW op, NEW a \in Word, NEW imm \in Nat
  PROVE  alu_imm(op, a, imm) \in Word
PROOF
<1>1. And(a, imm) \in Word /\ Or(a, imm) \in Word /\ Xor(a, imm) \in Word
  BY FromBitsType DEF And, Or, Xor
<1>2. Wrap(sign_ext_16_32(imm) + a) \in Word
  BY WrapType, SignExtType, WordFacts
<1>3. Wrap(imm * HalfSize) \in Word
  <2>1. imm * HalfSize \in Int
    BY SizeFacts
  <2> QED
    BY <2>1, WrapType
<1>4. /\ Bool(Signed(a) < Signed(sign_ext_16_32(imm))) \in Word
      /\ Bool(a < sign_ext_16_32(imm)) \in Word
  BY BoolType
<1> QED
  BY <1>1, <1>2, <1>3, <1>4 DEF alu_imm

HiLoType == [hi : Word, lo : Word]

\* MULT and MULTU leave a u32 in HI and in LO.
LEMMA MultType ==
  ASSUME NEW a \in Word, NEW b \in Word
  PROVE  mult(a, b) \in HiLoType /\ multu(a, b) \in HiLoType
PROOF
<1>1. ASSUME NEW p \in Int PROVE HiLo(p) \in HiLoType
  <2>1. p \div WordSize \in Int
    BY SizeFacts
  <2> QED
    BY <2>1, WrapType DEF HiLo, HiLoType
<1>2. Signed(a) * Signed(b) \in Int /\ a * b \in Int
  BY SignedType, WordFacts
<1> QED
  BY <1>1, <1>2 DEF mult, multu

\* DIV and DIVU leave a u32 in HI and in LO, whatever the divisor.
LEMMA DivType ==
  ASSUME NEW a \in Word, NEW b \in Word
  PROVE  div(a, b) \in HiLoType /\ divu(a, b) \in HiLoType
PROOF
<1>1. div(a, b) \in HiLoType
  <2> DEFINE n == Signed(a)
             d == Signed(b)
  <2>1. n \in Int /\ d \in Int
    BY SignedType
  <2> HIDE DEF n, d
  <2>2. 1 \in Word
    BY BoolType DEF Bool
  <2>3. d # 0 => TruncDiv(n, d) \in Int
    BY <2>1 DEF TruncDiv
  <2>4. d # 0 => n - d * TruncDiv(n, d) \in Int
    BY <2>1, <2>3
  <2>5. d # 0 => Wrap(TruncDiv(n, d)) \in Word /\ Wrap(n - d * TruncDiv(n, d)) \in Word
    BY <2>3, <2>4, WrapType
  <2>6. CASE d = 0
    BY <2>6, <2>2, WordFacts DEF div, HiLoType, n, d
  <2>7. CASE d # 0
    BY <2>7, <2>5, WordFacts DEF div, HiLoType, n, d
  <2> QED
    BY <2>6, <2>7
<1>2. divu(a, b) \in HiLoType
  <2>1. CASE b = 0
    BY <2>1, WordFacts DEF divu, HiLoType
  <2>2. CASE b # 0
    <3>1. a \div b \in 0 .. a /\ a % b \in 0 .. a
      BY <2>2, SizeFacts DEF Word
    <3>2. a \div b \in Word /\ a % b \in Word
      BY <3>1, SizeFacts DEF Word
    <3> QED
      BY <2>2, <3>2 DEF divu, HiLoType
  <2> QED
    BY <2>1, <2>2
<1> QED
  BY <1>1, <1>2

\* The four merges of an unaligned access give a u32.
LEMMA MergeType ==
  ASSUME NEW v \in Word, NEW w \in Word, NEW k \in 0 .. 3
  PROVE  /\ lwl_merge(v, w, k) \in Word
         /\ lwr_merge(v, w, k) \in Word
         /\ swl_merge(v, w, k) \in Word
         /\ swr_merge(v, w, k) \in Word
PROOF
<1>1. ASSUME NEW j \in Int PROVE ByteWeight(j) \in Nat \ {0}
  <2>1. HalfSize * ByteSize \in Nat \ {0}
    BY SizeFacts, ByteAssumption
  <2> QED
    BY <2>1, SizeFacts, ByteAssumption DEF ByteWeight
<1>2. ASSUME NEW x \in Word, NEW j \in Int
      PROVE  /\ x % ByteWeight(j) \in Int
             /\ x \div ByteWeight(j) \in Int
             /\ x * ByteWeight(j) \in Int
             /\ x - (x % ByteWeight(j)) \in Int
  BY <1>1, WordFacts
<1>3. lwl_merge(v, w, k) \in Word
  BY <1>2, WrapType DEF lwl_merge
<1>4. lwr_merge(v, w, k) \in Word
  <2>1. (IF k = 0 THEN 0 ELSE v - (v % ByteWeight(4 - k))) + (w \div ByteWeight(k)) \in Int
    BY <1>2
  <2> QED
    BY <2>1, WrapType DEF lwr_merge
<1>5. swl_merge(v, w, k) \in Word
  <2>1. (IF k = 3 THEN 0 ELSE w - (w % ByteWeight(k + 1))) + (v \div ByteWeight(3 - k)) \in Int
    BY <1>2
  <2> QED
    BY <2>1, WrapType DEF swl_merge
<1>6. swr_merge(v, w, k) \in Word
  BY <1>2, WrapType DEF swr_merge
<1> QED
  BY <1>3, <1>4, <1>5, <1>6

\* Addresses are u32s.
LEMMA AddrType ==
  ASSUME NEW n \in Nat, NEW w \in Word
  PROVE  /\ get_vaddr(n, w) \in Word
         /\ calc_jmp_addr(n, w) \in Word
         /\ \A adjust \in Nat : calc_branch_addr(n, w + adjust) \in Word
         /\ vaddr_to_paddr(w) \in Word
         /\ DataPaddr(w) \in Word
PROOF
<1>1. get_vaddr(n, w) \in Word
  BY WrapType, SignExtType, WordFacts DEF get_vaddr
<1>2. calc_jmp_addr(n, w) \in Word
  <2>1. w % RegionSize \in Int
    BY CpuDefsAssumption, WordFacts
  <2> QED
    BY <2>1, WrapType, WordFacts DEF calc_jmp_addr
<1>3. \A adjust \in Nat : calc_branch_addr(n, w + adjust) \in Word
  <2>1. (n * 4) % HalfSize \in Nat
    BY SizeFacts
  <2> QED
    BY <2>1, WrapType, SignExtType, WordFacts DEF calc_branch_addr
<1>4. ASSUME NEW x \in Word PROVE vaddr_to_paddr(x) \in Word
  BY CpuDefsAssumption, SizeFacts DEF vaddr_to_paddr, Word
<1>5. w % HackSize \in Word
  BY CpuDefsAssumption, SizeFacts DEF Word
<1> QED
  BY <1>1, <1>2, <1>3, <1>4, <1>5 DEF DataPaddr

\* Pushing and popping the stack of SR and setting Cause give a u32.
LEMMA StatusType ==
  ASSUME NEW w \in Word, NEW exc \in ExcCode
  PROVE  /\ sr_push(w) \in Word
         /\ sr_pop(w) \in Word
         /\ cause_set(w, exc) \in Word
PROOF
<1>1. w \in Nat /\ exc \in Nat
  BY WordFacts DEF ExcCode, EXCEPTION_ADEL, EXCEPTION_ADES, EXCEPTION_SYS,
     EXCEPTION_BP, EXCEPTION_OV
<1>2. /\ w % 64 \in Int /\ w % 16 \in Int
      /\ (w % 64) \div 4 \in Int /\ (w \div 256) % 256 \in Int
  BY <1>1
<1> QED
  BY <1>1, <1>2, WrapType DEF sr_push, sr_pop, cause_set

(***************************************************************************)
(* The helpers of cpu.c keep the CPU well typed.                           *)
(***************************************************************************)
\* The fields of a well-typed CPU.
LEMMA CpuFields ==
  ASSUME NEW c \in CpuType
  PROVE  /\ \A r \in Reg : c.gpr[r] \in Word
         /\ \A r \in Cop0Reg : c.cop0[r] \in Word
         /\ c.hi \in Word /\ c.lo \in Word
         /\ c.curr_pc \in Word /\ c.pc \in Word /\ c.next_pc \in Word
         /\ c.ld_next.dst \in Reg /\ c.ld_next.val \in Word
         /\ c.ld_pend.dst \in Reg /\ c.ld_pend.val \in Word
         /\ c.raised \in Seq(ExcCode)
         /\ c.wrote \in LoadSlot
PROOF
  BY DEF CpuType, LoadSlot

\* Registers 0 and $ra exist, and the cleared load slot is a load slot.
LEMMA NoLoadType == 0 \in Reg /\ CPU_GPR_RA \in Reg /\ NoLoad \in LoadSlot
PROOF
  BY WordFacts, CpuDefsAssumption DEF NoLoad, LoadSlot, Reg

\* gpr_set keeps the types of struct psycho_cpu.
LEMMA gpr_set_Type ==
  ASSUME NEW c \in CpuType, NEW reg \in Reg, NEW val \in Word
  PROVE  gpr_set(c, reg, val) \in CpuType
PROOF
<1>1. Written(reg, val) \in LoadSlot
  BY NoLoadType DEF Written, LoadSlot
<1> QED
  BY <1>1, NoLoadType DEF gpr_set, CpuType

\* gpr_set_delayed keeps the types of struct psycho_cpu.
LEMMA gpr_set_delayed_Type ==
  ASSUME NEW c \in CpuType, NEW dst \in Reg, NEW val \in Word
  PROVE  gpr_set_delayed(c, dst, val) \in CpuType
PROOF
<1>1. [dst |-> dst, val |-> val] \in LoadSlot
  BY DEF LoadSlot
<1> QED
  BY <1>1, NoLoadType DEF gpr_set_delayed, CpuType

\* load_delay_process keeps the types of struct psycho_cpu.
LEMMA load_delay_process_Type ==
  ASSUME NEW c \in CpuType
  PROVE  load_delay_process(c) \in CpuType
PROOF
  BY NoLoadType, CpuFields DEF load_delay_process, CpuType

\* branch_if keeps the types of struct psycho_cpu.
LEMMA branch_if_Type ==
  ASSUME NEW c \in CpuType, NEW n \in Nat, NEW cond
  PROVE  branch_if(c, n, cond) \in CpuType
PROOF
<1>1. \A adjust \in Nat : calc_branch_addr(n, c.curr_pc + adjust) \in Word
  BY AddrType, CpuFields
<1>2. /\ calc_branch_addr(n, c.curr_pc + 12) \in Word
      /\ calc_branch_addr(n, c.curr_pc + 0) \in Word
  BY <1>1
<1> QED
  BY <1>2 DEF branch_if, CpuType

\* jmp keeps the types of struct psycho_cpu.
LEMMA jmp_Type ==
  ASSUME NEW c \in CpuType, NEW val \in Word
  PROVE  jmp(c, val) \in CpuType
PROOF
  BY DEF jmp, CpuType

\* raise_exception keeps the types of struct psycho_cpu.
LEMMA raise_exception_Type ==
  ASSUME NEW c \in CpuType, NEW exc \in ExcCode
  PROVE  raise_exception(c, exc) \in CpuType
PROOF
<1>1. /\ c.cop0 \in [Cop0Reg -> Word]
      /\ c.curr_pc \in Word
      /\ c.raised \in Seq(ExcCode)
  BY DEF CpuType
<1>2. sr_push(c.cop0["SR"]) \in Word /\ cause_set(c.cop0["CAUSE"], exc) \in Word
  BY <1>1, StatusType DEF Cop0Reg
<1>3. EXC_PC \in Word /\ Wrap(EXC_PC + 4) \in Word
  BY CpuDefsAssumption, WordFacts, WrapType
<1>4. Append(c.raised, exc) \in Seq(ExcCode)
  BY <1>1
<1> QED
  BY <1>1, <1>2, <1>3, <1>4 DEF raise_exception, CpuType, Cop0Reg

\* dbg_data_bp_chk keeps the types of struct psycho_cpu.
LEMMA dbg_data_bp_chk_Type ==
  ASSUME NEW c \in CpuType, NEW vaddr
  PROVE  dbg_data_bp_chk(c, vaddr) \in CpuType
PROOF
<1>1. raise_exception(c, EXCEPTION_BP) \in CpuType
  BY raise_exception_Type DEF ExcCode
<1>2. DBG_PC \in Word /\ Wrap(DBG_PC + 4) \in Word
  BY CpuDefsAssumption, WordFacts, WrapType
<1> QED
  BY <1>1, <1>2 DEF dbg_data_bp_chk, CpuType

\* The head of psycho_cpu_step keeps the types of struct psycho_cpu.
LEMMA fetch_Type ==
  ASSUME NEW c \in CpuType, NEW i \in InstrType
  PROVE  fetch(c, i) \in CpuType
PROOF
<1> DEFINE d == load_delay_process(
                  [c EXCEPT !.in_branch_delay_slot = c.next_in_branch_delay_slot,
                            !.next_in_branch_delay_slot = FALSE])
           e == IF d.pc % 4 # 0 THEN raise_exception(d, EXCEPTION_ADEL) ELSE d
<1>1. [c EXCEPT !.in_branch_delay_slot = c.next_in_branch_delay_slot,
                !.next_in_branch_delay_slot = FALSE] \in CpuType
  BY DEF CpuType
<1>2. d \in CpuType
  BY <1>1, load_delay_process_Type
<1>3. e \in CpuType
  BY <1>2, raise_exception_Type DEF ExcCode
<1>4. fetch(c, i) = [e EXCEPT !.curr_pc = e.pc, !.instr = i, !.pc = e.next_pc,
                              !.next_pc = Wrap(e.next_pc + 4),
                              !.via = IF d.pc % 4 # 0 THEN "fault" ELSE "fetch",
                              !.raised = << >>, !.wrote = NoLoad]
  BY DEF fetch
<1> HIDE DEF d, e
<1>5. Wrap(e.next_pc + 4) \in Word
  BY <1>3, CpuFields, WordFacts, WrapType
<1>6. << >> \in Seq(ExcCode)
  OBVIOUS
<1> QED
  BY <1>3, <1>4, <1>5, <1>6, NoLoadType DEF CpuType

\* The tail of psycho_cpu_step keeps the types of struct psycho_cpu.
LEMMA Retire_Type ==
  ASSUME NEW c \in CpuType
  PROVE  Retire(c) \in CpuType
PROOF
  BY WordFacts DEF Retire, CpuType

\* psycho_cpu_reset keeps the types of struct psycho_cpu.
LEMMA psycho_cpu_reset_Type ==
  ASSUME NEW c \in CpuType
  PROVE  psycho_cpu_reset(c) \in CpuType
PROOF
<1>1. RESET_PC \in Word /\ Wrap(RESET_PC + 4) \in Word
  BY CpuDefsAssumption, WordFacts, WrapType
<1>2. << >> \in Seq(ExcCode)
  OBVIOUS
<1> QED
  BY <1>1, <1>2, NoLoadType DEF psycho_cpu_reset, CpuType

(***************************************************************************)
(* Type correctness.                                                       *)
(***************************************************************************)
\* Memory only holds decodable instructions.
LEMMA FetchedType == \A i \in Fetched : i \in InstrType
PROOF
<1>1. IllegalInstr \in InstrType
  BY NoLoadType DEF IllegalInstr, InstrType, InstrOp, Cop0Reg
<1> QED
  BY <1>1, CpuAssumption DEF Fetched

\* The head of the step, and the operands it leaves, are well typed.
LEMMA HeadType ==
  ASSUME cpu \in CpuType, NEW i \in InstrType
  PROVE  /\ F(i) \in CpuType
         /\ Rs(i) \in Word
         /\ Rt(i) \in Word
         /\ i.rs \in Reg /\ i.rt \in Reg /\ i.rd \in Reg
         /\ i.cr \in Cop0Reg /\ i.arg \in Nat
PROOF
<1>1. i.rs \in Reg /\ i.rt \in Reg /\ i.rd \in Reg /\ i.cr \in Cop0Reg /\ i.arg \in Nat
  BY DEF InstrType
<1>2. F(i) \in CpuType
  BY fetch_Type DEF F
<1> QED
  BY <1>1, <1>2, CpuFields DEF Rs, Rt

\* The addresses and values of a data access.
LEMMA AccessType ==
  ASSUME cpu \in CpuType, NEW i \in InstrType, NEW w \in Word
  PROVE  /\ Checked(i) \in CpuType
         /\ BusAddr(i) \in Word
         /\ load_value(i, w) \in Word
         /\ store_value(i, w) \in Word
PROOF
<1>1. Checked(i) \in CpuType
  BY HeadType, dbg_data_bp_chk_Type DEF Checked
<1>2. Paddr(i) \in Word
  BY HeadType, AddrType DEF Paddr, Vaddr
<1>3. ByteInWord(i) \in 0 .. 3
  BY <1>2, WordFacts DEF ByteInWord
<1>4. BusAddr(i) \in Word
  <2>1. Paddr(i) - ByteInWord(i) \in 0 .. Paddr(i)
    BY <1>2, WordFacts DEF ByteInWord
  <2> QED
    BY <1>2, <2>1, SizeFacts DEF BusAddr, Word
<1>5. ASSUME NEW x \in Word
      PROVE  /\ x % ByteSize \in Word /\ x % HalfSize \in Word
             /\ x % ByteSize \in Nat /\ x % HalfSize \in Nat
  <2>1. x % ByteSize \in 0 .. x /\ x % HalfSize \in 0 .. x
    BY SizeFacts, ByteAssumption, WordFacts
  <2> QED
    BY <2>1, SizeFacts DEF Word
<1>6. load_value(i, w) \in Word
  <2>1. MergeBase(i) \in Word
    BY HeadType, CpuFields DEF MergeBase
  <2>2. /\ lwl_merge(MergeBase(i), w, ByteInWord(i)) \in Word
        /\ lwr_merge(MergeBase(i), w, ByteInWord(i)) \in Word
    BY <2>1, <1>3, MergeType
  <2>3. sign_ext_8_32(w % ByteSize) \in Word /\ sign_ext_16_32(w % HalfSize) \in Word
    BY <1>5, SignExtType
  <2> QED
    BY <2>2, <2>3, <1>5 DEF load_value
<1>7. store_value(i, w) \in Word
  <2>1. /\ swl_merge(Rt(i), w, ByteInWord(i)) \in Word
        /\ swr_merge(Rt(i), w, ByteInWord(i)) \in Word
    BY HeadType, <1>3, MergeType
  <2> QED
    BY <2>1, <1>5, HeadType DEF store_value
<1> QED
  BY <1>1, <1>4, <1>6, <1>7

\* Done ends a step in a well-typed state.
LEMMA DoneType ==
  ASSUME NEW c \in CpuType, Done(c), halted \in BOOLEAN
  PROVE  TypeOK'
PROOF
<1>1. << >> \in Seq(BusCall)
  OBVIOUS
<1> QED
  BY <1>1, Retire_Type DEF Done, TypeOK

\* A recorded bus call is well typed.
LEMMA CallType ==
  ASSUME cpu \in CpuType, NEW i \in InstrType, NEW val \in Word,
         NEW kind \in {"load", "store"}
  PROVE  Call(kind, i, val) \in BusCall
PROOF
  BY AccessType DEF Call, BusCall, AccessLen

\* Every kind of instruction keeps the types, whatever words memory returns.
LEMMA ExecuteType ==
  ASSUME TypeOK, NEW i \in InstrType, NEW words \in SUBSET Word, Execute(i, words)
  PROVE  TypeOK'
PROOF
<1> USE DEF TypeOK
<1>0. cpu \in CpuType /\ halted \in BOOLEAN
  OBVIOUS
<1>1. \/ AluReg(i) \/ AluImm(i) \/ AddSub(i) \/ AddSubOverflow(i)
      \/ MulDiv(i) \/ HiLoMove(i) \/ Jump(i) \/ Branch(i)
      \/ Trap(i) \/ Cop0(i) \/ Illegal(i)
      \/ \E w \in words : Load(i, w)
      \/ LoadAddressError(i)
      \/ \E w \in words : Store(i, w)
      \/ StoreIsolated(i) \/ StoreAddressError(i)
  BY DEF Execute
<1>2. i \in InstrType
  OBVIOUS
<1>3. /\ F(i) \in CpuType /\ Rs(i) \in Word /\ Rt(i) \in Word
      /\ i.rs \in Reg /\ i.rt \in Reg /\ i.rd \in Reg
      /\ i.cr \in Cop0Reg /\ i.arg \in Nat
  BY <1>0, <1>2, HeadType
<1> USE NoLoadType
<1> HIDE DEF TypeOK
<1>4. LinkAddr(F(i)) \in Word
  BY <1>3, CpuFields, WrapType, WordFacts DEF LinkAddr
<1>5. \A exc \in ExcCode : raise_exception(F(i), exc) \in CpuType
  BY <1>3, raise_exception_Type
<1>6. \A r \in Reg, v \in Word : gpr_set(F(i), r, v) \in CpuType
  BY <1>3, gpr_set_Type
<1>7. CASE AluReg(i)
  <2>1. alu_reg(i.op, Rs(i), Rt(i), i.arg) \in Word
    BY <1>3, alu_reg_Type
  <2> QED
    BY <1>7, <2>1, <1>0, <1>3, <1>6, DoneType DEF AluReg
<1>8. CASE AluImm(i)
  <2>1. alu_imm(i.op, Rs(i), i.arg) \in Word
    BY <1>3, alu_imm_Type
  <2> QED
    BY <1>8, <2>1, <1>0, <1>3, <1>6, DoneType DEF AluImm
<1>9. CASE AddSub(i)
  <2>1. ExactResult(i) \in Int
    BY <1>3, SignedType, SignExtType DEF ExactResult
  <2>2. Wrap(ExactResult(i)) \in Word
    BY <2>1, WrapType
  <2> QED
    BY <1>9, <2>2, <1>0, <1>3, <1>6, DoneType DEF AddSub
<1>10. CASE AddSubOverflow(i)
  BY <1>10, <1>0, <1>5, DoneType DEF AddSubOverflow, ExcCode
<1>11. CASE MulDiv(i)
  <2>1. MulDivResult(i) \in HiLoType
    BY <1>3, MultType, DivType DEF MulDivResult
  <2>2. [F(i) EXCEPT !.hi = MulDivResult(i).hi, !.lo = MulDivResult(i).lo] \in CpuType
    BY <2>1, <1>3 DEF HiLoType, CpuType
  <2> QED
    BY <1>11, <2>2, <1>0, DoneType DEF MulDiv
<1>12. CASE HiLoMove(i)
  <2>1. F(i).hi \in Word /\ F(i).lo \in Word
    BY <1>3, CpuFields
  <2>2. /\ [F(i) EXCEPT !.hi = Rs(i)] \in CpuType
        /\ [F(i) EXCEPT !.lo = Rs(i)] \in CpuType
    BY <1>3 DEF CpuType
  <2> QED
    BY <1>12, <2>1, <2>2, <1>0, <1>3, <1>6, DoneType DEF HiLoMove
<1>13. CASE Jump(i)
  <2>1. calc_jmp_addr(i.arg, F(i).curr_pc) \in Word
    BY <1>3, CpuFields, AddrType
  <2>2. \A r \in Reg : gpr_set(F(i), r, LinkAddr(F(i))) \in CpuType
    BY <1>4, <1>6
  <2>3. /\ jmp(F(i), calc_jmp_addr(i.arg, F(i).curr_pc)) \in CpuType
        /\ jmp(gpr_set(F(i), CPU_GPR_RA, LinkAddr(F(i))),
               calc_jmp_addr(i.arg, F(i).curr_pc)) \in CpuType
        /\ jmp(F(i), Rs(i)) \in CpuType
        /\ jmp(gpr_set(F(i), i.rd, LinkAddr(F(i))), Rs(i)) \in CpuType
    BY <2>1, <2>2, <1>3, jmp_Type
  <2>4. raise_exception(gpr_set(F(i), i.rd, LinkAddr(F(i))), EXCEPTION_ADEL) \in CpuType
    BY <2>2, <1>3, raise_exception_Type DEF ExcCode
  <2> QED
    BY <1>13, <2>3, <2>4, <1>0, DoneType DEF Jump
<1>14. CASE Branch(i)
  <2>1. gpr_set(F(i), CPU_GPR_RA, LinkAddr(F(i))) \in CpuType
    BY <1>4, <1>6
  <2>2. /\ branch_if(F(i), i.arg, Taken(i)) \in CpuType
        /\ branch_if(gpr_set(F(i), CPU_GPR_RA, LinkAddr(F(i))), i.arg, Taken(i)) \in CpuType
    BY <2>1, <1>3, branch_if_Type
  <2> QED
    BY <1>14, <2>2, <1>0, DoneType DEF Branch
<1>15. CASE Trap(i)
  BY <1>15, <1>0, <1>5, DoneType DEF Trap, ExcCode
<1>16. CASE Cop0(i)
  <2>1. F(i).cop0[i.cr] \in Word /\ F(i).cop0["SR"] \in Word
    BY <1>3, CpuFields DEF Cop0Reg
  <2>2. [F(i) EXCEPT !.cop0[i.cr] = Rt(i)] \in CpuType
    BY <1>3 DEF CpuType
  <2>3. sr_pop(F(i).cop0["SR"]) \in Word
    BY <2>1, StatusType DEF ExcCode
  <2>4. [F(i) EXCEPT !.cop0["SR"] = sr_pop(@)] \in CpuType
    BY <2>3, <1>3 DEF CpuType, Cop0Reg
  <2> QED
    BY <1>16, <2>1, <2>2, <2>4, <1>0, <1>3, <1>6, DoneType DEF Cop0
<1>17. CASE Illegal(i)
  <2>1. << >> \in Seq(BusCall)
    OBVIOUS
  <2> QED
    BY <1>17, <2>1, <1>3, CpuAssumption DEF Illegal, TypeOK
<1>18. CASE \E w \in words : Load(i, w)
  <2>1. PICK w \in words : Load(i, w)
    BY <1>18
  <2>2. w \in Word
    BY <2>1
  <2>3. Checked(i) \in CpuType /\ load_value(i, w) \in Word
    BY <2>2, <1>0, <1>2, AccessType
  <2>4. gpr_set_delayed(Checked(i), i.rt, load_value(i, w)) \in CpuType
    BY <2>3, <1>3, gpr_set_delayed_Type
  <2>5. << Call("load", i, w) >> \in Seq(BusCall)
    BY <2>2, <1>0, <1>2, CallType
  <2> QED
    BY <2>1, <2>4, <2>5, <1>0, Retire_Type DEF Load, TypeOK
<1>19. CASE LoadAddressError(i)
  <2>1. Checked(i) \in CpuType
    BY <1>0, <1>2, AccessType, WordFacts
  <2>2. raise_exception(Checked(i), EXCEPTION_ADEL) \in CpuType
    BY <2>1, raise_exception_Type DEF ExcCode
  <2> QED
    BY <1>19, <2>2, <1>0, DoneType DEF LoadAddressError
<1>20. CASE \E w \in words : Store(i, w)
  <2>1. PICK w \in words : Store(i, w)
    BY <1>20
  <2>2. w \in Word
    BY <2>1
  <2>3. Checked(i) \in CpuType /\ store_value(i, w) \in Word
    BY <2>2, <1>0, <1>2, AccessType
  <2>4. Call("load", i, w) \in BusCall /\ Call("store", i, store_value(i, w)) \in BusCall
    BY <2>2, <2>3, <1>0, <1>2, CallType
  <2>5. bus' \in Seq(BusCall)
    BY <2>1, <2>4 DEF Store
  <2> QED
    BY <2>1, <2>3, <2>5, <1>0, Retire_Type DEF Store, TypeOK
<1>21. CASE StoreIsolated(i)
  BY <1>21, <1>0, <1>3, DoneType DEF StoreIsolated
<1>22. CASE StoreAddressError(i)
  <2>1. Checked(i) \in CpuType
    BY <1>0, <1>2, AccessType, WordFacts
  <2>2. raise_exception(Checked(i), EXCEPTION_ADES) \in CpuType
    BY <2>1, raise_exception_Type DEF ExcCode
  <2> QED
    BY <1>22, <2>2, <1>0, DoneType DEF StoreAddressError
<1> QED
  BY <1>1, <1>7, <1>8, <1>9, <1>10, <1>11, <1>12, <1>13, <1>14, <1>15, <1>16,
     <1>17, <1>18, <1>19, <1>20, <1>21, <1>22

\* A step of this module executes one instruction memory can hold.
LEMMA StepExecutes ==
  ASSUME Step
  PROVE  \E i \in InstrType : Execute(i, MemWord)
PROOF
  BY FetchedType DEF Step

\* Type correctness: no register, load slot or bus call of psycho_cpu_step
\* ever leaves its C type, whatever memory holds.
THEOREM TypeCorrect == Spec => []TypeOK
PROOF
<1>1. Init => TypeOK
  <2>1. IllegalInstr \in InstrType
    BY NoLoadType DEF IllegalInstr, InstrType, InstrOp, Cop0Reg
  <2>2. << >> \in Seq(ExcCode) /\ << >> \in Seq(BusCall)
    OBVIOUS
  <2>3. ZeroCpu \in CpuType
    BY <2>1, <2>2, NoLoadType, WordFacts DEF CpuType, ZeroCpu
  <2>4. psycho_cpu_reset(ZeroCpu) \in CpuType
    BY <2>3, psycho_cpu_reset_Type
  <2> QED
    BY <2>2, <2>4 DEF Init, TypeOK
<1>2. TypeOK /\ [Next]_vars => TypeOK'
  <2> SUFFICES ASSUME TypeOK, [Next]_vars PROVE TypeOK'
    OBVIOUS
  <2>1. CASE Step
    BY <2>1, StepExecutes, ExecuteType, CpuAssumption
  <2>2. CASE Reset
    <3>1. << >> \in Seq(BusCall)
      OBVIOUS
    <3> QED
      BY <2>2, <3>1, psycho_cpu_reset_Type DEF Reset, TypeOK
  <2>3. CASE UNCHANGED vars
    BY <2>3 DEF vars, TypeOK
  <2> QED
    BY <2>1, <2>2, <2>3 DEF Next
<1> QED
  BY <1>1, <1>2, PTL DEF Spec
=============================================================================
