------------------------------- MODULE Disasm -------------------------------
(***************************************************************************)
(* The disassembler of psycho, core/disasm.c: which mnemonic and which     *)
(* jump or branch target it shows for an instruction.  The other operands  *)
(* and the layout of the text are left out.                                *)
(***************************************************************************)
EXTENDS CpuDefs, Log

Nop == [IllegalInstr EXCEPT !.op = "SLL"]

\* The cases that return; srlv and srav break out of the switch after they
\* are formatted, and SYSCALL and BREAK have no case.
NamedSpecial == (AluRegOps \ {"SRLV", "SRAV"}) \cup {"ADD", "SUB"}
                  \cup {"JR", "JALR"} \cup HiLoOps \cup MulDivOps

\* Mutant: the case of bgez breaks out of the switch, too.
MutNamedBcond == {"BLTZ", "BLTZAL"}

\* bgezal has no case.
NamedBcond == {"BLTZ", "BGEZ", "BLTZAL"}

\* rfe has no case.
NamedCop0 == {"MFC0", "MTC0"}

NamedOp == {"J", "JAL", "BEQ", "BNE", "BLEZ", "BGTZ", "ADDI"}
             \cup AluImmOps \cup LoadOps \cup StoreOps

Named == NamedSpecial \cup NamedBcond \cup NamedCop0 \cup NamedOp

mnemonic(i) == CASE i = Nop -> "NOP"
                 [] i.op = "DIVU" -> "DIV"
                 [] i # Nop /\ i.op \in Named \ {"DIVU"} -> i.op
                 [] OTHER -> "ILLEGAL"

\* The branch target is computed from the instruction's own PC, without the
\* adjustment branch_if makes in a delay slot.  An instruction without a case
\* (bgezal) is shown without a target.
shown_target(i, pc) ==
  CASE i.op \in {"J", "JAL"} -> calc_jmp_addr(i.arg, pc)
    [] i.op \in BranchOps \cap Named -> calc_branch_addr(i.arg, pc)
    [] OTHER -> 0

psycho_disasm_instr(i, pc) == [op |-> mnemonic(i), target |-> shown_target(i, pc)]

\* d is struct psycho_disasm, i the instruction that was peeked at.
psycho_disasm_trace_begin(d, i, pc) ==
  [d EXCEPT !.result = [pc |-> pc, str |-> psycho_disasm_instr(i, pc)]]

psycho_disasm_trace_end(t, d) == LOG_HANDLE(t, "DISASM", INFO, <<d.result>>)

psycho_disasm_trace_instruction_enable(d, enable) ==
  [d EXCEPT !.trace_instruction = enable]

InitDisasm ==
  [trace_instruction |-> FALSE,
   result |-> [pc |-> 0, str |-> [op |-> "", target |-> 0]]]
=============================================================================
