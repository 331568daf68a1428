------------------------------- MODULE MCApp -------------------------------
(***************************************************************************)
(* An instance of App for TLC.  Words have 8 bits; there are seven         *)
(* registers; RAM is at 0..31 (data addresses fold at 16), the scratchpad  *)
(* at 40..43 and the BIOS at 64..119, all of it also seen 128 higher; the  *)
(* traced entry point is 4, the shell's 152, the exception vector 16.      *)
(*                                                                         *)
(* A command line is a BIOS made of a program with free places, filled in  *)
(* every way, and an EXE.  The word that encodes an instruction is its     *)
(* index in Code.                                                          *)
(***************************************************************************)
EXTENDS App

T1 == CPU_GPR_T1
A0 == CPU_GPR_A0
GP == CPU_GPR_GP
SP == CPU_GPR_SP
FP == CPU_GPR_FP
RA == CPU_GPR_RA

I(op, rs, rt, rd, arg) ==
  [op |-> op, rs |-> rs, rt |-> rt, rd |-> rd, cr |-> "PRID", arg |-> arg]

C0(op, rt, cr) ==
  [op |-> op, rs |-> 0, rt |-> rt, rd |-> 0, cr |-> cr, arg |-> 0]

JrRa == I("JR", RA, 0, 0, 0)
Ori(r, v) == I("ORI", 0, r, 0, v)
Lw(r, off) == I("LW", 0, r, 0, off)

(***************************************************************************)
(* The instructions of the programs below, in the order of their codes.    *)
(***************************************************************************)
CallCode ==
  << Nop, JrRa, Ori(SP, 1), I("SW", 0, SP, 0, 4), Ori(T1, PUTCHAR),
     Ori(FP, TRACE_PC), I("JALR", FP, 0, RA, 0), I("LUI", 0, FP, 0, 9),
     I("ORI", FP, FP, 0, 8), I("JR", FP, 0, 0, 0),
     Ori(A0, 3), Ori(A0, 1), Lw(A0, 0), Ori(A0, 7), Lw(A0, 4), Lw(T1, 4),
     I("BEQ", 0, 0, 0, 2), I("JR", T1, 0, 0, 0), I("SYSCALL", 0, 0, 0, 0),
     Lw(SP, 4), Lw(GP, 4), I("BGEZ", 0, 0, 0, 2), I("BREAK", 0, 0, 0, 0),
     I("LUI", 0, T1, 0, 2), I("ORI", T1, T1, 0, 8), I("LUI", 0, A0, 0, 14),
     I("ORI", A0, A0, 0, 4), I("SW", T1, A0, 0, 0),
     I("LUI", 0, T1, 0, 8), I("ADDIU", 0, A0, 0, 15) >>

\* Loads and stores of every width and alignment at the scratchpad, in front
\* of the context's pointers.
DataCode ==
  << I("LWR", T1, SP, 0, 0), I("LWR", T1, SP, 0, 1), I("LWR", T1, SP, 0, 2),
     I("LWL", T1, SP, 0, 3), I("LWL", T1, SP, 0, 4), I("LWL", T1, SP, 0, 5),
     I("LWL", T1, SP, 0, 2), I("LWR", 0, SP, 0, 1), I("LWL", 0, SP, 0, 4),
     I("LW", T1, SP, 0, 0), I("SW", T1, A0, 0, 2), I("SH", T1, A0, 0, 3),
     I("SB", T1, A0, 0, 3), I("SWL", T1, A0, 0, 2), I("SWR", T1, A0, 0, 1),
     I("LHU", T1, SP, 0, 2), I("ADDIU", T1, T1, 0, 1) >>

\* HI, LO, products, quotients and overflows at both ends of the range.
ArithCode ==
  << I("MULT", T1, A0, 0, 0), I("MULTU", T1, A0, 0, 0), I("DIV", T1, A0, 0, 0),
     I("DIVU", A0, T1, 0, 0), I("MFHI", 0, 0, A0, 0), I("MFLO", 0, 0, T1, 0),
     I("MTHI", T1, 0, 0, 0), I("MTLO", A0, 0, 0, 0), I("ADD", T1, A0, SP, 0),
     I("SUB", A0, T1, T1, 0), I("ADDI", T1, A0, 0, 15), I("SRAV", A0, T1, T1, 0) >>

\* The cache isolated, or a data breakpoint on every address, before the
\* stores.
CacheCode == << I("LUI", 0, FP, 0, 4), C0("MTC0", FP, "SR") >>
BreakCode == << I("LUI", 0, FP, 0, 8), C0("MTC0", FP, "DCIC") >>

\* The EXEs' own code.
ExeCode == << I("ADDU", GP, SP, A0, 0), I("J", 0, 0, 0, 6), Lw(GP, 0) >>

Code == CallCode \o DataCode \o ArithCode \o CacheCode \o BreakCode \o ExeCode

Encode == [i \in Range(Code) \cup {IllegalInstr} |->
             IF i = IllegalInstr THEN WordMax
             ELSE SelectInSeq(Code, LAMBDA x : x = i) - 1]

\* Calls putchar through a stub it has written to RAM, with a character and
\* a delay slot of every kind, and goes to the shell.
CallPrograms ==
  { << Ori(SP, 1), I("SW", 0, SP, 0, 4), Ori(T1, PUTCHAR), x1,
       Ori(FP, TRACE_PC), I("JALR", FP, 0, RA, 0), x2, x3,
       I("LUI", 0, FP, 0, 9), I("ORI", FP, FP, 0, 8), I("JR", FP, 0, 0, 0), x4 >> :
      x1 \in {Ori(A0, 3), Ori(A0, 1), Lw(A0, 0)},
      x2 \in {Nop, Ori(A0, 7), Lw(A0, 4), Lw(T1, 4), I("BEQ", 0, 0, 0, 2)},
      x3 \in {Nop, I("JR", T1, 0, 0, 0), I("SYSCALL", 0, 0, 0, 0)},
      x4 \in {Nop, Lw(SP, 4), Lw(GP, 4), I("BGEZ", 0, 0, 0, 2), I("BREAK", 0, 0, 0, 0)} }

DataPrograms ==
  { << I("LUI", 0, T1, 0, 2), I("ORI", T1, T1, 0, 8), I("LUI", 0, A0, 0, 14),
       I("ORI", A0, A0, 0, 4), I("SW", T1, A0, 0, 0), x1, x2, x3, IllegalInstr >> :
      x1 \in { I("LW", T1, SP, 0, 0), I("SH", T1, A0, 0, 3), I("SWL", T1, A0, 0, 2),
              I("SWR", T1, A0, 0, 1), I("ADDIU", T1, T1, 0, 1) },
      x2 \in Range(DataCode), x3 \in Range(DataCode) }

ArithPrograms ==
  { << I("LUI", 0, T1, 0, 8), I("ADDIU", 0, A0, 0, 15), x1, x2, x3, IllegalInstr >> :
      x1 \in { I("MULT", T1, A0, 0, 0), I("DIV", T1, A0, 0, 0), I("DIVU", A0, T1, 0, 0) },
      x2 \in Range(ArithCode), x3 \in Range(ArithCode) }

GuardedPrograms ==
  { << I("LUI", 0, T1, 0, 2), I("ORI", T1, T1, 0, 8), I("LUI", 0, A0, 0, 14) >>
      \o guard \o << x1, x2, IllegalInstr >> :
      guard \in {CacheCode, BreakCode},
      x1, x2 \in { I("SW", T1, A0, 0, 0), I("SW", T1, A0, 0, 2), I("SB", T1, A0, 0, 3),
                   I("SH", T1, A0, 0, 3), I("SWL", T1, A0, 0, 2), I("SWR", T1, A0, 0, 1) } }

MCDecode == [w \in Word |-> IF w < Len(Code) THEN Code[w + 1] ELSE IllegalInstr]

Image(program, size) ==
  LET words == [n \in DOMAIN program |-> Encode[program[n]]]
  IN  [k \in 1 .. size |->
         LET n == ((k - 1) \div 4) + 1
         IN  IF n > Len(program) THEN 0
             ELSE (words[n] \div ByteWeight((k - 1) % 4)) % ByteSize]

BiosFile(program) == Image(program, 56)

Exe(size, id, pc, dest_addr, base) ==
  [size |-> size, id |-> id, pc |-> pc, gp |-> 9, dest_addr |-> dest_addr,
   file_size |-> 12, sp_fp_base |-> base, sp_fp_off |-> 8, code |-> Image(ExeCode, 12)]

GoodExe == Exe(16, TRUE, 136, 136, 100)

\* EXEs that are good, start at a misaligned PC, lie where the shell is, are
\* no EXE, and are too short.
Exes == { GoodExe, Exe(16, TRUE, 138, 136, 0), Exe(16, TRUE, 152, 148, 250),
          Exe(16, FALSE, 136, 136, 100), Exe(3, TRUE, 136, 136, 100) }

MCCommandLine ==
  { [bios |-> BiosFile(p), exe |-> e] : p \in CallPrograms, e \in Exes }
    \cup { [bios |-> BiosFile(p), exe |-> GoodExe] : p \in DataPrograms \cup ArithPrograms \cup GuardedPrograms }
    \cup { [bios |-> Image(<<JrRa>>, 20), exe |-> GoodExe] }
=============================================================================
