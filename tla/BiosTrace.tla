----------------------------- MODULE BiosTrace -----------------------------
(***************************************************************************)
(* The BIOS call tracer and the TTY of psycho, core/bios-trace.c.          *)
(*                                                                         *)
(* t.tty is tty_stdout, t.curr_func, t.result and t.enable_tty_output the  *)
(* fields of struct psycho_bios_trace.  waiting_for_return is never set    *)
(* by the code and left out.  A char is a number below CharSize.  Ghost    *)
(* field t.torn tells that the buffer has wrapped around in this line.     *)
(***************************************************************************)
EXTENDS Log

CONSTANTS
  CharSize,        \* 256
  NEWLINE,         \* '\n'
  TTY_SIZE_MAX,    \* 256, PSYCHO_BIOS_TTY_OUTPUT_SIZE_MAX
  TRACE_PC,        \* 0x000000B0, the entry point of the B0 functions
  PUTCHAR          \* 0x3D, the one function in b0_funcs

NUL == 0
Char == 0 .. CharSize - 1

\* sizeof(data) is the number of chars: the low byte of len is 0 when len is
\* at its limit, which is what ends a line of that length.
ASSUME BiosTraceAssumption ==
  /\ CharSize \in Nat /\ CharSize > 1
  /\ NEWLINE \in Char \ {NUL}
  /\ TTY_SIZE_MAX = CharSize
  /\ TRACE_PC \in Nat /\ PUTCHAR \in Nat
  /\ PrefixLen("TTY_STDOUT", INFO) + TTY_SIZE_MAX + 1 < MSG_SIZE_MAX

NoFunc == "NULL"

EmptyTty == [data |-> [k \in 1 .. TTY_SIZE_MAX |-> NUL], len |-> 0]

\* What precedes the first NUL.
UpToNul(s) ==
  LET end == SelectInSeq(s, LAMBDA c : c = NUL)
  IN  IF end = 0 THEN s ELSE SubSeq(s, 1, end - 1)

\* tty.data read as a C string: len follows it in the struct, low byte first.
CString(tty) ==
  UpToNul(tty.data \o <<tty.len % CharSize, tty.len \div CharSize, NUL>>)

\* tty.data[tty.len++] = c
PutChar(t, c) == [t EXCEPT !.tty.data[t.tty.len + 1] = c, !.tty.len = @ + 1]

\* Mutant: a delivered line leaves its characters in the buffer.
MutDeliverLine(t) ==
  LET line == CString(t.tty)
      told == [t EXCEPT !.out = Append(@, Event("TTY", "TTY_STDOUT", INFO, line, Len(line)))]
  IN  [psycho_log_message_dispatch(told, "TTY_STDOUT", INFO, line)
         EXCEPT !.tty.len = 0, !.torn = FALSE]

\* The line goes out as a TTY event and as a log message, which is
\* dispatched without asking for the level of TTY_STDOUT.
DeliverLine(t) ==
  LET line == CString(t.tty)
      told == [t EXCEPT !.out = Append(@, Event("TTY", "TTY_STDOUT", INFO, line, Len(line)))]
  IN  [psycho_log_message_dispatch(told, "TTY_STDOUT", INFO, line)
         EXCEPT !.tty = EmptyTty, !.torn = FALSE]

\* The buffer is full: the next character goes to its start.
WrapAround(t) ==
  [LOG_HANDLE(t, "BIOS", WARN, << >>) EXCEPT !.tty.len = 0, !.torn = TRUE]

\* Mutant: the wrap-around comes one character late.
MutHandleTty(t, c) ==
  LET put == PutChar(t, c)
  IN  CASE c = NEWLINE -> DeliverLine(put)
        [] c # NEWLINE /\ put.tty.len > TTY_SIZE_MAX -> WrapAround(put)
        [] OTHER -> put

handle_tty_output(t, c) ==
  LET put == PutChar(t, c)
  IN  CASE c = NEWLINE -> DeliverLine(put)
        [] c # NEWLINE /\ put.tty.len >= TTY_SIZE_MAX -> WrapAround(put)
        [] OTHER -> put

\* The argument in the result and what follows it: a newline is escaped, a
\* NUL ends the string.
process_arg_char(c) ==
  IF c = NUL THEN << >> ELSE <<[char |-> c, escaped |-> c = NEWLINE], ")">>

\* "void std_out_putchar(char c=%c)" with the argument filled in.
process_prototype(t, c) ==
  [t EXCEPT !.result = <<"void std_out_putchar(char c=">> \o process_arg_char(c)]

\* A call of a B0 function is recognised by the PC and $t1, before the step.
Traced(pc, t1) == pc = TRACE_PC /\ t1 = PUTCHAR

psycho_bios_trace_begin(t, pc, t1, a0) ==
  LET c == a0 % CharSize
      called == [t EXCEPT !.curr_func = "std_out_putchar"]
  IN  IF Traced(pc, t1)
      THEN process_prototype(
             IF t.enable_tty_output THEN handle_tty_output(called, c) ELSE called, c)
      ELSE t

\* Mutant: the function stays current after it was reported.
MutTraceEnd(t) ==
  IF t.curr_func # NoFunc THEN LOG_HANDLE(t, "BIOS", INFO, t.result) ELSE t

psycho_bios_trace_end(t) ==
  IF t.curr_func # NoFunc
  THEN [LOG_HANDLE(t, "BIOS", INFO, t.result) EXCEPT !.curr_func = NoFunc]
  ELSE t

psycho_tty_stdout_enable(t, enable) == [t EXCEPT !.enable_tty_output = enable]

\* The zero-initialised context.
InitTrace ==
  [modules |-> [id \in ModuleId |-> OFF], out |-> << >>, tty |-> EmptyTty,
   curr_func |-> NoFunc, result |-> << >>, enable_tty_output |-> FALSE,
   torn |-> FALSE]
=============================================================================
