------------------------------- MODULE Trace -------------------------------
(***************************************************************************)
(* The BIOS tracer and the log under any guest and any host: before each   *)
(* step the guest's PC, $t1 and $a0 are anything, and between two steps    *)
(* the host changes log levels and switches the TTY on and off.            *)
(***************************************************************************)
EXTENDS BiosTrace

CONSTANTS
  GuestPc, GuestT1, GuestA0,   \* the registers the guest can present
  HostLevel, HostModule        \* the levels and modules the host sets

ASSUME TraceAssumption ==
  /\ GuestPc \subseteq Nat /\ GuestT1 \subseteq Nat /\ GuestA0 \subseteq Nat
  /\ HostLevel \subseteq Level /\ HostModule \subseteq ModuleId

VARIABLES
  t,      \* the context's log and bios_trace
  call    \* ghost: the character of the call the last step traced

vars == <<t, call>>

NoCall == CharSize

Quiesced == [t EXCEPT !.out = << >>]

Init == t = InitTrace /\ call = NoCall

\* psycho_step: the tracer's hooks around the CPU's step.
Step(pc, t1, a0) ==
  /\ t' = psycho_bios_trace_end(psycho_bios_trace_begin(Quiesced, pc, t1, a0))
  /\ call' = IF Traced(pc, t1) THEN a0 % CharSize ELSE NoCall

SetGlobal(level) ==
  /\ t' = psycho_log_level_set_global(Quiesced, level)
  /\ call' = NoCall

SetModule(id, level) ==
  /\ t' = psycho_log_module_level_set(Quiesced, id, level)
  /\ call' = NoCall

EnableTty(enable) ==
  /\ t' = psycho_tty_stdout_enable(Quiesced, enable)
  /\ call' = NoCall

Next ==
  \/ \E pc \in GuestPc, t1 \in GuestT1, a0 \in GuestA0 : Step(pc, t1, a0)
  \/ \E level \in HostLevel : SetGlobal(level)
  \/ \E id \in HostModule, level \in HostLevel : SetModule(id, level)
  \/ \E enable \in BOOLEAN : EnableTty(enable)

Spec == Init /\ [][Next]_vars

(***************************************************************************)
(* Properties.                                                             *)
(***************************************************************************)
\* Type invariant: between two calls the TTY buffer has room for one more
\* character (bios-trace.c:58 writes before it checks) and no traced
\* function is left over.
TypeOK ==
  /\ t \in [modules : [ModuleId -> Level], out : {t.out},
            tty : [data : [1 .. TTY_SIZE_MAX -> Char], len : 0 .. TTY_SIZE_MAX - 1],
            curr_func : {NoFunc}, result : {t.result},
            enable_tty_output : BOOLEAN, torn : BOOLEAN]
  /\ call \in Char \cup {NoCall}

\* Every message ends inside msg.msg with its terminating zero, although
\* vsnprintf is given the size without the prefix and the assertion counts
\* the text alone (log.c:85-89): no line is longer than the TTY buffer and
\* one byte of len, whatever was torn before.
MessagesFit ==
  \A n \in DOMAIN t.out : t.out[n].kind = "LOG" => t.out[n].len < MSG_SIZE_MAX

\* Every traced call is reported once, in the step that makes it, with its
\* argument, if the BIOS module's level asks for it; no other step reports
\* one (bios-trace.c:138).
CallsReported ==
  LET reports == {n \in DOMAIN t.out :
                    /\ t.out[n].kind = "LOG"
                    /\ t.out[n].id = "BIOS"
                    /\ t.out[n].level = INFO}
  IN  IF call # NoCall /\ t.modules["BIOS"] >= INFO
      THEN /\ reports = {Len(t.out)}
           /\ t.out[Len(t.out)].text =
                <<"void std_out_putchar(char c=">> \o process_arg_char(call)
      ELSE reports = {}

\* The lines among the events, by their place.
Delivered ==
  [n \in {k \in DOMAIN t.out : t.out[k].kind = "TTY"} |-> t.out[n].text]

Tty == INSTANCE TtyLine WITH
         Size <- TTY_SIZE_MAX,
         line <- SubSeq(t.tty.data, 1, t.tty.len),
         torn <- t.torn,
         delivered <- Delivered

\* The wrapping buffer implements a line buffer: a line is delivered by its
\* newline, once and whole, and a wrap-around damages no line but its own.
TtyLineSpec == Tty!Spec

\* "Each module of psycho ... is allowed to emit messages ... each with a
\* controllable log granularity" (log.h:26): no message of a module whose
\* level is below the message's.  Violated: a TTY line is dispatched without
\* the filter (bios-trace.c:64).
LevelsRespected ==
  \A n \in DOMAIN t.out :
    t.out[n].kind = "LOG" => t.modules[t.out[n].id] >= t.out[n].level
=============================================================================
