-------------------------------- MODULE Log --------------------------------
(***************************************************************************)
(* The log of psycho, core/log.c: one level per module, a filter in front  *)
(* of psycho_log_message_dispatch, and a message buffer of fixed size.     *)
(*                                                                         *)
(* The operators take the part of the context that the log, the BIOS       *)
(* tracer and the disassembler use, a record t, and return the updated     *)
(* one.  t.modules is ctx->log.modules; t.out lists the events passed to   *)
(* event_cb since the host last called into the context.  The text of a    *)
(* message is the sequence of its variable parts: the characters of a TTY  *)
(* line, one element for each conversion of a fixed format.                *)
(***************************************************************************)
EXTENDS Naturals, Sequences, SequencesExt

CONSTANT MSG_SIZE_MAX     \* 512, the size of struct psycho_log_msg.msg

ASSUME LogAssumption == MSG_SIZE_MAX \in Nat

OFF   == 0
INFO  == 1
WARN  == 2
ERROR == 3
DEBUG == 4
TRACE == 5

Level == OFF .. TRACE

ModuleId == {"CTX", "CPU", "DISASM", "BUS", "BIOS", "TTY_STDOUT"}

\* Lengths of "info", "warn", "error", "debug", "trace".
LevelNameLen(level) == IF level \in {INFO, WARN} THEN 4 ELSE 5

\* Lengths of "ctx", "cpu", "disasm", "bus", "bios", "tty-stdout".
ModuleNameLen(id) == CASE id \in {"CTX", "CPU", "BUS"} -> 3
                       [] id = "BIOS" -> 4
                       [] id = "DISASM" -> 6
                       [] OTHER -> 10

\* The length of "[%s/%s] ".
PrefixLen(id, level) == LevelNameLen(level) + ModuleNameLen(id) + 4

psycho_log_level_set_global(t, level) ==
  [t EXCEPT !.modules = [id \in ModuleId |-> level]]

psycho_log_module_level_set(t, id, level) == [t EXCEPT !.modules[id] = level]

Event(kind, id, level, text, len) ==
  [kind |-> kind, id |-> id, level |-> level, text |-> text, len |-> len]

\* len is msg_len: the text goes behind the prefix and is never cut short.
psycho_log_message_dispatch(t, id, level, text) ==
  [t EXCEPT !.out = Append(@, Event("LOG", id, level, text,
                                    PrefixLen(id, level) + Len(text)))]

\* LOG_INFO, LOG_WARN and so on, in a file whose LOG_MODULE is id.
LOG_HANDLE(t, id, level, text) ==
  IF t.modules[id] >= level
  THEN psycho_log_message_dispatch(t, id, level, text)
  ELSE t
=============================================================================
