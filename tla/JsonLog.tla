------------------------------ MODULE JsonLog ------------------------------
(***************************************************************************)
(* jsonlog/jsonlog.c: the hook that writes log entries in JSON, to the     *)
(* pipe of the logging collector in chunks, or to the console.  The        *)
(* collector (external) puts the chunks of each process together.          *)
(*                                                                         *)
(* An entry is its number in the entries of its process; its text is not   *)
(* modelled, only whether it takes one chunk or two.                       *)
(***************************************************************************)
EXTENDS Naturals, SequencesExt

CONSTANTS
  Processes,    \* the sessions
  PipeSize,     \* bound: chunks the pipe holds
  MaxOwn        \* bound: messages of the collector itself

ASSUME JsonLogAssumption ==
  PipeSize \in Nat \ {0} /\ MaxOwn \in Nat /\ "logger" \notin Processes

VARIABLES
  logging,   \* log_min_messages, whether log_destination has stderr, redirection_done
  out,       \* out[p]: levels of the messages p is about to emit
  unsent,    \* unsent[p]: chunks p has still to write
  emitted,   \* emitted[p]: entries that p was to log
  pipe,      \* the pipe
  partial,   \* partial[p]: chunks of an entry the collector waits to complete
  file,      \* entries in the log file, or readable on the console
  torn,      \* history: processes that ended in the middle of an entry
  unheard    \* history: processes of a message that the hook before jsonlog's did not get

jsonVars == <<logging, out, unsent, emitted, pipe, partial, file, torn, unheard>>

Emitters == Processes \cup {"logger"}

\* elog.h.
Level == [DEBUG |-> 14, LOG |-> 15, COMMERROR |-> 16, INFO |-> 17, NOTICE |-> 18, WARNING |-> 19,
          ERROR |-> 21, FATAL |-> 22, PANIC |-> 23]

JsonInit ==
  /\ out = [p \in Emitters |-> <<>>] /\ unsent = [p \in Emitters |-> <<>>]
  /\ emitted = [p \in Emitters |-> 0] /\ partial = [p \in Emitters |-> 0]
  /\ pipe = <<>> /\ file = <<>> /\ torn = {} /\ unheard = {}

\* The process has nothing to say before its next step.
Silent(p) == out[p] = <<>> /\ unsent[p] = <<>>

-----------------------------------------------------------------------------
\* Mutant: a plain comparison of levels.
is_log_level_output_plain(elevel, log_min_level) == Level[elevel] >= Level[log_min_level]

\* LOG sorts between ERROR and FATAL.
is_log_level_output(elevel, log_min_level) ==
  \/ elevel \in {"LOG", "COMMERROR"}
     /\ (log_min_level = "LOG" \/ Level[log_min_level] <= Level["ERROR"])
  \/ /\ elevel \notin {"LOG", "COMMERROR"} /\ log_min_level = "LOG"
     /\ Level[elevel] >= Level["FATAL"]
  \/ /\ elevel \notin {"LOG", "COMMERROR"} /\ log_min_level # "LOG"
     /\ Level[elevel] >= Level[log_min_level]

\* Mutant: none is flagged.
jsonlog_write_pipe_chunks_open(p, n, length) == [i \in 1..length |-> [pid |-> p, n |-> n, last |-> FALSE]]

\* All chunks but the last are not flagged as last.
jsonlog_write_pipe_chunks(p, n, length) == [i \in 1..length |-> [pid |-> p, n |-> n, last |-> i = length]]

\* Mutant: the collector is not told apart.
ToPipeAny(p) == logging.redirection_done

ToPipe(p) == logging.redirection_done /\ p # "logger"

\* A message of p that reached the hook: the pipe or the console gets it, if stderr is
\* a destination, and the collector writes its own to the file as well; then the hook
\* before this one is called.  A message below log_min_messages is dropped, and that
\* hook with it.  The console gets the entry in one write(2) of any length whose result
\* is not looked at: it may be cut short, or mixed with those of others.
jsonlog_write_json(p, elevel, length) ==
  LET n == emitted[p] + 1
      written == is_log_level_output(elevel, logging.log_min_messages)
      pipes == written /\ logging.stderr /\ ToPipe(p)
      console == written /\ logging.stderr /\ ~ToPipe(p)
      direct == written /\ p = "logger"
  IN /\ emitted' = [emitted EXCEPT ![p] = IF logging.stderr \/ direct THEN n ELSE @]
     /\ unsent' = IF pipes THEN [unsent EXCEPT ![p] = jsonlog_write_pipe_chunks(p, n, length)] ELSE unsent
     /\ \/ (direct \/ console) /\ file' = Append(file, <<p, n>>)
        \/ ~direct /\ file' = file
     /\ unheard' = IF written THEN unheard ELSE unheard \cup {p}

\* What errstart (external) lets through to the hook.
Severity == <<"DEBUG", "INFO", "NOTICE", "WARNING", "ERROR", "LOG", "FATAL", "PANIC">>
Rank(elevel) == CHOOSE i \in DOMAIN Severity : Severity[i] = IF elevel = "COMMERROR" THEN "LOG" ELSE elevel
ToServer(elevel) == Rank(elevel) >= Rank(logging.log_min_messages)

\* The text: what is left of its fields is how many chunks it takes.
EntryLengths == 1..2

\* A process emits its next message; hooked: jsonlog is on the chain of the hook.
Emit(p, hooked, length) ==
  /\ out[p] # <<>> /\ unsent[p] = <<>>
  /\ out' = [out EXCEPT ![p] = Tail(@)]
  /\ IF hooked /\ ToServer(Head(out[p]))
       THEN jsonlog_write_json(p, Head(out[p]), length)
       ELSE UNCHANGED <<unsent, emitted, file, unheard>>
  /\ UNCHANGED <<logging, pipe, partial, torn>>

\* write(2) of a chunk, which waits for room in the pipe.
WriteChunk(p) ==
  /\ unsent[p] # <<>> /\ Len(pipe) < PipeSize
  /\ pipe' = Append(pipe, Head(unsent[p]))
  /\ unsent' = [unsent EXCEPT ![p] = Tail(@)]
  /\ UNCHANGED <<logging, out, emitted, partial, file, torn, unheard>>

-----------------------------------------------------------------------------
(* The collector.                                                          *)

LoggerRead ==
  /\ pipe # <<>> /\ unsent["logger"] = <<>>
  /\ pipe' = Tail(pipe)
  /\ LET chunk == Head(pipe)
     IN IF chunk.last
          THEN /\ file' = Append(file, <<chunk.pid, chunk.n>>)
               /\ partial' = [partial EXCEPT ![chunk.pid] = 0]
          ELSE /\ partial' = [partial EXCEPT ![chunk.pid] = @ + 1]
               /\ UNCHANGED file
  /\ UNCHANGED <<logging, out, unsent, emitted, torn, unheard>>

LoggerMessage(elevel) ==
  /\ logging.redirection_done /\ emitted["logger"] < MaxOwn /\ Silent("logger")
  /\ out' = [out EXCEPT !["logger"] = <<elevel>>]
  /\ UNCHANGED <<logging, unsent, emitted, pipe, partial, file, torn, unheard>>

\* What is not written yet is lost with the processes.
Killed(ps) ==
  /\ torn' = torn \cup {p \in ps : unsent[p] # <<>>}
  /\ out' = [p \in Emitters |-> IF p \in ps THEN <<>> ELSE out[p]]
  /\ unsent' = [p \in Emitters |-> IF p \in ps THEN <<>> ELSE unsent[p]]
  /\ UNCHANGED <<logging, emitted, pipe, partial, file, unheard>>

-----------------------------------------------------------------------------
\* The places of the entries of p in the log, and of their last chunks in the pipe.
Own(p) == {i \in DOMAIN file : file[i][1] = p}
InPipe(p) == {i \in DOMAIN pipe : pipe[i].pid = p /\ pipe[i].last}
=============================================================================
