----------------------------- MODULE WalSession -----------------------------
(***************************************************************************)
(* The functions of wal_utils as a session calls them: it copies a file    *)
(* out of a changing archive, or it parses a history file and builds a     *)
(* list of segments.  Nothing is shared between the two.                   *)
(***************************************************************************)
EXTENDS WalUtils, ArchiveReader

sessionVars == <<vars, readerVars>>

SessionInit == Init /\ ReaderInit

SessionNext ==
  \/ reader = Idle /\ writings = 0 /\ Next /\ UNCHANGED readerVars
  \/ pc = "parse" /\ entries = <<>> /\ ReaderNext /\ UNCHANGED vars

SessionSpec == SessionInit /\ [][SessionNext]_sessionVars
=============================================================================
