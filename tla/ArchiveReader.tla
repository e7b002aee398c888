---------------------------- MODULE ArchiveReader ----------------------------
(***************************************************************************)
(* wal_utils/wal_utils.c: archive_get_size and archive_get_data, by which  *)
(* a client copies a file of the archive in chunks, while the command that *)
(* archives (external) writes, replaces and removes files.                 *)
(*                                                                         *)
(* The name of the file leads to an inode; a call that has opened the file *)
(* keeps its inode whatever happens to the name.  A byte is the writing it *)
(* comes from and its place there.                                         *)
(***************************************************************************)
EXTENDS Integers, SequencesExt

CONSTANTS
  MaxBytes,    \* bound: length of a file
  MaxWritings  \* bound: times the file is written from its start

ASSUME ReaderAssumption == MaxBytes \in Nat /\ MaxWritings \in Nat

VARIABLES
  files,      \* files[i]: content of inode i
  name,       \* inode of the name, 0 if there is no file
  writings,   \* writings so far; each takes an inode or reuses one
  reader,     \* the client: where it is, the size it was told, what it has copied
  call,       \* the call of archive_get_data under way
  appended    \* history: since the client began, the file has only grown

readerVars == <<files, name, writings, reader, call, appended>>

Inodes == 1..MaxWritings
NoCall == [seek |-> 0, len |-> 0, inode |-> 0, at |-> 0]
Idle == [pc |-> "idle", size |-> 0, copied |-> <<>>]

\* What the functions look at before they look for the file: the user, the
\* form of the name, and PGARCHIVE in the environment of the server.
Requests == [superuser : BOOLEAN, path : {"plain", "absolute", "parent"}, PGARCHIVE : BOOLEAN]

check_and_build_filepath(q) == q.path = "plain" /\ q.PGARCHIVE
Allowed(q) == q.superuser /\ check_and_build_filepath(q)

ReaderInit ==
  /\ files = [i \in Inodes |-> <<>>] /\ name = 0 /\ writings = 0
  /\ reader = Idle /\ call = NoCall /\ appended = TRUE

-----------------------------------------------------------------------------
(* The archive command.                                                    *)

ArchiveCreate(length) ==
  /\ writings < MaxWritings
  /\ writings' = writings + 1
  /\ name' = writings'
  /\ files' = [files EXCEPT ![writings'] = [n \in 1..length |-> <<writings', n>>]]
  /\ appended' = FALSE
  /\ UNCHANGED <<reader, call>>

\* A copy over the old file keeps its inode, and starts by emptying it.
ArchiveOverwrite ==
  /\ name # 0 /\ writings < MaxWritings
  /\ writings' = writings + 1
  /\ files' = [files EXCEPT ![name] = <<>>]
  /\ appended' = FALSE
  /\ UNCHANGED <<name, reader, call>>

ArchiveAppend ==
  /\ name # 0 /\ Len(files[name]) < MaxBytes
  /\ files' = [files EXCEPT ![name] = Append(@, <<writings, Len(@) + 1>>)]
  /\ UNCHANGED <<name, writings, reader, call, appended>>

ArchiveRemove ==
  /\ name # 0 /\ name' = 0 /\ appended' = FALSE
  /\ UNCHANGED <<files, writings, reader, call>>

-----------------------------------------------------------------------------
(* The client and the functions.                                           *)

ReaderRaise ==
  /\ reader' = [Idle EXCEPT !.pc = "error"] /\ call' = NoCall
  /\ UNCHANGED <<files, name, writings, appended>>

archive_get_size(q) ==
  /\ reader.pc = "idle"
  /\ IF ~Allowed(q) \/ name = 0
       THEN ReaderRaise
       ELSE /\ reader' = [pc |-> "chunk", size |-> Len(files[name]), copied |-> <<>>]
            /\ appended' = TRUE
            /\ UNCHANGED <<files, name, writings, call>>

\* The next chunk of the copy, or instead of a copy the last len bytes.  A
\* negative length is refused; the code after that which reads the whole file
\* is never reached.
Seeks(len) ==
  (IF Len(reader.copied) < reader.size THEN {Len(reader.copied)} ELSE {})
    \cup (IF reader.copied = <<>> THEN {-len} \ {0} ELSE {})

archive_get_data(q, seek_offset, bytes_to_read) ==
  /\ reader.pc = "chunk" /\ seek_offset \in Seeks(bytes_to_read)
  /\ IF bytes_to_read < 0 \/ ~Allowed(q) \/ name = 0
       THEN ReaderRaise
       ELSE /\ reader' = [reader EXCEPT !.pc = "seek"]
            /\ call' = [seek |-> seek_offset, len |-> bytes_to_read, inode |-> name, at |-> 0]
            /\ UNCHANGED <<files, name, writings, appended>>

\* Mutant: offset 0 is taken from the end.
SeekPositionEnd == IF call.seek > 0 THEN call.seek ELSE Len(files[call.inode]) + call.seek

\* SEEK_SET, or SEEK_END for a negative offset.
SeekPosition == IF call.seek >= 0 THEN call.seek ELSE Len(files[call.inode]) + call.seek

fseeko ==
  /\ reader.pc = "seek"
  /\ IF SeekPosition < 0
       THEN ReaderRaise
       ELSE /\ reader' = [reader EXCEPT !.pc = "read"]
            /\ call' = [call EXCEPT !.at = SeekPosition]
            /\ UNCHANGED <<files, name, writings, appended>>

\* fread stops at the length asked for or at the end of the file; the archive
\* command may step in between two bytes.
MoreToRead == call.len > 0 /\ call.at < Len(files[call.inode])

ReadByte ==
  /\ reader.pc = "read" /\ MoreToRead
  /\ reader' = [reader EXCEPT !.copied = Append(@, files[call.inode][call.at + 1])]
  /\ call' = [call EXCEPT !.at = @ + 1, !.len = @ - 1]
  /\ UNCHANGED <<files, name, writings, appended>>

\* The call returns.  The client stops at the size it was told, after a tail,
\* and when a chunk is short.
ReadEnd ==
  /\ reader.pc = "read" /\ ~MoreToRead
  /\ reader' = [reader EXCEPT !.pc =
       IF call.seek < 0 \/ call.len > 0 \/ Len(reader.copied) >= reader.size THEN "end" ELSE "chunk"]
  /\ UNCHANGED <<files, name, writings, call, appended>>

ReaderNext ==
  \/ \E length \in 0..MaxBytes : ArchiveCreate(length)
  \/ ArchiveOverwrite \/ ArchiveAppend \/ ArchiveRemove
  \/ \E q \in Requests :
       \/ archive_get_size(q)
       \/ \E len \in -1..MaxBytes : \E seek \in Seeks(len) : archive_get_data(q, seek, len)
  \/ fseeko \/ ReadByte \/ ReadEnd

-----------------------------------------------------------------------------
(* Properties.                                                             *)

\* If the file has only grown since archive_get_size, the chunks that
\* archive_get_data returned, whatever their lengths, are the start of the file and
\* in the end amount to that size or more; and a read from the end is the stretch
\* from where it started, of the length asked for.
CopyIsFile ==
  /\ appended /\ reader.pc \in {"chunk", "seek", "read", "end"} =>
       \/ call.seek >= 0 /\ IsPrefix(reader.copied, files[name])
       \/ call.seek < 0 /\ reader.copied = SubSeq(files[name], call.at - Len(reader.copied) + 1, call.at)
  /\ appended /\ reader.pc = "end" =>
       IF call.seek < 0 THEN call.len = 0 ELSE Len(reader.copied) >= reader.size
=============================================================================
