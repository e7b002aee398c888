---------------------------- MODULE Pgmpc_proofs ----------------------------
(***************************************************************************)
(* Proofs about Pgmpc, for every set of sessions and functions and every   *)
(* number of calls, failures and escaped errors.                           *)
(***************************************************************************)
EXTENDS Pgmpc, TLAPS

\* A session that is in no call is in no function, and conversely.
InCall == \A s \in Sessions : pc[s] = "idle" <=> fn[s] = "none"

\* A function that reads the status is not at its command without it, and every status
\* object but that one is owed to an escaped error.
Reading(s) == pc[s] = "run" /\ fn[s] \in ReadsStatus
StatusHeld ==
  \A s \in Sessions :
    /\ Reading(s) => mpd_status[s] # "null" /\ stats[s] <= escapes[s] + 1
    /\ ~Reading(s) => stats[s] <= escapes[s]

\* Only a function that reads the status waits for it; pgmpc_add waits for nothing.
StatusFirst ==
  \A s \in Sessions :
    /\ pc[s] = "status" => fn[s] \in ReadsStatus
    /\ pc[s] = "init" => fn[s] # "add"

\* The connection a session has opened in its current call: none before pgmpc_init,
\* none in pgmpc_add, which never gets there.
Opened(s) == pc[s] = "status" \/ (pc[s] = "run" /\ fn[s] # "add")

\* Every connection but the one of the current call is owed to an escaped error.
ConnsOwed ==
  \A s \in Sessions :
    /\ Opened(s) => mpd_conn[s] /\ conns[s] <= escapes[s] + 1
    /\ ~Opened(s) => conns[s] <= escapes[s]

\* What a session has read of a mode it is about to switch is still so, unless the
\* mode is in doubt.
StatusCurrent ==
  \A s \in Sessions : \A m \in Modes :
    pc[s] = "run" /\ fn[s] = m /\ ~doubt[m] => (mpd_status[s] = "on" <=> mode[m])

IInv ==
  /\ TypeOK /\ InCall /\ StatusFirst /\ StatusHeld /\ ConnsOwed
  /\ StatusCurrent /\ TogglesCount

-----------------------------------------------------------------------------
\* The functions that read the status are neither listings nor pgmpc_add.
LEMMA Kinds ==
  /\ "none" \notin Functions
  /\ Modes \subseteq ReadsStatus /\ "add" \notin ReadsStatus
  /\ \A f \in Listings : f \notin ReadsStatus /\ f # "add"
  BY ConstantsAssumption
     DEF ReadsStatus, Modes, Listings, PlayerCommands, VolumeCommand, PlaylistCommands

\* One more call that switches a mode turns an odd number of them into an even one.
LEMMA Parity == \A k \in Nat : (k + 1) % 2 = 1 <=> k % 2 # 1
  OBVIOUS

LEMMA InitIInv == Init => IInv
<1>1. 0 % 2 # 1
  OBVIOUS
<1> QED
  BY <1>1 DEF Init, IInv, TypeOK, InCall, StatusFirst, StatusHeld, Reading, ConnsOwed, Opened, StatusCurrent, TogglesCount

\* A call starts: nothing is opened or read yet.
LEMMA CallIInv ==
  ASSUME IInv, NEW s \in Sessions, NEW f \in Functions, Call(s, f) PROVE IInv'
<1> USE DEF IInv, Call, history
<1>1. TypeOK'
  BY DEF TypeOK
<1>2. InCall' /\ StatusFirst'
  BY Kinds DEF InCall, StatusFirst, TypeOK
<1>3. StatusHeld'
  BY Kinds DEF StatusHeld, Reading, InCall, TypeOK
<1>4. ConnsOwed'
  BY DEF ConnsOwed, Opened, TypeOK
<1>5. StatusCurrent'
  BY Kinds DEF StatusCurrent, TypeOK
<1>6. TogglesCount'
  BY DEF TogglesCount
<1> QED
  BY <1>1, <1>2, <1>3, <1>4, <1>5, <1>6

LEMMA ConnectIInv == ASSUME IInv, NEW s \in Sessions, pgmpc_init(s) PROVE IInv'
<1> USE DEF IInv, pgmpc_init, history
<1>1. TypeOK'
  BY DEF TypeOK
<1>2. InCall' /\ StatusFirst'
  BY DEF InCall, StatusFirst, TypeOK
<1>3. StatusHeld'
  BY DEF StatusHeld, Reading, TypeOK
<1>4. ConnsOwed'
  BY DEF ConnsOwed, Opened, StatusFirst, TypeOK
<1>5. StatusCurrent'
  BY Kinds DEF StatusCurrent, TypeOK
<1>6. TogglesCount'
  BY DEF TogglesCount
<1> QED
  BY <1>1, <1>2, <1>3, <1>4, <1>5, <1>6

LEMMA InitFailsIInv == ASSUME IInv, NEW s \in Sessions, InitFails(s) PROVE IInv'
<1> USE DEF IInv, InitFails, FreeStatus, Return, history
<1>1. TypeOK'
  BY DEF TypeOK
<1>2. InCall' /\ StatusFirst' /\ StatusHeld'
  BY DEF InCall, StatusFirst, StatusHeld, Reading, TypeOK
<1>3. ConnsOwed'
  BY DEF ConnsOwed, Opened, TypeOK
<1>4. StatusCurrent' /\ TogglesCount'
  BY DEF StatusCurrent, TogglesCount, TypeOK
<1> QED
  BY <1>1, <1>2, <1>3, <1>4

\* The mode is read here: it is current.
LEMMA GetStatusIInv == ASSUME IInv, NEW s \in Sessions, GetStatus(s) PROVE IInv'
<1> USE DEF IInv, GetStatus, history
<1>1. TypeOK'
  BY DEF TypeOK
<1>2. InCall' /\ StatusFirst'
  BY DEF InCall, StatusFirst, TypeOK
<1>3. StatusHeld'
  BY Kinds DEF StatusHeld, Reading, StatusFirst, TypeOK
<1>4. ConnsOwed'
  BY Kinds DEF ConnsOwed, Opened, TypeOK, StatusFirst
<1>5. StatusCurrent'
  BY DEF StatusCurrent, TypeOK
<1>6. TogglesCount'
  BY DEF TogglesCount
<1> QED
  BY <1>1, <1>2, <1>3, <1>4, <1>5, <1>6

\* The cleanup and the return of a function, with or without an error: the session
\* is left as pgmpc_init expects it.
LEMMA CleanupIInv ==
  ASSUME IInv, NEW s \in Sessions, mpd_conn[s], pc[s] # "idle", pgmpc_reset(s), Return(s),
         UNCHANGED escapes, calls' \in Nat, failures' \in Nat,
         mode' \in [Modes -> BOOLEAN], doubt' \in [Modes -> BOOLEAN],
         toggles' \in [Modes -> Nat]
  PROVE  TypeOK' /\ InCall' /\ StatusFirst' /\ StatusHeld' /\ ConnsOwed'
<1> USE DEF IInv, pgmpc_reset, FreeConnection, FreeStatus, Return
<1>0. stats' \in [Sessions -> Nat] /\ \A r \in Sessions : mpd_status'[r] # "null" => stats'[r] > 0
  BY DEF TypeOK
<1>1. conns' \in [Sessions -> Nat] /\ \A r \in Sessions : mpd_conn'[r] => conns'[r] > 0
  BY DEF TypeOK
<1>2. TypeOK'
  BY <1>0, <1>1 DEF TypeOK
<1>3. InCall' /\ StatusFirst'
  BY DEF InCall, StatusFirst, TypeOK
<1>4. StatusHeld'
  BY DEF StatusHeld, Reading, TypeOK
<1>5. ConnsOwed'
  BY DEF ConnsOwed, Opened, TypeOK
<1> QED
  BY <1>2, <1>3, <1>4, <1>5

\* A switch of a mode nobody else is about to switch finds it as it was read.
LEMMA SwitchIInv ==
  ASSUME IInv, NEW s \in Sessions, pc[s] = "run", NEW m \in Modes, fn[s] = m
  PROVE  /\ Switch(s) \in [Modes -> BOOLEAN]
         /\ ~doubt[m] => (Switch(s)[m] <=> ~mode[m])
         /\ \A k \in Modes \ {m} : Switch(s)[k] = mode[k]
<1>1. mpd_status[s] \in {"on", "off"}
  BY Kinds DEF IInv, StatusHeld, Reading, TypeOK
<1> QED
  BY <1>1 DEF IInv, StatusCurrent, TypeOK, Switch

LEMMA RunCommandIInv == ASSUME IInv, NEW s \in Sessions, RunCommand(s) PROVE IInv'
<1>1. CASE fn[s] \notin Modes
  <2>1. TypeOK' /\ InCall' /\ StatusFirst' /\ StatusHeld' /\ ConnsOwed'
    BY <1>1, CleanupIInv DEF RunCommand, history, IInv, TypeOK
  <2>2. StatusCurrent' /\ TogglesCount'
    BY <1>1 DEF RunCommand, history, IInv, StatusCurrent, TogglesCount, pgmpc_reset, FreeConnection, FreeStatus, Return, TypeOK
  <2> QED
    BY <2>1, <2>2 DEF IInv
<1>2. CASE fn[s] \in Modes
  <2> DEFINE m == fn[s]
  <2>1. /\ pc[s] = "run" /\ mpd_conn[s] /\ pgmpc_reset(s) /\ Return(s)
        /\ mode' = Switch(s) /\ toggles' = [toggles EXCEPT ![m] = @ + 1]
        /\ doubt' = [doubt EXCEPT ![m] = @ \/ Overlapped(s)]
        /\ UNCHANGED <<escapes, calls, failures>>
    BY <1>2 DEF RunCommand
  <2>2. /\ mode' \in [Modes -> BOOLEAN]
        /\ ~doubt[m] => (mode'[m] <=> ~mode[m])
        /\ \A k \in Modes \ {m} : mode'[k] = mode[k]
    BY <1>2, <2>1, SwitchIInv
  <2>3. doubt' \in [Modes -> BOOLEAN] /\ toggles' \in [Modes -> Nat]
    <3>1. (doubt[m] \/ Overlapped(s)) \in BOOLEAN
      BY <1>2 DEF IInv, TypeOK, Overlapped
    <3> QED
      BY <2>1, <3>1, <1>2 DEF IInv, TypeOK
  <2>4. TypeOK' /\ InCall' /\ StatusFirst' /\ StatusHeld' /\ ConnsOwed'
    BY <2>1, <2>2, <2>3, CleanupIInv DEF IInv, TypeOK
  <2>5. StatusCurrent'
    <3>1. SUFFICES ASSUME NEW r \in Sessions, NEW k \in Modes,
                          pc'[r] = "run", fn'[r] = k, ~doubt'[k]
                   PROVE  mpd_status'[r] = "on" <=> mode'[k]
      BY DEF StatusCurrent
    <3>2. r # s /\ pc[r] = "run" /\ fn[r] = k /\ mpd_status'[r] = mpd_status[r]
      BY <2>1, <3>1 DEF Return, pgmpc_reset, FreeStatus, IInv, TypeOK
    <3>3. ~doubt[k] /\ k # m
      BY <1>2, <2>1, <3>1, <3>2 DEF Overlapped, IInv, TypeOK
    <3> QED
      BY <2>2, <3>2, <3>3 DEF IInv, StatusCurrent
  <2>6. TogglesCount'
    <3>1. SUFFICES ASSUME NEW k \in Modes, ~doubt'[k]
                   PROVE  mode'[k] <=> toggles'[k] % 2 = 1
      BY DEF TogglesCount
    <3>2. ~doubt[k] /\ (mode[k] <=> toggles[k] % 2 = 1)
      BY <2>1, <3>1, <1>2 DEF IInv, TypeOK, TogglesCount
    <3>3. CASE k # m
      BY <2>1, <2>2, <3>2, <3>3 DEF IInv, TypeOK
    <3>4. CASE k = m
      <4>1. toggles'[k] = toggles[k] + 1 /\ toggles[k] \in Nat
        BY <2>1, <3>4 DEF IInv, TypeOK
      <4>2. (toggles[k] + 1) % 2 = 1 <=> toggles[k] % 2 # 1
        BY <4>1, Parity
      <4> QED
        BY <4>1, <4>2, <2>2, <3>2, <3>4
    <3> QED
      BY <3>3, <3>4
  <2> QED
    BY <2>4, <2>5, <2>6 DEF IInv
<1> QED
  BY <1>1, <1>2

LEMMA CommandFailsIInv == ASSUME IInv, NEW s \in Sessions, CommandFails(s) PROVE IInv'
<1>1. /\ pc[s] # "idle" /\ mpd_conn[s] /\ pgmpc_reset(s) /\ Return(s)
      /\ pc[s] = "run" /\ failures' = failures + 1 /\ UNCHANGED <<escapes, toggles, calls>>
  BY DEF CommandFails, pgmpc_print_error
<1>2. CASE UNCHANGED <<mode, doubt>>
  <2>1. TypeOK' /\ InCall' /\ StatusFirst' /\ StatusHeld' /\ ConnsOwed'
    BY <1>1, <1>2, CleanupIInv DEF IInv, TypeOK
  <2>2. StatusCurrent' /\ TogglesCount'
    BY <1>1, <1>2 DEF IInv, StatusCurrent, TogglesCount, pgmpc_reset, FreeConnection, FreeStatus, Return, TypeOK
  <2> QED
    BY <2>1, <2>2 DEF IInv
<1>3. CASE /\ fn[s] \in Modes
           /\ mode' = Switch(s) /\ doubt' = [doubt EXCEPT ![fn[s]] = TRUE]
  <2>1. mode' \in [Modes -> BOOLEAN] /\ \A k \in Modes \ {fn[s]} : mode'[k] = mode[k]
    BY <1>1, <1>3, SwitchIInv
  <2>2. doubt' \in [Modes -> BOOLEAN] /\ doubt'[fn[s]]
    BY <1>3 DEF IInv, TypeOK
  <2>3. TypeOK' /\ InCall' /\ StatusFirst' /\ StatusHeld' /\ ConnsOwed'
    BY <1>1, <2>1, <2>2, CleanupIInv DEF IInv, TypeOK
  <2>4. StatusCurrent'
    BY <1>1, <1>3, <2>1, <2>2 DEF IInv, StatusCurrent, pgmpc_reset, FreeConnection, FreeStatus, Return, TypeOK
  <2>5. TogglesCount'
    BY <1>1, <1>3, <2>1, <2>2 DEF IInv, TogglesCount, TypeOK
  <2> QED
    BY <2>3, <2>4, <2>5 DEF IInv
<1> QED
  BY <1>2, <1>3 DEF CommandFails

\* The status is not read: the connection goes, a status of an earlier call may stay.
LEMMA StatusFailsIInv == ASSUME IInv, NEW s \in Sessions, StatusFails(s) PROVE IInv'
<1>1. /\ pc[s] = "status" /\ mpd_conn[s] /\ FreeConnection(s) /\ Return(s) /\ failures' = failures + 1
      /\ UNCHANGED <<mode, escapes, history, calls>>
      /\ mpd_status' = [mpd_status EXCEPT ![s] = "null"] /\ (UNCHANGED stats \/ FreeStatus(s))
  BY DEF StatusFails, pgmpc_reset, FreeStatus, IInv, ConnsOwed, Opened
<1> USE DEF IInv, FreeConnection, FreeStatus, Return, history
<1>2. conns' \in [Sessions -> Nat] /\ \A r \in Sessions : mpd_conn'[r] => conns'[r] > 0
  BY <1>1 DEF TypeOK
<1>3. stats' \in [Sessions -> Nat] /\ \A r \in Sessions : mpd_status'[r] # "null" => stats'[r] > 0
  BY <1>1 DEF TypeOK
<1>4. TypeOK'
  BY <1>1, <1>2, <1>3 DEF TypeOK
<1>5. InCall' /\ StatusFirst'
  BY <1>1 DEF InCall, StatusFirst, TypeOK
<1>6. StatusHeld'
  BY <1>1 DEF StatusHeld, Reading, TypeOK
<1>7. ConnsOwed'
  BY <1>1 DEF ConnsOwed, Opened, TypeOK
<1>8. StatusCurrent' /\ TogglesCount'
  BY <1>1 DEF StatusCurrent, TogglesCount, TypeOK
<1> QED
  BY <1>4, <1>5, <1>6, <1>7, <1>8

LEMMA ErrorEscapesIInv == ASSUME IInv, NEW s \in Sessions, ErrorEscapes(s) PROVE IInv'
<1> USE DEF IInv, ErrorEscapes, Return, history
<1>1. TypeOK'
  BY DEF TypeOK
<1>2. InCall' /\ StatusFirst'
  BY DEF InCall, StatusFirst, TypeOK
<1>3. StatusHeld'
  BY Kinds DEF StatusHeld, Reading, TypeOK
<1>4. ConnsOwed'
  BY Kinds DEF ConnsOwed, Opened, TypeOK
<1>5. StatusCurrent' /\ TogglesCount'
  BY DEF StatusCurrent, TogglesCount, TypeOK
<1> QED
  BY <1>1, <1>2, <1>3, <1>4, <1>5

LEMMA AddCrashesIInv == ASSUME IInv, NEW s \in Sessions, AddCrashes(s) PROVE IInv'
<1> USE DEF IInv, AddCrashes, history
<1>1. TypeOK'
  BY DEF TypeOK
<1>2. InCall' /\ StatusFirst' /\ StatusHeld' /\ ConnsOwed'
  BY DEF InCall, StatusFirst, StatusHeld, Reading, ConnsOwed, Opened
<1>3. StatusCurrent' /\ TogglesCount'
  BY DEF StatusCurrent, TogglesCount
<1> QED
  BY <1>1, <1>2, <1>3

-----------------------------------------------------------------------------
\* The inductive invariant: one step per action.
LEMMA NextIInv == ASSUME IInv, [Next]_vars PROVE IInv'
<1>1. CASE UNCHANGED vars
  BY <1>1 DEF IInv, vars, session, history, TypeOK, InCall, StatusFirst, StatusHeld, Reading, ConnsOwed, Opened,
              StatusCurrent, TogglesCount
<1>2. ASSUME NEW s \in Sessions, NEW f \in Functions, Call(s, f) PROVE IInv'
  BY <1>2, CallIInv
<1>3. ASSUME NEW s \in Sessions,
             \/ pgmpc_init(s) \/ InitFails(s) \/ GetStatus(s) \/ StatusFails(s) \/ RunCommand(s)
             \/ CommandFails(s) \/ ErrorEscapes(s) \/ AddCrashes(s)
      PROVE  IInv'
  BY <1>3, ConnectIInv, InitFailsIInv, GetStatusIInv, StatusFailsIInv, RunCommandIInv, CommandFailsIInv,
     ErrorEscapesIInv, AddCrashesIInv
<1> QED
  BY <1>1, <1>2, <1>3 DEF Next

LEMMA InvariantIInv == Spec => []IInv
  BY InitIInv, NextIInv, PTL DEF Spec

\* The state of the sessions is well typed, and mpd_conn and mpd_status never point at
\* what mpd_connection_free or mpd_status_free has freed.
THEOREM TypeCorrect == Spec => []TypeOK
<1>1. IInv => TypeOK
  BY DEF IInv
<1> QED
  BY <1>1, InvariantIInv, PTL

\* Between its calls a session holds no more connections and no more status objects than
\* errors of PostgreSQL escaped from its functions: every other path goes by pgmpc_reset.
THEOREM ConnectionsFreed == Spec => []NoLeak
<1>1. IInv => NoLeak
  BY DEF IInv, NoLeak, StatusHeld, Reading, ConnsOwed, Opened, TypeOK
<1> QED
  BY <1>1, InvariantIInv, PTL

\* The functions that switch a mode (pgmpc_random and its like) read it, then write
\* the opposite: a mode is on exactly after an odd number of them, unless two of them
\* overlapped or a reply was lost.
THEOREM SwitchesCount == Spec => []TogglesCount
<1>1. IInv => TogglesCount
  BY DEF IInv
<1> QED
  BY <1>1, InvariantIInv, PTL
=============================================================================
