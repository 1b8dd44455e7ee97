----------------------- MODULE BackendSupervisorProofs -----------------------
(***************************************************************************)
(* The supervisor launches a child only in its turn, says ready only of a  *)
(* server it still owns, and leaves only when nothing it owns is left; a   *)
(* published guard keeps every runtime out of the workspace, those of an   *)
(* earlier desktop session included: for any number of children.           *)
(***************************************************************************)
EXTENDS BackendSupervisor, TLAPS

(* The lock is held by whoever got past it, and only a restore writes. *)
Leased ==
    \A c \in Child : process[c].at \in {"locked", "inside", "writing", "finished"}
                        => lease = c
OnlyRestoresWrite ==
    \A c \in Child : process[c].at \in {"writing", "finished"} => process[c].kind = "restore"

GuardSound == GuardKeepsRuntimeOut /\ Leased /\ OnlyRestoresWrite

(* A startup and a restore take turns, and none follows a failed restore. *)
InTurn ==
    /\ restore.at \in {"stopping", "stopped", "observing"} => startup.at = "idle"
    /\ required => startup.at = "idle" /\ restore.at = "idle"
    /\ restore.at = "stopping" => stopping

(* A stop makes whatever runs stale; after a shutdown began nothing is current. *)
CancelledByStop ==
    /\ startup.at = "idle" => ~startup.current
    /\ stopping => ~startup.current /\ (restore.current => restore.at = "stopping")
    /\ closing => ~startup.current /\ ~restore.current

(* Where the next child would be launched, the last one is all that is owned. *)
OwnedByOne ==
    /\ restore.at = "stopped" => owned = {}
    /\ restore.at = "observing" => owned \subseteq {restore.child}
    /\ startup.at = "migrating" => owned \subseteq {startup.child}

RestoreObserved ==
    restore.at = "observing" =>
        /\ restore.child \in Child /\ process[restore.child].kind = "restore"
        /\ restore.child \in owned \/ ~Alive(restore.child)
        /\ RestoreSucceeded => ~uncertain

UncertainIsKnown == uncertain => required \/ restore.at = "observing"

LeavingWaits ==
    /\ leaving # {} => stopping
    /\ "update" \in leaving => restore.at = "idle"

SessionSound ==
    /\ InTurn /\ CancelledByStop /\ OwnedByOne /\ RestoreObserved
    /\ UncertainIsKnown /\ LeavingWaits

(* The end of the server that "ready" speaks of would be unexpected. *)
LatestServer(c) ==
    c \in Child /\ process[c].kind = "serve" /\ process[c].latest /\ ~process[c].asked

ServerIsLatest ==
    /\ startup.at = "readying" /\ startup.current /\ startup.child \in owned
         => LatestServer(startup.child)
    /\ status = "ready" /\ ~stopping => LatestServer(serving)

Unscheduled == restore.at # "idle" \/ startup.at # "idle" \/ required => ~scheduling

ReadySound == ReadyIsServed /\ ServerIsLatest /\ Unscheduled

Sound == TypeOK /\ GuardSound /\ SessionSound /\ ReadySound

-----------------------------------------------------------------------------
(* What the pieces of the operations do to the children. *)

(* How far a child has got, and how it ended, is left alone. *)
Kept(c) ==
    /\ process'[c].kind = process[c].kind /\ process'[c].at = process[c].at
    /\ process'[c].ok = process[c].ok

LEMMA StaleAre ==
    ASSUME TypeOK
    PROVE  /\ StaleChildren \in [Child -> Process]
           /\ \A c \in Child : /\ StaleChildren[c].kind = process[c].kind
                               /\ StaleChildren[c].at = process[c].at
                               /\ StaleChildren[c].ok = process[c].ok
                               /\ StaleChildren[c].asked = process[c].asked
                               /\ ~StaleChildren[c].latest
BY DEF TypeOK, StaleChildren, Process

LEMMA LaunchedIs ==
    ASSUME NEW c \in Child, NEW kind \in Kind, NEW processes \in [Child -> Process],
           Launch(c, kind, processes)
    PROVE  /\ process' \in [Child -> Process]
           /\ \A d \in Child \ {c} : process'[d] = processes[d]
           /\ process'[c].kind = kind /\ process'[c].at = "launched" /\ process'[c].latest
           /\ ~process'[c].asked /\ ~process'[c].ok
           /\ owned' = owned \cup {c} /\ ~Alive(c)
           /\ c # startup.child /\ c # restore.child
BY DEF Launch, Free, Process, Live

LEMMA AskedAre ==
    ASSUME NEW children, NEW processes \in [Child -> Process], AskToEnd(children, processes)
    PROVE  /\ process' \in [Child -> Process]
           /\ \A c \in Child : /\ process'[c].kind = processes[c].kind
                               /\ process'[c].at = processes[c].at
                               /\ process'[c].ok = processes[c].ok
                               /\ process'[c].latest = processes[c].latest
                               /\ c \notin children => process'[c].asked = processes[c].asked
           /\ ending' = ending \cup children
<1>1. /\ process' = [c \in Child |-> [processes[c] EXCEPT !.asked = @ \/ c \in children]]
      /\ ending' = ending \cup children
  BY DEF AskToEnd
<1>2. ASSUME NEW c \in Child
      PROVE  /\ process'[c] \in Process
             /\ process'[c].kind = processes[c].kind
             /\ process'[c].at = processes[c].at
             /\ process'[c].ok = processes[c].ok
             /\ process'[c].latest = processes[c].latest
             /\ c \notin children => process'[c].asked = processes[c].asked
  <2>1. PICK v \in BOOLEAN : v = (processes[c].asked \/ c \in children)
    OBVIOUS
  <2>2. process'[c] = [processes[c] EXCEPT !.asked = v]
    BY <1>1, <2>1
  <2>3. c \notin children => v = processes[c].asked
    BY <2>1 DEF Process
  <2>4. process'[c] \in Process /\ process'[c].asked = v
    BY <2>2 DEF Process
  <2>5. /\ process'[c].kind = processes[c].kind
        /\ process'[c].at = processes[c].at
        /\ process'[c].ok = processes[c].ok
        /\ process'[c].latest = processes[c].latest
    BY <2>2 DEF Process
  <2> QED BY <2>3, <2>4, <2>5
<1>3. process' \in [Child -> Process]
  BY <1>1, <1>2
<1> QED BY <1>1, <1>2, <1>3

(* The guard's part of a step in which no child gets further. *)
LEMMA GuardStands ==
    ASSUME GuardSound, lease' = lease, guard' => guard,
           \A c \in Child : \/ process'[c].kind = process[c].kind /\ process'[c].at = process[c].at
                            \/ process'[c].at \in {"launched", "gone"}
    PROVE  GuardSound'
BY DEF GuardSound, GuardKeepsRuntimeOut, Leased, OnlyRestoresWrite

StartupTypes == Routine({"migrating", "readying", "ending"})
RestoreTypes == Routine({"stopping", "stopped", "observing", "restarting"})

LEMMA IdleTyped == Idle \in StartupTypes /\ Idle \in RestoreTypes
BY DEF Idle, StartupTypes, RestoreTypes, Routine

(* The types, of a step whose parts have theirs. *)
LEMMA TypeStands ==
    ASSUME TypeOK, process' \in [Child -> Process], lease' \in Child \cup {Nobody},
           guard' \in BOOLEAN, app' \in {"off", "on"},
           \A c \in owned' : c \in Child /\ process'[c].at \in Live,
           serving' \in owned' \cup {Nobody}, ending' \subseteq owned',
           startup' \in StartupTypes, restore' \in RestoreTypes,
           stopping' \in BOOLEAN, leaving' \subseteq {"quit", "update"},
           closing' \in BOOLEAN, required' \in BOOLEAN, scheduling' \in BOOLEAN,
           status' \in {"stopped", "starting", "ready", "degraded"},
           uncertain' \in BOOLEAN, exit' \in {"none", "crash", "quit", "update"}
    PROVE  TypeOK'
<1>1. (owned \subseteq {c \in Child : Alive(c)})'
  BY DEF Alive
<1> QED BY <1>1, Zenon DEF TypeOK, StartupTypes, RestoreTypes

(* What a step finds of the children it owns. *)
LEMMA OwnedAlive ==
    ASSUME TypeOK
    PROVE  /\ \A c \in owned : c \in Child /\ process[c].at \in Live
           /\ startup \in StartupTypes /\ restore \in RestoreTypes
BY DEF TypeOK, Alive, StartupTypes, RestoreTypes

LEMMA InitSound == Init => Sound
<1> SUFFICES ASSUME Init PROVE Sound
  OBVIOUS
<1>1. process \in [Child -> Process] /\ \A c \in Child : process[c].at = "gone"
  BY DEF Init, Gone, Process, Kind
<1>2. TypeOK
  BY <1>1 DEF Init, TypeOK, Idle, Routine
<1>3. GuardSound
  BY <1>1 DEF Init, GuardSound, GuardKeepsRuntimeOut, Leased, OnlyRestoresWrite
<1>4. SessionSound
  BY DEF Init, SessionSound, InTurn, CancelledByStop, OwnedByOne, RestoreObserved,
     UncertainIsKnown, LeavingWaits, Idle
<1>5. ReadySound
  BY DEF Init, ReadySound, ReadyIsServed, ServerIsLatest, Unscheduled, Idle
<1> QED BY <1>2, <1>3, <1>4, <1>5 DEF Sound

-----------------------------------------------------------------------------
(* Steps that leave every child as it is. *)

LEMMA QuietStep ==
    ASSUME Sound,
           \/ RefuseAdmission \/ StartupCancelled \/ StartupFails \/ BecomesReady
           \/ RestoreCancelled \/ RestoreUncertain \/ Open \/ RecoverySession
    PROVE  Sound'
<1> USE DEF Sound, workspace, ownership, ghosts
<1>1. /\ UNCHANGED <<process, lease, owned, serving, ending, stopping, leaving, closing,
                     uncertain, exit>>
      /\ guard' => guard
      /\ startup' \in {startup, Idle} /\ restore' \in {restore, Idle}
  BY DEF RefuseAdmission, StartupCancelled, StartupFails, BecomesReady, RestoreCancelled,
     RestoreUncertain, Open, RecoverySession, StartupSettles
<1>2. TypeOK'
  <2>1. /\ app' \in {"off", "on"} /\ required' \in BOOLEAN /\ scheduling' \in BOOLEAN
        /\ status' \in {"stopped", "starting", "ready", "degraded"} /\ guard' \in BOOLEAN
    BY DEF TypeOK, RefuseAdmission, StartupCancelled, StartupFails, BecomesReady,
       RestoreCancelled, RestoreUncertain, Open, RecoverySession
  <2> QED BY <1>1, <2>1, IdleTyped, OwnedAlive, TypeStands DEF TypeOK
<1>3. GuardSound'
  BY <1>1, GuardStands
<1>4. SessionSound'
  <2>1. required' # required => RestoreUncertain
    BY DEF RefuseAdmission, StartupCancelled, StartupFails, BecomesReady, RestoreCancelled,
       Open, RecoverySession
  <2>2. RestoreUncertain => restore.at = "observing" /\ restore' = Idle /\ startup' = startup
                            /\ required'
    BY DEF RestoreUncertain
  <2>3. restore' # restore => restore.at = "stopped" \/ startup.at # "idle" \/ RestoreUncertain
    BY DEF RefuseAdmission, StartupCancelled, StartupFails, BecomesReady, RestoreCancelled,
       Open, RecoverySession
  <2>4. InTurn'
    BY <1>1, <2>1, <2>2, <2>3 DEF SessionSound, InTurn, Idle
  <2>5. CancelledByStop' /\ OwnedByOne' /\ LeavingWaits'
    BY <1>1 DEF SessionSound, CancelledByStop, OwnedByOne, LeavingWaits, Idle
  <2>6. RestoreObserved'
    BY <1>1 DEF SessionSound, RestoreObserved, RestoreSucceeded, Idle, Alive
  <2>7. UncertainIsKnown'
    BY <1>1, <2>1, <2>2, <2>3 DEF SessionSound, UncertainIsKnown, InTurn
  <2> QED BY <2>4, <2>5, <2>6, <2>7 DEF SessionSound
<1>5. ReadySound'
  <2>1. CASE BecomesReady
    <3>1. /\ startup.current /\ startup.at = "readying"
          /\ startup.child \in owned /\ serving = startup.child
          /\ startup' = Idle /\ restore' = Idle /\ required' = required
      BY <2>1 DEF BecomesReady, Answers, StartupSettles
    <3>2. serving # Nobody /\ ~stopping /\ ~required
      BY <3>1, SupervisorAssumption DEF SessionSound, CancelledByStop, InTurn, TypeOK
    <3>3. LatestServer(serving)
      BY <3>1 DEF ReadySound, ServerIsLatest
    <3> QED BY <1>1, <2>1, <3>1, <3>2, <3>3 DEF BecomesReady, ReadySound, ReadyIsServed,
       ServerIsLatest, Unscheduled, LatestServer, Idle
  <2>2. CASE ~BecomesReady
    <3>1. (scheduling' => scheduling) /\ (status' = "ready" => status = "ready")
      BY <2>2 DEF RefuseAdmission, StartupCancelled, StartupFails, RestoreCancelled,
         RestoreUncertain, Open, RecoverySession, TypeOK
    <3>2. status' = status \/ ~scheduling'
      BY <2>2 DEF RefuseAdmission, StartupCancelled, StartupFails, RestoreCancelled,
         RestoreUncertain, Open, RecoverySession, TypeOK, ReadySound, Unscheduled
    <3>3. required' # required => restore.at = "observing"
      BY <2>2 DEF RefuseAdmission, StartupCancelled, StartupFails, RestoreCancelled,
         RestoreUncertain, Open, RecoverySession
    <3>4. ServerIsLatest'
      BY <1>1, <3>1 DEF ReadySound, ServerIsLatest, LatestServer, Idle
    <3>5. ReadyIsServed'
      BY <1>1, <3>1, <3>2 DEF ReadySound, ReadyIsServed, Idle
    <3>6. Unscheduled'
      BY <1>1, <3>1, <3>3 DEF ReadySound, Unscheduled, Idle, TypeOK
    <3> QED BY <3>4, <3>5, <3>6 DEF ReadySound
  <2> QED BY <2>1, <2>2
<1> QED BY <1>2, <1>3, <1>4, <1>5

LEMMA AwaySound == ASSUME Sound, NEW how \in {"crash", "quit", "update"},
                          GoAway(how), UNCHANGED workspace
                   PROVE  Sound'
<1> USE DEF Sound, workspace
<1>1. UNCHANGED <<process, lease, guard>> /\ FreshSession
  BY DEF GoAway
<1>2. TypeOK'
  BY <1>1, IdleTyped, TypeStands DEF GoAway, FreshSession, TypeOK
<1>3. GuardSound'
  BY <1>1, GuardStands
<1>4. SessionSound'
  BY <1>1 DEF FreshSession, SessionSound, InTurn, CancelledByStop, OwnedByOne, RestoreObserved,
     UncertainIsKnown, LeavingWaits, Idle
<1>5. ReadySound'
  BY <1>1 DEF FreshSession, ReadySound, ReadyIsServed, ServerIsLatest, Unscheduled, Idle
<1> QED BY <1>2, <1>3, <1>4, <1>5

LEMMA ReturnsSound == ASSUME Sound, StopReturns PROVE Sound'
<1> USE DEF Sound, workspace, ownership, ghosts
<1>1. CASE \E how \in leaving : GoAway(how)
  BY <1>1, AwaySound DEF StopReturns, TypeOK
<1>2. CASE ~ \E how \in leaving : GoAway(how)
  <2>1. /\ UNCHANGED <<process, lease, guard, app, owned, serving, ending, startup, closing,
                       required, scheduling, uncertain, exit>>
        /\ stopping /\ owned = {} /\ stopping' = FALSE /\ leaving' = {}
        /\ status' \in {"degraded", "stopped"}
        /\ restore' = IF restore.at = "stopping" THEN [restore EXCEPT !.at = "stopped"]
                      ELSE restore
    BY <1>2 DEF StopReturns, ProvedStopped
  <2>2. /\ restore'.current = restore.current /\ restore'.child = restore.child
        /\ restore'.at = IF restore.at = "stopping" THEN "stopped" ELSE restore.at
        /\ restore' \in Routine({"stopping", "stopped", "observing", "restarting"})
    BY <2>1 DEF TypeOK, Routine
  <2>3. TypeOK'
    BY <2>1, <2>2 DEF TypeOK, Alive
  <2>4. GuardSound'
    BY <2>1, GuardStands
  <2>5. SessionSound'
    BY <2>1, <2>2 DEF SessionSound, InTurn, CancelledByStop, OwnedByOne, RestoreObserved,
       UncertainIsKnown, LeavingWaits, RestoreSucceeded, Alive
  <2>6. ReadySound'
    BY <2>1, <2>2 DEF ReadySound, ReadyIsServed, ServerIsLatest, Unscheduled, TypeOK
  <2> QED BY <2>3, <2>4, <2>5, <2>6
<1> QED BY <1>1, <1>2

LEMMA UnconfirmedSound == ASSUME Sound, NEW c \in Child, EndUnconfirmed(c) PROVE Sound'
<1> USE DEF Sound, workspace, ownership, ghosts
<1>1. /\ UNCHANGED <<process, lease, guard, app, owned, serving, closing, required, uncertain,
                     exit>>
      /\ stopping' = FALSE /\ leaving' = {} /\ ending' = ending \ {c}
      /\ status' = "degraded" /\ scheduling' = FALSE
      /\ startup' \in {startup, Idle} /\ restore' \in {restore, Idle}
      /\ restore.at = "stopping" => restore' = Idle
  BY DEF EndUnconfirmed
<1>2. restore' = Idle => restore.at # "observing" \/ restore = Idle
  BY DEF EndUnconfirmed
<1>3. TypeOK'
  <2>1. ending' \subseteq owned'
    BY <1>1 DEF TypeOK
  <2>2. startup' \in StartupTypes /\ restore' \in RestoreTypes
    BY <1>1, IdleTyped, OwnedAlive
  <2>3. \A d \in owned' : d \in Child /\ process'[d].at \in Live
    BY <1>1, OwnedAlive
  <2> QED BY <1>1, <2>1, <2>2, <2>3, TypeStands DEF TypeOK
<1>4. GuardSound'
  BY <1>1, GuardStands
<1>5. SessionSound'
  <2>1. InTurn' /\ CancelledByStop'
    BY <1>1 DEF SessionSound, InTurn, CancelledByStop, Idle
  <2>2. OwnedByOne' /\ RestoreObserved'
    BY <1>1 DEF SessionSound, OwnedByOne, RestoreObserved, RestoreSucceeded, Alive, Idle
  <2>3. UncertainIsKnown' /\ LeavingWaits'
    BY <1>1, <1>2 DEF SessionSound, UncertainIsKnown, LeavingWaits, Idle
  <2> QED BY <2>1, <2>2, <2>3 DEF SessionSound
<1>6. ReadySound'
  BY <1>1 DEF ReadySound, ReadyIsServed, ServerIsLatest, Unscheduled, LatestServer, Idle
<1> QED BY <1>3, <1>4, <1>5, <1>6

-----------------------------------------------------------------------------
(* Steps that end children, or make them stale. *)

(* The children's ends are asked for, or not; who is owned stays the same. *)
LEMMA StaleStep ==
    ASSUME TypeOK, SessionSound,
           process' \in [Child -> Process], \A c \in Child : Kept(c),
           owned' = owned, restore'.at = restore.at, restore'.child = restore.child,
           startup'.at = startup.at \/ startup'.at = "ending", startup'.child = startup.child,
           uncertain' = uncertain, required' = required
    PROVE  /\ \A c \in owned' : c \in Child /\ process'[c].at \in Live
           /\ OwnedByOne' /\ RestoreObserved' /\ UncertainIsKnown'
<1>1. \A c \in owned' : c \in Child /\ process'[c].at \in Live
  BY OwnedAlive DEF Kept
<1>2. OwnedByOne' /\ UncertainIsKnown'
  BY DEF SessionSound, OwnedByOne, UncertainIsKnown
<1>3. RestoreObserved'
  BY DEF SessionSound, RestoreObserved, RestoreSucceeded, Alive, Kept
<1> QED BY <1>1, <1>2, <1>3

LEMMA StaleTyped ==
    ASSUME TypeOK
    PROVE  /\ Stale(startup) \in StartupTypes /\ Stale(restore) \in RestoreTypes
           /\ Stale(startup).at = startup.at /\ Stale(startup).child = startup.child
           /\ Stale(restore).at = restore.at /\ Stale(restore).child = restore.child
           /\ ~Stale(startup).current /\ ~Stale(restore).current
BY DEF TypeOK, Stale, Routine, StartupTypes, RestoreTypes

LEMMA StopSound ==
    ASSUME Sound, NEW who \in {{}, {"quit"}, {"update"}}, Stop(who)
    PROVE  Sound'
<1> USE DEF Sound
<1>1. /\ UNCHANGED <<lease, guard, app, owned, serving, required, uncertain, exit>>
      /\ startup' = Stale(startup) /\ restore' = Stale(restore)
      /\ scheduling' = FALSE
      /\ who = {"update"} => restore.at = "idle"
  BY DEF Stop, ghosts
<1>2. closing' \in BOOLEAN
  BY DEF Stop, TypeOK
<1>3. \/ process' = StaleChildren /\ ending' = ending
      \/ AskToEnd(owned, StaleChildren)
  BY DEF Stop
<1>4. process' \in [Child -> Process] /\ \A c \in Child : Kept(c)
  BY <1>3, StaleAre, AskedAre DEF Kept
<1>5. ending' \subseteq owned'
  BY <1>1, <1>3, StaleAre, AskedAre DEF TypeOK
<1>6. \/ stopping /\ stopping' = stopping /\ leaving' = leaving \cup who /\ status' = status
      \/ ~stopping /\ stopping' = stopping /\ leaving' = leaving /\ status' = "degraded"
      \/ ~stopping /\ stopping' = TRUE /\ leaving' = who /\ status' = status
  BY DEF Stop
<1>7. /\ \A c \in owned' : c \in Child /\ process'[c].at \in Live
      /\ OwnedByOne' /\ RestoreObserved' /\ UncertainIsKnown'
  BY <1>1, <1>4, StaleStep, StaleTyped
<1>8. TypeOK'
  <2>1. /\ leaving' \subseteq {"quit", "update"} /\ stopping' \in BOOLEAN
        /\ status' \in {"stopped", "starting", "ready", "degraded"}
    BY <1>6 DEF TypeOK
  <2> QED BY <1>1, <1>2, <1>4, <1>5, <1>7, <2>1, StaleTyped, TypeStands DEF TypeOK
<1>9. GuardSound'
  BY <1>1, <1>4, GuardStands DEF Kept
<1>10. SessionSound'
  <2>1. InTurn' /\ CancelledByStop'
    BY <1>1, <1>6, StaleTyped DEF SessionSound, InTurn, CancelledByStop
  <2>2. LeavingWaits'
    BY <1>1, <1>6, StaleTyped DEF SessionSound, LeavingWaits
  <2> QED BY <1>7, <2>1, <2>2 DEF SessionSound
<1>11. ReadySound'
  <2>1. status' = "ready" => stopping'
    <3>1. CASE stopping
      BY <1>6, <3>1
    <3>2. CASE ~stopping
      BY <1>6, <3>2
    <3> QED BY <3>1, <3>2
  <2> QED BY <1>1, <2>1, StaleTyped DEF ReadySound, ReadyIsServed, ServerIsLatest, Unscheduled
<1> QED BY <1>8, <1>9, <1>10, <1>11

LEMMA TimesOutSound == ASSUME Sound, StartupTimesOut PROVE Sound'
<1> USE DEF Sound
<1>1. /\ UNCHANGED <<lease, guard, app, owned, serving, restore, stopping, leaving, closing,
                     required, scheduling, status, uncertain, exit>>
      /\ startup.at \in {"migrating", "readying"} /\ startup.current /\ startup.child \in owned
      /\ AskToEnd({startup.child}, process)
      /\ startup' = [startup EXCEPT !.at = "ending"]
  BY DEF StartupTimesOut, ghosts
<1>2. /\ startup' \in StartupTypes /\ startup'.at = "ending" /\ startup'.child = startup.child
      /\ startup'.current
  BY <1>1 DEF TypeOK, Routine, StartupTypes
<1>3. process \in [Child -> Process]
  BY DEF TypeOK
<1>4. /\ process' \in [Child -> Process] /\ \A c \in Child : Kept(c)
      /\ ending' = ending \cup {startup.child}
  BY <1>1, <1>3, AskedAre DEF Kept
<1>5. /\ \A c \in owned' : c \in Child /\ process'[c].at \in Live
      /\ OwnedByOne' /\ RestoreObserved' /\ UncertainIsKnown'
  BY <1>1, <1>2, <1>4, StaleStep
<1>6. TypeOK'
  <2>1. ending' \subseteq owned'
    BY <1>1, <1>4 DEF TypeOK
  <2> QED BY <1>1, <1>2, <1>4, <1>5, <2>1, OwnedAlive, TypeStands DEF TypeOK
<1>7. GuardSound'
  BY <1>1, <1>4, GuardStands DEF Kept
<1>8. SessionSound'
  <2>1. InTurn' /\ CancelledByStop' /\ LeavingWaits'
    BY <1>1, <1>2 DEF SessionSound, InTurn, CancelledByStop, LeavingWaits
  <2> QED BY <1>5, <2>1 DEF SessionSound
<1>9. ReadySound'
  <2>1. ~stopping /\ status # "ready" /\ ~scheduling
    BY <1>1 DEF SessionSound, CancelledByStop, ReadySound, ReadyIsServed
  <2> QED BY <1>1, <1>2, <2>1 DEF ReadySound, ReadyIsServed, ServerIsLatest, Unscheduled
<1> QED BY <1>6, <1>7, <1>8, <1>9

LEMMA BeginRestoreSound == ASSUME Sound, BeginRestore PROVE Sound'
<1> USE DEF Sound
<1>1. /\ UNCHANGED <<lease, guard, app, owned, serving, startup, leaving, closing, required,
                     uncertain, exit>>
      /\ ~closing /\ restore.at = "idle" /\ ~required /\ startup.at = "idle" /\ ~stopping
      /\ AskToEnd(owned, StaleChildren)
      /\ stopping' = TRUE /\ status' = "starting" /\ scheduling' = FALSE
      /\ restore' = [at |-> "stopping", child |-> Nobody, current |-> TRUE]
  BY DEF BeginRestore, ghosts
<1>2. restore' \in RestoreTypes /\ restore'.at = "stopping" /\ restore'.current
  BY <1>1 DEF RestoreTypes, Routine
<1>3. /\ process' \in [Child -> Process] /\ \A c \in Child : Kept(c)
      /\ ending' = ending \cup owned
  BY <1>1, StaleAre, AskedAre DEF Kept
<1>4. \A c \in owned' : c \in Child /\ process'[c].at \in Live
  BY <1>1, <1>3, OwnedAlive DEF Kept
<1>5. TypeOK'
  <2>1. ending' \subseteq owned'
    BY <1>1, <1>3 DEF TypeOK
  <2> QED BY <1>1, <1>2, <1>3, <1>4, <2>1, OwnedAlive, TypeStands DEF TypeOK
<1>6. GuardSound'
  BY <1>1, <1>3, GuardStands DEF Kept
<1>7. SessionSound'
  <2>1. leaving = {} /\ ~uncertain
    BY <1>1 DEF SessionSound, LeavingWaits, UncertainIsKnown
  <2>2. InTurn' /\ LeavingWaits' /\ UncertainIsKnown' /\ OwnedByOne' /\ RestoreObserved'
    BY <1>1, <1>2, <2>1 DEF SessionSound, InTurn, LeavingWaits, UncertainIsKnown, OwnedByOne,
       RestoreObserved
  <2>3. CancelledByStop'
    BY <1>1, <1>2 DEF SessionSound, CancelledByStop, TypeOK, Routine
  <2> QED BY <2>2, <2>3 DEF SessionSound
<1>8. ReadySound'
  BY <1>1 DEF ReadySound, ReadyIsServed, ServerIsLatest, Unscheduled
<1> QED BY <1>5, <1>6, <1>7, <1>8

-----------------------------------------------------------------------------
(* Steps that launch a child. *)

(* Everything a launch needs, and gives: the child is the only one owned. *)
LEMMA LaunchStep ==
    ASSUME TypeOK, GuardSound, NEW c \in Child, NEW kind \in Kind,
           NEW processes \in [Child -> Process], Launch(c, kind, processes),
           \A d \in Child : /\ processes[d].kind = process[d].kind
                            /\ processes[d].at = process[d].at,
           owned = {}, lease' = lease, guard' = guard
    PROVE  /\ process' \in [Child -> Process] /\ owned' = {c}
           /\ \A d \in owned' : d \in Child /\ process'[d].at \in Live
           /\ process'[c].kind = kind /\ process'[c].latest /\ ~process'[c].asked
           /\ ~process'[c].ok
           /\ c # startup.child /\ c # restore.child
           /\ GuardSound'
<1>1. /\ process' \in [Child -> Process]
      /\ \A d \in Child \ {c} : process'[d] = processes[d]
      /\ process'[c].kind = kind /\ process'[c].at = "launched" /\ process'[c].latest
      /\ ~process'[c].asked /\ ~process'[c].ok
      /\ owned' = {c}
      /\ c # startup.child /\ c # restore.child
  BY LaunchedIs
<1>2. \A d \in Child : \/ process'[d].kind = process[d].kind /\ process'[d].at = process[d].at
                       \/ process'[d].at \in {"launched", "gone"}
  BY <1>1
<1>3. GuardSound'
  BY <1>2, GuardStands
<1>4. \A d \in owned' : d \in Child /\ process'[d].at \in Live
  BY <1>1 DEF Live
<1> QED BY <1>1, <1>3, <1>4

(* A startup begins with nothing owned, nothing under way and nothing uncertain. *)
LEMMA StartupBegins ==
    ASSUME Sound, NEW processes \in [Child -> Process], NEW caller \in RestoreTypes,
           \A c \in Child : /\ processes[c].kind = process[c].kind
                            /\ processes[c].at = process[c].at,
           BeginStartup(processes, caller),
           startup.at = "idle", owned = {}, ~stopping, ~closing, ~required, ~uncertain,
           caller.at \in {"idle", "restarting"},
           scheduling' = FALSE,
           UNCHANGED <<lease, guard, app, serving, ending, stopping, leaving, closing,
                       required, uncertain, exit>>
    PROVE  Sound'
<1> USE DEF Sound
<1>1. serving = Nobody /\ ending = {} /\ leaving = {}
  BY DEF TypeOK, SessionSound, LeavingWaits
<1>2. CASE \E c \in Child : Launch(c, "migration", processes)
                            /\ startup' = [at |-> "migrating", child |-> c, current |-> TRUE]
                            /\ restore' = caller /\ status' = "starting"
  <2>1. PICK c \in Child : /\ Launch(c, "migration", processes)
                           /\ startup' = [at |-> "migrating", child |-> c, current |-> TRUE]
                           /\ restore' = caller /\ status' = "starting"
    BY <1>2
  <2>2. "migration" \in Kind
    BY DEF Kind
  <2>3. /\ process' \in [Child -> Process] /\ owned' = {c}
        /\ \A d \in owned' : d \in Child /\ process'[d].at \in Live
        /\ GuardSound'
    BY <2>1, <2>2, LaunchStep
  <2>4. startup' \in StartupTypes /\ startup'.at = "migrating" /\ startup'.child = c
    BY <2>1 DEF StartupTypes, Routine
  <2>5. TypeOK'
    BY <1>1, <2>1, <2>3, <2>4, TypeStands DEF TypeOK
  <2>6. SessionSound'
    <3>1. InTurn' /\ CancelledByStop'
      BY <2>1, <2>4 DEF SessionSound, InTurn, CancelledByStop
    <3>2. OwnedByOne' /\ RestoreObserved' /\ UncertainIsKnown' /\ LeavingWaits'
      BY <1>1, <2>1, <2>3, <2>4 DEF SessionSound, OwnedByOne, RestoreObserved,
         UncertainIsKnown, LeavingWaits
    <3> QED BY <3>1, <3>2 DEF SessionSound
  <2>7. ReadySound'
    BY <2>1, <2>4 DEF ReadySound, ReadyIsServed, ServerIsLatest, Unscheduled
  <2> QED BY <2>3, <2>5, <2>6, <2>7
<1>3. CASE /\ startup' = Idle /\ restore' = Idle /\ status' = "degraded"
           /\ process' = processes /\ owned' = owned
  <2>1. TypeOK'
    BY <1>1, <1>3, IdleTyped, TypeStands DEF TypeOK
  <2>2. GuardSound'
    BY <1>3, GuardStands
  <2>3. SessionSound'
    BY <1>1, <1>3 DEF SessionSound, InTurn, CancelledByStop, OwnedByOne, RestoreObserved,
       UncertainIsKnown, LeavingWaits, Idle
  <2>4. ReadySound'
    BY <1>3 DEF ReadySound, ReadyIsServed, ServerIsLatest, Unscheduled, Idle
  <2> QED BY <2>1, <2>2, <2>3, <2>4
<1> QED BY <1>2, <1>3 DEF BeginStartup

LEMMA StartSound ==
    ASSUME Sound, Start
    PROVE  Sound' /\ (owned' \subseteq owned \/ (owned = {} /\ ~stopping /\ ~closing /\ ~uncertain))
<1> USE DEF Sound
<1>1. /\ restore.at = "idle" /\ startup.at = "idle" /\ owned = {}
      /\ ~closing /\ ~required /\ ~stopping /\ scheduling' = FALSE
      /\ BeginStartup(StaleChildren, restore)
      /\ UNCHANGED <<lease, guard, app, serving, ending, stopping, leaving, closing,
                     required, uncertain, exit>>
  BY DEF Start, CanStart, ghosts
<1>2. ~uncertain
  BY <1>1 DEF SessionSound, UncertainIsKnown
<1> QED BY <1>1, <1>2, StaleAre, OwnedAlive, StartupBegins

LEMMA RestoreReturnsSound ==
    ASSUME Sound, RestoreReturns
    PROVE  Sound' /\ (owned' \subseteq owned \/ (owned = {} /\ ~stopping /\ ~closing /\ ~uncertain))
<1> USE DEF Sound
<1>1. /\ UNCHANGED <<lease, guard, app, serving, ending, stopping, leaving, closing,
                     required, uncertain, exit>>
      /\ restore.at = "observing" /\ RestoreSucceeded
  BY DEF RestoreReturns, ghosts
<1>2. owned = {} /\ ~uncertain /\ ~required /\ ~scheduling /\ startup.at = "idle"
  BY <1>1 DEF SessionSound, OwnedByOne, RestoreObserved, RestoreSucceeded, InTurn, ReadySound,
     Unscheduled
<1>3. CASE restore' = Idle /\ UNCHANGED <<process, owned, startup>>
           /\ status' \in {"degraded", "stopped"} /\ (UNCHANGED scheduling \/ scheduling' = FALSE)
  <2>1. scheduling' = FALSE
    BY <1>2, <1>3 DEF TypeOK
  <2>2. TypeOK'
    BY <1>1, <1>2, <1>3, <2>1, IdleTyped, OwnedAlive, TypeStands DEF TypeOK
  <2>3. GuardSound'
    BY <1>1, <1>3, GuardStands
  <2>4. SessionSound'
    BY <1>1, <1>2, <1>3 DEF SessionSound, InTurn, CancelledByStop, OwnedByOne, RestoreObserved,
       UncertainIsKnown, LeavingWaits, Idle
  <2>5. ReadySound'
    BY <1>1, <1>2, <1>3, <2>1 DEF ReadySound, ReadyIsServed, ServerIsLatest, Unscheduled, Idle
  <2> QED BY <1>3, <2>2, <2>3, <2>4, <2>5
<1>4. CASE /\ restore.current /\ UNCHANGED scheduling
           /\ BeginStartup(process, [at |-> "restarting", child |-> Nobody, current |-> TRUE])
  <2> DEFINE caller == [at |-> "restarting", child |-> Nobody, current |-> TRUE]
  <2>1. ~stopping /\ ~closing
    BY <1>1, <1>4 DEF SessionSound, CancelledByStop
  <2>2. caller \in RestoreTypes /\ caller.at = "restarting"
    BY DEF RestoreTypes, Routine
  <2>3. BeginStartup(process, caller)
    BY <1>4
  <2>4. process \in [Child -> Process] /\ scheduling' = FALSE
    BY <1>2, <1>4 DEF TypeOK
  <2> HIDE DEF caller
  <2> QED BY <1>1, <1>2, <2>1, <2>2, <2>3, <2>4, StartupBegins
<1> QED BY <1>3, <1>4 DEF RestoreReturns

LEMMA MigrationSound ==
    ASSUME Sound, MigrationExits
    PROVE  Sound' /\ (owned' \subseteq owned \/ (owned = {} /\ ~stopping /\ ~closing /\ ~uncertain))
<1> USE DEF Sound
<1>1. /\ UNCHANGED <<lease, guard, app, ending, stopping, leaving, closing, required,
                     uncertain, exit>>
      /\ startup.at = "migrating" /\ startup.child \notin owned /\ startup.current
  BY DEF MigrationExits, MigrationPasses, ghosts
<1>2. /\ owned = {} /\ ~uncertain /\ ~stopping /\ ~closing /\ ~required
      /\ restore.at \in {"idle", "restarting"} /\ scheduling = FALSE /\ status # "ready"
  BY <1>1 DEF SessionSound, OwnedByOne, UncertainIsKnown, InTurn, CancelledByStop, ReadySound,
     ReadyIsServed, Unscheduled, TypeOK, Routine
<1>3. serving = Nobody /\ ending = {} /\ leaving = {}
  BY <1>2 DEF TypeOK, SessionSound, LeavingWaits
<1>4. CASE UNCHANGED <<restore, status, scheduling>>
           /\ \E c \in Child : /\ Launch(c, "serve", process)
                               /\ startup' = [at |-> "readying", child |-> c,
                                              current |-> startup.current]
                               /\ serving' = c
  <2>1. PICK c \in Child : /\ Launch(c, "serve", process)
                           /\ startup' = [at |-> "readying", child |-> c,
                                          current |-> startup.current]
                           /\ serving' = c
    BY <1>4
  <2>2. "serve" \in Kind /\ process \in [Child -> Process]
    BY DEF Kind, TypeOK
  <2>3. /\ process' \in [Child -> Process] /\ owned' = {c}
        /\ \A d \in owned' : d \in Child /\ process'[d].at \in Live
        /\ process'[c].kind = "serve" /\ process'[c].latest /\ ~process'[c].asked
        /\ GuardSound'
    BY <1>1, <1>2, <2>1, <2>2, LaunchStep
  <2>4. startup' \in StartupTypes /\ startup'.at = "readying" /\ startup'.child = c
    BY <2>1 DEF StartupTypes, Routine, TypeOK
  <2>5. TypeOK'
    BY <1>1, <1>3, <1>4, <2>1, <2>3, <2>4, OwnedAlive, TypeStands DEF TypeOK
  <2>6. SessionSound'
    <3>1. InTurn' /\ CancelledByStop'
      BY <1>1, <1>2, <1>4, <2>4 DEF SessionSound, InTurn, CancelledByStop
    <3>2. OwnedByOne' /\ RestoreObserved' /\ UncertainIsKnown' /\ LeavingWaits'
      BY <1>1, <1>2, <1>3, <1>4, <2>4 DEF SessionSound, OwnedByOne, RestoreObserved,
         UncertainIsKnown, LeavingWaits
    <3> QED BY <3>1, <3>2 DEF SessionSound
  <2>7. ReadySound'
    BY <1>1, <1>2, <1>4, <2>1, <2>3, <2>4 DEF ReadySound, ReadyIsServed, ServerIsLatest,
       Unscheduled, LatestServer
  <2> QED BY <1>2, <2>3, <2>5, <2>6, <2>7
<1>5. CASE /\ StartupSettles /\ status' = "degraded" /\ scheduling' = FALSE
           /\ UNCHANGED <<process, owned, serving>>
  <2>1. startup' = Idle /\ restore' = Idle
    BY <1>5 DEF StartupSettles
  <2>2. TypeOK'
    BY <1>1, <1>2, <1>3, <1>5, <2>1, IdleTyped, OwnedAlive, TypeStands DEF TypeOK
  <2>3. GuardSound'
    BY <1>1, <1>5, GuardStands
  <2>4. SessionSound'
    BY <1>1, <1>2, <1>3, <1>5, <2>1 DEF SessionSound, InTurn, CancelledByStop, OwnedByOne,
       RestoreObserved, UncertainIsKnown, LeavingWaits, Idle
  <2>5. ReadySound'
    BY <1>1, <1>5, <2>1 DEF ReadySound, ReadyIsServed, ServerIsLatest, Unscheduled, Idle
  <2> QED BY <1>5, <2>2, <2>3, <2>4, <2>5
<1> QED BY <1>4, <1>5 DEF MigrationExits

LEMMA LaunchRestoreSound ==
    ASSUME Sound, LaunchRestore
    PROVE  Sound' /\ (owned' \subseteq owned \/ (owned = {} /\ ~stopping /\ ~closing /\ ~uncertain))
<1> USE DEF Sound
<1>1. /\ UNCHANGED <<lease, guard, app, serving, ending, startup, stopping, leaving, closing,
                     exit>>
      /\ restore.at = "stopped" /\ restore.current
  BY DEF LaunchRestore
<1>2. /\ owned = {} /\ ~stopping /\ ~closing /\ ~required /\ ~uncertain
      /\ startup.at = "idle" /\ scheduling = FALSE
  BY <1>1 DEF SessionSound, OwnedByOne, UncertainIsKnown, InTurn, CancelledByStop, ReadySound,
     Unscheduled, TypeOK
<1>3. serving = Nobody /\ ending = {} /\ leaving = {}
  BY <1>2 DEF TypeOK, SessionSound, LeavingWaits
<1>4. CASE /\ \E c \in Child : /\ Launch(c, "restore", process)
                               /\ restore' = [restore EXCEPT !.at = "observing", !.child = c]
           /\ status' = "starting" /\ uncertain' = TRUE
           /\ UNCHANGED <<required, scheduling>>
  <2>1. PICK c \in Child : /\ Launch(c, "restore", process)
                           /\ restore' = [restore EXCEPT !.at = "observing", !.child = c]
    BY <1>4
  <2>2. "restore" \in Kind /\ process \in [Child -> Process]
    BY DEF Kind, TypeOK
  <2>3. /\ process' \in [Child -> Process] /\ owned' = {c}
        /\ \A d \in owned' : d \in Child /\ process'[d].at \in Live
        /\ process'[c].kind = "restore"
        /\ GuardSound'
    BY <1>1, <1>2, <2>1, <2>2, LaunchStep
  <2>4. restore' \in RestoreTypes /\ restore'.at = "observing" /\ restore'.child = c
    BY <2>1 DEF RestoreTypes, Routine, TypeOK
  <2>5. TypeOK'
    BY <1>1, <1>3, <1>4, <2>3, <2>4, OwnedAlive, TypeStands DEF TypeOK
  <2>6. SessionSound'
    <3>1. InTurn' /\ CancelledByStop'
      BY <1>1, <1>2, <1>4, <2>4 DEF SessionSound, InTurn, CancelledByStop
    <3>2. OwnedByOne' /\ UncertainIsKnown' /\ LeavingWaits'
      BY <1>1, <1>2, <1>3, <1>4, <2>3, <2>4 DEF SessionSound, OwnedByOne, UncertainIsKnown,
         LeavingWaits
    <3>3. RestoreObserved'
      BY <2>3, <2>4 DEF RestoreObserved, RestoreSucceeded
    <3> QED BY <3>1, <3>2, <3>3 DEF SessionSound
  <2>7. ReadySound'
    BY <1>1, <1>2, <1>4 DEF ReadySound, ReadyIsServed, ServerIsLatest, Unscheduled
  <2> QED BY <1>2, <2>3, <2>5, <2>6, <2>7
<1>5. CASE /\ restore' = Idle
           /\ required' = TRUE /\ status' = "degraded" /\ scheduling' = FALSE
           /\ UNCHANGED <<process, owned, uncertain>>
  <2>1. TypeOK'
    BY <1>1, <1>2, <1>3, <1>5, IdleTyped, OwnedAlive, TypeStands DEF TypeOK
  <2>2. GuardSound'
    BY <1>1, <1>5, GuardStands
  <2>3. SessionSound'
    BY <1>1, <1>2, <1>3, <1>5 DEF SessionSound, InTurn, CancelledByStop, OwnedByOne,
       RestoreObserved, UncertainIsKnown, LeavingWaits, Idle
  <2>4. ReadySound'
    BY <1>1, <1>2, <1>5 DEF ReadySound, ReadyIsServed, ServerIsLatest, Unscheduled, Idle
  <2> QED BY <1>5, <2>1, <2>2, <2>3, <2>4
<1> QED BY <1>4, <1>5 DEF LaunchRestore

-----------------------------------------------------------------------------
(* The children's own steps. *)

(* A child gets further under the lock: nothing the supervisor keeps changes. *)
LEMMA FurtherStep ==
    ASSUME TypeOK, SessionSound, ReadySound, NEW c \in Child, NEW at \in Live, Alive(c),
           process' = [process EXCEPT ![c].at = at],
           lease' \in {lease, c}, guard' \in BOOLEAN,
           UNCHANGED <<app, ownership, startup, restore, stopping, leaving, closing, required,
                       scheduling, status, ghosts>>
    PROVE  /\ TypeOK' /\ SessionSound' /\ ReadySound'
           /\ process'[c].at = at /\ process'[c].kind = process[c].kind
           /\ \A d \in Child \ {c} : process'[d] = process[d]
<1> USE DEF ownership, ghosts
<1>1. /\ process' \in [Child -> Process]
      /\ process'[c].at = at /\ process'[c].kind = process[c].kind
      /\ process'[c].latest = process[c].latest /\ process'[c].asked = process[c].asked
      /\ process'[c].ok = process[c].ok
      /\ \A d \in Child \ {c} : process'[d] = process[d]
  BY DEF TypeOK, Process
<1>2. \A d \in owned' : d \in Child /\ process'[d].at \in Live
  BY <1>1, OwnedAlive
<1>3. TypeOK'
  BY <1>1, <1>2, OwnedAlive, TypeStands DEF TypeOK
<1>4. InTurn' /\ CancelledByStop' /\ OwnedByOne' /\ UncertainIsKnown' /\ LeavingWaits'
  BY DEF SessionSound, InTurn, CancelledByStop, OwnedByOne, UncertainIsKnown, LeavingWaits
<1>5. RestoreObserved'
  BY <1>1 DEF SessionSound, RestoreObserved, RestoreSucceeded, Alive
<1>6. ReadyIsServed' /\ Unscheduled'
  BY DEF ReadySound, ReadyIsServed, Unscheduled
<1>7. ServerIsLatest'
  BY <1>1 DEF ReadySound, ServerIsLatest, LatestServer
<1> QED BY <1>1, <1>3, <1>4, <1>5, <1>6, <1>7 DEF SessionSound, ReadySound

LEMMA FurtherSound ==
    ASSUME Sound, NEW c \in Child,
           TakeLease(c) \/ EnterWorkspace(c) \/ PublishGuard(c) \/ ClearGuard(c)
    PROVE  Sound'
<1> USE DEF Sound
<1>1. CASE TakeLease(c)
  <2>1. /\ Alive(c) /\ "locked" \in Live /\ lease = Nobody /\ lease' = c /\ guard' = guard
        /\ process' = [process EXCEPT ![c].at = "locked"]
        /\ UNCHANGED <<app, ownership, startup, restore, stopping, leaving, closing, required,
                       scheduling, status, ghosts>>
    BY <1>1 DEF TakeLease, Alive, Live
  <2>2. /\ TypeOK' /\ SessionSound' /\ ReadySound'
        /\ process'[c].at = "locked"
        /\ \A d \in Child \ {c} : process'[d] = process[d]
    BY <2>1, FurtherStep DEF TypeOK
  <2>3. GuardSound'
    BY <2>1, <2>2, SupervisorAssumption
    DEF GuardSound, GuardKeepsRuntimeOut, Leased, OnlyRestoresWrite
  <2> QED BY <2>2, <2>3
<1>2. CASE EnterWorkspace(c)
  <2>1. /\ Alive(c) /\ "inside" \in Live /\ lease' = lease /\ guard' = guard /\ ~guard
        /\ process[c].at = "locked"
        /\ process' = [process EXCEPT ![c].at = "inside"]
        /\ UNCHANGED <<app, ownership, startup, restore, stopping, leaving, closing, required,
                       scheduling, status, ghosts>>
    BY <1>2 DEF EnterWorkspace, Admitted, Alive, Live
  <2>2. /\ TypeOK' /\ SessionSound' /\ ReadySound'
        /\ process'[c].at = "inside"
        /\ \A d \in Child \ {c} : process'[d] = process[d]
    BY <2>1, FurtherStep DEF TypeOK
  <2>3. GuardSound'
    BY <2>1, <2>2 DEF GuardSound, GuardKeepsRuntimeOut, Leased, OnlyRestoresWrite
  <2> QED BY <2>2, <2>3
<1>3. CASE PublishGuard(c)
  <2>1. /\ Alive(c) /\ "writing" \in Live /\ lease' = lease /\ guard' = TRUE
        /\ process[c].at = "inside" /\ process[c].kind = "restore"
        /\ process' = [process EXCEPT ![c].at = "writing"]
        /\ UNCHANGED <<app, ownership, startup, restore, stopping, leaving, closing, required,
                       scheduling, status, ghosts>>
    BY <1>3 DEF PublishGuard, Alive, Live
  <2>2. /\ TypeOK' /\ SessionSound' /\ ReadySound'
        /\ process'[c].at = "writing" /\ process'[c].kind = "restore"
        /\ \A d \in Child \ {c} : process'[d] = process[d]
    BY <2>1, FurtherStep DEF TypeOK
  <2>3. lease = c
    BY <2>1 DEF GuardSound, Leased
  <2>4. \A d \in Child \ {c} : process[d].at \notin {"inside", "writing", "finished"}
    BY <2>3 DEF GuardSound, Leased
  <2>5. GuardSound'
    BY <2>1, <2>2, <2>3, <2>4
    DEF GuardSound, GuardKeepsRuntimeOut, Leased, OnlyRestoresWrite, Runtime
  <2> QED BY <2>2, <2>5
<1>4. CASE ClearGuard(c)
  <2>1. /\ Alive(c) /\ "finished" \in Live /\ lease' = lease /\ guard' = FALSE
        /\ process[c].at = "writing"
        /\ process' = [process EXCEPT ![c].at = "finished"]
        /\ UNCHANGED <<app, ownership, startup, restore, stopping, leaving, closing, required,
                       scheduling, status, ghosts>>
    BY <1>4 DEF ClearGuard, Alive, Live
  <2>2. /\ TypeOK' /\ SessionSound' /\ ReadySound'
        /\ process'[c].at = "finished" /\ process'[c].kind = process[c].kind
        /\ \A d \in Child \ {c} : process'[d] = process[d]
    BY <2>1, FurtherStep DEF TypeOK
  <2>3. GuardSound'
    BY <2>1, <2>2 DEF GuardSound, GuardKeepsRuntimeOut, Leased, OnlyRestoresWrite
  <2> QED BY <2>2, <2>3
<1> QED BY <1>1, <1>2, <1>3, <1>4

LEMMA EndsSound ==
    ASSUME Sound, NEW c \in Child, NEW well \in BOOLEAN, Ends(c, well)
    PROVE  Sound'
<1> USE DEF Sound
<1>1. /\ Alive(c)
      /\ process' = [process EXCEPT ![c].at = "gone", ![c].ok = well]
      /\ lease' = IF lease = c THEN Nobody ELSE lease
      /\ owned' = owned \ {c} /\ ending' = ending \ {c}
      /\ serving' = IF serving = c THEN Nobody ELSE serving
      /\ UNCHANGED <<guard, app, stopping, leaving, closing, required, exit>>
  BY DEF Ends, ServingAfter
<1>2. /\ process' \in [Child -> Process]
      /\ process'[c].at = "gone" /\ process'[c].kind = process[c].kind
      /\ process'[c].latest = process[c].latest /\ process'[c].asked = process[c].asked
      /\ process'[c].ok = well
      /\ \A d \in Child \ {c} : process'[d] = process[d]
  BY <1>1 DEF TypeOK, Process
<1>3. /\ uncertain' \in BOOLEAN /\ (uncertain' => uncertain)
      /\ c \in owned /\ process[c].kind = "restore" /\ well => ~uncertain'
  <2>1. uncertain' = (uncertain /\ ~(c \in owned /\ process[c].kind = "restore" /\ well))
    BY DEF Ends
  <2> QED BY <2>1
<1>4. /\ startup' \in StartupTypes /\ restore' \in RestoreTypes
      /\ startup'.at = startup.at /\ startup'.child = startup.child
      /\ restore'.at = restore.at /\ restore'.child = restore.child
      /\ startup'.current => startup.current
      /\ restore'.current => restore.current
  <2>1. CASE Unexpected(c)
    BY <2>1, StaleTyped DEF Ends
  <2>2. CASE ~Unexpected(c)
    BY <2>2, OwnedAlive DEF Ends
  <2> QED BY <2>1, <2>2
<1>5. /\ scheduling' = FALSE \/ scheduling' = scheduling
      /\ status' = "degraded" \/ status' = status
  BY DEF Ends
<1>6. \A d \in owned' : d \in Child /\ process'[d].at \in Live
  BY <1>1, <1>2, OwnedAlive
<1>7. TypeOK'
  <2>1. /\ lease' \in Child \cup {Nobody} /\ serving' \in owned' \cup {Nobody}
        /\ ending' \subseteq owned'
    BY <1>1 DEF TypeOK
  <2>2. /\ scheduling' \in BOOLEAN /\ status' \in {"stopped", "starting", "ready", "degraded"}
    BY <1>5 DEF TypeOK
  <2> QED BY <1>1, <1>2, <1>3, <1>4, <1>6, <2>1, <2>2, TypeStands DEF TypeOK
<1>8. GuardSound'
  <2>1. \A d \in Child : process'[d].at # "gone" => d # c /\ process'[d] = process[d]
    BY <1>2
  <2>2. \A d \in Child : d # c /\ lease = d => lease' = d
    BY <1>1
  <2> QED BY <1>1, <2>1, <2>2 DEF GuardSound, GuardKeepsRuntimeOut, Leased, OnlyRestoresWrite
<1>9. SessionSound'
  <2>1. InTurn' /\ CancelledByStop' /\ LeavingWaits'
    BY <1>1, <1>4 DEF SessionSound, InTurn, CancelledByStop, LeavingWaits
  <2>2. OwnedByOne' /\ UncertainIsKnown'
    BY <1>1, <1>3, <1>4 DEF SessionSound, OwnedByOne, UncertainIsKnown
  <2>3. ASSUME restore.at = "observing"
        PROVE  /\ process'[restore.child].kind = "restore"
               /\ restore.child \in owned' \/ process'[restore.child].at \notin Live
               /\ restore.child \notin owned' /\ process'[restore.child].ok => ~uncertain'
    <3>1. /\ restore.child \in Child /\ process[restore.child].kind = "restore"
          /\ restore.child \in owned \/ ~Alive(restore.child)
          /\ restore.child \notin owned /\ process[restore.child].ok => ~uncertain
      BY <2>3 DEF SessionSound, RestoreObserved, RestoreSucceeded
    <3>2. CASE restore.child = c
      BY <1>1, <1>2, <1>3, <3>1, <3>2 DEF Live
    <3>3. CASE restore.child # c
      BY <1>1, <1>2, <1>3, <3>1, <3>3 DEF Alive
    <3> QED BY <3>2, <3>3
  <2>4. RestoreObserved'
    BY <1>4, <2>3 DEF SessionSound, RestoreObserved, RestoreSucceeded, Alive
  <2> QED BY <2>1, <2>2, <2>4 DEF SessionSound
<1>10. ReadySound'
  <2>1. CASE scheduling' = FALSE /\ status' = "degraded"
    <3>1. ServerIsLatest'
      BY <1>1, <1>2, <1>4, <2>1 DEF ReadySound, ServerIsLatest, LatestServer
    <3> QED BY <2>1, <3>1 DEF ReadySound, ReadyIsServed, Unscheduled
  <2>2. CASE ~Unexpected(c)
    <3>1. /\ scheduling' = scheduling
          /\ status' = status \/ (required /\ status' = "degraded")
      BY <2>2 DEF Ends
    <3>2. required => scheduling' = FALSE
      BY <3>1 DEF ReadySound, Unscheduled, TypeOK
    <3>3. status = "ready" /\ ~stopping => serving # c
      BY <2>2 DEF ReadySound, ReadyIsServed, ServerIsLatest, LatestServer, Unexpected, TypeOK
    <3>4. ServerIsLatest'
      BY <1>1, <1>2, <1>4, <3>1, <3>3 DEF ReadySound, ServerIsLatest, LatestServer
    <3>5. ReadyIsServed'
      BY <1>1, <1>4, <3>1, <3>2, <3>3 DEF ReadySound, ReadyIsServed
    <3>6. Unscheduled'
      BY <1>1, <1>4, <3>1 DEF ReadySound, Unscheduled
    <3> QED BY <3>4, <3>5, <3>6 DEF ReadySound
  <2> QED BY <2>1, <2>2 DEF Ends
<1> QED BY <1>7, <1>8, <1>9, <1>10

-----------------------------------------------------------------------------
(* The invariant, and what follows from it. *)

LEMMA SoundPreserved == Sound /\ [Next]_vars => Sound'
<1> SUFFICES ASSUME Sound, [Next]_vars PROVE Sound'
  OBVIOUS
<1>1. CASE Calls
  BY <1>1, StartSound, StopSound, BeginRestoreSound, QuietStep DEF Calls
<1>2. CASE Settles
  BY <1>2, QuietStep, MigrationSound, TimesOutSound, ReturnsSound, LaunchRestoreSound,
     RestoreReturnsSound, UnconfirmedSound DEF Settles
<1>3. CASE Children
  BY <1>3, FurtherSound, EndsSound DEF Children
<1>4. CASE Open \/ RecoverySession
  BY <1>4, QuietStep
<1>5. CASE Crash
  BY <1>5, AwaySound DEF Crash
<1>6. CASE UNCHANGED vars
  <2>1. /\ UNCHANGED <<process, lease, guard, app, owned, serving, ending, startup, restore,
                       stopping, leaving, closing, required, scheduling, status, uncertain,
                       exit>>
    BY <1>6 DEF vars, workspace, ownership, ghosts
  <2>2. TypeOK'
    BY <2>1, OwnedAlive, TypeStands DEF Sound, TypeOK
  <2>3. GuardSound'
    BY <2>1, GuardStands DEF Sound
  <2>4. SessionSound'
    BY <2>1 DEF Sound, SessionSound, InTurn, CancelledByStop, OwnedByOne, RestoreObserved,
       RestoreSucceeded, UncertainIsKnown, LeavingWaits, Alive
  <2>5. ReadySound'
    BY <2>1 DEF Sound, ReadySound, ReadyIsServed, ServerIsLatest, LatestServer, Unscheduled
  <2> QED BY <2>2, <2>3, <2>4, <2>5 DEF Sound
<1> QED BY <1>1, <1>2, <1>3, <1>4, <1>5, <1>6 DEF Next

(* Types hold throughout: only children the session launched and that live are
   owned, only owned ones serve or are being ended. *)
THEOREM SupervisorTypeCorrect == Spec => []TypeOK
<1>1. Sound => TypeOK
  BY DEF Sound
<1> QED BY <1>1, InitSound, SoundPreserved, PTL DEF Spec

(* While a restore's guard is published no migration and no server, whoever
   launched it, is in the workspace: the restore that published it holds the
   lock, and whoever locks after it looks at the guard first. *)
THEOREM GuardIsKept == Spec => []GuardKeepsRuntimeOut
<1>1. Sound => GuardKeepsRuntimeOut
  BY DEF Sound, GuardSound
<1> QED BY <1>1, InitSound, SoundPreserved, PTL DEF Spec

(* "ready", and scheduled backups, are of a server that is still owned: its
   end would be unexpected, and would take both back. *)
THEOREM ReadyMeansServed == Spec => []ReadyIsServed
<1>1. Sound => ReadyIsServed
  BY DEF Sound, ReadySound
<1> QED BY <1>1, InitSound, SoundPreserved, PTL DEF Spec

LEMMA LaunchesAlone ==
    ASSUME Sound, [Next]_vars
    PROVE  \A c \in owned' \ owned : owned = {} /\ ~stopping /\ ~closing /\ ~uncertain
<1> USE DEF workspace, ownership, ghosts
<1>1. CASE Start \/ MigrationExits \/ LaunchRestore \/ RestoreReturns
  BY <1>1, StartSound, MigrationSound, LaunchRestoreSound, RestoreReturnsSound
<1>2. CASE \/ RefuseAdmission \/ StartupCancelled \/ StartupFails \/ BecomesReady
           \/ RestoreCancelled \/ RestoreUncertain \/ Open \/ RecoverySession
           \/ StartupTimesOut \/ BeginRestore
  BY <1>2 DEF RefuseAdmission, StartupCancelled, StartupFails, BecomesReady, RestoreCancelled,
     RestoreUncertain, Open, RecoverySession, StartupTimesOut, BeginRestore
<1>3. CASE StopReturns \/ Crash \/ UNCHANGED vars
  BY <1>3 DEF StopReturns, Crash, GoAway, FreshSession, vars
<1>4. ASSUME NEW who, Stop(who) PROVE owned' = owned
  BY <1>4 DEF Stop
<1>5. ASSUME NEW c \in Child,
             EndUnconfirmed(c) \/ TakeLease(c) \/ EnterWorkspace(c) \/ PublishGuard(c)
               \/ ClearGuard(c) \/ \E well \in BOOLEAN : Ends(c, well)
      PROVE  owned' \subseteq owned
  BY <1>5 DEF EndUnconfirmed, TakeLease, EnterWorkspace, PublishGuard, ClearGuard, Ends
<1> QED BY <1>1, <1>2, <1>3, <1>4, <1>5 DEF Next, Calls, Settles, Children

(* A migration, a server and a restore are launched one at a time, never while
   a stop is under way or after a shutdown began, and never once a restore of
   the session has not succeeded: every await is followed by a comparison that
   a stop, or an unexpected end, made fail. *)
THEOREM LaunchesAreExclusive == Spec => LaunchIsExclusive
<1>1. Sound /\ [Next]_vars
        => [\A c \in owned' \ owned : owned = {} /\ ~stopping /\ ~closing /\ ~uncertain]_vars
  BY LaunchesAlone
<1> QED BY <1>1, InitSound, SoundPreserved, PTL DEF Spec, LaunchIsExclusive

LEMMA LeavesSafely ==
    ASSUME Sound, [Next]_vars, app = "on", app' = "off", exit' # "crash"
    PROVE  owned = {} /\ (exit' = "update" => ~uncertain /\ ~guard)
<1> USE DEF workspace, ownership, ghosts
<1>1. StopReturns
  <2>1. ~Crash
    BY DEF Crash, GoAway
  <2>2. ~ UNCHANGED app
    OBVIOUS
  <2> QED BY <2>1, <2>2 DEF Next, Calls, Settles, Children, Start, Stop, BeginRestore,
     RefuseAdmission, StartupCancelled, MigrationExits, StartupTimesOut, StartupFails,
     BecomesReady, RestoreCancelled, LaunchRestore, RestoreReturns, RestoreUncertain,
     EndUnconfirmed, TakeLease, EnterWorkspace, PublishGuard, ClearGuard, Ends, Open,
     RecoverySession, vars
<1>2. PICK how \in leaving : (how = "update" => ~guard /\ ~required) /\ exit' = how
  BY <1>1 DEF StopReturns, GoAway
<1>3. owned = {}
  BY <1>1 DEF StopReturns, ProvedStopped
<1>4. exit' = "update" => ~required /\ restore.at = "idle" /\ ~guard
  BY <1>2 DEF Sound, SessionSound, LeavingWaits
<1> QED BY <1>3, <1>4 DEF Sound, SessionSound, UncertainIsKnown

(* The desktop quits or updates only when every child it owned has exited; it
   updates only when every restore of the session succeeded and no guard is
   left: an update is refused while a restore runs, and what failed before or
   meanwhile left the recovery required. *)
THEOREM LeavesWhenStopped == Spec => LeavingIsSafe
<1>1. Sound /\ [Next]_vars
        => [(app = "on" /\ app' = "off" /\ exit' # "crash") =>
              /\ owned = {}
              /\ exit' = "update" => ~uncertain /\ ~guard]_vars
  BY LeavesSafely
<1> QED BY <1>1, InitSound, SoundPreserved, PTL DEF Spec, LeavingIsSafe

=============================================================================
