-------------------------- MODULE BackendSupervisor --------------------------
(***************************************************************************)
(* The desktop's supervisor of the local backend: it launches a migration, *)
(* then the server, or a one-shot offline restore, ends the first two and  *)
(* only watches the third.  Calls overlap; each keeps what it must recheck *)
(* after every await.  Children take the workspace lease and look at the   *)
(* durable restore guard themselves, for they may outlive the desktop.     *)
(*                                                                         *)
(* A generation number is modelled by what it is compared for: whether a   *)
(* routine, or a child, still belongs to the latest generation.            *)
(***************************************************************************)
EXTENDS Naturals, FiniteSets

CONSTANTS
    Child,      \* identities of child processes, used again once one is gone
    Nobody

ASSUME SupervisorAssumption == Nobody \notin Child

VARIABLES
    process,    \* the child processes: kind and how far each has got
    lease,      \* the child that holds the workspace's operating system lock
    guard,      \* restore-control/active.guard exists
    app,        \* the desktop: off, or on
    owned,      \* launched in this session, exit not yet observed
    serving,    \* the child that is the current server
    ending,     \* owned children with a termination in progress
    startup,    \* runStartup
    restore,    \* runRestore
    stopping,   \* stopOwned is under way
    leaving,    \* who awaits the shutdown: quit, update
    closing,    \* no new operation for the rest of the session
    required,   \* restoreRecoveryRequired
    scheduling, \* the backup schedule timer runs
    status,
    uncertain,  \* ghost: a restore of this session has not succeeded
    exit        \* ghost: how the desktop last went away

workspace == <<process, lease, guard>>
ownership == <<owned, serving, ending>>
ghosts == <<uncertain, exit>>
vars == <<workspace, app, ownership, startup, restore, stopping, leaving, closing,
          required, scheduling, status, ghosts>>

Kind == {"migration", "serve", "restore"}
Runtime == {"migration", "serve"}
\* A child starts, locks the workspace, is admitted; a restore then writes.
Live == {"launched", "locked", "inside", "writing", "finished"}
Process == [kind : Kind, at : Live \cup {"gone"}, latest : BOOLEAN, asked : BOOLEAN,
            ok : BOOLEAN]
Gone == [kind |-> "serve", at |-> "gone", latest |-> FALSE, asked |-> FALSE, ok |-> FALSE]

Routine(stages) == [at : stages \cup {"idle"}, child : Child \cup {Nobody},
                    current : BOOLEAN]
Idle == [at |-> "idle", child |-> Nobody, current |-> FALSE]

\* What a new session, with nothing launched yet, holds.
FreshSession ==
    /\ owned' = {} /\ serving' = Nobody /\ ending' = {}
    /\ startup' = Idle /\ restore' = Idle /\ stopping' = FALSE
    /\ leaving' = {} /\ closing' = FALSE /\ required' = FALSE
    /\ scheduling' = FALSE /\ status' = "stopped" /\ uncertain' = FALSE

Init ==
    /\ process = [c \in Child |-> Gone] /\ lease = Nobody /\ guard = FALSE
    /\ app = "off"
    /\ owned = {} /\ serving = Nobody /\ ending = {}
    /\ startup = Idle /\ restore = Idle /\ stopping = FALSE
    /\ leaving = {} /\ closing = FALSE /\ required = FALSE
    /\ scheduling = FALSE /\ status = "stopped"
    /\ uncertain = FALSE /\ exit = "none"

Alive(c) == process[c].at \in Live
\* A name is free once its process is gone and no routine looks at it.
Free(c) == ~Alive(c) /\ c \notin {startup.child, restore.child}

-----------------------------------------------------------------------------
(* Pieces of the supervisor's operations *)

\* newGeneration: whatever ran before is stale, and so are its children.
Stale(routine) == [routine EXCEPT !.current = FALSE]
StaleChildren == [c \in Child |-> [process[c] EXCEPT !.latest = FALSE]]

\* launch: the child is owned from the moment it is spawned.
Launch(c, kind, processes) ==
    /\ Free(c)
    /\ process' = [processes EXCEPT ![c] =
         [kind |-> kind, at |-> "launched", latest |-> TRUE, asked |-> FALSE, ok |-> FALSE]]
    /\ owned' = owned \cup {c}

\* terminate: kill each, and remember that the end was asked for.
AskToEnd(children, processes) ==
    /\ process' = [c \in Child |-> [processes[c] EXCEPT !.asked = @ \/ c \in children]]
    /\ ending' = ending \cup children

RestoreOwned == \E c \in owned : process[c].kind = "restore"

\* runStartup, up to its first await: the migration, launched or not.
BeginStartup(processes, caller) ==
    \/ /\ \E c \in Child :
            /\ Launch(c, "migration", processes)
            /\ startup' = [at |-> "migrating", child |-> c, current |-> TRUE]
       /\ restore' = caller
       /\ status' = "starting"
    \/ /\ startup' = Idle /\ restore' = Idle
       /\ status' = "degraded"
       /\ process' = processes
       /\ UNCHANGED owned

\* The promise of a startup settles; a restore that restarts settles with it.
StartupSettles == startup' = Idle /\ restore' = Idle

-----------------------------------------------------------------------------
(* start *)

CanStart ==
    /\ app = "on" /\ ~guard /\ ~closing
    /\ restore.at = "idle" /\ ~required
    /\ ~stopping /\ startup.at = "idle"
    /\ ~(serving # Nobody /\ status = "ready")
    /\ owned = {}

Start ==
    /\ CanStart
    /\ BeginStartup(StaleChildren, restore)
    /\ scheduling' = FALSE
    /\ UNCHANGED <<lease, guard, app, serving, ending, stopping, leaving, closing,
                   required, ghosts>>

\* assertAdmission refuses a call, and says so.
RefuseAdmission ==
    /\ app = "on" /\ guard
    /\ scheduling' = FALSE /\ status' = "degraded"
    /\ UNCHANGED <<workspace, app, ownership, startup, restore, stopping, leaving,
                   closing, required, ghosts>>

\* A routine whose generation is over ends at its next await, and ends nothing else.
StartupCancelled ==
    /\ startup.at \in {"migrating", "readying"} /\ ~startup.current
    /\ StartupSettles
    /\ UNCHANGED <<workspace, app, ownership, stopping, leaving, closing, required,
                   scheduling, status, ghosts>>

\* Mutant of MigrationPasses: the generation is not compared after the wait.
PassesWhenStale == process[startup.child].ok

MigrationPasses == startup.current /\ process[startup.child].ok

MigrationExits ==
    /\ startup.at = "migrating" /\ startup.child \notin owned
    /\ \/ /\ MigrationPasses /\ ~guard
          /\ \E c \in Child :
               /\ Launch(c, "serve", process)
               /\ startup' = [at |-> "readying", child |-> c, current |-> startup.current]
               /\ serving' = c
          /\ UNCHANGED <<restore, status, scheduling>>
       \/ /\ startup.current      \* a failed migration, guard or spawn
          /\ StartupSettles
          /\ status' = "degraded" /\ scheduling' = FALSE
          /\ UNCHANGED <<process, owned, serving>>
    /\ UNCHANGED <<lease, guard, app, ending, stopping, leaving, closing, required,
                   ghosts>>

\* Sixty seconds of migration, twenty of readiness, or an error of the child.
StartupTimesOut ==
    /\ startup.at \in {"migrating", "readying"}
    /\ startup.current /\ startup.child \in owned
    /\ AskToEnd({startup.child}, process)
    /\ startup' = [startup EXCEPT !.at = "ending"]
    /\ UNCHANGED <<lease, guard, app, owned, serving, restore, stopping, leaving,
                   closing, required, scheduling, status, ghosts>>

\* ... after which the child's end, once observed, fails the startup.
StartupFails ==
    /\ startup.at = "ending" /\ startup.child \notin owned
    /\ StartupSettles
    /\ IF startup.current THEN status' = "degraded" /\ scheduling' = FALSE
                          ELSE UNCHANGED <<status, scheduling>>
    /\ UNCHANGED <<workspace, app, ownership, stopping, leaving, closing, required,
                   ghosts>>

\* Mutant of Answers: an answer of before the cancellation still counts.
AnswersWhenStale == process[startup.child].at = "inside"

\* The server answers a status request of the current generation in time.
Answers ==
    /\ startup.current
    /\ process[startup.child].at = "inside"
    /\ startup.child \in owned /\ serving = startup.child

BecomesReady ==
    /\ startup.at = "readying" /\ Answers
    /\ StartupSettles
    /\ status' = "ready" /\ scheduling' = TRUE
    /\ UNCHANGED <<workspace, app, ownership, stopping, leaving, closing, required,
                   ghosts>>

-----------------------------------------------------------------------------
(* stop, shutdown, prepareUpdate *)

\* A stop made for nobody, for a quit, or for an update.
Stop(who) ==
    /\ app = "on"
    /\ who = {"update"} => ~guard /\ ~required /\ restore.at = "idle"
    /\ startup' = Stale(startup)
    /\ scheduling' = FALSE
    /\ closing' = (closing \/ who # {})
    /\ \/ /\ stopping                             \* coalesced
          /\ leaving' = leaving \cup who
          /\ process' = StaleChildren
          /\ restore' = Stale(restore)
          /\ UNCHANGED <<stopping, ending, status>>
       \/ /\ ~stopping /\ RestoreOwned            \* never killed
          /\ status' = "degraded"
          /\ process' = StaleChildren
          /\ restore' = Stale(restore)
          /\ UNCHANGED <<leaving, stopping, ending>>
       \/ /\ ~stopping /\ ~RestoreOwned
          /\ AskToEnd(owned, StaleChildren)
          /\ stopping' = TRUE
          /\ leaving' = who
          /\ restore' = Stale(restore)
          /\ UNCHANGED status
    /\ UNCHANGED <<lease, guard, app, owned, serving, required, ghosts>>

\* The desktop process goes away; its children do not.
GoAway(how) ==
    /\ app' = "off" /\ exit' = how
    /\ FreshSession

\* Mutant of ProvedStopped: a kill that was sent counts as an exit.
StoppedWhenKilled == \A c \in owned : process[c].asked

\* Promise.all over the owned children, and none left after it.
ProvedStopped == owned = {}

StopReturns ==
    /\ stopping /\ ProvedStopped
    /\ \/ \E how \in leaving : (how = "update" => ~guard /\ ~required) /\ GoAway(how)
       \/ /\ "quit" \notin leaving
          /\ "update" \in leaving => guard \/ required
          /\ stopping' = FALSE /\ leaving' = {}
          /\ status' = IF required \/ leaving # {} THEN "degraded" ELSE "stopped"
          /\ restore' = IF restore.at = "stopping" THEN [restore EXCEPT !.at = "stopped"]
                        ELSE restore
          /\ UNCHANGED <<app, ownership, startup, closing, required, scheduling, ghosts>>
    /\ UNCHANGED workspace

\* Five seconds, a second kill, two more: ownership is kept, all who wait are told.
EndUnconfirmed(c) ==
    /\ c \in ending
    /\ ending' = ending \ {c}
    /\ stopping' = FALSE /\ leaving' = {}
    /\ LET starts == startup.at = "ending" /\ startup.child = c IN
         /\ startup' = IF starts THEN Idle ELSE startup
         /\ restore' = IF \/ restore.at = "stopping"
                          \/ starts /\ restore.at = "restarting"
                       THEN Idle ELSE restore
    \* A stop, or else the startup itself, waits for it and publishes the failure.
    /\ status' = "degraded" /\ scheduling' = FALSE
    /\ UNCHANGED <<workspace, app, owned, serving, closing, required, ghosts>>

-----------------------------------------------------------------------------
(* applyOfflineRestore *)

\* No restore can be owned here: one that is owned is observed, or left required set.
BeginRestore ==
    /\ app = "on" /\ ~guard /\ ~closing
    /\ restore.at = "idle" /\ ~required
    /\ startup.at = "idle" /\ ~stopping
    /\ AskToEnd(owned, StaleChildren)
    /\ stopping' = TRUE
    /\ restore' = [at |-> "stopping", child |-> Nobody, current |-> TRUE]
    /\ status' = "starting" /\ scheduling' = FALSE
    /\ UNCHANGED <<lease, guard, app, owned, serving, startup, leaving, closing,
                   required, ghosts>>

RestoreCancelled ==
    /\ restore.at = "stopped" /\ ~restore.current
    /\ restore' = Idle
    /\ UNCHANGED <<workspace, app, ownership, startup, stopping, leaving, closing,
                   required, scheduling, status, ghosts>>

LaunchRestore ==
    /\ restore.at = "stopped" /\ restore.current
    /\ \/ /\ ~guard
          /\ \E c \in Child :
               /\ Launch(c, "restore", process)
               /\ restore' = [restore EXCEPT !.at = "observing", !.child = c]
          /\ status' = "starting" /\ uncertain' = TRUE
          /\ UNCHANGED <<required, scheduling>>
       \/ /\ restore' = Idle
          /\ required' = TRUE /\ status' = "degraded" /\ scheduling' = FALSE
          /\ UNCHANGED <<process, owned, uncertain>>
    /\ UNCHANGED <<lease, guard, app, serving, ending, startup, stopping, leaving,
                   closing, exit>>

RestoreSucceeded == restore.child \notin owned /\ process[restore.child].ok

\* Exit zero of a restore whose guard is gone: start again, unless cancelled.
RestoreReturns ==
    /\ restore.at = "observing" /\ RestoreSucceeded
    /\ \/ /\ guard
          /\ restore' = Idle
          /\ status' = "degraded" /\ scheduling' = FALSE
          /\ UNCHANGED <<process, owned, startup>>
       \/ /\ ~guard /\ ~restore.current
          /\ restore' = Idle /\ status' = "stopped"
          /\ UNCHANGED <<process, owned, startup, scheduling>>
       \/ /\ ~guard /\ restore.current
          /\ BeginStartup(process, [at |-> "restarting", child |-> Nobody,
                                    current |-> TRUE])
          /\ UNCHANGED scheduling
    /\ UNCHANGED <<lease, guard, app, serving, ending, stopping, leaving, closing,
                   required, ghosts>>

\* Mutant of OutcomeUncertain: an observation without a limit.
OnlyExitsCount == restore.child \notin owned /\ ~process[restore.child].ok

\* Any other exit, two minutes, or an error.
OutcomeUncertain == ~RestoreSucceeded

\* The session may not go on.
RestoreUncertain ==
    /\ restore.at = "observing" /\ OutcomeUncertain
    /\ restore' = Idle
    /\ required' = TRUE /\ status' = "degraded"
    /\ UNCHANGED <<workspace, app, ownership, startup, stopping, leaving, closing,
                   scheduling, ghosts>>

-----------------------------------------------------------------------------
(* The child processes, and what the supervisor sees of their end *)

\* workspace_access locks without waiting; a child that cannot ends.
TakeLease(c) ==
    /\ process[c].at = "launched" /\ lease = Nobody
    /\ lease' = c
    /\ process' = [process EXCEPT ![c].at = "locked"]
    /\ UNCHANGED <<guard, app, ownership, startup, restore, stopping, leaving, closing,
                   required, scheduling, status, ghosts>>

\* Mutant of Admitted: the guard is looked at before the lock, not under it.
AdmittedUnchecked(c) == process[c].at = "locked"

\* Under the lock: no guard, so no restore has begun that did not end.
Admitted(c) == process[c].at = "locked" /\ ~guard

EnterWorkspace(c) ==
    /\ Admitted(c)
    /\ process' = [process EXCEPT ![c].at = "inside"]
    /\ UNCHANGED <<lease, guard, app, ownership, startup, restore, stopping, leaving,
                   closing, required, scheduling, status, ghosts>>

\* A restore publishes its guard, replaces the data, and clears the guard.
PublishGuard(c) ==
    /\ process[c].kind = "restore" /\ process[c].at = "inside"
    /\ guard' = TRUE
    /\ process' = [process EXCEPT ![c].at = "writing"]
    /\ UNCHANGED <<lease, app, ownership, startup, restore, stopping, leaving, closing,
                   required, scheduling, status, ghosts>>

ClearGuard(c) ==
    /\ process[c].at = "writing"
    /\ guard' = FALSE
    /\ process' = [process EXCEPT ![c].at = "finished"]
    /\ UNCHANGED <<lease, app, ownership, startup, restore, stopping, leaving, closing,
                   required, scheduling, status, ghosts>>

\* With status zero: a migration that ran, a restore that finished.
MayEndWell(c) ==
    \/ process[c].kind = "migration" /\ process[c].at = "inside"
    \/ process[c].at = "finished"

\* The server of the latest generation ended and nobody asked for it.
Unexpected(c) ==
    /\ c \in owned /\ process[c].kind = "serve"
    /\ process[c].latest /\ ~process[c].asked

ServingAfter(c) == IF serving = c THEN Nobody ELSE serving

\* A child ends, by itself or killed; the exit of an owned one is observed.
Ends(c, well) ==
    /\ Alive(c) /\ (well => MayEndWell(c))
    /\ process' = [process EXCEPT ![c].at = "gone", ![c].ok = well]
    /\ lease' = IF lease = c THEN Nobody ELSE lease
    /\ owned' = owned \ {c} /\ ending' = ending \ {c}
    /\ serving' = ServingAfter(c)
    /\ uncertain' = (uncertain /\ ~(c \in owned /\ process[c].kind = "restore" /\ well))
    /\ IF Unexpected(c)
       THEN /\ scheduling' = FALSE /\ status' = "degraded"
            /\ startup' = Stale(startup) /\ restore' = Stale(restore)
       ELSE /\ status' = IF c \in owned /\ process[c].kind = "restore" /\ required
                         THEN "degraded" ELSE status
            /\ UNCHANGED <<scheduling, startup, restore>>
    /\ UNCHANGED <<guard, app, stopping, leaving, closing, required, exit>>

-----------------------------------------------------------------------------
(* The desktop process: opening it, its crash, and a recovery-only session *)

Open ==
    /\ app = "off" /\ ~guard
    /\ app' = "on"
    /\ UNCHANGED <<workspace, ownership, startup, restore, stopping, leaving, closing,
                   required, scheduling, status, ghosts>>

Crash ==
    /\ app = "on"
    /\ GoAway("crash")
    /\ UNCHANGED workspace

\* runInstalledRestoreRecovery: its child takes the restore lease, then rolls
\* back or finalizes and so removes the guard; the session ends with it.
RecoverySession ==
    /\ app = "off" /\ guard /\ lease = Nobody
    /\ guard' = FALSE
    /\ UNCHANGED <<process, lease, app, ownership, startup, restore, stopping, leaving,
                   closing, required, scheduling, status, ghosts>>

Calls == Start \/ (\E who \in {{}, {"quit"}, {"update"}} : Stop(who)) \/ BeginRestore
         \/ RefuseAdmission

Settles ==
    \/ StartupCancelled \/ MigrationExits \/ StartupTimesOut \/ StartupFails
    \/ BecomesReady \/ StopReturns
    \/ RestoreCancelled \/ LaunchRestore \/ RestoreReturns \/ RestoreUncertain
    \/ \E c \in Child : EndUnconfirmed(c)

Children == \E c \in Child :
    \/ TakeLease(c) \/ EnterWorkspace(c) \/ PublishGuard(c) \/ ClearGuard(c)
    \/ \E well \in BOOLEAN : Ends(c, well)

Next == Calls \/ Settles \/ Children \/ Open \/ Crash \/ RecoverySession

\* Timers fire and promises settle; a child need never end.
Fairness ==
    /\ WF_vars(StartupCancelled) /\ WF_vars(MigrationExits) /\ WF_vars(StartupTimesOut)
    /\ WF_vars(StartupFails) /\ WF_vars(StopReturns)
    /\ WF_vars(RestoreCancelled) /\ WF_vars(LaunchRestore)
    /\ WF_vars(RestoreReturns) /\ WF_vars(RestoreUncertain)
    /\ \A c \in Child : WF_vars(EndUnconfirmed(c))

Spec == Init /\ [][Next]_vars /\ Fairness

-----------------------------------------------------------------------------
(* Properties *)

\* Every variable has its type; routines refer to children, owned ones are alive,
\* and only owned children are being ended.
TypeOK ==
    /\ process \in [Child -> Process] /\ lease \in Child \cup {Nobody} /\ guard \in BOOLEAN
    /\ app \in {"off", "on"}
    /\ owned \subseteq {c \in Child : Alive(c)}
    /\ serving \in owned \cup {Nobody} /\ ending \subseteq owned
    /\ startup \in Routine({"migrating", "readying", "ending"})
    /\ restore \in Routine({"stopping", "stopped", "observing", "restarting"})
    /\ stopping \in BOOLEAN /\ leaving \subseteq {"quit", "update"}
    /\ closing \in BOOLEAN /\ required \in BOOLEAN /\ scheduling \in BOOLEAN
    /\ status \in {"stopped", "starting", "ready", "degraded"}
    /\ uncertain \in BOOLEAN /\ exit \in {"none", "crash", "quit", "update"}

\* While a restore's guard is published, neither a migration nor a server of this
\* or of an earlier, crashed desktop session works in the workspace
\* (workspace_access: lock first, then assert_clear).
GuardKeepsRuntimeOut ==
    guard => \A c \in Child : process[c].kind \in Runtime =>
                process[c].at \notin {"inside", "writing", "finished"}

\* "ready" is shown, and backups are scheduled, only for an owned server whose
\* exit was not seen, unless a stop is under way (waitUntilReady, completed).
ReadyIsServed ==
    /\ status = "ready" => stopping \/ (serving # Nobody /\ startup.at = "idle")
    /\ scheduling => status = "ready" /\ serving # Nobody /\ ~stopping

\* A child is launched only when no child of the session is left, never while a stop
\* is under way or after a shutdown began, and never once a restore of the session
\* has not succeeded (start, runStartup, runRestore).
LaunchIsExclusive ==
    [][\A c \in owned' \ owned :
          owned = {} /\ ~stopping /\ ~closing /\ ~uncertain]_vars

\* The desktop quits or installs an update only when every child it owned has exited;
\* it updates, and so opens again by itself, only when every restore of the session
\* succeeded and no guard is left (shutdown, prepareUpdate, before-quit).
LeavingIsSafe ==
    [][(app = "on" /\ app' = "off" /\ exit' # "crash") =>
          /\ owned = {}
          /\ exit' = "update" => ~uncertain /\ ~guard]_vars

\* Every start, stop and restore returns, whatever its children do
\* (BACKEND_LIFECYCLE_LIMITS bound each observation).
CallsReturn ==
    /\ (startup.at # "idle") ~> (startup.at = "idle")
    /\ stopping ~> ~stopping
    /\ (restore.at # "idle") ~> (restore.at = "idle")
=============================================================================
