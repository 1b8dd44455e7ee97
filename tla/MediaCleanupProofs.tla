-------------------------- MODULE MediaCleanupProofs --------------------------
(***************************************************************************)
(* MediaCleanup, for every number of images, invocations, passes, failures *)
(* and crashes: what the provider stores is tracked, a credential carries  *)
(* one invocation's media, success means deletion, and an answer is taken  *)
(* only from media that was still stored.                                  *)
(*                                                                         *)
(* The runs' invariants speak of rows and the provider; the argument needs *)
(* what the actors know.  Two facts carry it.  A row that was claimed for  *)
(* deletion is never active again, so whoever holds it as its active owner *)
(* knows that nobody deleted its media.  And bytes are sent only before    *)
(* the provider names them, so a row with a name, or one that an actor is  *)
(* deleting, has nothing left in flight that could be stored afterwards.   *)
(***************************************************************************)
EXTENDS MediaCleanup, TLAPS

\* The media of r is not on its way, and nobody is about to send it.
Past(r) ==
    /\ row[r].state # "none"
    /\ r \notin inflight
    /\ \A i \in Invocation : pc[i] = "intent" => target[i] # r

Tracked(r) ==
    \/ row[r].state \in Active \cup {"DELETE_PENDING", "MANUAL_REVIEW"}
    \/ row[r].reason = "MANUALLY_REVIEWED"

Settled(r) == row[r].state = "DELETED" /\ Past(r) /\ r \notin remote

Sending(i) == pc[i] \in {"intent", "transfer", "named"}
Working(i) == pc[i] \in {"open", "intent", "transfer", "named", "posted"}
Deleting(a) == pc[a] \in {"reclaim", "deleting", "confirm", "retry"}

RowSound(r) ==
    /\ row[r].state = "none" => row[r] = NoRow
    /\ row[r].state # "none" =>
          row[r].by \in Invocation /\ row[r].account = AccountOf[row[r].by]
    /\ row[r].state \in Active => row[r].owner = row[r].by
    /\ row[r].known => Past(r)

MediaSound ==
    /\ \A r \in remote \cup inflight : Tracked(r)
    /\ remote \cap inflight = {}

\* What an invocation holds, and what it may conclude of it while it works.
HoldSound(i) ==
    /\ pc[i] \in {"idle", "done"} => held[i] = {}
    /\ \A r \in held[i] : row[r].by = i
    /\ Sending(i) => target[i] \in held[i]
    /\ pc[i] = "intent" => target[i] \notin remote \cup inflight
    /\ pc[i] = "named" => Past(target[i])
    /\ \A r \in held[i] :
          row[r].state \in Active /\ (row[r].known \/ (pc[i] = "named" /\ r = target[i]))
             => r \in remote
    /\ Working(i) => \A r \in held[i] :
          /\ row[r].owner = i => row[r].state \in Active
          /\ row[r].state \in Active => row[r].known \/ (Sending(i) /\ r = target[i])

\* What an actor deletes was claimed, and is confirmed only when it is gone.
DeletionSound(a) ==
    /\ Deleting(a) => target[a] \in Record /\ Past(target[a])
                      /\ row[target[a]].state \notin Active
    /\ pc[a] = "confirm" => target[a] \notin remote

OutcomeSound(i) ==
    /\ pc[i] = "idle" \/ Working(i) => outcome[i] = "running"
    /\ outcome[i] = "succeeded" => held[i] = {}
    /\ outcome[i] # "failed" =>
          \A r \in Record : row[r].by = i => r \in held[i] \/ Settled(r)

MediaInv ==
    /\ TypeOK
    /\ \A r \in Record : RowSound(r)
    /\ MediaSound
    /\ \A i \in Invocation : HoldSound(i) /\ OutcomeSound(i)
    /\ \A a \in Actor : DeletionSound(a)
    /\ OneUploaderPerCredential

----------------------------------------------------------------------------
(* What a step of one actor does to the rows and media of the others.      *)

\* Row r as actor x leaves it.  Nobody stands for the clock and the owner.
Moves(r, x) ==
    /\ row'[r].state # "none"
    /\ row'[r].by = row[r].by /\ row'[r].account = row[r].account
    /\ row'[r].owner \in {row[r].owner, x}
    /\ row'[r].state \in Active => /\ row[r].state \in Active
                                   /\ row'[r].owner = row[r].owner
                                   /\ row[r].known => row'[r].known
    /\ row[r].state \in Active /\ row'[r].state \notin Active => row'[r].owner = x
    /\ row[r].state = "DELETED" => row'[r].state = "DELETED"
    /\ row'[r].known => row[r].known \/ (x \in Invocation /\ pc[x] = "named" /\ r = target[x])

Created(r, x) ==
    /\ x \in Invocation
    /\ row'[r].state = "UPLOADING" /\ ~row'[r].known
    /\ row'[r].by = x /\ row'[r].owner = x /\ row'[r].account = AccountOf[x]

RowsMove(x) ==
    \A r \in Record : IF row[r].state # "none" THEN Moves(r, x)
                      ELSE row'[r] = row[r] \/ Created(r, x)

\* Bytes are sent only by who intended to, and arrive only if they were sent.
Sends ==
    /\ \A r \in inflight' : r \in inflight
                            \/ \E i \in Invocation : pc[i] = "intent" /\ target[i] = r
    /\ remote' \subseteq remote \cup inflight
    /\ \A i \in Invocation : pc'[i] = "intent" =>
          row[target'[i]].state = "none" \/ (pc[i] = "intent" /\ target'[i] = target[i])

RemoteKept(x) ==
    \A r \in remote \ remote' : row[r].state \notin Active \/ row[r].by = x

OthersRest(x) ==
    /\ \A a \in Actor \ {x} : pc'[a] = pc[a] /\ target'[a] = target[a]
    /\ \A i \in Invocation \ {x} : held'[i] = held[i] /\ outcome'[i] = outcome[i]

LEMMA PastLasts ==
    ASSUME NEW x, RowsMove(x), Sends, NEW r \in Record, Past(r)
    PROVE  /\ Past(r)'
           /\ r \notin remote => r \notin remote'
           /\ Settled(r) => Settled(r)'
<1>1. row[r].state # "none" /\ r \notin inflight
      /\ \A i \in Invocation : pc[i] = "intent" => target[i] # r
  BY DEF Past
<1>2. Moves(r, x)
  BY <1>1 DEF RowsMove
<1>3. Past(r)'
  <2>1. row'[r].state # "none"
    BY <1>2 DEF Moves
  <2>2. r \notin inflight'
    BY <1>1 DEF Sends
  <2>3. \A i \in Invocation : pc'[i] = "intent" => target'[i] # r
    BY <1>1 DEF Sends
  <2> QED BY <2>1, <2>2, <2>3 DEF Past
<1>4. r \notin remote => r \notin remote'
  BY <1>1 DEF Sends
<1> QED BY <1>2, <1>3, <1>4 DEF Settled, Moves

LEMMA DeletionRests ==
    ASSUME NEW x, RowsMove(x), Sends, NEW a, DeletionSound(a),
           pc'[a] = pc[a], target'[a] = target[a]
    PROVE  DeletionSound(a)'
<1>1. CASE ~Deleting(a)
  BY <1>1 DEF DeletionSound, Deleting
<1>2. CASE Deleting(a)
  <2> DEFINE t == target[a]
  <2>1. t \in Record /\ Past(t) /\ row[t].state \notin Active
    BY <1>2 DEF DeletionSound
  <2>2. Moves(t, x)
    BY <2>1 DEF RowsMove, Past
  <2>3. row'[t].state \notin Active
    BY <2>1, <2>2 DEF Moves
  <2>4. Past(t)' /\ (t \notin remote => t \notin remote')
    BY <2>1, PastLasts
  <2> QED BY <2>1, <2>3, <2>4 DEF DeletionSound
<1> QED BY <1>1, <1>2

LEMMA RowsStaySound ==
    ASSUME MediaInv, NEW x, RowsMove(x), Sends
    PROVE  \A r \in Record : RowSound(r)'
<1> SUFFICES ASSUME NEW r \in Record
             PROVE  RowSound(r)'
  OBVIOUS
<1>1. RowSound(r)
  BY DEF MediaInv
<1>2. CASE row[r].state # "none"
  <2>1. Moves(r, x)
    BY <1>2 DEF RowsMove
  <2>2. row'[r].known => Past(r)'
    <3>1. CASE row[r].known
      BY <3>1, <1>1, PastLasts DEF RowSound
    <3>2. CASE x \in Invocation /\ pc[x] = "named" /\ r = target[x]
      <4>1. Past(r)
        BY <3>2 DEF MediaInv, HoldSound
      <4> QED BY <4>1, PastLasts
    <3> QED BY <3>1, <3>2, <2>1 DEF Moves
  <2> QED BY <1>1, <1>2, <2>1, <2>2 DEF RowSound, Moves
<1>3. CASE row[r].state = "none" /\ row'[r] = row[r]
  <2>1. row[r] = NoRow /\ row'[r] = NoRow
    BY <1>1, <1>3 DEF RowSound
  <2> QED BY <2>1 DEF RowSound, NoRow, Active
<1>4. CASE Created(r, x)
  BY <1>4 DEF Created, RowSound
<1> QED BY <1>2, <1>3, <1>4 DEF RowsMove

LEMMA HoldRests ==
    ASSUME MediaInv, NEW x, RowsMove(x), Sends, RemoteKept(x), OthersRest(x),
           NEW i \in Invocation, i # x,
           pc[i] = "intent" => target[i] \notin remote' \cup inflight'
    PROVE  HoldSound(i)' /\ OutcomeSound(i)'
<1>1. /\ pc'[i] = pc[i] /\ target'[i] = target[i]
      /\ held'[i] = held[i] /\ outcome'[i] = outcome[i]
  BY DEF OthersRest, Actor
<1>2. HoldSound(i) /\ OutcomeSound(i) /\ held[i] \subseteq Record
  BY DEF MediaInv, TypeOK
<1>3. ASSUME NEW r \in held[i]
      PROVE  /\ r \in Record /\ row[r].by = i /\ Moves(r, x)
             /\ row'[r].known => row[r].known
  <2>1. r \in Record /\ row[r].by = i
    BY <1>2 DEF HoldSound
  <2>2. row[r].state # "none"
    <3>1. i # Nobody
      BY MediaAssumption DEF Actor
    <3> QED BY <2>1, <3>1 DEF MediaInv, RowSound, NoRow
  <2>3. Moves(r, x)
    BY <2>1, <2>2 DEF RowsMove
  <2>4. row'[r].known => row[r].known
    <3> SUFFICES ASSUME x \in Invocation, pc[x] = "named", r = target[x]
                 PROVE  FALSE
      BY <2>3 DEF Moves
    <3>1. r \in held[x]
      BY DEF MediaInv, HoldSound, Sending
    <3>2. row[r].by = x
      BY <3>1 DEF MediaInv, HoldSound
    <3> QED BY <2>1, <3>2
  <2> QED BY <2>1, <2>3, <2>4
<1>4. \A r \in held[i] : row'[r].by = i
  BY <1>3 DEF Moves
<1>5. pc[i] = "named" => Past(target[i])'
  <2> SUFFICES ASSUME pc[i] = "named"
               PROVE  Past(target[i])'
    OBVIOUS
  <2>1. PICK t \in Record : t = target[i] /\ Past(t)
    BY <1>2 DEF HoldSound, Sending
  <2>2. Past(t)'
    BY <2>1, PastLasts
  <2>3. Past(target[i])' <=> Past(t)'
    BY <1>1, <2>1 DEF Past
  <2> QED BY <2>2, <2>3
<1>6. \A r \in held[i] :
         row'[r].state \in Active /\ (row'[r].known \/ (pc[i] = "named" /\ r = target[i]))
            => r \in remote'
  <2> SUFFICES ASSUME NEW r \in held[i], row'[r].state \in Active,
                      row'[r].known \/ (pc[i] = "named" /\ r = target[i])
               PROVE  r \in remote'
    OBVIOUS
  <2>1. row[r].state \in Active
    BY <1>3 DEF Moves
  <2>2. r \in remote
    BY <1>2, <1>3, <2>1 DEF HoldSound
  <2> QED BY <1>3, <2>1, <2>2 DEF RemoteKept
<1>7. Working(i) => \A r \in held[i] :
         /\ row'[r].owner = i => row'[r].state \in Active
         /\ row'[r].state \in Active => row'[r].known \/ (Sending(i) /\ r = target[i])
  <2> SUFFICES ASSUME Working(i), NEW r \in held[i]
               PROVE  /\ row'[r].owner = i => row'[r].state \in Active
                      /\ row'[r].state \in Active =>
                            row'[r].known \/ (Sending(i) /\ r = target[i])
    OBVIOUS
  <2>1. /\ row[r].owner = i => row[r].state \in Active
        /\ row[r].state \in Active => row[r].known \/ (Sending(i) /\ r = target[i])
    BY <1>2 DEF HoldSound
  <2> QED BY <1>3, <2>1 DEF Moves
<1>8. HoldSound(i)'
  BY <1>1, <1>2, <1>4, <1>5, <1>6, <1>7 DEF HoldSound, Sending, Working
<1>9. OutcomeSound(i)'
  <2>1. ASSUME outcome[i] # "failed", NEW r \in Record, row'[r].by = i
        PROVE  r \in held[i] \/ Settled(r)'
    <3>1. row[r].by = i
      BY <2>1 DEF RowsMove, Moves, Created
    <3>2. CASE r \in held[i]
      BY <3>2
    <3>3. CASE Settled(r)
      BY <3>3, PastLasts DEF Settled
    <3> QED BY <1>2, <2>1, <3>1, <3>2, <3>3 DEF OutcomeSound
  <2> QED BY <1>1, <1>2, <2>1 DEF OutcomeSound, Working
<1> QED BY <1>8, <1>9

\* A step of x preserves the invariant if it leaves the rest as it should
\* and what x itself knows holds again.
LEMMA StepPreserves ==
    ASSUME MediaInv, TypeOK', NEW x, RowsMove(x), Sends, RemoteKept(x), OthersRest(x),
           MediaSound', OneUploaderPerCredential',
           \A i \in Invocation \ {x} :
              pc[i] = "intent" => target[i] \notin remote' \cup inflight',
           x \in Invocation => HoldSound(x)' /\ OutcomeSound(x)',
           x \in Actor => DeletionSound(x)'
    PROVE  MediaInv'
<1>1. \A r \in Record : RowSound(r)'
  BY RowsStaySound
<1>2. \A i \in Invocation : HoldSound(i)' /\ OutcomeSound(i)'
  BY HoldRests
<1>3. \A a \in Actor : DeletionSound(a)'
  <2> SUFFICES ASSUME NEW a \in Actor, a # x
               PROVE  DeletionSound(a)'
    OBVIOUS
  <2>1. DeletionSound(a) /\ pc'[a] = pc[a] /\ target'[a] = target[a]
    BY DEF MediaInv, OthersRest
  <2> QED BY <2>1, DeletionRests
<1> QED BY <1>1, <1>2, <1>3 DEF MediaInv

----------------------------------------------------------------------------
(* Rows as the repository writes them.                                     *)

LEMMA RowWritten ==
    ASSUME TypeOK, NEW r \in Record, NEW new \in Row, Put(r, new)
    PROVE  /\ row' \in [Record -> Row]
           /\ row'[r] = new /\ \A s \in Record \ {r} : row'[s] = row[s]
           /\ older' \subseteq Record \X Record /\ reviewed' \subseteq Record
<1>1. row \in [Record -> Row] /\ older \subseteq Record \X Record /\ reviewed \subseteq Record
  BY DEF TypeOK
<1> QED BY <1>1 DEF Put, Write, Touched

\* Every row an action writes over an old one.
LEMMA RowFields ==
    ASSUME NEW o \in Row, NEW a \in Actor
    PROVE  /\ LET n == [o EXCEPT !.state = "DELETED", !.reason = "NOT_UPLOADED",
                                 !.lease = "none", !.due = FALSE]
              IN  /\ n \in Row /\ n.by = o.by /\ n.account = o.account /\ n.owner = o.owner
                  /\ n.known = o.known /\ n.state = "DELETED"
           /\ LET n == [o EXCEPT !.state = "IN_USE", !.known = TRUE, !.lease = "live"]
              IN  /\ n \in Row /\ n.by = o.by /\ n.account = o.account /\ n.owner = o.owner
                  /\ n.known /\ n.state = "IN_USE" /\ n.reason = o.reason
           /\ LET n == [o EXCEPT !.lease = "live"]
              IN  /\ n \in Row /\ n.by = o.by /\ n.account = o.account /\ n.owner = o.owner
                  /\ n.known = o.known /\ n.state = o.state /\ n.reason = o.reason
           /\ LET n == [o EXCEPT !.state = "DELETE_PENDING", !.lease = "none",
                                 !.reason = "DELETION_REQUIRED", !.due = TRUE]
              IN  /\ n \in Row /\ n.by = o.by /\ n.account = o.account /\ n.owner = o.owner
                  /\ n.known = o.known /\ n.state = "DELETE_PENDING"
           /\ LET n == [o EXCEPT !.state = "MANUAL_REVIEW", !.lease = "none",
                                 !.reason = "UNKNOWN_UPLOAD", !.due = FALSE]
              IN  /\ n \in Row /\ n.by = o.by /\ n.account = o.account /\ n.owner = o.owner
                  /\ n.known = o.known /\ n.state = "MANUAL_REVIEW"
           /\ LET n == [o EXCEPT !.state = "DELETE_PENDING", !.owner = a, !.lease = "live",
                                 !.due = TRUE, !.reason = "DELETION_REQUIRED"]
              IN  /\ n \in Row /\ n.by = o.by /\ n.account = o.account /\ n.owner = a
                  /\ n.known = o.known /\ n.state = "DELETE_PENDING"
BY DEF Row, State, Active, Reason

----------------------------------------------------------------------------
(* Steps that start no upload and send nothing.                            *)

Rewrites(x) ==
    \A r \in Record : row'[r] = row[r] \/ (row[r].state # "none" /\ Moves(r, x))

Calm(x) ==
    /\ Rewrites(x)
    /\ inflight' = inflight /\ remote' \subseteq remote /\ RemoteKept(x)
    /\ OthersRest(x)
    /\ x \in Actor => pc'[x] # "intent"

LEMMA CalmMoves ==
    ASSUME NEW x, Calm(x)
    PROVE  RowsMove(x) /\ Sends
<1>1. ASSUME NEW r \in Record, row'[r] = row[r], row[r].state # "none"
      PROVE  Moves(r, x)
  BY <1>1 DEF Moves
<1>2. RowsMove(x)
  BY <1>1 DEF Calm, Rewrites, RowsMove
<1>3. Sends
  BY DEF Calm, OthersRest, Sends, Actor
<1> QED BY <1>2, <1>3

LEMMA CalmStep ==
    ASSUME MediaInv, TypeOK', NEW x, Calm(x),
           \A r \in remote' \cup inflight : Tracked(r) => Tracked(r)',
           x \in Invocation => HoldSound(x)' /\ OutcomeSound(x)',
           x \in Actor => DeletionSound(x)'
    PROVE  MediaInv'
<1>1. RowsMove(x) /\ Sends
  BY CalmMoves
<1>2. MediaSound'
  BY DEF MediaInv, MediaSound, Calm
<1>3. OneUploaderPerCredential'
  <2>1. \A r \in Record : /\ row'[r].by = row[r].by /\ row'[r].account = row[r].account
                          /\ row[r].state = "DELETED" => row'[r].state = "DELETED"
    BY DEF Calm, Rewrites, Moves
  <2> QED BY <2>1 DEF MediaInv, OneUploaderPerCredential
<1>4. \A i \in Invocation \ {x} : pc[i] = "intent" => target[i] \notin remote' \cup inflight'
  BY DEF MediaInv, HoldSound, Calm
<1> QED BY <1>1, <1>2, <1>3, <1>4, StepPreserves DEF Calm

Ending == {"cleanup", "reclaim", "deleting", "confirm", "retry"}

\* An invocation on its way out knows little, and reports what it has lost.
LEMMA EndingIsSound ==
    ASSUME MediaInv, NEW x \in Invocation, Calm(x), pc'[x] \in Ending,
           held'[x] \subseteq held[x],
           pc[x] # "named" \/ row' = row,
           \A r \in held'[x] : r \in remote /\ row'[r].state \in Active => r \in remote',
           \/ outcome'[x] = "failed"
           \/ /\ outcome'[x] = outcome[x] \/ (outcome'[x] = "answered" /\ outcome[x] = "running")
              /\ \A r \in held[x] \ held'[x] : Settled(r)'
    PROVE  HoldSound(x)' /\ OutcomeSound(x)'
<1>1. RowsMove(x) /\ Sends
  BY CalmMoves
<1>2. HoldSound(x) /\ OutcomeSound(x) /\ held[x] \subseteq Record
  BY DEF MediaInv, TypeOK
<1>3. \A r \in held'[x] : row'[r].by = x
  BY <1>2 DEF HoldSound, Calm, Rewrites, Moves
<1>4. ASSUME NEW r \in held'[x], row'[r].state \in Active, row'[r].known
      PROVE  r \in remote'
  <2>1. row[r].state \in Active /\ row[r].known
    BY <1>2, <1>4 DEF Calm, Rewrites, Moves
  <2> QED BY <1>2, <1>4, <2>1 DEF HoldSound
<1>5. HoldSound(x)'
  BY <1>3, <1>4 DEF HoldSound, Ending, Sending, Working
<1>6. ASSUME outcome'[x] # "failed", NEW r \in Record, row'[r].by = x
      PROVE  r \in held'[x] \/ Settled(r)'
  <2>1. outcome[x] # "failed" /\ row[r].by = x
    BY <1>6 DEF Calm, Rewrites, Moves
  <2>2. r \in held[x] \/ Settled(r)
    BY <1>2, <2>1 DEF OutcomeSound
  <2>3. Settled(r) => Settled(r)'
    BY <1>1, PastLasts DEF Settled
  <2> QED BY <1>6, <2>2, <2>3
<1>7. OutcomeSound(x)'
  BY <1>2, <1>6 DEF OutcomeSound, Ending, Working
<1> QED BY <1>5, <1>7

\* An actor leaves its deletion, or was at none.
LEMMA NoDeletion ==
    ASSUME NEW x, ~Deleting(x)'
    PROVE  DeletionSound(x)'
BY DEF DeletionSound, Deleting

LEMMA FaultTypes ==
    ASSUME TypeOK, Fault \/ UNCHANGED faults
    PROVE  failures' \in 0..MaxFailures /\ crashes' \in 0..MaxCrashes
<1>1. MaxFailures \in Nat
  BY MediaAssumption
<1> QED BY <1>1 DEF TypeOK, Fault, faults

----------------------------------------------------------------------------
(* One lemma for each action: what it leaves holds again.                  *)

LEMMA CompletePreserves ==
    ASSUME MediaInv, NEW i \in Invocation, Complete(i)
    PROVE  MediaInv'
<1>1. /\ pc[i] = "idle" /\ pc' = [pc EXCEPT ![i] = "open"]
      /\ UNCHANGED <<table, provider, target, journal, passes, faults>>
      /\ i \in Actor
  BY DEF Complete, Goto, Actor
<1>2. TypeOK'
  BY <1>1 DEF MediaInv, TypeOK, Pc, table, provider, journal, passes, faults
<1>3. pc'[i] = "open" /\ \A a \in Actor \ {i} : pc'[a] = pc[a]
  BY <1>1 DEF MediaInv, TypeOK
<1>4. Calm(i)
  BY <1>1, <1>3 DEF Calm, Rewrites, RemoteKept, OthersRest, table, provider, journal
<1>5. HoldSound(i) /\ OutcomeSound(i) /\ held[i] = {} /\ held'[i] = {}
  BY <1>1 DEF MediaInv, HoldSound, journal
<1>6. HoldSound(i)'
  BY <1>3, <1>5 DEF HoldSound, Sending
<1>7. OutcomeSound(i)'
  <2>1. \A r \in Record : Settled(r) => Settled(r)'
    BY <1>4, CalmMoves, PastLasts DEF Settled
  <2> QED BY <1>1, <1>3, <1>5, <2>1 DEF OutcomeSound, table, journal
<1>8. DeletionSound(i)'
  BY <1>3, NoDeletion DEF Deleting
<1>9. \A r \in remote' \cup inflight : Tracked(r) => Tracked(r)'
  BY <1>1 DEF Tracked, table
<1> QED BY <1>2, <1>4, <1>6, <1>7, <1>8, <1>9, CalmStep

\* The invocation gives up where it is: BeginRefused, LoseTransfer,
\* RegisterRefused and AbortWork.
LEMMA GivingUpPreserves ==
    ASSUME MediaInv, NEW i \in Invocation, pc' = [pc EXCEPT ![i] = "cleanup"],
           outcome' = [outcome EXCEPT ![i] = "failed"],
           UNCHANGED <<table, provider, target, held, named, passes>>,
           Fault \/ UNCHANGED faults
    PROVE  MediaInv'
<1>1. i \in Actor
  BY DEF Actor
<1>2. TypeOK'
  BY <1>1, FaultTypes DEF MediaInv, TypeOK, Pc, table, provider, passes
<1>3. /\ pc'[i] = "cleanup" /\ \A a \in Actor \ {i} : pc'[a] = pc[a]
      /\ outcome'[i] = "failed" /\ \A j \in Invocation \ {i} : outcome'[j] = outcome[j]
  BY <1>1 DEF MediaInv, TypeOK
<1>4. Calm(i)
  BY <1>3 DEF Calm, Rewrites, RemoteKept, OthersRest, table, provider
<1>5. HoldSound(i)' /\ OutcomeSound(i)'
  BY <1>3, <1>4, EndingIsSound DEF Ending, table, provider
<1>6. DeletionSound(i)'
  BY <1>3, NoDeletion DEF Deleting
<1>7. \A r \in remote' \cup inflight : Tracked(r) => Tracked(r)'
  BY DEF Tracked, table
<1> QED BY <1>2, <1>4, <1>5, <1>6, <1>7, CalmStep

LEMMA RefusalsPreserve ==
    ASSUME MediaInv, NEW i \in Invocation,
           BeginRefused(i) \/ LoseTransfer(i) \/ RegisterRefused(i) \/ AbortWork(i)
    PROVE  MediaInv'
<1>1. \A ok \in BOOLEAN : Refused(ok) => Fault \/ UNCHANGED faults
  BY DEF Refused
<1> QED BY <1>1, GivingUpPreserves
        DEF BeginRefused, LoseTransfer, RegisterRefused, AbortWork, Fails, Goto, Refused

LEMMA ReceiveNamePreserves ==
    ASSUME MediaInv, NEW i \in Invocation, ReceiveName(i)
    PROVE  MediaInv'
<1>1. /\ pc[i] = "transfer" /\ target[i] \in remote
      /\ pc' = [pc EXCEPT ![i] = "named"]
      /\ named' = [named EXCEPT ![i] = named[i] \cup {target[i]}]
      /\ UNCHANGED <<table, provider, target, held, outcome, passes, faults>>
      /\ i \in Actor
  BY DEF ReceiveName, Goto, Actor
<1>2. TypeOK'
  BY <1>1 DEF MediaInv, TypeOK, Pc, table, provider, passes, faults
<1>3. pc'[i] = "named" /\ \A a \in Actor \ {i} : pc'[a] = pc[a]
  BY <1>1 DEF MediaInv, TypeOK
<1>4. Calm(i)
  BY <1>1, <1>3 DEF Calm, Rewrites, RemoteKept, OthersRest, table, provider
<1>5. HoldSound(i) /\ OutcomeSound(i) /\ target[i] \in held[i] /\ held[i] \subseteq Record
  BY <1>1 DEF MediaInv, HoldSound, Sending, TypeOK
<1>6. Past(target[i])
  <2>1. target[i] \notin inflight
    BY <1>1 DEF MediaInv, MediaSound
  <2>2. row[target[i]].by = i /\ row[target[i]].state # "none"
    BY <1>5, MediaAssumption DEF HoldSound, MediaInv, RowSound, NoRow, Actor
  <2>3. ASSUME NEW j \in Invocation, pc[j] = "intent", target[j] = target[i]
        PROVE  FALSE
    <3>1. row[target[j]].by = j
      BY <2>3 DEF MediaInv, HoldSound, Sending
    <3> QED BY <3>1, <2>2, <2>3, <1>1
  <2> QED BY <2>1, <2>2, <2>3 DEF Past
<1>7. HoldSound(i)'
  <2>1. PICK t \in Record : t = target[i] /\ Past(t)
    BY <1>5, <1>6
  <2>2. Past(t)'
    BY <1>4, <2>1, CalmMoves, PastLasts
  <2>3. Past(target[i])'
    BY <1>1, <2>1, <2>2 DEF Past
  <2>4. \A r \in held'[i] : row'[r].by = i
    BY <1>1, <1>5 DEF HoldSound, table
  <2>5. \A r \in held'[i] :
           row'[r].state \in Active /\ (row'[r].known \/ r = target'[i]) => r \in remote'
    BY <1>1, <1>5 DEF HoldSound, table, provider
  <2>6. \A r \in held'[i] :
           /\ row'[r].owner = i => row'[r].state \in Active
           /\ row'[r].state \in Active => row'[r].known \/ r = target'[i]
    BY <1>1, <1>5 DEF HoldSound, Working, table
  <2> QED BY <1>1, <1>3, <1>5, <2>3, <2>4, <2>5, <2>6 DEF HoldSound, Sending
<1>8. OutcomeSound(i)'
  <2>1. \A r \in Record : Settled(r) => Settled(r)'
    BY <1>4, CalmMoves, PastLasts DEF Settled
  <2> QED BY <1>1, <1>3, <1>5, <2>1 DEF OutcomeSound, Working, table
<1>9. DeletionSound(i)'
  BY <1>3, NoDeletion DEF Deleting
<1>10. \A r \in remote' \cup inflight : Tracked(r) => Tracked(r)'
  BY <1>1 DEF Tracked, table
<1> QED BY <1>2, <1>4, <1>7, <1>8, <1>9, <1>10, CalmStep

\* A renewal changes nothing of a row but its lease.
SameMedia(r) ==
    /\ row'[r].state = row[r].state /\ row'[r].by = row[r].by
    /\ row'[r].account = row[r].account /\ row'[r].owner = row[r].owner
    /\ row'[r].known = row[r].known /\ row'[r].reason = row[r].reason

LEMMA LeaseField ==
    ASSUME NEW o \in Row, NEW lease \in {"live", "expired"}
    PROVE  LET n == [o EXCEPT !.lease = lease] IN
           /\ n \in Row /\ n.state = o.state /\ n.by = o.by /\ n.account = o.account
           /\ n.owner = o.owner /\ n.known = o.known /\ n.reason = o.reason
BY DEF Row

LEMMA RenewalKeepsRows ==
    ASSUME TypeOK, NEW i \in Invocation, Renewable(i)
    PROVE  /\ Renewed(i) \in [Record -> Row]
           /\ \A r \in Record : /\ Renewed(i)[r].state = row[r].state
                                /\ Renewed(i)[r].by = row[r].by
                                /\ Renewed(i)[r].account = row[r].account
                                /\ Renewed(i)[r].owner = row[r].owner
                                /\ Renewed(i)[r].known = row[r].known
                                /\ Renewed(i)[r].reason = row[r].reason
           /\ \A r \in held[i] : row[r].owner = i
                                 /\ row[r].state \in Active \cup {"DELETE_PENDING"}
<1>1. row \in [Record -> Row] /\ held[i] \subseteq Record
  BY DEF TypeOK
<1>2. ASSUME NEW r \in Record
      PROVE  LET n == Renewed(i)[r] IN
             /\ n \in Row /\ n.state = row[r].state /\ n.by = row[r].by
             /\ n.account = row[r].account /\ n.owner = row[r].owner
             /\ n.known = row[r].known /\ n.reason = row[r].reason
  <2>1. CASE r \in held[i]
    <3>1. Renewed(i)[r] = [row[r] EXCEPT !.lease = "live"]
      BY <2>1 DEF Renewed
    <3>2. row[r] \in Row
      BY <1>1
    <3>3. LET n == [row[r] EXCEPT !.lease = "live"] IN
          /\ n \in Row /\ n.state = row[r].state /\ n.by = row[r].by
          /\ n.account = row[r].account /\ n.owner = row[r].owner
          /\ n.known = row[r].known /\ n.reason = row[r].reason
      BY <3>2, LeaseField
    <3> QED BY <3>1, <3>3
  <2>2. CASE r \notin held[i]
    <3>1. Renewed(i)[r] = row[r]
      BY <2>2 DEF Renewed
    <3> QED BY <1>1, <3>1
  <2> QED BY <2>1, <2>2
<1>3. Renewed(i) \in [Record -> Row]
  <2>1. Renewed(i) = [r \in Record |-> Renewed(i)[r]]
    BY DEF Renewed
  <2> QED BY <1>2, <2>1
<1> QED BY <1>2, <1>3 DEF Renewable, Owned

LEMMA RenewalFacts ==
    ASSUME TypeOK, NEW i \in Invocation, Renew(i)
    PROVE  /\ row' \in [Record -> Row] /\ \A r \in Record : SameMedia(r)
           /\ older' \subseteq Record \X Record /\ reviewed' \subseteq Record
           /\ \A r \in held[i] : row[r].owner = i
                                 /\ row[r].state \in Active \cup {"DELETE_PENDING"}
<1>1. Renewable(i) /\ row' = Renewed(i) /\ older' = Touched(held[i])
      /\ reviewed' = reviewed \ held[i]
  BY DEF Renew, Write
<1>2. older' \subseteq Record \X Record /\ reviewed' \subseteq Record
  BY <1>1 DEF TypeOK, Touched
<1> QED BY <1>1, <1>2, RenewalKeepsRows DEF SameMedia

\* Rows that keep their media are rewritten by nobody.
LEMMA SameMediaRewrites ==
    ASSUME MediaInv, NEW x, \A r \in Record : row'[r] = row[r] \/ (row[r].state # "none" /\ SameMedia(r))
    PROVE  Rewrites(x)
BY DEF Rewrites, Moves, SameMedia

\* Working rows exist.
LEMMA HeldRowsExist ==
    ASSUME MediaInv, NEW i \in Invocation, NEW r \in held[i]
    PROVE  r \in Record /\ row[r].by = i /\ row[r].state # "none"
<1>1. r \in Record /\ row[r].by = i
  BY DEF MediaInv, TypeOK, HoldSound
<1> QED BY <1>1, MediaAssumption DEF MediaInv, RowSound, NoRow, Actor

LEMMA RenewalRewrites ==
    ASSUME MediaInv, NEW i \in Invocation, Renew(i)
    PROVE  \A r \in Record : row'[r] = row[r] \/ (row[r].state # "none" /\ SameMedia(r))
<1>1. \A r \in Record : SameMedia(r)
  BY RenewalFacts DEF MediaInv
<1>2. \A r \in Record \ held[i] : row'[r] = row[r]
  BY DEF Renew, Write, Renewed
<1> QED BY <1>1, <1>2, HeldRowsExist

LEMMA PostPreserves ==
    ASSUME MediaInv, NEW i \in Invocation, Post(i)
    PROVE  MediaInv'
<1>1. /\ pc[i] = "open" /\ Renew(i) /\ pc' = [pc EXCEPT ![i] = "posted"]
      /\ UNCHANGED <<provider, target, journal, passes, faults>>
      /\ i \in Actor
  BY DEF Post, Goto, Actor
<1>2. /\ row' \in [Record -> Row] /\ \A r \in Record : SameMedia(r)
      /\ older' \subseteq Record \X Record /\ reviewed' \subseteq Record
  BY <1>1, RenewalFacts DEF MediaInv
<1>3. TypeOK'
  BY <1>1, <1>2 DEF MediaInv, TypeOK, Pc, provider, journal, passes, faults
<1>4. pc'[i] = "posted" /\ \A a \in Actor \ {i} : pc'[a] = pc[a]
  BY <1>1 DEF MediaInv, TypeOK
<1>5. Calm(i)
  BY <1>1, <1>4, SameMediaRewrites, RenewalRewrites
     DEF Calm, RemoteKept, OthersRest, provider, journal
<1>6. HoldSound(i) /\ OutcomeSound(i) /\ held[i] \subseteq Record
  BY DEF MediaInv, TypeOK
<1>7. HoldSound(i)'
  BY <1>1, <1>2, <1>4, <1>6 DEF HoldSound, Sending, Working, SameMedia, provider, journal
<1>8. OutcomeSound(i)'
  <2>1. \A r \in Record : Settled(r) => Settled(r)'
    BY <1>5, CalmMoves, PastLasts DEF Settled
  <2> QED BY <1>1, <1>2, <1>4, <1>6, <2>1 DEF OutcomeSound, Working, SameMedia, journal
<1>9. DeletionSound(i)'
  BY <1>4, NoDeletion DEF Deleting
<1>10. \A r \in remote' \cup inflight : Tracked(r) => Tracked(r)'
  BY <1>1, <1>2 DEF Tracked, SameMedia, MediaInv, TypeOK, provider
<1> QED BY <1>3, <1>5, <1>7, <1>8, <1>9, <1>10, CalmStep

LEMMA AcceptPreserves ==
    ASSUME MediaInv, NEW i \in Invocation, Accept(i)
    PROVE  /\ MediaInv' /\ held[i] \subseteq remote
           /\ \A j \in Invocation \ {i} : outcome'[j] = outcome[j]
<1>1. /\ pc[i] = "posted" /\ Renew(i) /\ pc' = [pc EXCEPT ![i] = "cleanup"]
      /\ outcome' = [outcome EXCEPT ![i] = "answered"]
      /\ UNCHANGED <<provider, target, held, named, passes, faults>>
      /\ i \in Actor
  BY DEF Accept, Goto, Actor
<1>2. /\ row' \in [Record -> Row] /\ \A r \in Record : SameMedia(r)
      /\ older' \subseteq Record \X Record /\ reviewed' \subseteq Record
      /\ \A r \in held[i] : row[r].owner = i
  BY <1>1, RenewalFacts DEF MediaInv
<1>3. TypeOK'
  BY <1>1, <1>2 DEF MediaInv, TypeOK, Pc, provider, passes, faults
<1>4. /\ pc'[i] = "cleanup" /\ \A a \in Actor \ {i} : pc'[a] = pc[a]
      /\ outcome'[i] = "answered" /\ \A j \in Invocation \ {i} : outcome'[j] = outcome[j]
      /\ outcome[i] = "running"
  BY <1>1 DEF MediaInv, TypeOK, OutcomeSound, Working
<1>5. Calm(i)
  BY <1>1, <1>4, SameMediaRewrites, RenewalRewrites
     DEF Calm, RemoteKept, OthersRest, provider
<1>6. HoldSound(i)' /\ OutcomeSound(i)'
  BY <1>1, <1>4, <1>5, EndingIsSound DEF Ending, provider
<1>7. DeletionSound(i)'
  BY <1>4, NoDeletion DEF Deleting
<1>8. \A r \in remote' \cup inflight : Tracked(r) => Tracked(r)'
  BY <1>1, <1>2 DEF Tracked, SameMedia, MediaInv, TypeOK, provider
<1>9. held[i] \subseteq remote
  BY <1>1, <1>2 DEF MediaInv, HoldSound, Working, Sending
<1> QED BY <1>3, <1>4, <1>5, <1>6, <1>7, <1>8, <1>9, CalmStep

LEMMA StartTransferPreserves ==
    ASSUME MediaInv, NEW i \in Invocation, StartTransfer(i)
    PROVE  MediaInv'
<1>0. PICK t : t = target[i]
  OBVIOUS
<1>1. /\ pc[i] = "intent" /\ Renew(i) /\ pc' = [pc EXCEPT ![i] = "transfer"]
      /\ inflight' = inflight \cup {t}
      /\ UNCHANGED <<remote, target, journal, passes, faults>>
      /\ i \in Actor
  BY <1>0 DEF StartTransfer, Goto, Actor
<1>2. /\ row' \in [Record -> Row] /\ \A r \in Record : SameMedia(r)
      /\ older' \subseteq Record \X Record /\ reviewed' \subseteq Record
      /\ \A r \in held[i] : row[r].state \in Active \cup {"DELETE_PENDING"}
  BY <1>1, RenewalFacts DEF MediaInv
<1>3. t \in held[i] /\ t \notin remote \cup inflight /\ t \in Record /\ row[t].by = i
  BY <1>0, <1>1, HeldRowsExist DEF MediaInv, HoldSound, Sending
<1>4. TypeOK'
  BY <1>1, <1>2, <1>3 DEF MediaInv, TypeOK, Pc, journal, passes, faults
<1>5. pc'[i] = "transfer" /\ \A a \in Actor \ {i} : pc'[a] = pc[a]
  BY <1>1 DEF MediaInv, TypeOK
<1>6. RowsMove(i)
  <2>1. \A r \in Record : row'[r] = row[r] \/ (row[r].state # "none" /\ SameMedia(r))
    BY <1>1, RenewalRewrites
  <2> QED BY <2>1, <1>2 DEF RowsMove, Moves, SameMedia
<1>7. Sends /\ RemoteKept(i) /\ OthersRest(i)
  BY <1>0, <1>1, <1>5 DEF Sends, RemoteKept, OthersRest, Actor, journal
<1>8. MediaSound'
  <2>1. ASSUME NEW r \in remote \cup inflight
        PROVE  Tracked(r)'
    BY <1>2 DEF MediaInv, MediaSound, TypeOK, Tracked, SameMedia
  <2>2. Tracked(t)'
    BY <1>2, <1>3 DEF Tracked, SameMedia
  <2> QED BY <1>1, <1>3, <2>1, <2>2 DEF MediaInv, MediaSound
<1>9. OneUploaderPerCredential'
  BY <1>2 DEF MediaInv, OneUploaderPerCredential, SameMedia
<1>10. \A j \in Invocation \ {i} : pc[j] = "intent" => target[j] \notin remote' \cup inflight'
  <2> SUFFICES ASSUME NEW j \in Invocation \ {i}, pc[j] = "intent"
               PROVE  target[j] \notin remote' \cup inflight'
    OBVIOUS
  <2>1. target[j] \notin remote \cup inflight /\ row[target[j]].by = j
    BY DEF MediaInv, HoldSound, Sending
  <2>2. target[j] # t
    BY <2>1, <1>3
  <2> QED BY <1>1, <2>1, <2>2
<1>11. HoldSound(i)'
  <2>1. HoldSound(i) /\ held[i] \subseteq Record
    BY DEF MediaInv, TypeOK
  <2> QED BY <1>1, <1>2, <1>5, <2>1 DEF HoldSound, Sending, Working, SameMedia, journal
<1>12. OutcomeSound(i)'
  <2>1. \A r \in Record : Settled(r) => Settled(r)'
    BY <1>6, <1>7, PastLasts DEF Settled
  <2>2. OutcomeSound(i)
    BY DEF MediaInv
  <2> QED BY <1>1, <1>2, <1>5, <2>1, <2>2 DEF OutcomeSound, Working, SameMedia, journal
<1>13. DeletionSound(i)'
  BY <1>5, NoDeletion DEF Deleting
<1> QED BY <1>4, <1>6, <1>7, <1>8, <1>9, <1>10, <1>11, <1>12, <1>13, StepPreserves

LEMMA BeginUploadPreserves ==
    ASSUME MediaInv, NEW i \in Invocation, NEW r \in Record, BeginUpload(i, r)
    PROVE  MediaInv'
<1> DEFINE new == [NoRow EXCEPT !.state = "UPLOADING", !.account = AccountOf[i],
                                !.by = i, !.owner = i, !.lease = "live"]
<1>1. /\ pc[i] = "open" /\ row[r] = NoRow /\ Renewable(i) /\ Admitted(i)
      /\ row' = [Renewed(i) EXCEPT ![r] = new]
      /\ older' = Touched(held[i] \cup {r}) /\ reviewed' = reviewed \ (held[i] \cup {r})
      /\ held' = [held EXCEPT ![i] = held[i] \cup {r}]
      /\ target' = [target EXCEPT ![i] = r]
      /\ pc' = [pc EXCEPT ![i] = "intent"]
      /\ UNCHANGED <<provider, named, outcome, passes, faults>>
      /\ i \in Actor
  BY DEF BeginUpload, Write, Goto, Actor
<1>2. /\ new \in Row /\ new.state = "UPLOADING" /\ new.account = AccountOf[i]
      /\ new.by = i /\ new.owner = i /\ new.known = FALSE
  BY <1>1, MediaAssumption DEF NoRow, Row, State, Active, Reason
<1> HIDE DEF new
<1>3. /\ Renewed(i) \in [Record -> Row]
      /\ \A s \in Record : /\ Renewed(i)[s].state = row[s].state
                           /\ Renewed(i)[s].by = row[s].by
                           /\ Renewed(i)[s].account = row[s].account
                           /\ Renewed(i)[s].owner = row[s].owner
                           /\ Renewed(i)[s].known = row[s].known
                           /\ Renewed(i)[s].reason = row[s].reason
  BY <1>1, RenewalKeepsRows DEF MediaInv
<1>4. /\ row' \in [Record -> Row] /\ row'[r] = new
      /\ \A s \in Record \ {r} : SameMedia(s)
  BY <1>1, <1>2, <1>3 DEF SameMedia
<1>5. TypeOK'
  <2>1. older' \subseteq Record \X Record /\ reviewed' \subseteq Record
    BY <1>1 DEF MediaInv, TypeOK, Touched
  <2>2. held' \in [Invocation -> SUBSET Record] /\ target' \in [Actor -> Record \cup {Nobody}]
        /\ pc' \in [Actor -> Pc]
    BY <1>1 DEF MediaInv, TypeOK, Pc
  <2> QED BY <1>1, <1>4, <2>1, <2>2 DEF MediaInv, TypeOK, provider, passes, faults
<1>6. /\ pc'[i] = "intent" /\ target'[i] = r /\ held'[i] = held[i] \cup {r}
      /\ \A a \in Actor \ {i} : pc'[a] = pc[a] /\ target'[a] = target[a]
      /\ \A j \in Invocation \ {i} : held'[j] = held[j]
  BY <1>1 DEF MediaInv, TypeOK
<1>7. row[r].state = "none" /\ r \notin remote \cup inflight
  <2>1. row[r].state = "none" /\ ~Tracked(r)
    BY <1>1 DEF NoRow, Tracked, Active
  <2> QED BY <2>1 DEF MediaInv, MediaSound
<1>8. RowsMove(i)
  <2>1. \A s \in Record \ held[i] : s # r => row'[s] = row[s]
    BY <1>1 DEF Renewed
  <2>2. \A s \in held[i] : row[s].state # "none"
    BY HeldRowsExist
  <2>3. Created(r, i)
    BY <1>2, <1>4 DEF Created
  <2>4. ASSUME NEW s \in Record \ {r}, row[s].state # "none"
        PROVE  Moves(s, i)
    BY <1>4, <2>4 DEF Moves, SameMedia
  <2> QED BY <1>7, <2>1, <2>2, <2>3, <2>4 DEF RowsMove
<1>9. Sends /\ RemoteKept(i) /\ OthersRest(i)
  BY <1>1, <1>6, <1>7 DEF Sends, RemoteKept, OthersRest, Actor, provider
<1>10. MediaSound'
  BY <1>1, <1>4, <1>7 DEF MediaInv, MediaSound, TypeOK, Tracked, SameMedia, provider
<1>11. OneUploaderPerCredential'
  <2>1. ASSUME NEW s \in Record \ {r}, row[s].account = AccountOf[i], row[s].state # "DELETED"
        PROVE  row[s].by = i
    <3>1. row[s].owner = i /\ row[s].state \in Active
      BY <1>1, <2>1 DEF Admitted, Unresolved, Owned
    <3> QED BY <3>1 DEF MediaInv, RowSound
  <2>2. ASSUME NEW s \in Record, NEW q \in Record,
               row'[s].account = row'[q].account, row'[s].account # Nobody,
               row'[s].state # "DELETED", row'[q].state # "DELETED"
        PROVE  row'[s].by = row'[q].by
    <3>1. CASE s # r /\ q # r
      BY <2>2, <3>1, <1>4 DEF MediaInv, OneUploaderPerCredential, SameMedia
    <3>2. CASE s = r /\ q # r
      BY <2>1, <2>2, <3>2, <1>2, <1>4 DEF SameMedia
    <3>3. CASE s # r /\ q = r
      BY <2>1, <2>2, <3>3, <1>2, <1>4 DEF SameMedia
    <3> QED BY <3>1, <3>2, <3>3
  <2> QED BY <2>2 DEF OneUploaderPerCredential
<1>12. \A j \in Invocation \ {i} : pc[j] = "intent" => target[j] \notin remote' \cup inflight'
  BY <1>1 DEF MediaInv, HoldSound, provider
<1>13. HoldSound(i)'
  <2>1. HoldSound(i) /\ held[i] \subseteq Record
    BY DEF MediaInv, TypeOK
  <2>2. ASSUME NEW s \in held[i], s # r
        PROVE  /\ SameMedia(s) /\ row[s].by = i
               /\ row[s].state \in Active /\ row[s].known => s \in remote
               /\ row[s].owner = i => row[s].state \in Active
               /\ row[s].state \in Active => row[s].known
    BY <1>1, <1>4, <2>1, <2>2 DEF HoldSound, Working, Sending
  <2>3. row'[r].by = i /\ ~row'[r].known /\ row'[r].state \in Active
    BY <1>2, <1>4 DEF Active
  <2>4. \A s \in held'[i] : row'[s].by = i
    BY <1>6, <2>2, <2>3 DEF SameMedia
  <2>5. \A s \in held'[i] : row'[s].state \in Active /\ row'[s].known => s \in remote'
    BY <1>1, <1>6, <2>2, <2>3 DEF SameMedia, provider
  <2>6. \A s \in held'[i] : /\ row'[s].owner = i => row'[s].state \in Active
                            /\ row'[s].state \in Active => row'[s].known \/ s = r
    BY <1>6, <2>2, <2>3 DEF SameMedia
  <2> QED BY <1>1, <1>6, <1>7, <2>4, <2>5, <2>6 DEF HoldSound, Sending, provider
<1>14. OutcomeSound(i)'
  <2>1. \A s \in Record : Settled(s) => Settled(s)'
    BY <1>8, <1>9, PastLasts DEF Settled
  <2>2. OutcomeSound(i)
    BY DEF MediaInv
  <2>3. outcome' = outcome /\ outcome[i] = "running"
    BY <1>1, <2>2 DEF OutcomeSound, Working
  <2>4. ASSUME NEW s \in Record, row'[s].by = i
        PROVE  s \in held'[i] \/ Settled(s)'
    <3>1. CASE s = r
      BY <3>1, <1>6
    <3>2. CASE s # r
      <4>1. row[s].by = i
        BY <2>4, <3>2, <1>4 DEF SameMedia
      <4> QED BY <4>1, <2>1, <2>2, <2>3, <1>6 DEF OutcomeSound
    <3> QED BY <3>1, <3>2
  <2> QED BY <2>3, <2>4 DEF OutcomeSound
<1>15. DeletionSound(i)'
  BY <1>6, NoDeletion DEF Deleting
<1> QED BY <1>5, <1>8, <1>9, <1>10, <1>11, <1>12, <1>13, <1>14, <1>15, StepPreserves

\* Row r is overwritten with new, every other row stays.
LEMMA Overwrites ==
    ASSUME MediaInv, NEW x, NEW r \in Record, NEW new \in Row, Put(r, new),
           row[r].state # "none", Moves(r, x)
    PROVE  /\ Rewrites(x)
           /\ row' \in [Record -> Row] /\ row'[r] = new
           /\ \A s \in Record \ {r} : row'[s] = row[s]
           /\ older' \subseteq Record \X Record /\ reviewed' \subseteq Record
<1>1. /\ row' \in [Record -> Row]
      /\ row'[r] = new /\ \A s \in Record \ {r} : row'[s] = row[s]
      /\ older' \subseteq Record \X Record /\ reviewed' \subseteq Record
  BY RowWritten DEF MediaInv
<1> QED BY <1>1 DEF Rewrites

LEMMA AbandonBeforeUploadPreserves ==
    ASSUME MediaInv, NEW i \in Invocation, AbandonBeforeUpload(i)
    PROVE  MediaInv'
<1>0. PICK r : r = target[i]
  OBVIOUS
<1>1. /\ pc[i] = "intent" /\ pc' = [pc EXCEPT ![i] = "cleanup"]
      /\ outcome' = [outcome EXCEPT ![i] = "failed"]
      /\ UNCHANGED <<provider, target, named, passes>>
      /\ i \in Actor
  BY DEF AbandonBeforeUpload, Goto, Actor
<1>2. CASE UNCHANGED <<table, held>> /\ (Fault \/ UNCHANGED faults)
  BY <1>1, <1>2, GivingUpPreserves
<1>3. ASSUME Owned(r, i, {"UPLOADING"}),
             Put(r, [row[r] EXCEPT !.state = "DELETED", !.reason = "NOT_UPLOADED",
                                   !.lease = "none", !.due = FALSE]),
             held' = [held EXCEPT ![i] = held[i] \ {r}],
             UNCHANGED faults
      PROVE  MediaInv'
  <2> DEFINE new == [row[r] EXCEPT !.state = "DELETED", !.reason = "NOT_UPLOADED",
                                   !.lease = "none", !.due = FALSE]
  <2>1. r \in Record /\ row[r] \in Row /\ r \notin remote \cup inflight
    BY <1>0, <1>1, HeldRowsExist DEF MediaInv, HoldSound, Sending, TypeOK
  <2>2. /\ new \in Row /\ new.by = row[r].by /\ new.account = row[r].account
        /\ new.owner = row[r].owner /\ new.known = row[r].known /\ new.state = "DELETED"
    BY <2>1 DEF Row, State, Reason
  <2>3. row[r].state = "UPLOADING" /\ row[r].owner = i
    BY <1>3 DEF Owned
  <2>4. Put(r, new)
    BY <1>3
  <2> HIDE DEF new
  <2>5. row'[r] = new /\ \A s \in Record \ {r} : row'[s] = row[s]
    BY <2>1, <2>2, <2>4, RowWritten DEF MediaInv
  <2>6. Moves(r, i)
    BY <2>2, <2>3, <2>5 DEF Moves, Active
  <2>7. /\ Rewrites(i) /\ row' \in [Record -> Row]
        /\ older' \subseteq Record \X Record /\ reviewed' \subseteq Record
    BY <2>1, <2>2, <2>3, <2>4, <2>6, Overwrites
  <2>8. TypeOK'
    BY <1>1, <1>3, <2>7 DEF MediaInv, TypeOK, Pc, provider, passes, faults
  <2>9. /\ pc'[i] = "cleanup" /\ \A a \in Actor \ {i} : pc'[a] = pc[a]
        /\ outcome'[i] = "failed" /\ \A j \in Invocation \ {i} : outcome'[j] = outcome[j]
        /\ held'[i] = held[i] \ {r} /\ \A j \in Invocation \ {i} : held'[j] = held[j]
    BY <1>1, <1>3 DEF MediaInv, TypeOK
  <2>10. Calm(i)
    BY <1>1, <2>7, <2>9 DEF Calm, RemoteKept, OthersRest, provider
  <2>11. HoldSound(i)' /\ OutcomeSound(i)'
    BY <1>1, <2>9, <2>10, EndingIsSound DEF Ending, provider
  <2>12. DeletionSound(i)'
    BY <2>9, NoDeletion DEF Deleting
  <2>13. \A s \in remote' \cup inflight : Tracked(s) => Tracked(s)'
    BY <1>1, <2>1, <2>5 DEF Tracked, MediaInv, TypeOK, provider
  <2> QED BY <2>8, <2>10, <2>11, <2>12, <2>13, CalmStep
<1> QED BY <1>0, <1>2, <1>3 DEF AbandonBeforeUpload, Refused

LEMMA RegisterResourcePreserves ==
    ASSUME MediaInv, NEW i \in Invocation, RegisterResource(i)
    PROVE  MediaInv'
<1>0. PICK r : r = target[i]
  OBVIOUS
<1> DEFINE new == [row[r] EXCEPT !.state = "IN_USE", !.known = TRUE, !.lease = "live"]
<1>1. /\ pc[i] = "named" /\ pc' = [pc EXCEPT ![i] = "open"]
      /\ row[r].owner = i /\ row[r].state = "UPLOADING" /\ Put(r, new)
      /\ UNCHANGED <<provider, target, journal, passes, faults>>
      /\ i \in Actor
  BY <1>0 DEF RegisterResource, Owned, Goto, Actor
<1>2. r \in Record /\ row[r] \in Row /\ r \in held[i]
  BY <1>0, <1>1, HeldRowsExist DEF MediaInv, HoldSound, Sending, TypeOK
<1>3. /\ new \in Row /\ new.by = row[r].by /\ new.account = row[r].account
      /\ new.owner = row[r].owner /\ new.known /\ new.state = "IN_USE"
  BY <1>2 DEF Row, State, Active
<1> HIDE DEF new
<1>4. row'[r] = new /\ \A s \in Record \ {r} : row'[s] = row[s]
  BY <1>1, <1>2, <1>3, RowWritten DEF MediaInv
<1>5. Moves(r, i)
  BY <1>0, <1>1, <1>3, <1>4 DEF Moves, Active
<1>6. /\ Rewrites(i) /\ row' \in [Record -> Row]
      /\ older' \subseteq Record \X Record /\ reviewed' \subseteq Record
  BY <1>1, <1>2, <1>3, <1>5, Overwrites
<1>7. TypeOK'
  BY <1>1, <1>6 DEF MediaInv, TypeOK, Pc, provider, journal, passes, faults
<1>8. pc'[i] = "open" /\ \A a \in Actor \ {i} : pc'[a] = pc[a]
  BY <1>1 DEF MediaInv, TypeOK
<1>9. Calm(i)
  BY <1>1, <1>6, <1>8 DEF Calm, RemoteKept, OthersRest, provider, journal
<1>10. HoldSound(i) /\ OutcomeSound(i) /\ held[i] \subseteq Record
  BY DEF MediaInv, TypeOK
<1>11. HoldSound(i)'
  <2>1. held'[i] = held[i] /\ remote' = remote
    BY <1>1 DEF journal, provider
  <2>2. r \in remote
    BY <1>0, <1>1, <1>2, <1>10 DEF HoldSound, Active
  <2>3. \A s \in held[i] : row'[s].by = i
    BY <1>3, <1>4, <1>10 DEF HoldSound
  <2>4. \A s \in held[i] : row'[s].state \in Active /\ row'[s].known => s \in remote
    BY <1>4, <1>10, <2>2 DEF HoldSound
  <2>5. \A s \in held[i] : /\ row'[s].owner = i => row'[s].state \in Active
                           /\ row'[s].state \in Active => row'[s].known
    <3>1. ASSUME NEW s \in held[i], s # r
          PROVE  /\ row'[s].owner = i => row'[s].state \in Active
                 /\ row'[s].state \in Active => row'[s].known
      BY <1>0, <1>1, <1>4, <1>10, <3>1 DEF HoldSound, Working, Sending
    <3>2. row'[r].state \in Active /\ row'[r].known
      BY <1>3, <1>4 DEF Active
    <3> QED BY <3>1, <3>2
  <2> QED BY <1>8, <2>1, <2>3, <2>4, <2>5 DEF HoldSound, Sending, Working
<1>12. OutcomeSound(i)'
  <2>1. \A s \in Record : Settled(s) => Settled(s)'
    BY <1>9, CalmMoves, PastLasts DEF Settled
  <2>2. \A s \in Record : row'[s].by = row[s].by
    BY <1>3, <1>4
  <2> QED BY <1>1, <1>8, <1>10, <2>1, <2>2 DEF OutcomeSound, Working, journal
<1>13. DeletionSound(i)'
  BY <1>8, NoDeletion DEF Deleting
<1>14. \A s \in remote' \cup inflight : Tracked(s) => Tracked(s)'
  BY <1>1, <1>3, <1>4 DEF Tracked, Active, MediaInv, TypeOK, provider
<1> QED BY <1>7, <1>9, <1>11, <1>12, <1>13, <1>14, CalmStep

\* A claim takes the row from whoever owned it, for good.
ClaimedBy(r, a) ==
    /\ Rewrites(a) /\ row' \in [Record -> Row]
    /\ older' \subseteq Record \X Record /\ reviewed' \subseteq Record
    /\ \A s \in Record \ {r} : row'[s] = row[s]
    /\ row[r].state # "none"
    /\ row'[r].state \in {"DELETE_PENDING", "MANUAL_REVIEW"}
    /\ row'[r].known = row[r].known

LEMMA ClaimTakesTheRow ==
    ASSUME MediaInv, NEW a \in Actor, NEW r \in Record, Claim(r, a) \/ ClaimUnreadable(r, a)
    PROVE  ClaimedBy(r, a)
<1>1. row[r] \in Row /\ row[r].state \in Active \cup {"DELETE_PENDING"}
  BY DEF MediaInv, TypeOK, Claim, ClaimUnreadable, Eligible
<1>2. ASSUME NEW new \in Row, Put(r, new), new.by = row[r].by, new.account = row[r].account,
             new.owner = a, new.known = row[r].known,
             new.state \in {"DELETE_PENDING", "MANUAL_REVIEW"}
      PROVE  ClaimedBy(r, a)
  <2>1. row'[r] = new /\ \A s \in Record \ {r} : row'[s] = row[s]
    BY <1>2, RowWritten DEF MediaInv
  <2>2. Moves(r, a) /\ row[r].state # "none"
    BY <1>1, <1>2, <2>1 DEF Moves, Active
  <2> QED BY <1>2, <2>1, <2>2, Overwrites DEF ClaimedBy
<1>3. CASE Claim(r, a) /\ row[r].known
  <2> DEFINE new == [row[r] EXCEPT !.state = "DELETE_PENDING", !.owner = a,
                       !.lease = "live", !.due = TRUE, !.reason = "DELETION_REQUIRED"]
  <2>1. /\ new \in Row /\ new.by = row[r].by /\ new.account = row[r].account
        /\ new.owner = a /\ new.known = row[r].known /\ new.state = "DELETE_PENDING"
    BY <1>1 DEF Row, State, Reason
  <2>2. Put(r, new)
    BY <1>3 DEF Claim
  <2> HIDE DEF new
  <2> QED BY <1>2, <2>1, <2>2
<1>4. CASE Claim(r, a) /\ ~row[r].known
  <2> DEFINE new == [row[r] EXCEPT !.state = "MANUAL_REVIEW", !.owner = a,
                       !.lease = "none", !.due = TRUE, !.reason = "UNKNOWN_UPLOAD"]
  <2>1. /\ new \in Row /\ new.by = row[r].by /\ new.account = row[r].account
        /\ new.owner = a /\ new.known = row[r].known /\ new.state = "MANUAL_REVIEW"
    BY <1>1 DEF Row, State, Reason
  <2>2. Put(r, new)
    BY <1>4 DEF Claim
  <2> HIDE DEF new
  <2> QED BY <1>2, <2>1, <2>2
<1>5. CASE ClaimUnreadable(r, a)
  <2> DEFINE new == [row[r] EXCEPT !.state = "MANUAL_REVIEW", !.owner = a,
                       !.lease = "none", !.due = TRUE, !.reason = "UNREADABLE_RESOURCE"]
  <2>1. /\ new \in Row /\ new.by = row[r].by /\ new.account = row[r].account
        /\ new.owner = a /\ new.known = row[r].known /\ new.state = "MANUAL_REVIEW"
    BY <1>1 DEF Row, State, Reason
  <2>2. Put(r, new)
    BY <1>5 DEF ClaimUnreadable
  <2> HIDE DEF new
  <2> QED BY <1>2, <2>1, <2>2
<1> QED BY <1>3, <1>4, <1>5

\* Rows open after a claim, and rows nobody touched, stay tracked.
LEMMA ClaimKeepsTrack ==
    ASSUME NEW a, NEW r \in Record, ClaimedBy(r, a), NEW s \in Record, Tracked(s)
    PROVE  Tracked(s)'
BY DEF ClaimedBy, Tracked

LEMMA RelinquishPreserves ==
    ASSUME MediaInv, NEW i \in Invocation, NEW r \in Record, Relinquish(i, r)
    PROVE  MediaInv'
<1>1. /\ pc[i] = "cleanup" /\ r \in held[i] /\ Owned(r, i, Active)
      /\ target' = [target EXCEPT ![i] = r]
      /\ UNCHANGED <<inflight, named, passes, faults>>
      /\ i \in Actor
  BY DEF Relinquish, Actor
<1>2. /\ row[r] \in Row /\ row[r].state \in Active /\ row[r].owner = i /\ row[r].state # "none"
      /\ row[r].by = i
  BY <1>1, HeldRowsExist DEF Owned, MediaInv, TypeOK
<1>3. /\ target'[i] = r /\ \A a \in Actor \ {i} : target'[a] = target[a]
  BY <1>1 DEF MediaInv, TypeOK
<1>4. CASE row[r].known
  <2> DEFINE new == [row[r] EXCEPT !.state = "DELETE_PENDING", !.lease = "none",
                            !.reason = "DELETION_REQUIRED", !.due = TRUE]
  <2>1. /\ Put(r, new) /\ pc' = [pc EXCEPT ![i] = "reclaim"]
        /\ UNCHANGED <<remote, held, outcome>>
    BY <1>4 DEF Relinquish, Goto
  <2>2. /\ new \in Row /\ new.by = row[r].by /\ new.account = row[r].account
        /\ new.owner = row[r].owner /\ new.known = row[r].known
        /\ new.state = "DELETE_PENDING"
    BY <1>2 DEF Row, State, Reason
  <2> HIDE DEF new
  <2>3. row'[r] = new /\ \A s \in Record \ {r} : row'[s] = row[s]
    BY <2>1, <2>2, RowWritten DEF MediaInv
  <2>4. Moves(r, i)
    BY <1>2, <2>2, <2>3 DEF Moves, Active
  <2>5. /\ Rewrites(i) /\ row' \in [Record -> Row]
        /\ older' \subseteq Record \X Record /\ reviewed' \subseteq Record
    BY <1>2, <2>1, <2>2, <2>4, Overwrites
  <2>6. TypeOK'
    BY <1>1, <2>1, <2>5 DEF MediaInv, TypeOK, Pc, passes, faults
  <2>7. pc'[i] = "reclaim" /\ \A a \in Actor \ {i} : pc'[a] = pc[a]
    BY <1>1, <2>1 DEF MediaInv, TypeOK
  <2>8. Calm(i)
    BY <1>1, <1>3, <2>1, <2>5, <2>7 DEF Calm, RemoteKept, OthersRest
  <2>9. HoldSound(i)' /\ OutcomeSound(i)'
    BY <1>1, <2>1, <2>7, <2>8, EndingIsSound DEF Ending
  <2>10. DeletionSound(i)'
    <3>1. Past(r)
      BY <1>4 DEF MediaInv, RowSound
    <3>2. Past(r)'
      BY <2>8, <3>1, CalmMoves, PastLasts
    <3>3. Past(target[i])'
      BY <1>3, <3>2 DEF Past
    <3> QED BY <1>3, <2>2, <2>3, <2>7, <3>3 DEF DeletionSound, Active
  <2>11. \A s \in remote' \cup inflight : Tracked(s) => Tracked(s)'
    BY <2>2, <2>3, <2>1 DEF Tracked, MediaInv, TypeOK
  <2> QED BY <2>6, <2>8, <2>9, <2>10, <2>11, CalmStep
<1>5. CASE ~row[r].known
  <2> DEFINE new == [row[r] EXCEPT !.state = "MANUAL_REVIEW", !.lease = "none",
                            !.reason = "UNKNOWN_UPLOAD", !.due = FALSE]
  <2>1. /\ Put(r, new) /\ pc' = pc /\ DeleteLocally(i, r)
        /\ held' = [held EXCEPT ![i] = held[i] \ {r}]
        /\ outcome' = [outcome EXCEPT ![i] = "failed"]
    BY <1>5 DEF Relinquish, Drop
  <2>2. /\ new \in Row /\ new.by = row[r].by /\ new.account = row[r].account
        /\ new.owner = row[r].owner /\ new.known = row[r].known
        /\ new.state = "MANUAL_REVIEW"
    BY <1>2 DEF Row, State, Reason
  <2> HIDE DEF new
  <2>3. row'[r] = new /\ \A s \in Record \ {r} : row'[s] = row[s]
    BY <2>1, <2>2, RowWritten DEF MediaInv
  <2>4. Moves(r, i)
    BY <1>2, <2>2, <2>3 DEF Moves, Active
  <2>5. /\ Rewrites(i) /\ row' \in [Record -> Row]
        /\ older' \subseteq Record \X Record /\ reviewed' \subseteq Record
    BY <1>2, <2>1, <2>2, <2>4, Overwrites
  <2>6. remote' \subseteq remote /\ \A s \in remote \ remote' : s = r
    BY <2>1 DEF DeleteLocally
  <2>7. TypeOK'
    BY <1>1, <2>1, <2>5, <2>6 DEF MediaInv, TypeOK, passes, faults
  <2>8. /\ pc'[i] = "cleanup" /\ held'[i] = held[i] \ {r} /\ outcome'[i] = "failed"
        /\ \A j \in Invocation \ {i} : held'[j] = held[j] /\ outcome'[j] = outcome[j]
    BY <1>1, <2>1 DEF MediaInv, TypeOK
  <2>9. Calm(i)
    BY <1>1, <1>2, <1>3, <2>1, <2>5, <2>6, <2>8 DEF Calm, RemoteKept, OthersRest
  <2>10. HoldSound(i)' /\ OutcomeSound(i)'
    BY <1>1, <2>6, <2>8, <2>9, EndingIsSound DEF Ending
  <2>11. DeletionSound(i)'
    BY <2>8, NoDeletion DEF Deleting
  <2>12. \A s \in remote' \cup inflight : Tracked(s) => Tracked(s)'
    BY <2>2, <2>3, <2>6 DEF Tracked, MediaInv, TypeOK
  <2> QED BY <2>7, <2>9, <2>10, <2>11, <2>12, CalmStep
<1> QED BY <1>4, <1>5

\* The invocation drops a record and fails; the row may stay active and the
\* media may or may not be gone.
LEMMA DroppingPreserves ==
    ASSUME MediaInv, NEW i \in Invocation, NEW r \in Record,
           pc[i] \in Ending, pc' = [pc EXCEPT ![i] = "cleanup"],
           held' = [held EXCEPT ![i] = held[i] \ {r}],
           outcome' = [outcome EXCEPT ![i] = "failed"],
           DeleteLocally(i, r) \/ remote' = remote,
           row[r].state \notin Active \/ row[r].by = i,
           UNCHANGED <<table, inflight, target, named, passes>>,
           Fault \/ UNCHANGED faults
    PROVE  MediaInv'
<1>1. i \in Actor
  BY DEF Actor
<1>2. remote' \subseteq remote /\ \A s \in remote \ remote' : s = r
  BY DEF DeleteLocally
<1>3. TypeOK'
  BY <1>1, <1>2, FaultTypes DEF MediaInv, TypeOK, Pc, table, passes
<1>4. /\ pc'[i] = "cleanup" /\ \A a \in Actor \ {i} : pc'[a] = pc[a]
      /\ held'[i] = held[i] \ {r} /\ \A j \in Invocation \ {i} : held'[j] = held[j]
      /\ outcome'[i] = "failed" /\ \A j \in Invocation \ {i} : outcome'[j] = outcome[j]
  BY <1>1 DEF MediaInv, TypeOK
<1>5. Calm(i)
  BY <1>2, <1>4 DEF Calm, Rewrites, RemoteKept, OthersRest, table
<1>6. HoldSound(i)' /\ OutcomeSound(i)'
  BY <1>2, <1>4, <1>5, EndingIsSound DEF Ending, table
<1>7. DeletionSound(i)'
  BY <1>4, NoDeletion DEF Deleting
<1>8. \A s \in remote' \cup inflight : Tracked(s) => Tracked(s)'
  BY DEF Tracked, table
<1> QED BY <1>3, <1>5, <1>6, <1>7, <1>8, CalmStep

LEMMA RelinquishRefusedPreserves ==
    ASSUME MediaInv, NEW i \in Invocation, NEW r \in Record, RelinquishRefused(i, r)
    PROVE  MediaInv'
<1>1. /\ pc[i] = "cleanup" /\ r \in held[i] /\ DeleteLocally(i, r) /\ pc' = pc
      /\ held' = [held EXCEPT ![i] = held[i] \ {r}]
      /\ outcome' = [outcome EXCEPT ![i] = "failed"]
      /\ UNCHANGED <<table, inflight, target, named, passes>>
      /\ Fault \/ UNCHANGED faults
  BY DEF RelinquishRefused, Drop, Refused
<1>2. row[r].by = i
  BY <1>1, HeldRowsExist
<1>3. pc' = [pc EXCEPT ![i] = "cleanup"]
  BY <1>1 DEF MediaInv, TypeOK, Actor
<1> QED BY <1>1, <1>2, <1>3, DroppingPreserves DEF Ending

LEMMA ReclaimPreserves ==
    ASSUME MediaInv, NEW i \in Invocation, Reclaim(i)
    PROVE  MediaInv'
<1>1. PICK r \in Record : r = target[i] /\ Past(r) /\ row[r].state \notin Active
  BY DEF Reclaim, MediaInv, DeletionSound, Deleting, Actor
<1>2. /\ pc[i] = "reclaim" /\ Claim(r, i) /\ pc' = [pc EXCEPT ![i] = "deleting"]
      /\ UNCHANGED <<provider, target, journal, passes, faults>>
      /\ i \in Actor
  BY <1>1 DEF Reclaim, Goto, Actor
<1>3. ClaimedBy(r, i)
  BY <1>2, ClaimTakesTheRow
<1>4. TypeOK'
  BY <1>2, <1>3 DEF MediaInv, TypeOK, Pc, ClaimedBy, provider, journal, passes, faults
<1>5. pc'[i] = "deleting" /\ \A a \in Actor \ {i} : pc'[a] = pc[a]
  BY <1>2 DEF MediaInv, TypeOK
<1>6. Calm(i)
  BY <1>2, <1>3, <1>5 DEF Calm, RemoteKept, OthersRest, ClaimedBy, provider, journal
<1>7. HoldSound(i)' /\ OutcomeSound(i)'
  BY <1>2, <1>5, <1>6, EndingIsSound DEF Ending, provider, journal
<1>8. DeletionSound(i)'
  <2>1. Past(r)' /\ row'[r].state \notin Active
    BY <1>1, <1>3, <1>6, CalmMoves, PastLasts DEF ClaimedBy, Active
  <2>2. Past(target[i])'
    BY <1>1, <1>2, <2>1 DEF Past
  <2> QED BY <1>1, <1>2, <1>5, <2>1, <2>2 DEF DeletionSound
<1>9. \A s \in remote' \cup inflight : Tracked(s) => Tracked(s)'
  BY <1>2, <1>3, ClaimKeepsTrack DEF MediaInv, TypeOK, provider
<1> QED BY <1>4, <1>6, <1>7, <1>8, <1>9, CalmStep

LEMMA ReclaimLostPreserves ==
    ASSUME MediaInv, NEW i \in Invocation, ReclaimLost(i)
    PROVE  MediaInv'
<1>1. PICK r \in Record : r = target[i] /\ Past(r) /\ row[r].state \notin Active
  BY DEF ReclaimLost, MediaInv, DeletionSound, Deleting, Actor
<1>2. /\ pc[i] = "reclaim" /\ pc' = [pc EXCEPT ![i] = "cleanup"]
      /\ held' = [held EXCEPT ![i] = held[i] \ {r}]
      /\ outcome' = [outcome EXCEPT ![i] = "failed"]
      /\ UNCHANGED <<inflight, target, named, passes>>
      /\ i \in Actor
  BY <1>1 DEF ReclaimLost, Drop, Goto, Actor
<1>3. CASE UNCHANGED table /\ (Fault \/ UNCHANGED faults)
                  /\ (DeleteLocally(i, r) \/ remote' = remote)
  BY <1>1, <1>2, <1>3, DroppingPreserves DEF Ending
<1>4. CASE ClaimUnreadable(r, i) /\ Fault /\ UNCHANGED remote
  <2>1. ClaimedBy(r, i)
    BY <1>2, <1>4, ClaimTakesTheRow
  <2>2. TypeOK'
    BY <1>2, <1>4, <2>1, FaultTypes DEF MediaInv, TypeOK, Pc, ClaimedBy, passes
  <2>3. /\ pc'[i] = "cleanup" /\ \A a \in Actor \ {i} : pc'[a] = pc[a]
        /\ held'[i] = held[i] \ {r} /\ \A j \in Invocation \ {i} : held'[j] = held[j]
        /\ outcome'[i] = "failed" /\ \A j \in Invocation \ {i} : outcome'[j] = outcome[j]
    BY <1>2 DEF MediaInv, TypeOK
  <2>4. Calm(i)
    BY <1>2, <1>4, <2>1, <2>3 DEF Calm, RemoteKept, OthersRest, ClaimedBy
  <2>5. HoldSound(i)' /\ OutcomeSound(i)'
    BY <1>2, <1>4, <2>3, <2>4, EndingIsSound DEF Ending
  <2>6. DeletionSound(i)'
    BY <2>3, NoDeletion DEF Deleting
  <2>7. \A s \in remote' \cup inflight : Tracked(s) => Tracked(s)'
    BY <1>4, <2>1, ClaimKeepsTrack DEF MediaInv, TypeOK
  <2> QED BY <2>2, <2>4, <2>5, <2>6, <2>7, CalmStep
<1> QED BY <1>1, <1>3, <1>4 DEF ReclaimLost

LEMMA FinishPreserves ==
    ASSUME MediaInv, NEW i \in Invocation, Finish(i)
    PROVE  MediaInv'
<1>1. /\ pc[i] = "cleanup" /\ held[i] = {} /\ pc' = [pc EXCEPT ![i] = "done"]
      /\ outcome' = [outcome EXCEPT ![i] = IF outcome[i] = "answered" THEN "succeeded"
                                           ELSE "failed"]
      /\ named' = [named EXCEPT ![i] = {}] /\ target' = [target EXCEPT ![i] = Nobody]
      /\ UNCHANGED <<table, provider, held, passes, faults>>
      /\ i \in Actor
  BY DEF Finish, Goto, Actor
<1>2. TypeOK'
  BY <1>1 DEF MediaInv, TypeOK, Pc, table, provider, passes, faults
<1>3. /\ pc'[i] = "done" /\ held'[i] = {}
      /\ \A a \in Actor \ {i} : pc'[a] = pc[a] /\ target'[a] = target[a]
      /\ outcome'[i] = IF outcome[i] = "answered" THEN "succeeded" ELSE "failed"
      /\ \A j \in Invocation \ {i} : outcome'[j] = outcome[j]
  BY <1>1 DEF MediaInv, TypeOK
<1>4. Calm(i)
  BY <1>1, <1>3 DEF Calm, Rewrites, RemoteKept, OthersRest, table, provider
<1>5. HoldSound(i)'
  BY <1>3 DEF HoldSound, Sending, Working
<1>6. OutcomeSound(i)'
  <2>1. \A r \in Record : Settled(r) => Settled(r)'
    BY <1>4, CalmMoves, PastLasts DEF Settled
  <2>2. OutcomeSound(i)
    BY DEF MediaInv
  <2> QED BY <1>1, <1>3, <2>1, <2>2 DEF OutcomeSound, Working, table
<1>7. DeletionSound(i)'
  BY <1>3, NoDeletion DEF Deleting
<1>8. \A r \in remote' \cup inflight : Tracked(r) => Tracked(r)'
  BY <1>1 DEF Tracked, table
<1> QED BY <1>2, <1>4, <1>5, <1>6, <1>7, <1>8, CalmStep

----------------------------------------------------------------------------
(* Deleting a claimed resource.                                            *)

LEMMA DoneFacts ==
    ASSUME MediaInv, NEW a \in Actor, NEW clean \in BOOLEAN, Done(a, clean)
    PROVE  /\ pc' \in [Actor -> Pc] /\ pc'[a] \in {"cleanup", "scan"}
           /\ \A b \in Actor \ {a} : pc'[b] = pc[b]
           /\ held' \in [Invocation -> SUBSET Record]
           /\ outcome' \in [Invocation -> {"running", "answered", "failed", "succeeded"}]
           /\ \A i \in Invocation \ {a} : held'[i] = held[i] /\ outcome'[i] = outcome[i]
           /\ a \in Invocation =>
                 /\ pc'[a] = "cleanup" /\ held'[a] = held[a] \ {target[a]}
                 /\ outcome'[a] = IF clean THEN outcome[a] ELSE "failed"
<1>1. a \in Invocation => a \notin Pass
  BY MediaAssumption
<1> QED BY <1>1 DEF Done, Goto, MediaInv, TypeOK, Pc, Actor

\* An actor at a deletion moves on in it; the provider may have acted.
LEMMA DeletionMoves ==
    ASSUME MediaInv, NEW a \in Actor, pc[a] \in {"deleting", "confirm"},
           NEW at \in {"confirm", "retry"}, pc' = [pc EXCEPT ![a] = at],
           \/ remote' = remote \ {target[a]}
           \/ remote' = remote /\ at = "retry",
           UNCHANGED <<table, inflight, target, journal, passes>>,
           Fault \/ UNCHANGED faults
    PROVE  MediaInv'
<1>1. PICK r \in Record : r = target[a] /\ Past(r) /\ row[r].state \notin Active
  BY DEF MediaInv, DeletionSound, Deleting
<1>2. TypeOK'
  BY FaultTypes DEF MediaInv, TypeOK, Pc, table, journal, passes
<1>3. pc'[a] = at /\ \A b \in Actor \ {a} : pc'[b] = pc[b]
  BY DEF MediaInv, TypeOK
<1>4. Calm(a)
  BY <1>1, <1>3 DEF Calm, Rewrites, RemoteKept, OthersRest, table, journal
<1>5. ASSUME a \in Invocation
      PROVE  HoldSound(a)' /\ OutcomeSound(a)'
  <2>1. at \in Ending /\ pc[a] # "named"
    BY DEF Ending
  <2>2. \A s \in held'[a] : s \in remote /\ row'[s].state \in Active => s \in remote'
    BY <1>1 DEF table
  <2> QED BY <1>3, <1>4, <1>5, <2>1, <2>2, EndingIsSound DEF table, journal
<1>6. DeletionSound(a)'
  <2>1. Past(r)'
    BY <1>1, <1>4, CalmMoves, PastLasts
  <2>2. Past(target[a])'
    BY <1>1, <2>1 DEF Past
  <2> QED BY <1>1, <1>3, <2>2 DEF DeletionSound, table
<1>7. \A s \in remote' \cup inflight : Tracked(s) => Tracked(s)'
  BY DEF Tracked, table
<1> QED BY <1>2, <1>4, <1>5, <1>6, <1>7, CalmStep

\* An actor leaves its record: MarkDeleted, MarkRetry and MarkRetryRefused.
LEMMA LeavingPreserves ==
    ASSUME MediaInv, NEW a \in Actor, Deleting(a), NEW clean \in BOOLEAN, Done(a, clean),
           Rewrites(a), row' \in [Record -> Row],
           older' \subseteq Record \X Record, reviewed' \subseteq Record,
           UNCHANGED <<provider, target, named, passes>>,
           Fault \/ UNCHANGED faults,
           clean => row'[target[a]].state = "DELETED" /\ target[a] \notin remote,
           \A s \in remote \cup inflight : Tracked(s) => Tracked(s)'
    PROVE  MediaInv'
<1>1. PICK r \in Record : r = target[a] /\ Past(r)
  BY DEF MediaInv, DeletionSound
<1>2. /\ pc' \in [Actor -> Pc] /\ pc'[a] \in {"cleanup", "scan"}
      /\ \A b \in Actor \ {a} : pc'[b] = pc[b]
      /\ held' \in [Invocation -> SUBSET Record]
      /\ outcome' \in [Invocation -> {"running", "answered", "failed", "succeeded"}]
      /\ \A i \in Invocation \ {a} : held'[i] = held[i] /\ outcome'[i] = outcome[i]
      /\ a \in Invocation =>
            /\ pc'[a] = "cleanup" /\ held'[a] = held[a] \ {target[a]}
            /\ outcome'[a] = IF clean THEN outcome[a] ELSE "failed"
  BY DoneFacts
<1>3. TypeOK'
  BY <1>2, FaultTypes DEF MediaInv, TypeOK, provider, passes
<1>4. Calm(a)
  BY <1>2 DEF Calm, RemoteKept, OthersRest, provider
<1>5. ASSUME a \in Invocation
      PROVE  HoldSound(a)' /\ OutcomeSound(a)'
  <2>1. pc'[a] \in Ending /\ pc[a] # "named" /\ held'[a] \subseteq held[a]
    BY <1>2, <1>5 DEF Ending, Deleting
  <2>2. clean => Settled(r)'
    <3>1. Past(r)'
      BY <1>1, <1>4, CalmMoves, PastLasts
    <3> QED BY <1>1, <3>1 DEF Settled, provider
  <2>3. \A s \in held[a] \ held'[a] : s = r
    BY <1>1, <1>2, <1>5
  <2> QED BY <1>2, <1>4, <1>5, <2>1, <2>2, <2>3, EndingIsSound DEF provider
<1>6. DeletionSound(a)'
  BY <1>2, NoDeletion DEF Deleting
<1>7. \A s \in remote' \cup inflight : Tracked(s) => Tracked(s)'
  BY DEF provider
<1> QED BY <1>3, <1>4, <1>5, <1>6, <1>7, CalmStep

LEMMA MarkDeletedPreserves ==
    ASSUME MediaInv, NEW a \in Actor, MarkDeleted(a)
    PROVE  MediaInv'
<1>1. PICK r \in Record : r = target[a] /\ Past(r) /\ r \notin remote
  BY DEF MarkDeleted, MediaInv, DeletionSound, Deleting
<1> DEFINE new == [row[r] EXCEPT !.state = "DELETED", !.known = FALSE,
              !.reason = "DELETION_CONFIRMED", !.lease = "none", !.due = FALSE]
<1>2. /\ pc[a] = "confirm" /\ row[r].state = "DELETE_PENDING" /\ row[r].owner = a
      /\ Put(r, new) /\ Done(a, TRUE)
      /\ UNCHANGED <<provider, target, named, passes, faults>>
  BY <1>1 DEF MarkDeleted, Owned
<1>3. /\ new \in Row /\ new.by = row[r].by /\ new.account = row[r].account
      /\ new.owner = row[r].owner /\ new.known = FALSE /\ new.state = "DELETED"
  <2>1. row[r] \in Row
    BY DEF MediaInv, TypeOK
  <2> QED BY <2>1 DEF Row, State, Reason
<1> HIDE DEF new
<1>4. row'[r] = new /\ \A s \in Record \ {r} : row'[s] = row[s]
  BY <1>2, <1>3, RowWritten DEF MediaInv
<1>5. Moves(r, a)
  BY <1>2, <1>3, <1>4 DEF Moves, Active
<1>6. /\ Rewrites(a) /\ row' \in [Record -> Row]
      /\ older' \subseteq Record \X Record /\ reviewed' \subseteq Record
  BY <1>2, <1>3, <1>5, Overwrites
<1>7. \A s \in remote \cup inflight : Tracked(s) => Tracked(s)'
  BY <1>1, <1>4 DEF Tracked, Past, MediaInv, TypeOK
<1> QED BY <1>1, <1>2, <1>3, <1>4, <1>6, <1>7, LeavingPreserves DEF Deleting

LEMMA MarkRetryPreserves ==
    ASSUME MediaInv, NEW a \in Actor, MarkRetry(a)
    PROVE  MediaInv'
<1>1. PICK r \in Record : r = target[a]
  BY DEF MarkRetry, MediaInv, DeletionSound, Deleting
<1> DEFINE new == [row[r] EXCEPT !.reason = "DELETE_FAILED", !.lease = "none", !.due = FALSE]
<1>2. /\ pc[a] = "retry" /\ row[r].state = "DELETE_PENDING" /\ row[r].owner = a
      /\ Put(r, new) /\ Done(a, FALSE)
      /\ UNCHANGED <<provider, target, named, passes, faults>>
  BY <1>1 DEF MarkRetry, Owned
<1>3. /\ new \in Row /\ new.by = row[r].by /\ new.account = row[r].account
      /\ new.owner = row[r].owner /\ new.known = row[r].known /\ new.state = row[r].state
  <2>1. row[r] \in Row
    BY DEF MediaInv, TypeOK
  <2> QED BY <2>1 DEF Row, Reason
<1> HIDE DEF new
<1>4. row'[r] = new /\ \A s \in Record \ {r} : row'[s] = row[s]
  BY <1>2, <1>3, RowWritten DEF MediaInv
<1>5. Moves(r, a)
  BY <1>2, <1>3, <1>4 DEF Moves, Active
<1>6. /\ Rewrites(a) /\ row' \in [Record -> Row]
      /\ older' \subseteq Record \X Record /\ reviewed' \subseteq Record
  BY <1>2, <1>3, <1>5, Overwrites
<1>7. \A s \in remote \cup inflight : Tracked(s) => Tracked(s)'
  BY <1>2, <1>3, <1>4 DEF Tracked, MediaInv, TypeOK
<1> QED BY <1>2, <1>6, <1>7, LeavingPreserves DEF Deleting

LEMMA MarkRetryRefusedPreserves ==
    ASSUME MediaInv, NEW a \in Actor, MarkRetryRefused(a)
    PROVE  MediaInv'
<1>1. /\ pc[a] = "retry" /\ Done(a, FALSE)
      /\ UNCHANGED <<table, provider, target, named, passes>>
      /\ Fault \/ UNCHANGED faults
  BY DEF MarkRetryRefused, Refused
<1>2. /\ Rewrites(a) /\ row' \in [Record -> Row]
      /\ older' \subseteq Record \X Record /\ reviewed' \subseteq Record
  BY <1>1 DEF Rewrites, MediaInv, TypeOK, table
<1>3. \A s \in remote \cup inflight : Tracked(s) => Tracked(s)'
  BY <1>1 DEF Tracked, table
<1> QED BY <1>1, <1>2, <1>3, LeavingPreserves DEF Deleting

LEMMA DeletionStepPreserves ==
    ASSUME MediaInv, NEW a \in Actor, DeletionStep(a)
    PROVE  MediaInv'
<1>1. CASE DeleteRemote(a) \/ DeleteUnconfirmed(a)
  <2>1. CASE DeleteRemote(a)
    BY <2>1, DeletionMoves DEF DeleteRemote, Goto
  <2>2. CASE DeleteUnconfirmed(a)
    BY <2>2, DeletionMoves DEF DeleteUnconfirmed, Goto
  <2> QED BY <1>1, <2>1, <2>2
<1>2. CASE MarkDeletedRefused(a)
  BY <1>2, DeletionMoves DEF MarkDeletedRefused, Goto, Refused, provider
<1>3. CASE MarkDeleted(a) \/ MarkRetry(a) \/ MarkRetryRefused(a)
  BY <1>3, MarkDeletedPreserves, MarkRetryPreserves, MarkRetryRefusedPreserves
<1> QED BY <1>1, <1>2, <1>3 DEF DeletionStep

----------------------------------------------------------------------------
(* Recovery passes, the owner, the provider, the clock and the process.    *)

\* A pass knows nothing but the record it deletes.
LEMMA PassMoves ==
    ASSUME MediaInv, TypeOK', NEW w \in Pass, Rewrites(w),
           UNCHANGED <<provider, journal>>, pc'[w] # "intent",
           \A a \in Actor \ {w} : pc'[a] = pc[a] /\ target'[a] = target[a],
           \A s \in remote \cup inflight : Tracked(s) => Tracked(s)',
           DeletionSound(w)'
    PROVE  MediaInv'
<1>1. w \in Actor /\ w \notin Invocation
  BY MediaAssumption DEF Actor
<1>2. Calm(w)
  BY DEF Calm, RemoteKept, OthersRest, provider, journal
<1> QED BY <1>1, <1>2, CalmStep DEF provider

\* A pass between two records: Scan, EndPass, ClassifyUnknown, SkipCandidate.
LEMMA PassWanders ==
    ASSUME MediaInv, TypeOK', NEW w \in Pass, Rewrites(w),
           UNCHANGED <<provider, journal>>, pc'[w] \in {"idle", "scan"},
           \A a \in Actor \ {w} : pc'[a] = pc[a] /\ target'[a] = target[a],
           \A s \in remote \cup inflight : Tracked(s) => Tracked(s)'
    PROVE  MediaInv'
BY PassMoves, NoDeletion DEF Deleting

LEMMA VisitFacts ==
    ASSUME MediaInv, NEW w \in Pass, NEW r \in Record, Visit(w, r)
    PROVE  /\ pc[w] = "scan" /\ attempted[w] < BatchSize
           /\ listing' \in [Pass -> [todo : SUBSET Record, known : SUBSET Record,
                                     older : SUBSET (Record \X Record)]]
<1>1. pc[w] = "scan" /\ attempted[w] < BatchSize
      /\ listing' = [listing EXCEPT ![w].todo = listing[w].todo \ {r}]
  BY DEF Visit
<1>2. listing \in [Pass -> [todo : SUBSET Record, known : SUBSET Record,
                            older : SUBSET (Record \X Record)]]
  BY DEF MediaInv, TypeOK
<1> QED BY <1>1, <1>2

LEMMA PassStepPreserves ==
    ASSUME MediaInv, NEW w \in Pass, PassStep(w)
    PROVE  MediaInv'
<1>1. w \in Actor /\ BatchSize \in Nat \ {0}
  BY MediaAssumption DEF Actor
<1>2. ASSUME UNCHANGED table
      PROVE  Rewrites(w) /\ \A s \in remote \cup inflight : Tracked(s) => Tracked(s)'
  BY <1>2 DEF Rewrites, Tracked, table
<1>3. CASE Scan(w) \/ EndPass(w)
  <2>2. CASE Scan(w)
    <3>1. /\ pc' = [pc EXCEPT ![w] = "scan"]
          /\ listing' = [listing EXCEPT ![w] =
               [todo |-> Candidates, known |-> {r \in Candidates : row[r].known},
                older |-> older]]
          /\ UNCHANGED <<table, provider, target, journal, attempted, faults>>
      BY <2>2 DEF Scan, Goto
    <3>2. [todo |-> Candidates, known |-> {r \in Candidates : row[r].known}, older |-> older]
             \in [todo : SUBSET Record, known : SUBSET Record,
                  older : SUBSET (Record \X Record)]
      BY DEF Candidates, MediaInv, TypeOK
    <3>3. listing' \in [Pass -> [todo : SUBSET Record, known : SUBSET Record,
                                 older : SUBSET (Record \X Record)]]
      BY <3>1, <3>2 DEF MediaInv, TypeOK
    <3>4. TypeOK'
      BY <1>1, <3>1, <3>3 DEF MediaInv, TypeOK, Pc, table, provider, journal, faults
    <3>5. pc'[w] = "scan" /\ \A a \in Actor \ {w} : pc'[a] = pc[a]
      BY <1>1, <3>1 DEF MediaInv, TypeOK
    <3> QED BY <1>2, <3>1, <3>4, <3>5, PassWanders
  <2>3. CASE EndPass(w)
    <3>1. /\ pc' = [pc EXCEPT ![w] = "idle"] /\ target' = [target EXCEPT ![w] = Nobody]
          /\ listing' = [listing EXCEPT ![w] = NoListing]
          /\ attempted' = [attempted EXCEPT ![w] = 0]
          /\ UNCHANGED <<table, provider, journal, faults>>
      BY <2>3 DEF EndPass, Goto
    <3>2. TypeOK'
      BY <1>1, <3>1 DEF MediaInv, TypeOK, Pc, NoListing, table, provider, journal, faults
    <3>3. /\ pc'[w] = "idle"
          /\ \A a \in Actor \ {w} : pc'[a] = pc[a] /\ target'[a] = target[a]
      BY <1>1, <3>1 DEF MediaInv, TypeOK
    <3> QED BY <1>2, <3>1, <3>2, <3>3, PassWanders
  <2> QED BY <1>3, <2>2, <2>3
<1>4. ASSUME NEW r \in Record, Visit(w, r),
             UNCHANGED <<table, provider, pc, target, journal, attempted>>,
             Fault \/ UNCHANGED faults
      PROVE  MediaInv'
  <2>1. TypeOK'
    BY <1>4, VisitFacts, FaultTypes DEF MediaInv, TypeOK, table, provider, journal
  <2>2. pc'[w] = "scan"
    BY <1>4, VisitFacts
  <2> QED BY <1>2, <1>4, <2>1, <2>2, PassWanders
<1>5. ASSUME NEW r \in Record, Visit(w, r), Claim(r, w) \/ ClaimUnreadable(r, w),
             UNCHANGED <<provider, pc, target, journal, attempted>>,
             Fault \/ UNCHANGED faults
      PROVE  MediaInv'
  <2>1. ClaimedBy(r, w)
    BY <1>1, <1>5, ClaimTakesTheRow
  <2>2. TypeOK'
    BY <1>5, <2>1, VisitFacts, FaultTypes DEF MediaInv, TypeOK, ClaimedBy, provider, journal
  <2>3. pc'[w] = "scan"
    BY <1>5, VisitFacts
  <2>4. \A s \in remote \cup inflight : Tracked(s) => Tracked(s)'
    BY <2>1, ClaimKeepsTrack DEF MediaInv, TypeOK
  <2> QED BY <1>5, <2>1, <2>2, <2>3, <2>4, PassWanders DEF ClaimedBy
<1>6. ASSUME NEW r \in Record, ClaimKnown(w, r)
      PROVE  MediaInv'
  <2>1. /\ Visit(w, r) /\ row[r].known /\ Claim(r, w)
        /\ target' = [target EXCEPT ![w] = r]
        /\ attempted' = [attempted EXCEPT ![w] = attempted[w] + 1]
        /\ pc' = [pc EXCEPT ![w] = "deleting"]
        /\ UNCHANGED <<provider, journal, faults>>
    BY <1>6 DEF ClaimKnown, Goto
  <2>2. ClaimedBy(r, w)
    BY <1>1, <2>1, ClaimTakesTheRow
  <2>3. TypeOK'
    <3>1. attempted[w] \in 0..BatchSize /\ attempted[w] < BatchSize
      BY <2>1, VisitFacts DEF MediaInv, TypeOK
    <3>2. attempted' \in [Pass -> 0..BatchSize]
      BY <1>1, <2>1, <3>1 DEF MediaInv, TypeOK
    <3> QED BY <1>1, <2>1, <2>2, <3>2, VisitFacts
            DEF MediaInv, TypeOK, Pc, ClaimedBy, provider, journal, faults
  <2>4. /\ pc'[w] = "deleting" /\ target'[w] = r
        /\ \A a \in Actor \ {w} : pc'[a] = pc[a] /\ target'[a] = target[a]
    BY <1>1, <2>1 DEF MediaInv, TypeOK
  <2>5. Calm(w)
    BY <2>1, <2>2, <2>4 DEF Calm, RemoteKept, OthersRest, ClaimedBy, provider, journal
  <2>6. DeletionSound(w)'
    <3>1. Past(r)
      BY <2>1 DEF MediaInv, RowSound
    <3>2. Past(r)'
      BY <2>5, <3>1, CalmMoves, PastLasts
    <3>3. Past(target[w])'
      BY <2>4, <3>2 DEF Past
    <3> QED BY <2>2, <2>4, <3>3 DEF DeletionSound, ClaimedBy, Active
  <2>7. \A s \in remote \cup inflight : Tracked(s) => Tracked(s)'
    BY <2>2, ClaimKeepsTrack DEF MediaInv, TypeOK
  <2> QED BY <2>1, <2>2, <2>3, <2>4, <2>6, <2>7, PassMoves DEF ClaimedBy
<1>7. CASE \E r \in Record : ClassifyUnknown(w, r) \/ SkipCandidate(w, r)
  BY <1>5, <1>4, <1>7 DEF ClassifyUnknown, SkipCandidate
<1> QED BY <1>6, <1>3, <1>7 DEF PassStep

\* The owner and the clock touch one row at most, and no medium.
LEMMA QuietStep ==
    ASSUME MediaInv, TypeOK', Rewrites(Nobody),
           UNCHANGED <<provider, pc, target, held, outcome>>,
           \A s \in remote \cup inflight : Tracked(s) => Tracked(s)'
    PROVE  MediaInv'
<1>1. Nobody \notin Actor /\ Nobody \notin Invocation
  BY MediaAssumption DEF Actor
<1>2. Calm(Nobody)
  BY <1>1 DEF Calm, RemoteKept, OthersRest, provider
<1> QED BY <1>1, <1>2, CalmStep DEF provider

LEMMA OwnerAndClockPreserve ==
    ASSUME MediaInv, NEW r \in Record,
           ResolveManual(r) \/ LeaseExpires(r) \/ LeaseOutlived(r) \/ BecomesDue(r)
    PROVE  MediaInv'
<1>1. row[r] \in Row /\ row \in [Record -> Row]
  BY DEF MediaInv, TypeOK
<1>2. CASE ResolveManual(r)
  <2> DEFINE new == [row[r] EXCEPT !.state = "DELETED", !.reason = "MANUALLY_REVIEWED",
                             !.lease = "none", !.due = FALSE]
  <2>1. /\ row[r].state = "MANUAL_REVIEW" /\ Put(r, new)
        /\ UNCHANGED <<provider, pc, target, journal, passes, faults>>
    BY <1>2 DEF ResolveManual
  <2>2. /\ new \in Row /\ new.by = row[r].by /\ new.account = row[r].account
        /\ new.owner = row[r].owner /\ new.known = row[r].known /\ new.state = "DELETED"
        /\ new.reason = "MANUALLY_REVIEWED"
    BY <1>1 DEF Row, State, Reason
  <2> HIDE DEF new
  <2>3. row'[r] = new /\ \A s \in Record \ {r} : row'[s] = row[s]
    BY <2>1, <2>2, RowWritten DEF MediaInv
  <2>4. Moves(r, Nobody)
    BY <2>1, <2>2, <2>3 DEF Moves, Active
  <2>5. /\ Rewrites(Nobody) /\ row' \in [Record -> Row]
        /\ older' \subseteq Record \X Record /\ reviewed' \subseteq Record
    BY <2>1, <2>2, <2>4, Overwrites
  <2>6. TypeOK'
    BY <2>1, <2>5 DEF MediaInv, TypeOK, provider, journal, passes, faults
  <2>7. \A s \in remote \cup inflight : Tracked(s) => Tracked(s)'
    BY <2>2, <2>3 DEF Tracked, MediaInv, TypeOK
  <2> QED BY <2>1, <2>5, <2>6, <2>7, QuietStep DEF journal
<1>3. ASSUME row[r].state # "none", NEW new \in Row, row' = [row EXCEPT ![r] = new],
             new.state = row[r].state, new.by = row[r].by, new.account = row[r].account,
             new.owner = row[r].owner, new.known = row[r].known, new.reason = row[r].reason,
             UNCHANGED <<older, reviewed, provider, pc, target, journal, passes>>,
             Fault \/ UNCHANGED faults
      PROVE  MediaInv'
  <2>1. row' \in [Record -> Row] /\ row'[r] = new /\ \A s \in Record \ {r} : row'[s] = row[s]
    BY <1>1, <1>3
  <2>2. Rewrites(Nobody)
    BY <1>3, <2>1, SameMediaRewrites DEF SameMedia
  <2>3. TypeOK'
    BY <1>3, <2>1, FaultTypes DEF MediaInv, TypeOK, provider, journal, passes
  <2>4. \A s \in Record : Tracked(s) => Tracked(s)'
    BY <1>3, <2>1 DEF Tracked
  <2> QED BY <1>3, <2>2, <2>3, <2>4, QuietStep DEF MediaInv, TypeOK, journal
<1>4. CASE LeaseExpires(r) \/ LeaseOutlived(r)
  <2> DEFINE new == [row[r] EXCEPT !.lease = "expired"]
  <2>1. /\ row[r].lease = "live" /\ row' = [row EXCEPT ![r] = new]
        /\ UNCHANGED <<older, reviewed, provider, pc, target, journal, passes>>
        /\ Fault \/ UNCHANGED faults
    BY <1>4 DEF LeaseExpires, LeaseOutlived, Expire
  <2>2. /\ new \in Row /\ new.state = row[r].state /\ new.by = row[r].by
        /\ new.account = row[r].account /\ new.owner = row[r].owner
        /\ new.known = row[r].known /\ new.reason = row[r].reason
    BY <1>1 DEF Row
  <2> HIDE DEF new
  <2>3. row[r].state # "none"
    BY <2>1 DEF MediaInv, RowSound, NoRow
  <2> QED BY <1>3, <2>1, <2>2, <2>3
<1>5. CASE BecomesDue(r)
  <2> DEFINE new == [row[r] EXCEPT !.due = TRUE]
  <2>1. /\ row[r].state = "DELETE_PENDING" /\ row' = [row EXCEPT ![r] = new]
        /\ UNCHANGED <<older, reviewed, provider, pc, target, journal, passes, faults>>
    BY <1>5 DEF BecomesDue
  <2>2. /\ new \in Row /\ new.state = row[r].state /\ new.by = row[r].by
        /\ new.account = row[r].account /\ new.owner = row[r].owner
        /\ new.known = row[r].known /\ new.reason = row[r].reason
    BY <1>1 DEF Row
  <2> HIDE DEF new
  <2> QED BY <1>3, <2>1, <2>2
<1> QED BY <1>2, <1>4, <1>5

LEMMA ProviderStoresPreserves ==
    ASSUME MediaInv, NEW r \in Record, ProviderStores(r)
    PROVE  MediaInv'
<1>1. Nobody \notin Actor /\ Nobody \notin Invocation
  BY MediaAssumption DEF Actor
<1>2. /\ r \in inflight /\ inflight' = inflight \ {r}
      /\ remote' \in {remote, remote \cup {r}}
      /\ UNCHANGED <<table, pc, target, journal, passes, faults>>
  BY DEF ProviderStores
<1>3. TypeOK'
  BY <1>2 DEF MediaInv, TypeOK, table, journal, passes, faults
<1>4. RowsMove(Nobody) /\ Sends /\ RemoteKept(Nobody) /\ OthersRest(Nobody)
  BY <1>2 DEF RowsMove, Moves, Sends, RemoteKept, OthersRest, table, journal
<1>5. MediaSound'
  BY <1>2 DEF MediaInv, MediaSound, Tracked, table
<1>6. OneUploaderPerCredential'
  BY <1>2 DEF MediaInv, OneUploaderPerCredential, table
<1>7. \A i \in Invocation : pc[i] = "intent" => target[i] \notin remote' \cup inflight'
  BY <1>2 DEF MediaInv, HoldSound
<1> QED BY <1>1, <1>3, <1>4, <1>5, <1>6, <1>7, StepPreserves

LEMMA CrashPreserves ==
    ASSUME MediaInv, Crash
    PROVE  MediaInv'
<1>1. /\ crashes < MaxCrashes /\ crashes' = crashes + 1
      /\ pc' = [a \in Actor |-> IF pc[a] = "idle" \/ a \in Pass THEN "idle" ELSE "done"]
      /\ outcome' = [i \in Invocation |->
                       IF pc[i] \in {"idle", "done"} THEN outcome[i] ELSE "failed"]
      /\ listing' = [w \in Pass |-> NoListing] /\ attempted' = [w \in Pass |-> 0]
      /\ held' = [i \in Invocation |-> {}] /\ named' = [i \in Invocation |-> {}]
      /\ target' = [a \in Actor |-> Nobody]
      /\ UNCHANGED <<table, provider, failures>>
  BY DEF Crash
<1>2. TypeOK'
  <2>1. crashes' \in 0..MaxCrashes /\ BatchSize \in Nat
    BY <1>1, MediaAssumption DEF MediaInv, TypeOK
  <2> QED BY <1>1, <2>1 DEF MediaInv, TypeOK, Pc, NoListing, table, provider
<1>3. \A a \in Actor : pc'[a] \in {"idle", "done"}
  BY <1>1
<1>4. RowsMove(Nobody) /\ Sends
  BY <1>1, <1>3 DEF RowsMove, Moves, Sends, Actor, table, provider
<1>5. \A r \in Record : RowSound(r)'
  BY <1>4, RowsStaySound
<1>6. MediaSound' /\ OneUploaderPerCredential'
  BY <1>1 DEF MediaInv, MediaSound, Tracked, OneUploaderPerCredential, table, provider
<1>7. \A a \in Actor : DeletionSound(a)'
  BY <1>3 DEF DeletionSound, Deleting
<1>8. ASSUME NEW i \in Invocation
      PROVE  HoldSound(i)' /\ OutcomeSound(i)'
  <2>1. i \in Actor /\ pc'[i] \in {"idle", "done"} /\ held'[i] = {} /\ i \notin Pass
    BY <1>1, MediaAssumption DEF Actor
  <2>2. HoldSound(i)'
    BY <2>1 DEF HoldSound, Sending, Working
  <2>3. HoldSound(i) /\ OutcomeSound(i)
    BY DEF MediaInv
  <2>4. \A r \in Record : Settled(r) => Settled(r)'
    BY <1>4, PastLasts DEF Settled
  <2>5. pc'[i] = "idle" => outcome'[i] = "running"
    BY <1>1, <2>1, <2>3 DEF OutcomeSound
  <2>6. ASSUME outcome'[i] # "failed", NEW r \in Record, row'[r].by = i
        PROVE  Settled(r)'
    <3>1. held[i] = {} /\ outcome[i] # "failed" /\ row[r].by = i
      BY <1>1, <2>3, <2>6 DEF HoldSound, table
    <3> QED BY <2>3, <2>4, <3>1 DEF OutcomeSound
  <2>7. OutcomeSound(i)'
    BY <2>1, <2>5, <2>6 DEF OutcomeSound, Working
  <2> QED BY <2>2, <2>7
<1> QED BY <1>2, <1>5, <1>6, <1>7, <1>8 DEF MediaInv

----------------------------------------------------------------------------
LEMMA MediaStarts == ASSUME Init PROVE MediaInv
<1>1. TypeOK
  BY MediaAssumption
     DEF Init, TypeOK, NoRow, NoListing, Row, State, Active, Reason, Pc, Actor
<1>2. \A r \in Record : row[r] = NoRow
  BY DEF Init
<1>3. (\A r \in Record : RowSound(r)) /\ MediaSound /\ OneUploaderPerCredential
  BY <1>2 DEF Init, RowSound, MediaSound, OneUploaderPerCredential, NoRow, Active
<1>4. ASSUME NEW i \in Invocation
      PROVE  HoldSound(i) /\ OutcomeSound(i)
  <2>1. pc[i] = "idle" /\ held[i] = {} /\ outcome[i] = "running" /\ i # Nobody
    BY MediaAssumption DEF Init, Actor
  <2> QED BY <1>2, <2>1 DEF HoldSound, OutcomeSound, Sending, Working, NoRow
<1>5. \A a \in Actor : DeletionSound(a)
  BY DEF Init, DeletionSound, Deleting
<1> QED BY <1>1, <1>3, <1>4, <1>5 DEF MediaInv

LEMMA MediaStep ==
    ASSUME MediaInv, [Next]_vars
    PROVE  MediaInv'
<1>1. ASSUME NEW i \in Invocation, InvocationStep(i)
      PROVE  MediaInv'
  <2>1. ASSUME NEW r \in Record, BeginUpload(i, r) \/ Relinquish(i, r) \/ RelinquishRefused(i, r)
        PROVE  MediaInv'
    BY <2>1, BeginUploadPreserves, RelinquishPreserves, RelinquishRefusedPreserves
  <2>2. CASE BeginRefused(i) \/ LoseTransfer(i) \/ RegisterRefused(i) \/ AbortWork(i)
    BY <2>2, RefusalsPreserve
  <2>3. CASE Complete(i) \/ StartTransfer(i) \/ AbandonBeforeUpload(i) \/ ReceiveName(i)
    BY <2>3, CompletePreserves, StartTransferPreserves, AbandonBeforeUploadPreserves,
       ReceiveNamePreserves
  <2>4. CASE RegisterResource(i) \/ Post(i) \/ Accept(i)
    BY <2>4, RegisterResourcePreserves, PostPreserves, AcceptPreserves
  <2>5. CASE Reclaim(i) \/ ReclaimLost(i) \/ Finish(i)
    BY <2>5, ReclaimPreserves, ReclaimLostPreserves, FinishPreserves
  <2> QED BY <1>1, <2>1, <2>2, <2>3, <2>4, <2>5 DEF InvocationStep
<1>2. CASE Environment
  <2>1. CASE Crash
    BY <2>1, CrashPreserves
  <2>2. ASSUME NEW r \in Record, \/ ResolveManual(r) \/ ProviderStores(r)
                          \/ LeaseExpires(r) \/ LeaseOutlived(r) \/ BecomesDue(r)
        PROVE  MediaInv'
    BY <2>2, OwnerAndClockPreserve, ProviderStoresPreserves
  <2>3. CASE ListPublic
    <3>1. TypeOK' /\ Rewrites(Nobody) /\ \A s \in remote \cup inflight : Tracked(s) => Tracked(s)'
      BY <2>3 DEF ListPublic, MediaInv, TypeOK, Rewrites, Tracked,
                  provider, journal, passes, faults
    <3> QED BY <2>3, <3>1, QuietStep DEF ListPublic, journal
  <2> QED BY <1>2, <2>1, <2>2, <2>3 DEF Environment
<1>3. CASE UNCHANGED vars
  <2>1. TypeOK' /\ Rewrites(Nobody) /\ \A s \in remote \cup inflight : Tracked(s) => Tracked(s)'
    BY <1>3 DEF MediaInv, TypeOK, Rewrites, Tracked,
                vars, table, provider, journal, passes, faults
  <2> QED BY <1>3, <2>1, QuietStep DEF vars, journal
<1> QED BY <1>1, <1>2, <1>3, PassStepPreserves, DeletionStepPreserves DEF Next

\* Only Accept records an answer.
OnlyFails == \A i \in Invocation : outcome'[i] = "answered" => outcome[i] = "answered"

LEMMA OthersTakeNoAnswer ==
    ASSUME MediaInv, NEW a \in Actor,
           \/ a \in Invocation /\ InvocationStep(a) /\ ~Accept(a)
           \/ a \in Pass /\ PassStep(a)
           \/ DeletionStep(a)
           \/ Environment
    PROVE  OnlyFails
<1>1. outcome \in [Invocation -> {"running", "answered", "failed", "succeeded"}]
  BY DEF MediaInv, TypeOK
<1>2. ASSUME a \in Invocation, outcome' = [outcome EXCEPT ![a] = "failed"]
      PROVE  OnlyFails
  BY <1>1, <1>2 DEF OnlyFails
<1>3. CASE outcome' = outcome
  BY <1>3 DEF OnlyFails
<1>4. CASE a \in Invocation /\ InvocationStep(a) /\ ~Accept(a)
  <2>1. CASE \/ Complete(a) \/ StartTransfer(a) \/ ReceiveName(a) \/ RegisterResource(a)
             \/ Post(a) \/ Reclaim(a) \/ \E r \in Record : BeginUpload(a, r)
    BY <2>1, <1>3 DEF Complete, StartTransfer, ReceiveName, RegisterResource, Post, Reclaim,
                      BeginUpload, journal
  <2>2. CASE \/ BeginRefused(a) \/ LoseTransfer(a) \/ RegisterRefused(a) \/ AbortWork(a)
             \/ AbandonBeforeUpload(a) \/ ReclaimLost(a)
             \/ \E r \in Record : RelinquishRefused(a, r)
    BY <2>2, <1>2, <1>4 DEF BeginRefused, LoseTransfer, RegisterRefused, AbortWork,
                      AbandonBeforeUpload, ReclaimLost, RelinquishRefused, Fails
  <2>3. CASE \E r \in Record : Relinquish(a, r)
    BY <2>3, <1>2, <1>3, <1>4 DEF Relinquish
  <2>4. CASE Finish(a)
    <3>1. outcome' = [outcome EXCEPT ![a] = IF outcome[a] = "answered" THEN "succeeded"
                                            ELSE "failed"]
      BY <2>4 DEF Finish
    <3> QED BY <1>1, <1>4, <3>1 DEF OnlyFails
  <2> QED BY <1>4, <2>1, <2>2, <2>3, <2>4 DEF InvocationStep
<1>5. CASE a \in Pass /\ PassStep(a)
  BY <1>5, <1>3 DEF PassStep, Scan, EndPass, ClassifyUnknown, ClaimKnown, SkipCandidate, journal
<1>6. CASE DeletionStep(a)
  <2>1. ASSUME NEW clean \in BOOLEAN, Done(a, clean)
        PROVE  OnlyFails
    <3>1. CASE clean /\ a \in Invocation /\ outcome'[a] = outcome[a]
               /\ \A i \in Invocation \ {a} : outcome'[i] = outcome[i]
      BY <3>1 DEF OnlyFails
    <3>2. CASE ~clean /\ a \in Invocation /\ outcome'[a] = "failed"
               /\ \A i \in Invocation \ {a} : outcome'[i] = outcome[i]
      BY <3>2 DEF OnlyFails
    <3>3. CASE outcome' = outcome
      BY <3>3, <1>3
    <3> QED BY <2>1, <3>1, <3>2, <3>3, DoneFacts DEF Done
  <2>2. CASE DeleteRemote(a) \/ DeleteUnconfirmed(a) \/ MarkDeletedRefused(a)
    BY <2>2, <1>3 DEF DeleteRemote, DeleteUnconfirmed, MarkDeletedRefused, journal
  <2> QED BY <1>6, <2>1, <2>2 DEF DeletionStep, MarkDeleted, MarkRetry, MarkRetryRefused
<1>7. CASE Environment
  <2>1. CASE Crash
    <3>1. outcome' = [i \in Invocation |->
                        IF pc[i] \in {"idle", "done"} THEN outcome[i] ELSE "failed"]
      BY <2>1 DEF Crash
    <3> QED BY <3>1 DEF OnlyFails
  <2>2. CASE ~Crash
    BY <1>7, <2>2, <1>3 DEF Environment, ListPublic, ResolveManual, ProviderStores,
       LeaseExpires, LeaseOutlived, Expire, BecomesDue, journal
  <2> QED BY <2>1, <2>2
<1> QED BY <1>4, <1>5, <1>6, <1>7

\* The rows, the provider's media and what every actor knows of them, in
\* every behaviour of MediaCleanupRepository and its callers.
THEOREM MediaStaysSound == Spec => []MediaInv
<1>1. Init => MediaInv
  BY MediaStarts
<1>2. MediaInv /\ [Next]_vars => MediaInv'
  BY MediaStep
<1> QED BY <1>1, <1>2, PTL DEF Spec

\* Whatever the provider stores or may still receive is named by a row that
\* is open or that the owner closed: begin_upload commits its row before a
\* byte is sent, and a row is closed by confirmation or by the owner only.
THEOREM MediaIsTracked == Spec => []StoredMeansTracked
<1>1. MediaInv => StoredMeansTracked
  BY DEF MediaInv, MediaSound, Tracked, StoredMeansTracked
<1> QED BY <1>1, MediaStaysSound, PTL

\* One credential never carries the unresolved media of two invocations:
\* create refuses while anything of the credential is open but the caller's
\* own active rows, and an active row is its creator's.
THEOREM CredentialsAreExclusive == Spec => []OneUploaderPerCredential
<1>1. MediaInv => OneUploaderPerCredential
  BY DEF MediaInv
<1> QED BY <1>1, MediaStaysSound, PTL

\* An invocation that reports success has deleted every image it sent, and
\* nothing of it can arrive later: cleanup fails the result otherwise.
THEOREM SuccessIsClean == Spec => []SuccessMeansDeleted
<1>1. ASSUME MediaInv, NEW i \in Invocation, outcome[i] = "succeeded",
             NEW r \in Record, row[r].by = i
      PROVE  row[r].state = "DELETED" /\ r \notin remote
  <2>1. HoldSound(i) /\ OutcomeSound(i)
    BY <1>1 DEF MediaInv
  <2>2. r \in held[i] \/ Settled(r)
    BY <1>1, <2>1 DEF OutcomeSound
  <2> QED BY <1>1, <2>1, <2>2 DEF OutcomeSound, Settled
<1>2. MediaInv => SuccessMeansDeleted
  BY <1>1 DEF SuccessMeansDeleted
<1> QED BY <1>2, MediaStaysSound, PTL

\* An answer is taken only if all media it was computed from was stored at
\* that moment: the renewal before it is taken finds every lease unbroken.
THEOREM AnswersUseStoredMedia == Spec => AnswerUsesStoredMedia
<1>1. ASSUME MediaInv, [Next]_vars
      PROVE  TakesAnswerWithMedia
  <2>1. ASSUME NEW i \in Invocation, Accept(i)
        PROVE  TakesAnswerWithMedia
    BY <1>1, <2>1, AcceptPreserves DEF TakesAnswerWithMedia
  <2>2. CASE OnlyFails
    BY <2>2 DEF OnlyFails, TakesAnswerWithMedia
  <2>3. CASE UNCHANGED vars
    BY <2>3 DEF vars, journal, TakesAnswerWithMedia
  <2>4. CASE Next /\ Actor = {}
    BY <2>4 DEF TakesAnswerWithMedia, Actor
  <2>5. CASE Next /\ Actor # {}
    <3>1. CASE Environment
      BY <1>1, <2>2, <2>5, <3>1, OthersTakeNoAnswer
    <3>2. CASE ~Environment
      BY <1>1, <2>1, <2>2, <2>5, <3>2, OthersTakeNoAnswer DEF Next, Actor
    <3> QED BY <3>1, <3>2
  <2> QED BY <1>1, <2>3, <2>4, <2>5
<1>2. MediaInv /\ [Next]_vars => [TakesAnswerWithMedia]_vars
  BY <1>1
<1> QED BY <1>2, MediaStaysSound, PTL DEF Spec, AnswerUsesStoredMedia
=============================================================================
