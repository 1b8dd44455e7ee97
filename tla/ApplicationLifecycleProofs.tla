--------------------- MODULE ApplicationLifecycleProofs ---------------------
(***************************************************************************)
(* An application counts as submitted, tracked or completed only when it   *)
(* is, and the log of a real one ends in its state: for any number of      *)
(* requests, questions and layouts.  What a request has still to do is a   *)
(* queue; the argument is that each step of it finds what it relies on,    *)
(* because it held when the request began or an earlier step brings it     *)
(* about, and that nothing a step relies on is ever taken back.            *)
(*                                                                         *)
(* At the desks of the mail, no message is skipped for good: for any       *)
(* number of requests, connections, messages and expired cursors, and any  *)
(* limit on what a sync may read.  And what is carried out is what the     *)
(* owner approved, and nothing attempted is put before the owner again:    *)
(* for any number of handlers, drafts and plans, and any accounts behind   *)
(* the connections.                                                        *)
(***************************************************************************)
EXTENDS ApplicationLifecycle, TLAPS

Facts == {"job", "simulated", "receipt", "retained", "submitted"}

Holds(f) ==
    /\ f = "job" => source # "none"
    /\ f = "simulated" => source = Simulated
    /\ f = "receipt" => receipt
    /\ f = "retained" => retained
    /\ f = "submitted" => sheet.submitted

(* What the states of the workflow claim. *)
Claims(s, f) ==
    \/ s \in {"SUBMISSION_CONFIRMED", "TRACKING_ACTIVE"} /\ f = "receipt"
    \/ s = "ASSESSMENT_COMPLETED" /\ f = "submitted"

Earned(s) == \A f \in Facts : Claims(s, f) => Holds(f)

Needs(step, f) ==
    \/ step.do # "create" /\ f = "job"
    \/ step.do = "append" /\ f = "simulated"
    \/ step.do \in {"move", "commit"} /\ Claims(step.to, f)
    \/ step.do \in {"commit", "append"} /\ Claims(step.from, f)
    \/ step.do = "save tracked run" /\ f \in {"receipt", "retained"}

Gives(step, f) ==
    \/ step.do = "create" /\ f = "job"
    \/ step.do = "evidence" /\ f = "receipt"
    \/ step.do = "retain" /\ f = "retained"
    \/ step.do = "submit" /\ f = "submitted"

Step ==
    [do : {"create"}, source : {Simulated, "reference-ats"}]
    \cup [do : {"move"}, from : WorkflowStates \cup {"any"}, to : WorkflowStates,
          passed : BOOLEAN]
    \cup [do : {"commit"}, from : WorkflowStates, to : WorkflowStates, passed : BOOLEAN]
    \cup [do : {"append"}, from : WorkflowStates, to : PublicTargets]
    \cup [do : {"visit"}, from : Pages, to : Pages]
    \cup [do : {"stage", "unstage", "save run", "look", "click", "evidence", "retain",
                "stop browser", "save tracked run", "detect", "save snapshot", "expire",
                "enter", "look at review", "submit", "observe", "check"}]

Readers == {"answer", "complete", "refresh", "intervene"}

(* Steps that are never a request's last one, and the requests steps belong to. *)
Unfinished == {"click", "evidence", "enter", "submit", "observe", "check"}

Belongs(do, op) ==
    /\ do \in {"click", "evidence"} => op = "confirm"
    /\ do = "detect" => op = "detect"
    /\ do = "enter" => op = "answer"
    /\ do = "submit" => op = "complete"
    /\ do = "observe" => op = "refresh"
    /\ do = "check" => op = "intervene"
    /\ do \in {"save snapshot", "expire"} => op \in Readers

Queue(q, op) ==
    /\ q # <<>>
    /\ q[Len(q)].do \notin Unfinished
    /\ \A i \in 1..Len(q) : Belongs(q[i].do, op)
    /\ \A i \in 1..Len(q), f \in Facts :
          Needs(q[i], f) => Holds(f) \/ \E j \in 1..(i - 1) : Gives(q[j], f)

(* Every question some layout requires has been answered on the page. *)
Covered == \E l \in Layouts : RequiredOn[l] \subseteq entered

SnapSound(s) ==
    /\ Earned(s.resume)
    /\ s.verified \subseteq entered
    /\ s.kind = "CAPTCHA" => captcha \/ solved
    /\ s.status = "INTERVENTION_REQUIRED" => s.kind = "CAPTCHA"
    /\ s.status \in {"IN_PROGRESS", "REVIEW_REQUIRED"} => s.kind # "CAPTCHA"
    /\ s.status = "REVIEW_REQUIRED" => Covered
    /\ s.status = "COMPLETED" =>
          IF s.kind = "CAPTCHA" THEN solved ELSE sheet.submitted /\ Covered

Record ==
    [op : {"start", "control", "public", "prepare"}, todo : Seq(Step)]
    \cup [op : {"confirm"}, todo : Seq(Step), result : Pages]
    \cup [op : {"detect"}, resume : WorkflowStates, todo : Seq(Step)]
    \cup [op : Readers, read : Snapshot, todo : Seq(Step)]

RecordSound(w) ==
    /\ Queue(w.todo, w.op)
    /\ w.op = "confirm" => (w.result = "confirmation" => receipt)
    /\ w.op = "detect" => Earned(w.resume)
    /\ w.op \in Readers => SnapSound(w.read)
    /\ w.op = "answer" => w.read.kind # "CAPTCHA"
    /\ w.op = "intervene" => w.read.kind = "CAPTCHA"
    /\ w.op = "complete" => w.todo[1].do = "expire" \/ (w.read.kind # "CAPTCHA" /\ Covered)

RequestsSound ==
    /\ work \in [Requests -> Record \cup {Idle}]
    /\ \A r \in Requests, w \in Record : work[r] = w /\ w # Idle => RecordSound(w)

LogSound ==
    /\ state \in WorkflowStates /\ Earned(state)
    /\ last # NoEvent => /\ last.from \in WorkflowStates /\ Earned(last.from)
                         /\ source # Simulated => last.to = state
    /\ source = "none" => last = NoEvent

PortalSound ==
    /\ page \in Pages /\ captcha \in BOOLEAN
    /\ portalRun # "none" => source # "none"
    /\ portalRun = "TRACKING_ACTIVE" => receipt /\ retained

SessionSound ==
    /\ sheet.kind # "CAPTCHA" /\ sheet.layout \in Layouts
    /\ sheet \in [kind : Kinds \cup {"NONE"}, layout : Layouts, submitted : BOOLEAN]
    /\ challenge # NoChallenge => source # "none" /\ challenge \in Snapshot /\ SnapSound(challenge)

ApplicationSound == LogSound /\ PortalSound /\ SessionSound /\ RequestsSound

(* At every other desk there is no application. *)
ApplicationInductive ==
    IF desk \in {"workbench", "portal", "assessment"} THEN ApplicationSound
    ELSE source = "none" /\ state = "DISCOVERED" /\ last = NoEvent /\ portalRun = "none"
         /\ challenge = NoChallenge

-----------------------------------------------------------------------------
(* Nothing a step relies on is taken back. *)
Grown ==
    /\ source # "none" => source' # "none"
    /\ source = Simulated => source' = Simulated
    /\ receipt => receipt'
    /\ retained => retained'
    /\ sheet.submitted => sheet'.submitted
    /\ entered \subseteq entered'
    /\ solved => solved'
    /\ captcha \/ solved => captcha' \/ solved'

LEMMA FactsStand == ASSUME Grown PROVE \A f \in Facts : Holds(f) => Holds(f)'
BY DEF Grown, Facts, Holds

LEMMA EarnedStands == ASSUME Grown PROVE \A s \in WorkflowStates : Earned(s) => Earned(s)'
BY FactsStand DEF Earned, Claims

LEMMA CoverageStands == ASSUME Grown, Covered PROVE Covered'
BY DEF Grown, Covered

LEMMA SnapStands == ASSUME Grown PROVE \A s \in Snapshot : SnapSound(s) => SnapSound(s)'
<1> SUFFICES ASSUME NEW s \in Snapshot, SnapSound(s) PROVE SnapSound(s)'
  OBVIOUS
<1>1. Earned(s.resume)'
  BY EarnedStands DEF SnapSound, Snapshot
<1>2. Covered => Covered'
  BY CoverageStands
<1> QED BY <1>1, <1>2 DEF SnapSound, Grown

LEMMA QueueStands ==
    ASSUME Grown, NEW q \in Seq(Step), NEW op, Queue(q, op)
    PROVE  Queue(q, op)'
BY FactsStand DEF Queue, Needs, Gives, Claims, Belongs

LEMMA RecordStands == ASSUME Grown PROVE \A w \in Record : RecordSound(w) => RecordSound(w)'
<1> SUFFICES ASSUME NEW w \in Record, RecordSound(w) PROVE RecordSound(w)'
  OBVIOUS
<1>1. w.todo \in Seq(Step)
  BY DEF Record
<1>2. Queue(w.todo, w.op)'
  BY <1>1, QueueStands DEF RecordSound
<1>3. w.op = "detect" => Earned(w.resume)'
  <2>1. w.op = "detect" => w.resume \in WorkflowStates
    BY DEF Record, Readers
  <2> QED BY <2>1, EarnedStands DEF RecordSound
<1>4. w.op \in Readers => SnapSound(w.read)'
  <2>1. w.op \in Readers => w.read \in Snapshot
    BY DEF Record, Readers
  <2> QED BY <2>1, SnapStands DEF RecordSound
<1>5. Covered => Covered'
  BY CoverageStands
<1> QED BY <1>2, <1>3, <1>4, <1>5 DEF RecordSound, Grown

(* A request steps: the others keep what they have, and it has its own. *)
LEMMA RequestSteps ==
    ASSUME RequestsSound, Grown, NEW r \in Requests, NEW w \in Record \cup {Idle},
           work' = [work EXCEPT ![r] = w], w # Idle => RecordSound(w)'
    PROVE  RequestsSound'
<1> USE DEF RequestsSound
<1>1. work' \in [Requests -> Record \cup {Idle}]
  OBVIOUS
<1>2. ASSUME NEW s \in Requests, NEW v \in Record, work'[s] = v, v # Idle
      PROVE  RecordSound(v)'
  <2>1. CASE s = r
    BY <2>1, <1>2
  <2>2. CASE s # r
    BY <2>2, <1>2, RecordStands
  <2> QED BY <2>1, <2>2
<1> QED BY <1>1, <1>2

LEMMA RequestsStand ==
    ASSUME RequestsSound, Grown, UNCHANGED work
    PROVE  RequestsSound'
BY RecordStands DEF RequestsSound

LEMMA Serving ==
    ASSUME RequestsSound, NEW r \in Requests, work[r] # Idle
    PROVE  work[r] \in Record /\ RecordSound(work[r])
BY DEF RequestsSound

(* The step at the head of the queue has all that it needs. *)
LEMMA HeadIsReady ==
    ASSUME NEW q \in Seq(Step), NEW op, Queue(q, op)
    PROVE  /\ Len(q) \in Nat \ {0} /\ Head(q) = q[1] /\ Head(q) \in Step
           /\ Belongs(Head(q).do, op)
           /\ \A f \in Facts : Needs(Head(q), f) => Holds(f)
<1>1. Len(q) \in Nat \ {0} /\ Head(q) = q[1] /\ Head(q) \in Step
  BY DEF Queue
<1>2. 1 \in 1..Len(q) /\ 1..(1 - 1) = {}
  BY <1>1
<1> QED BY <1>1, <1>2 DEF Queue

(* Steps that hand something on have one after them. *)
LEMMA RestFollows ==
    ASSUME NEW q \in Seq(Step), NEW op, Queue(q, op), Head(q).do \in Unfinished
    PROVE  Tail(q) \in Seq(Step) /\ Tail(q) # <<>>
<1>1. Len(q) \in Nat \ {0} /\ Head(q) = q[1]
  BY HeadIsReady
<1>2. Len(q) # 1
  BY <1>1 DEF Queue
<1>3. Tail(q) \in Seq(Step) /\ Len(Tail(q)) = Len(q) - 1
  BY <1>1
<1>4. Len(Tail(q)) # 0 /\ Len(<<>>) = 0
  BY <1>1, <1>2, <1>3
<1>5. Tail(q) # <<>>
  BY <1>4
<1> QED BY <1>3, <1>5

(* The head is done, and what it gives holds: the rest is a queue. *)
LEMMA QueueAdvances ==
    ASSUME NEW q \in Seq(Step), NEW op, Queue(q, op), Grown, Tail(q) # <<>>,
           \A f \in Facts : Gives(Head(q), f) => Holds(f)'
    PROVE  Tail(q) \in Seq(Step) /\ Queue(Tail(q), op)'
<1>1. /\ Len(q) \in Nat \ {0} /\ Head(q) = q[1]
      /\ Tail(q) \in Seq(Step) /\ Len(Tail(q)) = Len(q) - 1
      /\ \A i \in 1..(Len(q) - 1) : Tail(q)[i] = q[i + 1]
  BY DEF Queue
<1>2. Len(q) - 1 \in Nat \ {0}
  BY <1>1
<1>3. Tail(q)[Len(Tail(q))] = q[Len(q)]
  BY <1>1, <1>2
<1>4. \A i \in 1..Len(Tail(q)) : Belongs(Tail(q)[i].do, op)
  BY <1>1, <1>2 DEF Queue
<1>5. ASSUME NEW i \in 1..Len(Tail(q)), NEW f \in Facts, Needs(Tail(q)[i], f)
      PROVE  Holds(f)' \/ \E j \in 1..(i - 1) : Gives(Tail(q)[j], f)
  <2>1. i + 1 \in 1..Len(q) /\ Tail(q)[i] = q[i + 1]
    BY <1>1
  <2>2. Holds(f) \/ \E j \in 1..i : Gives(q[j], f)
    BY <2>1, <1>5 DEF Queue
  <2>3. ASSUME NEW j \in 1..i, Gives(q[j], f), j # 1
        PROVE  \E k \in 1..(i - 1) : Gives(Tail(q)[k], f)
    <3>1. j - 1 \in 1..(i - 1) /\ Tail(q)[j - 1] = q[j]
      BY <2>3, <1>1
    <3> QED BY <3>1, <2>3
  <2>4. Gives(q[1], f) => Holds(f)'
    BY <1>1
  <2> QED BY <2>2, <2>3, <2>4, FactsStand
<1> QED BY <1>1, <1>3, <1>4, <1>5 DEF Queue, Needs, Gives, Claims, Belongs

(* A record that goes on with the rest of its queue. *)
LEMMA RecordGoes ==
    ASSUME Grown, NEW w \in Record, RecordSound(w), NEW v \in Record,
           v.op = w.op, v.todo = Tail(w.todo), v.todo # <<>>, Head(w.todo).do # "expire",
           \A f \in Facts : Gives(Head(w.todo), f) => Holds(f)',
           v.op = "confirm" => (v.result = "confirmation" => receipt'),
           v.op = "detect" => v.resume = w.resume,
           v.op \in Readers => SnapSound(v.read)' /\ v.read.kind = w.read.kind
    PROVE  RecordSound(v)'
<1>1. w.todo \in Seq(Step) /\ Queue(w.todo, w.op)
  BY DEF Record, RecordSound
<1>2. Queue(v.todo, v.op)'
  BY <1>1, QueueAdvances
<1>3. w.todo[1].do # "expire"
  BY <1>1, HeadIsReady
<1>4. v.op = "detect" => Earned(v.resume)'
  <2>1. v.op = "detect" => w.resume \in WorkflowStates
    BY DEF Record, Readers
  <2> QED BY <2>1, EarnedStands DEF RecordSound
<1>5. Covered => Covered'
  BY CoverageStands
<1>6. v.op \in {"answer", "intervene", "complete"} =>
         v.read.kind = w.read.kind /\ (w.read.kind # "CAPTCHA" \/ v.op = "intervene")
  BY <1>3 DEF RecordSound, Readers
<1>7. v.op = "intervene" => v.read.kind = "CAPTCHA"
  BY <1>6 DEF RecordSound
<1>8. v.op \in {"answer", "complete"} => v.read.kind # "CAPTCHA"
  BY <1>6
<1>9. v.op = "complete" => Covered'
  BY <1>3, <1>5 DEF RecordSound
<1> QED BY <1>2, <1>4, <1>7, <1>8, <1>9 DEF RecordSound

LEMMA RequestGoesOn ==
    ASSUME RequestsSound, Grown, NEW r \in Requests, work[r] # Idle, Done(r),
           Task(r).do # "expire", \A f \in Facts : Gives(Task(r), f) => Holds(f)'
    PROVE  RequestsSound'
<1>1. PICK w \in Record : w = work[r] /\ RecordSound(w)
  BY Serving
<1>2. CASE Tail(w.todo) = <<>>
  <2>1. work' = [work EXCEPT ![r] = Idle]
    BY <1>1, <1>2 DEF Done, Continue, Finish
  <2> QED BY <2>1, RequestSteps
<1>3. CASE Tail(w.todo) # <<>>
  <2>1. work' = [work EXCEPT ![r] = [w EXCEPT !.todo = Tail(w.todo)]]
    BY <1>1, <1>3 DEF Done, Continue, Goes
  <2>2. w.todo \in Seq(Step) /\ w.todo # <<>> /\ Queue(w.todo, w.op)
    BY <1>1 DEF Record, RecordSound, Queue
  <2>3. Tail(w.todo) \in Seq(Step)
    BY <2>2
  <2>4. PICK v \in Record :
           /\ v = [w EXCEPT !.todo = Tail(w.todo)]
           /\ v.op = w.op /\ v.todo = Tail(w.todo)
           /\ v.op = "confirm" => v.result = w.result
           /\ v.op = "detect" => v.resume = w.resume
           /\ v.op \in Readers => v.read = w.read
    <3> DEFINE v == [w EXCEPT !.todo = Tail(w.todo)]
    <3>1. v \in Record
      BY <2>3 DEF Record
    <3>2. /\ v.op = w.op /\ v.todo = Tail(w.todo)
          /\ v.op = "confirm" => v.result = w.result
          /\ v.op = "detect" => v.resume = w.resume
          /\ v.op \in Readers => v.read = w.read
      BY DEF Record, Readers
    <3> HIDE DEF v
    <3>3. v = [w EXCEPT !.todo = Tail(w.todo)]
      BY DEF v
    <3> QED BY <3>1, <3>2, <3>3
  <2>5. RecordSound(w)'
    BY <1>1, RecordStands
  <2>6. RecordSound(v)'
    <3>1. v.op = "confirm" => (v.result = "confirmation" => receipt')
      BY <2>4, <2>5 DEF RecordSound
    <3>2. v.op \in Readers => SnapSound(v.read)' /\ v.read.kind = w.read.kind
      <4>1. w.op \in Readers => SnapSound(w.read)'
        BY <2>5 DEF RecordSound
      <4> QED BY <2>4, <4>1
    <3>3. Head(w.todo).do # "expire" /\ \A f \in Facts : Gives(Head(w.todo), f) => Holds(f)'
      BY <1>1 DEF Task
    <3> QED BY <1>1, <1>3, <2>4, <3>1, <3>2, <3>3, RecordGoes
  <2>7. work' = [work EXCEPT ![r] = v]
    BY <2>1, <2>4
  <2> QED BY <2>6, <2>7, RequestSteps
<1> QED BY <1>2, <1>3

-----------------------------------------------------------------------------
(* What stands when its variables do. *)
LEMMA NothingGrows ==
    ASSUME source' = source, UNCHANGED <<captcha, receipt, retained>>,
           sheet' = sheet, entered' = entered, solved' = solved
    PROVE  Grown
BY DEF Grown

LEMMA LogStands == ASSUME LogSound, Grown, UNCHANGED workflowVars PROVE LogSound'
<1>1. source' = source /\ state' = state /\ last' = last
  BY DEF workflowVars
<1>2. Earned(state)'
  BY <1>1, EarnedStands DEF LogSound, Earned
<1>3. last' # NoEvent => Earned(last.from)'
  BY <1>1, EarnedStands DEF LogSound, Earned
<1>4. last' # NoEvent => (source' # Simulated => last'.to = state')
  BY <1>1 DEF LogSound
<1> QED BY <1>1, <1>2, <1>3, <1>4 DEF LogSound

LEMMA PortalStands ==
    ASSUME PortalSound, Grown, page' \in Pages, captcha' \in BOOLEAN, portalRun' = portalRun
    PROVE  PortalSound'
BY DEF PortalSound, Grown

LEMMA SessionStands ==
    ASSUME SessionSound, Grown, UNCHANGED <<challenge, sheet>>
    PROVE  SessionSound'
<1>1. challenge # NoChallenge => SnapSound(challenge)'
  BY SnapStands DEF SessionSound
<1> QED BY <1>1 DEF SessionSound, Grown, SnapSound, Earned, Covered

(* A request that moves the application and nothing else. *)
LEMMA WorkflowMoves ==
    ASSUME ApplicationSound, Grown, LogSound', RequestsSound',
           UNCHANGED <<portalVars, challengeVars>>
    PROVE  ApplicationSound'
<1>1. UNCHANGED <<page, captcha, portalRun>> /\ UNCHANGED <<challenge, sheet>>
  BY DEF portalVars, challengeVars
<1>2. PortalSound'
  BY <1>1, PortalStands DEF ApplicationSound, PortalSound
<1> QED BY <1>1, <1>2, SessionStands DEF ApplicationSound

(* A request that only begins, ends or reads. *)
LEMMA RequestMoves ==
    ASSUME ApplicationSound, NEW r \in Requests, NEW w \in Record \cup {Idle},
           w # Idle => RecordSound(w), work' = [work EXCEPT ![r] = w],
           UNCHANGED <<workflowVars, portalVars, challengeVars>>
    PROVE  ApplicationSound'
<1>1. Grown
  BY NothingGrows DEF workflowVars, portalVars, challengeVars
<1>2. RequestsSound'
  BY <1>1, RecordStands, RequestSteps DEF ApplicationSound
<1>3. LogSound'
  BY <1>1, LogStands DEF ApplicationSound
<1> QED BY <1>1, <1>2, <1>3, WorkflowMoves

LEMMA RequestEnds ==
    ASSUME ApplicationSound, NEW r \in Requests, Finish(r),
           UNCHANGED <<workflowVars, portalVars, challengeVars>>
    PROVE  ApplicationSound'
BY RequestMoves DEF Finish

(* A step done that leaves the application as it is. *)
LEMMA RequestReads ==
    ASSUME ApplicationSound, NEW r \in Requests, work[r] # Idle, Done(r),
           Task(r).do # "expire", \A f \in Facts : Gives(Task(r), f) => Holds(f),
           UNCHANGED <<workflowVars, portalVars, challengeVars>>
    PROVE  ApplicationSound'
<1>1. Grown
  BY NothingGrows DEF workflowVars, portalVars, challengeVars
<1>2. RequestsSound'
  BY <1>1, FactsStand, RequestGoesOn DEF ApplicationSound
<1>3. LogSound'
  BY <1>1, LogStands DEF ApplicationSound
<1> QED BY <1>1, <1>2, <1>3, WorkflowMoves

LEMMA StepAt ==
    ASSUME RequestsSound, NEW r \in Requests, NEW do, Todo(r, do)
    PROVE  /\ work[r] # Idle /\ work[r] \in Record /\ RecordSound(work[r])
           /\ Task(r) \in Step /\ Task(r).do = do /\ Belongs(do, work[r].op)
           /\ \A f \in Facts : Needs(Task(r), f) => Holds(f)
<1>1. work[r] # Idle /\ work[r] \in Record /\ RecordSound(work[r]) /\ Task(r).do = do
  BY Serving DEF Todo, Task
<1>2. work[r].todo \in Seq(Step) /\ Queue(work[r].todo, work[r].op)
  BY <1>1 DEF Record, RecordSound
<1> QED BY <1>1, <1>2, HeadIsReady DEF Task

(* Queues of one move. *)
LEMMA MoveIsStep ==
    ASSUME NEW to \in WorkflowStates, NEW passed \in BOOLEAN
    PROVE  /\ Move(to, passed) \in Step /\ Move(to, passed).do = "move" /\ Move(to, passed).to = to
           /\ \A from \in WorkflowStates :
                 /\ [Move(to, passed) EXCEPT !.from = from] \in Step
                 /\ [Move(to, passed) EXCEPT !.from = from].do = "move"
                 /\ [Move(to, passed) EXCEPT !.from = from].to = to
<1>1. Move(to, passed) = [do |-> "move", from |-> "any", to |-> to, passed |-> passed]
  BY DEF Move
<1>2. /\ Move(to, passed) \in Step /\ Move(to, passed).do = "move" /\ Move(to, passed).to = to
  <2> DEFINE m == [do |-> "move", from |-> "any", to |-> to, passed |-> passed]
  <2>1. m \in Step /\ m.do = "move" /\ m.to = to
    BY DEF Step
  <2> QED BY <1>1, <2>1
<1>3. ASSUME NEW from \in WorkflowStates
      PROVE  /\ [Move(to, passed) EXCEPT !.from = from] \in Step
             /\ [Move(to, passed) EXCEPT !.from = from].do = "move"
             /\ [Move(to, passed) EXCEPT !.from = from].to = to
  <2> DEFINE m == [do |-> "move", from |-> from, to |-> to, passed |-> passed]
  <2>1. [Move(to, passed) EXCEPT !.from = from] = m
    BY <1>1
  <2>2. m \in Step /\ m.do = "move" /\ m.to = to
    BY DEF Step
  <2> QED BY <2>1, <2>2
<1> QED BY <1>2, <1>3

LEMMA MoveQueue ==
    ASSUME NEW m \in Step, m.do = "move", source # "none", Earned(m.to), NEW op
    PROVE  <<m>> \in Seq(Step) /\ Queue(<<m>>, op)
<1>1. /\ <<m>> \in Seq(Step) /\ Len(<<m>>) = 1 /\ <<m>>[1] = m /\ <<m>> # <<>>
  OBVIOUS
<1>2. \A f \in Facts : Needs(m, f) => Holds(f)
  BY DEF Needs, Earned, Facts, Holds
<1>3. Belongs(m.do, op) /\ m.do \notin Unfinished
  BY DEF Belongs, Unfinished
<1> QED BY <1>1, <1>2, <1>3 DEF Queue

(* The states by name. *)
LEMMA StatesByName ==
    /\ Members(PrimaryFlow) = {
          "DISCOVERED", "DEDUPLICATED", "SCORED", "ELIGIBILITY_CHECKED", "DOCUMENTS_SELECTED",
          "APPLICATION_OPENED", "FORM_MAPPED", "ANSWERS_VALIDATED", "READY_TO_SUBMIT",
          "SUBMISSION_ATTEMPTED", "SUBMISSION_CONFIRMED", "TRACKING_ACTIVE", "CLOSED"}
    /\ Members(AssessmentFlow) = {
          "ANSWERS_VALIDATED", "ASSESSMENT_PENDING", "ASSESSMENT_IN_PROGRESS",
          "ASSESSMENT_COMPLETED", "READY_TO_SUBMIT"}
<1>1. Len(PrimaryFlow) = 13 /\ Len(AssessmentFlow) = 5
  BY DEF PrimaryFlow, AssessmentFlow
<1>2. Members(PrimaryFlow) = {PrimaryFlow[i] : i \in 1..13}
  BY <1>1 DEF Members
<1>3. Members(AssessmentFlow) = {AssessmentFlow[i] : i \in 1..5}
  BY <1>1 DEF Members
<1>4. 1..13 = {1, 2, 3, 4, 5, 6, 7, 8, 9, 10, 11, 12, 13} /\ 1..5 = {1, 2, 3, 4, 5}
  OBVIOUS
<1>5. /\ PrimaryFlow[1] = "DISCOVERED" /\ PrimaryFlow[2] = "DEDUPLICATED"
      /\ PrimaryFlow[3] = "SCORED" /\ PrimaryFlow[4] = "ELIGIBILITY_CHECKED"
      /\ PrimaryFlow[5] = "DOCUMENTS_SELECTED" /\ PrimaryFlow[6] = "APPLICATION_OPENED"
      /\ PrimaryFlow[7] = "FORM_MAPPED" /\ PrimaryFlow[8] = "ANSWERS_VALIDATED"
      /\ PrimaryFlow[9] = "READY_TO_SUBMIT" /\ PrimaryFlow[10] = "SUBMISSION_ATTEMPTED"
      /\ PrimaryFlow[11] = "SUBMISSION_CONFIRMED" /\ PrimaryFlow[12] = "TRACKING_ACTIVE"
      /\ PrimaryFlow[13] = "CLOSED"
  BY DEF PrimaryFlow
<1>6. /\ AssessmentFlow[1] = "ANSWERS_VALIDATED" /\ AssessmentFlow[2] = "ASSESSMENT_PENDING"
      /\ AssessmentFlow[3] = "ASSESSMENT_IN_PROGRESS"
      /\ AssessmentFlow[4] = "ASSESSMENT_COMPLETED" /\ AssessmentFlow[5] = "READY_TO_SUBMIT"
  BY DEF AssessmentFlow
<1> QED BY <1>2, <1>3, <1>4, <1>5, <1>6

(* The steps forward lead to no state that claims anything. *)
LEMMA AdvancesClaimNothing ==
    ASSUME NEW e \in Advances
    PROVE  e[2] \in WorkflowStates /\ Earned(e[2])
<1>1. PICK i \in 1..12 : e = <<PrimaryFlow[i], PrimaryFlow[i + 1]>>
  <2>1. Len(PrimaryFlow) = 13
    BY DEF PrimaryFlow
  <2> QED BY <2>1 DEF Advances, Edges
<1>2. e[1] = PrimaryFlow[i] /\ e[2] = PrimaryFlow[i + 1]
  BY <1>1
<1>3. i \in 1..8
  <2>1. CASE i \in {9, 10, 11, 12}
    <3>1. PrimaryFlow[i] \in {"READY_TO_SUBMIT", "SUBMISSION_ATTEMPTED", "SUBMISSION_CONFIRMED",
                              "TRACKING_ACTIVE"}
      BY <2>1 DEF PrimaryFlow
    <3> QED BY <1>2, <3>1 DEF Advances
  <2> QED BY <2>1
<1>4. e[2] \in {"DEDUPLICATED", "SCORED", "ELIGIBILITY_CHECKED", "DOCUMENTS_SELECTED",
               "APPLICATION_OPENED", "FORM_MAPPED", "ANSWERS_VALIDATED", "READY_TO_SUBMIT"}
  <2>1. i \in {1, 2, 3, 4, 5, 6, 7, 8}
    BY <1>3
  <2> QED BY <1>2, <2>1 DEF PrimaryFlow
<1> QED BY <1>4, StatesByName DEF WorkflowStates, Earned, Claims

-----------------------------------------------------------------------------
(* The workflow. *)

(* A queue that has another step of the same kind at its head. *)
LEMMA QueueReplaced ==
    ASSUME NEW q \in Seq(Step), NEW op, Queue(q, op), NEW s \in Step,
           s.do \notin Unfinished, Belongs(s.do, op),
           \A f \in Facts : Needs(s, f) => Holds(f),
           \A f \in Facts : ~Gives(Head(q), f)
    PROVE  /\ <<s>> \o Tail(q) \in Seq(Step)
           /\ (<<s>> \o Tail(q))[1] = s /\ Queue(<<s>> \o Tail(q), op)
<1> DEFINE p == <<s>> \o Tail(q)
<1>1. Len(q) \in Nat \ {0} /\ Head(q) = q[1] /\ Tail(q) \in Seq(Step) /\ Len(Tail(q)) = Len(q) - 1
  BY DEF Queue
<1>2. \A i \in 1..(Len(q) - 1) : Tail(q)[i] = q[i + 1]
  BY <1>1
<1>3. <<s>> \in Seq(Step) /\ Len(<<s>>) = 1 /\ <<s>>[1] = s
  OBVIOUS
<1>4. p \in Seq(Step) /\ Len(p) = Len(q) /\ p[1] = s
  BY <1>1, <1>3
<1>5. \A i \in 2..Len(q) : p[i] = q[i]
  <2> SUFFICES ASSUME NEW i \in 2..Len(q) PROVE p[i] = q[i]
    OBVIOUS
  <2>1. i - 1 \in 1..(Len(q) - 1) /\ (i - 1) + 1 = i
    BY <1>1
  <2>2. p[i] = Tail(q)[i - 1]
    BY <1>1, <1>3, <2>1
  <2> QED BY <1>2, <2>1, <2>2
<1> HIDE DEF p
<1>6. p # <<>> /\ p[Len(p)].do \notin Unfinished
  <2>1. CASE Len(q) = 1
    BY <2>1, <1>4
  <2>2. CASE Len(q) # 1
    <3>1. p[Len(p)] = q[Len(q)]
      BY <2>2, <1>1, <1>4, <1>5
    <3> QED BY <3>1, <1>1, <1>4 DEF Queue
  <2> QED BY <2>1, <2>2
<1>7. ASSUME NEW i \in 1..Len(p) PROVE Belongs(p[i].do, op)
  BY <1>4, <1>5 DEF Queue
<1>8. ASSUME NEW i \in 1..Len(p), NEW f \in Facts, Needs(p[i], f)
      PROVE  Holds(f) \/ \E j \in 1..(i - 1) : Gives(p[j], f)
  <2>1. CASE i = 1
    BY <2>1, <1>4, <1>8
  <2>2. CASE i # 1
    <3>1. Holds(f) \/ \E j \in 1..(i - 1) : Gives(q[j], f)
      BY <2>2, <1>4, <1>5, <1>8 DEF Queue
    <3>2. ASSUME NEW j \in 1..(i - 1), Gives(q[j], f) PROVE Gives(p[j], f)
      <4>1. j # 1
        BY <3>2, <1>1
      <4> QED BY <4>1, <3>2, <1>4, <1>5
    <3> QED BY <3>1, <3>2
  <2> QED BY <2>1, <2>2
<1>9. Queue(p, op)
  BY <1>6, <1>7, <1>8 DEF Queue
<1> QED BY <1>4, <1>9 DEF p

LEMMA AdmitTransitionPreserves ==
    ASSUME ApplicationSound, NEW r \in Requests, AdmitTransition(r),
           UNCHANGED <<portalVars, challengeVars>>
    PROVE  ApplicationSound'
<1>1. RequestsSound /\ Todo(r, "move") /\ state \in WorkflowStates /\ Earned(state)
  BY DEF ApplicationSound, LogSound, AdmitTransition
<1>2. PICK w \in Record : w = work[r] /\ RecordSound(w)
  BY <1>1, StepAt
<1>3. /\ Task(r) \in Step /\ Task(r).do = "move" /\ Task(r) = Head(w.todo)
      /\ \A f \in Facts : Needs(Task(r), f) => Holds(f)
  BY <1>1, <1>2, StepAt DEF Task
<1> DEFINE s == [Task(r) EXCEPT !.do = "commit", !.from = state]
<1>4. s \in Step /\ s.do = "commit" /\ s.from = state /\ s.to = Task(r).to
  <2>1. Task(r) \in [do : {"move"}, from : WorkflowStates \cup {"any"},
                     to : WorkflowStates, passed : BOOLEAN]
    BY <1>3 DEF Step
  <2>2. s \in [do : {"commit"}, from : WorkflowStates, to : WorkflowStates, passed : BOOLEAN]
    BY <1>1, <2>1
  <2> QED BY <2>1, <2>2 DEF Step
<1>5. work' = [work EXCEPT ![r] = [w EXCEPT !.todo = <<s>> \o Tail(w.todo)]]
  BY <1>2 DEF AdmitTransition, Goes
<1> HIDE DEF s
<1>6. \A f \in Facts : Needs(s, f) => Holds(f)
  BY <1>1, <1>3, <1>4 DEF Needs, Earned
<1>7. s.do \notin Unfinished /\ Belongs(s.do, w.op) /\ s.do # "expire"
  BY <1>4 DEF Unfinished, Belongs
<1>8. \A f \in Facts : ~Gives(Head(w.todo), f)
  BY <1>3 DEF Gives
<1>9. w.todo \in Seq(Step) /\ Queue(w.todo, w.op)
  BY <1>2 DEF Record, RecordSound
<1> DEFINE q == <<s>> \o Tail(w.todo)
<1>10. q \in Seq(Step) /\ q[1] = s /\ Queue(q, w.op)
  BY <1>4, <1>6, <1>7, <1>8, <1>9, QueueReplaced
<1>11. w.todo[1].do = "move"
  BY <1>3, <1>9, HeadIsReady
<1> HIDE DEF q
<1>12. PICK v \in Record :
           /\ v = [w EXCEPT !.todo = q] /\ v.op = w.op /\ v.todo = q
           /\ v.op = "confirm" => v.result = w.result
           /\ v.op = "detect" => v.resume = w.resume
           /\ v.op \in Readers => v.read = w.read
  <2> DEFINE v == [w EXCEPT !.todo = q]
  <2>1. v \in Record
    BY <1>10 DEF Record
  <2>2. /\ v.op = w.op /\ v.todo = q
        /\ v.op = "confirm" => v.result = w.result
        /\ v.op = "detect" => v.resume = w.resume
        /\ v.op \in Readers => v.read = w.read
    BY DEF Record, Readers
  <2> HIDE DEF v
  <2>3. v = [w EXCEPT !.todo = q]
    BY DEF v
  <2> QED BY <2>1, <2>2, <2>3
<1>13. RecordSound(v)
  <2>1. Queue(v.todo, v.op)
    BY <1>10, <1>12
  <2>2. v.op \in Readers => SnapSound(v.read)
    BY <1>2, <1>12 DEF RecordSound
  <2>3. v.op \in {"answer", "intervene", "complete"} => v.read = w.read
    BY <1>12 DEF Readers
  <2>4. v.op = "detect" => Earned(v.resume)
    BY <1>2, <1>12 DEF RecordSound
  <2>5. v.op = "complete" => v.read.kind # "CAPTCHA" /\ Covered
    BY <1>2, <1>11, <1>12, <2>3 DEF RecordSound
  <2> QED BY <1>2, <1>12, <2>1, <2>2, <2>3, <2>4, <2>5 DEF RecordSound
<1>14. work' = [work EXCEPT ![r] = v]
  BY <1>5, <1>12 DEF q
<1> QED BY <1>13, <1>14, RequestMoves DEF AdmitTransition

LEMMA CommitTransitionPreserves ==
    ASSUME ApplicationSound, NEW r \in Requests, CommitTransition(r),
           UNCHANGED <<portalVars, challengeVars>>
    PROVE  ApplicationSound'
<1>1. /\ RequestsSound /\ Todo(r, "commit") /\ source' = source /\ Done(r)
      /\ state' = Task(r).to /\ last' = [from |-> Task(r).from, to |-> Task(r).to]
  BY DEF ApplicationSound, CommitTransition
<1>2. Grown
  BY <1>1, NothingGrows DEF portalVars, challengeVars
<1>3. /\ work[r] # Idle /\ Task(r) \in Step /\ Task(r).do = "commit"
      /\ \A f \in Facts : Needs(Task(r), f) => Holds(f)
  BY <1>1, StepAt
<1>4. /\ Task(r).to \in WorkflowStates /\ Task(r).from \in WorkflowStates
  BY <1>3 DEF Step
<1>5. /\ Earned(Task(r).to) /\ Earned(Task(r).from) /\ source # "none"
  BY <1>3 DEF Needs, Earned, Facts, Holds
<1>6. RequestsSound'
  <2>1. Task(r).do # "expire" /\ \A f \in Facts : ~Gives(Task(r), f)
    BY <1>3 DEF Gives
  <2> QED BY <1>1, <1>2, <1>3, <2>1, RequestGoesOn
<1>7. PICK from \in WorkflowStates, to \in WorkflowStates :
         /\ from = Task(r).from /\ to = Task(r).to /\ Earned(from) /\ Earned(to)
         /\ state' = to /\ last' = [from |-> from, to |-> to]
  BY <1>1, <1>4, <1>5
<1>8. last'.from = from /\ last'.to = to
  BY <1>7
<1>9. Earned(from)' /\ Earned(to)'
  BY <1>2, <1>7, FactsStand DEF Earned
<1>10. Earned(state)' /\ Earned(last.from)'
  BY <1>7, <1>8, <1>9 DEF Earned
<1>11. LogSound'
  BY <1>1, <1>5, <1>7, <1>8, <1>10 DEF LogSound
<1> QED BY <1>2, <1>6, <1>11, WorkflowMoves

LEMMA AppendEventPreserves ==
    ASSUME ApplicationSound, NEW r \in Requests, AppendEvent(r),
           UNCHANGED <<portalVars, challengeVars>>
    PROVE  ApplicationSound'
<1>1. /\ RequestsSound /\ Todo(r, "append") /\ source' = source /\ state' = state /\ Done(r)
      /\ last' = [from |-> Task(r).from, to |-> Task(r).to]
  BY DEF ApplicationSound, AppendEvent
<1>2. Grown
  BY <1>1, NothingGrows DEF portalVars, challengeVars
<1>3. /\ work[r] # Idle /\ Task(r) \in Step /\ Task(r).do = "append"
      /\ \A f \in Facts : Needs(Task(r), f) => Holds(f)
  BY <1>1, StepAt
<1>4. Task(r).from \in WorkflowStates
  BY <1>3 DEF Step
<1>5. Earned(Task(r).from) /\ source = Simulated
  BY <1>3 DEF Needs, Earned, Facts, Holds
<1>6. RequestsSound'
  <2>1. Task(r).do # "expire" /\ \A f \in Facts : ~Gives(Task(r), f)
    BY <1>3 DEF Gives
  <2> QED BY <1>1, <1>2, <1>3, <2>1, RequestGoesOn
<1>7. PICK from \in WorkflowStates : from = Task(r).from /\ Earned(from)
  BY <1>4, <1>5
<1>8. last'.from = from
  BY <1>1, <1>7
<1>9. Earned(from)' /\ Earned(state)'
  BY <1>1, <1>2, <1>7, FactsStand DEF Earned, ApplicationSound, LogSound
<1>10. Earned(last.from)'
  BY <1>8, <1>9 DEF Earned
<1>11. LogSound'
  BY <1>1, <1>5, <1>8, <1>9, <1>10 DEF ApplicationSound, LogSound, Simulated
<1> QED BY <1>2, <1>6, <1>11, WorkflowMoves

LEMMA CreateApplicationPreserves ==
    ASSUME ApplicationSound, NEW r \in Requests, CreateApplication(r),
           UNCHANGED <<portalVars, challengeVars>>
    PROVE  ApplicationSound'
<1>1. /\ RequestsSound /\ Todo(r, "create") /\ source = "none" /\ source' = Task(r).source
      /\ state' = "DISCOVERED" /\ last' = last /\ Done(r)
  BY DEF ApplicationSound, CreateApplication
<1>2. /\ work[r] # Idle /\ Task(r) \in Step /\ Task(r).do = "create"
  BY <1>1, StepAt
<1>3. source' # "none"
  BY <1>1, <1>2 DEF Step, Simulated
<1>4. Grown
  BY <1>1, <1>3 DEF Grown, portalVars, challengeVars, Simulated
<1>5. RequestsSound'
  <2>1. Task(r).do # "expire" /\ \A f \in Facts : Gives(Task(r), f) => Holds(f)'
    BY <1>2, <1>3 DEF Gives, Facts, Holds
  <2> QED BY <1>1, <1>2, <1>4, <2>1, RequestGoesOn
<1>6. LogSound'
  <2>1. "DISCOVERED" \in WorkflowStates
    BY StatesByName DEF WorkflowStates
  <2>2. last' = NoEvent
    BY <1>1 DEF ApplicationSound, LogSound
  <2> QED BY <1>1, <1>3, <2>1, <2>2 DEF LogSound, Earned, Claims
<1> QED BY <1>4, <1>5, <1>6, WorkflowMoves

(* A request whose first step creates the application needs nothing else. *)
LEMMA StartSimulationPreserves ==
    ASSUME ApplicationSound, NEW r \in Requests, StartSimulation(r),
           UNCHANGED <<portalVars, challengeVars>>
    PROVE  ApplicationSound'
<1> DEFINE c == [do |-> "create", source |-> Simulated]
           m == [Move("DEDUPLICATED", FALSE) EXCEPT !.from = "DISCOVERED"]
           w == [op |-> "start", todo |-> <<c, m>>]
<1>1. /\ "DISCOVERED" \in WorkflowStates /\ "DEDUPLICATED" \in WorkflowStates
  BY StatesByName DEF WorkflowStates
<1>2. m \in Step /\ m.do = "move" /\ m.to = "DEDUPLICATED"
  BY <1>1, MoveIsStep
<1>3. c \in Step /\ c.do = "create"
  BY DEF Step
<1> HIDE DEF c, m
<1>4. <<c, m>> \in Seq(Step) /\ Len(<<c, m>>) = 2 /\ <<c, m>>[1] = c /\ <<c, m>>[2] = m
  BY <1>2, <1>3
<1>5. /\ \A f \in Facts : ~Needs(c, f)
      /\ \A f \in Facts : Needs(m, f) => Gives(c, f)
  BY <1>2, <1>3 DEF Needs, Gives, Claims
<1>6. Queue(<<c, m>>, "start")
  <2>1. m.do \notin Unfinished /\ Belongs(c.do, "start") /\ Belongs(m.do, "start")
    BY <1>2, <1>3 DEF Unfinished, Belongs
  <2>2. ASSUME NEW i \in 1..2, NEW f \in Facts, Needs(<<c, m>>[i], f)
        PROVE  \E j \in 1..(i - 1) : Gives(<<c, m>>[j], f)
    <3>1. i = 2 /\ Needs(m, f)
      BY <2>2, <1>4, <1>5
    <3>2. 1 \in 1..(i - 1) /\ Gives(<<c, m>>[1], f)
      BY <3>1, <1>4, <1>5
    <3> QED BY <3>2
  <2>3. \A i \in 1..2 : Belongs(<<c, m>>[i].do, "start")
    BY <2>1, <1>4
  <2> QED BY <1>4, <2>1, <2>2, <2>3 DEF Queue
<1>7. w \in Record /\ RecordSound(w)
  BY <1>4, <1>6 DEF Record, RecordSound, Readers
<1>8. work' = [work EXCEPT ![r] = w] /\ UNCHANGED workflowVars
  BY DEF StartSimulation, Begin, c, m
<1> HIDE DEF w
<1> QED BY <1>7, <1>8, RequestMoves

(* A request of one move that the application is ready for. *)
LEMMA MoveRequested ==
    ASSUME ApplicationSound, NEW r \in Requests, NEW m \in Step, m.do = "move", Earned(m.to),
           source # "none", work' = [work EXCEPT ![r] = [op |-> "control", todo |-> <<m>>]],
           UNCHANGED <<workflowVars, portalVars, challengeVars>>
    PROVE  ApplicationSound'
<1> DEFINE w == [op |-> "control", todo |-> <<m>>]
<1>1. <<m>> \in Seq(Step) /\ Queue(<<m>>, "control")
  BY MoveQueue
<1>2. w \in Record /\ RecordSound(w)
  BY <1>1 DEF Record, RecordSound, Readers
<1> HIDE DEF w
<1> QED BY <1>2, RequestMoves DEF w

LEMMA ControlPreserves ==
    ASSUME ApplicationSound, NEW r \in Requests, Control(r),
           UNCHANGED <<portalVars, challengeVars>>
    PROVE  ApplicationSound'
<1>1. PICK to \in ControlTargets :
         /\ work' = [work EXCEPT ![r] = [op |-> "control",
                        todo |-> <<[Move(to, FALSE) EXCEPT !.from = state]>>]]
         /\ UNCHANGED workflowVars
  BY DEF Control, Begin
<1>2. source = Simulated /\ source # "none"
  BY <1>1 DEF ControlTargets, Simulated
<1>3. to \in WorkflowStates /\ Earned(to)
  <2>1. \A s \in {"CLOSED", "FAILED_TERMINAL", "DEDUPLICATED", "FAILED_RETRYABLE",
                 "USER_TAKEOVER", "DISCOVERED"} : s \in WorkflowStates /\ Earned(s)
    BY StatesByName DEF WorkflowStates, Interruptions, Earned, Claims
  <2>2. last # NoEvent => last.from \in WorkflowStates /\ Earned(last.from)
    BY DEF ApplicationSound, LogSound
  <2>3. \/ to \in {"CLOSED", "FAILED_TERMINAL", "DEDUPLICATED", "FAILED_RETRYABLE",
                   "USER_TAKEOVER", "DISCOVERED"}
        \/ last # NoEvent /\ to = last.from
        \/ \E e \in Advances : to = e[2]
    BY <1>1 DEF ControlTargets
  <2> QED BY <2>1, <2>2, <2>3, AdvancesClaimNothing
<1> DEFINE m == [Move(to, FALSE) EXCEPT !.from = state]
<1>4. m \in Step /\ m.do = "move" /\ m.to = to
  BY <1>3, MoveIsStep DEF ApplicationSound, LogSound
<1> HIDE DEF m
<1> QED BY <1>1, <1>2, <1>3, <1>4, MoveRequested DEF m

LEMMA PublicTransitionPreserves ==
    ASSUME ApplicationSound, NEW r \in Requests, PublicTransition(r),
           UNCHANGED <<portalVars, challengeVars>>
    PROVE  ApplicationSound'
<1>1. PICK to \in PublicTargets :
         work' = [work EXCEPT ![r] = [op |-> "public",
                     todo |-> <<[do |-> "append", from |-> state, to |-> to]>>]]
  BY DEF PublicTransition, Begin
<1>2. source = Simulated /\ UNCHANGED workflowVars
  BY DEF PublicTransition, PermitsPublicTransition
<1> DEFINE a == [do |-> "append", from |-> state, to |-> to]
           w == [op |-> "public", todo |-> <<a>>]
<1>3. a \in Step /\ a.do = "append" /\ a.from = state
  BY DEF Step, ApplicationSound, LogSound
<1> HIDE DEF a
<1>4. <<a>> \in Seq(Step) /\ Len(<<a>>) = 1 /\ <<a>>[1] = a /\ <<a>> # <<>>
  BY <1>3
<1>5. \A f \in Facts : Needs(a, f) => Holds(f)
  BY <1>2, <1>3 DEF Needs, Facts, Holds, Claims, ApplicationSound, LogSound, Earned, Simulated
<1>6. a.do \notin Unfinished /\ Belongs(a.do, "public")
  BY <1>3 DEF Unfinished, Belongs
<1>7. Queue(<<a>>, "public")
  BY <1>4, <1>5, <1>6 DEF Queue
<1>8. w \in Record /\ RecordSound(w)
  BY <1>4, <1>7 DEF Record, RecordSound, Readers
<1>9. work' = [work EXCEPT ![r] = w]
  BY <1>1 DEF a
<1> HIDE DEF w
<1> QED BY <1>2, <1>8, <1>9, RequestMoves

-----------------------------------------------------------------------------
(* The reference portal. *)

(* A step that needs no more than the application, and one that also needs what
   the ones before it give. *)
Plain(s, op) == s \in Step /\ Belongs(s.do, op) /\ \A f \in Facts : Needs(s, f) => f = "job"

LEMMA PlainMove ==
    ASSUME NEW to \in WorkflowStates, NEW passed \in BOOLEAN, NEW op,
           to \notin {"SUBMISSION_CONFIRMED", "TRACKING_ACTIVE", "ASSESSMENT_COMPLETED"}
    PROVE  Plain(Move(to, passed), op) /\ Move(to, passed).do = "move"
<1>1. /\ Move(to, passed) \in Step /\ Move(to, passed).do = "move" /\ Move(to, passed).to = to
  BY MoveIsStep
<1> QED BY <1>1 DEF Plain, Needs, Claims, Belongs

LEMMA PlainVisit ==
    ASSUME NEW from \in Pages, NEW to \in Pages, NEW op
    PROVE  Plain(Visit(from, to), op) /\ Visit(from, to).do = "visit"
<1>1. Visit(from, to) \in Step /\ Visit(from, to).do = "visit"
  BY DEF Visit, Step
<1> QED BY <1>1 DEF Plain, Needs, Belongs

LEMMA PlainDo ==
    ASSUME NEW what \in {"stage", "unstage", "save run", "look", "click", "evidence", "retain",
                         "stop browser", "detect", "save snapshot", "expire", "enter",
                         "look at review", "submit", "observe", "check"}
    PROVE  /\ Do(what) \in Step /\ Do(what).do = what
           /\ \A op : Belongs(what, op) => Plain(Do(what), op)
<1>1. Do(what) \in Step /\ Do(what).do = what
  BY DEF Do, Step
<1> QED BY <1>1 DEF Plain, Needs

LEMMA PreparationIsQueue ==
    /\ Preparation \in Seq(Step) /\ Queue(Preparation, "prepare")
<1>1. \A to \in {"DEDUPLICATED", "SCORED", "ELIGIBILITY_CHECKED", "DOCUMENTS_SELECTED",
                "APPLICATION_OPENED", "FORM_MAPPED", "ANSWERS_VALIDATED", "READY_TO_SUBMIT"},
         passed \in BOOLEAN :
         Plain(Move(to, passed), "prepare")
  <2>1. \A to \in {"DEDUPLICATED", "SCORED", "ELIGIBILITY_CHECKED", "DOCUMENTS_SELECTED",
                "APPLICATION_OPENED", "FORM_MAPPED", "ANSWERS_VALIDATED", "READY_TO_SUBMIT"} :
           /\ to \in WorkflowStates
           /\ to \notin {"SUBMISSION_CONFIRMED", "TRACKING_ACTIVE", "ASSESSMENT_COMPLETED"}
    BY StatesByName DEF WorkflowStates
  <2> QED BY <2>1, PlainMove
<1>2. /\ Plain(Visit("none", "job"), "prepare") /\ Plain(Visit("job", "identity"), "prepare")
      /\ Plain(Visit("identity", "experience"), "prepare")
      /\ Plain(Visit("experience", "review"), "prepare")
  BY PlainVisit DEF Pages, AfterSubmit
<1>3. /\ Plain(Do("stage"), "prepare") /\ Plain(Do("unstage"), "prepare")
      /\ Plain(Do("save run"), "prepare") /\ Do("save run").do = "save run"
  BY PlainDo DEF Belongs
<1> DEFINE c == [do |-> "create", source |-> "reference-ats"]
           m2 == Move("DEDUPLICATED", FALSE)
           m3 == Move("SCORED", FALSE)
           m4 == Move("ELIGIBILITY_CHECKED", TRUE)
           m5 == Move("DOCUMENTS_SELECTED", TRUE)
           m8 == Move("APPLICATION_OPENED", TRUE)
           m9 == Move("FORM_MAPPED", TRUE)
           m14 == Move("ANSWERS_VALIDATED", TRUE)
           m15 == Move("READY_TO_SUBMIT", TRUE)
           v6 == Visit("none", "job")
           v7 == Visit("job", "identity")
           d10 == Do("stage")
           d11 == Do("unstage")
           v12 == Visit("identity", "experience")
           v13 == Visit("experience", "review")
           d16 == Do("save run")
<1>4. Plain(c, "prepare") /\ c.do = "create"
  BY DEF Plain, Step, Needs, Belongs
<1>M. /\ Plain(m2, "prepare") /\ Plain(m3, "prepare") /\ Plain(m4, "prepare")
      /\ Plain(m5, "prepare") /\ Plain(m8, "prepare") /\ Plain(m9, "prepare")
      /\ Plain(m14, "prepare") /\ Plain(m15, "prepare")
  BY <1>1
<1>V. /\ Plain(v6, "prepare") /\ Plain(v7, "prepare") /\ Plain(d10, "prepare")
      /\ Plain(d11, "prepare") /\ Plain(v12, "prepare") /\ Plain(v13, "prepare")
      /\ Plain(d16, "prepare") /\ d16.do = "save run"
  BY <1>2, <1>3
<1> DEFINE q == <<c, m2, m3, m4, m5, v6, v7, m8, m9, d10, d11, v12, v13, m14, m15, d16>>
<1>8. Preparation = q
  BY DEF Preparation
<1> HIDE DEF c, m2, m3, m4, m5, v6, v7, m8, m9, d10, d11, v12, v13, m14, m15, d16
<1>5. /\ Len(q) = 16 /\ q # <<>> /\ q[1] = c /\ q[16] = d16
  OBVIOUS
<1>6. \A i \in 1..16 : Plain(q[i], "prepare")
  <2>1. 1..16 = {1, 2, 3, 4, 5, 6, 7, 8, 9, 10, 11, 12, 13, 14, 15, 16}
    OBVIOUS
  <2>2. /\ Plain(q[1], "prepare") /\ Plain(q[2], "prepare") /\ Plain(q[3], "prepare")
        /\ Plain(q[4], "prepare") /\ Plain(q[5], "prepare") /\ Plain(q[8], "prepare")
        /\ Plain(q[9], "prepare") /\ Plain(q[14], "prepare") /\ Plain(q[15], "prepare")
    BY <1>M, <1>4
  <2>3. /\ Plain(q[6], "prepare") /\ Plain(q[7], "prepare") /\ Plain(q[10], "prepare")
        /\ Plain(q[11], "prepare") /\ Plain(q[12], "prepare") /\ Plain(q[13], "prepare")
        /\ Plain(q[16], "prepare")
    BY <1>V
  <2> HIDE DEF q
  <2> QED BY <2>1, <2>2, <2>3
<1>7. q \in Seq(Step)
  <2>1. /\ c \in Step /\ m2 \in Step /\ m3 \in Step /\ m4 \in Step /\ m5 \in Step
        /\ m8 \in Step /\ m9 \in Step /\ m14 \in Step /\ m15 \in Step
    BY <1>M, <1>4 DEF Plain
  <2>2. /\ v6 \in Step /\ v7 \in Step /\ d10 \in Step /\ d11 \in Step /\ v12 \in Step
        /\ v13 \in Step /\ d16 \in Step
    BY <1>V DEF Plain
  <2> QED BY <2>1, <2>2
<1> HIDE DEF q
<1>9. ASSUME NEW i \in 1..16, NEW f \in Facts, Needs(q[i], f)
      PROVE  \E j \in 1..(i - 1) : Gives(q[j], f)
  <2>1. f = "job"
    BY <1>6, <1>9 DEF Plain
  <2>2. i # 1
    BY <1>4, <1>5, <1>9, <2>1 DEF Needs
  <2>3. 1 \in 1..(i - 1)
    BY <2>2
  <2>4. Gives(q[1], f)
    BY <1>4, <1>5, <2>1 DEF Gives
  <2> QED BY <2>3, <2>4
<1>10. q[Len(q)].do \notin Unfinished
  BY <1>V, <1>5 DEF Unfinished
<1>11. \A i \in 1..Len(q) : Belongs(q[i].do, "prepare")
  BY <1>5, <1>6 DEF Plain
<1> QED BY <1>5, <1>7, <1>8, <1>9, <1>10, <1>11 DEF Queue

LEMMA SubmissionIsQueue ==
    ASSUME source # "none"
    PROVE  Submission \in Seq(Step) /\ Queue(Submission, "confirm")
<1>1. \A to \in {"SUBMISSION_ATTEMPTED", "SUBMISSION_CONFIRMED", "TRACKING_ACTIVE"} :
         /\ Move(to, TRUE) \in Step /\ Move(to, TRUE).do = "move" /\ Move(to, TRUE).to = to
  <2>1. \A to \in {"SUBMISSION_ATTEMPTED", "SUBMISSION_CONFIRMED", "TRACKING_ACTIVE"} :
           to \in WorkflowStates
    BY StatesByName DEF WorkflowStates
  <2> QED BY <2>1, MoveIsStep
<1>2. \A what \in {"look", "click", "evidence", "retain", "stop browser", "save tracked run"} :
         Do(what) \in Step /\ Do(what).do = what
  BY DEF Do, Step
<1> DEFINE m3 == Move("SUBMISSION_ATTEMPTED", TRUE)
           m5 == Move("SUBMISSION_CONFIRMED", TRUE)
           m6 == Move("TRACKING_ACTIVE", TRUE)
           d1 == Do("look")
           d2 == Do("click")
           d4 == Do("evidence")
           d7 == Do("retain")
           d8 == Do("stop browser")
           d9 == Do("save tracked run")
           q == <<d1, d2, m3, d4, m5, m6, d7, d8, d9>>
<1>M. /\ m3 \in Step /\ m3.do = "move" /\ m3.to = "SUBMISSION_ATTEMPTED"
      /\ m5 \in Step /\ m5.do = "move" /\ m5.to = "SUBMISSION_CONFIRMED"
      /\ m6 \in Step /\ m6.do = "move" /\ m6.to = "TRACKING_ACTIVE"
  BY <1>1
<1>D. /\ d1 \in Step /\ d1.do = "look" /\ d2 \in Step /\ d2.do = "click"
      /\ d4 \in Step /\ d4.do = "evidence" /\ d7 \in Step /\ d7.do = "retain"
      /\ d8 \in Step /\ d8.do = "stop browser" /\ d9 \in Step /\ d9.do = "save tracked run"
  BY <1>2
<1>5. Submission = q
  BY DEF Submission
<1> HIDE DEF d1, d2, m3, d4, m5, m6, d7, d8, d9
<1>3. q \in Seq(Step)
  <2>1. /\ d1 \in Step /\ d2 \in Step /\ m3 \in Step /\ d4 \in Step /\ m5 \in Step
        /\ m6 \in Step /\ d7 \in Step /\ d8 \in Step /\ d9 \in Step
    BY <1>M, <1>D
  <2> QED BY <2>1
<1>4. /\ Len(q) = 9 /\ q # <<>>
      /\ q[1] = d1 /\ q[2] = d2 /\ q[3] = m3 /\ q[4] = d4 /\ q[5] = m5
      /\ q[6] = m6 /\ q[7] = d7 /\ q[8] = d8 /\ q[9] = d9
  OBVIOUS
<1> HIDE DEF q
<1>6. /\ \A i \in {1, 2, 4, 7, 8, 9} : q[i].do # "move" /\ q[i].do = IF i = 1 THEN "look"
             ELSE IF i = 2 THEN "click" ELSE IF i = 4 THEN "evidence" ELSE IF i = 7 THEN "retain"
             ELSE IF i = 8 THEN "stop browser" ELSE "save tracked run"
      /\ \A i \in {3, 5, 6} : q[i].do = "move"
      /\ q[3].to = "SUBMISSION_ATTEMPTED"
      /\ q[9].do = "save tracked run"
  BY <1>M, <1>D, <1>4
<1>7. 1..9 = {1, 2, 4, 7, 8, 9} \cup {3, 5, 6}
  OBVIOUS
<1>8. \A i \in 1..9 : Belongs(q[i].do, "confirm")
  BY <1>6, <1>7 DEF Belongs
<1>9. q[9].do \notin Unfinished
  BY <1>6 DEF Unfinished
<1>10. Gives(q[4], "receipt") /\ Gives(q[7], "retained")
  BY <1>6 DEF Gives
<1>11. ASSUME NEW i \in 1..9, NEW f \in Facts, Needs(q[i], f)
       PROVE  Holds(f) \/ \E j \in 1..(i - 1) : Gives(q[j], f)
  <2>1. CASE f = "job"
    BY <2>1 DEF Holds
  <2>2. CASE f # "job"
    <3>1. i \in {5, 6, 9} /\ (f = "receipt" \/ (f = "retained" /\ i = 9))
      <4>1. CASE i \in {1, 2, 4, 7, 8, 9}
        BY <4>1, <2>2, <1>6, <1>11 DEF Needs
      <4>2. CASE i = 3
        BY <4>2, <2>2, <1>6, <1>11 DEF Needs, Claims
      <4>3. CASE i \in {5, 6}
        <5>1. q[i].do = "move" /\ q[i].to \in {"SUBMISSION_CONFIRMED", "TRACKING_ACTIVE"}
          BY <4>3, <1>M, <1>4
        <5> QED BY <5>1, <4>3, <2>2, <1>11 DEF Needs, Claims
      <4> QED BY <1>7, <4>1, <4>2, <4>3
    <3>2. 4 \in 1..(i - 1) /\ (i = 9 => 7 \in 1..(i - 1))
      BY <3>1
    <3> QED BY <3>1, <3>2, <1>10
  <2> QED BY <2>1, <2>2
<1> QED BY <1>3, <1>4, <1>5, <1>8, <1>9, <1>11 DEF Queue

(* A request that moves the portal and nothing else. *)
LEMMA PortalMoves ==
    ASSUME ApplicationSound, Grown, PortalSound', RequestsSound',
           UNCHANGED <<workflowVars, challenge, sheet>>
    PROVE  ApplicationSound'
<1>1. LogSound' /\ SessionSound'
  BY LogStands, SessionStands DEF ApplicationSound
<1> QED BY <1>1 DEF ApplicationSound

LEMMA PreparePreserves ==
    ASSUME ApplicationSound, NEW r \in Requests, Prepare(r), UNCHANGED challengeVars
    PROVE  ApplicationSound'
<1> DEFINE w == [op |-> "prepare", todo |-> Preparation]
<1>1. w \in Record /\ RecordSound(w)
  BY PreparationIsQueue DEF Record, RecordSound, Readers
<1>2. work' = [work EXCEPT ![r] = w] /\ UNCHANGED <<workflowVars, portalVars>>
  BY DEF Prepare, Begin
<1> HIDE DEF w
<1> QED BY <1>1, <1>2, RequestMoves

LEMMA ConfirmPreserves ==
    ASSUME ApplicationSound, NEW r \in Requests, Confirm(r), UNCHANGED challengeVars
    PROVE  ApplicationSound'
<1> DEFINE w == [op |-> "confirm", todo |-> Submission, result |-> "none"]
<1>1. source # "none"
  BY DEF Confirm, ApplicationSound, PortalSound
<1>2. w \in Record /\ RecordSound(w)
  BY <1>1, SubmissionIsQueue DEF Record, RecordSound, Readers, Pages
<1>3. work' = [work EXCEPT ![r] = w] /\ UNCHANGED <<workflowVars, portalVars>>
  BY DEF Confirm, Begin
<1> HIDE DEF w
<1> QED BY <1>2, <1>3, RequestMoves

LEMMA VisitPagePreserves ==
    ASSUME ApplicationSound, NEW r \in Requests, VisitPage(r), UNCHANGED challengeVars
    PROVE  ApplicationSound'
<1>1. /\ RequestsSound /\ Todo(r, "visit") /\ page' = Task(r).to /\ Done(r)
      /\ UNCHANGED <<workflowVars, captcha, portalRun, staged, retained, clicks, receipt>>
  BY DEF ApplicationSound, VisitPage
<1>2. Grown
  BY <1>1 DEF Grown, workflowVars, challengeVars
<1>3. work[r] # Idle /\ Task(r) \in Step /\ Task(r).do = "visit"
  BY <1>1, StepAt
<1>4. RequestsSound'
  <2>1. Task(r).do # "expire" /\ \A f \in Facts : ~Gives(Task(r), f)
    BY <1>3 DEF Gives
  <2> QED BY <1>1, <1>2, <1>3, <2>1, RequestGoesOn
<1>5. PortalSound'
  <2>1. page' \in Pages
    BY <1>1, <1>3 DEF Step
  <2> QED BY <1>1, <1>2, <2>1, PortalStands DEF ApplicationSound, PortalSound
<1> QED BY <1>1, <1>2, <1>4, <1>5, PortalMoves DEF challengeVars

(* Steps that touch what no property is about. *)
LEMMA StepStands ==
    ASSUME ApplicationSound, NEW r \in Requests,
           NEW do \in {"stage", "unstage", "look", "stop browser"}, Todo(r, do), Done(r),
           page' \in Pages, UNCHANGED <<workflowVars, captcha, portalRun, retained, receipt>>,
           UNCHANGED challengeVars
    PROVE  ApplicationSound'
<1>1. Grown
  BY DEF Grown, workflowVars, challengeVars
<1>2. work[r] # Idle /\ Task(r).do = do
  BY StepAt DEF ApplicationSound
<1>3. RequestsSound'
  <2>1. Task(r).do # "expire" /\ \A f \in Facts : ~Gives(Task(r), f)
    BY <1>2 DEF Gives
  <2> QED BY <1>1, <1>2, <2>1, RequestGoesOn DEF ApplicationSound
<1>4. PortalSound'
  BY <1>1, PortalStands DEF ApplicationSound, PortalSound
<1> QED BY <1>1, <1>3, <1>4, PortalMoves DEF challengeVars

LEMMA SaveRunPreserves ==
    ASSUME ApplicationSound, NEW r \in Requests, SaveRun(r), UNCHANGED challengeVars
    PROVE  ApplicationSound'
<1>1. /\ RequestsSound /\ PortalSound /\ Done(r)
      /\ UNCHANGED <<workflowVars, page, captcha, staged, retained, clicks, receipt>>
      /\ \/ Todo(r, "save run") /\ portalRun' = "READY_TO_SUBMIT"
         \/ Todo(r, "save tracked run") /\ portalRun' = "TRACKING_ACTIVE"
  BY DEF ApplicationSound, SaveRun
<1>2. Grown /\ source' = source
  BY <1>1 DEF Grown, workflowVars, challengeVars
<1>3. PICK do \in {"save run", "save tracked run"} :
         /\ Todo(r, do)
         /\ portalRun' = IF do = "save run" THEN "READY_TO_SUBMIT" ELSE "TRACKING_ACTIVE"
  BY <1>1
<1>4. /\ work[r] # Idle /\ Task(r).do = do
      /\ \A f \in Facts : Needs(Task(r), f) => Holds(f)
  BY <1>1, <1>3, StepAt
<1>5. RequestsSound'
  <2>1. Task(r).do # "expire" /\ \A f \in Facts : ~Gives(Task(r), f)
    BY <1>4 DEF Gives
  <2> QED BY <1>1, <1>2, <1>4, <2>1, RequestGoesOn
<1>6. source # "none" /\ (do = "save tracked run" => receipt /\ retained)
  <2>1. Needs(Task(r), "job") /\ (do = "save tracked run" =>
           Needs(Task(r), "receipt") /\ Needs(Task(r), "retained"))
    BY <1>4 DEF Needs
  <2> QED BY <1>4, <2>1 DEF Holds, Facts
<1>7. PortalSound'
  BY <1>1, <1>2, <1>3, <1>6 DEF PortalSound
<1> QED BY <1>1, <1>2, <1>5, <1>7, PortalMoves DEF challengeVars

(* What the click brought is what the evidence is read from. *)
LEMMA ClickSubmitPreserves ==
    ASSUME ApplicationSound, NEW r \in Requests, ClickSubmit(r), UNCHANGED challengeVars
    PROVE  ApplicationSound'
<1>1. /\ RequestsSound /\ Todo(r, "click") /\ page' \in AfterSubmit
      /\ receipt' = (receipt \/ page' = "confirmation")
      /\ \/ work' = [work EXCEPT ![r] = [work[r] EXCEPT !.result = page', !.todo = Tail(@)]]
         \/ work' = [work EXCEPT ![r] = Idle]
      /\ UNCHANGED <<workflowVars, captcha, portalRun, staged, retained>>
  BY DEF ApplicationSound, ClickSubmit, Goes, Finish
<1>2. Grown
  BY <1>1 DEF Grown, workflowVars, challengeVars
<1>3. PICK w \in Record : w = work[r] /\ RecordSound(w)
  BY <1>1, StepAt
<1>4. /\ w.op = "confirm" /\ Head(w.todo).do = "click"
      /\ w.todo \in Seq(Step) /\ Queue(w.todo, w.op)
  BY <1>1, <1>3, StepAt DEF Belongs, Todo, Record, RecordSound
<1>5. Tail(w.todo) \in Seq(Step) /\ Tail(w.todo) # <<>>
  BY <1>4, RestFollows DEF Unfinished
<1>6. page' \in Pages
  BY <1>1 DEF Pages, AfterSubmit
<1>7. PICK result \in Pages : result = page' /\ (result = "confirmation" => receipt')
  BY <1>1, <1>6
<1> DEFINE v == [w EXCEPT !.result = result, !.todo = Tail(w.todo)]
<1>8. v \in Record /\ v.op = "confirm" /\ v.result = result /\ v.todo = Tail(w.todo)
  <2>1. w \in [op : {"confirm"}, todo : Seq(Step), result : Pages]
    BY <1>4 DEF Record, Readers
  <2> QED BY <1>5, <2>1 DEF Record
<1>9. work' = [work EXCEPT ![r] = v] \/ work' = [work EXCEPT ![r] = Idle]
  BY <1>1, <1>3, <1>7
<1> HIDE DEF v
<1>10. RecordSound(v)'
  <2>1. Head(w.todo).do # "expire" /\ \A f \in Facts : ~Gives(Head(w.todo), f)
    BY <1>4 DEF Gives
  <2>2. "confirm" \notin Readers
    BY DEF Readers
  <2> QED BY <1>2, <1>3, <1>4, <1>5, <1>7, <1>8, <2>1, <2>2, RecordGoes
<1>11. RequestsSound'
  BY <1>1, <1>2, <1>8, <1>9, <1>10, RequestSteps
<1>12. PortalSound'
  BY <1>1, <1>2, <1>6, PortalStands DEF ApplicationSound, PortalSound
<1> QED BY <1>1, <1>2, <1>11, <1>12, PortalMoves DEF challengeVars

LEMMA ReadEvidencePreserves ==
    ASSUME ApplicationSound, NEW r \in Requests, ReadEvidence(r), UNCHANGED challengeVars
    PROVE  ApplicationSound'
<1>1. RequestsSound /\ Todo(r, "evidence") /\ UNCHANGED <<workflowVars, portalVars>>
  BY DEF ApplicationSound, ReadEvidence
<1>2. PICK w \in Record : w = work[r] /\ RecordSound(w) /\ w # Idle
  BY <1>1, StepAt
<1>3. /\ w.op = "confirm" /\ Task(r).do = "evidence"
      /\ \A f \in Facts : Needs(Task(r), f) => Holds(f)
  BY <1>1, <1>2, StepAt DEF Belongs
<1>4. CASE ConfirmationEvidence(work[r].result)
  <2>1. receipt /\ Done(r)
    BY <1>2, <1>3, <1>4 DEF ReadEvidence, ConfirmationEvidence, RecordSound
  <2>2. Task(r).do # "expire" /\ \A f \in Facts : Gives(Task(r), f) => Holds(f)
    BY <1>3, <2>1 DEF Gives, Holds
  <2> QED BY <1>1, <1>2, <2>1, <2>2, RequestReads
<1>5. CASE ~ConfirmationEvidence(work[r].result)
  <2> DEFINE m == Move("SUBMISSION_UNCERTAIN", FALSE)
             v == [w EXCEPT !.todo = <<m>>]
  <2>1. m \in Step /\ m.do = "move" /\ m.to = "SUBMISSION_UNCERTAIN"
    BY MoveIsStep DEF WorkflowStates, Interruptions
  <2>2. source # "none"
    BY <1>3 DEF Needs, Holds, Facts
  <2> HIDE DEF m
  <2>3. <<m>> \in Seq(Step) /\ Queue(<<m>>, "confirm")
    BY <2>1, <2>2, MoveQueue DEF Earned, Claims
  <2>4. work' = [work EXCEPT ![r] = v]
    BY <1>2, <1>5 DEF ReadEvidence, Continue, Goes, m
  <2>5. v \in Record /\ v.op = "confirm" /\ v.result = w.result /\ v.todo = <<m>>
    <3>1. w \in [op : {"confirm"}, todo : Seq(Step), result : Pages]
      BY <1>3 DEF Record, Readers
    <3> QED BY <2>3, <3>1 DEF Record
  <2>6. RecordSound(v)
    BY <1>2, <1>3, <2>3, <2>5 DEF RecordSound, Readers
  <2> HIDE DEF v
  <2> QED BY <1>1, <2>4, <2>5, <2>6, RequestMoves
<1> QED BY <1>4, <1>5

LEMMA RetainDocumentPreserves ==
    ASSUME ApplicationSound, NEW r \in Requests, RetainDocument(r), UNCHANGED challengeVars
    PROVE  ApplicationSound'
<1>1. /\ RequestsSound /\ Todo(r, "retain") /\ retained' = TRUE /\ Done(r)
      /\ UNCHANGED <<workflowVars, page, captcha, portalRun, staged, clicks, receipt>>
  BY DEF ApplicationSound, RetainDocument
<1>2. Grown
  BY <1>1 DEF Grown, workflowVars, challengeVars
<1>3. work[r] # Idle /\ Task(r).do = "retain"
  BY <1>1, StepAt
<1>4. RequestsSound'
  <2>1. Task(r).do # "expire" /\ \A f \in Facts : Gives(Task(r), f) => Holds(f)'
    BY <1>1, <1>3 DEF Gives, Holds
  <2> QED BY <1>1, <1>2, <1>3, <2>1, RequestGoesOn
<1>5. PortalSound'
  BY <1>1, <1>2, PortalStands DEF ApplicationSound, PortalSound
<1> QED BY <1>1, <1>2, <1>4, <1>5, PortalMoves DEF challengeVars

LEMMA PortalFailsPreserves ==
    ASSUME ApplicationSound, NEW r \in Requests, PortalFails(r), UNCHANGED challengeVars
    PROVE  ApplicationSound'
<1>1. /\ Finish(r)
      /\ UNCHANGED <<workflowVars, page, captcha, portalRun, retained, clicks, receipt>>
  BY DEF PortalFails, Abandon
<1>2. Grown
  BY <1>1 DEF Grown, workflowVars, challengeVars
<1>3. RequestsSound'
  BY <1>1, <1>2, RequestSteps DEF ApplicationSound, Finish
<1>4. PortalSound'
  BY <1>1, <1>2, PortalStands DEF ApplicationSound, PortalSound
<1> QED BY <1>1, <1>2, <1>3, <1>4, PortalMoves DEF challengeVars

LEMMA ServePortalPreserves ==
    ASSUME ApplicationSound, NEW r \in Requests, ServePortal(r), UNCHANGED challengeVars
    PROVE  ApplicationSound'
<1>1. CASE StageResume(r)
  <2>1. page' \in Pages
    BY <1>1 DEF StageResume, ApplicationSound, PortalSound
  <2> QED BY <1>1, <2>1, StepStands DEF StageResume
<1>2. CASE LookAtReview(r)
  <2>1. page' \in Pages /\ UNCHANGED <<workflowVars, captcha, portalRun, retained, receipt>>
    BY <1>2 DEF LookAtReview, portalVars, ApplicationSound, PortalSound
  <2> QED BY <1>2, <2>1, StepStands DEF LookAtReview
<1>3. CASE StopBrowser(r)
  <2>1. page' \in Pages
    BY <1>3 DEF StopBrowser, Pages
  <2> QED BY <1>3, <2>1, StepStands DEF StopBrowser
<1> QED
  BY <1>1, <1>2, <1>3, PreparePreserves, VisitPagePreserves, SaveRunPreserves, ConfirmPreserves,
     ClickSubmitPreserves, ReadEvidencePreserves, RetainDocumentPreserves, PortalFailsPreserves
     DEF ServePortal

LEMMA CaptchaPreserves ==
    ASSUME ApplicationSound, CaptchaShows \/ Solve
    PROVE  ApplicationSound'
<1>1. /\ UNCHANGED <<work, workflowVars, page, portalRun, retained, receipt, challenge, sheet, entered>>
      /\ captcha' \in BOOLEAN /\ (solved => solved') /\ (captcha => captcha' \/ solved')
  BY DEF CaptchaShows, CaptchaAppears, Solve, CaptchaSolved, challengeVars
<1>2. Grown
  BY <1>1 DEF Grown, workflowVars
<1>3. PortalSound'
  BY <1>1, <1>2, PortalStands DEF ApplicationSound, PortalSound
<1>4. RequestsSound'
  BY <1>1, <1>2, RequestsStand DEF ApplicationSound
<1> QED BY <1>1, <1>2, <1>3, <1>4, PortalMoves

-----------------------------------------------------------------------------
(* Challenge sessions. *)

LEMMA ChallengeMoves ==
    ASSUME ApplicationSound, Grown, SessionSound', RequestsSound', UNCHANGED applicationVars
    PROVE  ApplicationSound'
<1>1. UNCHANGED workflowVars /\ UNCHANGED <<page, captcha, portalRun>>
  BY DEF applicationVars, portalVars
<1>2. LogSound'
  BY <1>1, LogStands DEF ApplicationSound
<1>3. PortalSound'
  BY <1>1, PortalStands DEF ApplicationSound, PortalSound
<1> QED BY <1>2, <1>3 DEF ApplicationSound

(* The session is saved as a sound snapshot. *)
LEMMA SessionSaved ==
    ASSUME SessionSound, Grown, NEW s \in Snapshot, SnapSound(s)', challenge' = s,
           sheet' = sheet, source # "none"
    PROVE  SessionSound'
<1>1. SnapSound(challenge)'
  BY DEF SnapSound, Earned, Covered
<1> QED BY <1>1 DEF SessionSound, Grown

LEMMA LongIsSome == ASSUME NEW q, Len(q) # 0 PROVE q # <<>>
<1>1. CASE q = <<>>
  <2>1. Len(q) = Len(<<>>)
    BY <1>1
  <2>2. Len(<<>>) = 0
    OBVIOUS
  <2> QED BY <2>1, <2>2
<1> QED BY <1>1

(* Every step of the queue has what it needs from the start. *)
LEMMA ReadyQueue ==
    ASSUME NEW q \in Seq(Step), NEW op, q # <<>>, q[Len(q)].do \notin Unfinished,
           \A i \in 1..Len(q) :
              Belongs(q[i].do, op) /\ \A f \in Facts : Needs(q[i], f) => Holds(f)
    PROVE  Queue(q, op)
BY DEF Queue

LEMMA PlainIsReady ==
    ASSUME NEW s, NEW op, Plain(s, op), source # "none"
    PROVE  s \in Step /\ Belongs(s.do, op) /\ \A f \in Facts : Needs(s, f) => Holds(f)
BY DEF Plain, Holds

LEMMA SingleQueue ==
    ASSUME NEW a, NEW op, Plain(a, op), a.do \notin Unfinished, source # "none"
    PROVE  <<a>> \in Seq(Step) /\ Queue(<<a>>, op)
<1>1. /\ a \in Step /\ Belongs(a.do, op) /\ \A f \in Facts : Needs(a, f) => Holds(f)
  BY PlainIsReady
<1>2. <<a>> \in Seq(Step) /\ Len(<<a>>) = 1 /\ <<a>>[1] = a /\ <<a>> # <<>>
  BY <1>1
<1> DEFINE q == <<a>>
<1> HIDE DEF q
<1>3. q \in Seq(Step) /\ Len(q) = 1 /\ q[1] = a /\ q # <<>>
  BY <1>2 DEF q
<1>4. Queue(q, op)
  BY <1>1, <1>3, ReadyQueue
<1> QED BY <1>3, <1>4 DEF q

LEMMA PairQueue ==
    ASSUME NEW a, NEW b, NEW op, Plain(a, op), Plain(b, op), b.do \notin Unfinished,
           source # "none"
    PROVE  <<a, b>> \in Seq(Step) /\ Queue(<<a, b>>, op) /\ <<a, b>>[1] = a
<1>1. /\ a \in Step /\ Belongs(a.do, op) /\ \A f \in Facts : Needs(a, f) => Holds(f)
      /\ b \in Step /\ Belongs(b.do, op) /\ \A f \in Facts : Needs(b, f) => Holds(f)
  BY PlainIsReady
<1>2. /\ <<a, b>> \in Seq(Step) /\ Len(<<a, b>>) = 2 /\ <<a, b>>[1] = a /\ <<a, b>>[2] = b
      /\ <<a, b>> # <<>>
  BY <1>1
<1> DEFINE q == <<a, b>>
<1> HIDE DEF q
<1>3. q \in Seq(Step) /\ Len(q) = 2 /\ q[1] = a /\ q[2] = b /\ q # <<>>
  BY <1>2 DEF q
<1>4. \A i \in 1..2 : q[i] = a \/ q[i] = b
  BY <1>3
<1>5. Queue(q, op)
  BY <1>1, <1>3, <1>4, ReadyQueue
<1> QED BY <1>3, <1>5 DEF q

LEMMA BeginDetectionPreserves ==
    ASSUME ApplicationSound, NEW r \in Requests, BeginDetection(r)
    PROVE  ApplicationSound'
<1> DEFINE d == Do("detect")
           w == [op |-> "detect", resume |-> state, todo |-> <<d>>]
<1>1. Plain(d, "detect") /\ d.do \notin Unfinished
  BY PlainDo DEF Belongs, Unfinished
<1>2. work' = [work EXCEPT ![r] = w] /\ source # "none"
  BY DEF BeginDetection, Begin
<1> HIDE DEF d
<1>3. <<d>> \in Seq(Step) /\ Queue(<<d>>, "detect")
  BY <1>1, <1>2, SingleQueue
<1>4. w \in Record /\ RecordSound(w)
  BY <1>3 DEF Record, RecordSound, Readers, ApplicationSound, LogSound
<1> HIDE DEF w
<1> QED BY <1>2, <1>4, RequestMoves DEF BeginDetection, applicationVars

LEMMA InterruptsQueue ==
    ASSUME NEW kind, NEW resume, source # "none", Interrupts(kind, resume) # <<>>
    PROVE  Interrupts(kind, resume) \in Seq(Step) /\ Queue(Interrupts(kind, resume), "detect")
<1> DEFINE c == Move("CAPTCHA_REQUIRED", FALSE)
           p == Move("ASSESSMENT_PENDING", FALSE)
           g == Move("ASSESSMENT_IN_PROGRESS", FALSE)
<1>1. /\ Plain(c, "detect") /\ c.do = "move" /\ Plain(p, "detect") /\ p.do = "move"
      /\ Plain(g, "detect") /\ g.do = "move"
  BY PlainMove, StatesByName DEF WorkflowStates, Interruptions
<1>2. Interrupts(kind, resume) \in {<<c>>, <<p, g>>}
  BY DEF Interrupts
<1> HIDE DEF c, p, g
<1>3. "move" \notin Unfinished
  BY DEF Unfinished
<1>4. c.do \notin Unfinished /\ g.do \notin Unfinished
  BY <1>1, <1>3
<1>5. <<c>> \in Seq(Step) /\ Queue(<<c>>, "detect")
  BY <1>1, <1>4, SingleQueue
<1>6. <<p, g>> \in Seq(Step) /\ Queue(<<p, g>>, "detect")
  BY <1>1, <1>4, PairQueue
<1> QED BY <1>2, <1>5, <1>6

LEMMA DetectPreserves ==
    ASSUME ApplicationSound, NEW r \in Requests, Detect(r)
    PROVE  ApplicationSound'
<1>1. /\ RequestsSound /\ SessionSound /\ Todo(r, "detect")
      /\ Detected \in Kinds /\ (captcha \/ ~sheet.submitted)
      /\ UNCHANGED <<applicationVars, sheet, entered, solved, overdue>>
  BY DEF ApplicationSound, Detect
<1>2. Grown
  BY <1>1 DEF Grown, applicationVars, workflowVars, portalVars
<1>3. PICK w \in Record : w = work[r] /\ RecordSound(w)
  BY <1>1, StepAt
<1>4. /\ w.op = "detect" /\ w.resume \in WorkflowStates /\ Earned(w.resume)
      /\ w \in [op : {"detect"}, resume : WorkflowStates, todo : Seq(Step)]
  BY <1>1, <1>3, StepAt DEF Belongs, Record, RecordSound, Readers
<1>5. source # "none"
  <2>1. Task(r).do = "detect" /\ \A f \in Facts : Needs(Task(r), f) => Holds(f)
    BY <1>1, StepAt
  <2> QED BY <2>1 DEF Needs, Facts, Holds
<1> DEFINE s == [kind |-> Detected, resume |-> w.resume,
                 status |-> IF captcha THEN "INTERVENTION_REQUIRED" ELSE "IN_PROGRESS",
                 asked |-> sheet.layout, seen |-> sheet.layout, verified |-> {},
                 review |-> "none"]
<1>6. challenge' = s
  BY <1>3 DEF Detect
<1>7. s \in Snapshot
  BY <1>1, <1>4 DEF Snapshot, SessionSound, Statuses
<1>8. Detected = "CAPTCHA" <=> captcha
  BY <1>1 DEF Detected, SessionSound, ApplicationSound, PortalSound
<1>9. SnapSound(s)
  BY <1>4, <1>8 DEF SnapSound
<1> HIDE DEF s
<1>10. SessionSound'
  BY <1>1, <1>2, <1>5, <1>6, <1>7, <1>9, SnapStands, SessionSaved
<1>11. RequestsSound'
  <2> DEFINE q == Interrupts(Detected, w.resume)
  <2>1. CASE q = <<>>
    <3>1. work' = [work EXCEPT ![r] = Idle]
      BY <1>3, <2>1 DEF Detect, Continue, Finish
    <3> QED BY <1>1, <1>2, <3>1, RequestSteps
  <2>2. CASE q # <<>>
    <3>1. work' = [work EXCEPT ![r] = [w EXCEPT !.todo = q]]
      BY <1>3, <2>2 DEF Detect, Continue, Goes
    <3>2. q \in Seq(Step) /\ Queue(q, "detect")
      BY <1>5, <2>2, InterruptsQueue
    <3> HIDE DEF q
    <3> DEFINE v == [w EXCEPT !.todo = q]
    <3>3. v \in Record /\ v.op = "detect" /\ v.resume = w.resume /\ v.todo = q
      BY <1>4, <3>2 DEF Record
    <3> HIDE DEF v
    <3>4. RecordSound(v)
      BY <1>4, <3>2, <3>3 DEF RecordSound, Readers
    <3>5. work' = [work EXCEPT ![r] = v]
      BY <3>1 DEF v
    <3> QED BY <1>1, <1>2, <3>3, <3>4, <3>5, RecordStands, RequestSteps
  <2> QED BY <2>1, <2>2
<1> QED BY <1>1, <1>2, <1>10, <1>11, ChallengeMoves

(* A request on the session begins with the snapshot it reads. *)
LEMMA BeginOnPreserves ==
    ASSUME ApplicationSound, NEW r \in Requests, NEW op \in Readers, NEW todo \in Seq(Step),
           challenge # NoChallenge, BeginOn(r, op, todo), Queue(todo, op),
           op = "answer" => challenge.kind # "CAPTCHA",
           op = "intervene" => challenge.kind = "CAPTCHA",
           op = "complete" => todo[1].do = "expire" \/ (challenge.kind # "CAPTCHA" /\ Covered)
    PROVE  ApplicationSound'
<1> DEFINE w == [op |-> op, read |-> challenge, todo |-> todo]
<1>1. challenge \in Snapshot /\ SnapSound(challenge)
  BY DEF ApplicationSound, SessionSound
<1>2. w \in Record
  BY <1>1 DEF Record
<1>3. RecordSound(w)
  BY <1>1 DEF RecordSound, Readers
<1>4. work' = [work EXCEPT ![r] = w]
  BY DEF BeginOn, Begin
<1> HIDE DEF w
<1> QED BY <1>2, <1>3, <1>4, RequestMoves DEF BeginOn, applicationVars

(* Steps on the snapshot a request has read. *)
LEMMA ReaderAt ==
    ASSUME RequestsSound, NEW r \in Requests, NEW do, Todo(r, do),
           Belongs(do, work[r].op) => work[r].op \in Readers
    PROVE  /\ work[r] \in [op : Readers, read : Snapshot, todo : Seq(Step)]
           /\ work[r] \in Record /\ RecordSound(work[r]) /\ work[r] # Idle
           /\ work[r].read \in Snapshot /\ SnapSound(work[r].read)
           /\ Queue(work[r].todo, work[r].op) /\ Head(work[r].todo).do = do
           /\ do # "create" => source # "none"
<1>1. /\ work[r] # Idle /\ work[r] \in Record /\ RecordSound(work[r])
      /\ Task(r) \in Step /\ Task(r).do = do /\ Belongs(do, work[r].op)
      /\ \A f \in Facts : Needs(Task(r), f) => Holds(f)
  BY StepAt
<1>2. work[r] \in [op : Readers, read : Snapshot, todo : Seq(Step)]
  BY <1>1 DEF Record, Readers
<1>3. do # "create" => source # "none"
  BY <1>1 DEF Needs, Facts, Holds
<1> QED BY <1>1, <1>2, <1>3 DEF RecordSound, Task

LEMMA SaveSnapshotPreserves ==
    ASSUME ApplicationSound, NEW r \in Requests, SaveSnapshot(r)
    PROVE  ApplicationSound'
<1>1. /\ RequestsSound /\ SessionSound /\ Todo(r, "save snapshot") /\ Done(r)
      /\ challenge' = work[r].read
      /\ UNCHANGED <<applicationVars, sheet, entered, solved, overdue>>
  BY DEF ApplicationSound, SaveSnapshot
<1>2. Grown
  BY <1>1 DEF Grown, applicationVars, workflowVars, portalVars
<1>3. /\ work[r] # Idle /\ work[r].read \in Snapshot /\ SnapSound(work[r].read)
      /\ Task(r).do = "save snapshot" /\ source # "none"
  BY <1>1, ReaderAt DEF Belongs, Task
<1>4. RequestsSound'
  <2>1. Task(r).do # "expire" /\ \A f \in Facts : ~Gives(Task(r), f)
    BY <1>3 DEF Gives
  <2> QED BY <1>1, <1>2, <1>3, <2>1, RequestGoesOn
<1>5. PICK s \in Snapshot : s = work[r].read /\ SnapSound(s)
  BY <1>3
<1>6. SessionSound'
  BY <1>1, <1>2, <1>3, <1>5, SnapStands, SessionSaved
<1> QED BY <1>1, <1>2, <1>4, <1>6, ChallengeMoves

LEMMA ExpirePreserves ==
    ASSUME ApplicationSound, NEW r \in Requests, Expire(r)
    PROVE  ApplicationSound'
<1>1. /\ RequestsSound /\ SessionSound /\ Todo(r, "expire")
      /\ work' = [work EXCEPT ![r] = Idle]
      /\ challenge' = [work[r].read EXCEPT !.status = "EXPIRED"]
      /\ UNCHANGED <<applicationVars, sheet, entered, solved, overdue>>
  BY DEF ApplicationSound, Expire, Finish
<1>2. Grown
  BY <1>1 DEF Grown, applicationVars, workflowVars, portalVars
<1>3. work[r].read \in Snapshot /\ SnapSound(work[r].read) /\ source # "none"
  BY <1>1, ReaderAt DEF Belongs
<1>4. RequestsSound'
  BY <1>1, <1>2, RequestSteps
<1>5. PICK s \in Snapshot : s = work[r].read /\ SnapSound(s)
  BY <1>3
<1> DEFINE e == [s EXCEPT !.status = "EXPIRED"]
<1>6. e \in Snapshot
  BY DEF Snapshot, Statuses
<1>7. e.status = "EXPIRED" /\ e.resume = s.resume /\ e.verified = s.verified /\ e.kind = s.kind
  BY DEF Snapshot
<1>8. challenge' = e
  BY <1>1, <1>5
<1> HIDE DEF e
<1>9. SnapSound(e)
  BY <1>5, <1>7 DEF SnapSound
<1>10. SessionSound'
  BY <1>1, <1>2, <1>3, <1>6, <1>8, <1>9, SnapStands, SessionSaved
<1> QED BY <1>1, <1>2, <1>4, <1>10, ChallengeMoves

(* A request that works on its snapshot and has not saved it. *)
LEMMA ReaderGoes ==
    ASSUME RequestsSound, Grown, NEW r \in Requests,
           NEW do \in {"enter", "submit", "observe", "check"}, Todo(r, do),
           NEW s \in Snapshot, SnapSound(s)', s.kind = work[r].read.kind,
           work' = [work EXCEPT ![r] = [work[r] EXCEPT !.read = s, !.todo = Tail(@)]],
           do = "submit" => Holds("submitted")'
    PROVE  RequestsSound'
<1>1. PICK w \in [op : Readers, read : Snapshot, todo : Seq(Step)] :
         /\ w = work[r] /\ w \in Record /\ RecordSound(w)
         /\ Queue(w.todo, w.op) /\ Head(w.todo).do = do
  BY ReaderAt DEF Belongs, Readers
<1>2. Tail(w.todo) \in Seq(Step) /\ Tail(w.todo) # <<>>
  BY <1>1, RestFollows DEF Unfinished
<1> DEFINE v == [w EXCEPT !.read = s, !.todo = Tail(w.todo)]
<1>3. /\ v \in [op : Readers, read : Snapshot, todo : Seq(Step)]
      /\ v.op = w.op /\ v.read = s /\ v.todo = Tail(w.todo) /\ v.op \in Readers
  BY <1>2
<1>4. work' = [work EXCEPT ![r] = v]
  BY <1>1
<1> HIDE DEF v
<1>5. v \in Record
  BY <1>3 DEF Record
<1>6. RecordSound(v)'
  <2>1. Head(w.todo).do # "expire" /\ \A f \in Facts : Gives(Head(w.todo), f) => Holds(f)'
    BY <1>1 DEF Gives
  <2>2. v.op # "confirm" /\ v.op # "detect"
    BY <1>3 DEF Readers
  <2>3. v.read.kind = w.read.kind
    BY <1>1, <1>3
  <2>4. SnapSound(v.read)'
    BY <1>3
  <2> QED BY <1>1, <1>2, <1>3, <1>5, <2>1, <2>2, <2>3, <2>4, RecordGoes
<1> QED BY <1>4, <1>5, <1>6, RequestSteps

LEMMA BeginAnswerPreserves ==
    ASSUME ApplicationSound, NEW r \in Requests, BeginAnswer(r)
    PROVE  ApplicationSound'
<1> DEFINE e == Do("enter")
           s == Do("save snapshot")
           x == Do("expire")
<1>1. /\ Plain(e, "answer") /\ Plain(s, "answer") /\ Plain(x, "answer")
      /\ s.do \notin Unfinished /\ x.do \notin Unfinished
  BY PlainDo DEF Belongs, Unfinished, Readers
<1>2. /\ source # "none" /\ challenge # NoChallenge /\ challenge.kind # "CAPTCHA"
  BY DEF BeginAnswer, ApplicationSound, SessionSound, SnapSound
<1>3. BeginOn(r, "answer", <<x>>) \/ BeginOn(r, "answer", <<e, s>>)
  BY DEF BeginAnswer, Unless
<1> HIDE DEF e, s, x
<1>4. <<x>> \in Seq(Step) /\ Queue(<<x>>, "answer")
  BY <1>1, <1>2, SingleQueue
<1>5. <<e, s>> \in Seq(Step) /\ Queue(<<e, s>>, "answer")
  BY <1>1, <1>2, PairQueue
<1>6. "answer" \in Readers
  BY DEF Readers
<1> QED BY <1>2, <1>3, <1>4, <1>5, <1>6, BeginOnPreserves

LEMMA BeginRefreshPreserves ==
    ASSUME ApplicationSound, NEW r \in Requests, BeginRefresh(r)
    PROVE  ApplicationSound'
<1> DEFINE o == Do("observe")
           s == Do("save snapshot")
<1>1. Plain(o, "refresh") /\ Plain(s, "refresh") /\ s.do \notin Unfinished
  BY PlainDo DEF Belongs, Unfinished, Readers
<1>2. source # "none" /\ challenge # NoChallenge
  BY DEF BeginRefresh, ApplicationSound, SessionSound
<1>3. BeginOn(r, "refresh", <<o, s>>)
  BY DEF BeginRefresh
<1> HIDE DEF o, s
<1>4. <<o, s>> \in Seq(Step) /\ Queue(<<o, s>>, "refresh")
  BY <1>1, <1>2, PairQueue
<1>5. "refresh" \in Readers
  BY DEF Readers
<1> QED BY <1>2, <1>3, <1>4, <1>5, BeginOnPreserves

(* The workflow goes back to where the CAPTCHA found it: what that state claims
   has been earned. *)
LEMMA BeginInterventionPreserves ==
    ASSUME ApplicationSound, NEW r \in Requests, BeginIntervention(r)
    PROVE  ApplicationSound'
<1>1. /\ source # "none" /\ challenge # NoChallenge /\ challenge.kind = "CAPTCHA"
      /\ Earned(challenge.resume) /\ challenge.resume \in WorkflowStates
  BY DEF BeginIntervention, ApplicationSound, SessionSound, SnapSound, Snapshot
<1> DEFINE c == Do("check")
           m == Move(challenge.resume, TRUE)
           s == Do("save snapshot")
           q == <<c, m, s>>
<1>2. Plain(c, "intervene") /\ Plain(s, "intervene") /\ s.do \notin Unfinished
  BY PlainDo DEF Belongs, Unfinished, Readers
<1>3. m \in Step /\ m.do = "move" /\ m.to = challenge.resume
  BY <1>1, MoveIsStep
<1>4. BeginOn(r, "intervene", q)
  BY DEF BeginIntervention
<1> HIDE DEF c, m, s
<1>5. /\ c \in Step /\ Belongs(c.do, "intervene") /\ \A f \in Facts : Needs(c, f) => Holds(f)
      /\ s \in Step /\ Belongs(s.do, "intervene") /\ \A f \in Facts : Needs(s, f) => Holds(f)
  BY <1>1, <1>2, PlainIsReady
<1>6. Belongs(m.do, "intervene") /\ \A f \in Facts : Needs(m, f) => Holds(f)
  BY <1>1, <1>3 DEF Belongs, Needs, Earned, Holds
<1>7. q \in Seq(Step) /\ Len(q) = 3 /\ q # <<>> /\ q[1] = c /\ q[2] = m /\ q[3] = s
  <2>1. c \in Step /\ m \in Step /\ s \in Step
    BY <1>3, <1>5
  <2> QED BY <2>1
<1> HIDE DEF q
<1>8. \A i \in 1..3 : q[i] = c \/ q[i] = m \/ q[i] = s
  BY <1>7
<1>9. Queue(q, "intervene")
  BY <1>2, <1>5, <1>6, <1>7, <1>8, ReadyQueue
<1>10. "intervene" \in Readers
  BY DEF Readers
<1> QED BY <1>1, <1>4, <1>7, <1>9, <1>10, BeginOnPreserves

(* The answer is on the page: what is verified has been entered, and a review
   rests on all that one layout requires. *)
LEMMA EnterAnswerPreserves ==
    ASSUME ApplicationSound, NEW r \in Requests, EnterAnswer(r)
    PROVE  ApplicationSound'
<1>1. PICK q \in RequiredOn[work[r].read.asked] \cap RequiredOn[sheet.layout] :
         /\ entered' = entered \cup {q}
         /\ work' = [work EXCEPT ![r] =
               [work[r] EXCEPT !.read = Answered(work[r].read, q, sheet.layout), !.todo = Tail(@)]]
  BY DEF EnterAnswer, Goes
<1>2. /\ RequestsSound /\ SessionSound /\ Todo(r, "enter")
      /\ UNCHANGED <<applicationVars, challenge, sheet, solved, overdue>>
  BY DEF ApplicationSound, EnterAnswer
<1>3. Grown
  BY <1>1, <1>2 DEF Grown, applicationVars, workflowVars, portalVars
<1>4. PICK s \in Snapshot : s = work[r].read /\ SnapSound(s)
  BY <1>2, ReaderAt DEF Belongs, Readers
<1>5. s.kind # "CAPTCHA"
  BY <1>2, <1>4, StepAt DEF Belongs, RecordSound
<1>6. s.asked \in Layouts /\ sheet.layout \in Layouts /\ q \in Questions
      /\ RequiredOn[s.asked] \subseteq Questions
  BY <1>1, <1>2, <1>4, ChallengeAssumption DEF Snapshot, SessionSound
<1> DEFINE verified == s.verified \cup {q}
           ready == RequiredOn[s.asked] \subseteq verified
           a == [s EXCEPT !.verified = verified, !.seen = sheet.layout,
                          !.status = IF ready THEN "REVIEW_REQUIRED" ELSE "IN_PROGRESS",
                          !.review = IF ready THEN sheet.layout ELSE "none"]
<1>7. Answered(work[r].read, q, sheet.layout) = a
  BY <1>4 DEF Answered
<1>8. verified \in SUBSET Questions /\ verified \subseteq entered'
  BY <1>1, <1>4, <1>6 DEF Snapshot, SnapSound
<1>9. ready => Covered'
  BY <1>6, <1>8 DEF Covered
<1> HIDE DEF verified, ready
<1>10. PICK v \in Snapshot :
          /\ v = a /\ v.kind = s.kind /\ v.resume = s.resume /\ v.verified = verified
          /\ v.status = IF ready THEN "REVIEW_REQUIRED" ELSE "IN_PROGRESS"
  <2>1. a \in Snapshot
    BY <1>6, <1>8 DEF Snapshot, Statuses
  <2>2. /\ a.kind = s.kind /\ a.resume = s.resume /\ a.verified = verified
        /\ a.status = IF ready THEN "REVIEW_REQUIRED" ELSE "IN_PROGRESS"
    BY DEF Snapshot
  <2> HIDE DEF a
  <2> QED BY <2>1, <2>2
<1>11. work' = [work EXCEPT ![r] = [work[r] EXCEPT !.read = v, !.todo = Tail(@)]]
  BY <1>1, <1>7, <1>10
<1> HIDE DEF a
<1>12. Earned(v.resume)'
  BY <1>3, <1>4, <1>10, EarnedStands DEF SnapSound, Snapshot
<1>13. SnapSound(v)'
  BY <1>5, <1>8, <1>9, <1>10, <1>12 DEF SnapSound
<1>14. RequestsSound'
  <2>1. v.kind = work[r].read.kind
    BY <1>4, <1>10
  <2> QED BY <1>2, <1>3, <1>11, <1>13, <2>1, ReaderGoes
<1>15. SessionSound'
  BY <1>2, <1>3, SessionStands
<1> QED BY <1>2, <1>3, <1>14, <1>15, ChallengeMoves

LEMMA BeginCompletionPreserves ==
    ASSUME ApplicationSound, NEW r \in Requests, BeginCompletion(r)
    PROVE  ApplicationSound'
<1>1. source # "none" /\ challenge # NoChallenge
  BY DEF BeginCompletion, ApplicationSound, SessionSound
<1> DEFINE l == Do("look at review")
           u == Do("submit")
           m == Move("ASSESSMENT_COMPLETED", TRUE)
           s == Do("save snapshot")
           x == Do("expire")
           long == <<l, u>> \o <<m>> \o <<s>>
           short == <<l, u>> \o <<>> \o <<s>>
<1>2. /\ Plain(l, "complete") /\ Plain(u, "complete") /\ Plain(s, "complete")
      /\ Plain(x, "complete") /\ s.do \notin Unfinished /\ x.do \notin Unfinished
      /\ u.do = "submit" /\ x.do = "expire"
  BY PlainDo DEF Belongs, Unfinished, Readers
<1>3. m \in Step /\ m.do = "move" /\ m.to = "ASSESSMENT_COMPLETED"
  BY MoveIsStep, StatesByName DEF WorkflowStates
<1>4. "complete" \in Readers
  BY DEF Readers
<1>5. CASE overdue
  <2>1. BeginOn(r, "complete", <<x>>)
    BY <1>5 DEF BeginCompletion, Unless
  <2> HIDE DEF x
  <2>2. <<x>> \in Seq(Step) /\ Queue(<<x>>, "complete") /\ <<x>>[1] = x
    BY <1>1, <1>2, SingleQueue
  <2> QED BY <1>1, <1>2, <1>4, <2>1, <2>2, BeginOnPreserves
<1>6. CASE ~overdue
  <2>1. challenge.status = "REVIEW_REQUIRED"
    BY <1>6 DEF BeginCompletion
  <2>2. challenge.kind # "CAPTCHA" /\ Covered
    BY <1>1, <2>1 DEF ApplicationSound, SessionSound, SnapSound
  <2>3. BeginOn(r, "complete", long) \/ BeginOn(r, "complete", short)
    BY <1>6 DEF BeginCompletion, Unless
  <2> HIDE DEF l, u, m, s, x
  <2>4. /\ l \in Step /\ Belongs(l.do, "complete") /\ \A f \in Facts : Needs(l, f) => Holds(f)
        /\ u \in Step /\ Belongs(u.do, "complete") /\ \A f \in Facts : Needs(u, f) => Holds(f)
        /\ s \in Step /\ Belongs(s.do, "complete") /\ \A f \in Facts : Needs(s, f) => Holds(f)
    BY <1>1, <1>2, PlainIsReady
  <2>5. /\ long \in Seq(Step) /\ Len(long) = 4
        /\ long[1] = l /\ long[2] = u /\ long[3] = m /\ long[4] = s
    <3>1. l \in Step /\ u \in Step /\ m \in Step /\ s \in Step
      BY <1>3, <2>4
    <3> QED BY <3>1
  <2>6. short \in Seq(Step) /\ Len(short) = 3 /\ short[1] = l /\ short[2] = u /\ short[3] = s
    <3>1. l \in Step /\ u \in Step /\ s \in Step
      BY <2>4
    <3> QED BY <3>1
  <2> HIDE DEF long, short
  <2>7. Queue(long, "complete")
    <3>1. \A i \in 1..4 : i = 1 \/ i = 2 \/ i = 3 \/ i = 4
      OBVIOUS
    <3>2. Belongs(m.do, "complete")
      BY <1>3 DEF Belongs
    <3>3. \A i \in 1..4 : Belongs(long[i].do, "complete")
      BY <2>4, <2>5, <3>1, <3>2
    <3>4. ASSUME NEW i \in 1..4, NEW f \in Facts, Needs(long[i], f)
          PROVE  Holds(f) \/ \E j \in 1..(i - 1) : Gives(long[j], f)
      <4>1. CASE i # 3
        BY <4>1, <3>1, <3>4, <2>4, <2>5
      <4>2. CASE i = 3
        <5>1. f = "job" \/ f = "submitted"
          BY <4>2, <3>4, <1>3, <2>5 DEF Needs, Claims
        <5>2. f = "job" => Holds(f)
          BY <1>1 DEF Holds
        <5>3. 2 \in 1..(i - 1) /\ (f = "submitted" => Gives(long[2], f))
          BY <4>2, <1>2, <2>5 DEF Gives
        <5> QED BY <5>1, <5>2, <5>3
      <4> QED BY <4>1, <4>2
    <3>5. long # <<>>
      <4>1. Len(long) # 0
        BY <2>5
      <4> QED BY <4>1, LongIsSome, Zenon
    <3> QED BY <1>2, <2>5, <3>3, <3>4, <3>5 DEF Queue
  <2>8. Queue(short, "complete")
    <3>1. \A i \in 1..3 : short[i] = l \/ short[i] = u \/ short[i] = s
      BY <2>6
    <3>2. short # <<>> /\ short[Len(short)].do \notin Unfinished
      <4>1. Len(short) # 0
        BY <2>6
      <4>2. short # <<>>
        BY <4>1, LongIsSome, Zenon
      <4> QED BY <4>2, <1>2, <2>6
    <3> QED BY <2>4, <2>6, <3>1, <3>2, ReadyQueue
  <2> QED BY <1>1, <1>4, <2>2, <2>3, <2>5, <2>6, <2>7, <2>8, BeginOnPreserves
<1> QED BY <1>5, <1>6

LEMMA LookAtSheetPreserves ==
    ASSUME ApplicationSound, NEW r \in Requests, LookAtSheet(r)
    PROVE  ApplicationSound'
<1>1. /\ RequestsSound /\ Todo(r, "look at review") /\ Done(r)
      /\ UNCHANGED <<workflowVars, portalVars, challengeVars>>
  BY DEF ApplicationSound, LookAtSheet, applicationVars
<1>2. work[r] # Idle /\ Task(r).do = "look at review"
  BY <1>1, StepAt
<1>3. Task(r).do # "expire" /\ \A f \in Facts : ~Gives(Task(r), f)
  BY <1>2 DEF Gives
<1> QED BY <1>1, <1>2, <1>3, RequestReads

(* The completion page is seen, of a sheet whose review was covered. *)
LEMMA SubmitSheetPreserves ==
    ASSUME ApplicationSound, NEW r \in Requests, SubmitSheet(r)
    PROVE  ApplicationSound'
<1>1. /\ RequestsSound /\ SessionSound /\ Todo(r, "submit") /\ ~sheet.submitted
      /\ UNCHANGED <<applicationVars, challenge, entered, solved, overdue>>
  BY DEF ApplicationSound, SubmitSheet
<1>2. PICK accepted \in BOOLEAN :
         /\ sheet' = [sheet EXCEPT !.submitted = accepted]
         /\ IF accepted
            THEN work' = [work EXCEPT ![r] = [work[r] EXCEPT !.read.status = "COMPLETED",
                                                             !.todo = Tail(@)]]
            ELSE work' = [work EXCEPT ![r] = Idle]
  BY DEF SubmitSheet, CompletionShown, Goes, Finish
<1>3. sheet'.submitted = accepted /\ sheet'.kind = sheet.kind /\ sheet'.layout = sheet.layout
  BY <1>1, <1>2 DEF SessionSound
<1>4. Grown
  BY <1>1, <1>3 DEF Grown, applicationVars, workflowVars, portalVars
<1>5. SessionSound'
  <2>1. sheet' \in [kind : Kinds \cup {"NONE"}, layout : Layouts, submitted : BOOLEAN]
    BY <1>1, <1>2 DEF SessionSound
  <2>2. challenge' # NoChallenge => SnapSound(challenge)'
    <3>1. ASSUME challenge # NoChallenge PROVE SnapSound(challenge)'
      <4>1. PICK s \in Snapshot : s = challenge /\ SnapSound(s)
        BY <1>1, <3>1 DEF SessionSound
      <4>2. SnapSound(s)'
        BY <1>4, <4>1, SnapStands
      <4>3. challenge' = s
        BY <1>1, <4>1
      <4> QED BY <4>2, <4>3 DEF SnapSound, Earned, Covered
    <3> QED BY <1>1, <3>1
  <2> QED BY <1>1, <1>3, <1>4, <2>1, <2>2 DEF SessionSound, Grown
<1>6. CASE ~accepted
  <2>1. RequestsSound'
    BY <1>1, <1>2, <1>4, <1>6, RequestSteps
  <2> QED BY <1>1, <1>4, <1>5, <2>1, ChallengeMoves
<1>7. CASE accepted
  <2>1. PICK s \in Snapshot : s = work[r].read /\ SnapSound(s)
    BY <1>1, ReaderAt DEF Belongs, Readers
  <2>2. PICK w \in [op : Readers, read : Snapshot, todo : Seq(Step)] :
           w = work[r] /\ RecordSound(w) /\ w.op = "complete" /\ w.todo[1].do = "submit"
    <3>1. /\ work[r] \in [op : Readers, read : Snapshot, todo : Seq(Step)]
          /\ RecordSound(work[r]) /\ Head(work[r].todo).do = "submit"
          /\ work[r].op = "complete"
      BY <1>1, ReaderAt, StepAt DEF Belongs, Readers
    <3>2. Head(work[r].todo) = work[r].todo[1]
      BY <3>1, HeadIsReady DEF RecordSound
    <3> QED BY <3>1, <3>2
  <2>3. s.kind # "CAPTCHA" /\ Covered
    BY <2>1, <2>2 DEF RecordSound
  <2> DEFINE c == [s EXCEPT !.status = "COMPLETED"]
  <2>4. c \in Snapshot /\ c.kind = s.kind /\ c.status = "COMPLETED" /\ c.resume = s.resume
        /\ c.verified = s.verified
    BY DEF Snapshot, Statuses
  <2>5. [work[r] EXCEPT !.read.status = "COMPLETED", !.todo = Tail(@)]
           = [work[r] EXCEPT !.read = c, !.todo = Tail(@)]
    BY <2>1, <2>2
  <2> HIDE DEF c
  <2>6. SnapSound(s)' /\ Covered'
    BY <1>4, <2>1, <2>3, SnapStands, CoverageStands
  <2>7. SnapSound(c)'
    BY <1>3, <1>7, <2>3, <2>4, <2>6 DEF SnapSound
  <2>8. work' = [work EXCEPT ![r] = [work[r] EXCEPT !.read = c, !.todo = Tail(@)]]
    BY <1>2, <1>7, <2>5
  <2>9. Holds("submitted")'
    BY <1>3, <1>7 DEF Holds
  <2>10. RequestsSound'
    BY <1>1, <1>4, <2>1, <2>4, <2>7, <2>8, <2>9, ReaderGoes
  <2> QED BY <1>1, <1>4, <1>5, <2>10, ChallengeMoves
<1> QED BY <1>6, <1>7

(* Looking anew takes back verifications and reviews, and completes nothing. *)
LEMMA RefreshedIsSound ==
    ASSUME SessionSound, NEW s \in Snapshot, SnapSound(s)
    PROVE  /\ Refreshed(s) \in Snapshot /\ SnapSound(Refreshed(s))
           /\ Refreshed(s).kind = s.kind
<1>1. CASE s.kind = "CAPTCHA"
  BY <1>1 DEF Refreshed
<1>2. CASE s.kind # "CAPTCHA"
  <2> DEFINE changed == sheet.layout # s.seen
             reopened == changed /\ s.status = "REVIEW_REQUIRED"
             n == [s EXCEPT !.asked = sheet.layout,
                            !.verified = IF changed THEN {} ELSE s.verified,
                            !.status = IF reopened THEN "IN_PROGRESS" ELSE s.status,
                            !.review = IF reopened THEN "none" ELSE s.review]
  <2>1. Refreshed(s) = n
    BY <1>2 DEF Refreshed
  <2>2. sheet.layout \in Layouts
    BY DEF SessionSound
  <2>3. reopened => s.status = "REVIEW_REQUIRED"
    OBVIOUS
  <2> HIDE DEF changed, reopened
  <2>4. (IF changed THEN {} ELSE s.verified) \in SUBSET s.verified
    OBVIOUS
  <2>5. /\ n \in Snapshot /\ n.kind = s.kind /\ n.resume = s.resume
        /\ n.verified \subseteq s.verified
        /\ n.status = IF reopened THEN "IN_PROGRESS" ELSE s.status
    <3>1. n \in Snapshot
      BY <2>2, <2>4 DEF Snapshot, Statuses
    <3>2. /\ n.kind = s.kind /\ n.resume = s.resume
          /\ n.status = IF reopened THEN "IN_PROGRESS" ELSE s.status
          /\ n.verified = IF changed THEN {} ELSE s.verified
      BY DEF Snapshot
    <3> QED BY <2>4, <3>1, <3>2
  <2> HIDE DEF n
  <2>6. SnapSound(n)
    BY <1>2, <2>3, <2>5 DEF SnapSound
  <2> QED BY <2>1, <2>5, <2>6
<1> QED BY <1>1, <1>2

LEMMA EndedIsSound ==
    ASSUME NEW s \in Snapshot, SnapSound(s), NEW status \in {"FAILED", "EXPIRED"}
    PROVE  /\ [s EXCEPT !.status = status] \in Snapshot
           /\ SnapSound([s EXCEPT !.status = status])
           /\ [s EXCEPT !.status = status].kind = s.kind
<1> DEFINE e == [s EXCEPT !.status = status]
<1>1. e \in Snapshot
  BY DEF Snapshot, Statuses
<1>2. e.status = status /\ e.resume = s.resume /\ e.verified = s.verified /\ e.kind = s.kind
  BY DEF Snapshot
<1> HIDE DEF e
<1>3. SnapSound(e)
  BY <1>2 DEF SnapSound
<1> QED BY <1>1, <1>2, <1>3 DEF e

LEMMA RefreshPreserves ==
    ASSUME ApplicationSound, NEW r \in Requests, Refresh(r)
    PROVE  ApplicationSound'
<1>1. /\ RequestsSound /\ SessionSound /\ Todo(r, "observe")
      /\ UNCHANGED <<workflowVars, portalVars, challengeVars>>
  BY DEF ApplicationSound, Refresh, applicationVars
<1>2. Grown /\ sheet' = sheet /\ challenge' = challenge
  BY <1>1 DEF Grown, workflowVars, portalVars, challengeVars
<1>3. PICK s \in Snapshot : s = work[r].read /\ SnapSound(s)
  BY <1>1, ReaderAt DEF Belongs, Readers
<1>4. PICK v \in Snapshot :
         /\ SnapSound(v) /\ v.kind = s.kind
         /\ work' = [work EXCEPT ![r] = [work[r] EXCEPT !.read = v, !.todo = Tail(@)]]
  <2> DEFINE n == IF s.kind # Detected THEN [s EXCEPT !.status = "FAILED"]
                  ELSE IF overdue THEN [Refreshed(s) EXCEPT !.status = "EXPIRED"]
                  ELSE Refreshed(s)
  <2>1. work' = [work EXCEPT ![r] = [work[r] EXCEPT !.read = n, !.todo = Tail(@)]]
    BY <1>3 DEF Refresh, Goes
  <2>2. /\ Refreshed(s) \in Snapshot /\ SnapSound(Refreshed(s)) /\ Refreshed(s).kind = s.kind
    BY <1>1, <1>3, RefreshedIsSound
  <2>3. /\ [s EXCEPT !.status = "FAILED"] \in Snapshot
        /\ SnapSound([s EXCEPT !.status = "FAILED"])
        /\ [s EXCEPT !.status = "FAILED"].kind = s.kind
    BY <1>3, EndedIsSound
  <2>4. PICK f \in Snapshot : f = Refreshed(s) /\ SnapSound(f) /\ f.kind = s.kind
    BY <2>2
  <2>5. /\ [f EXCEPT !.status = "EXPIRED"] \in Snapshot
        /\ SnapSound([f EXCEPT !.status = "EXPIRED"])
        /\ [f EXCEPT !.status = "EXPIRED"].kind = s.kind
    BY <2>4, EndedIsSound
  <2>6. n \in Snapshot /\ SnapSound(n) /\ n.kind = s.kind
    <3>1. CASE s.kind # Detected
      BY <3>1, <2>3
    <3>2. CASE s.kind = Detected /\ overdue
      BY <3>2, <2>4, <2>5
    <3>3. CASE s.kind = Detected /\ ~overdue
      BY <3>3, <2>2
    <3> QED BY <3>1, <3>2, <3>3
  <2> HIDE DEF n
  <2> QED BY <2>1, <2>6
<1>5. RequestsSound'
  <2>1. SnapSound(v)'
    BY <1>2, <1>4, SnapStands
  <2> QED BY <1>1, <1>2, <1>3, <1>4, <2>1, ReaderGoes
<1>6. SessionSound'
  BY <1>1, <1>2, SessionStands
<1> QED BY <1>1, <1>2, <1>5, <1>6, ChallengeMoves DEF applicationVars

(* A CAPTCHA that no longer covers the page has been solved. *)
LEMMA CheckClearedPreserves ==
    ASSUME ApplicationSound, NEW r \in Requests, CheckCleared(r)
    PROVE  ApplicationSound'
<1>1. /\ RequestsSound /\ SessionSound /\ Todo(r, "check") /\ ~captcha
      /\ UNCHANGED <<workflowVars, portalVars, challengeVars>>
      /\ work' = [work EXCEPT ![r] = [work[r] EXCEPT !.read.status = "COMPLETED", !.todo = Tail(@)]]
  BY DEF ApplicationSound, CheckCleared, applicationVars, Goes
<1>2. Grown /\ sheet' = sheet /\ challenge' = challenge
  BY <1>1 DEF Grown, workflowVars, portalVars, challengeVars
<1>3. PICK w \in [op : Readers, read : Snapshot, todo : Seq(Step)] :
         w = work[r] /\ RecordSound(w) /\ w.op = "intervene"
  <2>1. /\ work[r] \in [op : Readers, read : Snapshot, todo : Seq(Step)]
        /\ RecordSound(work[r]) /\ work[r].op = "intervene"
    BY <1>1, ReaderAt, StepAt DEF Belongs, Readers
  <2> QED BY <2>1
<1>4. PICK s \in Snapshot : s = w.read /\ SnapSound(s) /\ s.kind = "CAPTCHA"
  BY <1>3 DEF RecordSound, Readers
<1> DEFINE c == [s EXCEPT !.status = "COMPLETED"]
<1>5. c \in Snapshot /\ c.kind = s.kind /\ c.status = "COMPLETED" /\ c.resume = s.resume
      /\ c.verified = s.verified
  BY DEF Snapshot, Statuses
<1>6. [work[r] EXCEPT !.read.status = "COMPLETED", !.todo = Tail(@)]
         = [work[r] EXCEPT !.read = c, !.todo = Tail(@)]
  BY <1>3, <1>4
<1> HIDE DEF c
<1>7. SnapSound(c)
  BY <1>1, <1>4, <1>5 DEF SnapSound
<1>8. RequestsSound'
  <2>1. SnapSound(c)'
    BY <1>2, <1>5, <1>7, SnapStands
  <2>2. work' = [work EXCEPT ![r] = [work[r] EXCEPT !.read = c, !.todo = Tail(@)]]
    BY <1>1, <1>6
  <2>3. c.kind = work[r].read.kind
    BY <1>3, <1>4, <1>5
  <2> QED BY <1>1, <1>2, <1>5, <2>1, <2>2, <2>3, ReaderGoes
<1>9. SessionSound'
  BY <1>1, <1>2, SessionStands
<1> QED BY <1>1, <1>2, <1>8, <1>9, ChallengeMoves DEF applicationVars

LEMMA ServeChallengePreserves ==
    ASSUME ApplicationSound, NEW r \in Requests, ServeChallenge(r)
    PROVE  ApplicationSound'
<1>1. CASE /\ Abandon(r, {"detect", "answer", "complete", "refresh", "intervene"})
           /\ UNCHANGED <<applicationVars, challengeVars>>
  BY <1>1, RequestEnds DEF Abandon, applicationVars
<1> QED
  BY <1>1, BeginDetectionPreserves, DetectPreserves, SaveSnapshotPreserves, ExpirePreserves,
     BeginAnswerPreserves, EnterAnswerPreserves, BeginCompletionPreserves, LookAtSheetPreserves,
     SubmitSheetPreserves, BeginRefreshPreserves, RefreshPreserves, BeginInterventionPreserves,
     CheckClearedPreserves DEF ServeChallenge

LEMMA LayoutChangesPreserves ==
    ASSUME ApplicationSound, LayoutChanges
    PROVE  ApplicationSound'
<1>1. PICK l \in Layouts : sheet' = [sheet EXCEPT !.layout = l]
  BY DEF LayoutChanges
<1>2. /\ SessionSound /\ RequestsSound
      /\ UNCHANGED <<work, applicationVars, challenge, entered, solved, overdue>>
  BY DEF ApplicationSound, LayoutChanges
<1>3. /\ sheet' \in [kind : Kinds \cup {"NONE"}, layout : Layouts, submitted : BOOLEAN]
      /\ sheet'.kind = sheet.kind /\ sheet'.submitted = sheet.submitted /\ sheet'.layout = l
  BY <1>1, <1>2 DEF SessionSound
<1>4. Grown
  BY <1>2, <1>3 DEF Grown, applicationVars, workflowVars, portalVars
<1>5. RequestsSound'
  BY <1>2, <1>4, RequestsStand
<1>6. challenge' # NoChallenge => SnapSound(challenge)'
  <2>1. ASSUME challenge # NoChallenge PROVE SnapSound(challenge)'
    <3>1. PICK s \in Snapshot : s = challenge /\ SnapSound(s)
      BY <1>2, <2>1 DEF SessionSound
    <3>2. SnapSound(s)' /\ challenge' = s
      BY <1>2, <1>4, <3>1, SnapStands
    <3> QED BY <3>2 DEF SnapSound, Earned, Covered
  <2> QED BY <1>2, <2>1
<1>7. SessionSound'
  BY <1>2, <1>3, <1>4, <1>6 DEF SessionSound, Grown
<1> QED BY <1>2, <1>4, <1>5, <1>7, ChallengeMoves

LEMMA TimeIsUpPreserves ==
    ASSUME ApplicationSound, TimeIsUp
    PROVE  ApplicationSound'
<1>1. /\ SessionSound /\ RequestsSound
      /\ UNCHANGED <<work, applicationVars, challenge, sheet, entered, solved>>
  BY DEF ApplicationSound, TimeIsUp
<1>2. Grown
  BY <1>1 DEF Grown, applicationVars, workflowVars, portalVars
<1>3. RequestsSound' /\ SessionSound'
  BY <1>1, <1>2, RequestsStand, SessionStands
<1> QED BY <1>1, <1>2, <1>3, ChallengeMoves

-----------------------------------------------------------------------------
(* The program stops; the requests are gone and the rest stays. *)
LEMMA StopPreserves ==
    ASSUME ApplicationSound, Crash, UNCHANGED <<workflowVars, portalVars, challengeVars>>
    PROVE  ApplicationSound'
<1>1. Grown
  BY NothingGrows DEF workflowVars, portalVars, challengeVars
<1>2. RequestsSound'
  BY DEF Crash, RequestsSound
<1>3. LogSound'
  BY <1>1, LogStands DEF ApplicationSound
<1> QED BY <1>1, <1>2, <1>3, WorkflowMoves

LEMMA NothingPreserves ==
    ASSUME ApplicationSound, UNCHANGED <<work, workflowVars, portalVars, challengeVars>>
    PROVE  ApplicationSound'
<1>1. Grown
  BY NothingGrows DEF workflowVars, portalVars, challengeVars
<1>2. RequestsSound'
  BY <1>1, RequestsStand DEF ApplicationSound
<1>3. LogSound'
  BY <1>1, LogStands DEF ApplicationSound
<1> QED BY <1>1, <1>2, <1>3, WorkflowMoves

LEMMA SimulatingPreserves == ASSUME ApplicationSound, Simulating PROVE ApplicationSound'
<1>1. PICK r \in Requests :
         \/ CreateApplication(r) \/ Transit(r) \/ Simulate(r)
         \/ Abandon(r, {"start", "control", "public"}) /\ UNCHANGED workflowVars
  BY DEF Simulating
<1>2. UNCHANGED <<portalVars, challengeVars>>
  BY DEF Simulating
<1>3. CASE CreateApplication(r)
  BY <1>2, <1>3, CreateApplicationPreserves
<1>4. CASE Transit(r)
  BY <1>2, <1>4, AdmitTransitionPreserves, CommitTransitionPreserves DEF Transit
<1>5. CASE Simulate(r)
  BY <1>2, <1>5, StartSimulationPreserves, ControlPreserves, PublicTransitionPreserves,
     AppendEventPreserves DEF Simulate
<1>6. CASE Abandon(r, {"start", "control", "public"}) /\ UNCHANGED workflowVars
  BY <1>2, <1>6, RequestEnds DEF Abandon
<1> QED BY <1>1, <1>3, <1>4, <1>5, <1>6

LEMMA ApplyingPreserves == ASSUME ApplicationSound, Applying PROVE ApplicationSound'
<1>1. ASSUME NEW r \in Requests,
             \/ CreateApplication(r) \/ Transit(r)
             \/ Control(r) \/ PublicTransition(r) \/ AppendEvent(r),
             UNCHANGED portalVars, UNCHANGED challengeVars
      PROVE  ApplicationSound'
  BY <1>1, CreateApplicationPreserves, AdmitTransitionPreserves, CommitTransitionPreserves,
     ControlPreserves, PublicTransitionPreserves, AppendEventPreserves DEF Transit
<1>2. ASSUME NEW r \in Requests, ServePortal(r), UNCHANGED challengeVars
      PROVE  ApplicationSound'
  BY <1>2, ServePortalPreserves
<1>3. ASSUME NEW r \in Requests, ServeChallenge(r)
      PROVE  ApplicationSound'
  BY <1>3, ServeChallengePreserves
<1>4. CASE CaptchaShows \/ Solve
  BY <1>4, CaptchaPreserves
<1> QED BY <1>1, <1>2, <1>3, <1>4 DEF Applying

LEMMA AssessingPreserves == ASSUME ApplicationSound, Assessing PROVE ApplicationSound'
<1>1. ASSUME NEW r \in Requests, Transit(r), UNCHANGED <<portalVars, challengeVars>>
      PROVE  ApplicationSound'
  BY <1>1, AdmitTransitionPreserves, CommitTransitionPreserves DEF Transit
<1>2. ASSUME NEW r \in Requests, ServeChallenge(r)
      PROVE  ApplicationSound'
  BY <1>2, ServeChallengePreserves
<1>3. CASE CaptchaShows \/ Solve \/ LayoutChanges \/ TimeIsUp
  BY <1>3, CaptchaPreserves, LayoutChangesPreserves, TimeIsUpPreserves
<1> QED BY <1>1, <1>2, <1>3 DEF Assessing

LEMMA ApplicationInitially == Init => ApplicationInductive
<1> SUFFICES ASSUME Init PROVE ApplicationInductive
  OBVIOUS
<1> USE DEF Init, WorkflowInit, PortalInit, ChallengeInit, RequestsInit
<1>1. CASE desk \notin {"workbench", "portal", "assessment"}
  BY <1>1 DEF ApplicationInductive
<1>2. CASE desk \in {"workbench", "portal", "assessment"}
  <2>1. /\ state \in {"DISCOVERED", "ANSWERS_VALIDATED"} /\ last = NoEvent
        /\ page \in {"none", "assessment"} /\ captcha = FALSE /\ portalRun = "none"
        /\ challenge = NoChallenge
        /\ work = [r \in Requests |-> Idle]
    BY <1>2
  <2>2. LogSound
    BY <2>1, StatesByName DEF LogSound, Earned, Claims, WorkflowStates
  <2>3. PortalSound
    BY <2>1 DEF PortalSound, Pages, AfterSubmit
  <2>4. SessionSound
    <3>1. PICK kind \in Kinds \cup {"NONE"} :
             /\ kind # "CAPTCHA"
             /\ sheet = [kind |-> kind, layout |-> FirstLayout, submitted |-> FALSE]
      BY <1>2, SheetAssumption
    <3> QED BY <2>1, <3>1, ChallengeAssumption DEF SessionSound
  <2>5. RequestsSound
    BY <2>1 DEF RequestsSound
  <2> QED BY <1>2, <2>2, <2>3, <2>4, <2>5 DEF ApplicationInductive, ApplicationSound
<1> QED BY <1>1, <1>2

LEMMA ApplicationNext == ApplicationInductive /\ [Next]_vars => ApplicationInductive'
<1> SUFFICES ASSUME ApplicationInductive, [Next]_vars PROVE ApplicationInductive'
  OBVIOUS
<1>1. desk' = desk
  BY DEF Next, Simulating, Applying, Assessing, ReadingMail, Reviewing, Stopping, At, vars
<1>2. CASE desk \in {"workbench", "portal", "assessment"}
  <2>1. ApplicationSound
    BY <1>2 DEF ApplicationInductive
  <2>2. \/ Simulating \/ Applying \/ Assessing \/ Stopping
        \/ UNCHANGED <<work, workflowVars, portalVars, challengeVars>>
    BY <1>2 DEF Next, ReadingMail, Reviewing, At, vars
  <2>3. ASSUME Stopping PROVE ApplicationSound'
    BY <2>1, <2>3, StopPreserves DEF Stopping
  <2>4. ApplicationSound'
    BY <2>1, <2>2, <2>3, SimulatingPreserves, ApplyingPreserves, AssessingPreserves,
       NothingPreserves
  <2> QED BY <1>1, <1>2, <2>4 DEF ApplicationInductive
<1>3. CASE desk \notin {"workbench", "portal", "assessment"}
  <2>1. UNCHANGED <<workflowVars, portalVars, challengeVars>>
    BY <1>3 DEF Next, Simulating, Applying, Assessing, ReadingMail, Reviewing, Stopping, At, vars
  <2> QED
    BY <1>1, <1>3, <2>1 DEF ApplicationInductive, workflowVars, portalVars, challengeVars
<1> QED BY <1>2, <1>3

-----------------------------------------------------------------------------
LEMMA ApplicationAlways == Spec => []ApplicationInductive
<1> QED BY ApplicationInitially, ApplicationNext, PTL DEF Spec

(***************************************************************************)
(* Whatever requests race for an application's row, the log of a real one  *)
(* ends in its state: only apply_transition, which commits both, appends   *)
(* to it, and the public endpoint appends to simulated ones alone          *)
(* (permits_public_transition).                                            *)
(***************************************************************************)
THEOREM HistoryIsTrue == Spec => []RealHistoryIsTrue
<1>1. ApplicationInductive => RealHistoryIsTrue
  BY DEF ApplicationInductive, ApplicationSound, LogSound, RealHistoryIsTrue
<1> QED BY <1>1, ApplicationAlways, PTL

(***************************************************************************)
(* An application counts as submitted only after the portal has shown a    *)
(* confirmation code, and a run is saved as tracked only once the resume   *)
(* is kept as evidence: confirm's later steps rest on its earlier ones,    *)
(* and a CAPTCHA's resume goes back to no state the application had not    *)
(* earned.                                                                 *)
(***************************************************************************)
THEOREM TrackedStands == Spec => []TrackedIsTrue
<1>1. ApplicationInductive => TrackedIsTrue
  BY DEF ApplicationInductive, ApplicationSound, LogSound, PortalSound, Earned, Claims, Facts,
         Holds, TrackedIsTrue
<1> QED BY <1>1, ApplicationAlways, PTL

(***************************************************************************)
(* A challenge is completed only when its CAPTCHA was solved, or its page  *)
(* submitted with every question answered that one of its layouts          *)
(* required: a snapshot read before a layout changed or a CAPTCHA came is  *)
(* old, but what it claims is not taken back (ChallengeService).           *)
(***************************************************************************)
THEOREM CompletedStands == Spec => []CompletedIsTrue
<1>1. ApplicationInductive => CompletedIsTrue
  BY DEF ApplicationInductive, ApplicationSound, LogSound, SessionSound, SnapSound, Earned,
         Claims, Facts, Holds, Covered, CompletedIsTrue
<1> QED BY <1>1, ApplicationAlways, PTL

-----------------------------------------------------------------------------
(* The inbox, and the dialogs in which the owner approves. *)

Connections == 1..MaxConnections
Cursors == Nat \cup {NoCursor}

SyncWork ==
    [op : {"sync"}, at : {"cursor", "list", "fetch", "save", "store", "insert"},
     binding : Connections, prior : Cursors, mark : Cursors, batch : SUBSET Nat]

(* All that arrived up to the position is stored, is about to be, or is gone. *)
Covers(binding, position, batch) ==
    \A n \in Present(AccountOf[binding]) :
        n <= position => <<binding, n>> \in records \/ n \in batch

(* A position a sync or the stored cursor rests on: it is one the mailbox has
   reached, so that what arrives later comes after it. *)
Rests(binding, position, batch) ==
    /\ position <= arrived[AccountOf[binding]]
    /\ Covers(binding, position, batch)

SyncConsistent(w) ==
    /\ Rests(w.binding, w.prior, {})
    /\ w.mark <= arrived[AccountOf[w.binding]]
    /\ w.at \in {"fetch", "save"} => Covers(w.binding, w.mark, w.batch)
    /\ w.at \in {"store", "insert"} => Covers(w.binding, w.mark, {})

MailTypeOK ==
    /\ work \in [Requests -> SyncWork \cup {Idle}]
    /\ arrived \in [Accounts -> Nat]
    /\ connection \in Connections
    /\ syncState \in [binding : Connections, cursor : Cursors] \cup {NoSync}

MailInductive ==
    /\ MailTypeOK
    /\ \A r \in Requests : work[r] # Idle => SyncConsistent(work[r])
    /\ syncState # NoSync => Rests(syncState.binding, syncState.cursor, {})

(* At every other desk nothing is synced. *)
InboxInductive == IF desk = "mail" THEN MailInductive ELSE syncState = NoSync

LEMMA AccountsOfConnections == \A c \in Connections : AccountOf[c] \in Accounts
BY DEF Connections, Accounts

(* What rests on a position still does when mail arrives, is deleted or stored. *)
LEMMA RestsStands ==
    ASSUME arrived \in [Accounts -> Nat], arrived' \in [Accounts -> Nat],
           \A a \in Accounts : arrived[a] <= arrived'[a],
           deleted \subseteq deleted', records \subseteq records'
    PROVE  \A b \in Connections, p \in Cursors, batch \in SUBSET Nat :
              p <= arrived[AccountOf[b]] =>
                 /\ p <= arrived'[AccountOf[b]]
                 /\ Covers(b, p, batch) => Covers(b, p, batch)'
<1> SUFFICES ASSUME NEW b \in Connections, NEW p \in Cursors, NEW batch \in SUBSET Nat,
                    p <= arrived[AccountOf[b]]
             PROVE  /\ p <= arrived'[AccountOf[b]]
                    /\ Covers(b, p, batch) => Covers(b, p, batch)'
  OBVIOUS
<1>1. AccountOf[b] \in Accounts
  BY AccountsOfConnections
<1>2. p <= arrived'[AccountOf[b]]
  BY <1>1 DEF Cursors, NoCursor
<1>3. ASSUME Covers(b, p, batch) PROVE Covers(b, p, batch)'
  BY <1>1, <1>3 DEF Covers, Present, Cursors, NoCursor
<1> QED BY <1>2, <1>3

LEMMA PositionStands ==
    ASSUME arrived \in [Accounts -> Nat], arrived' \in [Accounts -> Nat],
           \A a \in Accounts : arrived[a] <= arrived'[a],
           deleted \subseteq deleted', records \subseteq records'
    PROVE  \A b \in Connections, p \in Cursors : Rests(b, p, {}) => Rests(b, p, {})'
<1> SUFFICES ASSUME NEW b \in Connections, NEW p \in Cursors, Rests(b, p, {})
             PROVE  Rests(b, p, {})'
  OBVIOUS
<1>1. {} \in SUBSET Nat
  OBVIOUS
<1> QED BY <1>1, RestsStands DEF Rests

(* A step of one request that keeps the mailboxes and adds at most to the
   records: the others stay consistent, and so does the stored cursor. *)
LEMMA Steps ==
    ASSUME MailInductive, NEW r \in Requests, NEW w \in SyncWork \cup {Idle},
           work' = [work EXCEPT ![r] = w],
           UNCHANGED <<arrived, deleted, connection, syncState>>,
           records \subseteq records',
           w # Idle => SyncConsistent(w)'
    PROVE  MailInductive'
<1> USE DEF MailInductive, MailTypeOK
<1>1. MailTypeOK'
  OBVIOUS
<1>2. ASSUME NEW s \in Requests, work'[s] # Idle PROVE SyncConsistent(work[s])'
  <2>1. CASE s = r
    <3>1. work'[s] = w
      BY <2>1
    <3> QED BY <3>1, <1>2 DEF SyncConsistent, Rests, Covers, Present
  <2>2. CASE s # r
    <3>1. work'[s] = work[s] /\ work[s] \in SyncWork /\ SyncConsistent(work[s])
      BY <2>2, <1>2
    <3>2. PICK v \in SyncWork : v = work[s] /\ SyncConsistent(v) /\ v = work'[s]
      BY <3>1
    <3>3. SyncConsistent(v)'
      BY <3>2, RestsStands DEF SyncConsistent, Rests, SyncWork
    <3> QED BY <3>2, <3>3 DEF SyncConsistent, Rests, Covers, Present
  <2> QED BY <2>1, <2>2
<1>3. ASSUME syncState' # NoSync PROVE Rests(syncState.binding, syncState.cursor, {})'
  <2>1. PICK b \in Connections, p \in Cursors : b = syncState.binding /\ p = syncState.cursor
    BY <1>3
  <2>2. Rests(b, p, {})'
    BY <2>1, <1>3, PositionStands
  <2> QED BY <2>1, <2>2 DEF Rests, Covers, Present
<1> QED BY <1>1, <1>2, <1>3

(* A step of the mailboxes or of the user: every request keeps what it has. *)
LEMMA WorldMoves ==
    ASSUME MailInductive, UNCHANGED <<work, records, syncState>>, deleted \subseteq deleted',
           arrived' \in [Accounts -> Nat], \A a \in Accounts : arrived[a] <= arrived'[a],
           connection' \in Connections
    PROVE  MailInductive'
<1> USE DEF MailInductive, MailTypeOK
<1>1. MailTypeOK'
  OBVIOUS
<1>2. ASSUME NEW s \in Requests, work'[s] # Idle PROVE SyncConsistent(work[s])'
  <2>1. PICK v \in SyncWork : v = work[s] /\ SyncConsistent(v) /\ v = work'[s]
    BY <1>2
  <2>2. SyncConsistent(v)'
    BY <2>1, RestsStands DEF SyncConsistent, Rests, SyncWork
  <2> QED BY <2>1, <2>2 DEF SyncConsistent, Rests, Covers, Present
<1>3. ASSUME syncState' # NoSync PROVE Rests(syncState.binding, syncState.cursor, {})'
  <2>1. PICK b \in Connections, p \in Cursors : b = syncState.binding /\ p = syncState.cursor
    BY <1>3
  <2>2. Rests(b, p, {})'
    BY <2>1, <1>3, PositionStands
  <2> QED BY <2>1, <2>2 DEF Rests, Covers, Present
<1> QED BY <1>1, <1>2, <1>3

(* A sync at some stage is one of the records the invariant speaks of. *)
LEMMA Syncs ==
    ASSUME MailInductive, NEW r \in Requests, NEW at, Syncing(r, at)
    PROVE  /\ work[r] \in SyncWork /\ SyncConsistent(work[r]) /\ work[r].at = at
           /\ AccountOf[work[r].binding] \in Accounts
           /\ arrived[AccountOf[work[r].binding]] \in Nat
BY AccountsOfConnections DEF MailInductive, MailTypeOK, Syncing, Doing, SyncWork

(* A request that only reads: what it has by then must rest on what is stored. *)
LEMMA ReadsOn ==
    ASSUME MailInductive, NEW r \in Requests, NEW w \in SyncWork \cup {Idle},
           work' = [work EXCEPT ![r] = w], UNCHANGED inboxVars,
           w # Idle => SyncConsistent(w)
    PROVE  MailInductive'
<1>1. UNCHANGED <<arrived, deleted, connection, records, syncState>>
  BY DEF inboxVars
<1>2. w # Idle => SyncConsistent(w)'
  BY <1>1 DEF SyncConsistent, Rests, Covers, Present
<1> QED BY <1>1, <1>2, Steps

LEMMA BeginSyncPreserves ==
    ASSUME MailInductive, NEW r \in Requests, BeginSync(r)
    PROVE  MailInductive'
<1> DEFINE prior == IF syncState # NoSync /\ syncState.binding = connection
                    THEN syncState.cursor ELSE NoCursor
           begun == [op |-> "sync", at |-> "cursor", binding |-> connection, prior |-> prior,
                     mark |-> NoCursor, batch |-> {}]
<1> USE InboxAssumption DEF MailInductive, MailTypeOK
<1>1. prior \in Cursors /\ AccountOf[connection] \in Accounts /\ arrived[AccountOf[connection]] \in Nat
  BY AccountsOfConnections DEF Cursors
<1>2. Rests(connection, prior, {})
  BY <1>1 DEF Rests, Covers, Present, NoCursor
<1>3. begun \in SyncWork /\ work' = [work EXCEPT ![r] = begun]
  BY <1>1 DEF BeginSync, Begin, SyncWork, Cursors
<1>4. SyncConsistent(begun)
  BY <1>1, <1>2 DEF SyncConsistent, NoCursor
<1> HIDE DEF begun
<1>5. PICK w \in SyncWork : work' = [work EXCEPT ![r] = w] /\ SyncConsistent(w)
  BY <1>3, <1>4
<1> QED BY <1>5, ReadsOn DEF BeginSync

LEMMA ReadPositionPreserves ==
    ASSUME MailInductive, NEW r \in Requests, ReadPosition(r)
    PROVE  MailInductive'
<1>1. /\ work[r] \in SyncWork /\ SyncConsistent(work[r])
      /\ arrived[AccountOf[work[r].binding]] \in Nat
  BY Syncs DEF ReadPosition, Calling
<1>2. PICK w \in SyncWork :
         /\ work' = [work EXCEPT ![r] = w]
         /\ w = [work[r] EXCEPT !.mark = arrived[AccountOf[work[r].binding]], !.at = "list"]
  BY <1>1 DEF ReadPosition, Goes, SyncWork, Position, Mailbox, Cursors
<1>3. SyncConsistent(w)
  BY <1>1, <1>2 DEF SyncConsistent, SyncWork
<1> QED BY <1>2, <1>3, ReadsOn DEF ReadPosition

LEMMA ListMailboxPreserves ==
    ASSUME MailInductive, NEW r \in Requests, ListMailbox(r)
    PROVE  MailInductive'
<1>1. /\ work[r] \in SyncWork /\ SyncConsistent(work[r])
      /\ arrived[AccountOf[work[r].binding]] \in Nat
  BY Syncs DEF ListMailbox, Calling
<1>2. PICK w \in SyncWork :
         /\ work' = [work EXCEPT ![r] = w]
         /\ w.binding = work[r].binding /\ w.prior = work[r].prior
         /\ w.mark \in {work[r].mark, arrived[AccountOf[work[r].binding]]}
         /\ w.batch = Present(AccountOf[work[r].binding]) /\ w.at \in {"fetch", "save"}
  <2> DEFINE listed == [work[r] EXCEPT !.batch = Present(Mailbox(r)), !.at = Listed,
                                       !.mark = IF provider = "gmail" THEN @ ELSE Position(r)]
  <2>1. work' = [work EXCEPT ![r] = listed]
    BY DEF ListMailbox, Goes
  <2>2. Position(r) \in Nat /\ Present(Mailbox(r)) \in SUBSET Nat /\ Listed \in {"fetch", "save"}
    BY <1>1 DEF Position, Mailbox, Present, Listed
  <2>3. /\ listed \in SyncWork
        /\ listed.binding = work[r].binding /\ listed.prior = work[r].prior
        /\ listed.mark \in {work[r].mark, Position(r)}
        /\ listed.batch = Present(Mailbox(r)) /\ listed.at \in {"fetch", "save"}
    BY <1>1, <2>2 DEF SyncWork, Cursors
  <2> HIDE DEF listed
  <2> QED BY <2>1, <2>3 DEF Position, Mailbox
<1>3. SyncConsistent(w)
  BY <1>1, <1>2 DEF SyncConsistent, Covers
<1> QED BY <1>2, <1>3, ReadsOn DEF ListMailbox

(* What the provider reports as new starts where the prior cursor ends. *)
LEMMA ListChangesPreserves ==
    ASSUME MailInductive, NEW r \in Requests, ListChanges(r)
    PROVE  MailInductive'
<1>1. /\ work[r] \in SyncWork /\ SyncConsistent(work[r])
      /\ arrived[AccountOf[work[r].binding]] \in Nat
  BY Syncs DEF ListChanges, Calling
<1>2. PICK w \in SyncWork :
         /\ work' = [work EXCEPT ![r] = w]
         /\ w.binding = work[r].binding /\ w.prior = work[r].prior
         /\ w.mark = arrived[AccountOf[work[r].binding]] /\ w.at \in {"fetch", "save"}
         /\ w.batch = {n \in 1..arrived[AccountOf[work[r].binding]] : n > work[r].prior}
  <2> DEFINE new == {n \in 1..Position(r) : n > work[r].prior}
             listed == [work[r] EXCEPT !.batch = new, !.mark = Position(r), !.at = Listed]
  <2>1. work' = [work EXCEPT ![r] = listed]
    BY DEF ListChanges, Goes
  <2>2. Position(r) \in Nat /\ new \in SUBSET Nat /\ Listed \in {"fetch", "save"}
    BY <1>1 DEF Position, Mailbox, Listed
  <2>3. new = {n \in 1..arrived[AccountOf[work[r].binding]] : n > work[r].prior}
    BY DEF Position, Mailbox
  <2> HIDE DEF new
  <2>4. /\ listed \in SyncWork
        /\ listed.binding = work[r].binding /\ listed.prior = work[r].prior
        /\ listed.mark = Position(r) /\ listed.batch = new /\ listed.at \in {"fetch", "save"}
    BY <1>1, <2>2 DEF SyncWork, Cursors
  <2> HIDE DEF listed
  <2> QED BY <2>1, <2>3, <2>4 DEF Position, Mailbox
<1>3. Covers(w.binding, w.mark, w.batch)
  BY <1>1, <1>2 DEF SyncConsistent, Rests, Covers, Present, SyncWork, Cursors, NoCursor
<1>4. SyncConsistent(w)
  BY <1>1, <1>2, <1>3 DEF SyncConsistent
<1> QED BY <1>2, <1>4, ReadsOn DEF ListChanges

LEMMA FetchMessagesPreserves ==
    ASSUME MailInductive, NEW r \in Requests, FetchMessages(r)
    PROVE  MailInductive'
<1>1. work[r] \in SyncWork /\ SyncConsistent(work[r]) /\ work[r].at = "fetch"
  BY Syncs DEF FetchMessages, Calling
<1>2. PICK w \in SyncWork :
         /\ work' = [work EXCEPT ![r] = w]
         /\ w = [work[r] EXCEPT !.batch = @ \cap Present(AccountOf[work[r].binding]), !.at = "save"]
  BY <1>1 DEF FetchMessages, Goes, SyncWork, Mailbox
<1>3. SyncConsistent(w)
  BY <1>1, <1>2 DEF SyncConsistent, SyncWork, Covers
<1> QED BY <1>2, <1>3, ReadsOn DEF FetchMessages

(* A saved message leaves the batch for the records. *)
LEMMA SaveRecordPreserves ==
    ASSUME MailInductive, NEW r \in Requests, SaveRecord(r)
    PROVE  MailInductive'
<1>1. work[r] \in SyncWork /\ SyncConsistent(work[r]) /\ work[r].at = "save"
  BY Syncs DEF SaveRecord
<1>2. PICK n : /\ records' = records \cup {<<work[r].binding, n>>}
               /\ work' = [work EXCEPT ![r] = [work[r] EXCEPT !.batch = @ \ {n}]]
  BY DEF SaveRecord, Goes
<1>3. UNCHANGED <<arrived, deleted, connection, syncState>>
  BY DEF SaveRecord
<1>4. PICK v \in SyncWork : v = work[r] /\ SyncConsistent(v) /\ v.at = "save"
  BY <1>1
<1>5. PICK w \in SyncWork :
         /\ work' = [work EXCEPT ![r] = w]
         /\ w.binding = v.binding /\ w.prior = v.prior /\ w.mark = v.mark
         /\ w.at = "save" /\ w.batch = v.batch \ {n}
  <2> DEFINE saved == [v EXCEPT !.batch = @ \ {n}]
  <2>1. work' = [work EXCEPT ![r] = saved]
    BY <1>2, <1>4
  <2>2. v.batch \ {n} \in SUBSET Nat
    BY DEF SyncWork
  <2>3. /\ saved \in SyncWork
        /\ saved.binding = v.binding /\ saved.prior = v.prior /\ saved.mark = v.mark
        /\ saved.at = "save" /\ saved.batch = v.batch \ {n}
    BY <1>4, <2>2 DEF SyncWork
  <2> HIDE DEF saved
  <2> QED BY <2>1, <2>3
<1>6. Rests(v.binding, v.prior, {})' /\ v.mark <= arrived'[AccountOf[v.binding]]
  BY <1>2, <1>3, <1>4 DEF SyncConsistent, Rests, Covers, Present
<1>7. Covers(v.binding, v.mark, v.batch \ {n})'
  BY <1>2, <1>3, <1>4 DEF SyncConsistent, Covers, Present
<1>8. SyncConsistent(w)'
  BY <1>5, <1>6, <1>7 DEF SyncConsistent, Rests, Covers, Present
<1> QED BY <1>2, <1>3, <1>5, <1>8, Steps

LEMMA CheckCursorPreserves ==
    ASSUME MailInductive, NEW r \in Requests, CheckCursor(r)
    PROVE  MailInductive'
<1>1. work[r] \in SyncWork /\ SyncConsistent(work[r]) /\ work[r].at = "save" /\ work[r].batch = {}
  BY Syncs DEF CheckCursor
<1>2. UNCHANGED inboxVars
  BY DEF CheckCursor
<1>3. CASE work' = [work EXCEPT ![r] = Idle]
  BY <1>2, <1>3, ReadsOn
<1>4. ASSUME NEW at \in {"insert", "store"}, work' = [work EXCEPT ![r] = [work[r] EXCEPT !.at = at]]
      PROVE  MailInductive'
  <2>1. PICK w \in SyncWork : work' = [work EXCEPT ![r] = w] /\ w = [work[r] EXCEPT !.at = at]
    BY <1>1, <1>4 DEF SyncWork
  <2>2. SyncConsistent(w)
    BY <1>1, <2>1 DEF SyncConsistent, SyncWork
  <2> QED BY <1>2, <2>1, <2>2, ReadsOn
<1> QED BY <1>3, <1>4 DEF CheckCursor, Finish, Goes

(* The cursor that is stored rests on what the sync has saved, whichever cursor
   it replaces. *)
LEMMA StoreCursorPreserves ==
    ASSUME MailInductive, NEW r \in Requests, StoreCursor(r)
    PROVE  MailInductive'
<1> USE DEF MailInductive, MailTypeOK
<1>1. work[r] \in SyncWork /\ SyncConsistent(work[r]) /\ work[r].at \in {"store", "insert"}
  BY Syncs DEF StoreCursor
<1>2. /\ work' = [work EXCEPT ![r] = Idle]
      /\ syncState' = [binding |-> work[r].binding, cursor |-> work[r].mark]
      /\ UNCHANGED <<arrived, deleted, connection, records>>
  BY DEF StoreCursor, Finish, NextCursor
<1>3. MailTypeOK'
  BY <1>1, <1>2 DEF SyncWork
<1>4. ASSUME NEW s \in Requests, work'[s] # Idle PROVE SyncConsistent(work[s])'
  BY <1>2, <1>4 DEF SyncConsistent, Rests, Covers, Present
<1>5. Rests(syncState.binding, syncState.cursor, {})'
  BY <1>1, <1>2 DEF SyncConsistent, Rests, Covers, Present
<1> QED BY <1>3, <1>4, <1>5

LEMMA SyncInboxPreserves ==
    ASSUME MailInductive, NEW r \in Requests, SyncInbox(r)
    PROVE  MailInductive'
<1>1. ASSUME work' = [work EXCEPT ![r] = Idle], UNCHANGED inboxVars PROVE MailInductive'
  BY <1>1, ReadsOn
<1>2. CASE Abandon(r, {"sync"}) /\ UNCHANGED inboxVars
  BY <1>1, <1>2 DEF Abandon, Finish
<1> QED
  BY <1>2, BeginSyncPreserves, ReadPositionPreserves, ListMailboxPreserves, ListChangesPreserves,
     FetchMessagesPreserves, SaveRecordPreserves, CheckCursorPreserves, StoreCursorPreserves
     DEF SyncInbox

LEMMA InboxMovesPreserves ==
    ASSUME MailInductive, InboxMoves
    PROVE  MailInductive'
<1> USE DEF MailInductive, MailTypeOK
<1>1. ASSUME NEW a \in Accounts, MailArrives(a) PROVE MailInductive'
  <2>1. arrived' \in [Accounts -> Nat] /\ \A b \in Accounts : arrived[b] <= arrived'[b]
    BY <1>1 DEF MailArrives
  <2> HIDE DEF MailInductive, MailTypeOK
  <2>2. connection \in Connections
    BY DEF MailInductive, MailTypeOK
  <2> QED BY <1>1, <2>1, <2>2, WorldMoves DEF MailArrives
<1>2. ASSUME NEW a \in Accounts, MailIsDeleted(a) PROVE MailInductive'
  <2>1. deleted \subseteq deleted' /\ \A b \in Accounts : arrived[b] <= arrived'[b]
    BY <1>2 DEF MailIsDeleted
  <2> QED BY <1>2, <2>1, WorldMoves DEF MailIsDeleted
<1>3. ASSUME NEW a \in Accounts, CursorsExpire(a) PROVE MailInductive'
  <2>1. \A b \in Accounts : arrived[b] <= arrived'[b]
    BY <1>3 DEF CursorsExpire
  <2> QED BY <1>3, <2>1, WorldMoves DEF CursorsExpire
<1>4. CASE Reconnect
  <2>1. connection' \in Connections /\ \A b \in Accounts : arrived[b] <= arrived'[b]
    BY <1>4, InboxAssumption DEF Reconnect, Connections
  <2> QED BY <1>4, <2>1, WorldMoves DEF Reconnect
<1> QED BY <1>1, <1>2, <1>3, <1>4 DEF InboxMoves

(* The program stops: every sync in flight is gone, what it rested on stays. *)
LEMMA CrashPreserves ==
    ASSUME MailInductive, Crash, UNCHANGED inboxVars
    PROVE  MailInductive'
<1> USE DEF MailInductive, MailTypeOK
<1>1. work' = [r \in Requests |-> Idle]
  BY DEF Crash
<1>2. UNCHANGED <<arrived, deleted, connection, records, syncState>>
  BY DEF inboxVars
<1>3. MailTypeOK'
  BY <1>1, <1>2
<1>4. syncState' # NoSync => Rests(syncState.binding, syncState.cursor, {})'
  BY <1>2 DEF Rests, Covers, Present
<1> QED BY <1>1, <1>3, <1>4

LEMMA InboxInitially == Init => InboxInductive
<1> SUFFICES ASSUME Init PROVE InboxInductive
  OBVIOUS
<1>1. syncState = NoSync
  BY DEF Init, InboxInit
<1>2. CASE desk = "mail"
  <2>1. MailTypeOK
    BY <1>2, InboxAssumption DEF Init, InboxInit, RequestsInit, MailTypeOK, Connections
  <2>2. \A r \in Requests : work[r] = Idle
    BY DEF Init, RequestsInit
  <2> QED BY <1>1, <1>2, <2>1, <2>2 DEF InboxInductive, MailInductive
<1> QED BY <1>1, <1>2 DEF InboxInductive

LEMMA InboxNext == InboxInductive /\ [Next]_vars => InboxInductive'
<1> SUFFICES ASSUME InboxInductive, [Next]_vars PROVE InboxInductive'
  OBVIOUS
<1>1. CASE ReadingMail
  <2>1. desk = "mail" /\ desk' = "mail" /\ MailInductive
    BY <1>1 DEF ReadingMail, At, InboxInductive
  <2>2. MailInductive'
    BY <1>1, <2>1, SyncInboxPreserves, InboxMovesPreserves DEF ReadingMail
  <2> QED BY <2>1, <2>2 DEF InboxInductive
<1>2. CASE Reviewing
  <2>1. desk = "dialog" /\ desk' = "dialog" /\ syncState = NoSync
    BY <1>2 DEF Reviewing, At, InboxInductive
  <2>2. syncState' = syncState
    BY <1>2 DEF Reviewing, Reconnect, inboxVars
  <2> QED BY <2>1, <2>2 DEF InboxInductive
<1>3. ASSUME Simulating \/ Applying \/ Assessing PROVE InboxInductive'
  <2>1. desk # "mail" /\ desk' = desk /\ syncState' = syncState
    BY <1>3 DEF Simulating, Applying, Assessing, At, inboxVars
  <2> QED BY <2>1 DEF InboxInductive
<1>4. CASE Stopping
  <2>1. Crash /\ desk' = desk /\ UNCHANGED inboxVars /\ syncState' = syncState
    BY <1>4 DEF Stopping, inboxVars
  <2>2. CASE desk = "mail"
    BY <2>1, <2>2, CrashPreserves DEF InboxInductive
  <2>3. CASE desk # "mail"
    BY <2>1, <2>3 DEF InboxInductive
  <2> QED BY <2>2, <2>3
<1>5. CASE UNCHANGED vars
  <2>1. desk' = desk /\ UNCHANGED work /\ UNCHANGED inboxVars
    BY <1>5 DEF vars
  <2>2. UNCHANGED <<arrived, deleted, connection, records, syncState>>
    BY <2>1 DEF inboxVars
  <2> QED
    BY <2>1, <2>2 DEF InboxInductive, MailInductive, MailTypeOK, SyncConsistent, Rests, Covers, Present
<1> QED BY <1>1, <1>2, <1>3, <1>4, <1>5 DEF Next

(* No message is skipped for good: whatever arrives or is deleted while a sync
   reads, however syncs overtake each other, whichever cursors expire and
   whichever account is connected next, all that had arrived when the stored
   cursor was issued is stored or deleted by its owner (the cursor stored last
   in services/communications.py). *)
THEOREM NoMailSkipped == Spec => []NoMailIsSkipped
<1>1. InboxInductive => NoMailIsSkipped
  BY DEF InboxInductive, MailInductive, Rests, Covers, NoMailIsSkipped
<1> QED BY <1>1, InboxInitially, InboxNext, PTL DEF Spec

-----------------------------------------------------------------------------
(* Reviews and dispatches. *)

Preparing == [op : {"prepare"}, draft : Drafts, seen : Nat, at : {"create", "compare"}]
AfterApproval == {"capability again", "audits again", "dispatch", "answer"}
Handling ==
    [op : {"review"}, draft : Drafts, seen : Nat,
     at : {"capability", "audits", "dialog"} \cup AfterApproval]
Handlers == Preparing \cup Handling

(* What a handler that has come this far may count on. *)
Sound(w) ==
    /\ w.op = "prepare" => (w.at = "create" <=> bound[w.draft] = 0)
    /\ w.op = "review" => /\ bound[w.draft] # 0
                          /\ w.at = "answer" => attempts[w.draft] = "dispatched"
                          /\ w.at # "answer" => attempts[w.draft] = "reviewing"
                          /\ w.at \in AfterApproval => Detail(w.draft) \in approved
                          /\ w.at = "dialog" => ~Attempted(w.draft)

(* Two handlers meet on one draft only when one of them has dispatched it. *)
Apart(v, w) ==
    v.op = w.op /\ v.draft = w.draft => v.op = "review" /\ (v.at = "answer" \/ w.at = "answer")

CallSound(d) ==
    d \in Drafts /\ bound[d] # 0 /\ attempts[d] = "dispatched" /\ Detail(d) \in approved

DeskTypeOK ==
    /\ bound \in [Drafts -> Nat] /\ connection \in Nat \ {0}
    /\ attempts \in [Drafts -> {"none", "reviewing", "dispatched"}]
    /\ offered \subseteq Drafts

HandlersSound ==
    /\ work \in [Requests -> Handlers \cup {Idle}]
    /\ \A r \in Requests : work[r] # Idle => Sound(work[r])
    /\ \A r, s \in Requests :
          r # s /\ work[r] # Idle /\ work[s] # Idle => Apart(work[r], work[s])

LedgerSound ==
    /\ \A d \in offered : bound[d] # 0
    /\ \A d \in calls : CallSound(d)
    /\ \A c \in claims : [draft |-> c.draft, account |-> AccountOf[c.as]] \in approved

DispatchInductive == DeskTypeOK /\ HandlersSound /\ LedgerSound

(* At every other desk nothing is called or claimed. *)
DialogInductive == IF desk = "dialog" THEN DispatchInductive ELSE claims = {}

(* One handler steps: the others keep what they count on, and it has its own. *)
LEMMA HandlerSteps ==
    ASSUME HandlersSound, NEW r \in Requests, NEW w \in Handlers \cup {Idle},
           work' = [work EXCEPT ![r] = w],
           w # Idle => Sound(w)',
           \A s \in Requests : s # r /\ work[s] # Idle /\ w # Idle => Apart(w, work[s]),
           \A v \in Handlers : (\E s \in Requests : s # r /\ work[s] = v /\ v # Idle)
                                  /\ Sound(v) => Sound(v)'
    PROVE  HandlersSound'
<1>1. work' \in [Requests -> Handlers \cup {Idle}]
  BY DEF HandlersSound
<1>2. ASSUME NEW s \in Requests, work'[s] # Idle PROVE Sound(work[s])'
  <2>1. CASE s = r
    <3>1. work'[s] = w
      BY <2>1 DEF HandlersSound
    <3> QED BY <3>1, <1>2 DEF Sound, Detail, Attempted
  <2>2. CASE s # r
    <3>1. PICK v \in Handlers : v = work[s] /\ v # Idle /\ Sound(v) /\ v = work'[s]
      BY <2>2, <1>2 DEF HandlersSound
    <3>2. Sound(v)'
      BY <2>2, <3>1
    <3> QED BY <3>1, <3>2 DEF Sound, Detail, Attempted
  <2> QED BY <2>1, <2>2
<1>3. ASSUME NEW s \in Requests, NEW t \in Requests, s # t, work'[s] # Idle, work'[t] # Idle
      PROVE  Apart(work'[s], work'[t])
  BY <1>3 DEF HandlersSound, Apart
<1> QED BY <1>1, <1>2, <1>3 DEF HandlersSound, Apart

(* One handler goes on to another stage and nothing else changes. *)
LEMMA HandlerGoesOn ==
    ASSUME DispatchInductive, NEW r \in Requests, NEW w \in Handlers,
           work[r] \in Handlers, work[r] # Idle, work[r].at # "answer",
           work' = [work EXCEPT ![r] = w], UNCHANGED <<dispatchVars, connection>>,
           w.op = work[r].op, w.draft = work[r].draft, Sound(w)
    PROVE  DispatchInductive'
<1>1. UNCHANGED <<bound, offered, attempts, calls, approved, claims, connection>>
  BY DEF dispatchVars
<1>2. Sound(w)' /\ \A v \in Handlers : Sound(v) => Sound(v)'
  BY <1>1 DEF Sound, Detail, Attempted
<1>3. \A s \in Requests : s # r /\ work[s] # Idle => Apart(w, work[s])
  BY DEF DispatchInductive, HandlersSound, Apart
<1>4. HandlersSound'
  BY <1>2, <1>3, HandlerSteps DEF DispatchInductive
<1>5. DeskTypeOK' /\ LedgerSound'
  BY <1>1 DEF DispatchInductive, DeskTypeOK, LedgerSound, CallSound, Detail
<1> QED BY <1>4, <1>5 DEF DispatchInductive

LEMMA HandlerAt ==
    ASSUME DispatchInductive, NEW r \in Requests, NEW op, NEW at, Reached(r, op, at)
    PROVE  /\ work[r] \in Handlers /\ work[r] # Idle /\ Sound(work[r])
           /\ work[r].op = op /\ work[r].at = at /\ work[r].draft \in Drafts
           /\ op = "review" => work[r] \in Handling
           /\ op = "prepare" => work[r] \in Preparing
BY DEF DispatchInductive, HandlersSound, Reached, Doing, Handlers, Preparing, Handling

-----------------------------------------------------------------------------
(* Preparation *)

LEMMA BeginPreparationPreserves ==
    ASSUME DispatchInductive, NEW r \in Requests, BeginPreparation(r), UNCHANGED connection
    PROVE  DispatchInductive'
<1>1. PICK d \in Drafts :
         /\ bound[d] = 0 /\ \A s \in Requests : ~(Doing(s, "prepare") /\ work[s].draft = d)
         /\ work[r] = Idle
         /\ work' = [work EXCEPT ![r] = [op |-> "prepare", draft |-> d, seen |-> connection,
                                         at |-> "create"]]
  BY DEF BeginPreparation, Begin
<1>2. UNCHANGED <<bound, offered, attempts, calls, approved, claims, connection>>
  BY DEF BeginPreparation, dispatchVars
<1> DEFINE begun == [op |-> "prepare", draft |-> d, seen |-> connection, at |-> "create"]
<1>3. PICK w \in Handlers :
         /\ w.op = "prepare" /\ w.draft = d /\ w.at = "create" /\ work' = [work EXCEPT ![r] = w]
  <2>1. begun \in Preparing /\ begun.op = "prepare" /\ begun.draft = d /\ begun.at = "create"
    BY DEF Preparing, DispatchInductive, DeskTypeOK
  <2>2. work' = [work EXCEPT ![r] = begun]
    BY <1>1
  <2> HIDE DEF begun
  <2> QED BY <2>1, <2>2 DEF Handlers
<1> HIDE DEF begun
<1>4. Sound(w)' /\ \A v \in Handlers : Sound(v) => Sound(v)'
  BY <1>1, <1>2, <1>3 DEF Sound, Detail, Attempted
<1>5. \A s \in Requests : s # r /\ work[s] # Idle => Apart(w, work[s])
  BY <1>1, <1>3 DEF Apart, Doing
<1>6. HandlersSound'
  BY <1>3, <1>4, <1>5, HandlerSteps DEF DispatchInductive
<1>7. DeskTypeOK' /\ LedgerSound'
  BY <1>2 DEF DispatchInductive, DeskTypeOK, LedgerSound, CallSound, Detail
<1> QED BY <1>6, <1>7 DEF DispatchInductive

(* A draft that is bound only now is in nobody's review and in no call. *)
LEMMA BindingPreserves ==
    ASSUME DispatchInductive, NEW r \in Requests, Reached(r, "prepare", "create"),
           NEW w \in Preparing \cup {Idle}, work' = [work EXCEPT ![r] = w],
           w # Idle => w.draft = work[r].draft /\ w.at = "compare",
           bound' = [bound EXCEPT ![work[r].draft] = connection],
           offered' \in {offered, offered \cup {work[r].draft}},
           UNCHANGED <<attempts, calls, approved, claims, connection>>
    PROVE  DispatchInductive'
<1>1. /\ work[r] \in Handlers /\ work[r] # Idle /\ Sound(work[r]) /\ work[r].op = "prepare"
      /\ work[r].at = "create" /\ work[r].draft \in Drafts
  BY HandlerAt
<1>2. bound[work[r].draft] = 0
  BY <1>1 DEF Sound
<1>3. ASSUME NEW v \in Handlers, NEW s \in Requests, s # r, work[s] = v, v # Idle, Sound(v)
      PROVE  Sound(v)'
  <2>1. v.draft = work[r].draft => v.op # "review" /\ v.op # "prepare"
    BY <1>1, <1>2, <1>3 DEF DispatchInductive, HandlersSound, Sound, Apart
  <2>2. v.draft # work[r].draft
    BY <2>1 DEF Handlers, Preparing, Handling
  <2>3. v.draft \in Drafts
    BY DEF Handlers, Preparing, Handling
  <2>4. bound'[v.draft] = bound[v.draft]
    BY <2>2, <2>3 DEF DispatchInductive, DeskTypeOK
  <2> QED BY <1>3, <2>4 DEF Sound, Detail, Attempted
<1>4. w # Idle => Sound(w)'
  BY <1>1 DEF Sound, Preparing, DispatchInductive, DeskTypeOK
<1>5. \A s \in Requests : s # r /\ work[s] # Idle /\ w # Idle => Apart(w, work[s])
  BY <1>1 DEF DispatchInductive, HandlersSound, Apart, Preparing
<1>6. HandlersSound'
  BY <1>3, <1>4, <1>5, HandlerSteps DEF DispatchInductive, Handlers
<1>7. DeskTypeOK'
  BY <1>1 DEF DispatchInductive, DeskTypeOK
<1>8. \A d \in offered' : bound'[d] # 0
  BY <1>1 DEF DispatchInductive, DeskTypeOK, LedgerSound
<1>9. \A d \in calls : d # work[r].draft /\ CallSound(d)
  BY <1>2 DEF DispatchInductive, LedgerSound, CallSound
<1>10. \A d \in calls' : CallSound(d)'
  BY <1>9 DEF DispatchInductive, DeskTypeOK, CallSound, Detail
<1>11. LedgerSound'
  BY <1>8, <1>10 DEF DispatchInductive, LedgerSound
<1> QED BY <1>6, <1>7, <1>11 DEF DispatchInductive

LEMMA CreatePreserves ==
    ASSUME DispatchInductive, NEW r \in Requests, CreateDraft(r) \/ CreatePlan(r),
           UNCHANGED connection
    PROVE  DispatchInductive'
<1>1. CASE CreateDraft(r)
  BY <1>1, BindingPreserves DEF CreateDraft, Finish, servedVars
<1>2. CASE CreatePlan(r)
  <2>1. Reached(r, "prepare", "create") /\ work[r] \in Preparing
    BY <1>2, HandlerAt DEF CreatePlan
  <2>2. PICK w \in Preparing :
           work' = [work EXCEPT ![r] = w] /\ w.draft = work[r].draft /\ w.at = "compare"
    <3> DEFINE next == [work[r] EXCEPT !.at = "compare"]
    <3>1. work' = [work EXCEPT ![r] = next]
      BY <1>2 DEF CreatePlan, Proceed, Goes
    <3>2. next \in Preparing /\ next.draft = work[r].draft /\ next.at = "compare"
      BY <2>1 DEF Preparing
    <3> HIDE DEF next
    <3> QED BY <3>1, <3>2
  <2> QED BY <1>2, <2>1, <2>2, BindingPreserves DEF CreatePlan, servedVars
<1> QED BY <1>1, <1>2

(* A handler that ends with the rows as they are, or with what others cannot
   count on. *)
LEMMA HandlerEnds ==
    ASSUME HandlersSound, NEW r \in Requests, work' = [work EXCEPT ![r] = Idle],
           \A v \in Handlers : (\E s \in Requests : s # r /\ work[s] = v /\ v # Idle)
                                  /\ Sound(v) => Sound(v)'
    PROVE  HandlersSound'
BY HandlerSteps

LEMMA OfferPlanPreserves ==
    ASSUME DispatchInductive, NEW r \in Requests, OfferPlan(r), UNCHANGED connection
    PROVE  DispatchInductive'
<1>1. work[r].draft \in Drafts /\ bound[work[r].draft] # 0
  BY HandlerAt DEF OfferPlan, Sound
<1>2. UNCHANGED <<bound, attempts, calls, approved, claims>>
  BY DEF OfferPlan, servedVars
<1>3. HandlersSound'
  BY <1>2, HandlerEnds DEF DispatchInductive, OfferPlan, Finish, Sound, Detail, Attempted
<1>4. DeskTypeOK' /\ LedgerSound'
  BY <1>1, <1>2 DEF OfferPlan, DispatchInductive, DeskTypeOK, LedgerSound, CallSound, Detail
<1> QED BY <1>3, <1>4 DEF DispatchInductive

-----------------------------------------------------------------------------
(* Review *)

LEMMA BeginReviewPreserves ==
    ASSUME DispatchInductive, NEW r \in Requests, BeginReview(r), UNCHANGED connection
    PROVE  DispatchInductive'
<1>1. PICK d \in offered :
         /\ attempts[d] = "none" /\ attempts' = [attempts EXCEPT ![d] = "reviewing"]
         /\ work[r] = Idle
         /\ work' = [work EXCEPT ![r] = [op |-> "review", draft |-> d, seen |-> 0,
                                         at |-> IF d \in Plans THEN "capability" ELSE "audits"]]
  BY DEF BeginReview, Begin
<1>2. UNCHANGED <<bound, offered, calls, approved, claims, connection>>
  BY DEF BeginReview, preparedVars, servedVars
<1>3. d \in Drafts /\ bound[d] # 0
  BY DEF DispatchInductive, DeskTypeOK, LedgerSound
<1>4. PICK w \in Handlers :
         /\ w.op = "review" /\ w.draft = d /\ w.at \in {"capability", "audits"}
         /\ work' = [work EXCEPT ![r] = w]
  <2> DEFINE begun == [op |-> "review", draft |-> d, seen |-> 0,
                       at |-> IF d \in Plans THEN "capability" ELSE "audits"]
  <2>1. /\ begun \in Handling /\ begun.op = "review" /\ begun.draft = d
        /\ begun.at \in {"capability", "audits"}
    BY <1>3 DEF Handling
  <2>2. work' = [work EXCEPT ![r] = begun]
    BY <1>1
  <2> HIDE DEF begun
  <2> QED BY <2>1, <2>2 DEF Handlers
<1>5. \A v \in Handlers : v.op = "review" /\ Sound(v) => v.draft # d
  BY <1>1 DEF Sound
<1>6. \A v \in Handlers : v.draft \in Drafts
  BY DEF Handlers, Preparing, Handling
<1>7. \A c \in Drafts : c # d => attempts'[c] = attempts[c]
  BY <1>1 DEF DispatchInductive, DeskTypeOK
<1>8. attempts'[d] = "reviewing"
  BY <1>1, <1>3 DEF DispatchInductive, DeskTypeOK
<1>9. \A v \in Handlers : Sound(v) => Sound(v)'
  BY <1>2, <1>5, <1>6, <1>7 DEF Sound, Detail, Attempted
<1>10. Sound(w)'
  BY <1>2, <1>3, <1>4, <1>8 DEF Sound, AfterApproval
<1>11. \A s \in Requests : s # r /\ work[s] # Idle => Apart(w, work[s])
  BY <1>4, <1>5 DEF DispatchInductive, HandlersSound, Apart
<1>12. HandlersSound'
  BY <1>4, <1>9, <1>10, <1>11, HandlerSteps DEF DispatchInductive
<1>13. DeskTypeOK'
  BY <1>1, <1>2 DEF DispatchInductive, DeskTypeOK
<1>14. LedgerSound'
  BY <1>1, <1>2, <1>7 DEF DispatchInductive, LedgerSound, CallSound, Detail
<1> QED BY <1>12, <1>13, <1>14 DEF DispatchInductive

LEMMA SeeCapabilityPreserves ==
    ASSUME DispatchInductive, NEW r \in Requests, SeeCapability(r) \/ SeeCapabilityAgain(r),
           UNCHANGED connection
    PROVE  DispatchInductive'
<1>1. CASE SeeCapability(r)
  <2>1. /\ work[r] \in Handling /\ work[r] # Idle /\ Sound(work[r]) /\ work[r].op = "review"
        /\ work[r].at = "capability"
    BY <1>1, HandlerAt DEF SeeCapability
  <2>2. PICK w \in Handling :
           /\ work' = [work EXCEPT ![r] = w] /\ w.op = "review"
           /\ w.draft = work[r].draft /\ w.at = "audits"
    <3> DEFINE next == [work[r] EXCEPT !.seen = connection, !.at = "audits"]
    <3>1. work' = [work EXCEPT ![r] = next]
      BY <1>1 DEF SeeCapability, Goes
    <3>2. next \in Handling /\ next.op = "review" /\ next.draft = work[r].draft /\ next.at = "audits"
      BY <2>1 DEF Handling, DispatchInductive, DeskTypeOK
    <3> HIDE DEF next
    <3> QED BY <3>1, <3>2
  <2>3. Sound(w)
    BY <2>1, <2>2 DEF Sound, AfterApproval
  <2> QED BY <1>1, <2>1, <2>2, <2>3, HandlerGoesOn DEF SeeCapability, Handlers
<1>2. CASE SeeCapabilityAgain(r)
  <2>1. /\ work[r] \in Handling /\ work[r] # Idle /\ Sound(work[r]) /\ work[r].op = "review"
        /\ work[r].at = "capability again"
    BY <1>2, HandlerAt DEF SeeCapabilityAgain
  <2>2. PICK w \in Handling :
           /\ work' = [work EXCEPT ![r] = w] /\ w.op = "review"
           /\ w.draft = work[r].draft /\ w.at = "audits again"
    <3> DEFINE next == [work[r] EXCEPT !.at = "audits again"]
    <3>1. work' = [work EXCEPT ![r] = next]
      BY <1>2 DEF SeeCapabilityAgain, Proceed, Goes
    <3>2. /\ next \in Handling /\ next.op = "review" /\ next.draft = work[r].draft
          /\ next.at = "audits again"
      BY <2>1 DEF Handling, AfterApproval
    <3> HIDE DEF next
    <3> QED BY <3>1, <3>2
  <2>3. Sound(w)
    BY <2>1, <2>2 DEF Sound, AfterApproval
  <2> QED BY <1>2, <2>1, <2>2, <2>3, HandlerGoesOn DEF SeeCapabilityAgain, Handlers
<1> QED BY <1>1, <1>2

LEMMA LookForAttemptPreserves ==
    ASSUME DispatchInductive, NEW r \in Requests, UNCHANGED connection,
           NEW at \in {"audits", "audits again"}, NEW next \in {"dialog", "dispatch"},
           at = "audits" <=> next = "dialog", LookForAttempt(r, at, next)
    PROVE  DispatchInductive'
<1>1. /\ work[r] \in Handling /\ work[r] # Idle /\ Sound(work[r]) /\ work[r].op = "review"
      /\ work[r].at = at /\ work[r].draft \in Drafts
  BY HandlerAt DEF LookForAttempt
<1>2. UNCHANGED <<bound, offered, calls, approved, claims, connection>>
  BY DEF LookForAttempt, preparedVars, servedVars
<1>3. CASE Attempted(work[r].draft)
  <2>1. /\ work' = [work EXCEPT ![r] = Idle]
        /\ attempts' = [attempts EXCEPT ![work[r].draft] = "dispatched"]
    BY <1>3 DEF LookForAttempt, Finish
  <2>2. ASSUME NEW v \in Handlers, NEW s \in Requests, s # r, work[s] = v, v # Idle, Sound(v)
        PROVE  Sound(v)'
    <3>1. v.draft = work[r].draft /\ v.op = "review" => v.at = "answer"
      BY <1>1, <2>2 DEF DispatchInductive, HandlersSound, Apart
    <3>2. v.draft \in Drafts
      BY DEF Handlers, Preparing, Handling
    <3>3. /\ v.draft # work[r].draft => attempts'[v.draft] = attempts[v.draft]
          /\ v.draft = work[r].draft => attempts'[v.draft] = "dispatched"
      BY <1>1, <2>1, <3>2 DEF DispatchInductive, DeskTypeOK
    <3> QED BY <1>2, <2>2, <3>1, <3>3 DEF Sound, Detail, Attempted
  <2>3. HandlersSound'
    BY <2>1, <2>2, HandlerEnds DEF DispatchInductive
  <2>4. DeskTypeOK'
    BY <1>1, <1>2, <2>1 DEF DispatchInductive, DeskTypeOK
  <2>5. LedgerSound'
    BY <1>1, <1>2, <2>1 DEF DispatchInductive, DeskTypeOK, LedgerSound, CallSound, Detail
  <2> QED BY <2>3, <2>4, <2>5 DEF DispatchInductive
<1>4. CASE ~Attempted(work[r].draft)
  <2>1. PICK w \in Handling :
           /\ work' = [work EXCEPT ![r] = w] /\ w.op = "review"
           /\ w.draft = work[r].draft /\ w.at = next
    <3> DEFINE gone == [work[r] EXCEPT !.at = next]
    <3>1. work' = [work EXCEPT ![r] = gone]
      BY <1>4 DEF LookForAttempt, Proceed, Goes
    <3>2. gone \in Handling /\ gone.op = "review" /\ gone.draft = work[r].draft /\ gone.at = next
      BY <1>1 DEF Handling, AfterApproval
    <3> HIDE DEF gone
    <3> QED BY <3>1, <3>2
  <2>2. Sound(w)
    BY <1>1, <1>4, <2>1 DEF Sound, AfterApproval
  <2>3. UNCHANGED <<dispatchVars, connection>>
    BY <1>2, <1>4 DEF LookForAttempt, dispatchVars
  <2> QED BY <1>1, <2>1, <2>2, <2>3, HandlerGoesOn DEF Handlers
<1> QED BY <1>3, <1>4

LEMMA ApprovePreserves ==
    ASSUME DispatchInductive, NEW r \in Requests, Approve(r), UNCHANGED connection
    PROVE  DispatchInductive'
<1>1. /\ work[r] \in Handling /\ work[r] # Idle /\ Sound(work[r]) /\ work[r].op = "review"
      /\ work[r].at = "dialog" /\ work[r].draft \in Drafts
  BY HandlerAt DEF Approve
<1>2. /\ UNCHANGED <<bound, offered, attempts, calls, claims, connection>>
      /\ approved' = approved \cup {Detail(work[r].draft)}
  BY DEF Approve, preparedVars, servedVars
<1>3. PICK w \in Handling :
         /\ work' = [work EXCEPT ![r] = w] /\ w.op = "review" /\ w.draft = work[r].draft
         /\ w.at \in {"capability again", "dispatch"}
  <2> DEFINE next == [work[r] EXCEPT !.at = IF work[r].draft \in Plans THEN "capability again"
                                                                      ELSE "dispatch"]
  <2>1. work' = [work EXCEPT ![r] = next]
    BY DEF Approve, Proceed, Goes
  <2>2. /\ next \in Handling /\ next.op = "review" /\ next.draft = work[r].draft
        /\ next.at \in {"capability again", "dispatch"}
    BY <1>1 DEF Handling, AfterApproval
  <2> HIDE DEF next
  <2> QED BY <2>1, <2>2
<1>4. \A v \in Handlers : Sound(v) => Sound(v)'
  BY <1>2 DEF Sound, Detail, Attempted
<1>5. Sound(w)'
  BY <1>1, <1>2, <1>3 DEF Sound, Detail, Attempted
<1>6. \A s \in Requests : s # r /\ work[s] # Idle => Apart(w, work[s])
  BY <1>1, <1>3 DEF DispatchInductive, HandlersSound, Apart
<1>7. HandlersSound'
  BY <1>3, <1>4, <1>5, <1>6, HandlerSteps DEF DispatchInductive, Handlers
<1>8. DeskTypeOK' /\ LedgerSound'
  BY <1>2 DEF DispatchInductive, DeskTypeOK, LedgerSound, CallSound, Detail
<1> QED BY <1>7, <1>8 DEF DispatchInductive

LEMMA DispatchPreserves ==
    ASSUME DispatchInductive, NEW r \in Requests, Dispatch(r), UNCHANGED connection
    PROVE  DispatchInductive'
<1>1. /\ work[r] \in Handling /\ work[r] # Idle /\ Sound(work[r]) /\ work[r].op = "review"
      /\ work[r].at = "dispatch" /\ work[r].draft \in Drafts
  BY HandlerAt DEF Dispatch
<1>2. /\ UNCHANGED <<bound, offered, approved, claims, connection>>
      /\ attempts' = [attempts EXCEPT ![work[r].draft] = "dispatched"]
      /\ calls' = calls \cup {work[r].draft}
  BY DEF Dispatch, preparedVars
<1>3. PICK w \in Handling :
         work' = [work EXCEPT ![r] = w] /\ w.op = "review" /\ w.draft = work[r].draft /\ w.at = "answer"
  <2> DEFINE next == [work[r] EXCEPT !.at = "answer"]
  <2>1. work' = [work EXCEPT ![r] = next]
    BY DEF Dispatch, Proceed, Goes
  <2>2. next \in Handling /\ next.op = "review" /\ next.draft = work[r].draft /\ next.at = "answer"
    BY <1>1 DEF Handling, AfterApproval
  <2> HIDE DEF next
  <2> QED BY <2>1, <2>2
<1>4. attempts'[work[r].draft] = "dispatched"
  BY <1>1, <1>2 DEF DispatchInductive, DeskTypeOK
<1>5. ASSUME NEW v \in Handlers, NEW s \in Requests, s # r, work[s] = v, v # Idle, Sound(v)
      PROVE  Sound(v)'
  <2>1. v.draft = work[r].draft /\ v.op = "review" => v.at = "answer"
    BY <1>1, <1>5 DEF DispatchInductive, HandlersSound, Apart
  <2>2. v.draft \in Drafts
    BY DEF Handlers, Preparing, Handling
  <2>3. v.draft # work[r].draft => attempts'[v.draft] = attempts[v.draft]
    BY <1>1, <1>2, <2>2 DEF DispatchInductive, DeskTypeOK
  <2> QED BY <1>2, <1>4, <1>5, <2>1, <2>3 DEF Sound, Detail, Attempted
<1>6. Sound(w)'
  BY <1>1, <1>2, <1>3, <1>4 DEF Sound, Detail, AfterApproval
<1>7. \A s \in Requests : s # r /\ work[s] # Idle => Apart(w, work[s])
  BY <1>3 DEF Apart
<1>8. HandlersSound'
  BY <1>3, <1>5, <1>6, <1>7, HandlerSteps DEF DispatchInductive, Handlers
<1>9. DeskTypeOK'
  BY <1>1, <1>2 DEF DispatchInductive, DeskTypeOK
<1>10. PICK d \in Drafts : d = work[r].draft /\ CallSound(d)'
  <2>1. PICK d \in Drafts : d = work[r].draft
    BY <1>1
  <2> QED BY <1>1, <1>2, <1>4, <2>1 DEF Sound, CallSound, Detail, AfterApproval
<1>11. \A c \in calls : CallSound(c) => CallSound(c)'
  BY <1>1, <1>2 DEF DispatchInductive, DeskTypeOK, CallSound, Detail
<1>12. \A c \in calls' : CallSound(c)'
  BY <1>2, <1>10, <1>11 DEF DispatchInductive, LedgerSound
<1>13. LedgerSound'
  BY <1>2, <1>12 DEF DispatchInductive, LedgerSound
<1> QED BY <1>8, <1>9, <1>13 DEF DispatchInductive

(* Only a handler that has not dispatched gives its draft back. *)
LEMMA LeavePreserves ==
    ASSUME DispatchInductive, NEW r \in Requests, Leave(r), UNCHANGED connection
    PROVE  DispatchInductive'
<1>1. work[r] \in Handlers /\ work[r] # Idle /\ Sound(work[r]) /\ work[r].draft \in Drafts
  BY DEF DispatchInductive, HandlersSound, Leave, Doing, Handlers, Preparing, Handling
<1>2. /\ work' = [work EXCEPT ![r] = Idle]
      /\ UNCHANGED <<bound, offered, approved, calls, claims, connection>>
  BY DEF Leave, Finish, preparedVars, servedVars
<1>3. CASE attempts' = attempts
  <2>1. \A v \in Handlers : Sound(v) => Sound(v)'
    BY <1>2, <1>3 DEF Sound, Detail, Attempted
  <2>2. HandlersSound'
    BY <1>2, <2>1, HandlerEnds DEF DispatchInductive
  <2>3. DeskTypeOK' /\ LedgerSound'
    BY <1>2, <1>3 DEF DispatchInductive, DeskTypeOK, LedgerSound, CallSound, Detail
  <2> QED BY <2>2, <2>3 DEF DispatchInductive
<1>4. CASE attempts' # attempts
  <2>1. /\ work[r].op = "review" /\ attempts[work[r].draft] = "reviewing"
        /\ attempts' = [attempts EXCEPT ![work[r].draft] = "none"]
    <3>1. /\ work[r].op \in {"review", "prepare"}
          /\ attempts' = IF work[r].op = "prepare" THEN attempts
                         ELSE [attempts EXCEPT ![work[r].draft] = NoteAfter(@)]
      BY DEF Leave, Doing
    <3>2. work[r].op = "review"
      BY <1>4, <3>1
    <3>3. attempts' = [attempts EXCEPT ![work[r].draft] = NoteAfter(attempts[work[r].draft])]
      BY <3>1, <3>2
    <3>4. attempts \in [Drafts -> {"none", "reviewing", "dispatched"}]
      BY DEF DispatchInductive, DeskTypeOK
    <3>5. attempts[work[r].draft] = "reviewing"
      BY <1>1, <1>4, <3>3, <3>4 DEF NoteAfter
    <3> QED BY <3>2, <3>3, <3>5 DEF NoteAfter
  <2>2. work[r].at # "answer"
    BY <1>1, <2>1 DEF Sound
  <2>3. ASSUME NEW v \in Handlers, NEW s \in Requests, s # r, work[s] = v, v # Idle, Sound(v)
        PROVE  Sound(v)'
    <3>1. v.draft = work[r].draft /\ v.op = "review" => v.at = "answer"
      BY <1>1, <2>1, <2>2, <2>3 DEF DispatchInductive, HandlersSound, Apart
    <3>2. v.op = "review" => v.draft # work[r].draft
      BY <2>1, <2>3, <3>1 DEF Sound
    <3>3. v.draft \in Drafts
      BY DEF Handlers, Preparing, Handling
    <3>4. v.op = "review" => attempts'[v.draft] = attempts[v.draft]
      BY <1>1, <2>1, <3>2, <3>3 DEF DispatchInductive, DeskTypeOK
    <3> QED BY <1>2, <2>3, <3>4 DEF Sound, Detail, Attempted
  <2>4. HandlersSound'
    BY <1>2, <2>3, HandlerEnds DEF DispatchInductive
  <2>5. DeskTypeOK'
    BY <1>1, <1>2, <2>1 DEF DispatchInductive, DeskTypeOK
  <2>6. LedgerSound'
    BY <1>1, <1>2, <2>1 DEF DispatchInductive, DeskTypeOK, LedgerSound, CallSound, Detail
  <2> QED BY <2>4, <2>5, <2>6 DEF DispatchInductive
<1> QED BY <1>3, <1>4

-----------------------------------------------------------------------------
(* The backend, the user and the desktop *)

(* A handler that could be before the dialog has not dispatched. *)
LEMMA ServeCallPreserves ==
    ASSUME DispatchInductive, NEW d \in Drafts, ServeCall(d), UNCHANGED connection
    PROVE  DispatchInductive'
<1>1. CallSound(d) /\ d \in calls
  BY DEF ServeCall, DispatchInductive, LedgerSound
<1>2. /\ UNCHANGED <<work, bound, offered, attempts, approved, connection>>
      /\ calls' \subseteq calls
      /\ \A c \in claims' : c \in claims \/ (c.draft = d /\ c.as = bound[d])
  <2>1. CASE bound[d] = connection /\ ~Attempted(d)
    BY <2>1 DEF ServeCall, preparedVars
  <2>2. CASE ~(bound[d] = connection /\ ~Attempted(d))
    BY <2>2 DEF ServeCall, preparedVars
  <2> QED BY <2>1, <2>2
<1>3. ASSUME NEW v \in Handlers, Sound(v) PROVE Sound(v)'
  <2>1. v.op = "review" /\ v.at = "dialog" => v.draft # d
    BY <1>1, <1>3 DEF Sound, CallSound
  <2>2. v.op = "review" /\ v.at = "dialog" => ~Attempted(v.draft)'
    BY <1>2, <1>3, <2>1 DEF Sound, Attempted
  <2> QED BY <1>2, <1>3, <2>2 DEF Sound, Detail
<1>4. HandlersSound'
  <2>1. ASSUME NEW s \in Requests, work'[s] # Idle PROVE Sound(work[s])'
    <3>1. PICK v \in Handlers : v = work[s] /\ Sound(v) /\ v = work'[s]
      BY <1>2, <2>1 DEF DispatchInductive, HandlersSound
    <3>2. Sound(v)'
      BY <1>3, <3>1
    <3> QED BY <3>1, <3>2 DEF Sound, Detail, Attempted
  <2> QED BY <1>2, <2>1 DEF DispatchInductive, HandlersSound
<1>5. DeskTypeOK'
  BY <1>2 DEF DispatchInductive, DeskTypeOK
<1>6. \A c \in claims' : [draft |-> c.draft, account |-> AccountOf[c.as]] \in approved'
  BY <1>1, <1>2 DEF DispatchInductive, LedgerSound, CallSound, Detail
<1>7. LedgerSound'
  BY <1>2, <1>6 DEF DispatchInductive, LedgerSound, CallSound, Detail
<1> QED BY <1>4, <1>5, <1>7 DEF DispatchInductive

(* A call is lost, or the connection is replaced: nothing else changes. *)
LEMMA NothingElsePreserves ==
    ASSUME DispatchInductive, UNCHANGED <<work, bound, offered, attempts, approved, claims>>,
           calls' \subseteq calls, connection' \in Nat \ {0}
    PROVE  DispatchInductive'
<1>1. \A v \in Handlers : Sound(v) => Sound(v)'
  BY DEF Sound, Detail, Attempted
<1>2. HandlersSound'
  <2>1. ASSUME NEW s \in Requests, work'[s] # Idle PROVE Sound(work[s])'
    <3>1. PICK v \in Handlers : v = work[s] /\ Sound(v) /\ v = work'[s]
      BY <2>1 DEF DispatchInductive, HandlersSound
    <3>2. Sound(v)'
      BY <1>1, <3>1
    <3> QED BY <3>1, <3>2 DEF Sound, Detail, Attempted
  <2> QED BY <2>1 DEF DispatchInductive, HandlersSound
<1>3. DeskTypeOK' /\ LedgerSound'
  BY DEF DispatchInductive, DeskTypeOK, LedgerSound, CallSound, Detail
<1> QED BY <1>2, <1>3 DEF DispatchInductive

LEMMA ReopenPreserves ==
    ASSUME DispatchInductive, Reopen, UNCHANGED connection
    PROVE  DispatchInductive'
<1>1. /\ work' = [r \in Requests |-> Idle] /\ attempts' = [d \in Drafts |-> "none"]
      /\ calls' = {} /\ UNCHANGED <<bound, offered, approved, claims, connection>>
  BY DEF Reopen, preparedVars
<1>2. HandlersSound'
  BY <1>1 DEF HandlersSound
<1>3. DeskTypeOK' /\ LedgerSound'
  BY <1>1 DEF DispatchInductive, DeskTypeOK, LedgerSound
<1> QED BY <1>2, <1>3 DEF DispatchInductive

LEMMA ReviewingPreserves == ASSUME DispatchInductive, Reviewing PROVE DispatchInductive'
<1>1. ASSUME NEW r \in Requests, Review(r), UNCHANGED connection PROVE DispatchInductive'
  <2>1. CASE LookForAttempt(r, "audits", "dialog")
    BY <1>1, <2>1, LookForAttemptPreserves
  <2>2. CASE LookForAttempt(r, "audits again", "dispatch")
    BY <1>1, <2>2, LookForAttemptPreserves
  <2> QED
    BY <1>1, <2>1, <2>2, BeginPreparationPreserves, CreatePreserves, OfferPlanPreserves,
       BeginReviewPreserves, SeeCapabilityPreserves, ApprovePreserves, DispatchPreserves,
       LeavePreserves DEF Review
<1>2. ASSUME NEW d \in Drafts, LoseCall(d), UNCHANGED connection PROVE DispatchInductive'
  <2>1. /\ UNCHANGED <<work, bound, offered, attempts, approved, claims>>
        /\ calls' \subseteq calls /\ connection' \in Nat \ {0}
    BY <1>2 DEF LoseCall, preparedVars, DispatchInductive, DeskTypeOK
  <2> QED BY <2>1, NothingElsePreserves
<1>3. CASE Reconnect /\ UNCHANGED dispatchVars
  <2>1. /\ UNCHANGED <<work, bound, offered, attempts, approved, claims>>
        /\ calls' \subseteq calls /\ connection' \in Nat \ {0}
    BY <1>3 DEF Reconnect, dispatchVars, DispatchInductive, DeskTypeOK
  <2> QED BY <2>1, NothingElsePreserves
<1>4. inboxVars' = inboxVars => UNCHANGED connection
  BY DEF inboxVars
<1> QED BY <1>1, <1>2, <1>3, <1>4, ServeCallPreserves, ReopenPreserves DEF Reviewing

LEMMA DialogInitially == Init => DialogInductive
<1> SUFFICES ASSUME Init PROVE DialogInductive
  OBVIOUS
<1>1. /\ bound = [d \in Drafts |-> 0] /\ offered = {} /\ attempts = [d \in Drafts |-> "none"]
      /\ calls = {} /\ claims = {} /\ work = [r \in Requests |-> Idle] /\ connection = 1
  BY DEF Init, DispatchInit, RequestsInit, InboxInit
<1>2. DeskTypeOK /\ HandlersSound /\ LedgerSound
  BY <1>1 DEF DeskTypeOK, HandlersSound, LedgerSound
<1> QED BY <1>1, <1>2 DEF DialogInductive, DispatchInductive

LEMMA DialogNext == DialogInductive /\ [Next]_vars => DialogInductive'
<1> SUFFICES ASSUME DialogInductive, [Next]_vars PROVE DialogInductive'
  OBVIOUS
<1>1. CASE Reviewing
  BY <1>1, ReviewingPreserves DEF Reviewing, At, DialogInductive
<1>2. CASE Simulating \/ Applying \/ Assessing \/ ReadingMail \/ Stopping
  <2>1. desk # "dialog" /\ desk' = desk /\ claims' = claims
    BY <1>2 DEF Simulating, Applying, Assessing, ReadingMail, Stopping, At, dispatchVars
  <2> QED BY <2>1 DEF DialogInductive
<1>3. CASE UNCHANGED vars
  <2>1. UNCHANGED <<desk, work, bound, offered, attempts, calls, approved, claims, connection>>
    BY <1>3 DEF vars, dispatchVars, inboxVars
  <2>2. CASE desk = "dialog"
    <3>1. connection \in Nat \ {0}
      BY <2>2 DEF DialogInductive, DispatchInductive, DeskTypeOK
    <3> QED BY <2>1, <2>2, <3>1, NothingElsePreserves DEF DialogInductive
  <2>3. CASE desk # "dialog"
    BY <2>1, <2>3 DEF DialogInductive
  <2> QED BY <2>2, <2>3
<1> QED BY <1>1, <1>2, <1>3 DEF Next

(* What the backend carries out was approved as it is, for the account the
   dialog showed, and nothing that was attempted is put before the owner again:
   however handlers overlap, calls are late or lost, the account is connected
   anew and the desktop is opened again (apps/desktop/src/main/mail-draft-ipc.ts
   and calendar-event-ipc.ts). *)
THEOREM DispatchActsAsReviewed == Spec => []ActsAsReviewed
<1>1. DialogInductive => ActsAsReviewed
  <2> SUFFICES ASSUME DialogInductive PROVE ActsAsReviewed
    OBVIOUS
  <2>1. CASE desk = "dialog"
    <3>1. \A r \in Requests : Reached(r, "review", "dialog") => ~Attempted(work[r].draft)
      BY <2>1, HandlerAt DEF DialogInductive, Sound
    <3> QED BY <2>1, <3>1 DEF DialogInductive, DispatchInductive, LedgerSound, ActsAsReviewed
  <2>2. CASE desk # "dialog"
    <3>1. claims = {}
      BY <2>2 DEF DialogInductive
    <3> QED BY <3>1 DEF ActsAsReviewed, Attempted
  <2> QED BY <2>1, <2>2
<1> QED BY <1>1, DialogInitially, DialogNext, PTL DEF Spec
=============================================================================
