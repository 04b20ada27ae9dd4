------------------------ MODULE TaskSchedulerProofs -------------------------
(***************************************************************************)
(* Proofs about TaskScheduler for every value of its constants, however    *)
(* many tasks, conversations, restarts and queued jobs there are: its types;*)
(* structured ownership (a task ends only when its ordinary owned work has *)
(* drained, so a live child always has a live owner); and waits, which never*)
(* close a circle.                                                         *)
(*                                                                         *)
(* Ownership needs what owner links are (Tree): they never change, and     *)
(* holding is transitive through foreground tasks.  With it, every step is *)
(* a commit that stages at most one new task (Staged) and then moves       *)
(* existing ones (Change): the two are composed in StepChanges.            *)
(*                                                                         *)
(* A new wait is checked against the wait-for graph as it is; edges to owned*)
(* work appear without a check.  The argument is that the latter lead only *)
(* to newborn tasks, which nothing leads on from, and that all else takes  *)
(* edges away.                                                             *)
(*                                                                         *)
(* Two further parts follow: what is decided and cancelled stays so, and   *)
(* the jobs the scheduler owes are on the Session line.                    *)
(***************************************************************************)
EXTENDS TaskScheduler, FiniteSetTheorems, SequenceTheorems, WellFoundedInduction, TLAPS

-----------------------------------------------------------------------------
(* Type correctness                                                        *)

\* What a table of committed or candidate records is.
TaskTable == [TaskId -> TaskRecord]

LEMMA RootIsConv == Root \in ConvId
  BY BoundsAssumption DEF ConvId, Root

LEMMA UnbornType == Unborn \in TaskRecord
  BY BoundsAssumption, RootIsConv
  DEF Unborn, TaskRecord, Owner, Status, Policy, Outcome, Mark

LEMMA NoInvocationType == NoInvocation \in Invocation
  BY DEF NoInvocation, Invocation

LEMMA InvocationType ==
  ASSUME NEW I \in [TaskId -> Invocation], NEW t \in TaskId
  PROVE  /\ \A at \in {"handler", "returned"} : [I EXCEPT ![t].at = at] \in [TaskId -> Invocation]
         /\ \A b \in BOOLEAN : [I EXCEPT ![t].moved = b] \in [TaskId -> Invocation]
         /\ \A b \in BOOLEAN : [I EXCEPT ![t].failed = b] \in [TaskId -> Invocation]
<1>1. \A r \in Invocation : [I EXCEPT ![t] = r] \in [TaskId -> Invocation]
  OBVIOUS
<1>2. I[t] \in Invocation
  OBVIOUS
<1>3. /\ \A at \in {"handler", "returned"} : [I[t] EXCEPT !.at = at] \in Invocation
      /\ \A b \in BOOLEAN : [I[t] EXCEPT !.moved = b] \in Invocation
      /\ \A b \in BOOLEAN : [I[t] EXCEPT !.failed = b] \in Invocation
  BY <1>2 DEF Invocation
<1> QED
  BY <1>1, <1>3

LEMMA JobTypes ==
  /\ ReserveJob \in Job
  /\ \A t \in TaskId : StepJob(t) \in Job
  /\ \A cascade \in BOOLEAN, checks \in SUBSET TaskId : ReconcileJob(cascade, checks) \in Job
  BY DEF ReserveJob, StepJob, ReconcileJob, Job, Owner

LEMMA LineTypes ==
  /\ <<>> \in Seq(Job) /\ <<ReserveJob>> \in Seq(Job)
  /\ \A cascade \in BOOLEAN, checks \in SUBSET TaskId : <<ReconcileJob(cascade, checks)>> \in Seq(Job)
<1>1. \A job \in Job : <<job>> \in Seq(Job)
  OBVIOUS
<1>2. <<>> \in Seq(Job)
  BY EmptySeq
<1> QED
  BY <1>1, <1>2, JobTypes, Zenon

LEMMA OutcomeType ==
  ASSUME NEW r \in TaskRecord, NEW status \in Status, NEW outcome \in Outcome
  PROVE  WithOutcome(r, status, outcome) \in TaskRecord /\ WithStatus(r, status) \in TaskRecord
  BY DEF WithOutcome, WithStatus, TaskRecord, Policy

LEMMA MarkType ==
  ASSUME NEW r \in TaskRecord, NEW m \in Mark
  PROVE  [r EXCEPT !.mark = m] \in TaskRecord
  BY DEF TaskRecord

LEMMA DecideType ==
  ASSUME NEW T \in TaskTable, NEW x \in TaskId, NEW outcome \in Outcome
  PROVE  Decide(T, x, outcome) \in TaskTable
  BY OutcomeType DEF Decide, TaskTable, Status

LEMMA HoldersType ==
  ASSUME NEW T \in TaskTable, NEW o \in Owner
  PROVE  Above(T, o) \subseteq TaskId /\ Holders(T, o) \subseteq TaskId
  BY DEF Above, Holders, TaskTable, TaskRecord, Owner, None

\* The jobs a publication adds to the line are jobs.
LEMMA ReconcilesType ==
  ASSUME NEW T, NEW Ch, NEW Q
  PROVE  Reconciles(T, Ch, Q) \in Seq(Job)
<1>1. Cascades(T, Ch, Q) \in BOOLEAN
  BY DEF Cascades
<1>2. Alarmed(T, Ch) \in SUBSET TaskId
  BY DEF Alarmed
<1>3. ReconcileJob(Cascades(T, Ch, Q), Alarmed(T, Ch)) \in Job
  BY <1>1, <1>2, JobTypes
<1> QED
  BY <1>3 DEF Reconciles

LEMMA TrackType ==
  ASSUME NEW T \in TaskTable, NEW Ch \in SUBSET TaskId, NEW R \in SUBSET TaskId,
         NEW F \in SUBSET TaskId, Track(T, Ch, R, F)
  PROVE  runnable' \subseteq TaskId /\ finalizeChecks' \subseteq TaskId
<1>1. \A x : Waiters(T, x) \subseteq TaskId
  BY DEF Waiters
<1>2. \A x \in TaskId : NearestLiveAbove(T, x) \subseteq TaskId
  BY DEF NearestLiveAbove, Nearest, TaskTable, TaskRecord
<1> QED
  BY <1>1, <1>2 DEF Track, Ended

LEMMA KickType ==
  ASSUME NEW L \in Seq(Job), Kick(L)
  PROVE  line' \in Seq(Job) /\ dirty' \in BOOLEAN
<1>1. Append(L, ReserveJob) \in Seq(Job)
  BY JobTypes, AppendProperties
<1>2. line' \in Seq(Job)
  BY <1>1 DEF Kick
<1>3. (harness = "running") \in BOOLEAN
  OBVIOUS
<1>4. dirty' = (harness = "running") \/ dirty' = FALSE
  BY Zenon DEF Kick
<1> QED
  BY <1>2, <1>3, <1>4, Zenon

LEMMA PublishType ==
  ASSUME TypeOK, NEW T \in TaskTable, NEW Ch \in SUBSET TaskId, NEW Q,
         NEW F \in SUBSET TaskId, NEW L \in Seq(Job), Publish(T, Ch, Q, F, L)
  PROVE  /\ task' \in TaskTable
         /\ runnable' \subseteq TaskId /\ finalizeChecks' \subseteq TaskId
         /\ line' \in Seq(Job) /\ dirty' \in BOOLEAN
<1>1. task' \in TaskTable
  BY DEF Publish
<1>2. runnable' \subseteq TaskId /\ finalizeChecks' \subseteq TaskId
  BY TrackType DEF Publish, TypeOK
<1>3. L \o Reconciles(T, Ch, Q) \in Seq(Job)
  BY ReconcilesType, ConcatProperties
<1>4. line' \in Seq(Job) /\ dirty' \in BOOLEAN
  BY <1>3, KickType DEF Publish, TypeOK
<1> QED
  BY <1>1, <1>2, <1>4

LEMMA MarkRequestType ==
  ASSUME TypeOK, NEW S \in SUBSET TaskId
  PROVE  MarkRequest(task, S) \in TaskTable
  BY MarkType DEF MarkRequest, TypeOK, TaskTable, Mark

\* What a commit may stage: at most one new task or conversation.
LEMMA StagedType ==
  ASSUME TypeOK, NEW s \in {Nothing} \cup StagedTasks \cup StagedConvs
  PROVE  /\ s.task \in TaskTable /\ s.new \in SUBSET TaskId
         /\ s.convs \in SUBSET ConvId /\ s.convOwner \in [ConvId -> Owner] /\ s.owner \in Owner
<1>1. CASE s = Nothing
  BY <1>1 DEF Nothing, TypeOK, TaskTable, Owner
<1>2. CASE s \in StagedTasks
  <2>1. PICK n \in NextTask : \E shape \in {shape \in TaskShapes[n] : ShapeAllowed(task, shape)} :
          s = [Nothing EXCEPT !.task = [task EXCEPT ![n] = Born(task, shape)],
                              !.new = {n}, !.owner = shape.owner]
    BY <1>2 DEF StagedTasks
  <2>2. PICK shape \in TaskShapes[n] :
          s = [Nothing EXCEPT !.task = [task EXCEPT ![n] = Born(task, shape)],
                              !.new = {n}, !.owner = shape.owner]
    BY <2>1
  <2>3. n \in TaskId /\ shape \in Shape
    BY ShapesAssumption DEF NextTask
  <2>4. Parent(shape) \in Owner
    BY <2>3 DEF Parent, Shape, TypeOK
  <2>5. Born(task, shape) \in TaskRecord
    BY <2>3, <2>4, HoldersType
    DEF Born, TaskRecord, Shape, TypeOK, TaskTable, Status, Policy, Outcome, Mark
  <2> QED
    BY <2>2, <2>3, <2>5 DEF Nothing, TypeOK, TaskTable, Shape
<1>3. CASE s \in StagedConvs
  <2>1. PICK c \in NextConv, o \in Owner :
          s = [Nothing EXCEPT !.convs = convs \cup {c},
                              !.convOwner = [convOwner EXCEPT ![c] = o], !.owner = o]
    <3>1. PICK c \in NextConv : \E o \in {o \in ConvShapes[c] : o # None => task[o].status # "unborn"} :
            s = [Nothing EXCEPT !.convs = convs \cup {c},
                                !.convOwner = [convOwner EXCEPT ![c] = o], !.owner = o]
      BY <1>3 DEF StagedConvs
    <3>2. ConvShapes[c] \subseteq Owner
      BY ShapesAssumption DEF NextConv
    <3> QED
      BY <3>1, <3>2
  <2> QED
    BY <2>1 DEF Nothing, TypeOK, TaskTable, NextConv
<1> QED
  BY <1>1, <1>2, <1>3

LEMMA NextStatesType ==
  ASSUME TypeOK, NEW T \in TaskTable, NEW t \in TaskId, NEW next \in NextStates(T, t)
  PROVE  next.table \in TaskTable /\ next.moved \in BOOLEAN /\ next.wrote \in SUBSET TaskId
<1>1. inv[t].moved \in BOOLEAN
  BY DEF TypeOK, Invocation
<1>2. CASE \E m \in BOOLEAN : next = [table |-> T, moved |-> m, wrote |-> {t}]
  BY <1>2
<1>3. CASE \E o \in {"completed", "failed"} :
             next = [table |-> Decide(T, t, o), moved |-> inv[t].moved, wrote |-> {t}]
  BY <1>1, <1>3, DecideType DEF Outcome
<1>4. CASE \E w \in {v \in Waits : WaitAllowed(T, t, v[1], v[2])} :
             next = [table |-> [T EXCEPT ![t] = [T[t] EXCEPT !.status = "waiting", !.on = w[1],
                                                             !.policy = w[2]]],
                     moved |-> inv[t].moved, wrote |-> {t}]
  <2>1. PICK w \in (SUBSET TaskId) \X {"allSettled", "failFast"} :
             next = [table |-> [T EXCEPT ![t] = [T[t] EXCEPT !.status = "waiting", !.on = w[1],
                                                             !.policy = w[2]]],
                     moved |-> inv[t].moved, wrote |-> {t}]
    BY <1>4, ShapesAssumption
  <2>2. [T[t] EXCEPT !.status = "waiting", !.on = w[1], !.policy = w[2]] \in TaskRecord
    <3>1. T[t] \in TaskRecord /\ w[1] \in SUBSET TaskId /\ w[2] \in Policy
      BY DEF TaskTable, Policy
    <3> QED
      BY <3>1 DEF TaskRecord, Status
  <2> QED
    BY <1>1, <2>1, <2>2 DEF TaskTable
<1>5. CASE next = [table |-> T, moved |-> inv[t].moved, wrote |-> {}]
  BY <1>1, <1>5
<1> QED
  BY <1>2, <1>3, <1>4, <1>5 DEF NextStates

LEMMA EndInvocationType ==
  ASSUME TypeOK, NEW t \in TaskId, NEW T \in TaskTable, NEW Ch \in SUBSET TaskId,
         NEW L \in Seq(Job), line # <<>>, EndInvocation(t, T, Ch, L)
  PROVE  /\ inv' \in [TaskId -> Invocation] /\ task' \in TaskTable
         /\ runnable' \subseteq TaskId /\ finalizeChecks' \subseteq TaskId
         /\ line' \in Seq(Job) /\ dirty' \in BOOLEAN
<1>1. inv' \in [TaskId -> Invocation] /\ task' \in TaskTable
  BY NoInvocationType DEF EndInvocation, TypeOK
<1>2. runnable' \subseteq TaskId /\ finalizeChecks' \subseteq TaskId
  <2>1. runnable \cup (IF Live(task, t) THEN {t} ELSE {}) \in SUBSET TaskId
    BY DEF TypeOK
  <2> QED
    BY <2>1, TrackType DEF EndInvocation, TypeOK
<1>3. line' \in Seq(Job) /\ dirty' \in BOOLEAN
  <2>1. Tail(line) \in Seq(Job)
    BY HeadTailProperties DEF TypeOK
  <2>2. Tail(line) \o L \o Reconciles(T, Ch, {}) \in Seq(Job)
    BY <2>1, ReconcilesType, ConcatProperties
  <2> QED
    BY <2>2, KickType DEF EndInvocation
<1> QED
  BY <1>1, <1>2, <1>3

\* An order of the first steps of the reserved tasks, as jobs.
LEMMA OrdersType ==
  ASSUME NEW S \in SUBSET TaskId, NEW steps \in Orders(S)
  PROVE  [i \in DOMAIN steps |-> StepJob(steps[i])] \in Seq(Job)
<1>1. IsFiniteSet(S)
  <2>1. IsFiniteSet(TaskId)
    BY FS_Interval, BoundsAssumption DEF TaskId
  <2> QED
    BY <2>1, FS_Subset
<1>2. Cardinality(S) \in Nat
  BY <1>1, FS_CardinalityType
<1>3. steps \in [1 .. Cardinality(S) -> S]
  BY DEF Orders
<1>4. DOMAIN steps = 1 .. Cardinality(S) /\ \A i \in DOMAIN steps : StepJob(steps[i]) \in Job
  BY <1>3, JobTypes
<1> QED
  BY <1>2, <1>4, IsASeq

LEMMA ReservationType ==
  ASSUME TypeOK
  PROVE  Orphans \in SUBSET TaskId /\ Taken \in SUBSET TaskId /\ Dropped \in SUBSET TaskId
  BY DEF Orphans, Taken, Dropped, TypeOK

LEMMA ReconciledType ==
  ASSUME TypeOK, NEW checks
  PROVE  Reconciled(checks) \in TaskTable
<1>1. \A x \in TaskId : task[x] \in TaskRecord
  BY DEF TypeOK
<1>2. \A x \in TaskId : \A m \in Mark : [task[x] EXCEPT !.mark = m] \in TaskRecord
  BY <1>1, MarkType
<1> QED
  BY <1>1, <1>2 DEF Reconciled, TaskTable, Mark

\* Every step keeps the type invariant.
LEMMA TypeStep ==
  ASSUME TypeOK, [Next]_vars
  PROVE  TypeOK'
<1> USE DEF TaskTable
<1>1. CASE HostCreate
  <2>1. PICK s \in {Nothing} \cup StagedTasks \cup StagedConvs :
          /\ convs' = s.convs /\ convOwner' = s.convOwner
          /\ Publish(s.task, s.new, {}, finalizeChecks, line)
    BY <1>1 DEF HostCreate
  <2> QED
    BY <1>1, <2>1, StagedType, PublishType DEF HostCreate, TypeOK
<1>2. CASE Submit
  <2>1. PICK c \in (Inboxes \cap convs) \ queued :
          queued' = queued \cup {c} /\ Publish(task, {}, {c}, finalizeChecks, line)
    BY <1>2 DEF Submit
  <2> QED
    BY <1>2, <2>1, PublishType DEF Submit, TypeOK
<1>3. ASSUME NEW x \in Abortable, NEW keepRestart \in BOOLEAN, AbortTask(x, keepRestart)
      PROVE  TypeOK'
  <2>1. x \in TaskId
    BY ShapesAssumption
  <2>2. Decide(task, x, "orphaned") \in TaskTable /\ MarkRequest(task, {x}) \in TaskTable
    BY <2>1, DecideType, MarkRequestType DEF TypeOK, Outcome
  <2> QED
    BY <1>3, <2>1, <2>2, PublishType DEF AbortTask, TypeOK
<1>4. ASSUME NEW c \in AbortScopes, NEW cross \in BOOLEAN, AbortConversation(c, cross)
      PROVE  TypeOK'
  <2>1. PICK marked \in SUBSET TaskId, scope \in SUBSET ConvId :
          /\ queued' = queued \ scope
          /\ Publish(MarkRequest(task, marked), marked, {}, finalizeChecks, line)
    BY <1>4 DEF AbortConversation, TypeOK
  <2> QED
    BY <1>4, <2>1, MarkRequestType, PublishType DEF AbortConversation, TypeOK
<1>5. ASSUME NEW t \in TaskId, RuntimeCommit(t)
      PROVE  TypeOK'
  <2>0. PICK s \in {Nothing} \cup StagedTasks \cup StagedConvs : \E next \in NextStates(s.task, t) :
          /\ convs' = s.convs /\ convOwner' = s.convOwner
          /\ inv' = [inv EXCEPT ![t].moved = next.moved]
          /\ Publish(next.table, s.new \cup next.wrote, {}, finalizeChecks, line)
    BY <1>5 DEF RuntimeCommit
  <2>1. PICK next \in NextStates(s.task, t) :
          /\ convs' = s.convs /\ convOwner' = s.convOwner
          /\ inv' = [inv EXCEPT ![t].moved = next.moved]
          /\ Publish(next.table, s.new \cup next.wrote, {}, finalizeChecks, line)
    BY <2>0
  <2>2. /\ s.task \in TaskTable /\ s.new \in SUBSET TaskId
        /\ s.convs \in SUBSET ConvId /\ s.convOwner \in [ConvId -> Owner]
    BY StagedType
  <2>3. next.table \in TaskTable /\ next.moved \in BOOLEAN /\ next.wrote \in SUBSET TaskId
    BY <2>2, NextStatesType
  <2>4. inv' \in [TaskId -> Invocation]
    BY <2>1, <2>3, InvocationType DEF TypeOK
  <2> QED
    BY <1>5, <2>1, <2>2, <2>3, <2>4, PublishType DEF RuntimeCommit, TypeOK
<1>6. ASSUME NEW t \in TaskId, HandlerReturn(t)
      PROVE  TypeOK'
  <2>1. PICK failed \in BOOLEAN :
          inv' = [inv EXCEPT ![t].at = "returned", ![t].failed = failed]
    BY <1>6 DEF HandlerReturn
  <2>2. inv' \in [TaskId -> Invocation]
    BY <2>1, InvocationType DEF TypeOK
  <2>3. line' \in Seq(Job)
    BY <1>6, JobTypes, AppendProperties DEF HandlerReturn, TypeOK
  <2> QED
    BY <1>6, <2>2, <2>3 DEF HandlerReturn, TypeOK
<1>7. ASSUME NEW t \in TaskId, RunStep(t)
      PROVE  TypeOK'
  <2>1. line # <<>> /\ <<>> \in Seq(Job) /\ <<ReconcileJob(TRUE, {})>> \in Seq(Job)
    BY <1>7, LineTypes DEF RunStep, StepHead, Head1
  <2>2. /\ task \in TaskTable /\ Decide(task, t, "faulted") \in TaskTable
        /\ [task EXCEPT ![t] = WithStatus(task[t], "pending")] \in TaskTable
    BY DecideType, OutcomeType DEF TypeOK, Outcome, Status
  <2>3. CASE \E T \in TaskTable, Ch \in SUBSET TaskId, L \in Seq(Job) : EndInvocation(t, T, Ch, L)
    BY <1>7, <2>1, <2>3, EndInvocationType DEF RunStep, StepFrame, TypeOK
  <2>4. CASE /\ inv' = [inv EXCEPT ![t].at = "handler", ![t].moved = FALSE, ![t].failed = FALSE]
             /\ line' = Tail(line)
             /\ UNCHANGED <<task, runnable, finalizeChecks, dirty>>
    <3>1. inv' \in [TaskId -> Invocation]
      BY <2>4, InvocationType DEF TypeOK
    <3>2. line' \in Seq(Job)
      BY <2>1, <2>4, HeadTailProperties DEF TypeOK
    <3> QED
      BY <1>7, <2>4, <3>1, <3>2 DEF RunStep, StepFrame, TypeOK
  <2> QED
    BY <1>7, <2>1, <2>2, <2>3, <2>4 DEF RunStep
<1>8. ASSUME NEW t \in TaskId, AbortStep(t)
      PROVE  TypeOK'
  <2>1. line # <<>> /\ <<>> \in Seq(Job)
    BY <1>8, LineTypes DEF AbortStep, StepHead, Head1
  <2>2. task \in TaskTable /\ Decide(task, t, "faulted") \in TaskTable
    BY DecideType DEF TypeOK, Outcome
  <2>3. PICK T \in TaskTable, Ch \in SUBSET TaskId : EndInvocation(t, T, Ch, <<>>)
    BY <1>8, <2>2 DEF AbortStep
  <2> QED
    BY <1>8, <2>1, <2>3, EndInvocationType DEF AbortStep, StepFrame, TypeOK
<1>9. CASE ReserveAbandoned
  <2>1. PICK T \in TaskTable, Ch \in SUBSET TaskId :
          /\ task' = T /\ Track(T, Ch, runnable, finalizeChecks)
          /\ line' = Append(Tail(line) \o Reconciles(T, Ch, {}), ReserveJob)
    <3> DEFINE Ch == {x \in abandoned : Live(task, x) /\ task[x].mark = "none"}
               T  == [x \in TaskId |-> IF x \in Ch THEN [task[x] EXCEPT !.mark = "restart"] ELSE task[x]]
    <3>1. T \in TaskTable
      BY MarkType DEF TypeOK, Mark
    <3>2. Ch \in SUBSET TaskId
      BY DEF TypeOK
    <3> HIDE DEF Ch, T
    <3> QED
      BY <1>9, <3>1, <3>2 DEF ReserveAbandoned, Ch, T
  <2>2. Tail(line) \in Seq(Job)
    BY <1>9, HeadTailProperties DEF ReserveAbandoned, Head1, TypeOK
  <2>3. Append(Tail(line) \o Reconciles(T, Ch, {}), ReserveJob) \in Seq(Job)
    BY <2>2, ReconcilesType, ConcatProperties, AppendProperties, JobTypes
  <2> QED
    BY <1>9, <2>1, <2>3, TrackType DEF ReserveAbandoned, TypeOK
<1>10. CASE Reserve
  <2>1. Tail(line) \in Seq(Job)
    BY <1>10, HeadTailProperties DEF Reserve, Head1, TypeOK
  <2> DEFINE Ch == Orphans \cup {x \in Taken : task[x].status # "running"}
             T  == [x \in TaskId |->
                      IF x \in Orphans THEN WithOutcome(task[x], "terminal", "orphaned")
                      ELSE IF x \in Taken THEN WithStatus(task[x], "running") ELSE task[x]]
             mode == [x \in TaskId |-> IF task[x].mark = "none" THEN "run" ELSE "abort"]
             first == {x \in Taken : mode[x] = "run"}
             cascade == IF Held # {} THEN <<ReconcileJob(TRUE, {})>> ELSE <<>>
             again   == IF dirty \/ Ch # {} THEN <<ReserveJob>> ELSE <<>>
  <2>2. T \in TaskTable /\ Ch \in SUBSET TaskId /\ first \in SUBSET TaskId
    BY OutcomeType, ReservationType DEF TypeOK, Outcome, Status
  <2>3. cascade \in Seq(Job) /\ again \in Seq(Job)
    BY LineTypes
  <2>4. inv' \in [TaskId -> Invocation]
    <3>1. \A x \in TaskId : inv[x] \in Invocation /\ mode[x] \in {"run", "abort"}
      BY DEF TypeOK
    <3> HIDE DEF mode
    <3>2. \A x \in TaskId : [NoInvocation EXCEPT !.mode = mode[x],
                               !.at = IF mode[x] = "run" THEN "first" ELSE "handler"] \in Invocation
      BY <3>1 DEF NoInvocation, Invocation
    <3>3. inv' = [x \in TaskId |->
                    IF x \notin Taken THEN inv[x]
                    ELSE [NoInvocation EXCEPT !.mode = mode[x],
                                              !.at = IF mode[x] = "run" THEN "first" ELSE "handler"]]
      BY <1>10 DEF Reserve, mode
    <3> QED
      BY <3>1, <3>2, <3>3
  <2>5. /\ task' = T /\ Track(T, Ch, runnable \ (Dropped \cup Taken), finalizeChecks)
        /\ \E steps \in Orders(first) :
             line' = Tail(line) \o cascade \o Reconciles(T, Ch, {})
                     \o [i \in DOMAIN steps |-> StepJob(steps[i])] \o again
    BY <1>10 DEF Reserve
  <2>6. runnable' \subseteq TaskId /\ finalizeChecks' \subseteq TaskId
    <3>1. runnable \ (Dropped \cup Taken) \in SUBSET TaskId /\ finalizeChecks \in SUBSET TaskId
      BY DEF TypeOK
    <3> HIDE DEF T, Ch
    <3> QED
      BY <2>2, <2>5, <3>1, TrackType
  <2>7. line' \in Seq(Job)
    <3> HIDE DEF T, Ch, first, cascade, again
    <3>1. PICK steps \in Orders(first) :
            line' = Tail(line) \o cascade \o Reconciles(T, Ch, {})
                    \o [i \in DOMAIN steps |-> StepJob(steps[i])] \o again
      BY <2>5
    <3>2. Reconciles(T, Ch, {}) \in Seq(Job) /\ [i \in DOMAIN steps |-> StepJob(steps[i])] \in Seq(Job)
      BY <2>2, ReconcilesType, OrdersType
    <3> QED
      BY <2>1, <2>3, <3>1, <3>2, ConcatProperties
  <2> HIDE DEF T
  <2> QED
    BY <1>10, <2>2, <2>4, <2>5, <2>6, <2>7 DEF Reserve, TypeOK
<1>11. CASE Reconcile
  <2>1. PICK T \in TaskTable, Ch \in SUBSET TaskId : Publish(T, Ch, {}, {}, Tail(line))
    <3> DEFINE M  == Reconciled(Head(line).checks)
               T  == [x \in TaskId |-> IF Finalizable(M, x) THEN [M[x] EXCEPT !.status = "terminal"] ELSE M[x]]
               Ch == {x \in TaskId : T[x] # task[x]}
    <3>1. M \in TaskTable
      BY ReconciledType
    <3>2. T \in TaskTable
      <4> HIDE DEF M
      <4>1. \A x \in TaskId : M[x] \in TaskRecord /\ [M[x] EXCEPT !.status = "terminal"] \in TaskRecord
        BY <3>1 DEF TaskRecord, Status
      <4> QED
        BY <4>1
    <3>3. Publish(T, Ch, {}, {}, Tail(line))
      BY <1>11 DEF Reconcile
    <3> HIDE DEF T
    <3> QED
      BY <3>2, <3>3
  <2>2. Tail(line) \in Seq(Job)
    BY <1>11, HeadTailProperties DEF Reconcile, Head1, TypeOK
  <2>3. queued' \subseteq ConvId
    BY <1>11 DEF Reconcile, TypeOK
  <2> QED
    BY <1>11, <2>1, <2>2, <2>3, PublishType DEF Reconcile, TypeOK
<1>12. CASE Open
  <2>1. task' \in TaskTable
    BY <1>12, OutcomeType DEF Open, TypeOK, Outcome, Status
  <2>2. line' \in Seq(Job)
    <3>1. {x \in TaskId : task[x].status = "waiting" /\ task[x].policy = "failFast"} \in SUBSET TaskId
      OBVIOUS
    <3> QED
      BY <1>12, <3>1, LineTypes, Zenon DEF Open
  <2> QED
    BY <1>12, <2>1, <2>2 DEF Open, AbandonedAtOpen, TypeOK
<1>13. CASE Resume
  <2>1. line' \in Seq(Job)
    BY <1>13, JobTypes, AppendProperties DEF Resume, TypeOK
  <2> QED
    BY <1>13, <2>1 DEF Resume, TypeOK
<1>14. CASE Stop
  <2>1. restarts' \in 0 .. MaxRestarts
    BY <1>14, BoundsAssumption DEF Stop, TypeOK
  <2>2. inv' \in [TaskId -> Invocation] /\ line' \in Seq(Job)
    BY <1>14, NoInvocationType DEF Stop
  <2> QED
    BY <1>14, <2>1, <2>2 DEF Stop, TypeOK
<1>15. CASE RegistryChange
  <2>1. inv' \in [TaskId -> Invocation]
    <3>1. \A x \in TaskId : inv[x] \in Invocation /\ [inv[x] EXCEPT !.stale = TRUE] \in Invocation
      BY DEF TypeOK, Invocation
    <3> QED
      BY <1>15, <3>1 DEF RegistryChange
  <2> QED
    BY <1>15, <2>1, KickType DEF RegistryChange, TypeOK
<1>16. CASE UNCHANGED vars
  BY <1>16 DEF vars, TypeOK
<1> QED
  BY <1>1, <1>2, <1>3, <1>4, <1>5, <1>6, <1>7, <1>8, <1>9, <1>10, <1>11, <1>12, <1>13, <1>14,
     <1>15, <1>16 DEF Next, LineJob

\* TypeOK holds in every reachable state.
THEOREM TypeCorrect == Spec => []TypeOK
<1>1. Init => TypeOK
  <2> SUFFICES ASSUME Init PROVE TypeOK
    OBVIOUS
  <2>1. task \in [TaskId -> TaskRecord] /\ inv \in [TaskId -> Invocation]
    BY UnbornType, NoInvocationType DEF Init
  <2>2. convs \subseteq ConvId /\ convOwner \in [ConvId -> Owner]
    BY RootIsConv DEF Init, Owner
  <2>3. restarts \in 0 .. MaxRestarts /\ line \in Seq(Job)
    BY BoundsAssumption, LineTypes DEF Init
  <2> QED
    BY <2>1, <2>2, <2>3 DEF Init, TypeOK
<1>2. TypeOK /\ [Next]_vars => TypeOK'
  BY TypeStep
<1> QED
  BY <1>1, <1>2, PTL DEF Spec

-----------------------------------------------------------------------------
(* The ownership tree                                                      *)

\* Ownership fields are well formed in table T with conversation owners O.
Tree(T, O) ==
  /\ \A x \in TaskId : T[x].owner # None => ~T[x].background /\ T[x].owner \in T[x].holders
  /\ \A x \in TaskId : \A y \in T[x].holders :
        T[y].status # "unborn" /\ (~T[y].background => T[y].holders \subseteq T[x].holders)
  /\ \A c \in ConvId : O[c] # None => T[O[c]].status # "unborn"

\* Record s keeps what record r says of its creation.
Keeps(r, s) ==
  /\ s.owner = r.owner /\ s.background = r.background /\ s.holders = r.holders
  /\ s.abandon = r.abandon /\ s.born = r.born

\* U keeps what T says of ownership, and which tasks exist.
Same(T, U) ==
  \A x \in TaskId :
    /\ Keeps(T[x], U[x])
    /\ U[x].status = "unborn" <=> T[x].status = "unborn"

\* What a commit may do to the tasks of table T: none comes back to life, and one ends
\* only when the ordinary work it owns is gone.
Change(T, U) ==
  /\ Same(T, U)
  /\ \A x \in TaskId : Live(U, x) => Live(T, x)
  /\ \A x \in TaskId : U[x].status = "terminal" => T[x].status = "terminal" \/ OwnedLive(U, x) = {}

\* Task x of table T is the next to be created and hangs below a task that exists.
Hangs(T, x) ==
  /\ x \in NextTask
  /\ \E up \in Owner : (up # None => task[up].status # "unborn") /\ T[x].holders = Holders(task, up)

\* T is the committed table with at most one task created, below an open owner.
Staged(T) ==
  \A x \in TaskId : \/ T[x] = task[x]
                    \/ /\ task[x].status = "unborn" /\ T[x].status = "pending" /\ Hangs(T, x)
                       /\ T[x].born = restarts /\ OwnerOpen(task', T[x].owner)

TreeInv == Tree(task, convOwner)

LEMMA TreeKept ==
  ASSUME NEW T \in TaskTable, NEW U \in TaskTable, NEW O \in [ConvId -> Owner],
         Tree(T, O), Same(T, U)
  PROVE  Tree(U, O)
<1>1. \A x \in TaskId : T[x].holders \subseteq TaskId
  BY DEF TaskTable, TaskRecord
<1>2. \A c \in ConvId : O[c] # None => O[c] \in TaskId
  BY DEF Owner
<1> QED
  BY <1>1, <1>2 DEF Tree, Same, Keeps

\* Work that is not live cannot be owned work again.
LEMMA OwnedShrinks ==
  ASSUME NEW T, NEW U, Same(T, U), \A y \in TaskId : Live(U, y) => Live(T, y)
  PROVE  \A x : OwnedLive(U, x) \subseteq OwnedLive(T, x)
  BY DEF OwnedLive, Same, Keeps

LEMMA ChangeNothing ==
  ASSUME NEW T \in TaskTable
  PROVE  Change(T, T)
  BY DEF Change, Same, Keeps

LEMMA ChangeDecide ==
  ASSUME NEW T \in TaskTable, NEW t \in TaskId, Live(T, t), NEW outcome
  PROVE  Change(T, Decide(T, t, outcome))
<1> DEFINE U == Decide(T, t, outcome)
<1>1. /\ \A x \in TaskId \ {t} : U[x] = T[x]
      /\ Keeps(T[t], U[t])
      /\ U[t].status = IF OwnedLive(T, t) = {} THEN "terminal" ELSE "completing"
  BY DEF Decide, WithOutcome, TaskTable, TaskRecord, Keeps
<1> HIDE DEF U
<1>2. Same(T, U) /\ \A x \in TaskId : Live(U, x) => Live(T, x)
  BY <1>1 DEF Same, Keeps, Live
<1>3. U[t].status = "terminal" => OwnedLive(U, t) = {}
  BY <1>1, <1>2, OwnedShrinks
<1> QED
  BY <1>1, <1>2, <1>3 DEF Change, U

\* A change of marks, or of the status of live tasks that do not end.
LEMMA ChangeStatus ==
  ASSUME NEW T \in TaskTable, NEW U \in TaskTable,
         \A x \in TaskId :
            /\ Keeps(T[x], U[x])
            /\ \/ U[x].status = T[x].status
               \/ Live(T, x) /\ U[x].status \in {"pending", "running", "waiting"}
  PROVE  Change(T, U)
  BY DEF Change, Same, Live

LEMMA ChangeMarks ==
  ASSUME TypeOK, NEW S
  PROVE  Change(task, MarkRequest(task, S))
<1> DEFINE U == MarkRequest(task, S)
<1>1. U \in TaskTable
  BY MarkType DEF MarkRequest, TypeOK, TaskTable, Mark
<1>2. \A x \in TaskId : Keeps(task[x], U[x]) /\ U[x].status = task[x].status
  BY DEF MarkRequest, TypeOK, TaskRecord, Keeps
<1> HIDE DEF U
<1>3. Change(task, U)
  BY <1>1, <1>2, ChangeStatus DEF TypeOK, TaskTable
<1> QED
  BY <1>3 DEF U

-----------------------------------------------------------------------------
(* Creation                                                                *)

\* A new task hangs below born tasks only, and below its owner task if it has one.
LEMMA StagedTree ==
  ASSUME TypeOK, TreeInv, NEW s \in {Nothing} \cup StagedTasks \cup StagedConvs
  PROVE  /\ Tree(s.task, s.convOwner)
         /\ \A x \in TaskId : \/ s.task[x] = task[x]
                              \/ /\ task[x].status = "unborn" /\ s.task[x].status = "pending"
                                 /\ Hangs(s.task, x)
                                 /\ s.task[x].born = restarts /\ s.task[x].owner = s.owner
<1>1. CASE s = Nothing
  BY <1>1 DEF Nothing, TreeInv
<1>2. CASE s \in StagedConvs
  <2>1. PICK c \in NextConv : \E o \in {o \in ConvShapes[c] : o # None => task[o].status # "unborn"} :
          s = [Nothing EXCEPT !.convs = convs \cup {c},
                              !.convOwner = [convOwner EXCEPT ![c] = o], !.owner = o]
    BY <1>2 DEF StagedConvs
  <2>2. PICK o \in ConvShapes[c] :
          /\ o # None => task[o].status # "unborn"
          /\ s = [Nothing EXCEPT !.convs = convs \cup {c},
                                 !.convOwner = [convOwner EXCEPT ![c] = o], !.owner = o]
    BY <2>1
  <2>3. s.task = task /\ s.convOwner = [convOwner EXCEPT ![c] = o]
    BY <2>2 DEF Nothing
  <2> QED
    BY <2>2, <2>3 DEF TreeInv, Tree, TypeOK
<1>3. CASE s \in StagedTasks
  <2>1. PICK n \in NextTask : \E shape \in {shape \in TaskShapes[n] : ShapeAllowed(task, shape)} :
          s = [Nothing EXCEPT !.task = [task EXCEPT ![n] = Born(task, shape)],
                              !.new = {n}, !.owner = shape.owner]
    BY <1>3 DEF StagedTasks
  <2>2. PICK shape \in TaskShapes[n] :
          /\ ShapeAllowed(task, shape)
          /\ s = [Nothing EXCEPT !.task = [task EXCEPT ![n] = Born(task, shape)],
                                 !.new = {n}, !.owner = shape.owner]
    BY <2>1
  <2>3. n \in TaskId /\ task[n].status = "unborn" /\ shape \in Shape
    BY ShapesAssumption DEF NextTask
  <2> DEFINE up == Parent(shape)
             b  == Born(task, shape)
  <2>4. s.task = [task EXCEPT ![n] = b] /\ s.convOwner = convOwner /\ s.owner = shape.owner
    BY <2>2 DEF Nothing
  <2>5. /\ b.owner = shape.owner /\ b.background = shape.background /\ b.status = "pending"
        /\ b.born = restarts /\ b.holders = Holders(task, up)
    BY DEF Born
  <2>6. up \in Owner /\ (shape.owner # None => up = shape.owner /\ ~shape.background)
    BY <2>2, <2>3 DEF Parent, Shape, TypeOK, ShapeAllowed
  <2>7. up # None => up \in TaskId /\ task[up].status # "unborn"
    BY <2>2, <2>3, <2>6 DEF Parent, ShapeAllowed, TreeInv, Tree, Owner, Shape
  <2> HIDE DEF up, b
  <2>8. /\ \A y \in b.holders : y \in TaskId /\ task[y].status # "unborn"
        /\ \A y \in b.holders : ~task[y].background => task[y].holders \subseteq b.holders
        /\ b.owner # None => b.owner \in b.holders
    <3>1. CASE up = None
      BY <2>5, <2>6, <3>1 DEF Holders
    <3>2. CASE up # None /\ task[up].background
      BY <2>5, <2>6, <2>7, <3>2 DEF Holders
    <3>3. CASE up # None /\ ~task[up].background
      <4>1. b.holders = {up} \cup task[up].holders /\ task[up].holders \subseteq TaskId
        BY <2>5, <2>7, <3>3 DEF Holders, TypeOK, TaskRecord
      <4>2. \A y \in b.holders : y \in TaskId /\ task[y].status # "unborn"
        BY <2>7, <3>3, <4>1 DEF TreeInv, Tree
      <4>3. \A y \in b.holders : ~task[y].background => task[y].holders \subseteq b.holders
        BY <2>7, <3>3, <4>1 DEF TreeInv, Tree
      <4>4. b.owner # None => b.owner \in b.holders
        BY <2>5, <2>6, <4>1
      <4> QED
        BY <4>2, <4>3, <4>4
    <3> QED
      BY <3>1, <3>2, <3>3
  <2>9. Tree(s.task, s.convOwner)
    <3>1. \A x \in TaskId : x # n => s.task[x] = task[x]
      BY <2>4 DEF TypeOK
    <3>2. s.task[n] = b
      BY <2>3, <2>4 DEF TypeOK
    <3>3. \A x \in TaskId : \A y \in task[x].holders : y \in TaskId /\ y # n
      BY <2>3 DEF TreeInv, Tree, TypeOK, TaskRecord
    <3>4. \A y \in b.holders : y # n
      BY <2>3, <2>8
    <3>5. \A x \in TaskId : s.task[x].owner # None =>
             ~s.task[x].background /\ s.task[x].owner \in s.task[x].holders
      BY <2>5, <2>6, <2>8, <3>1, <3>2 DEF TreeInv, Tree
    <3>6. \A x \in TaskId : \A y \in s.task[x].holders :
             /\ s.task[y].status # "unborn"
             /\ ~s.task[y].background => s.task[y].holders \subseteq s.task[x].holders
      BY <2>8, <3>1, <3>2, <3>3, <3>4 DEF TreeInv, Tree
    <3>7. \A c \in ConvId : s.convOwner[c] # None => s.task[s.convOwner[c]].status # "unborn"
      BY <2>3, <2>4, <3>1 DEF TreeInv, Tree, TypeOK, Owner
    <3> QED
      BY <3>5, <3>6, <3>7 DEF Tree
  <2>10. s.task[n] = b /\ Hangs(s.task, n)
    BY <2>1, <2>3, <2>4, <2>5, <2>6, <2>7 DEF TypeOK, Hangs
  <2> QED
    BY <2>3, <2>4, <2>5, <2>9, <2>10 DEF TypeOK
<1> QED
  BY <1>1, <1>2, <1>3

-----------------------------------------------------------------------------
(* Every step is a creation followed by a change                           *)

LEMMA CommitChange ==
  ASSUME TypeOK, NEW T \in TaskTable, NEW t \in TaskId, Live(T, t), NEW next \in NextStates(T, t)
  PROVE  Change(T, next.table)
<1>1. CASE next.table = T
  BY <1>1, ChangeNothing
<1>2. CASE \E o \in {"completed", "failed"} : next.table = Decide(T, t, o)
  BY <1>2, ChangeDecide
<1>3. CASE \E on, policy :
             next.table = [T EXCEPT ![t] = [T[t] EXCEPT !.status = "waiting", !.on = on,
                                                        !.policy = policy]]
  <2>1. PICK on, policy :
             next.table = [T EXCEPT ![t] = [T[t] EXCEPT !.status = "waiting", !.on = on,
                                                        !.policy = policy]]
    BY <1>3
  <2>2. next.table \in TaskTable
    BY NextStatesType
  <2>3. /\ \A x \in TaskId \ {t} : next.table[x] = T[x]
        /\ next.table[t] = [T[t] EXCEPT !.status = "waiting", !.on = on, !.policy = policy]
    BY <2>1 DEF TaskTable
  <2>4. T[t] \in TaskRecord
    BY DEF TaskTable
  <2>5. Keeps(T[t], next.table[t]) /\ next.table[t].status = "waiting"
    BY <2>3, <2>4 DEF TaskRecord, Keeps
  <2>6. \A x \in TaskId :
          /\ Keeps(T[x], next.table[x])
          /\ \/ next.table[x].status = T[x].status
             \/ Live(T, x) /\ next.table[x].status \in {"pending", "running", "waiting"}
    BY <2>3, <2>5 DEF Keeps
  <2> QED
    BY <2>2, <2>6, ChangeStatus
<1>4. CASE next \in {[table |-> T, moved |-> m, wrote |-> {t}] : m \in BOOLEAN}
  BY <1>1, <1>4
<1>5. CASE next \in {[table |-> Decide(T, t, o), moved |-> inv[t].moved, wrote |-> {t}] :
                       o \in {"completed", "failed"}}
  BY <1>2, <1>5
<1>6. CASE next \in {[table |-> [T EXCEPT ![t] = [T[t] EXCEPT !.status = "waiting", !.on = w[1],
                                                              !.policy = w[2]]],
                      moved |-> inv[t].moved, wrote |-> {t}] :
                       w \in {v \in Waits : WaitAllowed(T, t, v[1], v[2])}}
  <2>1. PICK w : next = [table |-> [T EXCEPT ![t] = [T[t] EXCEPT !.status = "waiting", !.on = w[1],
                                                                 !.policy = w[2]]],
                         moved |-> inv[t].moved, wrote |-> {t}]
    BY <1>6
  <2>2. next.table = [T EXCEPT ![t] = [T[t] EXCEPT !.status = "waiting", !.on = w[1],
                                                   !.policy = w[2]]]
    BY <2>1
  <2> QED
    BY <1>3, <2>2
<1>7. CASE next = [table |-> T, moved |-> inv[t].moved, wrote |-> {}]
  BY <1>1, <1>7
<1> QED
  BY <1>4, <1>5, <1>6, <1>7 DEF NextStates

LEMMA StateFields ==
  ASSUME NEW r \in TaskRecord, NEW status, NEW outcome
  PROVE  /\ Keeps(r, WithOutcome(r, status, outcome)) /\ WithOutcome(r, status, outcome).status = status
         /\ Keeps(r, WithStatus(r, status)) /\ WithStatus(r, status).status = status
  BY DEF WithOutcome, WithStatus, TaskRecord, Keeps

\* A reservation pass ends only tasks whose abort it need not run: nothing is below them.
LEMMA ReserveChange ==
  ASSUME TypeOK, Reserve
  PROVE  Change(task, task')
<1>1. task' = [x \in TaskId |->
                 IF x \in Orphans THEN WithOutcome(task[x], "terminal", "orphaned")
                 ELSE IF x \in Taken THEN WithStatus(task[x], "running") ELSE task[x]]
  BY DEF Reserve
<1>2. \A x \in TaskId :
        /\ Keeps(task[x], task'[x])
        /\ task'[x].status = IF x \in Orphans THEN "terminal"
                             ELSE IF x \in Taken THEN "running" ELSE task[x].status
  <2>1. \A x \in TaskId : task[x] \in TaskRecord
    BY DEF TypeOK
  <2> QED
    BY <1>1, <2>1, StateFields DEF Keeps
<1>3. \A x \in Orphans : Live(task, x) /\ OwnedLive(task, x) = {}
  BY DEF Orphans, Dropped, WaitingOn
<1>4. \A x \in Taken : Live(task, x)
  BY DEF Taken, Dropped
<1>5. Same(task, task') /\ \A x \in TaskId : Live(task', x) => Live(task, x)
  BY <1>2, <1>3, <1>4 DEF Same, Keeps, Live
<1>6. \A x \in TaskId : task'[x].status = "terminal" => task[x].status = "terminal" \/ x \in Orphans
  BY <1>2
<1>7. \A x \in Orphans : OwnedLive(task', x) = {}
  BY <1>3, <1>5, OwnedShrinks
<1> QED
  BY <1>5, <1>6, <1>7 DEF Change

\* A reconcile ends a holder together with all it holds, as holding is transitive.
LEMMA ReconcileChange ==
  ASSUME TypeOK, TreeInv, Reconcile
  PROVE  Change(task, task')
<1> DEFINE M == Reconciled(Head(line).checks)
<1>1. M \in TaskTable
  BY ReconciledType
<1>2. \A x \in TaskId : Keeps(task[x], M[x]) /\ M[x].status = task[x].status
  <2>1. \A x \in TaskId : task[x] \in TaskRecord
    BY DEF TypeOK
  <2> QED
    BY <2>1 DEF Reconciled, TaskRecord, Keeps
<1>3. task' = [x \in TaskId |-> IF Finalizable(M, x) THEN [M[x] EXCEPT !.status = "terminal"] ELSE M[x]]
  BY DEF Reconcile, Publish
<1> HIDE DEF M
<1>4. \A x \in TaskId :
        /\ Keeps(M[x], task'[x])
        /\ task'[x].status = IF Finalizable(M, x) THEN "terminal" ELSE M[x].status
  <2>1. \A x \in TaskId : M[x] \in TaskRecord
    BY <1>1 DEF TaskTable
  <2> QED
    BY <1>3, <2>1 DEF TaskRecord, Keeps
<1>5. \A x \in TaskId : Finalizable(M, x) => M[x].status = "completing"
  BY DEF Finalizable
<1>6. Same(task, task') /\ \A x \in TaskId : Live(task', x) => Live(task, x)
  BY <1>2, <1>4, <1>5 DEF Same, Keeps, Live
<1>7. Same(M, task') /\ \A x \in TaskId : Live(task', x) => Live(M, x)
  BY <1>4, <1>5 DEF Same, Keeps, Live
<1>8. ASSUME NEW x \in TaskId, Finalizable(M, x), NEW y \in OwnedLive(M, x)
      PROVE  Finalizable(M, y)
  <2>1. y \in TaskId /\ x \in M[y].holders /\ ~M[y].background
    BY DEF OwnedLive
  <2>2. \A z \in TaskId : y \in M[z].holders => x \in M[z].holders
    BY <1>2, <2>1 DEF TreeInv, Tree, Keeps
  <2>3. OwnedLive(M, y) \subseteq OwnedLive(M, x)
    BY <2>2 DEF OwnedLive
  <2> QED
    BY <1>8, <2>3 DEF Finalizable
<1>9. ASSUME NEW x \in TaskId, Finalizable(M, x)
      PROVE  OwnedLive(task', x) = {}
  <2>1. OwnedLive(task', x) \subseteq OwnedLive(M, x)
    BY <1>7, OwnedShrinks
  <2>2. \A y \in OwnedLive(M, x) : task'[y].status = "terminal"
    BY <1>4, <1>8, <1>9 DEF OwnedLive
  <2> QED
    BY <2>1, <2>2 DEF OwnedLive, Live
<1> QED
  BY <1>2, <1>4, <1>6, <1>9 DEF Change

\* Every step stages at most one task below an open owner, and then changes tasks.
LEMMA StepChanges ==
  ASSUME TypeOK, TreeInv, [Next]_vars
  PROVE  \E T \in TaskTable : Tree(T, convOwner') /\ Staged(T) /\ Change(T, task')
<1> DEFINE Goal == \E T \in TaskTable : Tree(T, convOwner') /\ Staged(T) /\ Change(T, task')
<1>0. ASSUME Change(task, task'), convOwner' = convOwner
      PROVE  Goal
  BY <1>0 DEF TreeInv, Staged, TypeOK, TaskTable
<1>t. task \in TaskTable
  BY DEF TypeOK, TaskTable
<1>1. CASE HostCreate
  <2>1. PICK s \in StagedTasks \cup StagedConvs :
          OwnerOpen(s.task, s.owner) /\ convOwner' = s.convOwner /\ task' = s.task
    BY <1>1 DEF HostCreate, Publish
  <2>2. s.task \in TaskTable
    BY StagedType
  <2>3. Tree(s.task, convOwner') /\ Staged(s.task)
    BY <2>1, StagedTree DEF Staged
  <2> QED
    BY <2>1, <2>2, <2>3, ChangeNothing
<1>2. CASE Submit
  BY <1>0, <1>2, <1>t, ChangeNothing DEF Submit, Publish
<1>3. ASSUME NEW x \in Abortable, NEW keepRestart \in BOOLEAN, AbortTask(x, keepRestart)
      PROVE  Goal
  <2>1. x \in TaskId /\ Live(task, x)
    BY <1>3, ShapesAssumption DEF AbortTask
  <2>2. task' = Decide(task, x, "orphaned") \/ task' = MarkRequest(task, {x})
    BY <1>3 DEF AbortTask, Publish
  <2> QED
    BY <1>0, <1>3, <1>t, <2>1, <2>2, ChangeDecide, ChangeMarks DEF AbortTask
<1>4. ASSUME NEW c \in AbortScopes, NEW cross \in BOOLEAN, AbortConversation(c, cross)
      PROVE  Goal
  <2>1. PICK marked : task' = MarkRequest(task, marked)
    BY <1>4 DEF AbortConversation, Publish
  <2> QED
    BY <1>0, <1>4, <2>1, ChangeMarks DEF AbortConversation
<1>5. ASSUME NEW t \in TaskId, RuntimeCommit(t)
      PROVE  Goal
  <2>1. PICK s \in {Nothing} \cup StagedTasks \cup StagedConvs : \E next \in NextStates(s.task, t) :
          /\ OwnerOpen(next.table, s.owner)
          /\ convOwner' = s.convOwner /\ task' = next.table
    BY <1>5 DEF RuntimeCommit, Publish
  <2>2. PICK next \in NextStates(s.task, t) :
          /\ OwnerOpen(next.table, s.owner)
          /\ convOwner' = s.convOwner /\ task' = next.table
    BY <2>1
  <2>3. s.task \in TaskTable
    BY StagedType
  <2>4. Tree(s.task, convOwner') /\ Staged(s.task)
    BY <2>2, StagedTree DEF Staged
  <2>5. Live(s.task, t)
    BY <1>5, StagedTree DEF RuntimeCommit, Live
  <2> QED
    BY <2>2, <2>3, <2>4, <2>5, CommitChange
<1>6. ASSUME NEW t \in TaskId, HandlerReturn(t)
      PROVE  Goal
  BY <1>0, <1>6, <1>t, ChangeNothing DEF HandlerReturn
<1>7. ASSUME NEW t \in TaskId, RunStep(t)
      PROVE  Goal
  <2>1. convOwner' = convOwner
    BY <1>7 DEF RunStep, StepFrame
  <2>2. CASE task' = task
    BY <1>0, <1>t, <2>1, <2>2, ChangeNothing
  <2>3. CASE Undecided(t) /\ task' = Decide(task, t, "faulted")
    BY <1>0, <1>t, <2>1, <2>3, ChangeDecide DEF Undecided, Live
  <2>4. CASE Undecided(t) /\ task' = [task EXCEPT ![t] = WithStatus(task[t], "pending")]
    <3>1. \A x \in TaskId : task[x] \in TaskRecord
      BY DEF TypeOK
    <3>2. task' \in TaskTable
      BY <2>4, <3>1, OutcomeType DEF TypeOK, TaskTable, Status, Outcome
    <3>3. /\ \A x \in TaskId \ {t} : task'[x] = task[x]
          /\ task'[t] = WithStatus(task[t], "pending")
      BY <2>4 DEF TypeOK
    <3>4. \A x \in TaskId :
            /\ Keeps(task[x], task'[x])
            /\ \/ task'[x].status = task[x].status
               \/ Live(task, x) /\ task'[x].status \in {"pending", "running", "waiting"}
      BY <2>4, <3>1, <3>3, StateFields DEF Undecided, Live, Keeps
    <3> QED
      BY <1>0, <1>t, <2>1, <3>2, <3>4, ChangeStatus
  <2> QED
    BY <1>7, <2>2, <2>3, <2>4 DEF RunStep, EndInvocation
<1>8. ASSUME NEW t \in TaskId, AbortStep(t)
      PROVE  Goal
  <2>1. /\ convOwner' = convOwner
        /\ \/ task' = task
           \/ task[t].status = "running" /\ task' = Decide(task, t, "faulted")
    BY <1>8 DEF AbortStep, StepFrame, EndInvocation
  <2> QED
    BY <1>0, <1>t, <2>1, ChangeNothing, ChangeDecide DEF Live
<1>9. CASE ReserveAbandoned
  <2> DEFINE Ch == {x \in abandoned : Live(task, x) /\ task[x].mark = "none"}
  <2>1. task' = [x \in TaskId |-> IF x \in Ch THEN [task[x] EXCEPT !.mark = "restart"] ELSE task[x]]
    BY <1>9 DEF ReserveAbandoned
  <2>2. \A x \in TaskId : task[x] \in TaskRecord
    BY DEF TypeOK
  <2> HIDE DEF Ch
  <2>3. task' \in TaskTable
    BY <2>1, <2>2, MarkType DEF TaskTable, Mark
  <2>4. \A x \in TaskId :
          Keeps(task[x], task'[x]) /\ task'[x].status = task[x].status
    BY <2>1, <2>2 DEF TaskRecord, Keeps
  <2> QED
    BY <1>0, <1>9, <1>t, <2>3, <2>4, ChangeStatus DEF ReserveAbandoned
<1>10. CASE Reserve
  BY <1>0, <1>10, ReserveChange DEF Reserve
<1>11. CASE Reconcile
  BY <1>0, <1>11, ReconcileChange DEF Reconcile
<1>12. CASE Open
  <2>1. task' = [x \in TaskId |-> IF task[x].status = "running"
                                  THEN WithStatus(task[x], "pending") ELSE task[x]]
    BY <1>12 DEF Open
  <2>2. \A x \in TaskId : task[x] \in TaskRecord
    BY DEF TypeOK
  <2>3. task' \in TaskTable
    BY <2>1, <2>2, OutcomeType DEF TaskTable, Status, Outcome
  <2>4. \A x \in TaskId :
          /\ Keeps(task[x], task'[x])
          /\ \/ task'[x].status = task[x].status
             \/ Live(task, x) /\ task'[x].status \in {"pending", "running", "waiting"}
    BY <2>1, <2>2, StateFields DEF Live, Keeps
  <2> QED
    BY <1>0, <1>12, <1>t, <2>3, <2>4, ChangeStatus DEF Open
<1>13. CASE Resume \/ Stop \/ RegistryChange \/ UNCHANGED vars
  BY <1>0, <1>13, <1>t, ChangeNothing DEF Resume, Stop, RegistryChange, vars
<1> QED
  BY <1>1, <1>2, <1>3, <1>4, <1>5, <1>6, <1>7, <1>8, <1>9, <1>10, <1>11, <1>12, <1>13
  DEF Next, LineJob

-----------------------------------------------------------------------------
(* What an owner waits for                                                 *)

LEMMA TreeStep ==
  ASSUME TypeOK, TypeOK', TreeInv, [Next]_vars
  PROVE  TreeInv'
<1>1. PICK T \in TaskTable : Tree(T, convOwner') /\ Change(T, task')
  BY StepChanges
<1>2. task' \in TaskTable /\ convOwner' \in [ConvId -> Owner]
  BY DEF TypeOK, TaskTable
<1> QED
  BY <1>1, <1>2, TreeKept DEF TreeInv, Change

\* A task ends only when the ordinary work it owns has drained.
LEMMA DrainStep ==
  ASSUME TypeOK, TreeInv, [Next]_vars
  PROVE  \A x \in TaskId : task[x].status # "terminal" /\ task'[x].status = "terminal"
                              => OwnedLive(task', x) = {}
<1>1. PICK T \in TaskTable : Staged(T) /\ Change(T, task')
  BY StepChanges
<1> QED
  BY <1>1 DEF Staged, Change

LEMMA OwnerStep ==
  ASSUME TypeOK, TreeInv, TreeInv', LiveChildHasLiveOwner, [Next]_vars
  PROVE  LiveChildHasLiveOwner'
<1>1. PICK T \in TaskTable : Tree(T, convOwner') /\ Staged(T) /\ Change(T, task')
  BY StepChanges
<1> SUFFICES ASSUME NEW x \in TaskId, Live(task', x), task'[x].owner # None
             PROVE  Live(task', task'[x].owner)
  BY DEF LiveChildHasLiveOwner, Live
<1> DEFINE o == task'[x].owner
<1>2. Live(T, x) /\ T[x].owner = o /\ o \in TaskId
  BY <1>1 DEF Change, Same, Keeps, TaskTable, TaskRecord, Owner
<1>3. CASE task[x].status = "unborn"
  BY <1>1, <1>2, <1>3 DEF Staged, OwnerOpen, Live
<1>4. CASE T[x] = task[x]
  <2>1. Live(task, o)
    BY <1>2, <1>4 DEF LiveChildHasLiveOwner, Live
  <2>2. Live(T, o)
    BY <1>1, <1>2, <2>1 DEF Staged, Live
  <2>3. x \in OwnedLive(task', o)
    BY DEF TreeInv, Tree, OwnedLive, Live
  <2>4. task'[o].status # "terminal" /\ task'[o].status # "unborn"
    BY <1>1, <1>2, <2>2, <2>3 DEF Change, Same, Live
  <2> QED
    BY <2>4 DEF Live
<1> QED
  BY <1>1, <1>3, <1>4 DEF Staged

\* The ownership tree is well formed in every reachable state: holding is transitive.
THEOREM TreeCorrect == Spec => []TreeInv
<1>1. Init => TreeInv
  BY DEF Init, TreeInv, Tree, Unborn
<1>2. TypeOK /\ TypeOK' /\ TreeInv /\ [Next]_vars => TreeInv'
  BY TreeStep
<1> QED
  BY <1>1, <1>2, TypeCorrect, PTL DEF Spec

\* A terminal receipt guarantees that the ordinary owned work drained, whatever wrote it.
THEOREM TerminalDrained == Spec => DrainBeforeTerminal
<1>1. TypeOK /\ TreeInv /\ [Next]_vars =>
        [\A x \in TaskId : task[x].status # "terminal" /\ task'[x].status = "terminal"
                              => OwnedLive(task', x) = {}]_vars
  BY DrainStep
<1> QED
  BY <1>1, TypeCorrect, TreeCorrect, PTL DEF Spec, DrainBeforeTerminal

\* A live child has a live owner in every reachable state.
THEOREM ChildrenHeld == Spec => []LiveChildHasLiveOwner
<1>1. Init => LiveChildHasLiveOwner
  BY DEF Init, LiveChildHasLiveOwner, Live, Unborn
<1>2. /\ TypeOK /\ TreeInv /\ TreeInv' /\ LiveChildHasLiveOwner /\ [Next]_vars
      => LiveChildHasLiveOwner'
  BY OwnerStep
<1> QED
  BY <1>1, <1>2, TypeCorrect, TreeCorrect, PTL DEF Spec

-----------------------------------------------------------------------------
(* Circular waits                                                          *)

Acyclic(T) == \A x \in TaskId : x \notin WaitReach(T, WaitsFor(T, x))

\* A set of tasks that no edge leaves.
Closed(T, C) == C \subseteq TaskId /\ \A y \in C : WaitsFor(T, y) \subseteq C

-----------------------------------------------------------------------------
(* The wait-for graph                                                      *)

LEMMA WaitsType == ASSUME NEW T \in TaskTable, NEW x \in TaskId PROVE WaitsFor(T, x) \subseteq TaskId
<1>1. T[x].on \subseteq TaskId
  BY DEF TaskTable, TaskRecord
<1> QED
  BY <1>1 DEF WaitsFor, OwnedLive

\* What is reached from S is the least closed set that contains S.
LEMMA ReachLeast ==
  ASSUME NEW T \in TaskTable, NEW S \in SUBSET TaskId
  PROVE  /\ S \subseteq WaitReach(T, S) /\ Closed(T, WaitReach(T, S))
         /\ \A C : Closed(T, C) /\ S \subseteq C => WaitReach(T, S) \subseteq C
<1>1. S \subseteq WaitReach(T, S)
  BY DEF WaitReach
<1>2. WaitReach(T, S) \subseteq TaskId
  BY DEF WaitReach
<1>3. ASSUME NEW y \in WaitReach(T, S), NEW z \in WaitsFor(T, y) PROVE z \in WaitReach(T, S)
  <2>1. z \in TaskId
    BY <1>2, WaitsType
  <2>2. ASSUME NEW C \in SUBSET TaskId, S \subseteq C, \A v \in C : WaitsFor(T, v) \subseteq C
        PROVE  z \in C
    BY <2>2 DEF WaitReach
  <2> QED
    BY <2>1, <2>2 DEF WaitReach
<1>4. ASSUME NEW C, Closed(T, C), S \subseteq C PROVE WaitReach(T, S) \subseteq C
  BY <1>4 DEF WaitReach, Closed
<1> QED
  BY <1>1, <1>2, <1>3, <1>4 DEF Closed

\* A closed set that holds what x waits for, and not x, shows that x is on no cycle.
LEMMA OffCycle ==
  ASSUME NEW T, NEW x, NEW C, Closed(T, C), WaitsFor(T, x) \subseteq C, x \notin C
  PROVE  x \notin WaitReach(T, WaitsFor(T, x))
  BY DEF WaitReach, Closed

\* New edges that lead to tasks without edges close no cycle, nor does taking edges away.
LEMMA ToSinks ==
  ASSUME NEW T \in TaskTable, NEW U, Acyclic(T), NEW N \in SUBSET TaskId,
         \A n \in N : WaitsFor(U, n) = {},
         \A x \in TaskId \ N : WaitsFor(U, x) \subseteq WaitsFor(T, x) \cup N
  PROVE  Acyclic(U)
<1>1. ASSUME NEW x \in N PROVE x \notin WaitReach(U, WaitsFor(U, x))
  <2>1. Closed(U, {}) /\ WaitsFor(U, x) \subseteq {}
    BY DEF Closed
  <2> QED
    BY <2>1, OffCycle
<1>2. ASSUME NEW x \in TaskId \ N PROVE x \notin WaitReach(U, WaitsFor(U, x))
  <2> DEFINE R == WaitReach(T, WaitsFor(T, x))
  <2>1. Closed(T, R) /\ WaitsFor(T, x) \subseteq R /\ x \notin R
    BY WaitsType, ReachLeast DEF Acyclic
  <2> HIDE DEF R
  <2>2. Closed(U, R \cup N)
    BY <2>1 DEF Closed
  <2>3. WaitsFor(U, x) \subseteq R \cup N /\ x \notin R \cup N
    BY <2>1
  <2> QED
    BY <2>2, <2>3, OffCycle
<1> QED
  BY <1>1, <1>2 DEF Acyclic

\* New edges from t close no cycle when t is not reached from where they lead.
LEMMA CheckedEdges ==
  ASSUME NEW T \in TaskTable, NEW U, Acyclic(T), NEW t \in TaskId,
         NEW D \in SUBSET TaskId, t \notin WaitReach(T, D),
         WaitsFor(U, t) \subseteq WaitsFor(T, t) \cup D,
         \A x \in TaskId \ {t} : WaitsFor(U, x) \subseteq WaitsFor(T, x)
  PROVE  Acyclic(U)
<1> DEFINE E == WaitReach(T, D)
           R(x) == WaitReach(T, WaitsFor(T, x))
<1>1. Closed(T, E) /\ D \subseteq E /\ t \notin E
  BY ReachLeast
<1>2. \A x \in TaskId : /\ Closed(T, R(x)) /\ WaitsFor(T, x) \subseteq R(x) /\ x \notin R(x)
                        /\ \A C : Closed(T, C) /\ WaitsFor(T, x) \subseteq C => R(x) \subseteq C
  BY WaitsType, ReachLeast DEF Acyclic
<1> HIDE DEF E, R
<1>3. t \notin WaitReach(U, WaitsFor(U, t))
  <2>1. Closed(U, R(t) \cup E)
    BY <1>1, <1>2 DEF Closed
  <2>2. WaitsFor(U, t) \subseteq R(t) \cup E /\ t \notin R(t) \cup E
    BY <1>1, <1>2
  <2> QED
    BY <2>1, <2>2, OffCycle
<1>4. ASSUME NEW x \in TaskId \ {t} PROVE x \notin WaitReach(U, WaitsFor(U, x))
  <2>1. Closed(T, R(x)) /\ WaitsFor(T, x) \subseteq R(x) /\ x \notin R(x)
    BY <1>2
  <2>2. CASE t \notin R(x)
    <3>1. Closed(U, R(x)) /\ WaitsFor(U, x) \subseteq R(x)
      BY <2>1, <2>2 DEF Closed
    <3> QED
      BY <2>1, <3>1, OffCycle
  <2>3. CASE t \in R(x)
    <3>1. x \notin E
      <4> SUFFICES ASSUME x \in E PROVE FALSE
        OBVIOUS
      <4>1. WaitsFor(T, x) \subseteq E
        BY <1>1 DEF Closed
      <4>2. R(x) \subseteq E
        BY <1>1, <1>2, <4>1
      <4> QED
        BY <1>1, <2>3, <4>2
    <3>2. Closed(U, R(x) \cup E)
      BY <1>1, <2>1, <2>3 DEF Closed
    <3>3. WaitsFor(U, x) \subseteq R(x) \cup E /\ x \notin R(x) \cup E
      BY <2>1, <3>1
    <3> QED
      BY <3>2, <3>3, OffCycle
  <2> QED
    BY <2>2, <2>3
<1> QED
  BY <1>3, <1>4 DEF Acyclic

-----------------------------------------------------------------------------
(* Edges of a commit                                                       *)

\* A task that waits unmarked in U did so in T, for the same tasks.
StillWaits(T, U, x) ==
  U[x].status = "waiting" /\ U[x].mark = "none" =>
    T[x].status = "waiting" /\ T[x].mark = "none" /\ U[x].on = T[x].on

LEMMA FewerEdges ==
  ASSUME NEW T, NEW U, Change(T, U), NEW x \in TaskId, StillWaits(T, U, x)
  PROVE  WaitsFor(U, x) \subseteq WaitsFor(T, x)
<1>1. OwnedLive(U, x) \subseteq OwnedLive(T, x)
  BY OwnedShrinks DEF Change
<1>2. Live(U, x) => Live(T, x)
  BY DEF Change
<1> QED
  BY <1>1, <1>2 DEF WaitsFor, StillWaits

\* A newborn task holds nothing and waits for nothing; others may have it as owned work.
LEMMA StagedAcyclic ==
  ASSUME TypeOK, TreeInv, WaitGraphAcyclic, NEW s \in {Nothing} \cup StagedTasks \cup StagedConvs
  PROVE  Acyclic(s.task)
<1>a. Acyclic(task)
  BY DEF Acyclic, WaitGraphAcyclic
<1>1. CASE s = Nothing
  BY <1>1, <1>a DEF Nothing
<1>2. CASE s \in StagedConvs
  <2>1. PICK c \in NextConv : \E o \in {o \in ConvShapes[c] : o # None => task[o].status # "unborn"} :
          s = [Nothing EXCEPT !.convs = convs \cup {c},
                              !.convOwner = [convOwner EXCEPT ![c] = o], !.owner = o]
    BY <1>2 DEF StagedConvs
  <2>2. s.task = task
    BY <2>1 DEF Nothing
  <2> QED
    BY <1>a, <2>2
<1>3. CASE s \in StagedTasks
  <2>1. PICK n \in NextTask : \E shape \in {shape \in TaskShapes[n] : ShapeAllowed(task, shape)} :
          s = [Nothing EXCEPT !.task = [task EXCEPT ![n] = Born(task, shape)],
                              !.new = {n}, !.owner = shape.owner]
    BY <1>3 DEF StagedTasks
  <2>2. PICK shape \in TaskShapes[n] :
          /\ ShapeAllowed(task, shape)
          /\ s = [Nothing EXCEPT !.task = [task EXCEPT ![n] = Born(task, shape)],
                                 !.new = {n}, !.owner = shape.owner]
    BY <2>1
  <2>3. n \in TaskId /\ task[n].status = "unborn" /\ shape \in Shape
    BY ShapesAssumption DEF NextTask
  <2> DEFINE T  == s.task
             up == Parent(shape)
             b  == Born(task, shape)
  <2>4. T[n] = b /\ \A x \in TaskId : x # n => T[x] = task[x]
    BY <2>2, <2>3 DEF Nothing, TypeOK
  <2>5. b.status = "pending" /\ b.holders = Holders(task, up)
    BY DEF Born
  <2>6. up \in Owner /\ (up # None => task[up].status # "unborn")
    BY <2>2, <2>3 DEF Parent, Shape, TypeOK, ShapeAllowed, TreeInv, Tree, Owner
  <2> HIDE DEF T, up, b
  <2>7. n \notin b.holders
    <3>1. up # None => up # n /\ up \in TaskId
      BY <2>3, <2>6 DEF Owner
    <3>2. up # None => n \notin task[up].holders
      BY <2>3, <3>1 DEF TreeInv, Tree
    <3> QED
      BY <2>5, <3>1, <3>2 DEF Holders
  <2>8. \A x \in TaskId : n \notin T[x].holders
    BY <2>3, <2>4, <2>7 DEF TreeInv, Tree
  <2>9. WaitsFor(T, n) = {}
    BY <2>4, <2>5, <2>8 DEF WaitsFor, OwnedLive
  <2>10. ASSUME NEW x \in TaskId, x # n PROVE WaitsFor(T, x) \subseteq WaitsFor(task, x) \cup {n}
    <3>1. OwnedLive(T, x) \subseteq OwnedLive(task, x) \cup {n}
      BY <2>4 DEF OwnedLive, Live
    <3>2. T[x] = task[x]
      BY <2>4, <2>10
    <3>3. T[x].status = task[x].status /\ T[x].mark = task[x].mark /\ T[x].on = task[x].on
      BY <3>2
    <3>4. Live(T, x) <=> Live(task, x)
      BY <3>3 DEF Live
    <3> DEFINE on(U) == IF U[x].status = "waiting" /\ U[x].mark = "none" THEN U[x].on ELSE {}
    <3>5. on(T) = on(task)
      BY <3>3
    <3>6. \A U : WaitsFor(U, x) = IF ~Live(U, x) THEN {} ELSE OwnedLive(U, x) \cup on(U)
      BY DEF WaitsFor
    <3> HIDE DEF on
    <3> QED
      BY <3>1, <3>4, <3>5, <3>6
  <2>11. task \in TaskTable
    BY DEF TypeOK, TaskTable
  <2>12. Acyclic(T)
    <3> DEFINE N == {n}
    <3>1. N \in SUBSET TaskId /\ \A m \in N : WaitsFor(T, m) = {}
      BY <2>3, <2>9
    <3>2. \A x \in TaskId \ N : WaitsFor(T, x) \subseteq WaitsFor(task, x) \cup N
      BY <2>10
    <3> HIDE DEF N
    <3> QED
      BY ONLY <1>a, <2>11, <3>1, <3>2, ToSinks
  <2> QED
    BY <2>12 DEF T
<1> QED
  BY <1>1, <1>2, <1>3

-----------------------------------------------------------------------------
(* The steps                                                               *)

\* A decided task waits no more.
LEMMA DecideWaits ==
  ASSUME NEW T \in TaskTable, NEW t \in TaskId, NEW outcome, NEW x \in TaskId
  PROVE  StillWaits(T, Decide(T, t, outcome), x)
<1> DEFINE status == IF OwnedLive(T, t) = {} THEN "terminal" ELSE "completing"
<1>1. Decide(T, t, outcome)[x] = IF x = t THEN WithOutcome(T[t], status, outcome) ELSE T[x]
  BY DEF Decide, TaskTable
<1>2. status # "waiting"
  OBVIOUS
<1> HIDE DEF status
<1>3. WithOutcome(T[t], status, outcome).status = status
  BY StateFields DEF TaskTable
<1> QED
  BY <1>1, <1>2, <1>3 DEF StillWaits

\* A wait that task code commits adds the edges it was checked for, and edges to owned
\* or ended tasks, which were there or lead on to nothing.
LEMMA WaitAcyclic ==
  ASSUME TypeOK, NEW T \in TaskTable, NEW O, Tree(T, O), Acyclic(T), NEW t \in TaskId,
         T[t].status = "running", NEW on \in SUBSET TaskId, NEW policy, WaitAllowed(T, t, on, policy),
         NEW U, Change(T, U), U[t].on = on, \A x \in TaskId : x # t => U[x] = T[x]
  PROVE  Acyclic(U)
<1> DEFINE D == {m \in on : T[m].status # "terminal" /\ T[m].owner # t}
           E == {m \in on : T[m].status = "terminal"}
           R == WaitReach(T, D)
<1>1. t \notin R /\ \A m \in on : T[m].status # "unborn"
  BY DEF WaitAllowed
<1>2. D \in SUBSET TaskId /\ E \in SUBSET TaskId /\ t \notin E
  OBVIOUS
<1>3. Closed(T, R) /\ D \subseteq R
  BY <1>2, ReachLeast
<1>4. \A m \in E : WaitsFor(T, m) = {}
  BY DEF WaitsFor, Live
<1>5. \A m \in on : m \in D \/ m \in E \/ m \in OwnedLive(T, t)
  BY <1>1 DEF Tree, OwnedLive, Live, None, TaskId
<1> HIDE DEF D, E, R
<1>6. Closed(T, R \cup E)
  BY <1>2, <1>3, <1>4 DEF Closed
<1>7. t \notin WaitReach(T, D \cup E)
  <2>1. WaitReach(T, D \cup E) \subseteq R \cup E
    BY <1>2, <1>3, <1>6, ReachLeast
  <2> QED
    BY <1>1, <1>2, <2>1
<1>8. WaitsFor(U, t) \subseteq WaitsFor(T, t) \cup (D \cup E)
  <2>1. OwnedLive(U, t) \subseteq OwnedLive(T, t)
    BY OwnedShrinks DEF Change
  <2>2. Live(T, t) /\ OwnedLive(T, t) \subseteq WaitsFor(T, t)
    BY DEF Live, WaitsFor
  <2>3. WaitsFor(U, t) \subseteq OwnedLive(U, t) \cup on
    BY DEF WaitsFor
  <2> QED
    BY <1>5, <2>1, <2>2, <2>3
<1>9. \A x \in TaskId \ {t} : WaitsFor(U, x) \subseteq WaitsFor(T, x)
  BY FewerEdges DEF StillWaits
<1> QED
  BY <1>2, <1>7, <1>8, <1>9, CheckedEdges

LEMMA CommitAcyclic ==
  ASSUME TypeOK, NEW T \in TaskTable, NEW O, Tree(T, O), Acyclic(T), NEW t \in TaskId,
         T[t].status = "running", NEW next \in NextStates(T, t)
  PROVE  Acyclic(next.table)
<1>c. Change(T, next.table)
  BY CommitChange DEF Live
<1>1. CASE next.table = T
  BY <1>1
<1>2. ASSUME NEW o, next.table = Decide(T, t, o) PROVE Acyclic(next.table)
  <2> DEFINE U == next.table
  <2>1. \A x \in TaskId : WaitsFor(U, x) \subseteq WaitsFor(T, x)
    BY <1>2, <1>c, DecideWaits, FewerEdges
  <2> HIDE DEF U
  <2>2. Acyclic(U)
    <3>1. {} \in SUBSET TaskId /\ \A n \in {} : WaitsFor(U, n) = {}
      OBVIOUS
    <3>2. \A x \in TaskId \ {} : WaitsFor(U, x) \subseteq WaitsFor(T, x) \cup {}
      BY <2>1
    <3> QED
      BY <3>1, <3>2, ToSinks
  <2> QED
    BY <2>2 DEF U
<1>3. ASSUME NEW w \in {v \in Waits : WaitAllowed(T, t, v[1], v[2])},
             next.table = [T EXCEPT ![t] = [T[t] EXCEPT !.status = "waiting", !.on = w[1], !.policy = w[2]]]
      PROVE  Acyclic(next.table)
  <2>1. w[1] \in SUBSET TaskId /\ WaitAllowed(T, t, w[1], w[2])
    BY ShapesAssumption
  <2>2. next.table[t] = [T[t] EXCEPT !.status = "waiting", !.on = w[1], !.policy = w[2]]
        /\ \A x \in TaskId : x # t => next.table[x] = T[x]
    BY <1>3 DEF TaskTable
  <2>3. next.table[t].on = w[1]
    BY <2>2 DEF TaskTable, TaskRecord
  <2> QED
    BY <1>c, <2>1, <2>2, <2>3, WaitAcyclic
<1>4. CASE next \in {[table |-> T, moved |-> m, wrote |-> {t}] : m \in BOOLEAN}
  BY <1>1, <1>4
<1>5. CASE next \in {[table |-> Decide(T, t, o), moved |-> inv[t].moved, wrote |-> {t}] :
                       o \in {"completed", "failed"}}
  BY <1>2, <1>5
<1>6. CASE next \in {[table |-> [T EXCEPT ![t] = [T[t] EXCEPT !.status = "waiting", !.on = w[1],
                                                              !.policy = w[2]]],
                      moved |-> inv[t].moved, wrote |-> {t}] :
                       w \in {v \in Waits : WaitAllowed(T, t, v[1], v[2])}}
  <2>1. PICK w \in {v \in Waits : WaitAllowed(T, t, v[1], v[2])} :
          next = [table |-> [T EXCEPT ![t] = [T[t] EXCEPT !.status = "waiting", !.on = w[1],
                                                          !.policy = w[2]]],
                  moved |-> inv[t].moved, wrote |-> {t}]
    BY <1>6
  <2>2. next.table = [T EXCEPT ![t] = [T[t] EXCEPT !.status = "waiting", !.on = w[1], !.policy = w[2]]]
    BY <2>1
  <2> QED
    BY <1>3, <2>2
<1>7. CASE next = [table |-> T, moved |-> inv[t].moved, wrote |-> {}]
  BY <1>1, <1>7
<1> QED
  BY <1>4, <1>5, <1>6, <1>7 DEF NextStates

\* A step that creates nothing and commits no wait.
Settles == \A x \in TaskId : /\ task[x].status = "unborn" => task'[x].status = "unborn"
                             /\ StillWaits(task, task', x)

LEMMA SettlesNothing == ASSUME task' = task PROVE Settles
  BY DEF Settles, StillWaits

LEMMA SettlesDecide ==
  ASSUME TypeOK, NEW t \in TaskId, Live(task, t), NEW outcome, task' = Decide(task, t, outcome)
  PROVE  Settles
<1>1. task \in TaskTable
  BY DEF TypeOK, TaskTable
<1>2. \A x \in TaskId : task[x].status = "unborn" => task'[x].status = "unborn"
  BY <1>1, ChangeDecide DEF Change, Same
<1> QED
  BY <1>1, <1>2, DecideWaits DEF Settles

LEMMA SettlesMarks ==
  ASSUME TypeOK, NEW S, task' = MarkRequest(task, S)
  PROVE  Settles
<1>1. ASSUME NEW x \in TaskId
      PROVE  task'[x] = task[x] \/ (task'[x].mark = "request" /\ task'[x].status = task[x].status)
  <2>1. task[x] \in TaskRecord
    BY DEF TypeOK
  <2>2. task'[x] = IF x \in S THEN [task[x] EXCEPT !.mark = "request"] ELSE task[x]
    BY DEF MarkRequest
  <2> QED
    BY <2>1, <2>2 DEF TaskRecord
<1> QED
  BY <1>1 DEF Settles, StillWaits

\* A task that starts, ends or hands over waits no more.
LEMMA SettlesStatus ==
  ASSUME NEW x \in TaskId, Live(task, x), task'[x].status # "waiting"
  PROVE  /\ task[x].status = "unborn" => task'[x].status = "unborn"
         /\ StillWaits(task, task', x)
  BY DEF Live, StillWaits

\* Only commits of the host and of task code create tasks or waits.
LEMMA OthersSettle ==
  ASSUME TypeOK, [Next]_vars, ~HostCreate, \A t \in TaskId : ~RuntimeCommit(t)
  PROVE  Settles
<1>t. task \in TaskTable /\ \A x \in TaskId : task[x] \in TaskRecord
  BY DEF TypeOK, TaskTable
<1>1. CASE Submit \/ (\E t \in TaskId : HandlerReturn(t)) \/ Resume \/ Stop \/ RegistryChange \/ UNCHANGED vars
  BY <1>1, SettlesNothing DEF Submit, Publish, HandlerReturn, Resume, Stop, RegistryChange, vars
<1>2. ASSUME NEW x \in Abortable, NEW keepRestart \in BOOLEAN, AbortTask(x, keepRestart)
      PROVE  Settles
  <2>1. x \in TaskId /\ Live(task, x)
    BY <1>2, ShapesAssumption DEF AbortTask
  <2>2. task' = Decide(task, x, "orphaned") \/ task' = MarkRequest(task, {x})
    BY <1>2 DEF AbortTask, Publish
  <2> QED
    BY <2>1, <2>2, SettlesDecide, SettlesMarks
<1>3. ASSUME NEW c \in AbortScopes, NEW cross \in BOOLEAN, AbortConversation(c, cross)
      PROVE  Settles
  <2>1. PICK marked : task' = MarkRequest(task, marked)
    BY <1>3 DEF AbortConversation, Publish
  <2> QED
    BY <2>1, SettlesMarks
<1>4. ASSUME NEW t \in TaskId, RunStep(t) PROVE Settles
  <2>1. CASE task' = task
    BY <2>1, SettlesNothing
  <2>2. CASE Undecided(t) /\ task' = Decide(task, t, "faulted")
    BY <2>2, SettlesDecide DEF Undecided, Live
  <2>3. CASE Undecided(t) /\ task' = [task EXCEPT ![t] = WithStatus(task[t], "pending")]
    <3>1. /\ \A x \in TaskId : x # t => task'[x] = task[x]
          /\ task'[t] = WithStatus(task[t], "pending") /\ Live(task, t)
      BY <2>3 DEF TypeOK, Undecided, Live
    <3>2. task'[t].status = "pending"
      BY <1>t, <3>1, StateFields
    <3> QED
      BY <3>1, <3>2, SettlesStatus DEF Settles, StillWaits
  <2> QED
    BY <1>4, <2>1, <2>2, <2>3 DEF RunStep, EndInvocation
<1>5. ASSUME NEW t \in TaskId, AbortStep(t) PROVE Settles
  <2>1. \/ task' = task
        \/ task[t].status = "running" /\ task' = Decide(task, t, "faulted")
    BY <1>5 DEF AbortStep, EndInvocation
  <2> QED
    BY <2>1, SettlesNothing, SettlesDecide DEF Live
<1>6. CASE ReserveAbandoned
  <2> DEFINE Ch == {x \in abandoned : Live(task, x) /\ task[x].mark = "none"}
  <2>1. task' = [x \in TaskId |-> IF x \in Ch THEN [task[x] EXCEPT !.mark = "restart"] ELSE task[x]]
    BY <1>6 DEF ReserveAbandoned
  <2> HIDE DEF Ch
  <2>2. \A x \in TaskId : \/ task'[x] = task[x]
                          \/ task'[x].mark = "restart" /\ task'[x].status = task[x].status
    BY <1>t, <2>1 DEF TaskRecord
  <2> QED
    BY <2>2 DEF Settles, StillWaits
<1>7. CASE Reserve
  <2>1. task' = [x \in TaskId |->
                   IF x \in Orphans THEN WithOutcome(task[x], "terminal", "orphaned")
                   ELSE IF x \in Taken THEN WithStatus(task[x], "running") ELSE task[x]]
    BY <1>7 DEF Reserve
  <2>2. \A x \in TaskId : x \in Orphans \/ x \in Taken => Live(task, x)
    BY DEF Orphans, Taken, Dropped
  <2>3. \A x \in TaskId : \/ task'[x] = task[x]
                          \/ Live(task, x) /\ task'[x].status # "waiting"
    BY <1>t, <2>1, <2>2, StateFields
  <2> QED
    BY <2>3, SettlesStatus DEF Settles, StillWaits
<1>8. CASE Reconcile
  <2> DEFINE M == Reconciled(Head(line).checks)
  <2>1. task' = [x \in TaskId |-> IF Finalizable(M, x) THEN [M[x] EXCEPT !.status = "terminal"] ELSE M[x]]
    BY <1>8 DEF Reconcile, Publish
  <2>2. \A x \in TaskId : \/ M[x] = task[x]
                          \/ M[x].mark # "none" /\ M[x].status = task[x].status
    BY <1>t DEF Reconciled, TaskRecord
  <2>3. \A x \in TaskId : M[x] \in TaskRecord /\ (Finalizable(M, x) => M[x].status = "completing")
    BY ReconciledType DEF TaskTable, Finalizable
  <2> HIDE DEF M
  <2>4. ASSUME NEW x \in TaskId
        PROVE  /\ task[x].status = "unborn" => task'[x].status = "unborn"
               /\ StillWaits(task, task', x)
    <3>1. CASE Finalizable(M, x)
      <4>1. task'[x].status = "terminal" /\ Live(task, x)
        BY <2>1, <2>2, <2>3, <3>1 DEF TaskRecord, Live
      <4> QED
        BY <4>1, SettlesStatus
    <3>2. CASE ~Finalizable(M, x)
      BY <2>1, <2>2, <3>2 DEF StillWaits
    <3> QED
      BY <3>1, <3>2
  <2> QED
    BY <2>4 DEF Settles
<1>9. CASE Open
  <2>1. task' = [x \in TaskId |-> IF task[x].status = "running"
                                  THEN WithStatus(task[x], "pending") ELSE task[x]]
    BY <1>9 DEF Open
  <2>2. \A x \in TaskId : \/ task'[x] = task[x]
                          \/ Live(task, x) /\ task'[x].status # "waiting"
    BY <1>t, <2>1, StateFields DEF Live
  <2> QED
    BY <2>2, SettlesStatus DEF Settles, StillWaits
<1> QED
  BY <1>1, <1>2, <1>3, <1>4, <1>5, <1>6, <1>7, <1>8, <1>9 DEF Next, LineJob

LEMMA StepAcyclic ==
  ASSUME TypeOK, TreeInv, WaitGraphAcyclic, [Next]_vars
  PROVE  Acyclic(task')
<1>1. CASE HostCreate
  <2>1. PICK s \in StagedTasks \cup StagedConvs : task' = s.task
    BY <1>1 DEF HostCreate, Publish
  <2> QED
    BY <2>1, StagedAcyclic
<1>2. ASSUME NEW t \in TaskId, RuntimeCommit(t) PROVE Acyclic(task')
  <2>1. PICK s \in {Nothing} \cup StagedTasks \cup StagedConvs :
          \E next \in NextStates(s.task, t) : task' = next.table
    BY <1>2 DEF RuntimeCommit, Publish
  <2>2. /\ s.task \in TaskTable /\ Tree(s.task, s.convOwner) /\ Acyclic(s.task)
        /\ s.task[t].status = "running"
    BY <1>2, StagedType, StagedTree, StagedAcyclic DEF RuntimeCommit
  <2> QED
    BY <2>1, <2>2, CommitAcyclic
<1>3. CASE ~HostCreate /\ \A t \in TaskId : ~RuntimeCommit(t)
  <2>1. PICK T \in TaskTable : Staged(T) /\ Change(T, task')
    BY StepChanges
  <2>2. Settles
    BY <1>3, OthersSettle
  <2>3. \A x \in TaskId : T[x] = task[x]
    BY <2>1, <2>2 DEF Staged, Change, Same, Settles
  <2>4. task \in TaskTable /\ T = task
    BY <2>3 DEF TypeOK, TaskTable
  <2>5. \A x \in TaskId : WaitsFor(task', x) \subseteq WaitsFor(task, x)
    BY <2>1, <2>2, <2>4, FewerEdges DEF Settles
  <2>6. {} \in SUBSET TaskId /\ \A n \in {} : WaitsFor(task', n) = {}
    OBVIOUS
  <2>7. \A x \in TaskId \ {} : WaitsFor(task', x) \subseteq WaitsFor(task, x) \cup {}
    BY <2>5
  <2>8. Acyclic(task)
    BY DEF Acyclic, WaitGraphAcyclic
  <2> QED
    BY <2>4, <2>6, <2>7, <2>8, ToSinks
<1> QED
  BY <1>1, <1>2, <1>3

\* No group of tasks waits on itself for ever, whatever waits task code commits, whoever creates
\* work below whom, and whatever aborts and restarts come between (wait cycles, runtime.ts commit).
THEOREM NoCircularWait == Spec => []WaitGraphAcyclic
<1>1. Init => WaitGraphAcyclic
  <2> SUFFICES ASSUME Init, NEW x \in TaskId PROVE x \notin WaitReach(task, WaitsFor(task, x))
    BY DEF WaitGraphAcyclic
  <2>1. WaitsFor(task, x) = {} /\ \A y \in {} : WaitsFor(task, y) \subseteq {}
    BY DEF Init, Unborn, WaitsFor, Live
  <2> QED
    BY <2>1, OffCycle DEF Closed
<1>2. TypeOK /\ TreeInv /\ WaitGraphAcyclic /\ [Next]_vars => WaitGraphAcyclic'
  BY StepAcyclic DEF WaitGraphAcyclic, Acyclic
<1> QED
  BY <1>1, <1>2, TypeCorrect, TreeCorrect, PTL DEF Spec

-----------------------------------------------------------------------------
(***************************************************************************)
(* What is decided and cancelled stays so, for every value of the constants.*)
(*                                                                         *)
(* A decided outcome is final, whatever commits, marks, orphanings, restarts*)
(* and reconciles come after it.  Steps never look whether a task has an   *)
(* outcome; they look at its status and at its marks.  So the argument needs*)
(* that the two agree (Shaped), and then that each step does to each task  *)
(* one of the few things listed in Written.                                *)
(*                                                                         *)
(* No phase runs below a task whose abort handler runs, and nothing below a*)
(* task abandoned by an earlier Harness runs a phase.  Both rest on        *)
(* reservation passes alone starting invocations, and on what they look at *)
(* before: the marks above a task (HeldBack), the work below one           *)
(* (WaitingOn), and the abandoned tasks of an earlier Harness.             *)
(***************************************************************************)

(* Outcomes                                                                *)

\* Only a completing or terminal task holds an outcome, and one not yet created no mark.
Shaped(r) ==
  /\ r.outcome # "none" => r.status \in {"completing", "terminal"}
  /\ r.status = "unborn" => r.outcome = "none" /\ r.mark = "none"

Undone(r) == r.status \in {"pending", "running", "waiting"}

\* What a step may make of a task's record r.
Written(r, s) ==
  \/ s = r
  \/ r.status = "unborn" /\ s.status = "pending" /\ s.outcome = "none"
  \/ /\ Undone(r) /\ s.mark = r.mark
     /\ \/ s.status \in {"completing", "terminal"}
        \/ Undone(s) /\ s.outcome = r.outcome
  \/ /\ r.status \notin {"unborn", "terminal"} /\ s.status = r.status /\ s.outcome = r.outcome
     /\ s.mark = "request" \/ (r.mark = "none" /\ s.mark = "restart")
  \/ r.status = "completing" /\ s.status = "terminal" /\ s.outcome = r.outcome
     /\ (s.mark = "request" \/ s.mark = r.mark \/ (r.mark = "none" /\ s.mark = "restart"))

\* What finality says of one task.
Final(r, s) ==
  /\ r.outcome # "none" => s.outcome = r.outcome /\ s.status \in {"completing", "terminal"}
  /\ r.status = "terminal" => s = r
  /\ r.mark = "request" => s.mark = "request"
  /\ r.mark = "restart" => s.mark # "none"

LEMMA WrittenFinal == ASSUME NEW r, NEW s, Shaped(r), Written(r, s) PROVE Final(r, s) /\ Shaped(s)
  BY DEF Shaped, Written, Final, Undone

Shapes == \A x \in TaskId : Shaped(task[x])

\* Every task of table T is written as it may be.
Writes(T) == \A x \in TaskId : Written(task[x], T[x])

LEMMA OutcomeFields ==
  ASSUME NEW r \in TaskRecord, NEW status, NEW outcome
  PROVE  /\ WithOutcome(r, status, outcome).status = status /\ WithOutcome(r, status, outcome).mark = r.mark
         /\ WithOutcome(r, status, outcome).outcome = outcome
  BY DEF WithOutcome, TaskRecord

LEMMA StatusFields ==
  ASSUME NEW r \in TaskRecord, NEW status
  PROVE  /\ WithStatus(r, status).status = status /\ WithStatus(r, status).mark = r.mark
         /\ WithStatus(r, status).outcome = r.outcome
  BY DEF WithStatus, TaskRecord

LEMMA MarkFields ==
  ASSUME NEW r \in TaskRecord, NEW mark
  PROVE  /\ [r EXCEPT !.mark = mark].status = r.status /\ [r EXCEPT !.mark = mark].outcome = r.outcome
         /\ [r EXCEPT !.mark = mark].mark = mark
  BY DEF TaskRecord

LEMMA DecideWrites ==
  ASSUME NEW T \in [TaskId -> TaskRecord], NEW t \in TaskId, Undone(task[t]), T[t] = task[t],
         NEW outcome, Writes(T)
  PROVE  Writes(Decide(T, t, outcome))
<1> DEFINE U == Decide(T, t, outcome)
           status == IF OwnedLive(T, t) = {} THEN "terminal" ELSE "completing"
<1>1. U = [T EXCEPT ![t] = WithOutcome(T[t], status, outcome)]
  BY DEF Decide
<1>2. status \in {"terminal", "completing"}
  OBVIOUS
<1> HIDE DEF U, status
<1>3. U[t] = WithOutcome(T[t], status, outcome) /\ \A x \in TaskId : x # t => U[x] = T[x]
  BY <1>1
<1>4. U[t].status = status /\ U[t].mark = task[t].mark
  BY <1>3, OutcomeFields
<1> QED
  BY <1>2, <1>3, <1>4 DEF Writes, Written, U

LEMMA MarkWrites ==
  ASSUME task \in [TaskId -> TaskRecord], NEW S, \A x \in S : x \in TaskId => Live(task, x)
  PROVE  Writes(MarkRequest(task, S))
<1>1. \A x \in TaskId : x \in S =>
        LET r == [task[x] EXCEPT !.mark = "request"] IN
        r.status = task[x].status /\ r.outcome = task[x].outcome /\ r.mark = "request"
  BY MarkFields
<1> QED
  BY <1>1 DEF Writes, Written, MarkRequest, Live

LEMMA StagedWrites ==
  ASSUME TypeOK, NEW s \in {Nothing} \cup StagedTasks \cup StagedConvs
  PROVE  Writes(s.task) /\ \A x \in TaskId : task[x].status # "unborn" => s.task[x] = task[x]
<1>1. CASE s = Nothing
  BY <1>1 DEF Nothing, Writes, Written
<1>2. CASE s \in StagedConvs
  <2>1. PICK c \in NextConv : \E o \in {o \in ConvShapes[c] : o # None => task[o].status # "unborn"} :
          s = [Nothing EXCEPT !.convs = convs \cup {c},
                              !.convOwner = [convOwner EXCEPT ![c] = o], !.owner = o]
    BY <1>2 DEF StagedConvs
  <2>2. s.task = task
    BY <2>1 DEF Nothing
  <2> QED
    BY <2>2 DEF Writes, Written
<1>3. CASE s \in StagedTasks
  <2>1. PICK n \in NextTask : \E shape \in {shape \in TaskShapes[n] : ShapeAllowed(task, shape)} :
          s = [Nothing EXCEPT !.task = [task EXCEPT ![n] = Born(task, shape)],
                              !.new = {n}, !.owner = shape.owner]
    BY <1>3 DEF StagedTasks
  <2>2. n \in TaskId /\ task[n].status = "unborn"
    BY DEF NextTask
  <2>3. PICK shape \in TaskShapes[n] : s.task = [task EXCEPT ![n] = Born(task, shape)]
    BY <2>1 DEF Nothing
  <2>4. Born(task, shape).status = "pending" /\ Born(task, shape).outcome = "none"
    BY DEF Born
  <2> QED
    BY <2>2, <2>3, <2>4 DEF Writes, Written, TypeOK
<1> QED
  BY <1>1, <1>2, <1>3

\* Each step writes each task as it may: decisions and waits fall on undecided tasks, marks
\* on live ones, and only a completing task is finalized.
LEMMA StepWrites == ASSUME TypeOK, [Next]_vars PROVE Writes(task')
<1>t. task \in [TaskId -> TaskRecord] /\ task \in TaskTable
  BY DEF TypeOK, TaskTable
<1>0. ASSUME task' = task PROVE Writes(task')
  BY <1>0 DEF Writes, Written
<1>1. CASE HostCreate
  <2>1. PICK s \in StagedTasks \cup StagedConvs : task' = s.task
    BY <1>1 DEF HostCreate, Publish
  <2> QED
    BY <2>1, StagedWrites
<1>2. CASE Submit
  BY <1>0, <1>2 DEF Submit, Publish
<1>3. ASSUME NEW x \in Abortable, NEW keepRestart \in BOOLEAN, AbortTask(x, keepRestart)
      PROVE  Writes(task')
  <2>1. x \in TaskId /\ Live(task, x)
    BY <1>3, ShapesAssumption DEF AbortTask
  <2>2. CASE OrphansNow(x) /\ task' = Decide(task, x, "orphaned")
    <3>1. Undone(task[x])
      BY <1>t, <2>1, <2>2 DEF OrphansNow, Undone, Live, TaskRecord, Status
    <3> QED
      BY <1>0, <1>t, <2>1, <2>2, <3>1, DecideWrites DEF Writes, Written
  <2>3. CASE task' = MarkRequest(task, {x})
    BY <1>t, <2>1, <2>3, MarkWrites
  <2> QED
    BY <1>3, <2>2, <2>3 DEF AbortTask, Publish
<1>4. ASSUME NEW c \in AbortScopes, NEW cross \in BOOLEAN, AbortConversation(c, cross)
      PROVE  Writes(task')
  <2> DEFINE reached == {x \in TaskId : /\ Live(task, x) /\ InScope(x, c, cross)
                                        /\ cross \/ ~task[x].background}
             marked  == {x \in reached : task[x].mark # "request"}
  <2>1. task' = MarkRequest(task, marked) /\ \A x \in marked : Live(task, x)
    BY <1>4 DEF AbortConversation, Publish
  <2> HIDE DEF marked
  <2> QED
    BY <1>t, <2>1, MarkWrites
<1>5. ASSUME NEW t \in TaskId, RuntimeCommit(t)
      PROVE  Writes(task')
  <2>1. PICK s \in {Nothing} \cup StagedTasks \cup StagedConvs :
          \E next \in NextStates(s.task, t) : task' = next.table
    BY <1>5 DEF RuntimeCommit, Publish
  <2>2. PICK next \in NextStates(s.task, t) : task' = next.table
    BY <2>1
  <2> DEFINE T == s.task
  <2>3. T \in [TaskId -> TaskRecord] /\ Writes(T) /\ T[t] = task[t] /\ Undone(task[t])
    BY <1>5, StagedType, StagedWrites DEF RuntimeCommit, TaskTable, Undone
  <2> HIDE DEF T
  <2>4. CASE task' = T
    BY <2>3, <2>4
  <2>5. CASE \E o \in {"completed", "failed"} : task' = Decide(T, t, o)
    BY <2>3, <2>5, DecideWrites
  <2>6. ASSUME NEW on, NEW policy,
               task' = [T EXCEPT ![t] = [T[t] EXCEPT !.status = "waiting", !.on = on, !.policy = policy]]
        PROVE  Writes(task')
    <3>1. /\ \A x \in TaskId : x # t => task'[x] = T[x]
          /\ task'[t] = [task[t] EXCEPT !.status = "waiting", !.on = on, !.policy = policy]
      BY <2>3, <2>6
    <3>2. task[t] \in TaskRecord
      BY <1>t
    <3>3. task'[t].status = "waiting" /\ task'[t].outcome = task[t].outcome /\ task'[t].mark = task[t].mark
      BY <3>1, <3>2 DEF TaskRecord
    <3>4. Written(task[t], task'[t])
      BY <2>3, <3>3 DEF Written, Undone
    <3> QED
      BY <2>3, <3>1, <3>4 DEF Writes
  <2>7. CASE next \in {[table |-> T, moved |-> m, wrote |-> {t}] : m \in BOOLEAN}
    BY <2>2, <2>4, <2>7
  <2>8. CASE next \in {[table |-> Decide(T, t, o), moved |-> inv[t].moved, wrote |-> {t}] :
                         o \in {"completed", "failed"}}
    BY <2>2, <2>5, <2>8
  <2>9. CASE next \in {[table |-> [T EXCEPT ![t] = [T[t] EXCEPT !.status = "waiting", !.on = w[1],
                                                                !.policy = w[2]]],
                        moved |-> inv[t].moved, wrote |-> {t}] :
                         w \in {v \in Waits : WaitAllowed(T, t, v[1], v[2])}}
    <3>1. PICK w : next = [table |-> [T EXCEPT ![t] = [T[t] EXCEPT !.status = "waiting", !.on = w[1],
                                                                   !.policy = w[2]]],
                           moved |-> inv[t].moved, wrote |-> {t}]
      BY <2>9
    <3>2. task' = [T EXCEPT ![t] = [T[t] EXCEPT !.status = "waiting", !.on = w[1], !.policy = w[2]]]
      BY <2>2, <3>1
    <3> QED
      BY <2>6, <3>2
  <2>10. CASE next = [table |-> T, moved |-> inv[t].moved, wrote |-> {}]
    BY <2>2, <2>4, <2>10
  <2> QED
    BY <2>2, <2>7, <2>8, <2>9, <2>10 DEF NextStates, T
<1>6. ASSUME NEW t \in TaskId, HandlerReturn(t) PROVE Writes(task')
  BY <1>0, <1>6 DEF HandlerReturn
<1>7. ASSUME NEW t \in TaskId, task[t].status = "running", NEW o, task' = Decide(task, t, o)
      PROVE  Writes(task')
  BY <1>t, <1>7, DecideWrites DEF Writes, Written, Undone
<1>8. ASSUME NEW t \in TaskId, RunStep(t) PROVE Writes(task')
  <2>1. CASE task' = task
    BY <1>0, <2>1
  <2>2. CASE Undecided(t) /\ task' = Decide(task, t, "faulted")
    BY <1>7, <2>2 DEF Undecided
  <2>3. CASE Undecided(t) /\ task' = [task EXCEPT ![t] = WithStatus(task[t], "pending")]
    <3>1. /\ \A x \in TaskId : x # t => task'[x] = task[x]
          /\ task'[t] = WithStatus(task[t], "pending") /\ task[t].status = "running"
      BY <1>t, <2>3 DEF Undecided
    <3>2. /\ task'[t].status = "pending" /\ task'[t].outcome = task[t].outcome
          /\ task'[t].mark = task[t].mark
      BY <1>t, <3>1, StatusFields
    <3> QED
      BY <3>1, <3>2 DEF Writes, Written, Undone
  <2> QED
    BY <1>8, <2>1, <2>2, <2>3 DEF RunStep, EndInvocation
<1>9. ASSUME NEW t \in TaskId, AbortStep(t) PROVE Writes(task')
  <2>1. \/ task' = task
        \/ task[t].status = "running" /\ task' = Decide(task, t, "faulted")
    BY <1>9 DEF AbortStep, EndInvocation
  <2> QED
    BY <1>0, <1>7, <2>1
<1>10. CASE ReserveAbandoned
  <2> DEFINE Ch == {x \in abandoned : Live(task, x) /\ task[x].mark = "none"}
  <2>1. task' = [x \in TaskId |-> IF x \in Ch THEN [task[x] EXCEPT !.mark = "restart"] ELSE task[x]]
    BY <1>10 DEF ReserveAbandoned
  <2>2. \A x \in Ch : Live(task, x) /\ task[x].mark = "none"
    OBVIOUS
  <2> HIDE DEF Ch
  <2>3. \A x \in TaskId : x \in Ch => /\ task'[x].status = task[x].status
                                     /\ task'[x].outcome = task[x].outcome /\ task'[x].mark = "restart"
    BY <1>t, <2>1, MarkFields
  <2> QED
    BY <2>1, <2>2, <2>3 DEF Writes, Written, Live
<1>11. CASE Reserve
  <2>1. task' = [x \in TaskId |->
                   IF x \in Orphans THEN WithOutcome(task[x], "terminal", "orphaned")
                   ELSE IF x \in Taken THEN WithStatus(task[x], "running") ELSE task[x]]
    BY <1>11 DEF Reserve
  <2>2. \A x \in TaskId : x \in Orphans \/ x \in Taken => Undone(task[x])
    BY <1>t DEF Orphans, Taken, Dropped, Live, Undone, TaskRecord, Status
  <2>3. ASSUME NEW x \in TaskId PROVE Written(task[x], task'[x])
    <3>1. task[x] \in TaskRecord
      BY <1>t
    <3>2. CASE x \in Orphans
      BY <2>1, <2>2, <3>1, <3>2, OutcomeFields DEF Written
    <3>3. CASE x \in Taken /\ x \notin Orphans
      BY <2>1, <2>2, <3>1, <3>3, StatusFields DEF Written, Undone
    <3>4. CASE x \notin Orphans /\ x \notin Taken
      BY <2>1, <3>4 DEF Written
    <3> QED
      BY <3>2, <3>3, <3>4
  <2> QED
    BY <2>3 DEF Writes
<1>12. CASE Reconcile
  <2> DEFINE M == Reconciled(Head(line).checks)
  <2>1. task' = [x \in TaskId |-> IF Finalizable(M, x) THEN [M[x] EXCEPT !.status = "terminal"] ELSE M[x]]
    BY <1>12 DEF Reconcile, Publish
  <2>2. M \in TaskTable
    BY ReconciledType
  <2>3. ASSUME NEW x \in TaskId
        PROVE  \/ M[x] = task[x]
               \/ /\ Live(task, x) /\ M[x].status = task[x].status /\ M[x].outcome = task[x].outcome
                  /\ M[x].mark = "request" \/ (task[x].mark = "none" /\ M[x].mark = "restart")
    <3> DEFINE reason == IF x \in FailFastMarks(Head(line).checks) THEN "request" ELSE CascadeMark(x)
    <3>1. M[x] = IF reason = "request" \/ (reason = "restart" /\ task[x].mark = "none")
                 THEN [task[x] EXCEPT !.mark = reason] ELSE task[x]
      BY DEF Reconciled
    <3>2. reason # "none" => Live(task, x)
      BY DEF FailFastMarks, CascadeMark
    <3> HIDE DEF reason, M
    <3>3. CASE reason = "request" \/ (reason = "restart" /\ task[x].mark = "none")
      <4>1. M[x] = [task[x] EXCEPT !.mark = reason] /\ task[x] \in TaskRecord
        BY <1>t, <3>1, <3>3
      <4>2. M[x].status = task[x].status /\ M[x].outcome = task[x].outcome /\ M[x].mark = reason
        BY <4>1, MarkFields
      <4> QED
        BY <3>2, <3>3, <4>2
    <3>4. CASE ~(reason = "request" \/ (reason = "restart" /\ task[x].mark = "none"))
      BY <3>1, <3>4
    <3> QED
      BY <3>3, <3>4
  <2>4. \A x \in TaskId : Finalizable(M, x) => M[x].status = "completing"
    BY DEF Finalizable
  <2> HIDE DEF M
  <2>5. ASSUME NEW x \in TaskId PROVE Written(task[x], task'[x])
    <3>1. CASE Finalizable(M, x)
      <4>1. task'[x].status = "terminal" /\ task'[x].outcome = M[x].outcome /\ task'[x].mark = M[x].mark
        <5>1. M[x] \in TaskRecord /\ task'[x] = [M[x] EXCEPT !.status = "terminal"]
          BY <2>1, <2>2, <3>1 DEF TaskTable
        <5> QED
          BY <5>1 DEF TaskRecord
      <4> QED
        BY <2>3, <2>4, <3>1, <4>1 DEF Written
    <3>2. CASE ~Finalizable(M, x)
      BY <2>1, <2>3, <3>2 DEF Written, Live
    <3> QED
      BY <3>1, <3>2
  <2> QED
    BY <2>5 DEF Writes
<1>13. CASE Open
  <2>1. task' = [x \in TaskId |-> IF task[x].status = "running"
                                  THEN WithStatus(task[x], "pending") ELSE task[x]]
    BY <1>13 DEF Open
  <2>2. \A x \in TaskId : task[x].status = "running" =>
           /\ task'[x].status = "pending" /\ task'[x].outcome = task[x].outcome
           /\ task'[x].mark = task[x].mark
    BY <1>t, <2>1, StatusFields
  <2> QED
    BY <2>1, <2>2 DEF Writes, Written, Undone
<1>14. CASE Resume \/ Stop \/ RegistryChange \/ UNCHANGED vars
  BY <1>0, <1>14 DEF Resume, Stop, RegistryChange, vars
<1> QED
  BY <1>1, <1>2, <1>3, <1>4, <1>5, <1>6, <1>8, <1>9, <1>10, <1>11, <1>12, <1>13, <1>14
  DEF Next, LineJob

LEMMA StepFinal ==
  ASSUME TypeOK, Shapes, [Next]_vars
  PROVE  Shapes' /\ \A x \in TaskId : Final(task[x], task'[x])
  BY StepWrites, WrittenFinal DEF Shapes, Writes

\* Status and outcome agree in every reachable state (TaskRecord.outcome, settleTask).
THEOREM ShapesHold == Spec => []Shapes
<1>1. Init => Shapes
  BY DEF Init, Shapes, Shaped, Unborn
<1>2. TypeOK /\ Shapes /\ [Next]_vars => Shapes'
  BY StepFinal
<1> QED
  BY <1>1, <1>2, TypeCorrect, PTL DEF Spec

\* A decided outcome is final, and marks only grow, whatever the host, task code, restarts
\* and the reconcile of other tasks do (settleTask, #finalize, #markAborted).
THEOREM OutcomesFinal == Spec => DecidedIsFinal
<1> DEFINE Kept == \A x \in TaskId :
        /\ task[x].outcome # "none" => /\ task'[x].outcome = task[x].outcome
                                       /\ task'[x].status \in {"completing", "terminal"}
        /\ task[x].status = "terminal" => task'[x] = task[x]
        /\ task[x].mark = "request" => task'[x].mark = "request"
        /\ task[x].mark = "restart" => task'[x].mark # "none"
<1>1. TypeOK /\ Shapes /\ [Next]_vars => [Kept]_vars
  BY StepFinal DEF Final
<1> QED
  BY <1>1, TypeCorrect, ShapesHold, PTL DEF Spec, DecidedIsFinal

-----------------------------------------------------------------------------
(* Orphaned outcomes                                                       *)

\* Table T gives no task an orphaned outcome it did not have.
NoneOrphaned(T) == \A x \in TaskId : T[x].outcome = "orphaned" => task[x].outcome = "orphaned"

LEMMA DecideOutcome ==
  ASSUME NEW T \in TaskTable, NEW t \in TaskId, NEW outcome, NoneOrphaned(T)
  PROVE  /\ outcome # "orphaned" => NoneOrphaned(Decide(T, t, outcome))
         /\ \A x \in TaskId : x # t => Decide(T, t, outcome)[x] = T[x]
         /\ OwnedLive(T, t) = {} => Decide(T, t, outcome)[t].status = "terminal"
<1> DEFINE status == IF OwnedLive(T, t) = {} THEN "terminal" ELSE "completing"
<1>1. \A x \in TaskId : Decide(T, t, outcome)[x] = IF x = t THEN WithOutcome(T[t], status, outcome) ELSE T[x]
  BY DEF Decide, TaskTable
<1>2. OwnedLive(T, t) = {} => status = "terminal"
  OBVIOUS
<1> HIDE DEF status
<1>3. WithOutcome(T[t], status, outcome).status = status /\ WithOutcome(T[t], status, outcome).outcome = outcome
  BY OutcomeFields DEF TaskTable
<1> QED
  BY <1>1, <1>2, <1>3 DEF NoneOrphaned

LEMMA CommitOutcome ==
  ASSUME NEW T \in TaskTable, NoneOrphaned(T), NEW t \in TaskId, NEW next \in NextStates(T, t)
  PROVE  NoneOrphaned(next.table)
<1>1. CASE next.table = T
  BY <1>1
<1>2. CASE \E o \in {"completed", "failed"} : next.table = Decide(T, t, o)
  BY <1>2, DecideOutcome
<1>3. ASSUME NEW on, NEW policy,
             next.table = [T EXCEPT ![t] = [T[t] EXCEPT !.status = "waiting", !.on = on, !.policy = policy]]
      PROVE  NoneOrphaned(next.table)
  <2>1. /\ \A x \in TaskId : x # t => next.table[x] = T[x]
        /\ next.table[t] = [T[t] EXCEPT !.status = "waiting", !.on = on, !.policy = policy]
    BY <1>3 DEF TaskTable
  <2>2. T[t] \in TaskRecord
    BY DEF TaskTable
  <2>3. next.table[t].outcome = T[t].outcome
    BY <2>1, <2>2 DEF TaskRecord
  <2> QED
    BY <2>1, <2>3 DEF NoneOrphaned
<1>4. CASE next \in {[table |-> T, moved |-> m, wrote |-> {t}] : m \in BOOLEAN}
  BY <1>1, <1>4
<1>5. CASE next \in {[table |-> Decide(T, t, o), moved |-> inv[t].moved, wrote |-> {t}] :
                       o \in {"completed", "failed"}}
  BY <1>2, <1>5
<1>6. CASE next \in {[table |-> [T EXCEPT ![t] = [T[t] EXCEPT !.status = "waiting", !.on = w[1],
                                                              !.policy = w[2]]],
                      moved |-> inv[t].moved, wrote |-> {t}] :
                       w \in {v \in Waits : WaitAllowed(T, t, v[1], v[2])}}
  <2>1. PICK w : next = [table |-> [T EXCEPT ![t] = [T[t] EXCEPT !.status = "waiting", !.on = w[1],
                                                                 !.policy = w[2]]],
                         moved |-> inv[t].moved, wrote |-> {t}]
    BY <1>6
  <2>2. next.table = [T EXCEPT ![t] = [T[t] EXCEPT !.status = "waiting", !.on = w[1], !.policy = w[2]]]
    BY <2>1
  <2> QED
    BY <1>3, <2>2
<1>7. CASE next = [table |-> T, moved |-> inv[t].moved, wrote |-> {}]
  BY <1>1, <1>7
<1> QED
  BY <1>4, <1>5, <1>6, <1>7 DEF NextStates

\* Only an abort by ID and a reservation pass that took up a request orphan a task.
LEMMA StepOrphans ==
  ASSUME TypeOK, [Next]_vars
  PROVE  \/ NoneOrphaned(task')
         \/ \E x \in Abortable, keepRestart \in BOOLEAN :
              AbortTask(x, keepRestart) /\ OrphansNow(x) /\ task' = Decide(task, x, "orphaned")
         \/ Reserve
<1>t. task \in TaskTable /\ NoneOrphaned(task) /\ \A x \in TaskId : task[x] \in TaskRecord
  BY DEF TypeOK, TaskTable, NoneOrphaned
<1>0. ASSUME NEW S, task' = MarkRequest(task, S) PROVE NoneOrphaned(task')
  BY <1>t, <1>0, MarkFields DEF NoneOrphaned, MarkRequest
<1>1. ASSUME NEW s \in {Nothing} \cup StagedTasks \cup StagedConvs
      PROVE  s.task \in TaskTable /\ NoneOrphaned(s.task)
  BY StagedType, StagedWrites DEF Writes, Written, Undone, NoneOrphaned
<1>2. CASE HostCreate
  BY <1>1, <1>2 DEF HostCreate, Publish
<1>3. CASE task' = task
  BY <1>3 DEF NoneOrphaned
<1>4. CASE Submit \/ (\E t \in TaskId : HandlerReturn(t)) \/ Resume \/ Stop \/ RegistryChange \/ UNCHANGED vars
  BY <1>3, <1>4 DEF Submit, Publish, HandlerReturn, Resume, Stop, RegistryChange, vars
<1>5. ASSUME NEW x \in Abortable, NEW keepRestart \in BOOLEAN, AbortTask(x, keepRestart)
      PROVE  NoneOrphaned(task') \/ (OrphansNow(x) /\ task' = Decide(task, x, "orphaned"))
  BY <1>0, <1>5 DEF AbortTask, Publish
<1>6. ASSUME NEW c \in AbortScopes, NEW cross \in BOOLEAN, AbortConversation(c, cross)
      PROVE  NoneOrphaned(task')
  BY <1>0, <1>6 DEF AbortConversation, Publish
<1>7. ASSUME NEW t \in TaskId, RuntimeCommit(t) PROVE NoneOrphaned(task')
  <2>1. PICK s \in {Nothing} \cup StagedTasks \cup StagedConvs :
          \E next \in NextStates(s.task, t) : task' = next.table
    BY <1>7 DEF RuntimeCommit, Publish
  <2> QED
    BY <1>1, <2>1, CommitOutcome
<1>8. ASSUME NEW t \in TaskId, RunStep(t) \/ AbortStep(t) PROVE NoneOrphaned(task')
  <2>1. \/ task' = task \/ task' = Decide(task, t, "faulted")
        \/ task' = [task EXCEPT ![t] = WithStatus(task[t], "pending")]
    BY <1>8 DEF RunStep, AbortStep, EndInvocation
  <2>2. CASE task' = [task EXCEPT ![t] = WithStatus(task[t], "pending")]
    BY <1>t, <2>2, StatusFields DEF NoneOrphaned, TaskTable
  <2> QED
    BY <1>t, <1>3, <2>1, <2>2, DecideOutcome
<1>9. CASE ReserveAbandoned
  <2>1. \A x \in TaskId : task'[x] = task[x] \/ task'[x] = [task[x] EXCEPT !.mark = "restart"]
    BY <1>9 DEF ReserveAbandoned
  <2>2. \A x \in TaskId : [task[x] EXCEPT !.mark = "restart"].outcome = task[x].outcome
    BY <1>t, MarkFields
  <2> QED
    BY <2>1, <2>2 DEF NoneOrphaned
<1>10. CASE Reconcile
  <2> DEFINE M == Reconciled(Head(line).checks)
  <2>1. \A x \in TaskId : task'[x] = M[x] \/ task'[x] = [M[x] EXCEPT !.status = "terminal"]
    BY <1>10 DEF Reconcile, Publish
  <2>2. \A x \in TaskId : M[x] \in TaskRecord /\ M[x].outcome = task[x].outcome
    BY <1>t, ReconciledType DEF Reconciled, TaskTable, TaskRecord
  <2> HIDE DEF M
  <2> QED
    BY <2>1, <2>2 DEF NoneOrphaned, TaskRecord
<1>11. CASE Open
  <2>1. \A x \in TaskId : task'[x] = task[x] \/ task'[x] = WithStatus(task[x], "pending")
    BY <1>11 DEF Open
  <2> QED
    BY <1>t, <2>1, StatusFields DEF NoneOrphaned
<1> QED
  BY <1>2, <1>4, <1>5, <1>6, <1>7, <1>8, <1>9, <1>10, <1>11 DEF Next, LineJob

\* Only a request orphans, and an orphaned task ends with it (abort, #reserve).
THEOREM RequestsOrphan == Spec => OrphanedByRequest
<1> DEFINE Requested == \A x \in TaskId :
        task[x].outcome # "orphaned" /\ task'[x].outcome = "orphaned"
            => /\ task[x].mark = "request" \/ \E keepRestart \in BOOLEAN : AbortTask(x, keepRestart)
               /\ task'[x].status = "terminal"
<1>1. ASSUME TypeOK, [Next]_vars PROVE Requested
  <2>t. task \in TaskTable /\ NoneOrphaned(task)
    BY <1>1 DEF TypeOK, TaskTable, NoneOrphaned
  <2>1. CASE NoneOrphaned(task')
    BY <2>1 DEF NoneOrphaned
  <2>2. ASSUME NEW t \in Abortable, NEW keepRestart \in BOOLEAN, AbortTask(t, keepRestart),
               OrphansNow(t), task' = Decide(task, t, "orphaned")
        PROVE  Requested
    <3>1. t \in TaskId /\ OwnedLive(task, t) = {}
      BY <2>2, ShapesAssumption DEF OrphansNow
    <3>2. task'[t].status = "terminal" /\ \A x \in TaskId : x # t => task'[x] = task[x]
      BY <2>t, <2>2, <3>1, DecideOutcome
    <3> QED
      BY <2>2, <3>2
  <2>3. CASE Reserve
    <3>1. \A x \in TaskId : task[x] \in TaskRecord
      BY <1>1 DEF TypeOK
    <3>2. \A x \in TaskId : \/ task'[x] = task[x] \/ task'[x] = WithStatus(task[x], "running")
                            \/ x \in Orphans /\ task'[x] = WithOutcome(task[x], "terminal", "orphaned")
      BY <2>3 DEF Reserve
    <3>3. \A x \in Orphans : task[x].mark = "request"
      BY DEF Orphans
    <3> QED
      BY <3>1, <3>2, <3>3, StatusFields, OutcomeFields
  <2> QED
    BY <1>1, <2>1, <2>2, <2>3, StepOrphans
<1>2. TypeOK /\ [Next]_vars => [Requested]_vars
  BY <1>1
<1> QED
  BY <1>2, TypeCorrect, PTL DEF Spec, OrphanedByRequest

-----------------------------------------------------------------------------
(* Aborts and abandoned work                                               *)

\* An abort handler started when nothing was live below its task, and since then what was
\* created there has been held back.
Alone ==
  /\ \A x \in TaskId : inv[x].mode # "none" => task[x].status # "unborn"
  /\ \A x \in TaskId : inv[x].mode = "abort" /\ Live(task, x) =>
        task[x].mark # "none" /\ \A y \in OwnedLive(task, x) : inv[y].mode # "run"

\* A Harness marks what earlier ones left abandoned before it starts anything.
Left ==
  /\ harness = "down" => line = <<>>
  /\ harness = "down" \/ abandoned # {} => \A x \in TaskId : inv[x] = NoInvocation
  /\ harness # "down" => \A y \in TaskId : Live(task, y) /\ task[y].abandon /\ task[y].born # restarts
                            => y \in abandoned \/ task[y].mark # "none"
  /\ \A x \in TaskId : inv[x].mode = "run" =>
        \A y \in {x} \cup (IF task[x].background THEN {} ELSE task[x].holders) :
           Live(task, y) /\ task[y].abandon => task[y].born = restarts

-----------------------------------------------------------------------------
(* Steps                                                                   *)

\* A set of tasks that is not empty has a nearest one: task IDs are bounded.
LEMMA NearestExists == ASSUME NEW S \in SUBSET TaskId, S # {} PROVE Nearest(S) # {}
<1> DEFINE Depths == {MaxTasks - x : x \in S}
           Less   == OpToRel(<, Nat)
<1>1. IsWellFoundedOn(Less, Nat)
  BY NatLessThanWellFounded
<1>2. Depths \subseteq Nat /\ Depths # {}
  <2>1. \A x \in S : x \in 1 .. MaxTasks
    BY DEF TaskId
  <2>2. \A x \in S : MaxTasks - x \in Nat
    BY <2>1, BoundsAssumption
  <2> QED
    BY <2>2
<1>3. PICK d \in Depths : \A e \in Depths : ~ (<<e, d>> \in Less)
  <2> HIDE DEF Depths, Less
  <2> QED
    BY <1>1, <1>2, WFMin
<1>4. \A e \in Depths : ~(e < d)
  BY <1>2, <1>3 DEF OpToRel
<1>5. PICK x \in S : d = MaxTasks - x
  OBVIOUS
<1>6. ASSUME NEW y \in S PROVE y <= x
  <2>1. ~(MaxTasks - y < MaxTasks - x)
    BY <1>4, <1>5
  <2> QED
    BY <2>1, BoundsAssumption DEF TaskId
<1> QED
  BY <1>6 DEF Nearest

\* A foreground task below a marked one is held back.
LEMMA MarkHoldsBack ==
  ASSUME TypeOK, NEW x \in TaskId, NEW y \in task[x].holders, ~task[x].background,
         Live(task, y), task[y].mark # "none"
  PROVE  HeldBack(x)
<1> DEFINE cancelling == {z \in task[x].holders : Intent(task, z)}
<1>1. cancelling \in SUBSET TaskId /\ y \in cancelling
  BY DEF TypeOK, TaskRecord, Intent
<1> HIDE DEF cancelling
<1>2. Nearest(cancelling) # {}
  BY <1>1, NearestExists
<1> QED
  BY <1>2 DEF cancelling, HeldBack, BelowCancelled, CancellingOwner

\* What a step leaves of a task that existed before it.
LEMMA TaskStays ==
  ASSUME TypeOK, TreeInv, Shapes, [Next]_vars, NEW x \in TaskId
  PROVE  /\ task[x].status # "unborn" =>
              /\ Keeps(task[x], task'[x]) /\ task'[x].status # "unborn"
              /\ Live(task', x) => Live(task, x)
         /\ task[x].status = "unborn" /\ Live(task', x) => task'[x].born = restarts
         /\ task[x].mark # "none" => task'[x].mark # "none"
<1>1. PICK T \in TaskTable : Staged(T) /\ Change(T, task')
  BY StepChanges
<1>2. CASE task[x].status # "unborn"
  <2>1. T[x] = task[x]
    BY <1>1, <1>2 DEF Staged
  <2> QED
    BY <1>1, <1>2, <2>1, StepFinal DEF Change, Same, Live, Final, TypeOK, TaskRecord, Mark
<1>3. CASE task[x].status = "unborn"
  <2>1. Live(task', x) => T[x].born = restarts
    BY <1>1, <1>3 DEF Staged, Change, Live
  <2>2. task'[x].born = T[x].born
    BY <1>1 DEF Change, Same, Keeps
  <2> QED
    BY <1>3, <2>1, <2>2 DEF Shapes, Shaped
<1> QED
  BY <1>2, <1>3

\* Only a reservation pass starts an invocation.
LEMMA InvocationStays ==
  ASSUME TypeOK, [Next]_vars, NEW x \in TaskId
  PROVE  \/ inv'[x] = NoInvocation
         \/ inv[x] # NoInvocation /\ inv'[x].mode = inv[x].mode
         \/ Reserve /\ x \in Taken /\ inv'[x].mode = IF task[x].mark = "none" THEN "run" ELSE "abort"
<1>t. inv \in [TaskId -> Invocation]
  BY DEF TypeOK
<1>0. CASE inv' = inv
  BY <1>0
<1>1. CASE HostCreate \/ Submit \/ ReserveAbandoned \/ Reconcile \/ Open \/ Resume \/ UNCHANGED vars
  BY <1>0, <1>1 DEF HostCreate, Submit, ReserveAbandoned, Reconcile, Open, Resume, vars
<1>2. ASSUME NEW t, NEW keepRestart, AbortTask(t, keepRestart) PROVE inv' = inv
  BY <1>2 DEF AbortTask
<1>3. ASSUME NEW c, NEW cross, AbortConversation(c, cross) PROVE inv' = inv
  BY <1>3 DEF AbortConversation
<1>4. ASSUME NEW t \in TaskId, NEW moved, inv[t].at # "none", inv' = [inv EXCEPT ![t].moved = moved]
      PROVE  inv'[x] = inv[x] \/ (inv[x] # NoInvocation /\ inv'[x].mode = inv[x].mode)
  BY <1>t, <1>4 DEF Invocation, NoInvocation
<1>5. ASSUME NEW t \in TaskId, RuntimeCommit(t)
      PROVE  inv'[x] = inv[x] \/ (inv[x] # NoInvocation /\ inv'[x].mode = inv[x].mode)
  BY <1>4, <1>5 DEF RuntimeCommit
<1>6. ASSUME NEW t \in TaskId, HandlerReturn(t)
      PROVE  inv'[x] = inv[x] \/ (inv[x] # NoInvocation /\ inv'[x].mode = inv[x].mode)
  BY <1>t, <1>6 DEF HandlerReturn, Invocation, NoInvocation
<1>7. ASSUME NEW t \in TaskId, NEW T, NEW Ch, NEW L, EndInvocation(t, T, Ch, L)
      PROVE  inv'[x] = inv[x] \/ inv'[x] = NoInvocation
  BY <1>t, <1>7 DEF EndInvocation
<1>8. ASSUME NEW t \in TaskId, RunStep(t)
      PROVE  \/ inv'[x] = inv[x] \/ inv'[x] = NoInvocation
             \/ inv[x] # NoInvocation /\ inv'[x].mode = inv[x].mode
  <2>1. CASE inv[t].mode = "run" /\ inv' = [inv EXCEPT ![t].at = "handler", ![t].moved = FALSE, ![t].failed = FALSE]
    BY <1>t, <2>1 DEF Invocation, NoInvocation
  <2> QED
    BY <1>7, <1>8, <2>1 DEF RunStep
<1>9. ASSUME NEW t \in TaskId, AbortStep(t)
      PROVE  inv'[x] = inv[x] \/ inv'[x] = NoInvocation
  BY <1>7, <1>9 DEF AbortStep
<1>10. CASE Reserve
  <2>1. x \in Taken =>
          inv'[x].mode = IF task[x].mark = "none" THEN "run" ELSE "abort"
    BY <1>10 DEF Reserve, NoInvocation
  <2>2. x \notin Taken => inv'[x] = inv[x]
    BY <1>10 DEF Reserve
  <2> QED
    BY <1>10, <2>1, <2>2
<1>11. CASE Stop
  BY <1>11 DEF Stop
<1>12. CASE RegistryChange
  <2>1. \/ inv'[x] = inv[x]
        \/ inv[x].mode = "run" /\ inv'[x] = [inv[x] EXCEPT !.stale = TRUE]
    BY <1>12 DEF RegistryChange
  <2>2. inv[x] \in Invocation
    BY <1>t
  <2> QED
    BY <2>1, <2>2 DEF Invocation, NoInvocation
<1> QED
  BY <1>1, <1>2, <1>3, <1>5, <1>6, <1>8, <1>9, <1>10, <1>11, <1>12 DEF Next, LineJob

\* What a pass that takes a task has seen.
LEMMA TakenFacts ==
  ASSUME NEW x \in Taken
  PROVE  /\ x \in TaskId => Live(task, x)
         /\ task[x].mark # "none" => OwnedLive(task, x) = {}
         /\ task[x].mark = "none" => ~HeldBack(x)
  BY DEF Taken, Dropped, Held, WaitingOn

LEMMA AloneStep ==
  ASSUME TypeOK, TreeInv, Shapes, Alone, [Next]_vars
  PROVE  Alone'
<1>t. \A x \in TaskId : task[x].holders \subseteq TaskId /\ Taken \subseteq TaskId
  BY ReservationType DEF TypeOK, TaskRecord
<1>1. ASSUME NEW x \in TaskId, inv'[x].mode # "none" PROVE task[x].status # "unborn" /\ task'[x].status # "unborn"
  <2>1. inv[x].mode # "none" \/ x \in Taken
    BY <1>1, InvocationStays DEF NoInvocation
  <2>2. task[x].status # "unborn"
    BY <2>1, TakenFacts DEF Alone, Live
  <2> QED
    BY <2>2, TaskStays
<1>2. ASSUME NEW x \in TaskId, inv'[x].mode = "abort", Live(task', x),
             NEW y \in OwnedLive(task', x), inv'[y].mode = "run"
      PROVE  FALSE
  <2>1. y \in TaskId /\ task[y].status # "unborn" /\ task[x].status # "unborn"
    BY <1>1, <1>2 DEF OwnedLive
  <2>2. Live(task, x) /\ y \in OwnedLive(task, x)
    BY <1>2, <2>1, TaskStays DEF OwnedLive, Keeps
  <2>3. CASE inv[x].mode = "abort"
    <3>1. task[x].mark # "none" /\ inv[y].mode # "run"
      BY <2>2, <2>3 DEF Alone
    <3>2. y \in Taken /\ task[y].mark = "none"
      BY <1>2, <2>1, <3>1, InvocationStays DEF NoInvocation
    <3>3. HeldBack(y)
      BY <2>1, <2>2, <3>1, MarkHoldsBack DEF OwnedLive
    <3> QED
      BY <3>2, <3>3, TakenFacts
  <2>4. CASE inv[x].mode # "abort"
    <3>1. x \in Taken /\ task[x].mark # "none"
      BY <1>2, <2>4, InvocationStays DEF NoInvocation
    <3> QED
      BY <2>2, <3>1, TakenFacts
  <2> QED
    BY <2>3, <2>4
<1>3. ASSUME NEW x \in TaskId, inv'[x].mode = "abort", Live(task', x) PROVE task'[x].mark # "none"
  <2>1. task[x].status # "unborn" /\ Live(task, x)
    BY <1>1, <1>3, TaskStays
  <2>2. CASE inv[x].mode = "abort"
    BY <2>1, <2>2, TaskStays DEF Alone
  <2>3. CASE inv[x].mode # "abort"
    <3>1. x \in Taken /\ task[x].mark # "none"
      BY <1>3, <2>3, InvocationStays DEF NoInvocation
    <3> QED
      BY <3>1, TaskStays
  <2> QED
    BY <2>2, <2>3
<1>4. \A x \in TaskId : inv'[x].mode = "abort" /\ Live(task', x) =>
        task'[x].mark # "none" /\ \A y \in OwnedLive(task', x) : inv'[y].mode # "run"
  BY <1>2, <1>3
<1>5. \A x \in TaskId : inv'[x].mode # "none" => task'[x].status # "unborn"
  BY <1>1
<1> QED
  BY <1>4, <1>5 DEF Alone

\* What a step makes of the Harness and of the tasks it found abandoned.
HarnessStays == harness' = harness /\ abandoned' = abandoned /\ restarts' = restarts

LEMMA HarnessSteps ==
  ASSUME [Next]_vars, Left
  PROVE  \/ HarnessStays /\ (harness = "down" => line' = <<>>)
         \/ Resume
         \/ /\ harness = "down" /\ harness' = "paused" /\ restarts' = restarts
            /\ abandoned' = AbandonedAtOpen /\ inv' = inv
         \/ harness' = "down" /\ abandoned' = {} /\ line' = <<>> /\ \A x \in TaskId : inv'[x] = NoInvocation
         \/ ReserveAbandoned /\ harness # "down"
<1>l. \A t \in TaskId : harness = "down" => line = <<>> /\ inv[t] = NoInvocation
  BY DEF Left
<1>1. CASE HostCreate \/ Submit
  BY <1>1 DEF HostCreate, Submit, Admitted, HarnessStays
<1>2. ASSUME NEW x, NEW keepRestart, AbortTask(x, keepRestart) PROVE HarnessStays /\ harness # "down"
  BY <1>2 DEF AbortTask, Admitted, HarnessStays
<1>3. ASSUME NEW c, NEW cross, AbortConversation(c, cross) PROVE HarnessStays /\ harness # "down"
  BY <1>3 DEF AbortConversation, Admitted, HarnessStays
<1>4. ASSUME NEW t, RuntimeCommit(t) PROVE HarnessStays /\ harness # "down"
  BY <1>4 DEF RuntimeCommit, Admitted, HarnessStays
<1>5. ASSUME NEW t \in TaskId, HandlerReturn(t) PROVE HarnessStays /\ harness # "down"
  BY <1>5, <1>l DEF HandlerReturn, HarnessStays, NoInvocation
<1>6. ASSUME NEW t \in TaskId, RunStep(t) \/ AbortStep(t) PROVE HarnessStays /\ harness # "down"
  BY <1>6, <1>l DEF RunStep, AbortStep, StepFrame, StepHead, Head1, HarnessStays
<1>7. CASE Reserve \/ Reconcile
  BY <1>7 DEF Reserve, Reconcile, Head1, HarnessStays, Left
<1>8. CASE ReserveAbandoned
  BY <1>8 DEF ReserveAbandoned, Head1, Left
<1>9. CASE Open
  BY <1>9 DEF Open
<1>10. CASE Stop
  BY <1>10 DEF Stop
<1>11. CASE RegistryChange
  BY <1>11 DEF RegistryChange, Kick, HarnessStays, Left
<1>12. CASE UNCHANGED vars
  BY <1>12 DEF vars, HarnessStays, Left
<1> QED
  BY <1>1, <1>2, <1>3, <1>4, <1>5, <1>6, <1>7, <1>8, <1>9, <1>10, <1>11, <1>12 DEF Next, LineJob

\* No abandoned task of an earlier Harness escapes the first pass of this one.
LEMMA LeftMarked ==
  ASSUME TypeOK, TypeOK', TreeInv, Shapes, Left, [Next]_vars, harness' # "down",
         NEW y \in TaskId, Live(task', y), task'[y].abandon, task'[y].born # restarts'
  PROVE  y \in abandoned' \/ task'[y].mark # "none"
<1>1. restarts' = restarts
  BY HarnessSteps DEF HarnessStays, Resume, ReserveAbandoned
<1>2. task[y].status # "unborn" /\ Live(task, y) /\ task[y].abandon /\ task[y].born # restarts
  BY <1>1, TaskStays DEF Keeps
<1>3. CASE harness = "down"
  <2>1. HarnessStays \/ abandoned' = AbandonedAtOpen
    BY <1>3, HarnessSteps DEF Resume
  <2> QED
    BY <1>2, <1>3, <2>1 DEF AbandonedAtOpen, HarnessStays
<1>4. CASE harness # "down"
  <2>1. y \in abandoned \/ task[y].mark # "none"
    BY <1>2, <1>4 DEF Left
  <2>2. CASE task[y].mark # "none"
    BY <2>2, TaskStays
  <2>3. CASE abandoned' = abandoned
    BY <2>1, <2>2, <2>3
  <2>4. CASE ReserveAbandoned /\ y \in abandoned /\ task[y].mark = "none"
    <3>1. task'[y] = [task[y] EXCEPT !.mark = "restart"]
      BY <1>2, <2>4 DEF ReserveAbandoned
    <3>2. task[y] \in TaskRecord
      BY DEF TypeOK
    <3> QED
      BY <3>1, <3>2 DEF TaskRecord
  <2> QED
    BY <1>4, <2>1, <2>2, <2>3, <2>4, HarnessSteps DEF HarnessStays, Resume
<1> QED
  BY <1>3, <1>4

LEMMA LeftStep ==
  ASSUME TypeOK, TypeOK', TreeInv, TreeInv', Shapes, Alone, Alone', Left, [Next]_vars
  PROVE  Left'
<1>1. harness' = "down" => line' = <<>>
  BY HarnessSteps DEF HarnessStays, Resume, ReserveAbandoned
<1>2. ASSUME harness' = "down" \/ abandoned' # {}, NEW x \in TaskId PROVE inv'[x] = NoInvocation
  <2>1. \/ \A z \in TaskId : inv'[z] = NoInvocation
        \/ harness = "down" \/ abandoned # {}
    BY <1>2, HarnessSteps DEF HarnessStays, Resume, ReserveAbandoned
  <2>2. CASE harness = "down" \/ abandoned # {}
    <3>1. inv[x] = NoInvocation /\ ~Reserve
      BY <2>2 DEF Left, Reserve, Head1
    <3> QED
      BY <3>1, InvocationStays
  <2> QED
    BY <2>1, <2>2
<1>3. \A y \in TaskId : harness' # "down" /\ Live(task', y) /\ task'[y].abandon /\ task'[y].born # restarts'
                            => y \in abandoned' \/ task'[y].mark # "none"
  BY LeftMarked
<1>4. ASSUME NEW x \in TaskId, inv'[x].mode = "run",
             NEW y \in {x} \cup (IF task'[x].background THEN {} ELSE task'[x].holders),
             Live(task', y), task'[y].abandon, task'[y].born # restarts'
      PROVE  FALSE
  <2>1. task[x].status # "unborn"
    <3>1. inv[x].mode # "none" \/ x \in Taken
      BY <1>4, InvocationStays DEF NoInvocation
    <3> QED
      BY <3>1, TakenFacts DEF Alone, Live
  <2>2. y \in {x} \cup (IF task[x].background THEN {} ELSE task[x].holders)
    BY <1>4, <2>1, TaskStays DEF Keeps
  <2>3. y \in TaskId /\ task[y].status # "unborn"
    BY <2>1, <2>2 DEF TreeInv, Tree, TypeOK, TaskRecord
  <2>4. Live(task, y) /\ task[y].abandon /\ task[y].born = task'[y].born
    BY <1>4, <2>3, TaskStays DEF Keeps
  <2>5. harness' # "down" /\ abandoned' = {}
    BY <1>2, <1>4 DEF NoInvocation
  <2>6. restarts' = restarts
    BY <2>5, HarnessSteps DEF HarnessStays, Resume, ReserveAbandoned
  <2>7. inv[x].mode # "run"
    BY <1>4, <2>2, <2>4, <2>6 DEF Left
  <2>8. Reserve /\ x \in Taken /\ task[x].mark = "none"
    BY <1>4, <2>7, InvocationStays DEF NoInvocation
  <2>9. harness # "down" /\ abandoned = {}
    BY <2>8 DEF Reserve, Head1, Left
  <2>10. task[y].mark # "none"
    BY <1>4, <2>3, <2>4, <2>6, <2>9 DEF Left
  <2>11. HeldBack(x)
    BY <2>2, <2>4, <2>8, <2>10, MarkHoldsBack
  <2> QED
    BY <2>8, <2>11, TakenFacts
<1> QED
  BY <1>1, <1>2, <1>3, <1>4 DEF Left

-----------------------------------------------------------------------------
(* The theorems                                                            *)

LEMMA AbortsHold == Spec => [](Alone /\ Left)
<1>1. Init => Alone /\ Left
  BY DEF Init, Alone, Left, NoInvocation
<1>2. /\ TypeOK /\ TypeOK' /\ TreeInv /\ TreeInv' /\ Shapes /\ Alone /\ Left /\ [Next]_vars
      => (Alone /\ Left)'
  BY AloneStep, LeftStep
<1> QED
  BY <1>1, <1>2, TypeCorrect, TreeCorrect, ShapesHold, PTL DEF Spec

\* While the abort handler of an undecided task runs no phase of its owned work runs, not even
\* of work created below it meanwhile (#reserve, #waitingOn, the walk up of a step).
THEOREM AbortsAlone == Spec => []AbortRunsAlone
<1>1. Alone => AbortRunsAlone
  BY DEF Alone, AbortRunsAlone
<1> QED
  BY <1>1, AbortsHold, PTL

\* No phase of a task abandoned by an earlier Harness, or below one, runs again, however open,
\* resume, the first pass and new work interleave (open, #reserve).
THEOREM AbandonedStays == Spec => []AbandonedNeverResumes
<1>1. Left => AbandonedNeverResumes
  BY DEF Left, AbandonedNeverResumes
<1> QED
  BY <1>1, AbortsHold, PTL

-----------------------------------------------------------------------------
(***************************************************************************)
(* The jobs the scheduler queues on the Session line, for every value of   *)
(* the constants: what a commit, a pass and a step add to the line and take*)
(* from it, that an invocation has exactly the step it needs, and that every*)
(* step reports to the indexes and to the line all it wrote (StepReports). *)
(*                                                                         *)
(* From that, nothing the scheduler owes is forgotten: every cascade mark, *)
(* withdrawal, finalization, failFast check and reservation the records    *)
(* call for has a job on the line that does it.  A promise can break in two*)
(* ways.  A commit makes work and its publication does not report it:      *)
(* StepReports says that it does.  Or the job that was to do the work has  *)
(* run: then it has done it, as a job reads the records when it runs and   *)
(* not when it is queued.                                                  *)
(***************************************************************************)

(* Steps on the line                                                       *)

IsStep(job, t) == job.kind = "step" /\ job.task = t

\* How many steps of t there are on line L: none, or one.
NoStep(L, t)  == \A j \in 1 .. Len(L) : ~IsStep(L[j], t)
OneStep(L, t) == \E i \in 1 .. Len(L) : \A j \in 1 .. Len(L) : IsStep(L[j], t) <=> j = i

\* The steps of t that an invocation at `at` needs.
Due(L, t, at) == IF at \in {"first", "returned"} THEN OneStep(L, t) ELSE NoStep(L, t)

\* A line of jobs without any step.
Stepless(L) == L \in Seq(Job) /\ \A t \in TaskId : NoStep(L, t)

LEMMA ConcatSteps ==
  ASSUME NEW L \in Seq(Job), NEW M \in Seq(Job), NEW t
  PROVE  /\ NoStep(L, t) /\ NoStep(M, t) => NoStep(L \o M, t)
         /\ OneStep(L, t) /\ NoStep(M, t) => OneStep(L \o M, t)
         /\ NoStep(L, t) /\ OneStep(M, t) => OneStep(L \o M, t)
<1>1. /\ Len(L) \in Nat /\ Len(M) \in Nat /\ Len(L \o M) = Len(L) + Len(M)
      /\ \A i \in 1 .. Len(L) : (L \o M)[i] = L[i]
      /\ \A i \in 1 .. Len(M) : (L \o M)[Len(L) + i] = M[i]
  BY ConcatProperties, LenProperties
<1>2. \A i \in 1 .. Len(L \o M) : i \in 1 .. Len(L) \/ \E k \in 1 .. Len(M) : i = Len(L) + k
  <2>1. ASSUME NEW i \in 1 .. Len(L \o M), i \notin 1 .. Len(L)
        PROVE  i - Len(L) \in 1 .. Len(M) /\ i = Len(L) + (i - Len(L))
    BY <1>1, <2>1
  <2> QED
    BY <2>1
<1>3. NoStep(L, t) /\ NoStep(M, t) => NoStep(L \o M, t)
  BY <1>1, <1>2 DEF NoStep
<1>4. ASSUME OneStep(L, t), NoStep(M, t) PROVE OneStep(L \o M, t)
  <2>1. PICK i \in 1 .. Len(L) : \A j \in 1 .. Len(L) : IsStep(L[j], t) <=> j = i
    BY <1>4 DEF OneStep
  <2>2. i \in 1 .. Len(L \o M)
    BY <1>1
  <2>3. ASSUME NEW j \in 1 .. Len(L \o M) PROVE IsStep((L \o M)[j], t) <=> j = i
    <3>1. CASE j \in 1 .. Len(L)
      BY <1>1, <2>1, <3>1
    <3>2. ASSUME NEW k \in 1 .. Len(M), j = Len(L) + k PROVE IsStep((L \o M)[j], t) <=> j = i
      BY <1>1, <1>4, <3>2 DEF NoStep
    <3> QED
      BY <1>2, <3>1, <3>2
  <2> QED
    BY <2>2, <2>3 DEF OneStep
<1>5. ASSUME NoStep(L, t), OneStep(M, t) PROVE OneStep(L \o M, t)
  <2>1. PICK i \in 1 .. Len(M) : \A j \in 1 .. Len(M) : IsStep(M[j], t) <=> j = i
    BY <1>5 DEF OneStep
  <2>2. Len(L) + i \in 1 .. Len(L \o M)
    BY <1>1
  <2>3. ASSUME NEW j \in 1 .. Len(L \o M) PROVE IsStep((L \o M)[j], t) <=> j = Len(L) + i
    <3>1. CASE j \in 1 .. Len(L)
      BY <1>1, <1>5, <3>1 DEF NoStep
    <3>2. ASSUME NEW k \in 1 .. Len(M), j = Len(L) + k
          PROVE  IsStep((L \o M)[j], t) <=> j = Len(L) + i
      BY <1>1, <2>1, <3>2
    <3> QED
      BY <1>2, <3>1, <3>2
  <2> QED
    BY <2>2, <2>3 DEF OneStep
<1> QED
  BY <1>3, <1>4, <1>5

LEMMA TailSteps ==
  ASSUME NEW L \in Seq(Job), L # <<>>, NEW t
  PROVE  /\ NoStep(L, t) => NoStep(Tail(L), t)
         /\ OneStep(L, t) => IF IsStep(Head(L), t) THEN NoStep(Tail(L), t) ELSE OneStep(Tail(L), t)
<1>1. /\ Len(L) \in Nat \ {0} /\ Len(Tail(L)) = Len(L) - 1 /\ Head(L) = L[1]
      /\ \A i \in 1 .. Len(Tail(L)) : Tail(L)[i] = L[i + 1]
  BY HeadTailProperties, EmptySeq
<1>2. NoStep(L, t) => NoStep(Tail(L), t)
  BY <1>1 DEF NoStep
<1>3. ASSUME OneStep(L, t)
      PROVE  IF IsStep(Head(L), t) THEN NoStep(Tail(L), t) ELSE OneStep(Tail(L), t)
  <2>1. PICK i \in 1 .. Len(L) : \A j \in 1 .. Len(L) : IsStep(L[j], t) <=> j = i
    BY <1>3 DEF OneStep
  <2>2. ASSUME NEW j \in 1 .. Len(Tail(L)) PROVE IsStep(Tail(L)[j], t) <=> j = i - 1
    BY <1>1, <2>1
  <2>3. CASE IsStep(Head(L), t)
    <3>1. i = 1
      BY <1>1, <2>1, <2>3
    <3> QED
      BY <2>2, <2>3, <3>1 DEF NoStep
  <2>4. CASE ~IsStep(Head(L), t)
    <3>1. i - 1 \in 1 .. Len(Tail(L))
      BY <1>1, <2>1, <2>4
    <3> QED
      BY <2>2, <2>4, <3>1 DEF OneStep
  <2> QED
    BY <2>3, <2>4
<1> QED
  BY <1>2, <1>3

LEMMA SteplessJobs ==
  /\ Stepless(<<>>) /\ Stepless(<<ReserveJob>>)
  /\ \A cascade \in BOOLEAN, checks \in SUBSET TaskId : Stepless(<<ReconcileJob(cascade, checks)>>)
  /\ \A T, Ch, Q : Stepless(Reconciles(T, Ch, Q))
  /\ \A L, M : Stepless(L) /\ Stepless(M) => Stepless(L \o M)
<1>1. Stepless(<<>>)
  BY LineTypes DEF Stepless, NoStep
<1>2. ASSUME NEW job \in Job, job.kind # "step" PROVE Stepless(<<job>>)
  BY <1>2 DEF Stepless, NoStep, IsStep
<1>3. Stepless(<<ReserveJob>>)
  BY <1>2, JobTypes DEF ReserveJob
<1>4. ASSUME NEW cascade \in BOOLEAN, NEW checks \in SUBSET TaskId
      PROVE  Stepless(<<ReconcileJob(cascade, checks)>>)
  BY <1>2, JobTypes DEF ReconcileJob
<1>5. ASSUME NEW T, NEW Ch, NEW Q PROVE Stepless(Reconciles(T, Ch, Q))
  <2>1. Cascades(T, Ch, Q) \in BOOLEAN
    BY DEF Cascades
  <2>2. Alarmed(T, Ch) \in SUBSET TaskId
    BY DEF Alarmed
  <2> QED
    BY <1>1, <1>4, <2>1, <2>2 DEF Reconciles
<1>6. ASSUME NEW L, NEW M, Stepless(L), Stepless(M) PROVE Stepless(L \o M)
  BY <1>6, ConcatSteps, ConcatProperties DEF Stepless
<1> QED
  BY <1>1, <1>3, <1>4, <1>5, <1>6

LEMMA KickSteps ==
  ASSUME NEW L \in Seq(Job), Kick(L)
  PROVE  \E M : Stepless(M) /\ line' = L \o M
<1>1. line' = L \/ line' = Append(L, ReserveJob)
  BY DEF Kick
<1>2. L \o <<>> = L /\ L \o <<ReserveJob>> = Append(L, ReserveJob)
  BY ConcatEmptySeq, AppendIsConcat, JobTypes
<1> QED
  BY <1>1, <1>2, SteplessJobs

LEMMA PublishSteps ==
  ASSUME NEW T, NEW Ch, NEW Q, NEW F, NEW L \in Seq(Job), Publish(T, Ch, Q, F, L)
  PROVE  \E M : Stepless(M) /\ line' = L \o M
<1>1. Reconciles(T, Ch, Q) \in Seq(Job) /\ Stepless(Reconciles(T, Ch, Q))
  BY ReconcilesType, SteplessJobs
<1>2. CASE line' = L \o Reconciles(T, Ch, Q)
  BY <1>1, <1>2
<1>3. CASE Kick(L \o Reconciles(T, Ch, Q))
  <2>1. L \o Reconciles(T, Ch, Q) \in Seq(Job)
    BY <1>1, ConcatProperties
  <2>2. PICK M : Stepless(M) /\ line' = (L \o Reconciles(T, Ch, Q)) \o M
    BY <1>3, <2>1, KickSteps
  <2>3. line' = L \o (Reconciles(T, Ch, Q) \o M)
    BY <1>1, <2>2, ConcatAssociative DEF Stepless
  <2> QED
    BY <1>1, <2>2, <2>3, SteplessJobs
<1> QED
  BY <1>2, <1>3 DEF Publish

\* An order of the first steps has one step for each of its tasks, and none for others.
LEMMA OrdersSteps ==
  ASSUME NEW S \in SUBSET TaskId, NEW steps \in Orders(S), NEW t \in TaskId
  PROVE  LET L == [i \in DOMAIN steps |-> StepJob(steps[i])]
         IN L \in Seq(Job) /\ IF t \in S THEN OneStep(L, t) ELSE NoStep(L, t)
<1> DEFINE L == [i \in DOMAIN steps |-> StepJob(steps[i])]
           n == Cardinality(S)
<1>1. L \in Seq(Job)
  BY OrdersType
<1>2. IsFiniteSet(S) /\ n \in Nat
  <2>1. IsFiniteSet(TaskId)
    BY FS_Interval, BoundsAssumption DEF TaskId
  <2> QED
    BY <2>1, FS_Subset, FS_CardinalityType
<1>3. steps \in [1 .. n -> S] /\ \A x \in S : \E i \in 1 .. n : steps[i] = x
  BY DEF Orders
<1>4. \A i, j \in 1 .. n : steps[i] = steps[j] => i = j
  <2>1. steps \in Surjection(1 .. n, S)
    BY <1>3 DEF Surjection
  <2>2. IsFiniteSet(1 .. n) /\ Cardinality(1 .. n) = n
    BY <1>2, FS_Interval
  <2>3. steps \in Injection(1 .. n, S)
    BY <2>1, <2>2, FS_SurjSameCardinalityImpliesInj
  <2> QED
    BY <2>3 DEF Injection, IsInjective
<1>5. Len(L) = n /\ \A i \in 1 .. n : L[i] = StepJob(steps[i])
  <2>1. DOMAIN L = 1 .. n /\ DOMAIN L = 1 .. Len(L) /\ Len(L) \in Nat
    BY <1>1, <1>3, LenProperties
  <2>2. Len(L) = n
    BY <1>2, <2>1
  <2> QED
    BY <1>3, <2>2
<1> HIDE DEF L, n
<1>6. \A i \in 1 .. Len(L) : IsStep(L[i], t) <=> steps[i] = t
  BY <1>5 DEF IsStep, StepJob
<1>7. IF t \in S THEN OneStep(L, t) ELSE NoStep(L, t)
  <2>1. CASE t \in S
    BY <1>3, <1>4, <1>5, <1>6, <2>1 DEF OneStep
  <2>2. CASE t \notin S
    BY <1>3, <1>5, <1>6, <2>2 DEF NoStep
  <2> QED
    BY <2>1, <2>2
<1> QED
  BY <1>1, <1>7 DEF L

\* A task has an invocation exactly while that invocation is somewhere.
Idle == \A x \in TaskId : inv[x].mode = "none" <=> inv[x].at = "none"

StepsDue == \A t \in TaskId : Due(line, t, inv[t].at)

\* The invocations stay where they are.
SameAt == \A x \in TaskId : inv'[x].at = inv[x].at /\ inv'[x].mode = inv[x].mode

\* Jobs that are not steps join the line behind the rest L of it.
LEMMA Joins ==
  ASSUME NEW L \in Seq(Job), NEW M, Stepless(M), line' = L \o M, NEW t \in TaskId, NEW at, Due(L, t, at)
  PROVE  Due(line', t, at)
  BY ConcatSteps DEF Stepless, Due

LEMMA SameSteps ==
  ASSUME TypeOK, Idle, StepsDue, SameAt,
         \/ \E M : Stepless(M) /\ line' = line \o M
         \/ /\ line # <<>> /\ Head(line).kind # "step"
            /\ \E M : Stepless(M) /\ line' = Tail(line) \o M
  PROVE  Idle' /\ StepsDue'
<1>l. line \in Seq(Job)
  BY DEF TypeOK
<1>0. Idle'
  BY DEF Idle, SameAt
<1>1. CASE \E M : Stepless(M) /\ line' = line \o M
  <2>1. PICK M : Stepless(M) /\ line' = line \o M
    BY <1>1
  <2>2. \A t \in TaskId : Due(line', t, inv[t].at)
    BY <1>l, <2>1, Joins DEF StepsDue
  <2> QED
    BY <1>0, <2>2 DEF StepsDue, SameAt
<1>2. CASE /\ line # <<>> /\ Head(line).kind # "step"
           /\ \E M : Stepless(M) /\ line' = Tail(line) \o M
  <2>1. \A t \in TaskId : Due(Tail(line), t, inv[t].at)
    BY <1>l, <1>2, TailSteps DEF Due, StepsDue, IsStep
  <2>2. Tail(line) \in Seq(Job)
    BY <1>l, <1>2, HeadTailProperties
  <2>3. PICK M : Stepless(M) /\ line' = Tail(line) \o M
    BY <1>2
  <2>4. \A t \in TaskId : Due(line', t, inv[t].at)
    BY <2>1, <2>2, <2>3, Joins
  <2> QED
    BY <1>0, <2>4 DEF StepsDue, SameAt
<1> QED
  BY <1>1, <1>2

\* The step at the head of the line ends its invocation or starts its next phase.
LEMMA HeadStep ==
  ASSUME TypeOK, Idle, StepsDue, NEW t \in TaskId, StepHead(t),
         NEW r, r.at \notin {"first", "returned"}, r.mode = "none" <=> r.at = "none",
         inv' = [inv EXCEPT ![t] = r], NEW M, Stepless(M), line' = Tail(line) \o M
  PROVE  Idle' /\ StepsDue'
<1>l. line \in Seq(Job) /\ line # <<>> /\ Tail(line) \in Seq(Job) /\ inv \in [TaskId -> Invocation]
  BY HeadTailProperties DEF TypeOK, StepHead, Head1
<1>1. \A x \in TaskId : inv'[x] = IF x = t THEN r ELSE inv[x]
  BY <1>l
<1>2. \A x \in TaskId : IsStep(Head(line), x) <=> x = t
  BY DEF StepHead, Head1, IsStep
<1>3. OneStep(line, t)
  <2>1. Len(line) \in Nat \ {0} /\ Head(line) = line[1]
    BY <1>l, EmptySeq
  <2>2. ~NoStep(line, t)
    BY <1>2, <2>1 DEF NoStep
  <2> QED
    BY <2>2 DEF StepsDue, Due
<1>4. \A x \in TaskId : Due(Tail(line), x, inv'[x].at)
  BY <1>l, <1>1, <1>2, <1>3, TailSteps DEF StepsDue, Due
<1> QED
  BY <1>l, <1>1, <1>4, Joins DEF Idle, StepsDue

\* Every step keeps for each invocation the job it needs.
LEMMA StepsStep ==
  ASSUME TypeOK, Left, Idle, StepsDue, [Next]_vars
  PROVE  Idle' /\ StepsDue'
<1>t. line \in Seq(Job) /\ inv \in [TaskId -> Invocation] /\ \A x \in TaskId : inv[x] \in Invocation
  BY DEF TypeOK
<1>0. ASSUME inv' = inv PROVE SameAt
  BY <1>0 DEF SameAt
<1>e. line = line \o <<>> /\ Stepless(<<>>)
  BY <1>t, ConcatEmptySeq, SteplessJobs
<1>1. CASE HostCreate
  <2>1. \E T, Ch, Q, F : Publish(T, Ch, Q, F, line)
    BY <1>1 DEF HostCreate
  <2> QED
    BY <1>0, <1>1, <1>t, <2>1, PublishSteps, SameSteps DEF HostCreate
<1>2. CASE Submit
  <2>1. \E T, Ch, Q, F : Publish(T, Ch, Q, F, line)
    BY <1>2 DEF Submit
  <2> QED
    BY <1>0, <1>2, <1>t, <2>1, PublishSteps, SameSteps DEF Submit
<1>3. ASSUME NEW x, NEW keepRestart, AbortTask(x, keepRestart) PROVE Idle' /\ StepsDue'
  <2>1. \E T, Ch, Q, F : Publish(T, Ch, Q, F, line)
    BY <1>3 DEF AbortTask
  <2> QED
    BY <1>0, <1>3, <1>t, <2>1, PublishSteps, SameSteps DEF AbortTask
<1>4. ASSUME NEW c, NEW cross, AbortConversation(c, cross) PROVE Idle' /\ StepsDue'
  <2>1. \E T, Ch, Q, F : Publish(T, Ch, Q, F, line)
    BY <1>4 DEF AbortConversation
  <2> QED
    BY <1>0, <1>4, <1>t, <2>1, PublishSteps, SameSteps DEF AbortConversation
<1>5. ASSUME NEW t \in TaskId, RuntimeCommit(t) PROVE Idle' /\ StepsDue'
  <2>1. PICK moved, T, Ch, Q, F : inv' = [inv EXCEPT ![t].moved = moved] /\ Publish(T, Ch, Q, F, line)
    BY <1>5 DEF RuntimeCommit
  <2>2. SameAt
    BY <1>t, <2>1 DEF SameAt, Invocation
  <2> QED
    BY <1>t, <2>1, <2>2, PublishSteps, SameSteps
<1>6. ASSUME NEW t \in TaskId, HandlerReturn(t) PROVE Idle' /\ StepsDue'
  <2>1. PICK failed : inv' = [inv EXCEPT ![t].at = "returned", ![t].failed = failed]
    BY <1>6 DEF HandlerReturn
  <2>2. inv[t].at = "handler" /\ line' = line \o <<StepJob(t)>>
    BY <1>6, <1>t, AppendIsConcat, JobTypes DEF HandlerReturn
  <2>3. /\ inv'[t].at = "returned" /\ inv'[t].mode = inv[t].mode
        /\ \A x \in TaskId : x # t => inv'[x] = inv[x]
    BY <1>t, <2>1 DEF Invocation
  <2>4. Idle'
    BY <2>2, <2>3 DEF Idle
  <2>5. <<StepJob(t)>> \in Seq(Job) /\ OneStep(<<StepJob(t)>>, t)
    <3>1. <<StepJob(t)>> \in Seq(Job) /\ Len(<<StepJob(t)>>) = 1 /\ <<StepJob(t)>>[1] = StepJob(t)
      BY JobTypes
    <3> QED
      BY <3>1 DEF OneStep, IsStep, StepJob
  <2>6. \A x \in TaskId : x # t => NoStep(<<StepJob(t)>>, x)
    BY DEF NoStep, IsStep, StepJob
  <2>7. NoStep(line, t)
    BY <2>2 DEF StepsDue, Due
  <2>8. \A x \in TaskId : Due(line', x, inv'[x].at)
    <3>1. Due(line', t, inv'[t].at)
      BY <1>t, <2>2, <2>3, <2>5, <2>7, ConcatSteps DEF Due
    <3>2. ASSUME NEW x \in TaskId, x # t PROVE Due(line', x, inv'[x].at)
      BY <1>t, <2>2, <2>3, <2>5, <2>6, <3>2, ConcatSteps DEF StepsDue, Due
    <3> QED
      BY <3>1, <3>2
  <2> QED
    BY <2>4, <2>8 DEF StepsDue
<1>7. ASSUME NEW t \in TaskId, StepHead(t), NEW T, NEW Ch, NEW L, Stepless(L), EndInvocation(t, T, Ch, L)
      PROVE  Idle' /\ StepsDue'
  <2>1. Tail(line) \in Seq(Job)
    BY <1>7, <1>t, HeadTailProperties DEF StepHead, Head1
  <2>2. L \in Seq(Job) /\ Stepless(L \o Reconciles(T, Ch, {})) /\ L \o Reconciles(T, Ch, {}) \in Seq(Job)
    BY <1>7, SteplessJobs DEF Stepless
  <2>3. Tail(line) \o L \o Reconciles(T, Ch, {}) = Tail(line) \o (L \o Reconciles(T, Ch, {}))
    BY <2>1, <2>2, ReconcilesType, ConcatAssociative
  <2>4. PICK M : Stepless(M) /\ line' = (Tail(line) \o (L \o Reconciles(T, Ch, {}))) \o M
    <3>1. Tail(line) \o (L \o Reconciles(T, Ch, {})) \in Seq(Job)
      BY <2>1, <2>2, ConcatProperties
    <3> QED
      BY <1>7, <2>3, <3>1, KickSteps DEF EndInvocation
  <2>5. /\ line' = Tail(line) \o ((L \o Reconciles(T, Ch, {})) \o M)
        /\ Stepless((L \o Reconciles(T, Ch, {})) \o M)
    <3> DEFINE N == L \o Reconciles(T, Ch, {})
    <3>1. N \in Seq(Job) /\ M \in Seq(Job)
      BY <2>2, <2>4 DEF Stepless
    <3> HIDE DEF N
    <3>2. (Tail(line) \o N) \o M = Tail(line) \o (N \o M)
      BY <2>1, <3>1, ConcatAssociative
    <3> QED
      BY <2>2, <2>4, <3>2, SteplessJobs DEF N
  <2>6. /\ NoInvocation.at \notin {"first", "returned"} /\ NoInvocation.mode = "none" /\ NoInvocation.at = "none"
        /\ inv' = [inv EXCEPT ![t] = NoInvocation]
    BY <1>7 DEF NoInvocation, EndInvocation
  <2> QED
    BY <1>7, <2>5, <2>6, HeadStep
<1>8. ASSUME NEW t \in TaskId, RunStep(t) PROVE Idle' /\ StepsDue'
  <2>1. StepHead(t) /\ inv[t].mode = "run" /\ Stepless(<<ReconcileJob(TRUE, {})>>)
    BY <1>8, SteplessJobs DEF RunStep
  <2>2. CASE \E T, Ch, L : Stepless(L) /\ EndInvocation(t, T, Ch, L)
    BY <1>7, <2>1, <2>2
  <2>3. CASE /\ inv' = [inv EXCEPT ![t].at = "handler", ![t].moved = FALSE, ![t].failed = FALSE]
             /\ line' = Tail(line)
    <3> DEFINE r == [[[inv[t] EXCEPT !.at = "handler"] EXCEPT !.moved = FALSE] EXCEPT !.failed = FALSE]
    <3>1. r.at = "handler" /\ r.mode = "run" /\ inv' = [inv EXCEPT ![t] = r]
      BY <1>t, <2>1, <2>3 DEF Invocation
    <3>2. line' = Tail(line) \o <<>>
      BY <1>t, <2>1, <2>3, HeadTailProperties, ConcatEmptySeq DEF StepHead, Head1
    <3> HIDE DEF r
    <3> QED
      BY <1>e, <2>1, <3>1, <3>2, HeadStep
  <2> QED
    BY <1>8, <1>e, <2>1, <2>2, <2>3 DEF RunStep
<1>9. ASSUME NEW t \in TaskId, AbortStep(t) PROVE Idle' /\ StepsDue'
  BY <1>7, <1>9, <1>e DEF AbortStep
<1>10. CASE ReserveAbandoned
  <2>1. PICK T, Ch : line' = Append(Tail(line) \o Reconciles(T, Ch, {}), ReserveJob)
    BY <1>10 DEF ReserveAbandoned
  <2>2. Tail(line) \in Seq(Job) /\ Reconciles(T, Ch, {}) \in Seq(Job) /\ line # <<>> /\ Head(line).kind # "step"
    BY <1>10, <1>t, HeadTailProperties, ReconcilesType DEF ReserveAbandoned, Head1
  <2>3. line' = Tail(line) \o (Reconciles(T, Ch, {}) \o <<ReserveJob>>)
    <3>1. /\ Tail(line) \o Reconciles(T, Ch, {}) \in Seq(Job)
          /\ <<ReserveJob>> \in Seq(Job) /\ ReserveJob \in Job
      BY <2>2, ConcatProperties, JobTypes, LineTypes
    <3>2. line' = (Tail(line) \o Reconciles(T, Ch, {})) \o <<ReserveJob>>
      BY <2>1, <3>1, AppendIsConcat
    <3> QED
      BY <2>2, <3>1, <3>2, ConcatAssociative
  <2>4. SameAt
    BY <1>0, <1>10 DEF ReserveAbandoned
  <2> QED
    BY <2>2, <2>3, <2>4, SteplessJobs, SameSteps
<1>11. CASE Reserve
  <2> DEFINE Ch == Orphans \cup {x \in Taken : task[x].status # "running"}
             T  == [x \in TaskId |->
                      IF x \in Orphans THEN WithOutcome(task[x], "terminal", "orphaned")
                      ELSE IF x \in Taken THEN WithStatus(task[x], "running") ELSE task[x]]
             mode == [x \in TaskId |-> IF task[x].mark = "none" THEN "run" ELSE "abort"]
             first == {x \in Taken : mode[x] = "run"}
             cascade == IF Held # {} THEN <<ReconcileJob(TRUE, {})>> ELSE <<>>
             again   == IF dirty \/ Ch # {} THEN <<ReserveJob>> ELSE <<>>
  <2>1. PICK steps \in Orders(first) :
          line' = Tail(line) \o cascade \o Reconciles(T, Ch, {})
                  \o [i \in DOMAIN steps |-> StepJob(steps[i])] \o again
    BY <1>11 DEF Reserve
  <2> DEFINE L == [i \in DOMAIN steps |-> StepJob(steps[i])]
  <2>2. first \in SUBSET TaskId
    BY ReservationType
  <2>3. Stepless(cascade) /\ Stepless(Reconciles(T, Ch, {})) /\ Stepless(again)
    BY SteplessJobs
  <2>4. line # <<>> /\ Tail(line) \in Seq(Job) /\ Head(line).kind # "step"
    BY <1>11, <1>t, HeadTailProperties DEF Reserve, Head1
  <2>5. \A x \in Taken : x \in TaskId /\ inv[x].mode = "none"
    BY DEF Taken, Dropped, TypeOK
  <2>6. \A x \in TaskId : inv'[x] = IF x \notin Taken THEN inv[x]
                 ELSE [NoInvocation EXCEPT !.mode = mode[x], !.at = IF mode[x] = "run" THEN "first" ELSE "handler"]
    BY <1>11 DEF Reserve
  <2>7. \A x \in Taken : mode[x] \in {"run", "abort"}
    BY <2>5
  <2> HIDE DEF mode
  <2>8. \A x \in Taken : inv'[x].mode = mode[x] /\ inv'[x].at = IF mode[x] = "run" THEN "first" ELSE "handler"
    <3> SUFFICES ASSUME NEW x \in Taken
                 PROVE  inv'[x].mode = mode[x] /\ inv'[x].at = IF mode[x] = "run" THEN "first" ELSE "handler"
      OBVIOUS
    <3>0. inv'[x] = [NoInvocation EXCEPT !.mode = mode[x], !.at = IF mode[x] = "run" THEN "first" ELSE "handler"]
      BY <2>5, <2>6
    <3>1. CASE mode[x] = "run"
      BY <3>0, <3>1 DEF NoInvocation
    <3>2. CASE mode[x] # "run"
      BY <3>0, <3>2 DEF NoInvocation
    <3> QED
      BY <3>1, <3>2
  <2>9. \A x \in TaskId : IF x \in first THEN OneStep(L, x) ELSE NoStep(L, x)
    BY <2>2, OrdersSteps
  <2>10. L \in Seq(Job)
    BY <2>2, OrdersType
  <2>11. \A x \in TaskId :
           \/ x \in first /\ inv'[x].at = "first" /\ inv[x].at = "none"
           \/ x \in Taken \ first /\ inv'[x].at = "handler" /\ inv[x].at = "none"
           \/ x \notin Taken /\ inv'[x] = inv[x]
    <3>1. \A x \in Taken : inv[x].at = "none"
      BY <2>5 DEF Idle
    <3>2. \A x \in first : x \in Taken /\ mode[x] = "run"
      OBVIOUS
    <3>3. \A x \in Taken \ first : mode[x] # "run"
      OBVIOUS
    <3>4. \A x \in TaskId : x \notin Taken => inv'[x] = inv[x]
      BY <2>6
    <3>5. \A x \in first : inv'[x].at = "first"
      BY <2>8, <3>2, Zenon
    <3>6. \A x \in Taken \ first : inv'[x].at = "handler"
      BY <2>8, <3>3, Zenon
    <3> HIDE DEF first
    <3> QED
      BY <3>1, <3>2, <3>4, <3>5, <3>6
  <2> HIDE DEF T, Ch, first, cascade, again, L
  <2>12. Idle'
    BY <2>7, <2>8, <2>11 DEF Idle, first
  <2>13. ASSUME NEW x \in TaskId PROVE Due(line', x, inv'[x].at)
    <3> DEFINE front == Tail(line) \o cascade \o Reconciles(T, Ch, {})
    <3>1. front \in Seq(Job) /\ front \o L \in Seq(Job) /\ line' = (front \o L) \o again
      BY <2>1, <2>3, <2>4, <2>10, ConcatProperties DEF Stepless, L
    <3>2. Due(front, x, inv[x].at)
      <4>1. Due(Tail(line), x, inv[x].at)
        BY <1>t, <2>4, TailSteps DEF StepsDue, Due, IsStep
      <4>2. Tail(line) \o cascade \in Seq(Job)
        BY <2>3, <2>4, ConcatProperties DEF Stepless
      <4> QED
        BY <2>3, <2>4, <4>1, <4>2, ConcatSteps DEF Stepless, Due
    <3> HIDE DEF front
    <3>3. Due(front \o L, x, inv'[x].at)
      <4>1. CASE x \in first
        BY <2>9, <2>10, <2>11, <3>1, <3>2, <4>1, ConcatSteps DEF Due, first
      <4>2. CASE x \notin first
        BY <2>9, <2>10, <2>11, <3>1, <3>2, <4>2, ConcatSteps DEF Due
      <4> QED
        BY <4>1, <4>2
    <3> QED
      BY <2>3, <3>1, <3>3, ConcatSteps DEF Stepless, Due
  <2> QED
    BY <2>12, <2>13 DEF StepsDue
<1>12. CASE Reconcile
  <2>1. PICK T, Ch, Q, F : Publish(T, Ch, Q, F, Tail(line))
    BY <1>12 DEF Reconcile
  <2>2. SameAt /\ line # <<>> /\ Tail(line) \in Seq(Job) /\ Head(line).kind # "step"
    BY <1>0, <1>12, <1>t, HeadTailProperties DEF Reconcile, Head1
  <2> QED
    BY <2>1, <2>2, PublishSteps, SameSteps
<1>13. ASSUME \A x \in TaskId : inv'[x] = NoInvocation, Stepless(line') PROVE Idle' /\ StepsDue'
  <2>1. NoInvocation.mode = "none" /\ NoInvocation.at = "none"
    BY DEF NoInvocation
  <2> QED
    BY <1>13, <2>1 DEF Idle, StepsDue, Due, Stepless
<1>14. CASE Open
  <2>1. Stepless(line')
    <3>1. {x \in TaskId : task[x].status = "waiting" /\ task[x].policy = "failFast"} \in SUBSET TaskId
      OBVIOUS
    <3> QED
      BY <1>14, <3>1, SteplessJobs, Zenon DEF Open
  <2> QED
    BY <1>13, <1>14, <2>1 DEF Open, Left
<1>15. CASE Resume
  <2>1. line' = line \o <<ReserveJob>> /\ SameAt
    BY <1>0, <1>15, <1>t, AppendIsConcat, JobTypes DEF Resume
  <2> QED
    BY <2>1, SteplessJobs, SameSteps
<1>16. CASE Stop
  BY <1>13, <1>16, <1>e DEF Stop
<1>17. CASE RegistryChange
  <2>1. SameAt
    <3>1. \A x \in TaskId : inv'[x] = inv[x] \/ inv'[x] = [inv[x] EXCEPT !.stale = TRUE]
      BY <1>17 DEF RegistryChange
    <3> QED
      BY <1>t, <3>1 DEF SameAt, Invocation
  <2> QED
    BY <1>17, <1>t, <2>1, KickSteps, SameSteps DEF RegistryChange
<1>18. CASE UNCHANGED vars
  BY <1>0, <1>18, <1>e, SameSteps DEF vars
<1> QED
  BY <1>1, <1>2, <1>3, <1>4, <1>5, <1>6, <1>8, <1>9, <1>10, <1>11, <1>12, <1>14, <1>15, <1>16,
     <1>17, <1>18 DEF Next, LineJob

LEMMA StepsHold == Spec => [](Idle /\ StepsDue)
<1>1. Init => Idle /\ StepsDue
  <2> SUFFICES ASSUME Init PROVE Idle /\ StepsDue
    OBVIOUS
  <2>1. line = <<>> /\ \A x \in TaskId : inv[x].mode = "none" /\ inv[x].at = "none"
    BY DEF Init, NoInvocation
  <2> QED
    BY <2>1, SteplessJobs DEF Idle, StepsDue, Due, Stepless
<1>2. TypeOK /\ Left /\ Idle /\ StepsDue /\ [Next]_vars => (Idle /\ StepsDue)'
  BY StepsStep
<1> QED
  BY <1>1, <1>2, TypeCorrect, AbortsHold, PTL DEF Spec

\* No lost step: an invocation has exactly one step on the line before its first phase and
\* after a handler returned, and none otherwise (#start, #step).
THEOREM StepsQueued == Spec => []StepPromised
<1>1. TypeOK /\ StepsDue => StepPromised
  <2> SUFFICES ASSUME TypeOK, StepsDue, NEW t \in TaskId
               PROVE  Cardinality({i \in DOMAIN line : line[i].kind = "step" /\ line[i].task = t})
                        = IF inv[t].at \in {"first", "returned"} THEN 1 ELSE 0
    BY DEF StepPromised
  <2> DEFINE steps == {i \in DOMAIN line : line[i].kind = "step" /\ line[i].task = t}
  <2>1. DOMAIN line = 1 .. Len(line)
    BY LenProperties DEF TypeOK
  <2>2. CASE inv[t].at \in {"first", "returned"}
    <3>1. PICK i \in 1 .. Len(line) : \A j \in 1 .. Len(line) : IsStep(line[j], t) <=> j = i
      BY <2>2 DEF StepsDue, Due, OneStep
    <3>2. steps = {i}
      BY <2>1, <3>1 DEF IsStep
    <3> QED
      BY <2>2, <3>2, FS_Singleton
  <2>3. CASE inv[t].at \notin {"first", "returned"}
    <3>1. steps = {}
      BY <2>1, <2>3 DEF StepsDue, Due, NoStep, IsStep
    <3> QED
      BY <2>3, <3>1, FS_EmptySet
  <2> QED
    BY <2>2, <2>3
<1> QED
  BY <1>1, TypeCorrect, StepsHold, PTL

-----------------------------------------------------------------------------
(* Holders are ordered                                                     *)

\* What holds a task is older than it, and of two holders the older holds the younger.
Ordered(T) ==
  \A x \in TaskId : \A y \in T[x].holders :
    y < x /\ \A z \in T[x].holders : y < z => ~T[z].background /\ y \in T[z].holders

\* Tasks are created in the order of their IDs.
Minted == \A x, y \in TaskId : x < y /\ task[y].status # "unborn" => task[x].status # "unborn"

LEMMA OrderStep ==
  ASSUME TypeOK, TreeInv, Ordered(task), Minted, [Next]_vars
  PROVE  Ordered(task') /\ Minted'
<1>1. PICK T \in TaskTable : Staged(T) /\ Change(T, task')
  BY StepChanges
<1>t. \A x \in TaskId : x \in Nat /\ task[x].holders \subseteq TaskId
  BY DEF TypeOK, TaskRecord, TaskId
<1>2. \A x \in TaskId : T[x] = task[x] \/ (task[x].status = "unborn" /\ Hangs(T, x))
  BY <1>1 DEF Staged
<1>3. \A x \in TaskId : /\ task'[x].holders = T[x].holders /\ task'[x].background = T[x].background
                        /\ task'[x].status = "unborn" <=> T[x].status = "unborn"
  BY <1>1 DEF Change, Same, Keeps
<1>4. ASSUME NEW x \in TaskId, task[x].status = "unborn", Hangs(T, x), NEW y \in T[x].holders
      PROVE  /\ y \in TaskId /\ task[y].status # "unborn" /\ y < x
             /\ \A z \in T[x].holders : y < z => ~task[z].background /\ y \in task[z].holders
  <2>1. PICK up \in Owner : (up # None => task[up].status # "unborn") /\ T[x].holders = Holders(task, up)
    BY <1>4 DEF Hangs
  <2>2. up # None /\ up \in TaskId
    BY <1>4, <2>1 DEF Holders, Owner
  <2>3. T[x].holders = {up} \cup (IF task[up].background THEN {} ELSE task[up].holders)
    BY <2>1, <2>2 DEF Holders
  <2>4. \A z \in task[up].holders : z \in TaskId /\ task[z].status # "unborn" /\ z < up
    BY <1>t, <2>2 DEF TreeInv, Tree, Ordered
  <2>5. y \in TaskId /\ task[y].status # "unborn"
    BY <1>4, <2>1, <2>2, <2>3, <2>4
  <2>6. y < x
    <3>1. y # x /\ ~(x < y)
      BY <1>4, <2>5 DEF Minted
    <3> QED
      BY <1>t, <2>5, <3>1
  <2>7. ASSUME NEW z \in T[x].holders, y < z
        PROVE  ~task[z].background /\ y \in task[z].holders
    <3>1. CASE z = up
      BY <1>4, <1>t, <2>2, <2>3, <2>7, <3>1
    <3>2. CASE z # up
      <4>1. ~task[up].background /\ z \in task[up].holders /\ z < up
        BY <2>3, <2>4, <2>7, <3>2
      <4>2. y # up
        BY <1>t, <2>2, <2>4, <2>5, <2>7, <4>1
      <4>3. y \in task[up].holders
        BY <1>4, <2>3, <4>1, <4>2
      <4> QED
        BY <2>2, <2>7, <4>1, <4>3 DEF Ordered
    <3> QED
      BY <3>1, <3>2
  <2> QED
    BY <2>5, <2>6, <2>7
<1>5. ASSUME NEW x \in TaskId, NEW y \in T[x].holders
      PROVE  y < x /\ \A z \in T[x].holders : y < z => ~T[z].background /\ y \in T[z].holders
  <2>1. CASE T[x] = task[x]
    <3>1. \A z \in task[x].holders : z \in TaskId /\ task[z].status # "unborn"
      BY <1>t DEF TreeInv, Tree
    <3>2. \A z \in task[x].holders : T[z] = task[z]
      BY <1>2, <3>1
    <3> QED
      BY <1>5, <2>1, <3>2 DEF Ordered
  <2>2. CASE task[x].status = "unborn" /\ Hangs(T, x)
    <3>1. \A z \in T[x].holders : T[z] = task[z]
      BY <1>2, <1>4, <2>2
    <3> QED
      BY <1>4, <1>5, <2>2, <3>1
  <2> QED
    BY <1>2, <2>1, <2>2
<1>6. Ordered(task')
  <2>1. \A x \in TaskId : T[x].holders \subseteq TaskId
    BY DEF TaskTable, TaskRecord
  <2> QED
    BY <1>3, <1>5, <2>1 DEF Ordered
<1>7. ASSUME NEW x \in TaskId, NEW y \in TaskId, x < y, task'[y].status # "unborn"
      PROVE  task'[x].status # "unborn"
  <2>1. task[x].status # "unborn"
    <3>1. CASE task[y].status # "unborn"
      BY <1>7, <3>1 DEF Minted
    <3>2. CASE task[y].status = "unborn"
      <4>1. y \in NextTask
        BY <1>2, <1>3, <1>7, <3>2 DEF Hangs
      <4> QED
        BY <1>7, <4>1 DEF NextTask
    <3> QED
      BY <3>1, <3>2
  <2> QED
    BY <1>2, <1>3, <2>1
<1> QED
  BY <1>6, <1>7 DEF Minted

-----------------------------------------------------------------------------
(* What every step reports                                                 *)

\* Records r and s differ in nothing that a job looks for.
Alike(r, s) ==
  /\ Keeps(r, s) /\ s.status = r.status /\ s.outcome = r.outcome /\ s.mark = r.mark
  /\ r.status = "waiting" => s.on = r.on /\ s.policy = r.policy

\* A wait in table T is one that was committed before, or waits on tasks that exist.
WaitKept(T, x) ==
  T[x].status = "waiting" =>
    \/ task[x].status = "waiting" /\ T[x].on = task[x].on /\ T[x].policy = task[x].policy
    \/ task[x].status # "waiting" /\ \A m \in T[x].on : T[m].status # "unborn"

\* The step wrote the tasks Ch and took in the inputs Q, with R and F as candidates and checks
\* before, and its publication reports all it wrote.
Reports(Ch, Q, R, F) ==
  /\ \A x \in TaskId \ Ch : Alike(task[x], task'[x])
  /\ \A x \in Ch : WaitKept(task', x)
  /\ Track(task', Ch, R, F)
  /\ Range(Reconciles(task', Ch, Q)) \subseteq Range(line')

\* The jobs of a kind that were on the line are still on it.
Stay(kind) == \A job \in Range(line) : job.kind = kind => job \in Range(line')

\* Inputs are queued for conversations that exist, and owner links never change.
Inputs(Q) ==
  /\ queued' \subseteq queued \cup Q /\ Q \subseteq convs /\ convs \subseteq convs'
  /\ \A c \in convs : convOwner'[c] = convOwner[c]

\* A pass drops and takes candidates, all else keeps them and adds what stops running.
Candidates(R) ==
  /\ \A x \in TaskId : inv[x].mode # "none" /\ inv'[x].mode = "none" /\ Live(task, x) => x \in R
  /\ \/ runnable \subseteq R
     \/ /\ Reserve /\ R = runnable \ (Dropped \cup Taken)
        /\ \A x \in Taken : inv'[x].mode # "none"

\* A pass is queued; or nothing happened that one could take up.
Wakes == harness' = "running" => \E job \in Range(line') : job.kind = "reserve"
Rests ==
  /\ \A x \in TaskId : Alike(task[x], task'[x])
  /\ \A x \in TaskId : inv'[x].mode = "none" => inv[x].mode = "none"
  /\ installed' = installed /\ harness' = harness
  /\ Stay("reserve") \/ (Reserve /\ Orphans = {} /\ \A x \in Taken : inv'[x].mode # "none")

\* No invocation starts, ends or changes its mode.
SameModes == \A x \in TaskId : inv'[x].mode = inv[x].mode

LEMMA AlikeSame ==
  /\ \A r : Alike(r, r)
  /\ \A T, x : Alike(task[x], T[x]) => WaitKept(T, x)
  BY DEF Alike, Keeps, WaitKept

LEMMA FieldsAlike ==
  ASSUME NEW r \in TaskRecord, NEW mark \in Mark
  PROVE  /\ [r EXCEPT !.mark = mark].status = r.status
         /\ [r EXCEPT !.mark = mark].on = r.on /\ [r EXCEPT !.mark = mark].policy = r.policy
         /\ r.status = "running" => Alike(r, WithStatus(r, "running"))
  BY DEF Alike, Keeps, WithStatus, TaskRecord

\* The jobs on a line that grows or loses its head.
LEMMA LineJobs ==
  /\ Range(<<>>) = {}
  /\ \A job \in Job : Range(<<job>>) = {job}
  /\ \A L, M \in Seq(Job) : Range(L \o M) = Range(L) \cup Range(M)
  /\ \A L \in Seq(Job), job \in Job : Range(Append(L, job)) = Range(L) \cup {job}
  /\ \A L \in Seq(Job) : L # <<>> => Range(L) = {Head(L)} \cup Range(Tail(L))
<1>1. Range(<<>>) = {} /\ \A job \in Job : Range(<<job>>) = {job}
  BY DEF Range
<1>2. \A L, M \in Seq(Job) : Range(L \o M) = Range(L) \cup Range(M)
  BY RangeConcatenation
<1>3. ASSUME NEW L \in Seq(Job), NEW job \in Job PROVE Range(Append(L, job)) = Range(L) \cup {job}
  <2> DEFINE last == <<job>>
  <2>1. Append(L, job) = L \o last
    BY AppendIsConcat
  <2>2. last \in Seq(Job) /\ Range(last) = {job}
    BY <1>1
  <2> HIDE DEF last
  <2>3. Range(L \o last) = Range(L) \cup Range(last)
    BY <1>2, <2>2
  <2> QED
    BY <2>1, <2>2, <2>3
<1>4. ASSUME NEW L \in Seq(Job), L # <<>> PROVE Range(L) = {Head(L)} \cup Range(Tail(L))
  <2>1. /\ Len(L) \in Nat \ {0} /\ Head(L) = L[1] /\ Tail(L) \in Seq(Job) /\ Len(Tail(L)) = Len(L) - 1
        /\ \A i \in 1 .. Len(Tail(L)) : Tail(L)[i] = L[i + 1]
    BY <1>4, HeadTailProperties, EmptySeq
  <2>2. Range(L) = {L[i] : i \in 1 .. Len(L)} /\ Range(Tail(L)) = {Tail(L)[i] : i \in 1 .. Len(Tail(L))}
    <3>1. \A M \in Seq(Job) : Range(M) = {M[i] : i \in 1 .. Len(M)}
      BY RangeEquality
    <3> QED
      BY <2>1, <3>1
  <2>3. \A i \in 1 .. Len(L) : i = 1 \/ (i - 1 \in 1 .. Len(Tail(L)) /\ L[i] = Tail(L)[i - 1])
    BY <2>1
  <2>4. \A i \in 1 .. Len(Tail(L)) : i + 1 \in 1 .. Len(L) /\ Tail(L)[i] = L[i + 1]
    BY <2>1
  <2>5. ASSUME NEW job \in Range(L) PROVE job \in {Head(L)} \cup Range(Tail(L))
    <3>1. PICK i \in 1 .. Len(L) : job = L[i]
      BY <2>2
    <3> QED
      BY <2>1, <2>2, <2>3, <3>1
  <2>6. ASSUME NEW job \in {Head(L)} \cup Range(Tail(L)) PROVE job \in Range(L)
    <3>1. CASE job = Head(L)
      BY <2>1, <2>2, <3>1
    <3>2. ASSUME NEW i \in 1 .. Len(Tail(L)), job = Tail(L)[i] PROVE job \in Range(L)
      BY <2>2, <2>4, <3>2
    <3> QED
      BY <2>2, <2>6, <3>1, <3>2
  <2> QED
    BY <2>5, <2>6
<1> QED
  BY <1>1, <1>2, <1>3, <1>4

LEMMA OnLineJobs ==
  ASSUME NEW L \in Seq(Job), NEW kind
  PROVE  OnLine(kind, L) <=> \E job \in Range(L) : job.kind = kind
  BY DEF OnLine, Range

LEMMA KickReports ==
  ASSUME NEW L \in Seq(Job), Kick(L)
  PROVE  /\ Range(L) \subseteq Range(line')
         /\ harness = "running" => \E job \in Range(line') : job.kind = "reserve"
<1>1. CASE line' = L /\ (harness = "running" => OnLine("reserve", L))
  BY <1>1, OnLineJobs
<1>2. CASE line' = Append(L, ReserveJob)
  <2>1. Range(line') = Range(L) \cup {ReserveJob}
    BY <1>2, LineJobs, JobTypes
  <2>2. ReserveJob \in Range(line') /\ ReserveJob.kind = "reserve"
    BY <2>1 DEF ReserveJob
  <2> QED
    BY <2>1, <2>2
<1> QED
  BY <1>1, <1>2 DEF Kick

LEMMA PublishReports ==
  ASSUME TypeOK, NEW T \in TaskTable, NEW Ch \in SUBSET TaskId, NEW Q, NEW F, NEW L \in Seq(Job),
         Publish(T, Ch, Q, F, L),
         \A x \in TaskId \ Ch : Alike(task[x], T[x]), \A x \in Ch : WaitKept(T, x)
  PROVE  /\ Reports(Ch, Q, runnable, F) /\ Range(L) \subseteq Range(line')
         /\ Ch # {} /\ harness' = harness => Wakes
<1>1. Reconciles(T, Ch, Q) \in Seq(Job)
  BY ReconcilesType
<1>2. /\ L \o Reconciles(T, Ch, Q) \in Seq(Job)
      /\ Range(L \o Reconciles(T, Ch, Q)) = Range(L) \cup Range(Reconciles(T, Ch, Q))
  BY <1>1, ConcatProperties, LineJobs
<1>3. Range(L \o Reconciles(T, Ch, Q)) \subseteq Range(line')
  BY <1>2, KickReports DEF Publish
<1>4. Ch # {} /\ harness' = harness => Wakes
  BY <1>2, KickReports DEF Publish, Wakes
<1> QED
  BY <1>2, <1>3, <1>4 DEF Reports, Publish

LEMMA EndReports ==
  ASSUME TypeOK, NEW t \in TaskId, StepHead(t),
         NEW T \in TaskTable, NEW Ch \in SUBSET TaskId, NEW L \in Seq(Job), EndInvocation(t, T, Ch, L),
         \A x \in TaskId \ Ch : Alike(task[x], T[x]), \A x \in Ch : WaitKept(T, x), harness' = harness
  PROVE  \E R \in SUBSET TaskId :
           /\ Reports(Ch, {}, R, finalizeChecks) /\ Candidates(R)
           /\ Stay("reconcile") /\ Wakes
<1> DEFINE R == runnable \cup (IF Live(task, t) THEN {t} ELSE {})
<1>l. line \in Seq(Job) /\ line # <<>> /\ Tail(line) \in Seq(Job) /\ Reconciles(T, Ch, {}) \in Seq(Job)
  BY HeadTailProperties, ReconcilesType DEF TypeOK, StepHead, Head1
<1>1. /\ Tail(line) \o L \o Reconciles(T, Ch, {}) \in Seq(Job)
      /\ Range(Tail(line) \o L \o Reconciles(T, Ch, {}))
           = Range(Tail(line)) \cup Range(L) \cup Range(Reconciles(T, Ch, {}))
  <2> DEFINE rest == Tail(line) \o L
  <2>1. rest \in Seq(Job) /\ Range(rest) = Range(Tail(line)) \cup Range(L)
    BY <1>l, ConcatProperties, LineJobs
  <2> HIDE DEF rest
  <2>2. rest \o Reconciles(T, Ch, {}) \in Seq(Job)
    BY <1>l, <2>1, ConcatProperties
  <2>3. Range(rest \o Reconciles(T, Ch, {})) = Range(rest) \cup Range(Reconciles(T, Ch, {}))
    BY <1>l, <2>1, LineJobs
  <2> QED
    BY <2>1, <2>2, <2>3 DEF rest
<1>2. Range(Tail(line) \o L \o Reconciles(T, Ch, {})) \subseteq Range(line') /\ Wakes
  BY <1>1, KickReports DEF EndInvocation, Wakes
<1>3. Stay("reconcile")
  BY <1>l, <1>1, <1>2, LineJobs DEF Stay, StepHead, Head1
<1>4. Reports(Ch, {}, R, finalizeChecks)
  BY <1>1, <1>2 DEF Reports, EndInvocation
<1>5. Candidates(R)
  <2>1. \A x \in TaskId : x # t => inv'[x] = inv[x]
    BY DEF EndInvocation, TypeOK
  <2> QED
    BY <2>1 DEF Candidates
<1>6. R \in SUBSET TaskId
  BY DEF TypeOK
<1> QED
  BY <1>2, <1>3, <1>4, <1>5, <1>6

LEMMA QuietReports ==
  ASSUME TypeOK, task' = task, runnable' = runnable, finalizeChecks' = finalizeChecks
  PROVE  Reports({}, {}, runnable, finalizeChecks)
<1>1. Track(task', {}, runnable, finalizeChecks)
  BY DEF Track, Ended
<1>2. Reconciles(task', {}, {}) = <<>>
  BY DEF Reconciles, Cascades, Alarmed, Ended, Marked, Upgraded, HoldsFailure, QueuedBelow, BornBelow, Newborn
<1>3. Range(<<>>) = {}
  BY LineJobs
<1> QED
  BY <1>1, <1>2, <1>3, AlikeSame DEF Reports

\* What every step of a running Harness amounts to.
Summary(Ch, Q, R, F) ==
  /\ Reports(Ch, Q, R, F) /\ Inputs(Q) /\ Candidates(R)
  /\ Wakes \/ Rests
  /\ \/ F = finalizeChecks /\ Stay("reconcile")
     \/ Reconcile /\ F = {} /\ Range(Tail(line)) \subseteq Range(line')

LEMMA CommitReports ==
  ASSUME TypeOK, NEW T \in TaskTable, NEW Ch \in SUBSET TaskId, NEW Q,
         Publish(T, Ch, Q, finalizeChecks, line),
         \A x \in TaskId \ Ch : Alike(task[x], T[x]), \A x \in Ch : WaitKept(T, x),
         Inputs(Q), SameModes, harness' = harness, installed' = installed
  PROVE  Summary(Ch, Q, runnable, finalizeChecks)
<1>1. /\ Reports(Ch, Q, runnable, finalizeChecks) /\ Range(line) \subseteq Range(line')
      /\ Ch # {} => Wakes
  BY PublishReports DEF TypeOK
<1>2. Candidates(runnable)
  BY DEF Candidates, SameModes
<1>3. Ch = {} => Rests
  BY <1>1 DEF Reports, Rests, SameModes, Stay
<1> QED
  BY <1>1, <1>2, <1>3 DEF Summary, Stay

LEMMA QuietSummary ==
  ASSUME TypeOK, task' = task, runnable' = runnable, finalizeChecks' = finalizeChecks,
         queued' = queued, convs' = convs, convOwner' = convOwner, SameModes, Stay("reconcile"),
         Wakes \/ (installed' = installed /\ harness' = harness /\ Stay("reserve"))
  PROVE  Summary({}, {}, runnable, finalizeChecks)
  BY QuietReports, AlikeSame DEF Summary, Inputs, Candidates, SameModes, Rests

LEMMA DecideKeeps ==
  ASSUME NEW T \in TaskTable, NEW t \in TaskId, NEW outcome
  PROVE  /\ \A x \in TaskId : x # t => Decide(T, t, outcome)[x] = T[x]
         /\ WaitKept(Decide(T, t, outcome), t)
<1>1. T[t] \in TaskRecord
  BY DEF TaskTable
<1>2. Decide(T, t, outcome)[t].status # "waiting"
  BY <1>1, OutcomeFields DEF Decide, TaskTable
<1> QED
  BY <1>2 DEF Decide, TaskTable, WaitKept

LEMMA MarkKeeps ==
  ASSUME TypeOK, NEW S
  PROVE  /\ \A x \in TaskId \ S : MarkRequest(task, S)[x] = task[x]
         /\ \A x \in TaskId : WaitKept(MarkRequest(task, S), x)
<1>1. \A x \in TaskId : task[x] \in TaskRecord
  BY DEF TypeOK
<1>2. \A x \in TaskId : /\ MarkRequest(task, S)[x].status = task[x].status
                        /\ MarkRequest(task, S)[x].on = task[x].on
                        /\ MarkRequest(task, S)[x].policy = task[x].policy
  BY <1>1, FieldsAlike DEF MarkRequest, Mark
<1> QED
  BY <1>2 DEF MarkRequest, WaitKept

LEMMA StagedKeeps ==
  ASSUME TypeOK, NEW s \in {Nothing} \cup StagedTasks \cup StagedConvs
  PROVE  /\ \A x \in TaskId \ s.new : s.task[x] = task[x]
         /\ \A x \in s.new : task[x].status = "unborn" /\ s.task[x].status = "pending"
         /\ convs \subseteq s.convs /\ \A c \in convs : s.convOwner[c] = convOwner[c]
<1>1. CASE s = Nothing
  BY <1>1 DEF Nothing
<1>2. CASE s \in StagedTasks
  <2>1. PICK n \in NextTask : \E shape \in {shape \in TaskShapes[n] : ShapeAllowed(task, shape)} :
          s = [Nothing EXCEPT !.task = [task EXCEPT ![n] = Born(task, shape)],
                              !.new = {n}, !.owner = shape.owner]
    BY <1>2 DEF StagedTasks
  <2>2. PICK shape : s = [Nothing EXCEPT !.task = [task EXCEPT ![n] = Born(task, shape)],
                                         !.new = {n}, !.owner = shape.owner]
    BY <2>1
  <2>3. n \in TaskId /\ task[n].status = "unborn" /\ Born(task, shape).status = "pending"
    BY DEF NextTask, Born
  <2>4. /\ s.task = [task EXCEPT ![n] = Born(task, shape)] /\ s.new = {n}
        /\ s.convs = convs /\ s.convOwner = convOwner
    BY <2>2 DEF Nothing
  <2> QED
    BY <2>3, <2>4 DEF TypeOK
<1>3. CASE s \in StagedConvs
  <2>1. PICK c \in NextConv : \E o \in {o \in ConvShapes[c] : o # None => task[o].status # "unborn"} :
          s = [Nothing EXCEPT !.convs = convs \cup {c},
                              !.convOwner = [convOwner EXCEPT ![c] = o], !.owner = o]
    BY <1>3 DEF StagedConvs
  <2>2. PICK o : s = [Nothing EXCEPT !.convs = convs \cup {c},
                                     !.convOwner = [convOwner EXCEPT ![c] = o], !.owner = o]
    BY <2>1
  <2>3. c \in ConvId /\ c \notin convs
    BY DEF NextConv
  <2>4. /\ s.task = task /\ s.new = {}
        /\ s.convs = convs \cup {c} /\ s.convOwner = [convOwner EXCEPT ![c] = o]
    BY <2>2 DEF Nothing
  <2> QED
    BY <2>3, <2>4 DEF TypeOK
<1> QED
  BY <1>1, <1>2, <1>3

\* What task code leaves its task as, given table T with what its commit created.
LEMMA NextKeeps ==
  ASSUME TypeOK, NEW s \in {Nothing} \cup StagedTasks \cup StagedConvs,
         NEW t \in TaskId, task[t].status = "running", NEW next \in NextStates(s.task, t)
  PROVE  /\ \A x \in TaskId \ (s.new \cup next.wrote) : next.table[x] = task[x]
         /\ \A x \in s.new \cup next.wrote : WaitKept(next.table, x)
<1> DEFINE T == s.task
           Goal == /\ \A x \in TaskId \ (s.new \cup next.wrote) : next.table[x] = task[x]
                   /\ \A x \in s.new \cup next.wrote : WaitKept(next.table, x)
<1>1. /\ T \in TaskTable /\ s.new \in SUBSET TaskId
      /\ \A x \in TaskId \ s.new : T[x] = task[x]
      /\ \A x \in s.new : task[x].status = "unborn" /\ T[x].status = "pending"
  BY StagedType, StagedKeeps
<1> HIDE DEF T
<1>2. t \notin s.new /\ T[t] = task[t] /\ T[t] \in TaskRecord
  BY <1>1 DEF TaskTable
<1>3. ASSUME next.table = T, next.wrote \subseteq {t} PROVE Goal
  <2>1. \A x \in s.new : WaitKept(T, x)
    BY <1>1 DEF WaitKept
  <2>2. WaitKept(T, t)
    BY <1>2 DEF WaitKept
  <2> QED
    BY <1>1, <1>3, <2>1, <2>2
<1>4. ASSUME NEW U, next.table = U, next.wrote = {t}, \A x \in TaskId : x # t => U[x] = T[x], WaitKept(U, t)
      PROVE  Goal
  <2>1. \A x \in s.new : WaitKept(U, x)
    BY <1>1, <1>2, <1>4 DEF WaitKept
  <2> QED
    BY <1>1, <1>4, <2>1
<1>5. CASE next \in {[table |-> Decide(T, t, o), moved |-> inv[t].moved, wrote |-> {t}] :
                       o \in {"completed", "failed"}}
  <2>1. PICK o : next.table = Decide(T, t, o) /\ next.wrote = {t}
    BY <1>5
  <2> QED
    BY <1>1, <1>4, <2>1, DecideKeeps
<1>6. CASE next \in {[table |-> [T EXCEPT ![t] = [T[t] EXCEPT !.status = "waiting", !.on = w[1],
                                                              !.policy = w[2]]],
                      moved |-> inv[t].moved, wrote |-> {t}] :
                       w \in {v \in Waits : WaitAllowed(T, t, v[1], v[2])}}
  <2>1. PICK w \in Waits : /\ WaitAllowed(T, t, w[1], w[2])
                           /\ next = [table |-> [T EXCEPT ![t] = [T[t] EXCEPT !.status = "waiting", !.on = w[1],
                                                                              !.policy = w[2]]],
                                      moved |-> inv[t].moved, wrote |-> {t}]
    BY <1>6
  <2> DEFINE U == [T EXCEPT ![t] = [T[t] EXCEPT !.status = "waiting", !.on = w[1], !.policy = w[2]]]
  <2>2. next.table = U /\ next.wrote = {t}
    BY <2>1
  <2>3. \A x \in TaskId : x # t => U[x] = T[x]
    BY <1>1 DEF TaskTable
  <2>4. U[t].on = w[1] /\ U[t].status = "waiting"
    BY <1>1, <1>2 DEF TaskTable, TaskRecord
  <2>5. \A m \in w[1] : m \in TaskId /\ T[m].status # "unborn"
    BY <2>1, ShapesAssumption DEF WaitAllowed
  <2> HIDE DEF U
  <2>6. WaitKept(U, t)
    BY <2>3, <2>4, <2>5 DEF WaitKept
  <2> QED
    BY <1>4, <2>2, <2>3, <2>6
<1>7. CASE next \in {[table |-> T, moved |-> m, wrote |-> {t}] : m \in BOOLEAN}
  <2>1. next.table = T /\ next.wrote = {t}
    BY <1>7
  <2> QED
    BY <1>3, <2>1
<1>8. CASE next = [table |-> T, moved |-> inv[t].moved, wrote |-> {}]
  BY <1>3, <1>8
<1> QED
  BY <1>5, <1>6, <1>7, <1>8 DEF NextStates, T

LEMMA StepsSummary ==
  ASSUME TypeOK, NEW t \in TaskId, StepHead(t), StepFrame,
         NEW T \in TaskTable, NEW Ch \in SUBSET TaskId, NEW L \in Seq(Job), EndInvocation(t, T, Ch, L),
         \A x \in TaskId \ Ch : T[x] = task[x], \A x \in Ch : WaitKept(T, x)
  PROVE  \E R \in SUBSET TaskId : Summary(Ch, {}, R, finalizeChecks)
<1>1. PICK R \in SUBSET TaskId : /\ Reports(Ch, {}, R, finalizeChecks) /\ Candidates(R)
                                /\ Stay("reconcile") /\ Wakes
  BY EndReports, AlikeSame DEF StepFrame
<1>2. Inputs({})
  BY DEF Inputs, StepFrame
<1> QED
  BY <1>1, <1>2 DEF Summary

\* The jobs a pass leaves on the line.
LEMMA FiveRanges ==
  ASSUME NEW A \in Seq(Job), NEW B \in Seq(Job), NEW C \in Seq(Job), NEW D \in Seq(Job), NEW E \in Seq(Job)
  PROVE  Range(A \o B \o C \o D \o E) = Range(A) \cup Range(B) \cup Range(C) \cup Range(D) \cup Range(E)
<1>1. A \o B \in Seq(Job) /\ Range(A \o B) = Range(A) \cup Range(B)
  BY LineJobs, ConcatProperties
<1>2. \A X \in Seq(Job) : X \o C \in Seq(Job) /\ Range(X \o C) = Range(X) \cup Range(C)
  BY LineJobs, ConcatProperties
<1>3. \A X \in Seq(Job) : X \o D \in Seq(Job) /\ Range(X \o D) = Range(X) \cup Range(D)
  BY LineJobs, ConcatProperties
<1>4. \A X \in Seq(Job) : Range(X \o E) = Range(X) \cup Range(E)
  BY LineJobs
<1> DEFINE AB == A \o B
<1> HIDE DEF AB
<1>5. AB \o C \in Seq(Job) /\ Range(AB \o C) = Range(AB) \cup Range(C)
  BY <1>1, <1>2 DEF AB
<1> DEFINE ABC == AB \o C
<1> HIDE DEF ABC
<1>6. ABC \o D \in Seq(Job) /\ Range(ABC \o D) = Range(ABC) \cup Range(D)
  BY <1>3, <1>5 DEF ABC
<1>7. Range((ABC \o D) \o E) = Range(ABC \o D) \cup Range(E)
  BY <1>4, <1>6
<1> QED
  BY <1>1, <1>5, <1>6, <1>7 DEF AB, ABC

LEMMA ReserveSummary ==
  ASSUME TypeOK, Reserve
  PROVE  \E Ch \in SUBSET TaskId, R \in SUBSET TaskId : Summary(Ch, {}, R, finalizeChecks)
<1> DEFINE Ch == Orphans \cup {x \in Taken : task[x].status # "running"}
           T  == [x \in TaskId |->
                    IF x \in Orphans THEN WithOutcome(task[x], "terminal", "orphaned")
                    ELSE IF x \in Taken THEN WithStatus(task[x], "running") ELSE task[x]]
           mode == [x \in TaskId |-> IF task[x].mark = "none" THEN "run" ELSE "abort"]
           first == {x \in Taken : mode[x] = "run"}
           cascade == IF Held # {} THEN <<ReconcileJob(TRUE, {})>> ELSE <<>>
           again   == IF dirty \/ Ch # {} THEN <<ReserveJob>> ELSE <<>>
           R == runnable \ (Dropped \cup Taken)
<1>r. /\ Orphans \in SUBSET TaskId /\ Taken \in SUBSET TaskId /\ Ch \in SUBSET TaskId
      /\ R \in SUBSET TaskId /\ first \in SUBSET TaskId
  BY ReservationType DEF TypeOK
<1>t. /\ line \in Seq(Job) /\ line # <<>> /\ Head(line).kind = "reserve" /\ Tail(line) \in Seq(Job)
      /\ \A x \in TaskId : task[x] \in TaskRecord
  BY HeadTailProperties DEF TypeOK, Reserve, Head1
<1>1. PICK steps \in Orders(first) :
        line' = Tail(line) \o cascade \o Reconciles(T, Ch, {})
                \o [i \in DOMAIN steps |-> StepJob(steps[i])] \o again
  BY DEF Reserve
<1> DEFINE L == [i \in DOMAIN steps |-> StepJob(steps[i])]
<1>2. task' = T /\ Track(T, Ch, R, finalizeChecks)
  BY DEF Reserve
<1>3. \A x \in Taken : inv'[x].mode # "none"
  <2>1. \A x \in Taken : inv'[x] = [NoInvocation EXCEPT !.mode = mode[x], !.at = IF mode[x] = "run" THEN "first" ELSE "handler"]
    BY <1>r DEF Reserve
  <2>2. \A x \in Taken : inv'[x].mode = mode[x]
    BY <2>1 DEF NoInvocation
  <2> QED
    BY <1>r, <2>2
<1>4. \A x \in TaskId \ Taken : inv'[x] = inv[x]
  BY DEF Reserve
<1>5. \A x \in TaskId \ Ch : Alike(task[x], T[x])
  <2> SUFFICES ASSUME NEW x \in TaskId \ Ch PROVE Alike(task[x], T[x])
    OBVIOUS
  <2>1. CASE x \in Taken
    <3>1. task[x].status = "running" /\ T[x] = WithStatus(task[x], "running")
      BY <2>1
    <3>2. Mark # {}
      BY DEF Mark
    <3> QED
      BY <1>t, <3>1, <3>2, FieldsAlike
  <2>2. CASE x \notin Taken
    BY <2>2, AlikeSame
  <2> QED
    BY <2>1, <2>2
<1>6. \A x \in Ch : WaitKept(T, x)
  <2> SUFFICES ASSUME NEW x \in Ch PROVE WaitKept(T, x)
    OBVIOUS
  <2>1. T[x].status # "waiting"
    BY <1>r, <1>t, OutcomeFields, StatusFields
  <2> QED
    BY <2>1 DEF WaitKept
<1>7. Range(line') = Range(Tail(line)) \cup Range(cascade) \cup Range(Reconciles(T, Ch, {}))
                      \cup Range(L) \cup Range(again)
  <2>1. cascade \in Seq(Job) /\ again \in Seq(Job) /\ Reconciles(T, Ch, {}) \in Seq(Job)
    BY LineTypes, ReconcilesType
  <2>2. L \in Seq(Job)
    BY <1>r, OrdersType
  <2> HIDE DEF T, Ch, cascade, again, L, first, mode
  <2>3. line' = Tail(line) \o cascade \o Reconciles(T, Ch, {}) \o L \o again
    BY <1>1 DEF L
  <2> DEFINE A == Tail(line)
             C == Reconciles(T, Ch, {})
  <2>4. A \in Seq(Job) /\ C \in Seq(Job)
    BY <1>t, <2>1
  <2> HIDE DEF A, C
  <2>5. Range(A \o cascade \o C \o L \o again)
          = Range(A) \cup Range(cascade) \cup Range(C) \cup Range(L) \cup Range(again)
    BY <2>1, <2>2, <2>4, FiveRanges
  <2> QED
    BY <2>3, <2>5 DEF A, C
<1>8. /\ Stay("reconcile")
      /\ Ch # {} \/ dirty => Wakes
  <2>1. Range(line) = {Head(line)} \cup Range(Tail(line))
    BY <1>t, LineJobs
  <2>2. Ch # {} \/ dirty => again = <<ReserveJob>>
    OBVIOUS
  <2> HIDE DEF again
  <2>3. Range(<<ReserveJob>>) = {ReserveJob} /\ ReserveJob.kind = "reserve"
    BY LineJobs, JobTypes DEF ReserveJob
  <2>4. Ch # {} \/ dirty => ReserveJob \in Range(line') /\ ReserveJob.kind = "reserve"
    BY <1>7, <2>2, <2>3
  <2> QED
    BY <1>t, <1>7, <2>1, <2>4 DEF Stay, Wakes
<1>9. Candidates(R)
  BY <1>3, <1>4 DEF Candidates
<1> HIDE DEF T, Ch, cascade, again, L, first, mode, R
<1>10. Reports(Ch, {}, R, finalizeChecks)
  BY <1>2, <1>5, <1>6, <1>7 DEF Reports
<1>11. Ch = {} => Rests
  <2>1. Orphans = {} <=> Orphans = {}
    OBVIOUS
  <2>2. Ch = {} => Orphans = {} /\ \A x \in TaskId : Alike(task[x], task'[x])
    BY <1>2, <1>5 DEF Ch
  <2>3. installed' = installed /\ harness' = harness
    BY DEF Reserve
  <2> QED
    BY <1>3, <1>4, <2>2, <2>3 DEF Rests
<1>12. Inputs({})
  BY DEF Inputs, Reserve
<1> QED
  BY <1>r, <1>8, <1>9, <1>10, <1>11, <1>12 DEF Summary

\* What a reconcile makes of a task's record: a mark and an end, nothing else.
LEMMA ReconcileRecord ==
  ASSUME TypeOK, Reconcile, NEW x \in TaskId
  PROVE  LET M == Reconciled(Head(line).checks)
         IN /\ M \in TaskTable /\ Keeps(task[x], M[x]) /\ M[x].status = task[x].status
            /\ M[x].on = task[x].on /\ M[x].policy = task[x].policy
            /\ Keeps(task[x], task'[x]) /\ task'[x].mark = M[x].mark
            /\ task'[x].on = task[x].on /\ task'[x].policy = task[x].policy
            /\ task'[x].status = IF Finalizable(M, x) THEN "terminal" ELSE task[x].status
            /\ task'[x].outcome = task[x].outcome
<1> DEFINE M == Reconciled(Head(line).checks)
<1>1. M \in TaskTable
  BY ReconciledType
<1>2. /\ Keeps(task[x], M[x]) /\ M[x].status = task[x].status /\ M[x].outcome = task[x].outcome
      /\ M[x].on = task[x].on /\ M[x].policy = task[x].policy
  <2>1. task[x] \in TaskRecord
    BY DEF TypeOK
  <2> QED
    BY <2>1 DEF Reconciled, TaskRecord, Keeps
<1>3. task'[x] = IF Finalizable(M, x) THEN [M[x] EXCEPT !.status = "terminal"] ELSE M[x]
  BY DEF Reconcile, Publish
<1> HIDE DEF M
<1>4. LET r == IF Finalizable(M, x) THEN [M[x] EXCEPT !.status = "terminal"] ELSE M[x]
      IN /\ Keeps(task[x], r) /\ r.mark = M[x].mark /\ r.outcome = task[x].outcome
         /\ r.on = task[x].on /\ r.policy = task[x].policy
         /\ r.status = IF Finalizable(M, x) THEN "terminal" ELSE task[x].status
  <2>1. M[x] \in TaskRecord
    BY <1>1 DEF TaskTable
  <2> QED
    BY <1>2, <2>1 DEF TaskRecord, Keeps
<1> QED
  BY <1>1, <1>2, <1>3, <1>4 DEF M

LEMMA ReconcileSummary ==
  ASSUME TypeOK, TypeOK', Reconcile
  PROVE  \E Ch \in SUBSET TaskId : Summary(Ch, {}, runnable, {})
<1> DEFINE Ch == {x \in TaskId : task'[x] # task[x]}
<1>t. /\ line \in Seq(Job) /\ line # <<>> /\ Head(line).kind = "reconcile" /\ Tail(line) \in Seq(Job)
      /\ task' \in TaskTable
  BY HeadTailProperties DEF TypeOK, TaskTable, Reconcile, Head1
<1>1. Publish(task', Ch, {}, {}, Tail(line))
  <2>1. PICK T : Publish(T, {x \in TaskId : T[x] # task[x]}, {}, {}, Tail(line))
    BY DEF Reconcile
  <2>2. task' = T
    BY <2>1 DEF Publish
  <2> QED
    BY <2>1, <2>2
<1>2. \A x \in TaskId : WaitKept(task', x)
  <2>1. \A x \in TaskId : /\ task'[x].status = "terminal" \/ task'[x].status = task[x].status
                          /\ task'[x].on = task[x].on /\ task'[x].policy = task[x].policy
    BY ReconcileRecord
  <2> QED
    BY <2>1 DEF WaitKept
<1>3. \A x \in TaskId \ Ch : Alike(task[x], task'[x])
  BY AlikeSame
<1> HIDE DEF Ch
<1>4. Ch \in SUBSET TaskId /\ harness' = harness /\ inv' = inv /\ installed' = installed
  BY DEF Ch, Reconcile
<1>5. /\ Reports(Ch, {}, runnable, {}) /\ Range(Tail(line)) \subseteq Range(line')
      /\ Ch # {} => Wakes
  BY <1>t, <1>1, <1>2, <1>3, <1>4, PublishReports
<1>6. Ch = {} => Rests
  <2>1. Stay("reserve")
    BY <1>t, <1>5, LineJobs DEF Stay
  <2> QED
    BY <1>3, <1>4, <2>1 DEF Rests
<1>7. Inputs({})
  BY DEF Inputs, Reconcile
<1>8. Candidates(runnable)
  BY <1>4 DEF Candidates
<1> QED
  BY <1>4, <1>5, <1>6, <1>7, <1>8 DEF Summary

LEMMA AbandonedSummary ==
  ASSUME TypeOK, TypeOK', ReserveAbandoned
  PROVE  \E Ch \in SUBSET TaskId : Summary(Ch, {}, runnable, finalizeChecks)
<1> DEFINE Ch == {x \in abandoned : Live(task, x) /\ task[x].mark = "none"}
           T  == [x \in TaskId |-> IF x \in Ch THEN [task[x] EXCEPT !.mark = "restart"] ELSE task[x]]
<1>t. /\ line \in Seq(Job) /\ line # <<>> /\ Head(line).kind = "reserve" /\ Tail(line) \in Seq(Job)
      /\ Ch \in SUBSET TaskId /\ \A x \in TaskId : task[x] \in TaskRecord
  BY HeadTailProperties DEF TypeOK, ReserveAbandoned, Head1
<1>1. /\ task' = T /\ Track(T, Ch, runnable, finalizeChecks)
      /\ line' = Append(Tail(line) \o Reconciles(T, Ch, {}), ReserveJob)
  BY DEF ReserveAbandoned
<1>2. \A x \in TaskId \ Ch : Alike(task[x], T[x])
  BY AlikeSame
<1>3. \A x \in Ch : WaitKept(T, x)
  <2>1. \A x \in Ch : /\ T[x].status = task[x].status /\ T[x].on = task[x].on
                      /\ T[x].policy = task[x].policy
    BY <1>t, FieldsAlike DEF Mark
  <2> QED
    BY <2>1 DEF WaitKept
<1> HIDE DEF T, Ch
<1>4. Range(line') = Range(Tail(line)) \cup Range(Reconciles(T, Ch, {})) \cup {ReserveJob}
  <2>1. Reconciles(T, Ch, {}) \in Seq(Job)
    BY ReconcilesType
  <2>2. /\ Tail(line) \o Reconciles(T, Ch, {}) \in Seq(Job)
        /\ Range(Tail(line) \o Reconciles(T, Ch, {})) = Range(Tail(line)) \cup Range(Reconciles(T, Ch, {}))
    BY <1>t, <2>1, ConcatProperties, LineJobs
  <2> DEFINE front == Tail(line) \o Reconciles(T, Ch, {})
  <2> HIDE DEF front
  <2>3. front \in Seq(Job) /\ line' = Append(front, ReserveJob) /\ ReserveJob \in Job
    BY <1>1, <2>2, JobTypes DEF front
  <2>4. Range(line') = Range(front) \cup {ReserveJob}
    BY <2>3, LineJobs
  <2> QED
    BY <2>2, <2>4 DEF front
<1>5. Reports(Ch, {}, runnable, finalizeChecks)
  BY <1>1, <1>2, <1>3, <1>4 DEF Reports
<1>6. Stay("reconcile") /\ Wakes
  <2>1. Range(line) = {Head(line)} \cup Range(Tail(line))
    BY <1>t, LineJobs
  <2>2. ReserveJob \in Range(line') /\ ReserveJob.kind = "reserve"
    BY <1>4 DEF ReserveJob
  <2>3. Range(Tail(line)) \subseteq Range(line')
    BY <1>4
  <2> QED
    BY <1>t, <2>1, <2>2, <2>3 DEF Stay, Wakes
<1>7. Inputs({}) /\ Candidates(runnable)
  BY DEF Inputs, Candidates, ReserveAbandoned
<1> QED
  BY <1>t, <1>5, <1>6, <1>7 DEF Summary

\* Every step of an open Harness reports all it wrote.
LEMMA StepReports ==
  ASSUME TypeOK, TypeOK', Left, [Next]_vars, harness # "down", harness' # "down"
  PROVE  \E Ch \in SUBSET TaskId, Q \in SUBSET ConvId, R \in SUBSET TaskId, F \in SUBSET TaskId :
           Summary(Ch, Q, R, F)
<1> DEFINE Goal == \E Ch \in SUBSET TaskId, Q \in SUBSET ConvId, R \in SUBSET TaskId, F \in SUBSET TaskId :
                     Summary(Ch, Q, R, F)
<1>t. /\ line \in Seq(Job) /\ runnable \in SUBSET TaskId /\ finalizeChecks \in SUBSET TaskId
      /\ \A x \in TaskId : task[x] \in TaskRecord /\ inv[x] \in Invocation
      /\ task' \in TaskTable /\ inv \in [TaskId -> Invocation] /\ task \in TaskTable /\ {} \in SUBSET TaskId
  BY DEF TypeOK, TaskTable
<1>g. ASSUME NEW Ch \in SUBSET TaskId, NEW Q \in SUBSET ConvId, NEW R \in SUBSET TaskId,
             Summary(Ch, Q, R, finalizeChecks)
      PROVE  Goal
  BY <1>t, <1>g
<1>u. ASSUME inv' = inv PROVE SameModes
  BY <1>u DEF SameModes
<1>c. ASSUME NEW T \in TaskTable, NEW Ch \in SUBSET TaskId, NEW Q \in SUBSET ConvId,
             Publish(T, Ch, Q, finalizeChecks, line),
             \A x \in TaskId \ Ch : Alike(task[x], T[x]), \A x \in Ch : WaitKept(T, x),
             Inputs(Q), SameModes, harness' = harness, installed' = installed
      PROVE  Goal
  <2>1. Summary(Ch, Q, runnable, finalizeChecks)
    BY <1>c, CommitReports
  <2> QED
    BY <1>g, <1>t, <2>1
<1>1. CASE HostCreate
  <2>1. PICK s \in StagedTasks \cup StagedConvs :
          /\ convs' = s.convs /\ convOwner' = s.convOwner
          /\ Publish(s.task, s.new, {}, finalizeChecks, line)
    BY <1>1 DEF HostCreate
  <2>2. /\ s.task \in TaskTable /\ s.new \in SUBSET TaskId
        /\ \A x \in TaskId \ s.new : Alike(task[x], s.task[x])
        /\ \A x \in s.new : WaitKept(s.task, x)
    BY StagedType, StagedKeeps, AlikeSame DEF WaitKept
  <2>3. Inputs({})
    BY <1>1, <2>1, StagedKeeps DEF HostCreate, Inputs
  <2> QED
    BY <1>1, <1>c, <1>u, <2>1, <2>2, <2>3 DEF HostCreate
<1>2. CASE Submit
  <2>1. PICK c \in (Inboxes \cap convs) \ queued :
          queued' = queued \cup {c} /\ Publish(task, {}, {c}, finalizeChecks, line)
    BY <1>2 DEF Submit
  <2>2. Inputs({c}) /\ {c} \in SUBSET ConvId
    BY <1>2, <2>1 DEF Submit, Inputs, TypeOK
  <2> QED
    BY <1>2, <1>c, <1>t, <1>u, <2>1, <2>2, AlikeSame DEF Submit
<1>3. ASSUME NEW x \in TaskId, NEW keepRestart, AbortTask(x, keepRestart) PROVE Goal
  <2>1. Inputs({})
    BY <1>3 DEF AbortTask, Inputs
  <2>2. {x} \in SUBSET TaskId /\ SameModes /\ harness' = harness /\ installed' = installed
    BY <1>3, <1>u DEF AbortTask
  <2>3. CASE Publish(Decide(task, x, "orphaned"), {x}, {}, finalizeChecks, line)
    <3>1. /\ \A y \in TaskId \ {x} : Alike(task[y], Decide(task, x, "orphaned")[y])
          /\ \A y \in {x} : WaitKept(Decide(task, x, "orphaned"), y)
      BY <1>t, DecideKeeps, AlikeSame
    <3>2. Decide(task, x, "orphaned") \in TaskTable
      BY <1>t, DecideType DEF Outcome
    <3> QED
      BY <1>c, <2>1, <2>2, <2>3, <3>1, <3>2
  <2>4. CASE Publish(MarkRequest(task, {x}), {x}, {}, finalizeChecks, line)
    <3>1. /\ \A y \in TaskId \ {x} : Alike(task[y], MarkRequest(task, {x})[y])
          /\ \A y \in {x} : WaitKept(MarkRequest(task, {x}), y)
      BY MarkKeeps, AlikeSame
    <3>2. MarkRequest(task, {x}) \in TaskTable
      BY <2>2, MarkRequestType
    <3> QED
      BY <1>c, <2>1, <2>2, <2>4, <3>1, <3>2
  <2> QED
    BY <1>3, <2>3, <2>4 DEF AbortTask
<1>4. ASSUME NEW c, NEW cross, AbortConversation(c, cross) PROVE Goal
  <2>1. PICK S \in SUBSET TaskId : /\ Publish(MarkRequest(task, S), S, {}, finalizeChecks, line)
                                  /\ queued' \subseteq queued
    BY <1>4 DEF AbortConversation
  <2>2. Inputs({}) /\ SameModes /\ harness' = harness /\ installed' = installed
    BY <1>4, <1>u, <2>1 DEF AbortConversation, Inputs
  <2>3. /\ \A y \in TaskId \ S : Alike(task[y], MarkRequest(task, S)[y])
        /\ \A y \in S : WaitKept(MarkRequest(task, S), y)
    BY MarkKeeps, AlikeSame
  <2>4. MarkRequest(task, S) \in TaskTable
    BY MarkRequestType
  <2> QED
    BY <1>c, <2>1, <2>2, <2>3, <2>4
<1>5. ASSUME NEW t \in TaskId, RuntimeCommit(t) PROVE Goal
  <2>1. PICK s \in {Nothing} \cup StagedTasks \cup StagedConvs : \E next \in NextStates(s.task, t) :
          /\ convs' = s.convs /\ convOwner' = s.convOwner
          /\ inv' = [inv EXCEPT ![t].moved = next.moved]
          /\ Publish(next.table, s.new \cup next.wrote, {}, finalizeChecks, line)
    BY <1>5 DEF RuntimeCommit
  <2>2. PICK next \in NextStates(s.task, t) :
          /\ convs' = s.convs /\ convOwner' = s.convOwner
          /\ inv' = [inv EXCEPT ![t].moved = next.moved]
          /\ Publish(next.table, s.new \cup next.wrote, {}, finalizeChecks, line)
    BY <2>1
  <2>3. s.task \in TaskTable /\ s.new \in SUBSET TaskId
    BY StagedType
  <2>4. next.table \in TaskTable /\ next.wrote \in SUBSET TaskId
    BY <2>3, NextStatesType
  <2>5. /\ \A x \in TaskId \ (s.new \cup next.wrote) : Alike(task[x], next.table[x])
        /\ \A x \in s.new \cup next.wrote : WaitKept(next.table, x)
    BY <1>5, NextKeeps, AlikeSame DEF RuntimeCommit
  <2>6. Inputs({}) /\ harness' = harness /\ installed' = installed
    BY <1>5, <2>2, StagedKeeps DEF RuntimeCommit, Inputs
  <2>7. SameModes
    BY <1>t, <2>2 DEF SameModes, Invocation
  <2>8. s.new \cup next.wrote \in SUBSET TaskId
    BY <2>3, <2>4
  <2> QED
    BY <1>c, <2>2, <2>4, <2>5, <2>6, <2>7, <2>8
<1>6. ASSUME NEW t \in TaskId, HandlerReturn(t) PROVE Goal
  <2>1. SameModes
    BY <1>6, <1>t DEF HandlerReturn, SameModes, Invocation
  <2>2. Stay("reconcile") /\ Stay("reserve")
    BY <1>6, <1>t, LineJobs, JobTypes DEF HandlerReturn, Stay
  <2> QED
    BY <1>6, <1>g, <1>t, <2>1, <2>2, QuietSummary DEF HandlerReturn
<1>7. ASSUME NEW t \in TaskId, StepHead(t), StepFrame, NEW T \in TaskTable, NEW Ch \in SUBSET TaskId,
             NEW L \in Seq(Job), EndInvocation(t, T, Ch, L),
             \A x \in TaskId \ Ch : T[x] = task[x], \A x \in Ch : WaitKept(T, x)
      PROVE  Goal
  BY <1>7, <1>g, StepsSummary
<1>8. ASSUME NEW t \in TaskId
      PROVE  /\ Decide(task, t, "faulted") \in TaskTable
             /\ \A x \in TaskId \ {t} : Decide(task, t, "faulted")[x] = task[x]
             /\ \A x \in {t} : WaitKept(Decide(task, t, "faulted"), x)
  BY <1>t, DecideType, DecideKeeps DEF Outcome
<1>9. ASSUME NEW t \in TaskId, RunStep(t) PROVE Goal
  <2>1. StepHead(t) /\ StepFrame /\ {t} \in SUBSET TaskId /\ <<ReconcileJob(TRUE, {})>> \in Seq(Job) /\ <<>> \in Seq(Job)
    BY <1>9, LineTypes DEF RunStep
  <2>2. CASE EndInvocation(t, task, {}, <<>>) \/ EndInvocation(t, task, {}, <<ReconcileJob(TRUE, {})>>)
    BY <1>7, <1>t, <2>1, <2>2
  <2>3. CASE EndInvocation(t, Decide(task, t, "faulted"), {t}, <<>>)
    BY <1>7, <1>8, <2>1, <2>3
  <2>4. CASE EndInvocation(t, [task EXCEPT ![t] = WithStatus(task[t], "pending")], {t}, <<>>)
    <3> DEFINE T == [task EXCEPT ![t] = WithStatus(task[t], "pending")]
    <3>1. WithStatus(task[t], "pending") \in TaskRecord /\ T[t].status = "pending"
      BY <1>t, OutcomeType, StatusFields DEF Status, Outcome, TaskTable
    <3>2. T \in TaskTable /\ \A x \in TaskId \ {t} : T[x] = task[x]
      BY <1>t, <3>1 DEF TaskTable
    <3>3. \A x \in {t} : WaitKept(T, x)
      BY <3>1 DEF WaitKept
    <3> HIDE DEF T
    <3>4. EndInvocation(t, T, {t}, <<>>)
      BY <2>4 DEF T
    <3> QED
      BY <1>7, <2>1, <3>2, <3>3, <3>4
  <2>5. CASE /\ inv' = [inv EXCEPT ![t].at = "handler", ![t].moved = FALSE, ![t].failed = FALSE]
             /\ line' = Tail(line) /\ UNCHANGED <<task, runnable, finalizeChecks, dirty>>
    <3>1. SameModes
      BY <1>t, <2>5 DEF SameModes, Invocation
    <3>2. Stay("reconcile") /\ Stay("reserve")
      BY <1>t, <2>1, <2>5, LineJobs DEF Stay, StepHead, Head1
    <3> QED
      BY <1>g, <1>t, <2>1, <2>5, <3>1, <3>2, QuietSummary DEF StepFrame
  <2> QED
    BY <1>9, <2>2, <2>3, <2>4, <2>5 DEF RunStep
<1>10. ASSUME NEW t \in TaskId, AbortStep(t) PROVE Goal
  <2>1. StepHead(t) /\ StepFrame /\ {t} \in SUBSET TaskId /\ <<>> \in Seq(Job)
    BY <1>10, LineTypes DEF AbortStep
  <2>2. CASE EndInvocation(t, task, {}, <<>>)
    BY <1>7, <1>t, <2>1, <2>2
  <2>3. CASE EndInvocation(t, Decide(task, t, "faulted"), {t}, <<>>)
    BY <1>7, <1>8, <2>1, <2>3
  <2> QED
    BY <1>10, <2>2, <2>3 DEF AbortStep
<1>11. CASE ReserveAbandoned
  BY <1>11, <1>g, <1>t, AbandonedSummary
<1>12. CASE Reserve
  BY <1>12, <1>g, ReserveSummary
<1>13. CASE Reconcile
  BY <1>13, <1>t, ReconcileSummary
<1>14. CASE Resume
  <2>1. Range(line') = Range(line) \cup {ReserveJob}
    BY <1>14, <1>t, LineJobs, JobTypes DEF Resume
  <2>2. ReserveJob \in Range(line') /\ ReserveJob.kind = "reserve"
    BY <2>1 DEF ReserveJob
  <2>3. Stay("reconcile") /\ Wakes
    BY <2>1, <2>2 DEF Stay, Wakes
  <2> QED
    BY <1>14, <1>g, <1>t, <1>u, <2>3, QuietSummary DEF Resume
<1>15. CASE RegistryChange
  <2>1. SameModes
    <3>1. \A x \in TaskId : inv'[x] = inv[x] \/ inv'[x] = [inv[x] EXCEPT !.stale = TRUE]
      BY <1>15 DEF RegistryChange
    <3> QED
      BY <1>t, <3>1 DEF SameModes, Invocation
  <2>2. Stay("reconcile") /\ Wakes
    BY <1>15, <1>t, KickReports DEF RegistryChange, Stay, Wakes
  <2> QED
    BY <1>15, <1>g, <1>t, <2>1, <2>2, QuietSummary DEF RegistryChange
<1>16. CASE UNCHANGED vars
  <2>1. Stay("reconcile") /\ Stay("reserve")
    BY <1>16 DEF vars, Stay
  <2> QED
    BY <1>16, <1>g, <1>t, <1>u, <2>1, QuietSummary DEF vars
<1>17. ~Open /\ ~Stop
  BY DEF Open, Stop
<1> QED
  BY <1>1, <1>2, <1>3, <1>4, <1>5, <1>6, <1>9, <1>10, <1>11, <1>12, <1>13, <1>14, <1>15, <1>16, <1>17,
     ShapesAssumption DEF Next, LineJob

-----------------------------------------------------------------------------
(* What a step makes of the records                                        *)

\* What the other theorems have established of the committed records.
Ground == TypeOK /\ TreeInv /\ Shapes /\ Ordered(task)

\* The reconcile a publication calls for is on the line after it.
LEMMA Reported ==
  ASSUME NEW Ch \in SUBSET TaskId, NEW Q, NEW R, NEW F, Reports(Ch, Q, R, F)
  PROVE  /\ \/ Cascades(task', Ch, Q)
            \/ Alarmed(task', Ch) # {}
            \/ {x \in Ch : task'[x].status = "completing" /\ task[x].status # "completing"} # {}
            \/ Ended(task', Ch) # {}
            => \E job \in Range(line') : job.kind = "reconcile"
         /\ Cascades(task', Ch, Q) => \E job \in Range(line') : job.kind = "reconcile" /\ job.cascade
         /\ \A w \in Alarmed(task', Ch) : \E job \in Range(line') : job.kind = "reconcile" /\ w \in job.checks
<1> DEFINE holds == {x \in Ch : task'[x].status = "completing" /\ task[x].status # "completing"}
           job == ReconcileJob(Cascades(task', Ch, Q), Alarmed(task', Ch))
           called == \/ Cascades(task', Ch, Q) \/ Alarmed(task', Ch) # {}
                     \/ holds # {} \/ Ended(task', Ch) # {}
<1>1. called => Reconciles(task', Ch, Q) = <<job>>
  BY DEF Reconciles
<1>2. job \in Job
  <2>1. Cascades(task', Ch, Q) \in BOOLEAN /\ Alarmed(task', Ch) \in SUBSET TaskId
    BY DEF Cascades, Alarmed
  <2> QED
    BY <2>1, JobTypes
<1>3. job.kind = "reconcile" /\ job.cascade = Cascades(task', Ch, Q) /\ job.checks = Alarmed(task', Ch)
  BY DEF ReconcileJob
<1>4. Range(Reconciles(task', Ch, Q)) \subseteq Range(line')
  BY DEF Reports
<1> HIDE DEF job
<1>5. called => job \in Range(line')
  <2>1. Range(<<job>>) = {job}
    BY <1>2, LineJobs
  <2> QED
    BY <1>1, <1>4, <2>1
<1> QED
  BY <1>3, <1>5

\* A step keeps the fields of a task's creation, brings none back and lets decisions and marks stand.
LEMMA RecordStep ==
  ASSUME Ground, [Next]_vars, NEW x \in TaskId
  PROVE  /\ task[x].status # "unborn" =>
              Keeps(task[x], task'[x]) /\ task'[x].status # "unborn" /\ (Live(task', x) => Live(task, x))
         /\ task[x].mark = "request" => task'[x].mark = "request"
         /\ task[x].mark = "restart" => task'[x].mark # "none"
         /\ FailedOutcome(task[x]) => FailedOutcome(task'[x])
         /\ task[x].status = "completing" /\ task'[x].status = "completing" => task'[x].outcome = task[x].outcome
         /\ Shaped(task'[x])
<1>1. Shapes' /\ Final(task[x], task'[x]) /\ Written(task[x], task'[x])
  BY StepFinal, StepWrites DEF Ground, Writes
<1>2. task[x].status # "unborn" =>
        Keeps(task[x], task'[x]) /\ task'[x].status # "unborn" /\ (Live(task', x) => Live(task, x))
  BY TaskStays DEF Ground
<1>3. task[x].status = "completing" /\ task'[x].status = "completing" => task'[x].outcome = task[x].outcome
  BY <1>1 DEF Written, Undone
<1>4. FailedOutcome(task[x]) => FailedOutcome(task'[x])
  BY <1>1 DEF Final, FailedOutcome
<1> QED
  BY <1>1, <1>2, <1>3, <1>4 DEF Final, Shapes

LEMMA AlikeFacts ==
  ASSUME NEW x \in TaskId, Alike(task[x], task'[x])
  PROVE  /\ Live(task', x) <=> Live(task, x)
         /\ FailedOutcome(task'[x]) <=> FailedOutcome(task[x])
         /\ Intent(task', x) <=> Intent(task, x)
         /\ task'[x].status = task[x].status /\ task'[x].mark = task[x].mark
  BY DEF Alike, Live, FailedOutcome, Intent

\* A task that stops being live has ended in the step.
LEMMA EndsInStep ==
  ASSUME Ground, [Next]_vars, NEW Ch \in SUBSET TaskId, \A y \in TaskId \ Ch : Alike(task[y], task'[y]),
         NEW x \in TaskId, Live(task, x), ~Live(task', x)
  PROVE  x \in Ended(task', Ch)
<1>1. x \in Ch
  BY AlikeFacts
<1>2. task[x].status # "unborn" /\ task'[x].status # "unborn"
  BY RecordStep DEF Live
<1> QED
  BY <1>1, <1>2 DEF Live, Ended

\* A step that raises no cascade adds no cancelling intent and changes none.
LEMMA IntentKept ==
  ASSUME Ground, [Next]_vars, NEW Ch \in SUBSET TaskId, NEW Q, ~Cascades(task', Ch, Q),
         \A y \in TaskId \ Ch : Alike(task[y], task'[y]),
         NEW x \in TaskId, Intent(task', x)
  PROVE  /\ Intent(task, x) /\ task'[x].mark = task[x].mark
         /\ FailedOutcome(task'[x]) <=> FailedOutcome(task[x])
<1>1. CASE x \notin Ch
  BY <1>1, AlikeFacts
<1>2. CASE x \in Ch
  <2>1. Live(task', x) /\ x \in Ch \ Ended(task', Ch)
    BY <1>2 DEF Intent, Live, Ended
  <2>2. task'[x].mark # "none" => task[x].mark # "none"
    BY <2>1 DEF Cascades, Marked
  <2>3. ~(task[x].mark = "restart" /\ task'[x].mark = "request")
    BY <2>1 DEF Cascades, Upgraded
  <2>4. task'[x].mark = task[x].mark
    <3>1. task[x].mark \in Mark /\ task'[x].mark \in Mark
      <4>1. TypeOK /\ TypeOK'
        BY TypeStep DEF Ground
      <4> QED
        BY <4>1 DEF TypeOK, TaskRecord
    <3> QED
      BY <2>2, <2>3, <3>1, RecordStep DEF Mark
  <2>5. FailedOutcome(task'[x]) => task[x].status = "completing" /\ task'[x].status = "completing"
    <3>1. FailedOutcome(task'[x]) => task'[x].status = "completing"
      BY <2>1, RecordStep DEF Shaped, FailedOutcome, Live
    <3>2. task'[x].status = "completing" => task[x].status = "completing"
      BY <2>1 DEF Cascades, HoldsFailure
    <3> QED
      BY <3>1, <3>2
  <2>6. FailedOutcome(task'[x]) <=> FailedOutcome(task[x])
    BY <2>5, RecordStep DEF FailedOutcome
  <2>7. task[x].status # "unborn"
    <3>1. task'[x].mark # "none" => task[x].status # "unborn"
      BY <2>2 DEF Ground, Shapes, Shaped
    <3> QED
      BY <2>5, <3>1 DEF Intent
  <2> QED
    BY <2>1, <2>4, <2>6, <2>7, RecordStep DEF Intent
<1> QED
  BY <1>1, <1>2

\* A step that ends nothing keeps every cancelling intent.
LEMMA IntentStays ==
  ASSUME Ground, [Next]_vars, NEW Ch \in SUBSET TaskId, Ended(task', Ch) = {},
         \A y \in TaskId \ Ch : Alike(task[y], task'[y]),
         NEW x \in TaskId, Intent(task, x)
  PROVE  Intent(task', x)
<1>1. Live(task, x) /\ task[x].mark \in Mark
  BY DEF Intent, Ground, TypeOK, TaskRecord
<1>2. Live(task', x)
  BY <1>1, EndsInStep
<1>3. task[x].mark # "none" => task'[x].mark # "none"
  BY <1>1, RecordStep DEF Mark
<1> QED
  BY <1>2, <1>3, RecordStep DEF Intent

\* When the last work a task holds ends, the walk up from that work meets the task.
LEMMA Freed ==
  ASSUME Ground, [Next]_vars, NEW Ch \in SUBSET TaskId, \A y \in TaskId \ Ch : Alike(task[y], task'[y]),
         NEW x \in TaskId, Live(task', x), OwnedLive(task, x) # {}, OwnedLive(task', x) = {}
  PROVE  \E y \in Ended(task', Ch) : x \in NearestLiveAbove(task', y)
<1>1. PICK y \in OwnedLive(task, x) : TRUE
  OBVIOUS
<1>2. y \in TaskId /\ Live(task, y) /\ ~task[y].background /\ x \in task[y].holders
  BY <1>1 DEF OwnedLive
<1>t. \A z \in TaskId : z \in Nat /\ task[z].holders \subseteq TaskId
  BY DEF Ground, TypeOK, TaskRecord, TaskId
<1>3. task'[y].holders = task[y].holders /\ task'[y].background = task[y].background
  BY <1>2, RecordStep DEF Live, Keeps
<1>4. ~Live(task', y)
  BY <1>2, <1>3 DEF OwnedLive
<1>5. ASSUME NEW z \in task[y].holders, Live(task', z), x < z PROVE FALSE
  <2>1. z \in TaskId /\ ~task[z].background /\ x \in task[z].holders
    BY <1>2, <1>5, <1>t DEF Ground, Ordered
  <2>2. task[z].status # "unborn"
    BY <1>2, <1>5 DEF Ground, TreeInv, Tree
  <2>3. z \in OwnedLive(task', x)
    BY <1>5, <2>1, <2>2, RecordStep DEF OwnedLive, Keeps
  <2> QED
    BY <2>3
<1>6. x \in NearestLiveAbove(task', y)
  <2>1. \A z \in task[y].holders : Live(task', z) => z <= x
    BY <1>2, <1>5, <1>t
  <2> QED
    BY <1>2, <1>3, <2>1 DEF NearestLiveAbove, Nearest
<1> QED
  BY <1>2, <1>4, <1>6, EndsInStep

-----------------------------------------------------------------------------
(* Cascade marks                                                           *)

\* The mark table T derives for x from its nearest cancelling owner, and whether x lacks it.
Derived(T, x) ==
  LET owner == CancellingOwner(T, T[x].holders)
  IN IF ~Live(T, x) \/ T[x].background \/ owner = {} THEN "none"
     ELSE IF \E o \in owner : T[o].mark = "restart" /\ ~FailedOutcome(T[o]) THEN "restart" ELSE "request"
Owes(T, x) ==
  \/ Derived(T, x) = "request" /\ T[x].mark # "request"
  \/ Derived(T, x) = "restart" /\ T[x].mark = "none"

CascadesDue == harness # "down" => \A x \in TaskId : Owes(task, x) => \E job \in Range(line) : job.kind = "reconcile"

\* A reconcile writes the marks its failFast checks and the cancelling owners call for.
LEMMA ReconciledMarks ==
  ASSUME TypeOK, NEW checks, NEW x \in TaskId
  PROVE  LET M == Reconciled(checks)
         IN /\ x \in FailFastMarks(checks) => M[x].mark = "request"
            /\ Derived(task, x) = "request" => M[x].mark = "request"
            /\ Derived(task, x) = "restart" => M[x].mark # "none"
            /\ x \notin FailFastMarks(checks) /\ ~Owes(task, x) => M[x] = task[x]
            /\ x \in FailFastMarks(checks) /\ task[x].mark = "request" => M[x] = task[x]
<1> DEFINE reason == IF x \in FailFastMarks(checks) THEN "request" ELSE Derived(task, x)
<1>1. Reconciled(checks)[x] = IF reason = "request" \/ (reason = "restart" /\ task[x].mark = "none")
                              THEN [task[x] EXCEPT !.mark = reason] ELSE task[x]
  BY DEF Reconciled, CascadeMark, Derived
<1>2. task[x] \in TaskRecord /\ Derived(task, x) \in {"none", "request", "restart"}
  BY DEF TypeOK, Derived
<1>3. \A m \in Mark : /\ [task[x] EXCEPT !.mark = m].mark = m
                      /\ task[x].mark = m => [task[x] EXCEPT !.mark = m] = task[x]
  BY <1>2 DEF TaskRecord
<1>4. "request" \in Mark /\ "restart" \in Mark
  BY DEF Mark
<1> QED
  BY <1>1, <1>2, <1>3, <1>4 DEF Owes

\* What is derived depends on the cancelling owners alone.
LEMMA SameDerived ==
  ASSUME NEW x \in TaskId, task[x].holders \subseteq TaskId,
         task'[x].holders = task[x].holders, task'[x].background = task[x].background,
         Live(task', x) <=> Live(task, x),
         \A z \in TaskId : Intent(task', z) <=> Intent(task, z),
         \A z \in TaskId : Intent(task, z) =>
            /\ task'[z].mark = task[z].mark /\ (FailedOutcome(task'[z]) <=> FailedOutcome(task[z]))
  PROVE  Derived(task', x) = Derived(task, x)
<1> DEFINE S(T) == {z \in T[x].holders : Intent(T, z)}
<1>1. S(task') = S(task) /\ \A z \in S(task) : z \in TaskId /\ Intent(task, z)
  OBVIOUS
<1>2. /\ CancellingOwner(task', task'[x].holders) = Nearest(S(task))
      /\ CancellingOwner(task, task[x].holders) = Nearest(S(task))
  BY <1>1 DEF CancellingOwner
<1>3. Nearest(S(task)) \subseteq S(task)
  BY DEF Nearest
<1> HIDE DEF S
<1>4. \A o \in Nearest(S(task)) : task'[o].mark = task[o].mark /\ (FailedOutcome(task'[o]) <=> FailedOutcome(task[o]))
  BY <1>1, <1>3
<1> QED
  BY <1>2, <1>4 DEF Derived

LEMMA CascadeStep ==
  ASSUME Ground, Ground', Left, CascadesDue, [Next]_vars, harness # "down", harness' # "down"
  PROVE  CascadesDue'
<1>1. PICK Ch \in SUBSET TaskId, Q \in SUBSET ConvId, R \in SUBSET TaskId, F \in SUBSET TaskId :
        Summary(Ch, Q, R, F)
  BY StepReports DEF Ground
<1> SUFFICES ASSUME NEW x \in TaskId, Owes(task', x), ~\E job \in Range(line') : job.kind = "reconcile"
             PROVE  FALSE
  BY DEF CascadesDue
<1>2. \A y \in TaskId \ Ch : Alike(task[y], task'[y])
  BY <1>1 DEF Summary, Reports
<1>3. ~Cascades(task', Ch, Q) /\ Ended(task', Ch) = {}
  BY <1>1, Reported DEF Summary
<1>4. \A z \in TaskId : Intent(task', z) <=> Intent(task, z)
  BY <1>2, <1>3, IntentKept, IntentStays
<1>5. \A z \in TaskId : Intent(task, z) =>
        /\ task'[z].mark = task[z].mark /\ (FailedOutcome(task'[z]) <=> FailedOutcome(task[z]))
  BY <1>2, <1>3, <1>4, IntentKept
<1>6. Live(task', x) /\ ~task'[x].background /\ CancellingOwner(task', task'[x].holders) # {}
  BY DEF Owes, Derived
<1>7. task[x].status # "unborn"
  <2>1. CASE x \in Ch
    <3>1. x \notin Newborn(task', Ch)
      BY <1>3, <1>6 DEF Cascades, BornBelow, BelowCancelled
    <3> QED
      BY <2>1, <3>1 DEF Newborn
  <2>2. CASE x \notin Ch
    BY <1>2, <1>6, <2>2, AlikeFacts DEF Live
  <2> QED
    BY <2>1, <2>2
<1>8. task[x].holders \subseteq TaskId /\ task[x].mark \in Mark /\ task'[x].mark \in Mark
  BY DEF Ground, TypeOK, TaskRecord
<1>9. Derived(task', x) = Derived(task, x)
  BY <1>4, <1>5, <1>6, <1>7, <1>8, RecordStep, SameDerived DEF Keeps
<1>10. Owes(task, x)
  BY <1>8, <1>9, RecordStep DEF Owes, Mark
<1>11. \E job \in Range(line) : job.kind = "reconcile"
  BY <1>10 DEF CascadesDue
<1>12. Reconcile
  BY <1>1, <1>11 DEF Summary, Stay
<1>13. task'[x].mark = Reconciled(Head(line).checks)[x].mark
  BY <1>12, ReconcileRecord DEF Ground
<1>14. TypeOK
  BY DEF Ground
<1> QED
  BY <1>9, <1>13, <1>14, ReconciledMarks DEF Owes

-----------------------------------------------------------------------------
(* Withdrawals                                                             *)

QueuedExist == queued \subseteq convs

WithdrawalsDue ==
  harness # "down" => \A c \in queued : BelowCancelled(task, Holders(task, convOwner[c])) =>
                        \E job \in Range(line) : job.kind = "reconcile" /\ job.cascade

LEMMA BelowIntent ==
  ASSUME NEW T, NEW S \in SUBSET TaskId
  PROVE  BelowCancelled(T, S) <=> \E z \in S : Intent(T, z)
<1>1. {z \in S : Intent(T, z)} # {} => Nearest({z \in S : Intent(T, z)}) # {}
  BY NearestExists
<1> QED
  BY <1>1 DEF BelowCancelled, CancellingOwner, Nearest

LEMMA WithdrawalStep ==
  ASSUME Ground, Ground', Left, QueuedExist, WithdrawalsDue, [Next]_vars, harness # "down", harness' # "down"
  PROVE  QueuedExist' /\ WithdrawalsDue'
<1>1. PICK Ch \in SUBSET TaskId, Q \in SUBSET ConvId, R \in SUBSET TaskId, F \in SUBSET TaskId :
        Summary(Ch, Q, R, F)
  BY StepReports DEF Ground
<1>2. Inputs(Q)
  BY <1>1 DEF Summary
<1>3. QueuedExist'
  BY <1>2 DEF QueuedExist, Inputs
<1> SUFFICES ASSUME NEW c \in queued', BelowCancelled(task', Holders(task', convOwner'[c])),
                    ~\E job \in Range(line') : job.kind = "reconcile" /\ job.cascade
             PROVE  FALSE
  BY <1>3 DEF WithdrawalsDue
<1>4. \A y \in TaskId \ Ch : Alike(task[y], task'[y])
  BY <1>1 DEF Summary, Reports
<1>5. ~Cascades(task', Ch, Q)
  BY <1>1, Reported DEF Summary
<1>6. c \in queued \cup Q /\ c \in convs /\ convOwner'[c] = convOwner[c] /\ c \in ConvId
  BY <1>2 DEF Inputs, QueuedExist, Ground, TypeOK
<1>7. c \in queued
  BY <1>5, <1>6 DEF Cascades, QueuedBelow
<1>8. convOwner[c] # None /\ convOwner[c] \in TaskId
  <2>1. convOwner[c] # None
    <3>1. ~BelowCancelled(task', {})
      BY BelowIntent
    <3> QED
      BY <1>6, <3>1 DEF Holders
  <2> QED
    BY <1>6, <2>1 DEF Ground, TypeOK, Owner
<1>9. Holders(task', convOwner'[c]) = Holders(task, convOwner[c])
  <2>1. task[convOwner[c]].status # "unborn"
    BY <1>6, <1>8 DEF Ground, TreeInv, Tree
  <2> QED
    BY <1>6, <1>8, <2>1, RecordStep DEF Holders, Keeps
<1>10. Holders(task, convOwner[c]) \subseteq TaskId
  BY <1>6, HoldersType DEF Ground, TypeOK, TaskTable
<1>11. BelowCancelled(task, Holders(task, convOwner[c]))
  BY <1>4, <1>5, <1>9, <1>10, BelowIntent, IntentKept
<1>12. PICK job \in Range(line) : job.kind = "reconcile" /\ job.cascade
  BY <1>7, <1>11 DEF WithdrawalsDue
<1>13. Reconcile /\ Range(Tail(line)) \subseteq Range(line')
  BY <1>1, <1>12 DEF Summary, Stay
<1>14. job = Head(line)
  <2>1. line \in Seq(Job) /\ line # <<>>
    BY <1>13 DEF Ground, TypeOK, Reconcile, Head1
  <2> QED
    BY <1>12, <1>13, <2>1, LineJobs
<1> QED
  BY <1>11, <1>12, <1>13, <1>14 DEF Reconcile

-----------------------------------------------------------------------------
(* Finalizations                                                           *)

FinalizesDue ==
  harness # "down" => \A x \in TaskId : task[x].status = "completing" /\ OwnedLive(task, x) = {} =>
                        x \in finalizeChecks /\ \E job \in Range(line) : job.kind = "reconcile"

LEMMA FinalizeStep ==
  ASSUME Ground, Ground', Left, FinalizesDue, [Next]_vars, harness # "down", harness' # "down"
  PROVE  FinalizesDue'
<1>1. PICK Ch \in SUBSET TaskId, Q \in SUBSET ConvId, R \in SUBSET TaskId, F \in SUBSET TaskId :
        Summary(Ch, Q, R, F)
  BY StepReports DEF Ground
<1> SUFFICES ASSUME NEW x \in TaskId, task'[x].status = "completing", OwnedLive(task', x) = {}
             PROVE  x \in finalizeChecks' /\ \E job \in Range(line') : job.kind = "reconcile"
  BY DEF FinalizesDue
<1> DEFINE Goal == x \in finalizeChecks' /\ \E job \in Range(line') : job.kind = "reconcile"
<1>2. \A y \in TaskId \ Ch : Alike(task[y], task'[y])
  BY <1>1 DEF Summary, Reports
<1>3. x \notin Ended(task', Ch) /\ Live(task', x)
  BY DEF Ended, Live
<1>4. finalizeChecks' = (F \cup {y \in Ch \cup UNION {NearestLiveAbove(task', z) : z \in Ended(task', Ch)} :
                                    task'[y].status = "completing"}) \ Ended(task', Ch)
  BY <1>1 DEF Summary, Reports, Track
<1>5. CASE task[x].status # "completing"
  <2>1. x \in Ch
    BY <1>2, <1>5, AlikeFacts
  <2>2. x \in {y \in Ch : task'[y].status = "completing" /\ task[y].status # "completing"}
    BY <1>5, <2>1
  <2> QED
    BY <1>1, <1>3, <1>4, <2>1, <2>2, Reported DEF Summary
<1>6. CASE task[x].status = "completing" /\ OwnedLive(task, x) # {}
  <2>1. PICK y \in Ended(task', Ch) : x \in NearestLiveAbove(task', y)
    BY <1>2, <1>3, <1>6, Freed
  <2> QED
    BY <1>1, <1>3, <1>4, <2>1, Reported DEF Summary
<1>7. CASE task[x].status = "completing" /\ OwnedLive(task, x) = {}
  <2>1. x \in finalizeChecks /\ \E job \in Range(line) : job.kind = "reconcile"
    BY <1>7 DEF FinalizesDue
  <2>2. ~Reconcile
    <3> SUFFICES ASSUME Reconcile PROVE FALSE
      OBVIOUS
    <3> DEFINE M == Reconciled(Head(line).checks)
    <3>1. ~Finalizable(M, x)
      BY ReconcileRecord DEF Ground
    <3>2. \A y \in TaskId : Keeps(task[y], M[y]) /\ M[y].status = task[y].status
      BY ReconcileRecord DEF Ground
    <3> HIDE DEF M
    <3>3. OwnedLive(M, x) = {} /\ M[x].status = "completing"
      BY <1>7, <3>2 DEF OwnedLive, Live, Keeps
    <3> QED
      BY <2>1, <3>1, <3>3 DEF Finalizable
  <2>3. F = finalizeChecks /\ Stay("reconcile")
    BY <1>1, <2>2 DEF Summary
  <2> QED
    BY <1>3, <1>4, <2>1, <2>3 DEF Stay
<1> QED
  BY <1>5, <1>6, <1>7

-----------------------------------------------------------------------------
(* failFast checks                                                         *)

\* In table T, w owes a request to a member of its failFast wait, as another member failed.
Failing(T, w) ==
  /\ T[w].status = "waiting" /\ T[w].policy = "failFast"
  /\ \E f \in T[w].on : FailedOutcome(T[f])
  /\ \E m \in T[w].on : Live(T, m) /\ ~FailedOutcome(T[m]) /\ T[m].mark # "request"

WaitsBorn == \A w \in TaskId : task[w].status = "waiting" => \A m \in task[w].on : task[m].status # "unborn"

FailuresDue ==
  harness # "down" => \A w \in TaskId : Failing(task, w) =>
                        \E job \in Range(line) : job.kind = "reconcile" /\ w \in job.checks

LEMMA FailFastStep ==
  ASSUME Ground, Ground', Left, WaitsBorn, FailuresDue, [Next]_vars, harness # "down", harness' # "down"
  PROVE  WaitsBorn' /\ FailuresDue'
<1>1. PICK Ch \in SUBSET TaskId, Q \in SUBSET ConvId, R \in SUBSET TaskId, F \in SUBSET TaskId :
        Summary(Ch, Q, R, F)
  BY StepReports DEF Ground
<1>2. /\ \A y \in TaskId \ Ch : Alike(task[y], task'[y])
      /\ \A y \in Ch : WaitKept(task', y)
  BY <1>1 DEF Summary, Reports
<1>t. \A y \in TaskId : task[y].on \subseteq TaskId /\ task'[y].on \subseteq TaskId
  BY DEF Ground, TypeOK, TaskRecord
<1>3. ASSUME NEW w \in TaskId, task'[w].status = "waiting"
      PROVE  \/ /\ task[w].status = "waiting" /\ task'[w].on = task[w].on
                /\ task'[w].policy = task[w].policy
             \/ /\ task[w].status # "waiting" /\ w \in Ch
                /\ \A m \in task'[w].on : task'[m].status # "unborn"
  <2>1. CASE w \in Ch
    BY <1>2, <1>3, <2>1 DEF WaitKept
  <2>2. CASE w \notin Ch
    BY <1>2, <1>3, <2>2 DEF Alike
  <2> QED
    BY <2>1, <2>2
<1>4. WaitsBorn'
  <2> SUFFICES ASSUME NEW w \in TaskId, task'[w].status = "waiting", NEW m \in task'[w].on
               PROVE  task'[m].status # "unborn"
    BY DEF WaitsBorn
  <2>1. m \in TaskId
    BY <1>t
  <2>2. CASE task[w].status = "waiting" /\ task'[w].on = task[w].on
    BY <2>1, <2>2, RecordStep DEF WaitsBorn
  <2> QED
    BY <1>3, <2>2
<1> SUFFICES ASSUME NEW w \in TaskId, Failing(task', w),
                    ~\E job \in Range(line') : job.kind = "reconcile" /\ w \in job.checks
             PROVE  FALSE
  BY <1>4 DEF FailuresDue
<1>5. w \notin Alarmed(task', Ch)
  BY <1>1, Reported DEF Summary
<1>6. task[w].status = "waiting" /\ task[w].policy = "failFast" /\ task'[w].on = task[w].on
  BY <1>3, <1>5 DEF Alarmed, Failing
<1>7. PICK f \in task'[w].on : FailedOutcome(task'[f])
  BY DEF Failing
<1>8. FailedOutcome(task[f])
  <2>1. f \in TaskId
    BY <1>t
  <2>2. CASE f \in Ch
    BY <1>5, <1>7, <2>2 DEF Alarmed, Failing
  <2>3. CASE f \notin Ch
    BY <1>2, <1>7, <2>1, <2>3, AlikeFacts
  <2> QED
    BY <2>2, <2>3
<1>9. PICK m \in task'[w].on : Live(task', m) /\ ~FailedOutcome(task'[m]) /\ task'[m].mark # "request"
  BY DEF Failing
<1>10. m \in TaskId /\ Live(task, m) /\ ~FailedOutcome(task[m]) /\ task[m].mark # "request"
  BY <1>6, <1>9, <1>t, RecordStep DEF WaitsBorn
<1>11. PICK job \in Range(line) : job.kind = "reconcile" /\ w \in job.checks
  BY <1>6, <1>7, <1>8, <1>9, <1>10 DEF FailuresDue, Failing
<1>12. Reconcile /\ Range(Tail(line)) \subseteq Range(line')
  BY <1>1, <1>11 DEF Summary, Stay
<1>13. job = Head(line)
  <2>1. line \in Seq(Job) /\ line # <<>>
    BY <1>12 DEF Ground, TypeOK, Reconcile, Head1
  <2> QED
    BY <1>11, <1>12, <2>1, LineJobs
<1>14. m \in FailFastMarks(Head(line).checks)
  BY <1>6, <1>7, <1>8, <1>9, <1>10, <1>11, <1>13 DEF FailFastMarks
<1>15. task'[m].mark = "request"
  BY <1>10, <1>12, <1>14, ReconcileRecord, ReconciledMarks DEF Ground
<1> QED
  BY <1>9, <1>15

-----------------------------------------------------------------------------
(* Reservations                                                            *)

\* What an invocation of x waits for in table T, and the tasks nothing keeps from a pass.
Await(T, x) ==
  IF T[x].mark # "none" THEN OwnedLive(T, x)
  ELSE IF T[x].status = "waiting" THEN {y \in T[x].on : Live(T, y)}
  ELSE {}
Ready(x) ==
  /\ Live(task, x) /\ task[x].status # "completing" /\ inv[x].mode = "none"
  /\ Await(task, x) = {}
Startable(x) ==
  /\ Ready(x)
  /\ ~(task[x].mark = "none" /\ ~task[x].background /\ BelowCancelled(task, task[x].holders))
  /\ (x \in Extension => installed) \/ task[x].mark = "request"

CandidatesDue == harness # "down" => \A x \in TaskId : Ready(x) => x \in runnable
PassDue ==
  harness = "running" => \A x \in TaskId : Startable(x) => \E job \in Range(line) : job.kind = "reserve"

LEMMA CandidatesStep ==
  ASSUME Ground, Ground', Left, WaitsBorn, CandidatesDue, [Next]_vars, harness # "down", harness' # "down"
  PROVE  CandidatesDue'
<1>1. PICK Ch \in SUBSET TaskId, Q \in SUBSET ConvId, R \in SUBSET TaskId, F \in SUBSET TaskId :
        Summary(Ch, Q, R, F)
  BY StepReports DEF Ground
<1> SUFFICES ASSUME NEW x \in TaskId, Live(task', x), task'[x].status # "completing", inv'[x].mode = "none",
                    Await(task', x) = {}
             PROVE  x \in runnable'
  BY DEF CandidatesDue, Ready
<1>2. \A y \in TaskId \ Ch : Alike(task[y], task'[y])
  BY <1>1 DEF Summary, Reports
<1>t. \A y \in TaskId : task[y].on \subseteq TaskId
  BY DEF Ground, TypeOK, TaskRecord
<1> DEFINE ended == Ended(task', Ch)
           freed == UNION {NearestLiveAbove(task', y) : y \in ended}
<1>3. runnable' = (R \cup Ch \cup (UNION {Waiters(task', y) : y \in ended})
                     \cup {y \in freed : task'[y].status # "completing" /\ task'[y].mark # "none"})
                  \ (ended \cup {y \in Ch : task'[y].status = "completing"})
  BY <1>1 DEF Summary, Reports, Track
<1>4. x \notin ended
  BY DEF Ended, Live
<1> HIDE DEF ended
<1>5. CASE x \in Ch
  BY <1>3, <1>4, <1>5
<1>6. ASSUME x \notin Ch, x \in R PROVE x \in runnable'
  BY <1>3, <1>4, <1>6
<1>7. CASE x \notin Ch
  <2>1. /\ Live(task, x) /\ task[x].status = task'[x].status /\ task[x].mark = task'[x].mark
        /\ task[x].status = "waiting" => task'[x].on = task[x].on
    BY <1>2, <1>7, AlikeFacts DEF Alike
  <2>2. Candidates(R)
    BY <1>1 DEF Summary
  <2>3. CASE inv[x].mode # "none"
    BY <1>6, <1>7, <2>1, <2>2, <2>3 DEF Candidates
  <2>4. CASE inv[x].mode = "none" /\ Await(task, x) = {}
    <3>1. x \in runnable
      BY <2>1, <2>4 DEF CandidatesDue, Ready
    <3>2. WaitingOn(x) = {}
      BY <2>4 DEF Await, WaitingOn
    <3>3. x \notin Dropped
      BY <2>1, <2>4, <3>2 DEF Dropped
    <3>4. x \in R
      BY <2>2, <3>1, <3>3 DEF Candidates
    <3> QED
      BY <1>6, <1>7, <3>4
  <2>5. CASE Await(task, x) # {} /\ task[x].mark # "none"
    <3>1. OwnedLive(task, x) # {} /\ OwnedLive(task', x) = {}
      BY <2>1, <2>5 DEF Await
    <3>2. x \in freed
      BY <1>2, <3>1, Freed DEF ended
    <3> QED
      BY <1>3, <1>4, <1>7, <2>1, <2>5, <3>2
  <2>6. CASE Await(task, x) # {} /\ task[x].mark = "none"
    <3>1. task[x].status = "waiting"
      BY <2>6 DEF Await
    <3>2. PICK y \in task[x].on : Live(task, y)
      BY <2>6, <3>1 DEF Await
    <3>3. ~Live(task', y)
      BY <2>1, <2>6, <3>1, <3>2 DEF Await
    <3>4. y \in ended
      BY <1>2, <1>t, <3>2, <3>3, EndsInStep DEF ended
    <3>5. x \in Waiters(task', y)
      BY <2>1, <3>1, <3>2 DEF Waiters
    <3>6. x \in UNION {Waiters(task', z) : z \in ended}
      BY <3>4, <3>5
    <3> QED
      BY <1>3, <1>4, <1>7, <3>6
  <2> QED
    BY <2>3, <2>4, <2>5, <2>6
<1> QED
  BY <1>5, <1>7

LEMMA PassStep ==
  ASSUME Ground, Ground', Left, WaitsBorn, CandidatesDue, PassDue, [Next]_vars, harness # "down", harness' # "down"
  PROVE  PassDue'
<1>1. PICK Ch \in SUBSET TaskId, Q \in SUBSET ConvId, R \in SUBSET TaskId, F \in SUBSET TaskId :
        Summary(Ch, Q, R, F)
  BY StepReports DEF Ground
<1> SUFFICES ASSUME harness' = "running", NEW x \in TaskId, Startable(x)',
                    ~\E job \in Range(line') : job.kind = "reserve"
             PROVE  FALSE
  BY DEF PassDue
<1>2. Rests
  BY <1>1 DEF Summary, Wakes
<1>t. \A y \in TaskId : task[y].on \subseteq TaskId /\ task[y].holders \subseteq TaskId
  BY DEF Ground, TypeOK, TaskRecord
<1>3. /\ \A y \in TaskId : Alike(task[y], task'[y])
      /\ \A y \in TaskId : (Live(task', y) <=> Live(task, y)) /\ (Intent(task', y) <=> Intent(task, y))
      /\ \A y \in TaskId : Keeps(task[y], task'[y])
  BY <1>2, AlikeFacts DEF Rests, Alike
<1>4. OwnedLive(task', x) = OwnedLive(task, x)
  BY <1>3 DEF OwnedLive, Keeps
<1>5. Await(task', x) = Await(task, x)
  <2>1. CASE task[x].status = "waiting"
    <3>1. task'[x].on = task[x].on /\ task'[x].status = "waiting" /\ task'[x].mark = task[x].mark
      BY <1>3, <2>1 DEF Alike
    <3>2. {y \in task'[x].on : Live(task', y)} = {y \in task[x].on : Live(task, y)}
      BY <1>3, <1>t, <3>1
    <3> QED
      BY <1>4, <2>1, <3>1, <3>2 DEF Await
  <2>2. CASE task[x].status # "waiting"
    BY <1>3, <1>4, <2>2, AlikeFacts DEF Await
  <2> QED
    BY <2>1, <2>2
<1>6. BelowCancelled(task', task'[x].holders) <=> BelowCancelled(task, task[x].holders)
  <2>1. task'[x].holders = task[x].holders
    BY <1>3 DEF Keeps
  <2> QED
    BY <1>3, <1>t, <2>1, BelowIntent
<1>7. inv[x].mode = "none" /\ installed' = installed /\ harness = "running"
  BY <1>2 DEF Rests, Startable, Ready
<1>8. Startable(x)
  <2>1. /\ task'[x].status = task[x].status /\ task'[x].mark = task[x].mark
        /\ task'[x].background = task[x].background
    BY <1>3, AlikeFacts DEF Keeps
  <2> QED
    BY <1>3, <1>5, <1>6, <1>7, <2>1 DEF Startable, Ready
<1>9. x \in runnable /\ \E job \in Range(line) : job.kind = "reserve"
  BY <1>7, <1>8 DEF CandidatesDue, PassDue, Startable
<1>10. Reserve /\ Orphans = {} /\ \A y \in Taken : inv'[y].mode # "none"
  BY <1>2, <1>9 DEF Rests, Stay
<1>11. WaitingOn(x) = {}
  BY <1>8 DEF Startable, Ready, Await, WaitingOn
<1>12. x \notin Dropped /\ x \notin Held
  BY <1>8, <1>11 DEF Startable, Ready, Dropped, Held, HeldBack
<1>13. x \in Taken \/ x \in Orphans
  BY <1>8, <1>9, <1>12 DEF Taken, Orphans, Blocked, Startable
<1> QED
  BY <1>10, <1>13 DEF Startable, Ready

-----------------------------------------------------------------------------
(* All promises                                                            *)

Promises ==
  /\ QueuedExist /\ WaitsBorn
  /\ CascadesDue /\ WithdrawalsDue /\ FinalizesDue /\ FailuresDue /\ CandidatesDue /\ PassDue

\* A Harness that is down does nothing but open.
LEMMA Outages ==
  ASSUME TypeOK, Left, [Next]_vars, harness = "down" \/ harness' = "down"
  PROVE  Open \/ (harness' = "down" /\ UNCHANGED <<task, convs, queued>>)
<1> DEFINE Goal == Open \/ (harness' = "down" /\ UNCHANGED <<task, convs, queued>>)
<1>1. harness = "down" => line = <<>> /\ \A x \in TaskId : inv[x].at = "none"
  BY DEF Left, NoInvocation
<1>2. ASSUME Admitted, harness' = harness PROVE FALSE
  BY <1>2 DEF Admitted
<1>3. ASSUME line # <<>>, harness' = harness PROVE FALSE
  BY <1>1, <1>3
<1>4. ~HostCreate /\ ~Submit /\ (\A x, k : ~AbortTask(x, k)) /\ (\A c, k : ~AbortConversation(c, k))
      /\ \A t \in TaskId : ~RuntimeCommit(t)
  BY <1>2 DEF HostCreate, Submit, AbortTask, AbortConversation, RuntimeCommit
<1>5. \A t \in TaskId : ~HandlerReturn(t)
  BY <1>1 DEF HandlerReturn
<1>6. ~LineJob
  BY <1>3 DEF LineJob, ReserveAbandoned, Reserve, Reconcile, RunStep, AbortStep, StepHead, StepFrame, Head1
<1>7. CASE Open
  BY <1>7
<1>8. CASE Resume
  BY <1>8 DEF Resume
<1>9. CASE Stop
  BY <1>9 DEF Stop
<1>10. CASE RegistryChange \/ UNCHANGED vars
  BY <1>10 DEF RegistryChange, vars
<1> QED
  BY <1>4, <1>5, <1>6, <1>7, <1>8, <1>9, <1>10 DEF Next

\* Opening queues one reconcile that does whatever the records owe.
LEMMA OpenStep ==
  ASSUME Ground, QueuedExist, WaitsBorn, Open
  PROVE  Promises'
<1> DEFINE W == {x \in TaskId : task[x].status = "waiting" /\ task[x].policy = "failFast"}
           job == ReconcileJob(TRUE, W)
<1>1. job \in Range(line') /\ job.kind = "reconcile" /\ job.cascade /\ job.checks = W
  <2>1. job \in Job
    BY JobTypes
  <2>2. job.kind = "reconcile" /\ job.cascade /\ job.checks = W
    BY DEF ReconcileJob
  <2>3. line' = <<job>>
    BY DEF Open
  <2> HIDE DEF job
  <2> QED
    BY <2>1, <2>2, <2>3, LineJobs
<1>2. \A x \in TaskId :
        /\ task'[x].status = IF task[x].status = "running" THEN "pending" ELSE task[x].status
        /\ task[x].status # "running" => task'[x] = task[x]
  <2>1. \A x \in TaskId : task'[x] = IF task[x].status = "running" THEN WithStatus(task[x], "pending") ELSE task[x]
    BY DEF Open
  <2>2. \A x \in TaskId : task[x] \in TaskRecord
    BY DEF Ground, TypeOK
  <2> QED
    BY <2>1, <2>2, StatusFields
<1>3. QueuedExist'
  BY DEF QueuedExist, Open
<1>4. WaitsBorn'
  <2>1. \A x \in TaskId : task[x].on \subseteq TaskId
    BY DEF Ground, TypeOK, TaskRecord
  <2> QED
    BY <1>2, <2>1 DEF WaitsBorn
<1> HIDE DEF job
<1>5. CascadesDue' /\ WithdrawalsDue'
  BY <1>1 DEF CascadesDue, WithdrawalsDue
<1>6. FinalizesDue'
  BY <1>1, <1>2 DEF FinalizesDue, Open
<1>7. FailuresDue'
  <2>1. \A w \in TaskId : Failing(task', w) => w \in W
    BY <1>2 DEF Failing
  <2> QED
    BY <1>1, <2>1 DEF FailuresDue
<1>8. CandidatesDue'
  <2>1. \A x \in TaskId : Live(task', x) /\ task'[x].status # "completing"
          => Live(task, x) /\ task[x].status # "completing"
    BY <1>2 DEF Live
  <2> QED
    BY <2>1 DEF CandidatesDue, Ready, Open
<1>9. PassDue'
  BY DEF PassDue, Open
<1> QED
  BY <1>3, <1>4, <1>5, <1>6, <1>7, <1>8, <1>9 DEF Promises

\* Every step keeps every promise.
LEMMA PromisesStep ==
  ASSUME Ground, Ground', Left, Promises, [Next]_vars
  PROVE  Promises'
<1>1. CASE harness # "down" /\ harness' # "down"
  BY <1>1, CascadeStep, WithdrawalStep, FinalizeStep, FailFastStep, CandidatesStep, PassStep DEF Promises
<1>2. CASE Open
  BY <1>2, OpenStep DEF Promises
<1>3. CASE harness' = "down" /\ UNCHANGED <<task, convs, queued>>
  BY <1>3 DEF Promises, QueuedExist, WaitsBorn, CascadesDue, WithdrawalsDue, FinalizesDue, FailuresDue,
              CandidatesDue, PassDue
<1> QED
  BY <1>1, <1>2, <1>3, Outages DEF Ground

LEMMA PromisesStart == Init => Ordered(task) /\ Minted /\ Promises
<1> SUFFICES ASSUME Init PROVE Ordered(task) /\ Minted /\ Promises
  OBVIOUS
<1>1. \A x \in TaskId : task[x].holders = {} /\ task[x].status = "unborn"
  BY DEF Init, Unborn
<1>2. harness = "down" /\ queued = {}
  BY DEF Init
<1> QED
  BY <1>1, <1>2 DEF Ordered, Minted, Promises, QueuedExist, WaitsBorn, CascadesDue, WithdrawalsDue, FinalizesDue,
                    FailuresDue, CandidatesDue, PassDue

LEMMA PromisesKept == Spec => [](Ground /\ Minted /\ Promises)
<1>1. Init => Ordered(task) /\ Minted /\ Promises
  BY PromisesStart
<1>2. /\ TypeOK /\ TypeOK' /\ TreeInv /\ TreeInv' /\ Shapes /\ Shapes' /\ Left
      /\ Ordered(task) /\ Minted /\ Promises /\ [Next]_vars
      => (Ordered(task) /\ Minted /\ Promises)'
  <2> SUFFICES ASSUME TypeOK, TypeOK', TreeInv, TreeInv', Shapes, Shapes', Left,
                      Ordered(task), Minted, Promises, [Next]_vars
               PROVE  (Ordered(task) /\ Minted /\ Promises)'
    OBVIOUS
  <2>1. Ordered(task') /\ Minted'
    BY OrderStep
  <2>2. Ground /\ Ground'
    BY <2>1 DEF Ground
  <2> QED
    BY <2>1, <2>2, PromisesStep
<1> QED
  BY <1>1, <1>2, TypeCorrect, TreeCorrect, ShapesHold, AbortsHold, PTL DEF Spec, Ground

\* What the runs state of the line follows from the promises.
LEMMA PromisesMeet ==
  ASSUME Ground, Promises
  PROVE  CascadePromised /\ FinalizePromised /\ FailFastPromised /\ ReservePromised /\ WithdrawalPromised
<1>t. TypeOK /\ line \in Seq(Job) /\ \A kind : OnLine(kind, line) <=> \E job \in Range(line) : job.kind = kind
  BY OnLineJobs DEF Ground, TypeOK
<1>l. \A job \in Range(line) : \E i \in DOMAIN line : line[i] = job
  BY DEF Range
<1>m. \A checks : /\ Reconciled(checks) = [x \in TaskId |-> Reconciled(checks)[x]]
                  /\ task = [x \in TaskId |-> task[x]]
  BY <1>t DEF TypeOK, Reconciled
<1>n. FailFastMarks({}) = {}
  BY DEF FailFastMarks
<1>1. CascadePromised
  <2>1. (\A x \in TaskId : ~Owes(task, x)) => \A x \in TaskId : Reconciled({})[x] = task[x]
    BY <1>t, <1>n, ReconciledMarks
  <2>2. Reconciled({}) # task => \E x \in TaskId : Owes(task, x)
    BY <1>m, <2>1
  <2> QED
    BY <1>t, <2>2 DEF CascadePromised, Promises, CascadesDue
<1>2. FinalizePromised
  BY <1>t DEF FinalizePromised, Promises, FinalizesDue
<1>3. FailFastPromised
  <2> SUFFICES ASSUME harness # "down", NEW w \in TaskId, task[w].status = "waiting", task[w].policy = "failFast",
                      Reconciled({w}) # Reconciled({})
               PROVE  \E i \in DOMAIN line : line[i].kind = "reconcile" /\ w \in line[i].checks
    BY DEF FailFastPromised
  <2>1. PICK x \in TaskId : Reconciled({w})[x] # Reconciled({})[x]
    BY <1>m
  <2>2. x \in FailFastMarks({w})
    BY <1>n, <2>1 DEF Reconciled
  <2>3. task[x].mark # "request"
    <3>1. CASE task[x].mark = "request"
      <4>1. ~Owes(task, x)
        BY <3>1 DEF Owes
      <4> QED
        BY <1>t, <1>n, <2>1, <2>2, <3>1, <4>1, ReconciledMarks
    <3> QED
      BY <3>1
  <2>4. Failing(task, w)
    BY <2>2, <2>3 DEF FailFastMarks, Failing
  <2> QED
    BY <1>l, <2>4 DEF Promises, FailuresDue
<1>4. ReservePromised
  <2>1. \A x \in TaskId : WaitingOn(x) = Await(task, x)
    BY DEF WaitingOn, Await
  <2> QED
    BY <1>t, <2>1 DEF ReservePromised, Promises, CandidatesDue, PassDue, Startable, Ready, HeldBack, Blocked
<1>5. WithdrawalPromised
  BY <1>l DEF WithdrawalPromised, Promises, WithdrawalsDue
<1> QED
  BY <1>1, <1>2, <1>3, <1>4, <1>5

\* No lost work: every cascade mark, withdrawal, finalization, failFast check, reservation and
\* step the records and the invocations call for has a job on the Session line that does it,
\* whatever races it and across restarts (#scheduleReconcile, #kick, #start, #step, open).
THEOREM WorkPromised == Spec => []NothingForgotten
<1>1. Ground /\ Promises => CascadePromised /\ FinalizePromised /\ FailFastPromised
                           /\ ReservePromised /\ WithdrawalPromised
  BY PromisesMeet
<1> QED
  BY <1>1, StepsQueued, PromisesKept, PTL DEF NothingForgotten

=============================================================================
