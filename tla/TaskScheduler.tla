---------------------------- MODULE TaskScheduler ----------------------------
(***************************************************************************)
(* The durable task scheduler of packages/durable                          *)
(* (src/harness/scheduler.ts): the task records a Session commits, the     *)
(* in-memory indexes a Harness keeps beside them, the invocations that run *)
(* task code off the Session line, and the jobs (reservation, reconcile,   *)
(* step) the scheduler queues on it.                                       *)
(*                                                                         *)
(* Every job on the Session line runs its callback, its Storage commit and *)
(* its publication before the next one starts, so a job is one action.     *)
(* Commits of the host and of task code capture nothing when they are      *)
(* queued and are therefore modelled by the moment they run.  The          *)
(* scheduler's own jobs do capture state (a reconcile's checks, the order  *)
(* of a step and a mark), so they wait in the FIFO `line`.                 *)
(***************************************************************************)
EXTENDS Naturals, Sequences, FiniteSets

CONSTANTS
    MaxTasks,       \* bound: how many tasks are ever created
    MaxConvs,       \* bound: how many conversations there are
    TaskShapes,     \* ownership fields each task may be created with
    ConvShapes,     \* owners each conversation may be created with
    Waits,          \* bound: the waits task code may commit, as <<on, policy>>
    Abortable,      \* bound: tasks aborted by ID
    AbortScopes,    \* bound: conversations aborted
    Inboxes,        \* bound: conversations that get queued inputs
    Extension,      \* tasks whose definition an extension registers
    MaxRestarts,    \* bound: how often the Session ends (close, failure, crash)
    MaxLine         \* bound: jobs on the line when a new commit is admitted

None     == 0
Root     == 1                       \* ROOT_CONVERSATION_ID
TaskId   == 1 .. MaxTasks           \* in the order their IDs are minted
ConvId   == 1 .. MaxConvs
Owner    == TaskId \cup {None}
Shape    == [owner : Owner, conv : ConvId, background : BOOLEAN, abandon : BOOLEAN]

ASSUME BoundsAssumption ==
    /\ MaxTasks \in Nat \ {0} /\ MaxConvs \in Nat \ {0}
    /\ MaxRestarts \in Nat /\ MaxLine \in Nat
ASSUME ShapesAssumption ==
    /\ TaskShapes \in [TaskId -> SUBSET Shape]
    /\ ConvShapes \in [ConvId -> SUBSET Owner]
    /\ Waits \subseteq (SUBSET TaskId) \X {"allSettled", "failFast"}
    /\ Abortable \subseteq TaskId /\ AbortScopes \subseteq ConvId /\ Inboxes \subseteq ConvId
    /\ Extension \subseteq TaskId

VARIABLES
    \* Durable: what Storage holds
    task,           \* the record of every task
    convs,          \* the conversations that exist
    convOwner,      \* the owner task of each conversation, None when ownerless
    queued,         \* conversations with a queued input submission
    \* The environment
    installed,      \* the registry resolves the Extension definitions
    restarts,       \* how often the Session has ended
    \* In memory, lost with the Session
    harness,        \* "down", "paused" (open, scheduling not enabled), "running"
    inv,            \* #invocations
    runnable,       \* #runnable
    finalizeChecks, \* #finalizeChecks
    abandoned,      \* #abandoned
    line,           \* the scheduler's jobs waiting on the Session line
    dirty           \* #dirty while a reservation pass is queued

vars == <<task, convs, convOwner, queued, installed, restarts,
          harness, inv, runnable, finalizeChecks, abandoned, line, dirty>>

-----------------------------------------------------------------------------
(* Records                                                                 *)

Status   == {"unborn", "pending", "running", "waiting", "completing", "terminal"}
Policy   == {"none", "allSettled", "failFast"}
\* "failed" stands for every outcome task code may write other than completed:
\* no guard of the scheduler tells failed and aborted apart.
Outcome  == {"none", "completed", "failed", "faulted", "orphaned"}
Mark     == {"none", "restart", "request"}

\* `above` and `holders` are what a walk up the immutable owner links from the
\* task meets: every owner task, and those met before a background owner is left.
TaskRecord ==
    [owner : Owner, conv : ConvId, background : BOOLEAN, abandon : BOOLEAN,
     above : SUBSET TaskId, holders : SUBSET TaskId, born : 0 .. MaxRestarts,
     status : Status, on : SUBSET TaskId, policy : Policy,
     outcome : Outcome, mark : Mark]

Unborn ==
    [owner |-> None, conv |-> Root, background |-> FALSE, abandon |-> FALSE,
     above |-> {}, holders |-> {}, born |-> 0,
     status |-> "unborn", on |-> {}, policy |-> "none",
     outcome |-> "none", mark |-> "none"]

\* `moved`: the checkpoint differs from the one the last phase started with;
\* `stale`: a newer definition than the invocation's has been registered.
Invocation ==
    [mode : {"none", "run", "abort"}, at : {"none", "first", "handler", "returned"},
     moved : BOOLEAN, failed : BOOLEAN, stale : BOOLEAN]

NoInvocation ==
    [mode |-> "none", at |-> "none", moved |-> FALSE, failed |-> FALSE, stale |-> FALSE]

Job == [kind : {"reserve", "reconcile", "step"}, task : Owner,
        cascade : BOOLEAN, checks : SUBSET TaskId]

ReserveJob      == [kind |-> "reserve", task |-> None, cascade |-> FALSE, checks |-> {}]
StepJob(t)      == [kind |-> "step", task |-> t, cascade |-> FALSE, checks |-> {}]
\* #reconcile takes #cascadePending and #failFastChecks in the microtask that
\* queues its commit, so the job carries them.
ReconcileJob(cascade, checks) ==
    [kind |-> "reconcile", task |-> None, cascade |-> cascade, checks |-> checks]

OnLine(kind, L) == \E i \in DOMAIN L : L[i].kind = kind
Head1(kind)     == line # <<>> /\ Head(line).kind = kind

WithOutcome(r, status, outcome) ==
    [r EXCEPT !.status = status, !.outcome = outcome, !.on = {}, !.policy = "none"]
WithStatus(r, status) == [r EXCEPT !.status = status, !.on = {}, !.policy = "none"]

-----------------------------------------------------------------------------
(* Ownership: walks over a task table T, committed or a commit's candidate *)

Live(T, x)       == T[x].status \notin {"unborn", "terminal"}
FailedOutcome(r) == r.outcome \notin {"none", "completed"}
Intent(T, x)     == Live(T, x) /\ (T[x].mark # "none" \/ FailedOutcome(T[x]))

\* The owner task above a node, and what the walk up from it meets.
Parent(s)        == IF s.owner # None THEN s.owner ELSE convOwner[s.conv]
Above(T, o)      == IF o = None THEN {} ELSE {o} \cup T[o].above
Holders(T, o)    == IF o = None THEN {}
                    ELSE {o} \cup (IF T[o].background THEN {} ELSE T[o].holders)

OwnedLive(T, x)  == {y \in TaskId : Live(T, y) /\ ~T[y].background /\ x \in T[y].holders}

\* IDs grow down an ownership chain, so the nearest task above is the largest.
Nearest(S)       == {x \in S : \A y \in S : y <= x}
\* Mutant: the walk up from ended work does not cross a conversation's owner edge.
NearestLiveAbove_OwnerOnly(T, x) ==
    IF T[x].owner = None THEN {} ELSE Nearest({y \in T[x].holders : Live(T, y)})
NearestLiveAbove(T, x) ==
    IF T[x].background THEN {} ELSE Nearest({y \in T[x].holders : Live(T, y)})

CancellingOwner(T, above) == Nearest({x \in above : Intent(T, x)})
BelowCancelled(T, above)  == CancellingOwner(T, above) # {}

\* Conversations on the chain above a task, and ordinary traversal from one.
ChainConvs(x) == {task[y].conv : y \in {x} \cup task[x].above}
InScope(x, c, cross) ==
    /\ c \in ChainConvs(x)
    /\ cross \/ \A y \in task[x].above : task[y].background => c \notin ChainConvs(y)
ConvInScope(d, c, cross) ==
    \/ d = c
    \/ LET o == convOwner[d]
       IN o # None /\ (cross \/ ~task[o].background) /\ InScope(o, c, cross)

\* Mutant: only failFast waits are indexed by what they wait on.
Waiters_FailFastOnly(T, x) ==
    {w \in TaskId : T[w].status = "waiting" /\ T[w].policy = "failFast" /\ x \in T[w].on}
Waiters(T, x) == {w \in TaskId : T[w].status = "waiting" /\ x \in T[w].on}

\* An edge x -> y of the wait-for graph: x cannot settle before y.
WaitsFor(T, x) ==
    IF ~Live(T, x) THEN {}
    ELSE OwnedLive(T, x) \cup
         (IF T[x].status = "waiting" /\ T[x].mark = "none" THEN T[x].on ELSE {})
WaitReach(T, S) ==
    {x \in TaskId : \A C \in SUBSET TaskId :
        (S \subseteq C /\ \A y \in C : WaitsFor(T, y) \subseteq C) => x \in C}

Blocked(x) == x \in Extension /\ ~installed

\* What an invocation of x waits for: abort runs bottom-up.
\* Mutant: abort waits for child tasks only.
WaitingOn_Children(x) ==
    IF task[x].mark # "none" THEN {y \in OwnedLive(task, x) : task[y].owner = x}
    ELSE IF task[x].status = "waiting" THEN {y \in task[x].on : Live(task, y)}
    ELSE {}
WaitingOn(x) ==
    IF task[x].mark # "none" THEN OwnedLive(task, x)
    ELSE IF task[x].status = "waiting" THEN {y \in task[x].on : Live(task, y)}
    ELSE {}

-----------------------------------------------------------------------------
(* Publication of a commit: T is the new table, Ch the tasks it wrote, Q   *)
(* the conversations that got a queued input, R and F the sets it left.    *)

Ended(T, Ch)   == {x \in Ch : T[x].status = "terminal"}
Newborn(T, Ch) == {x \in Ch : task[x].status = "unborn"}

Track(T, Ch, R, F) ==
    LET ended == Ended(T, Ch)
        freed == UNION {NearestLiveAbove(T, x) : x \in ended}
        done  == ended \cup {x \in Ch : T[x].status = "completing"}
    IN /\ runnable' = (R \cup Ch \cup (UNION {Waiters(T, x) : x \in ended})
                         \cup {x \in freed : T[x].status # "completing" /\ T[x].mark # "none"})
                      \ done
       /\ finalizeChecks' = (F \cup {x \in Ch \cup freed : T[x].status = "completing"}) \ ended

\* What raises the cascade flag: a new or upgraded mark, a failure that starts to
\* hold, an input queued or a task created below a cancelled owner.
Marked(T, live)      == \E x \in live : T[x].mark # "none" /\ task[x].mark = "none"
Upgraded(T, live)    == \E x \in live : task[x].mark = "restart" /\ T[x].mark = "request"
HoldsFailure(T, live) ==
    \E x \in live : T[x].status = "completing" /\ task[x].status # "completing" /\ Intent(T, x)
\* Mutant: an input that arrives after the cascade is forgotten.
QueuedBelow_Never(T, Q) == FALSE
QueuedBelow(T, Q)    == \E c \in Q : BelowCancelled(T, Holders(T, convOwner[c]))
BornBelow(T, Ch)     == \E x \in Newborn(T, Ch) : ~T[x].background /\ BelowCancelled(T, T[x].holders)
Cascades(T, Ch, Q) ==
    LET live == Ch \ Ended(T, Ch)
    IN \/ Marked(T, live) \/ Upgraded(T, live) \/ HoldsFailure(T, live)
       \/ QueuedBelow(T, Q) \/ BornBelow(T, Ch)

\* The failFast waits to check: new ones, and those on a task that just failed.
\* Mutant: a task that fails does not alarm the waits on it.
Alarmed_NewWaits(T, Ch) ==
    {w \in Ch : T[w].status = "waiting" /\ T[w].policy = "failFast" /\ task[w].status # "waiting"}
Alarmed(T, Ch) ==
    LET failed == {x \in Ch : FailedOutcome(T[x]) /\ ~FailedOutcome(task[x])}
    IN {w \in TaskId :
          /\ T[w].status = "waiting" /\ T[w].policy = "failFast"
          /\ (w \in Ch /\ task[w].status # "waiting") \/ T[w].on \cap failed # {}}

\* The reconcile #scheduleReconcile queues for the publication, if any.
Reconciles(T, Ch, Q) ==
    LET cascade == Cascades(T, Ch, Q)
        checks  == Alarmed(T, Ch)
        holds   == {x \in Ch : T[x].status = "completing" /\ task[x].status # "completing"}
    IN IF cascade \/ checks # {} \/ holds # {} \/ Ended(T, Ch) # {}
       THEN <<ReconcileJob(cascade, checks)>> ELSE <<>>

\* #kick: queue a reservation pass, or have the queued one followed by another.
Kick(L) ==
    IF harness # "running" \/ OnLine("reserve", L)
    THEN line' = L /\ dirty' = (harness = "running")
    ELSE line' = Append(L, ReserveJob) /\ dirty' = FALSE

\* Commit T outside a reservation pass.
Publish(T, Ch, Q, F, L) ==
    /\ task' = T
    /\ Track(T, Ch, runnable, F)
    /\ IF Ch = {} THEN line' = L \o Reconciles(T, Ch, Q) /\ dirty' = dirty
                  ELSE Kick(L \o Reconciles(T, Ch, Q))

-----------------------------------------------------------------------------
(* Creation: a commit stages at most one new task or conversation.  Its    *)
(* owner is judged on the owner's final candidate.                         *)

Born(T, s) ==
    LET up == Parent(s)
    IN [owner |-> s.owner, conv |-> s.conv, background |-> s.background,
        abandon |-> s.abandon, above |-> Above(T, up), holders |-> Holders(T, up),
        born |-> restarts, status |-> "pending", on |-> {}, policy |-> "none",
        outcome |-> "none", mark |-> "none"]

\* A child task is never background and lives in its owner's conversation.
ShapeAllowed(T, s) ==
    /\ s.conv \in convs
    /\ s.owner # None => ~s.background /\ s.conv = T[s.owner].conv /\ T[s.owner].status # "unborn"

NextTask == {n \in TaskId : /\ task[n].status = "unborn"
                            /\ \A m \in TaskId : m < n => task[m].status # "unborn"}
NextConv == {c \in ConvId : c \notin convs /\ \A d \in ConvId : d < c => d \in convs}

\* What a commit may stage beside its own writes, as candidate tables.
Nothing == [task |-> task, new |-> {}, convs |-> convs, convOwner |-> convOwner, owner |-> None]
StagedTasks ==
    UNION {{[Nothing EXCEPT !.task = [task EXCEPT ![n] = Born(task, s)], !.new = {n}, !.owner = s.owner] :
                s \in {s \in TaskShapes[n] : ShapeAllowed(task, s)}} : n \in NextTask}
StagedConvs ==
    UNION {{[Nothing EXCEPT !.convs = convs \cup {c}, !.convOwner = [convOwner EXCEPT ![c] = o], !.owner = o] :
                o \in {o \in ConvShapes[c] : o # None => task[o].status # "unborn"}} : c \in NextConv}

\* validateOwners: new owned work needs an owner that is neither decided nor marked.
OwnerOpen(T, o) ==
    o # None => Live(T, o) /\ T[o].status # "completing" /\ T[o].mark = "none"

Admitted == harness # "down" /\ Len(line) < MaxLine

HostCreate ==
    /\ Admitted
    /\ \E s \in StagedTasks \cup StagedConvs :
        /\ OwnerOpen(s.task, s.owner)
        /\ convs' = s.convs /\ convOwner' = s.convOwner
        /\ Publish(s.task, s.new, {}, finalizeChecks, line)
    /\ UNCHANGED <<queued, installed, restarts, harness, inv, abandoned>>

\* A queued input submission is admitted to a conversation's inbox.
Submit ==
    /\ Admitted
    /\ \E c \in (Inboxes \cap convs) \ queued :
        /\ queued' = queued \cup {c}
        /\ Publish(task, {}, {c}, finalizeChecks, line)
    /\ UNCHANGED <<convs, convOwner, installed, restarts, harness, inv, abandoned>>

-----------------------------------------------------------------------------
(* Outcomes and marks                                                      *)

\* The outcome is held as `completing` while ordinary owned work is live.
Decide(T, x, outcome) ==
    [T EXCEPT ![x] = WithOutcome(T[x], IF OwnedLive(T, x) = {} THEN "terminal" ELSE "completing",
                                 outcome)]

\* Request marks replace restart marks.
MarkRequest(T, S) == [x \in TaskId |-> IF x \in S THEN [T[x] EXCEPT !.mark = "request"] ELSE T[x]]

-----------------------------------------------------------------------------
(* Aborts                                                                  *)

\* No task code of x runs, will run, or is owned by it.
OrphansNow(x) ==
    /\ inv[x].mode = "none" /\ task[x].status # "completing"
    /\ OwnedLive(task, x) = {} /\ Blocked(x)
\* abort(): from the host, or with keepRestart from a live invocation of the owner.
AbortTask(x, keepRestart) ==
    /\ Admitted
    /\ Live(task, x)
    /\ keepRestart => task[x].owner # None /\ inv[task[x].owner].mode # "none"
    /\ ~(keepRestart /\ task[x].mark = "restart")
    /\ IF OrphansNow(x)
       THEN Publish(Decide(task, x, "orphaned"), {x}, {}, finalizeChecks, line)
       ELSE /\ task[x].mark # "request"
            /\ Publish(MarkRequest(task, {x}), {x}, {}, finalizeChecks, line)
    /\ UNCHANGED <<convs, convOwner, queued, installed, restarts, harness, inv, abandoned>>

AbortConversation(c, cross) ==
    /\ Admitted
    /\ c \in convs
    /\ LET reached == {x \in TaskId : /\ Live(task, x) /\ InScope(x, c, cross)
                                      /\ cross \/ ~task[x].background}
           marked  == {x \in reached : task[x].mark # "request"}
           scope   == {d \in queued : ConvInScope(d, c, cross)}
       IN /\ marked \cup scope # {}
          /\ queued' = queued \ scope
          /\ Publish(MarkRequest(task, marked), marked, {}, finalizeChecks, line)
    /\ UNCHANGED <<convs, convOwner, installed, restarts, harness, inv, abandoned>>

-----------------------------------------------------------------------------
(* The runtime of an invocation                                            *)

\* What a runtime commit may leave its task as.  A phase handler may commit until
\* the step that ends its invocation has run, also after it returned.
\* Mutant: only waiting on itself counts as a cycle.
WaitAllowed_SelfOnly(T, t, on, policy) ==
    /\ inv[t].mode = "run" /\ t \notin on
    /\ \A m \in on : T[m].status # "unborn" /\ (policy = "failFast" => T[m].owner = t)
WaitAllowed(T, t, on, policy) ==
    /\ inv[t].mode = "run"
    /\ \A m \in on : T[m].status # "unborn" /\ (policy = "failFast" => T[m].owner = t)
    /\ t \notin WaitReach(T, {m \in on : T[m].status # "terminal" /\ T[m].owner # t})

NextStates(T, t) ==
    {[table |-> T, moved |-> inv[t].moved, wrote |-> {}]}
    \cup {[table |-> T, moved |-> m, wrote |-> {t}] : m \in BOOLEAN}
    \cup {[table |-> Decide(T, t, o), moved |-> inv[t].moved, wrote |-> {t}] : o \in {"completed", "failed"}}
    \cup {[table |-> [T EXCEPT ![t] = [T[t] EXCEPT !.status = "waiting", !.on = w[1], !.policy = w[2]]],
           moved |-> inv[t].moved, wrote |-> {t}] :
            w \in {v \in Waits : WaitAllowed(T, t, v[1], v[2])}}

RuntimeCommit(t) ==
    /\ Admitted
    /\ inv[t].at \in {"handler", "returned"}
    /\ task[t].status = "running"
    /\ inv[t].mode = "run" => task[t].mark = "none"
    /\ \E s \in {Nothing} \cup StagedTasks \cup StagedConvs :
       \E next \in NextStates(s.task, t) :
        /\ OwnerOpen(next.table, s.owner)
        /\ convs' = s.convs /\ convOwner' = s.convOwner
        /\ inv' = [inv EXCEPT ![t].moved = next.moved]
        /\ Publish(next.table, s.new \cup next.wrote, {}, finalizeChecks, line)
    /\ UNCHANGED <<queued, installed, restarts, harness, abandoned>>

\* A phase or abort handler returns or throws; its step joins the line.
HandlerReturn(t) ==
    /\ inv[t].at = "handler"
    /\ \E failed \in IF inv[t].mode = "run" THEN BOOLEAN ELSE {FALSE} :
        inv' = [inv EXCEPT ![t].at = "returned", ![t].failed = failed]
    /\ line' = Append(line, StepJob(t))
    /\ UNCHANGED <<task, convs, convOwner, queued, installed, restarts,
                   harness, runnable, finalizeChecks, abandoned, dirty>>

-----------------------------------------------------------------------------
(* Jobs on the Session line                                                *)

\* An invocation ends inside its step, with T and a job L the step adds; the task
\* is a candidate again, and #start kicks a reservation pass.
EndInvocation(t, T, Ch, L) ==
    /\ inv' = [inv EXCEPT ![t] = NoInvocation]
    /\ task' = T
    /\ Track(T, Ch, runnable \cup (IF Live(task, t) THEN {t} ELSE {}), finalizeChecks)
    /\ Kick(Tail(line) \o L \o Reconciles(T, Ch, {}))

StepHead(t) == Head1("step") /\ Head(line).task = t
StepFrame   == UNCHANGED <<convs, convOwner, queued, installed, restarts, harness, abandoned>>

\* The task is no longer running, or is marked, or waits for its cascade mark.
HeldBack(t)     == ~task[t].background /\ BelowCancelled(task, task[t].holders)
\* Mutant: a step also decides for a task that already holds an outcome.
Undecided_Held(t) == task[t].status \in {"running", "completing"} /\ task[t].mark = "none" /\ ~HeldBack(t)
Undecided(t)    == task[t].status = "running" /\ task[t].mark = "none" /\ ~HeldBack(t)
\* Rules 4 and 6: the phase threw, or left the checkpoint as it was.
PhaseFaulted(t) == inv[t].at = "returned" /\ (inv[t].failed \/ ~inv[t].moved)
\* Rule 5: a replacement definition that can take the task is registered.
HandsOver(t)    == inv[t].at = "returned" /\ inv[t].stale /\ ~Blocked(t)

RunStep(t) ==
    /\ StepHead(t) /\ inv[t].mode = "run"
    /\ \/ /\ task[t].status # "running" \/ task[t].mark # "none"
          /\ EndInvocation(t, task, {}, <<>>)
       \/ /\ task[t].status = "running" /\ task[t].mark = "none" /\ HeldBack(t)
          /\ EndInvocation(t, task, {}, <<ReconcileJob(TRUE, {})>>)
       \/ /\ Undecided(t) /\ PhaseFaulted(t)
          /\ EndInvocation(t, Decide(task, t, "faulted"), {t}, <<>>)
       \/ /\ Undecided(t) /\ ~PhaseFaulted(t) /\ HandsOver(t)
          /\ EndInvocation(t, [task EXCEPT ![t] = WithStatus(task[t], "pending")], {t}, <<>>)
       \/ /\ Undecided(t) /\ ~PhaseFaulted(t) /\ ~HandsOver(t)
          /\ inv' = [inv EXCEPT ![t].at = "handler", ![t].moved = FALSE, ![t].failed = FALSE]
          /\ line' = Tail(line)
          /\ UNCHANGED <<task, runnable, finalizeChecks, dirty>>
    /\ StepFrame

\* An abort handler that returns without a terminal outcome faults.
AbortStep(t) ==
    /\ StepHead(t) /\ inv[t].mode = "abort"
    /\ IF task[t].status = "running"
       THEN EndInvocation(t, Decide(task, t, "faulted"), {t}, <<>>)
       ELSE EndInvocation(t, task, {}, <<>>)
    /\ StepFrame

\* The first pass of a Harness only marks the abandoned tasks.
ReserveAbandoned ==
    /\ Head1("reserve") /\ abandoned # {}
    /\ LET Ch == {x \in abandoned : Live(task, x) /\ task[x].mark = "none"}
           T  == [x \in TaskId |-> IF x \in Ch THEN [task[x] EXCEPT !.mark = "restart"] ELSE task[x]]
       IN /\ task' = T
          /\ Track(T, Ch, runnable, finalizeChecks)
          /\ line' = Append(Tail(line) \o Reconciles(T, Ch, {}), ReserveJob)
    /\ abandoned' = {} /\ dirty' = FALSE
    /\ UNCHANGED <<convs, convOwner, queued, installed, restarts, harness, inv>>

\* Candidates a reservation pass drops, holds back for their cascade mark, finds
\* without a definition, and takes.
Dropped  == {x \in runnable : \/ ~Live(task, x) \/ task[x].status = "completing"
                              \/ inv[x].mode # "none" \/ WaitingOn(x) # {}}
Held     == {x \in runnable \ Dropped : task[x].mark = "none" /\ HeldBack(x)}
\* Mutant: a restart mark orphans too.
Orphans_AnyMark == {x \in runnable \ (Dropped \cup Held) : Blocked(x) /\ task[x].mark # "none"}
Orphans  == {x \in runnable \ (Dropped \cup Held) : Blocked(x) /\ task[x].mark = "request"}
Taken    == {x \in runnable \ (Dropped \cup Held) : ~Blocked(x)}

\* A Set's insertion order is not tracked: any order of the first steps.
Orders(S) == {q \in [1 .. Cardinality(S) -> S] : \A x \in S : \E i \in DOMAIN q : q[i] = x}

Reserve ==
    /\ Head1("reserve") /\ abandoned = {}
    /\ LET Ch   == Orphans \cup {x \in Taken : task[x].status # "running"}
           T    == [x \in TaskId |->
                      IF x \in Orphans THEN WithOutcome(task[x], "terminal", "orphaned")
                      ELSE IF x \in Taken THEN WithStatus(task[x], "running") ELSE task[x]]
           mode == [x \in TaskId |-> IF task[x].mark = "none" THEN "run" ELSE "abort"]
           cascade == IF Held # {} THEN <<ReconcileJob(TRUE, {})>> ELSE <<>>
       IN /\ task' = T
          /\ inv' = [x \in TaskId |->
                IF x \notin Taken THEN inv[x]
                ELSE [NoInvocation EXCEPT !.mode = mode[x],
                                          !.at = IF mode[x] = "run" THEN "first" ELSE "handler"]]
          /\ Track(T, Ch, runnable \ (Dropped \cup Taken), finalizeChecks)
          /\ \E steps \in Orders({x \in Taken : mode[x] = "run"}) :
                line' = Tail(line) \o cascade \o Reconciles(T, Ch, {})
                        \o [i \in DOMAIN steps |-> StepJob(steps[i])]
                        \o (IF dirty \/ Ch # {} THEN <<ReserveJob>> ELSE <<>>)
          /\ dirty' = FALSE
    /\ UNCHANGED <<convs, convOwner, queued, installed, restarts, harness, abandoned>>

\* The marks a reconcile derives: below each cancelling owner, which passes a
\* restart on and otherwise requests, and by the failFast waits it checks.
CascadeMark(x) ==
    LET owner == CancellingOwner(task, task[x].holders)
    IN IF ~Live(task, x) \/ task[x].background \/ owner = {} THEN "none"
       ELSE IF \E o \in owner : task[o].mark = "restart" /\ ~FailedOutcome(task[o])
            THEN "restart" ELSE "request"
FailFastMarks(checks) ==
    {m \in TaskId : /\ Live(task, m) /\ ~FailedOutcome(task[m])
                    /\ \E w \in checks : /\ task[w].status = "waiting" /\ m \in task[w].on
                                         /\ \E f \in task[w].on : FailedOutcome(task[f])}
Reconciled(checks) ==
    [x \in TaskId |->
        LET reason == IF x \in FailFastMarks(checks) THEN "request" ELSE CascadeMark(x)
        IN IF reason = "request" \/ (reason = "restart" /\ task[x].mark = "none")
           THEN [task[x] EXCEPT !.mark = reason] ELSE task[x]]

\* The least fixpoint of #finalize's worklist: a holder ends with all it holds.
\* Mutant: a checked holder ends whatever it holds.
Finalizable_Checked(T, x) == T[x].status = "completing" /\ x \in finalizeChecks
Finalizable(T, x) ==
    \A y \in {x} \cup OwnedLive(T, x) :
        /\ T[y].status = "completing"
        /\ OwnedLive(T, y) = {} => y \in finalizeChecks

Reconcile ==
    /\ Head1("reconcile")
    /\ LET job == Head(line)
           M   == Reconciled(job.checks)
           T   == [x \in TaskId |-> IF Finalizable(M, x) THEN [M[x] EXCEPT !.status = "terminal"] ELSE M[x]]
           Ch  == {x \in TaskId : T[x] # task[x]}
       IN /\ queued' = IF job.cascade
                       THEN {c \in queued : ~BelowCancelled(task, Holders(task, convOwner[c]))}
                       ELSE queued
          /\ Publish(T, Ch, {}, {}, Tail(line))
    /\ UNCHANGED <<convs, convOwner, installed, restarts, harness, inv, abandoned>>

-----------------------------------------------------------------------------
(* The Harness and the registry                                            *)

\* Mutant: a task that holds its outcome is not abandoned.
AbandonedAtOpen_Runnable ==
    {x \in TaskId : Live(task, x) /\ task[x].abandon /\ task[x].status # "completing"}
AbandonedAtOpen == {x \in TaskId : Live(task, x) /\ task[x].abandon}
\* open() and its commit; nothing is dispatched until resume().
Open ==
    /\ harness = "down"
    /\ harness' = "paused"
    /\ task' = [x \in TaskId |-> IF task[x].status = "running"
                                 THEN WithStatus(task[x], "pending") ELSE task[x]]
    /\ runnable' = {x \in TaskId : Live(task, x) /\ task[x].status # "completing"}
    /\ finalizeChecks' = {x \in TaskId : task[x].status = "completing"}
    /\ abandoned' = AbandonedAtOpen
    /\ line' = <<ReconcileJob(TRUE, {x \in TaskId : /\ task[x].status = "waiting"
                                                    /\ task[x].policy = "failFast"})>>
    /\ UNCHANGED <<convs, convOwner, queued, installed, restarts, inv, dirty>>

Resume ==
    /\ harness = "paused"
    /\ harness' = "running"
    /\ line' = Append(line, ReserveJob) /\ dirty' = FALSE
    /\ UNCHANGED <<task, convs, convOwner, queued, installed, restarts,
                   inv, runnable, finalizeChecks, abandoned>>

\* Close, a Session failure or a crash: between two jobs, as a commit that did not
\* settle either did or did not reach Storage.
Stop ==
    /\ harness # "down" /\ restarts < MaxRestarts
    /\ harness' = "down" /\ restarts' = restarts + 1
    /\ inv' = [x \in TaskId |-> NoInvocation]
    /\ runnable' = {} /\ finalizeChecks' = {} /\ abandoned' = {}
    /\ line' = <<>> /\ dirty' = FALSE
    /\ UNCHANGED <<task, convs, convOwner, queued, installed>>

\* Extension definitions are registered, replaced or removed; the registry
\* subscription kicks a reservation pass.
RegistryChange ==
    /\ Extension # {}
    /\ installed' \in BOOLEAN
    /\ inv' = [x \in TaskId |-> IF x \in Extension /\ inv[x].mode = "run" /\ installed'
                                THEN [inv[x] EXCEPT !.stale = TRUE] ELSE inv[x]]
    /\ Kick(line)
    /\ UNCHANGED <<task, convs, convOwner, queued, restarts, harness,
                   runnable, finalizeChecks, abandoned>>

-----------------------------------------------------------------------------
(* The specification                                                       *)

Init ==
    /\ task = [x \in TaskId |-> Unborn]
    /\ convs = {Root} /\ convOwner = [c \in ConvId |-> None] /\ queued = {}
    /\ installed = TRUE /\ restarts = 0
    /\ harness = "down"
    /\ inv = [x \in TaskId |-> NoInvocation]
    /\ runnable = {} /\ finalizeChecks = {} /\ abandoned = {}
    /\ line = <<>> /\ dirty = FALSE

LineJob ==
    \/ ReserveAbandoned \/ Reserve \/ Reconcile
    \/ \E t \in TaskId : RunStep(t) \/ AbortStep(t)

Next ==
    \/ HostCreate \/ Submit
    \/ \E x \in Abortable, keepRestart \in BOOLEAN : AbortTask(x, keepRestart)
    \/ \E c \in AbortScopes, cross \in BOOLEAN : AbortConversation(c, cross)
    \/ \E t \in TaskId : RuntimeCommit(t) \/ HandlerReturn(t)
    \/ LineJob
    \/ Open \/ Resume \/ Stop \/ RegistryChange

Spec == Init /\ [][Next]_vars

\* The line drains, handlers return, and the host reopens and resumes.  A job at the
\* head of the line is always enabled (StepPromised), so the first conjunct
\* is WF_vars(LineJob) with ENABLED written out.
Fairness ==
    /\ []<>(line = <<>>) \/ []<><<LineJob>>_vars
    /\ \A t \in TaskId : WF_vars(HandlerReturn(t))
    /\ WF_vars(Open) /\ WF_vars(Resume)

FairSpec == Spec /\ Fairness

-----------------------------------------------------------------------------
(* Properties                                                              *)

\* Every variable keeps its type; records keep the fields TaskRecord declares.
TypeOK ==
    /\ task \in [TaskId -> TaskRecord]
    /\ convs \subseteq ConvId /\ convOwner \in [ConvId -> Owner] /\ queued \subseteq ConvId
    /\ installed \in BOOLEAN /\ restarts \in 0 .. MaxRestarts
    /\ harness \in {"down", "paused", "running"}
    /\ inv \in [TaskId -> Invocation]
    /\ runnable \subseteq TaskId /\ finalizeChecks \subseteq TaskId /\ abandoned \subseteq TaskId
    /\ line \in Seq(Job) /\ dirty \in BOOLEAN

\* A live child has a live owner: whatever decides a task (its own commit, a fault,
\* an orphaning, a reconcile) holds it until its children are gone, and no child is
\* created once it is decided.
LiveChildHasLiveOwner ==
    \A x \in TaskId : Live(task, x) /\ task[x].owner # None => Live(task, task[x].owner)

\* A terminal receipt guarantees that the ordinary owned work drained (spec 5.5),
\* also across conversations, through ended tasks and through what the same commit
\* creates.
DrainBeforeTerminal ==
    [][\A x \in TaskId : task[x].status # "terminal" /\ task'[x].status = "terminal"
                            => OwnedLive(task', x) = {}]_vars

\* A decided outcome is final: no later fault, abort, orphaning or restart changes it,
\* and marks only go from none to restart to request.
DecidedIsFinal ==
    [][\A x \in TaskId :
        /\ task[x].outcome # "none" => /\ task'[x].outcome = task[x].outcome
                                       /\ task'[x].status \in {"completing", "terminal"}
        /\ task[x].status = "terminal" => task'[x] = task[x]
        /\ task[x].mark = "request" => task'[x].mark = "request"
        /\ task[x].mark = "restart" => task'[x].mark # "none"]_vars

\* Abort runs bottom-up: while the abort handler of an undecided task runs, no phase
\* of its ordinary owned work runs, not even of work created below it meanwhile.
AbortRunsAlone ==
    \A x \in TaskId : inv[x].mode = "abort" /\ Live(task, x) =>
        \A y \in OwnedLive(task, x) : ~(inv[y].mode = "run" /\ inv[y].at \in {"handler", "returned"})

\* Nothing of a task abandoned by an earlier Harness, or below it, runs a phase again.
AbandonedNeverResumes ==
    \A x \in TaskId : inv[x].mode = "run" /\ inv[x].at \in {"handler", "returned"} =>
        \A y \in {x} \cup (IF task[x].background THEN {} ELSE task[x].holders) :
            Live(task, y) /\ task[y].abandon => task[y].born = restarts

\* The wait-for graph (waits, and holders on what they hold) has no cycle, so no
\* group of tasks waits on itself for ever.
WaitGraphAcyclic ==
    \A x \in TaskId : x \notin WaitReach(task, WaitsFor(task, x))

\* Only a request orphans (spec 5.4): a task whose definition is gone is never orphaned
\* for that alone, nor for a restart mark, which waits for the definition; and an
\* orphaned outcome never holds: the task ends with it.
OrphanedByRequest ==
    [][\A x \in TaskId :
        task[x].outcome # "orphaned" /\ task'[x].outcome = "orphaned"
            => /\ task[x].mark = "request" \/ \E keepRestart \in BOOLEAN : AbortTask(x, keepRestart)
               /\ task'[x].status = "terminal"]_vars

\* No lost cascade: while a mark is owed below a cancelled owner, a reconcile is queued.
CascadePromised ==
    harness # "down" /\ Reconciled({}) # task => OnLine("reconcile", line)

\* No lost finalization: a holder that holds nothing is checked by a queued reconcile.
FinalizePromised ==
    \A x \in TaskId :
        harness # "down" /\ task[x].status = "completing" /\ OwnedLive(task, x) = {}
            => x \in finalizeChecks /\ OnLine("reconcile", line)

\* No lost failFast: a waiter that owes its members marks is in a queued reconcile.
FailFastPromised ==
    \A w \in TaskId :
        /\ harness # "down"
        /\ task[w].status = "waiting" /\ task[w].policy = "failFast"
        /\ Reconciled({w}) # Reconciled({})
        => \E i \in DOMAIN line : line[i].kind = "reconcile" /\ w \in line[i].checks

\* No lost wakeup: a task a reservation pass would take or orphan is a candidate of
\* a queued pass.
ReservePromised ==
    harness = "running" =>
        \A x \in TaskId :
            /\ Live(task, x) /\ task[x].status # "completing" /\ inv[x].mode = "none"
            /\ WaitingOn(x) = {} /\ ~(task[x].mark = "none" /\ HeldBack(x))
            /\ ~Blocked(x) \/ task[x].mark = "request"
            => x \in runnable /\ OnLine("reserve", line)

\* No input survives below a cancelled owner: its withdrawal is queued.
WithdrawalPromised ==
    harness # "down" =>
        \A c \in queued : BelowCancelled(task, Holders(task, convOwner[c]))
            => \E i \in DOMAIN line : line[i].kind = "reconcile" /\ line[i].cascade

\* No lost step: an invocation has exactly one step on the line before its first phase
\* and after a handler returned, and none otherwise.
StepPromised ==
    \A t \in TaskId :
        Cardinality({i \in DOMAIN line : line[i].kind = "step" /\ line[i].task = t})
            = IF inv[t].at \in {"first", "returned"} THEN 1 ELSE 0

\* Every piece of work the records and the invocations owe has a job on the line that
\* will do it.
NothingForgotten ==
    /\ StepPromised /\ CascadePromised /\ FinalizePromised /\ FailFastPromised
    /\ ReservePromised /\ WithdrawalPromised

\* A cancellation ends: a task that is requested to abort, or holds a failure while its
\* owned work is cancelled, becomes terminal, whatever races it, and across restarts.
CancellationEnds ==
    \A x \in TaskId :
        task[x].mark = "request" \/ (task[x].status = "completing" /\ FailedOutcome(task[x]))
            ~> task[x].status = "terminal"

\* A wait whose tasks have all ended is resumed or aborted.
WaitEnds ==
    \A x \in TaskId \ Extension :
        task[x].status = "waiting" /\ (\A m \in task[x].on : task[m].status = "terminal")
            ~> task[x].status # "waiting"
=============================================================================
