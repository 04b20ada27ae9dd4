---------------------------- MODULE Conversation ----------------------------
(***************************************************************************)
(* One conversation of the durable Harness: hosts submit inputs and writes, *)
(* withdraw them, abort and compact; generation tasks (harness/             *)
(* generation.ts) prepare, request, retry, poll and run tool rounds; tool   *)
(* tasks settle their calls; compaction tasks (harness/compaction.ts)       *)
(* select, summarize and place; the scheduler marks what an abort reaches   *)
(* and writes the outcome of a task that throws.  Every action is one       *)
(* commit of the Session line, or a read a handler makes between two of     *)
(* them.  A process that stops keeps the committed records and loses what   *)
(* its handlers had read.                                                   *)
(*                                                                         *)
(* The model's replies, the tools' results and the size of the context are  *)
(* the environment's choices.  How the scheduler decides which handler may  *)
(* run is module TaskScheduler; here a task may run when it is live, not    *)
(* marked, and every task it waits for is terminal.                         *)
(***************************************************************************)
EXTENDS ConversationTx

CONSTANT Stories    \* what hosts, models and tools may do, one record per story

(* What a host may submit: an input is a user message; a write says what kind of *)
(* entry it is, and a cut gets its head when it is submitted.                 *)
Drafts ==
    LET busy == {"steer", "followUp", "reject"}
        written == {[Blank EXCEPT !.kind = kind] : kind \in {"note", "display", "reset", "cut"}}
    IN [type : {"input"}, busy : busy, entry : {Blank}] \cup [type : {"write"}, busy : busy, entry : written]

QueueModes == {"all", "one-at-a-time"}
Calls == [id : Nat, offered : BOOLEAN]

(* Settings, and rounds of calls a model tells apart by their IDs.             *)
ASSUME StoriesAssumption ==
    \A e \in Stories :
        /\ e.retries \in Nat
        /\ \A what \in DOMAIN e.limit : e.limit[what] \in Nat
        /\ \A r \in DOMAIN e.draft : e.draft[r] \in Drafts
        /\ e.modes \subseteq [steer : QueueModes, followUp : QueueModes]
        /\ \A round \in e.rounds :
             /\ round.calls \in Seq(Calls) /\ round.sequential \in BOOLEAN
             /\ \A i, j \in DOMAIN round.calls : round.calls[i].id = round.calls[j].id => i = j

VARIABLES
    env,     \* the story of this behaviour
    db,      \* the committed records of the conversation
    local,   \* what running handlers hold in memory
    used     \* choices of the environment made so far

vars == <<env, db, local, used>>

Draft      == env.draft         \* what each request of the host submits
Requests   == DOMAIN env.draft
Modes      == env.modes         \* queue modes the settings may have at a boundary
Rounds     == env.rounds        \* tool rounds the model may ask for
Replies    == env.replies       \* how a request may end besides an answer
MaxRetries == env.retries       \* the retry policy's maxRetries
Limit      == env.limit         \* bound: how often each choice of the environment is made

Budgets == {"rounds", "compactions", "continuations", "defers", "crashes", "aborts",
            "faults", "partials", "systems"}
May(what) == what \in DOMAIN Limit /\ used[what] < Limit[what]
Spend(what) == May(what) /\ used' = [used EXCEPT ![what] = @ + 1] /\ UNCHANGED env
Free == UNCHANGED <<env, used>>

Tasks == DOMAIN db.tasks
Task(t) == db.tasks[t]
Live(t) == Task(t).status = "live"
Terminal(t) == Task(t).status = "done"
Gen(t) == Task(t).kind = "gen"
Owned(t) == {c \in Tasks : Task(c).owner = t}

(* A handler of `t` may run in its phase.                                    *)
Runs(t, phase) ==
    /\ Live(t)
    /\ ~Task(t).marked
    /\ Task(t).phase = phase
    /\ \A c \in Task(t).on : Terminal(c)

Local(t, step, view, cut, cover) == [task |-> t, step |-> step, view |-> view, cut |-> cut, cover |-> cover]
Holds(t, step) == \E l \in local : l.task = t /\ l.step = step

(* What handlers hold is gone with their task's mark or end.                 *)
Kept(tx) == {l \in local : tx.tasks[l.task].status = "live" /\ ~tx.tasks[l.task].marked}

(* One commit by someone else, and the last one of a phase of `t`.            *)
Commit(tx) == db' = tx /\ local' = Kept(tx)
CommitPhase(t, tx) == db' = tx /\ local' = {l \in Kept(tx) : l.task # t}

SetTask(tx, t, task) == [tx EXCEPT !.tasks[t] = task]
Ended(tx, t, outcome) ==
    SetTask(tx, t, [NewTask EXCEPT !.kind = tx.tasks[t].kind, !.owner = tx.tasks[t].owner,
                                   !.background = tx.tasks[t].background, !.call = tx.tasks[t].call,
                                   !.ref = tx.tasks[t].ref, !.status = "done", !.phase = "end",
                                   !.outcome = outcome])

Init ==
    /\ env \in Stories
    /\ db = EmptyTx
    /\ local = {}
    /\ used = [what \in Budgets |-> 0]

-----------------------------------------------------------------------------
(* The host.                                                                *)

(* Submit, or submit again, what the request stands for; a write with a head  *)
(* names some entry the host has seen.                                       *)
Submit(r) ==
    /\ \E modes \in Modes :
         IF Draft[r].entry.kind = "cut"
         THEN \E n \in DOMAIN db.entries :
                Commit(AdmitSubmission(db, r, [Draft[r] EXCEPT !.entry.head = n], modes))
         ELSE Commit(AdmitSubmission(db, r, Draft[r], modes))
    /\ Free

(* Withdraw a queued submission; placed and settled ones are only reported.   *)
AbortSubmission(s) ==
    /\ db.subs[s].status = "queued"
    /\ Spend("aborts")
    /\ Commit(RemoveInboxItem(SettleSubmission(db, s, "unanswered", 0, "aborted"), s))

Mark(tx, S) ==
    [tx EXCEPT !.tasks = [t \in DOMAIN @ |-> IF t \in S /\ @[t].status = "live"
                                             THEN [@[t] EXCEPT !.marked = TRUE] ELSE @[t]]]

(* Abort the conversation: withdraw what is queued and mark its live tasks,   *)
(* background ones only when asked.                                         *)
AbortConversation(background) ==
    /\ Spend("aborts")
    /\ Commit(Mark(WithdrawQueuedInputs(db), {t \in Tasks : background \/ ~Task(t).background}))

AbortTask(t) ==
    /\ Live(t)
    /\ Spend("aborts")
    /\ Commit(Mark(db, {t}))

Compact ==
    /\ Spend("compactions")
    /\ Commit(CreateCompaction(db, 0, FALSE))

(* The process stops and the Harness is opened again.                        *)
Crash ==
    /\ Spend("crashes")
    /\ local' = {}
    /\ UNCHANGED db

-----------------------------------------------------------------------------
(* Generation: preparation.                                                  *)

FailRun(t, why) == CommitPhase(t, Ended(EndRun(db, t, "unanswered", 0, why), t, "failed"))

(* The agent has no model, or its model is gone.                             *)
FailNoModel(t) ==
    /\ Gen(t)
    /\ \/ Runs(t, "prepare") /\ ~Holds(t, "prepared")
       \/ Runs(t, "request") /\ Holds(t, "streaming")
       \/ Runs(t, "poll")
    /\ "no_model" \in Replies
    /\ FailRun(t, "no_model")
    /\ Free

(* The compaction this generation waited for did not make room.              *)
CompactionUnusable(t) ==
    LET outcome == Task(Task(t).compacted).outcome IN
    /\ Task(t).compacted # 0
    /\ \/ Task(t).via = "overflow" /\ outcome # "summary"
       \/ Task(t).via = "threshold" /\ outcome \notin {"summary", "empty"}

FailCompaction(t) ==
    /\ Gen(t) /\ Runs(t, "prepare") /\ ~Holds(t, "prepared")
    /\ CompactionUnusable(t)
    /\ FailRun(t, "model_error")
    /\ Free

(* Read the context the request will send, and whether a compaction could cut *)
(* it.                                                                       *)
ReadContext(t) ==
    /\ Gen(t) /\ Runs(t, "prepare") /\ ~Holds(t, "prepared")
    /\ ~CompactionUnusable(t)
    /\ local' = local \cup {Local(t, "prepared", ModelContext(db), NewestOf(SelectCut(db)), {})}
    /\ UNCHANGED <<env, db, used>>

(* Whether the context `t` has read is one a threshold compaction may cut.    *)
MayCut(t) == Task(t).compacted = 0 /\ \E l \in local : l.task = t /\ l.step = "prepared" /\ l.cut > 0

(* The context is over the threshold: compact first, and prepare again.       *)
PrepareBlocked(t) ==
    /\ Gen(t) /\ Runs(t, "prepare") /\ Holds(t, "prepared")
    /\ MayCut(t)
    /\ Spend("compactions")
    /\ LET child == Len(db.tasks) + 1
           created == CreateCompaction(db, t, FALSE)
       IN CommitPhase(t, SetTask(created, t, [Task(t) EXCEPT
              !.on = {child}, !.compacted = child, !.via = "threshold"]))

(* Append the system entries the request needs, start a background           *)
(* compaction if one is due and none is listed, and fix the request's cutoff. *)
ToRequest(t, system, background) ==
    LET planned == IF system THEN AppendEntry(db, [Blank EXCEPT !.kind = "system"]) ELSE db
        started == IF background THEN CreateCompaction(planned, 0, TRUE) ELSE planned
    IN SetTask(started, t, [Task(t) EXCEPT !.phase = "request", !.on = {}, !.via = "none",
                                          !.cutoff = Len(planned.entries)])

PrepareRequest(t) ==
    /\ Gen(t) /\ Runs(t, "prepare") /\ Holds(t, "prepared")
    /\ \/ CommitPhase(t, ToRequest(t, FALSE, FALSE)) /\ Free
       \/ CommitPhase(t, ToRequest(t, TRUE, FALSE)) /\ Spend("systems")
       \/ /\ MayCut(t)
          /\ db.live.compactions = <<>>
          /\ CommitPhase(t, ToRequest(t, FALSE, TRUE))
          /\ Spend("compactions")

-----------------------------------------------------------------------------
(* Generation: the request and its reply.                                    *)

(* A partial an earlier attempt left becomes an aborted answer first.         *)
RequestStart(t) ==
    /\ Gen(t) /\ Runs(t, "request") /\ ~Holds(t, "streaming")
    /\ db' = [ConvertPartial(db) EXCEPT !.live.gen = "attempt"]
    /\ local' = local \cup {Local(t, "streaming", {}, 0, {})}
    /\ Free

StreamPartial(t) ==
    /\ Gen(t) /\ Runs(t, "request") /\ Holds(t, "streaming")
    /\ db.live.gen # "partial"
    /\ Spend("partials")
    /\ Commit([db EXCEPT !.live.gen = "partial"])

(* Mutant: only the process that deferred the reply polls for it.             *)
HasReply_SameProcess(t) == Gen(t) /\ Runs(t, "request") /\ Holds(t, "streaming")

(* The request of `t` has its reply: streamed, or polled.                     *)
HasReply(t) ==
    Gen(t) /\ (Runs(t, "poll") \/ (Runs(t, "request") /\ Holds(t, "streaming")))

Assistant(t, kind) == [Blank EXCEPT !.kind = kind, !.ref = Task(t).cutoff]

Deferred(t) ==
    /\ HasReply(t)
    /\ "deferred" \in Replies
    /\ Spend("defers")
    /\ CommitPhase(t, SetTask([db EXCEPT !.live.gen = "deferred"], t, [Task(t) EXCEPT !.phase = "poll"]))

(* The final answer, and the final boundary.  A continuation keeps the run    *)
(* unless the boundary selected a user item or a reset.                       *)
Answer(t) ==
    LET answered == AppendEntry(db, Assistant(t, "assistant"))
        answer == Len(answered.entries)
    IN /\ HasReply(t)
       /\ \E modes \in Modes, continue \in BOOLEAN :
            LET at == ApplyBoundary(answered, ActiveStart(db), "final", modes)
                next == HandOver(AppendEntry(at.tx, Blank), t)
            IN /\ IF continue THEN Spend("continuations") ELSE Free
               /\ IF continue /\ at.users = <<>> /\ ~at.reset
                  THEN CommitPhase(t, Ended([next EXCEPT !.live.gen = "none"], t, "completed"))
                  ELSE CommitPhase(t, Ended(
                         StartRunOf([at EXCEPT !.tx = EndRun(@, t, "done", answer, "none")]), t, "completed"))

(* A context overflow, the first of this generation: compact and prepare      *)
(* again.                                                                    *)
Overflow(t) ==
    LET answered == [AppendEntry(db, Assistant(t, "failed")) EXCEPT !.live.gen = "none"]
        child == Len(db.tasks) + 1
    IN /\ HasReply(t)
       /\ "overflow" \in Replies
       /\ Task(t).compacted = 0
       /\ SelectCut(db) # {}
       /\ Spend("compactions")
       /\ CommitPhase(t, SetTask(CreateCompaction(answered, t, FALSE), t, [Task(t) EXCEPT
              !.phase = "prepare", !.on = {child}, !.compacted = child, !.via = "overflow"]))

RetryLater(t) ==
    /\ HasReply(t)
    /\ "error" \in Replies
    /\ Task(t).attempt <= MaxRetries
    /\ Free
    /\ CommitPhase(t, SetTask([AppendEntry(db, Assistant(t, "failed")) EXCEPT !.live.gen = "retry"],
                              t, [Task(t) EXCEPT !.phase = "retry"]))

RetryWake(t) ==
    /\ Gen(t) /\ Runs(t, "retry")
    /\ Commit(SetTask([db EXCEPT !.live.gen = "attempt"], t,
                      [Task(t) EXCEPT !.phase = "prepare", !.attempt = @ + 1]))
    /\ Free

ModelError(t) ==
    /\ HasReply(t)
    /\ "error" \in Replies
    /\ CommitPhase(t, Ended(EndRun(AppendEntry(db, Assistant(t, "failed")), t, "unanswered", 0, "model_error"),
                            t, "failed"))
    /\ Free

-----------------------------------------------------------------------------
(* Tool rounds.                                                              *)

ToolTask(t, answer, call) == [NewTask EXCEPT !.kind = "tool", !.phase = "call", !.owner = t, !.ref = answer, !.call = call]

(* The calls of a round: one the request did not offer is answered here, the   *)
(* others start, in a sequential round only the first of them.                *)
StartCalls(t, tx, round) ==
    LET answer == Len(tx.entries)
        calls == round.calls
        refused == {k \in DOMAIN calls : ~calls[k].offered}
        offered == DOMAIN calls \ refused
        started == IF round.sequential THEN {k \in offered : \A j \in offered : k <= j} ELSE offered
        later == offered \ started
        result(call) == [Blank EXCEPT !.kind = "result", !.ref = answer, !.call = call]
        slot(k) ==
            [task |-> IF k \in started THEN Len(tx.tasks) + Rank(started, k) ELSE 0,
             status |-> IF k \in refused THEN "done" ELSE "pending",
             entry |-> IF k \in refused THEN answer + Rank(refused, k) ELSE 0,
             call |-> calls[k].id]
    IN [tx |-> [tx EXCEPT
                  !.entries = @ \o [n \in 1..Cardinality(refused) |-> result(Keep(calls, refused)[n].id)],
                  !.tasks = @ \o [n \in 1..Cardinality(started) |->
                                     ToolTask(t, answer, Keep(calls, started)[n].id)]],
        on |-> {Len(tx.tasks) + n : n \in 1..Cardinality(started)},
        pending |-> [n \in 1..Cardinality(later) |-> Keep(calls, later)[n].id],
        slots |-> [k \in DOMAIN calls |-> slot(k)]]

StartToolRound(t) ==
    LET answer == Len(db.entries) + 1
    IN /\ HasReply(t)
       /\ Spend("rounds")
       /\ \E round \in Rounds :
            LET made == {call.id : call \in Range(round.calls)}
                r == StartCalls(t, AppendEntry(db, [Assistant(t, "assistant") EXCEPT !.calls = made]), round)
            IN CommitPhase(t, SetTask([r.tx EXCEPT !.live = [@ EXCEPT !.gen = "none", !.slots = r.slots]], t,
                   [Task(t) EXCEPT !.phase = "tools", !.on = r.on, !.pending = r.pending, !.ref = answer]))

(* Start the next call of a sequential round.                                *)
ToolsNext(t) ==
    LET call == Head(Task(t).pending)
        child == Len(db.tasks) + 1
        created == CreateTask(db, ToolTask(t, Task(t).ref, call))
        isNext(slot) == slot.call = call /\ slot.task = 0
    IN /\ Gen(t) /\ Runs(t, "tools")
       /\ Task(t).pending # <<>>
       /\ Commit(SetTask([created EXCEPT !.live.slots =
                    [i \in DOMAIN @ |-> IF isNext(@[i]) THEN [@[i] EXCEPT !.task = child] ELSE @[i]]],
                 t, [Task(t) EXCEPT !.on = @ \cup {child}, !.pending = Tail(@)]))
       /\ Free

(* The inputs a boundary placed join the run, if `t` still owns it.           *)
JoinRun(run, t, users) == IF run.task = t THEN [run EXCEPT !.inputs = @ \o users] ELSE run

(* The round's calls are done: end the run, or hand it to the generation that *)
(* reads their results.                                                      *)
ControlOf(slot) == IF slot.task = 0 THEN "none" ELSE Task(slot.task).outcome

FinishToolRound(t) ==
    LET slots == db.live.slots
        controls == {Task(c).outcome : c \in Task(t).on}
        terminate == slots # <<>> /\ \A i \in DOMAIN slots : ControlOf(slots[i]) = "terminate"
        handoff == "handoff" \in controls
        cut == IF handoff THEN AppendEntry(db, [Blank EXCEPT !.kind = "reset"]) ELSE db
        start == IF handoff THEN Len(cut.entries) ELSE ActiveStart(db)
    IN /\ Gen(t) /\ Runs(t, "tools")
       /\ Task(t).pending = <<>>
       /\ \E modes \in Modes :
            IF terminate \/ handoff
            THEN LET at == ApplyBoundary(cut, start, "final", modes)
                     ended == EndRun(at.tx, t, "done", Task(t).ref, "none")
                 IN Commit(Ended(StartRunOf([at EXCEPT !.tx = ended]), t, "completed"))
            ELSE LET at == ApplyBoundary(db, start, "postTools", modes)
                     reset == EndRun(at.tx, t, "unanswered", 0, "reset")
                     live == [at.tx.live EXCEPT !.slots = <<>>, !.run = JoinRun(@, t, at.users)]
                     kept == [at.tx EXCEPT !.live = live]
                 IN IF at.reset
                    THEN Commit(Ended(StartRunOf([at EXCEPT !.tx = reset]), t, "completed"))
                    ELSE Commit(Ended(HandOver(kept, t), t, "completed"))
       /\ Free

(* A tool task records that it is about to run, runs, and settles: its result *)
(* entry, its slot and its outcome in one commit.                            *)
SetSlot(tx, t, status, entry) ==
    [tx EXCEPT !.live.slots = [i \in DOMAIN @ |->
        IF @[i].task = t THEN [@[i] EXCEPT !.status = status, !.entry = entry] ELSE @[i]]]

SettleTool(t, outcome) ==
    LET result == AppendEntry(db, [Blank EXCEPT !.kind = "result", !.ref = Task(t).ref, !.call = Task(t).call])
    IN CommitPhase(t, Ended(SetSlot(result, t, "done", Len(result.entries)), t, outcome))

Tool(t) == Task(t).kind = "tool"

(* Arguments or tool are not usable: a result without running.                *)
ToolRefused(t) == Tool(t) /\ Runs(t, "call") /\ SettleTool(t, "none") /\ Free

ToolStart(t) ==
    /\ Tool(t) /\ Runs(t, "call")
    /\ db' = SetTask(SetSlot(db, t, "running", 0), t, [Task(t) EXCEPT !.phase = "execute"])
    /\ local' = local \cup {Local(t, "executing", {}, 0, {})}
    /\ Free

ToolDone(t) ==
    /\ Tool(t) /\ Runs(t, "execute") /\ Holds(t, "executing")
    /\ \E control \in {"none"} \cup ({"terminate", "handoff"} \cap Replies) : SettleTool(t, control)
    /\ Free

(* After a restart: a call that may have run is run again only when its        *)
(* policy says `safe`, and is otherwise reported as interrupted.               *)
ToolRerun(t) ==
    /\ Tool(t) /\ Runs(t, "execute") /\ ~Holds(t, "executing") /\ "safe" \in Replies
    /\ local' = local \cup {Local(t, "executing", {}, 0, {})}
    /\ UNCHANGED <<env, db, used>>

ToolInterrupted(t) ==
    Tool(t) /\ Runs(t, "execute") /\ ~Holds(t, "executing") /\ SettleTool(t, "failed") /\ Free

-----------------------------------------------------------------------------
(* Compaction.                                                               *)

Comp(t) == Task(t).kind = "comp"

(* Choose what to keep from the context as it is now; the cut is held in       *)
(* memory until a commit records it or places a hook's summary.               *)
Select(t) ==
    /\ Comp(t) /\ Runs(t, "select") /\ ~Holds(t, "cut")
    /\ \E cut \in SelectCut(db) :
         local' = local \cup {Local(t, "cut", {}, cut, Summarized(db, cut))}
    /\ UNCHANGED <<env, db, used>>

(* Nothing to compact, or a hook declined.                                    *)
CompactNothing(t) ==
    /\ Comp(t) /\ Runs(t, "select")
    /\ CommitPhase(t, Ended(RemoveCompactionStatus(db, t), t, "empty"))
    /\ Free

SummaryEntry(cut, cover) == [Blank EXCEPT !.kind = "summary", !.head = cut, !.cover = cover]

(* A compaction a generation waits for appends its summary; any other admits   *)
(* it as a write, like a host's.                                             *)
PlaceSummary(t, cut, cover, modes) ==
    LET listed == RemoveCompactionStatus(db, t)
        entry == SummaryEntry(cut, cover)
    IN IF Task(t).owner # 0 THEN AppendEntry(listed, entry)
       ELSE AdmitSubmission(listed, t, [type |-> "write", busy |-> "followUp", entry |-> entry], modes)

PlaceHookSummary(t) ==
    /\ Comp(t) /\ Runs(t, "select") /\ "hook" \in Replies
    /\ \E l \in local, modes \in Modes :
         /\ l.task = t /\ l.step = "cut"
         /\ CommitPhase(t, Ended(PlaceSummary(t, l.cut, l.cover, modes), t, "summary"))
    /\ Free

Summarize(t) ==
    /\ Comp(t) /\ Runs(t, "select")
    /\ \E l \in local :
         /\ l.task = t /\ l.step = "cut"
         /\ CommitPhase(t, SetTask(db, t, [Task(t) EXCEPT !.phase = "summarize", !.cut = l.cut, !.cover = l.cover]))
    /\ Free

SummaryDone(t) ==
    /\ Comp(t) /\ Runs(t, "summarize")
    /\ \E modes \in Modes :
         CommitPhase(t, Ended(PlaceSummary(t, Task(t).cut, Task(t).cover, modes), t, "summary"))
    /\ Free

(* The summarizer fails for good, or there is no model to ask.                *)
SummaryFailed(t) ==
    /\ Comp(t)
    /\ \/ Runs(t, "summarize") /\ "error" \in Replies
       \/ \E phase \in {"select", "summarize"} : Runs(t, phase) /\ "no_model" \in Replies
    /\ CommitPhase(t, Ended(RemoveCompactionStatus(db, t), t, "failed"))
    /\ Free

SummaryRetry(t) ==
    /\ Comp(t) /\ Runs(t, "summarize")
    /\ "error" \in Replies
    /\ Task(t).attempt <= MaxRetries
    /\ Free
    /\ CommitPhase(t, SetTask(db, t, [Task(t) EXCEPT !.phase = "retry"]))

SummaryWake(t) ==
    /\ Comp(t) /\ Runs(t, "retry")
    /\ CommitPhase(t, SetTask(db, t, [Task(t) EXCEPT !.phase = "summarize", !.attempt = @ + 1]))
    /\ Free

-----------------------------------------------------------------------------
(* Ends the scheduler brings about.                                          *)

(* An abort mark goes down to the tasks a marked task owns.                   *)
Cascade ==
    LET below == {c \in Tasks : Live(c) /\ ~Task(c).marked /\ Task(c).owner # 0
                                  /\ Live(Task(c).owner) /\ Task(Task(c).owner).marked}
    IN below # {} /\ Commit(Mark(db, below)) /\ Free

(* Mutant: calls of the round that were never started get no result.          *)
AbortHandler_ForgetsCalls(t) ==
    /\ Live(t) /\ Task(t).marked
    /\ \A c \in Owned(t) : Terminal(c)
    /\ CASE Gen(t) -> CommitPhase(t, Ended(EndRun(ConvertPartial(db), t, "unanswered", 0, "aborted"), t, "aborted"))
         [] Comp(t) -> CommitPhase(t, Ended(RemoveCompactionStatus(db, t), t, "aborted"))
         [] Tool(t) -> SettleTool(t, "aborted")
    /\ Free

(* The abort handler of a marked task, once what it owns has ended: a call of   *)
(* the round that was never started gets its result here.                    *)
AbortHandler(t) ==
    LET unstarted == IF Task(t).phase = "tools" THEN Task(t).pending ELSE <<>>
        results == [k \in DOMAIN unstarted |->
                      [Blank EXCEPT !.kind = "result", !.ref = Task(t).ref, !.call = unstarted[k]]]
        answered == [ConvertPartial(db) EXCEPT !.entries = @ \o results]
    IN /\ Live(t) /\ Task(t).marked
       /\ \A c \in Owned(t) : Terminal(c)
       /\ CASE Gen(t) -> CommitPhase(t, Ended(EndRun(answered, t, "unanswered", 0, "aborted"), t, "aborted"))
            [] Comp(t) -> CommitPhase(t, Ended(RemoveCompactionStatus(db, t), t, "aborted"))
            [] Tool(t) -> SettleTool(t, "aborted")
       /\ Free

(* A handler throws: the scheduler writes the outcome, with the Harness's      *)
(* cleanup in the same commit.                                               *)
SettleSchedulerOutcome(t) ==
    CASE Tool(t) -> SetSlot(db, t, "done", 0)
      [] Comp(t) -> RemoveCompactionStatus(db, t)
      [] Gen(t) /\ db.live.run.task = t -> EndRun(ConvertPartial(db), t, "unanswered", 0, "faulted")
      [] OTHER -> db

Fault(t) ==
    /\ Live(t)
    /\ \A c \in Owned(t) : Terminal(c)
    /\ Spend("faults")
    /\ CommitPhase(t, Ended(SettleSchedulerOutcome(t), t, "faulted"))

-----------------------------------------------------------------------------
GenStep(t) ==
    \/ FailNoModel(t) \/ FailCompaction(t) \/ ReadContext(t) \/ PrepareBlocked(t) \/ PrepareRequest(t)
    \/ RequestStart(t) \/ Deferred(t) \/ Answer(t) \/ Overflow(t) \/ RetryLater(t)
    \/ RetryWake(t) \/ ModelError(t) \/ StartToolRound(t) \/ ToolsNext(t) \/ FinishToolRound(t)

ToolStep(t) == ToolRefused(t) \/ ToolStart(t) \/ ToolDone(t) \/ ToolRerun(t) \/ ToolInterrupted(t)

CompStep(t) ==
    \/ Select(t) \/ CompactNothing(t) \/ PlaceHookSummary(t) \/ Summarize(t)
    \/ SummaryDone(t) \/ SummaryFailed(t) \/ SummaryRetry(t) \/ SummaryWake(t)

TaskStep(t) == GenStep(t) \/ ToolStep(t) \/ CompStep(t) \/ AbortHandler(t)

HostStep ==
    \/ \E r \in Requests : Submit(r)
    \/ \E s \in DOMAIN db.subs : AbortSubmission(s)
    \/ \E background \in BOOLEAN : AbortConversation(background)
    \/ \E t \in Tasks : AbortTask(t)
    \/ Compact

Next ==
    \/ HostStep
    \/ \E t \in Tasks : TaskStep(t) \/ StreamPartial(t) \/ Fault(t)
    \/ Cascade
    \/ Crash

Spec == Init /\ [][Next]_vars

-----------------------------------------------------------------------------
(* Properties.                                                               *)

TypeOK ==
    /\ \A i \in DOMAIN db.entries : db.entries[i].head \in 0..i /\ db.entries[i].by \in 0..Len(db.subs)
    /\ \A s \in DOMAIN db.subs :
         /\ db.subs[s].status \in {"queued", "placed"} \cup Settled
         /\ db.subs[s].entry \in 0..Len(db.entries)
    /\ \A i \in DOMAIN db.inbox : db.inbox[i].mode \in {"steer", "followUp", "write"}
    /\ db.live.gen \in {"none", "attempt", "partial", "retry", "deferred"}
    /\ db.live.run.task \in 0..Len(db.tasks)
    /\ \A t \in Tasks : Task(t).status \in {"live", "done"} /\ Task(t).on \subseteq Tasks
    /\ \A l \in local : l.task \in Tasks

(* A run always has the one task that will settle its inputs: the live        *)
(* generations of a conversation are exactly the task that owns the run.      *)
RunHasItsTask ==
    {t \in Tasks : Gen(t) /\ Live(t)} = IF Busy(db) THEN {db.live.run.task} ELSE {}

(* Every placed input is listed, once, by the run that will settle it, and    *)
(* the run lists nothing else.                                               *)
RunOwnsPlaced ==
    /\ {s \in DOMAIN db.subs : db.subs[s].status = "placed"} = Range(db.live.run.inputs)
    /\ Cardinality(Range(db.live.run.inputs)) = Len(db.live.run.inputs)

(* An accepted input is never without the task that will settle it.           *)
RunOwnsInputs == RunHasItsTask /\ RunOwnsPlaced

(* The inbox is the queued submissions, in the order of their IDs.            *)
InboxIsQueued ==
    [i \in DOMAIN db.inbox |-> db.inbox[i].sub]
      = Ascending({s \in DOMAIN db.subs : db.subs[s].status = "queued"})

(* The listed compactions are the live ones, in the order they were created.  *)
CompactionsListed == db.live.compactions = Ascending({t \in Tasks : Comp(t) /\ Live(t)})

(* The records of a conversation agree: types, the inbox, the live lists, and   *)
(* the run with its task and its inputs.                                     *)
Consistent == TypeOK /\ InboxIsQueued /\ CompactionsListed /\ RunOwnsInputs

(* However often a host submits a request, its draft enters the transcript at *)
(* most once.                                                                *)
PlacedOnce ==
    \A i, j \in DOMAIN db.entries :
        i # j /\ db.entries[i].by # 0 /\ db.entries[j].by # 0
          => db.subs[db.entries[i].by].req # db.subs[db.entries[j].by].req

(* Writes land in the order they were submitted, except display-only ones,    *)
(* which still never land before a reset submitted earlier.                   *)
Landed(tx, s) == tx.subs[s].entry # 0
LandsInOrder(tx) ==
    \A x, y \in DOMAIN tx.subs :
        /\ x < y /\ Landed(tx, y)
        /\ tx.subs[x].type = "write" /\ tx.subs[y].type = "write"
        /\ \/ ~IsDisplayOnly(tx.entries[tx.subs[y].entry])
           \/ Landed(tx, x) /\ tx.entries[tx.subs[x].entry].kind = "reset"
        => /\ tx.subs[x].status # "queued"
           /\ Landed(tx, x) => tx.subs[x].entry < tx.subs[y].entry
LandingOrder == LandsInOrder(db)

(* Each draft lands at most once, and in the order its kind promises.          *)
Landing == PlacedOnce /\ LandingOrder

(* The context a generation has read is still the context when it commits:    *)
(* nobody else writes model context to a busy conversation.                   *)
PreparedIsCurrent ==
    \A l \in local : l.step = "prepared" => l.view = ModelContext(db)

(* Compaction and resets: what the newest reset left behind stays out of the  *)
(* context for good, and what came after it is in the context, or a summary    *)
(* in it stands for it, whichever order compactions were selected and placed. *)
(* A host that writes a head of its own may leave out what it likes.          *)
NewestReset(tx) == NewestOf({i \in DOMAIN tx.entries : tx.entries[i].kind = "reset"})
Remembered(tx) ==
    LET h == LatestHeadMarker(tx)
    IN Range(ActiveEntries(tx)) \cup (IF h = 0 THEN {} ELSE tx.entries[h].cover)
HostCut(tx) == \E i \in DOMAIN tx.entries : tx.entries[i].kind = "cut"
ContextComplete(tx) ==
    ~HostCut(tx) => \A i \in DOMAIN tx.entries :
        /\ i >= NewestReset(tx) /\ Contributes(tx.entries[i]) /\ tx.entries[i].kind # "summary"
        => i \in Remembered(tx)
ResetForgets(tx) == \A i \in Remembered(tx) : i >= NewestReset(tx)
(* The context is neither short of what it should hold nor brings back what a  *)
(* reset cut, and requests are made for it as it is.                         *)
ContextIntact == ContextComplete(db) /\ ResetForgets(db) /\ PreparedIsCurrent

(* Every call of a round has at most one result, and exactly one once the     *)
(* round is over, unless its tool task or the generation threw.              *)
Results(answer, call) ==
    {i \in DOMAIN db.entries : db.entries[i].kind = "result"
                                /\ db.entries[i].ref = answer /\ db.entries[i].call = call}
InRound(answer) == \E t \in Tasks : Gen(t) /\ Live(t) /\ Task(t).phase = "tools" /\ Task(t).ref = answer
Threw(answer, call) ==
    \E t \in Tasks : Task(t).ref = answer /\ Task(t).outcome = "faulted" /\ (Gen(t) \/ Task(t).call = call)
ResultsComplete ==
    \A answer \in DOMAIN db.entries : \A call \in db.entries[answer].calls :
        /\ Cardinality(Results(answer, call)) <= 1
        /\ Results(answer, call) = {} => InRound(answer) \/ Threw(answer, call)

(* An input settles `done` only with an answer whose request included its     *)
(* entry, with no reset of the context between the two.                       *)
InputsAnswered(tx) ==
    \A s \in DOMAIN tx.subs :
        tx.subs[s].type = "input" /\ tx.subs[s].status = "done" =>
            LET answer == tx.subs[s].answer
                asked == tx.subs[s].entry
            IN /\ tx.entries[answer].kind = "assistant"
               /\ asked <= tx.entries[answer].ref
               /\ \A i \in asked..answer : tx.entries[i].kind # "reset"
AnsweredWasAsked == InputsAnswered(db)

(* What a request asked is what is answered: inputs by an answer that saw       *)
(* them, calls by one result each.                                           *)
AnswersMatch == AnsweredWasAsked /\ ResultsComplete

(* Nothing is taken back: a settled submission keeps its outcome, a placed one *)
(* its entry, and no head brings back history an earlier one cut.             *)
NothingTakenBack ==
    [][/\ \A s \in DOMAIN db.subs :
            /\ db.subs[s].status \in Settled => db'.subs[s] = db.subs[s]
            /\ db.subs[s].status = "placed" => db'.subs[s].entry = db.subs[s].entry
                                                /\ db'.subs[s].status # "queued"
       /\ ActiveStart(db') >= ActiveStart(db)]_vars

-----------------------------------------------------------------------------
(* Liveness.  Handlers run, providers, tools and summarizers answer, and the   *)
(* scheduler makes its passes; nothing makes a host act or a process stop.     *)

FairSpec == Spec /\ WF_vars(\E t \in Tasks : TaskStep(t)) /\ WF_vars(Cascade)

Submissions ==
    1..Max({Cardinality(DOMAIN e.draft) + (IF "compactions" \in DOMAIN e.limit THEN e.limit["compactions"] ELSE 0)
             : e \in Stories})
StatusOf(s) == IF s \in DOMAIN db.subs THEN db.subs[s].status ELSE "none"

(* Every placed input is settled in the end.                                  *)
PlacedSettles == \A s \in Submissions : StatusOf(s) = "placed" ~> StatusOf(s) \in Settled

(* A submission queued behind a run leaves the queue, or the run ends without  *)
(* reaching its final boundary and leaves the conversation idle.               *)
QueueMoves ==
    \A s \in Submissions :
        (StatusOf(s) = "queued" /\ Busy(db)) ~> (StatusOf(s) # "queued" \/ ~Busy(db))

(* Nothing a conversation accepted stands still while it is at work.           *)
InputsMove == PlacedSettles /\ QueueMoves

(* A conversation nobody writes to any more comes to rest: no run, no live      *)
(* task, no compaction listed.                                               *)
ComesToRest ==
    <>[](~Busy(db) /\ db.live.compactions = <<>> /\ \A t \in Tasks : Terminal(t))

(* What a conversation accepted is worked off: inputs move while it is at work, *)
(* and then it rests.                                                        *)
WorkEnds == InputsMove /\ ComesToRest
=============================================================================
