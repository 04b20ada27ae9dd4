------------------------ MODULE ConversationInvariant -----------------------
(***************************************************************************)
(* What is inductive of a conversation: what its records hold and how they *)
(* agree (Sound), and what a handler that read some of them may rely on    *)
(* after an await (LocalFits).  The first part speaks of the records alone *)
(* and also while a transaction has placed some of the inbox; the second   *)
(* adds the tasks.                                                         *)
(***************************************************************************)
EXTENDS Conversation

-----------------------------------------------------------------------------
(* Types.                                                                    *)
EntryKinds == {"user", "assistant", "failed", "result", "system", "note", "display", "reset", "cut", "summary"}
EntryRec == [kind : EntryKinds, head : Nat, by : Nat, cover : SUBSET Nat, ref : Nat, call : Nat, calls : SUBSET Nat]

RequestNames == (UNION {DOMAIN e.draft : e \in Stories}) \cup Nat
SubmissionRec ==
    [req : RequestNames, type : {"input", "write"}, status : {"queued", "placed", "done", "unanswered"},
     entry : Nat, answer : Nat, why : {"none", "aborted", "stale", "no_model", "model_error", "reset", "faulted"}]

ItemRec == [sub : Nat, mode : {"steer", "followUp", "write"}, entry : EntryRec]
SlotRec == [task : Nat, status : {"pending", "running", "done"}, entry : Nat, call : Nat]
RunRec == [task : Nat, inputs : Seq(Nat)]
LiveRec ==
    [run : RunRec, gen : {"none", "attempt", "partial", "retry", "deferred"},
     slots : Seq(SlotRec), compactions : Seq(Nat)]
TaskRec ==
    [kind : {"gen", "tool", "comp"}, owner : Nat, background : BOOLEAN, status : {"live", "done"},
     marked : BOOLEAN,
     phase : {"prepare", "request", "retry", "poll", "tools", "call", "execute", "select", "summarize", "end"},
     on : SUBSET Nat, attempt : Nat, compacted : Nat, via : {"none", "threshold", "overflow"}, cutoff : Nat,
     pending : Seq(Nat), ref : Nat, call : Nat, cut : Nat, cover : SUBSET Nat,
     outcome : {"none", "completed", "failed", "aborted", "faulted", "terminate", "handoff", "summary", "empty"}]
TxRec ==
    [entries : Seq(EntryRec), subs : Seq(SubmissionRec), inbox : Seq(ItemRec), live : LiveRec, tasks : Seq(TaskRec)]

-----------------------------------------------------------------------------
HeadKinds == {"reset", "cut", "summary"}

(* Heads: a marker keeps from an entry no later than itself, a reset from itself, *)
(* and no marker reaches back behind one before it.                           *)
Transcript(tx) ==
    /\ \A i \in DOMAIN tx.entries :
         /\ tx.entries[i].head \in 0 .. i
         /\ tx.entries[i].head > 0 <=> tx.entries[i].kind \in HeadKinds
         /\ tx.entries[i].kind = "reset" => tx.entries[i].head = i
         /\ tx.entries[i].kind # "summary" => tx.entries[i].cover = {}
    /\ \A i, j \in DOMAIN tx.entries :
         i < j /\ tx.entries[i].head > 0 /\ tx.entries[j].head > 0 => tx.entries[i].head <= tx.entries[j].head

(* What waits in the inbox: user messages, and writes whose heads are known.    *)
ItemFits(tx, item) ==
    /\ item.sub \in DOMAIN tx.subs
    /\ item.entry.by = 0 /\ item.entry.calls = {}
    /\ item.mode # "write" => tx.subs[item.sub].type = "input" /\ item.entry.kind = "user"
    /\ item.mode = "write" =>
         /\ tx.subs[item.sub].type = "write"
         /\ item.entry.kind \in {"note", "display", "reset", "cut", "summary"}
    /\ item.entry.head > 0 <=> item.entry.kind \in {"cut", "summary"}
    /\ item.entry.head <= Len(tx.entries)
    /\ item.entry.kind # "summary" => item.entry.cover = {}

(* The items of the inbox at the positions `W` stand for the queued submissions. *)
Queue(tx, W) ==
    /\ W \subseteq DOMAIN tx.inbox
    /\ \A i, j \in DOMAIN tx.inbox : i < j => tx.inbox[i].sub < tx.inbox[j].sub
    /\ \A i \in DOMAIN tx.inbox : ItemFits(tx, tx.inbox[i])
    /\ \A s \in DOMAIN tx.subs : tx.subs[s].status = "queued" <=> \E i \in W : tx.inbox[i].sub = s

(* A request has one submission, and a submission one entry, which says so.     *)
Placement(tx) ==
    /\ \A x, y \in DOMAIN tx.subs : tx.subs[x].req = tx.subs[y].req => x = y
    /\ \A s \in DOMAIN tx.subs :
         /\ tx.subs[s].entry \in 0 .. Len(tx.entries)
         /\ tx.subs[s].entry # 0 => tx.entries[tx.subs[s].entry].by = s
         /\ tx.subs[s].status = "queued" => tx.subs[s].entry = 0
         /\ tx.subs[s].status = "done" => tx.subs[s].entry # 0
         /\ tx.subs[s].status = "placed" => tx.subs[s].entry # 0 /\ tx.subs[s].type = "input"
    /\ \A i \in DOMAIN tx.entries :
         tx.entries[i].by # 0 => tx.entries[i].by \in DOMAIN tx.subs /\ tx.subs[tx.entries[i].by].entry = i

(* A queued reset has no write behind it that landed.                          *)
ResetFirst(tx, W) ==
    \A i \in W : tx.inbox[i].entry.kind = "reset" =>
        \A s \in DOMAIN tx.subs : s > tx.inbox[i].sub /\ tx.subs[s].type = "write" => ~Landed(tx, s)
Order(tx, W) == LandsInOrder(tx) /\ ResetFirst(tx, W)

(* The placed inputs are those of the run, and `U`, which no run has yet.       *)
Owns(tx, U) ==
    /\ Range(tx.live.run.inputs) \cup U \subseteq DOMAIN tx.subs
    /\ \A s \in DOMAIN tx.subs : tx.subs[s].status = "placed" <=> s \in Range(tx.live.run.inputs) \cup U
    /\ \A i, j \in DOMAIN tx.live.run.inputs : tx.live.run.inputs[i] = tx.live.run.inputs[j] => i = j
    /\ Range(tx.live.run.inputs) \cap U = {}

(* An answer to an input: its request included it, and no reset came between.   *)
AnsweredBy(entries, entry, answer) ==
    /\ answer \in DOMAIN entries
    /\ entries[answer].kind = "assistant"
    /\ entry <= entries[answer].ref
    /\ \A i \in entry .. answer : entries[i].kind # "reset"
Answered(tx) ==
    \A s \in DOMAIN tx.subs :
        tx.subs[s].type = "input" /\ tx.subs[s].status = "done" =>
            AnsweredBy(tx.entries, tx.subs[s].entry, tx.subs[s].answer)

Context(tx) == ContextComplete(tx) /\ ResetForgets(tx)

(* A summary of the context before `cut` covers all of it from the newest reset *)
(* on, as long as no head behind `cut` has replaced it.                       *)
Stands(tx, cut, cover) ==
    /\ cut \in DOMAIN tx.entries
    /\ cut >= ActiveStart(tx) =>
         /\ cut > NewestReset(tx)
         /\ \A i \in cover : i >= NewestReset(tx)
         /\ ~HostCut(tx) => \A i \in DOMAIN tx.entries :
              /\ i >= NewestReset(tx) /\ i < cut
              /\ Contributes(tx.entries[i]) /\ tx.entries[i].kind # "summary"
              => i \in cover
HeldItems(tx, W) ==
    \A i \in W : tx.inbox[i].entry.kind = "summary" => Stands(tx, tx.inbox[i].entry.head, tx.inbox[i].entry.cover)

(* What every operation of a transaction keeps, with the items at `W` not placed *)
(* yet and the inputs `U` placed for a run that is not started yet.           *)
TxInv(tx, W, U) ==
    /\ tx \in TxRec
    /\ Transcript(tx) /\ Queue(tx, W) /\ Placement(tx) /\ Order(tx, W) /\ Owns(tx, U)
    /\ Answered(tx) /\ Context(tx) /\ HeldItems(tx, W)

(* No reset after the entry of a submission.                                  *)
Fresh(tx, I) ==
    \A s \in I : \A i \in DOMAIN tx.entries : i >= tx.subs[s].entry => tx.entries[i].kind # "reset"

-----------------------------------------------------------------------------
(* The tasks of a conversation.                                              *)
LiveOf(tx, kind) == {t \in DOMAIN tx.tasks : tx.tasks[t].kind = kind /\ tx.tasks[t].status = "live"}

(* The generation `g` waits for the task `t` in `phase`.                      *)
Hosts(tx, g, t, phase) == g \in LiveOf(tx, "gen") /\ tx.tasks[g].phase = phase /\ t \in tx.tasks[g].on

(* A task waits for tasks that exist, and what a live tool or compaction works   *)
(* for is still waiting for it.                                               *)
TaskFits(tx, t) ==
    LET task == tx.tasks[t] IN
    /\ task.on \subseteq DOMAIN tx.tasks
    /\ task.status = "live" =>
         /\ task.outcome = "none"
         /\ task.kind = "gen" => task.owner = 0
         /\ task.kind = "tool" => Hosts(tx, task.owner, t, "tools") /\ task.ref = tx.tasks[task.owner].ref
         /\ task.kind = "comp" /\ task.owner # 0 =>
              Hosts(tx, task.owner, t, "prepare") /\ tx.tasks[task.owner].compacted = t

(* The run has the one live generation; the live compactions are listed.         *)
RunAgrees(tx) == LiveOf(tx, "gen") = IF Busy(tx) THEN {tx.live.run.task} ELSE {}
ListAgrees(tx) == tx.live.compactions = Ascending(LiveOf(tx, "comp"))
TasksAgree(tx) == (\A t \in DOMAIN tx.tasks : TaskFits(tx, t)) /\ RunAgrees(tx) /\ ListAgrees(tx)

(* A summary under way can still be placed.                                   *)
Placeable(tx, t, cut, cover) ==
    /\ Stands(tx, cut, cover) /\ cover \in SUBSET Nat
    /\ tx.tasks[t].owner # 0 => cut >= ActiveStart(tx)

SummaryFits(tx, t) ==
    t \in LiveOf(tx, "comp") /\ tx.tasks[t].phase \in {"summarize", "retry"} =>
        Placeable(tx, t, tx.tasks[t].cut, tx.tasks[t].cover)

(* What a request of the run has been asked.                                  *)
Saw(tx, newest) == \A s \in Range(tx.live.run.inputs) : tx.subs[s].entry <= newest
AskedFits(tx, t) ==
    t \in LiveOf(tx, "gen") =>
        /\ tx.tasks[t].phase \in {"request", "poll"} => Saw(tx, tx.tasks[t].cutoff)
        /\ tx.tasks[t].phase = "tools" =>
             /\ tx.tasks[t].ref \in DOMAIN tx.entries
             /\ tx.entries[tx.tasks[t].ref].kind = "assistant"
             /\ Saw(tx, tx.entries[tx.tasks[t].ref].ref)

(* What a handler holds fits its task.                                        *)
LocalFits(tx, l) ==
    LET task == tx.tasks[l.task] IN
    /\ l.task \in DOMAIN tx.tasks /\ task.status = "live" /\ ~task.marked
    /\ l.step \in {"prepared", "streaming", "executing", "cut"}
    /\ l.step = "prepared" =>
         /\ task.kind = "gen" /\ task.phase = "prepare" /\ \A c \in task.on : tx.tasks[c].status = "done"
         /\ l.view = ModelContext(tx)
    /\ l.step = "streaming" => task.kind = "gen" /\ task.phase = "request"
    /\ l.step = "executing" => task.kind = "tool" /\ task.phase = "execute"
    /\ l.step = "cut" => task.kind = "comp" /\ task.phase = "select" /\ Placeable(tx, l.task, l.cut, l.cover)

(* Calls and their results.                                                   *)
IsResult(tx, i, answer, call) ==
    tx.entries[i].kind = "result" /\ tx.entries[i].ref = answer /\ tx.entries[i].call = call
HasResult(tx, answer, call) == \E i \in DOMAIN tx.entries : IsResult(tx, i, answer, call)
Gave(tx, answer, call) ==
    \E t \in DOMAIN tx.tasks :
        /\ tx.tasks[t].status = "done" /\ tx.tasks[t].ref = answer /\ tx.tasks[t].outcome = "faulted"
        /\ tx.tasks[t].kind = "gen" \/ tx.tasks[t].call = call
InHand(tx, answer, call) ==
    \/ \E c \in LiveOf(tx, "tool") : tx.tasks[c].ref = answer /\ tx.tasks[c].call = call
    \/ \E t \in LiveOf(tx, "gen") : /\ tx.tasks[t].phase = "tools" /\ tx.tasks[t].ref = answer
                                     /\ call \in Range(tx.tasks[t].pending)

(* A call has one result, and none while a tool has it or it has not started.    *)
ResultsOnce(tx) ==
    /\ \A i \in DOMAIN tx.entries : tx.entries[i].kind = "result" => tx.entries[i].ref < i
    /\ \A i, j \in DOMAIN tx.entries :
         tx.entries[i].kind = "result" /\ IsResult(tx, j, tx.entries[i].ref, tx.entries[i].call) => i = j
ToolsApart(tx) ==
    /\ \A c \in LiveOf(tx, "tool") : ~HasResult(tx, tx.tasks[c].ref, tx.tasks[c].call)
    /\ \A c, d \in LiveOf(tx, "tool") :
         tx.tasks[c].ref = tx.tasks[d].ref /\ tx.tasks[c].call = tx.tasks[d].call => c = d
RoundApart(tx, answer, pending) ==
    /\ \A j, k \in DOMAIN pending : pending[j] = pending[k] => j = k
    /\ \A call \in Range(pending) :
         /\ ~HasResult(tx, answer, call)
         /\ \A c \in LiveOf(tx, "tool") : tx.tasks[c].ref # answer \/ tx.tasks[c].call # call
PendingApart(tx) ==
    \A t \in LiveOf(tx, "gen") : tx.tasks[t].phase = "tools" => RoundApart(tx, tx.tasks[t].ref, tx.tasks[t].pending)
(* A call is answered, was with a task that threw, or is with one that is live.  *)
CallsKept(tx) ==
    \A answer \in DOMAIN tx.entries : \A call \in tx.entries[answer].calls :
        HasResult(tx, answer, call) \/ Gave(tx, answer, call) \/ InHand(tx, answer, call)
CallsAgree(tx) == ResultsOnce(tx) /\ ToolsApart(tx) /\ PendingApart(tx) /\ CallsKept(tx)

(* The records of a conversation.                                             *)
Sound(tx) ==
    /\ tx \in TxRec /\ TxInv(tx, DOMAIN tx.inbox, {}) /\ Fresh(tx, Range(tx.live.run.inputs))
    /\ TasksAgree(tx) /\ CallsAgree(tx)
    /\ \A t \in DOMAIN tx.tasks : SummaryFits(tx, t) /\ AskedFits(tx, t)

(* The inductive invariant.                                                   *)
IInv ==
    /\ env \in Stories
    /\ Sound(db)
    /\ \A l \in local : LocalFits(db, l)
=============================================================================
