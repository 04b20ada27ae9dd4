--------------------------- MODULE ConversationTx ---------------------------
(***************************************************************************)
(* What one commit does to one conversation of the durable Harness: its     *)
(* transcript, its submissions, its inbox (harness/inbox.ts), its live      *)
(* document (harness/live.ts) and its tasks.  Every operator takes the      *)
(* conversation's records as the commit has staged them so far, a record    *)
(* `tx`, and returns them as the call leaves them, so a handler reads as    *)
(* the calls its commit callback makes, in order.                           *)
(*                                                                         *)
(* IDs are positions: entries, submissions and tasks are each numbered in   *)
(* commit order, as storage mints them.  The content of an entry is left    *)
(* out; its kind says what the Harness's control reads of it:               *)
(*   user       a user message: an input, or a continuation                 *)
(*   assistant  an answer of the model; `failed` one a request excludes     *)
(*   result     the result of call `call` of the assistant entry `ref`      *)
(*   system     a positional system entry                                   *)
(*   note       a written entry with model content and no head              *)
(*   display    a written entry without model content, head or edits        *)
(*   reset      an entry whose head is itself: a reset or a handoff         *)
(*   cut        a written entry whose head is an older entry                *)
(*   summary    a compaction summary; `cover` is what its text stands for   *)
(***************************************************************************)
EXTENDS Naturals, Sequences, FiniteSets, SequencesExt

(* An entry draft.  `by` is the submission it is placed for, `ref` the       *)
(* newest entry its request included (an assistant) or the answer it        *)
(* belongs to (a result), `calls` the tool calls an assistant entry makes.    *)
Blank == [kind |-> "user", head |-> 0, by |-> 0, cover |-> {}, ref |-> 0, call |-> 0, calls |-> {}]

NoRun == [task |-> 0, inputs |-> <<>>]
IdleLive == [run |-> NoRun, gen |-> "none", slots |-> <<>>, compactions |-> <<>>]

NewTask == [kind |-> "gen", owner |-> 0, background |-> FALSE, status |-> "live", marked |-> FALSE,
            phase |-> "prepare", on |-> {}, attempt |-> 1, compacted |-> 0, via |-> "none",
            cutoff |-> 0, pending |-> <<>>, ref |-> 0, call |-> 0, cut |-> 0, cover |-> {},
            outcome |-> "none"]

EmptyTx == [entries |-> <<>>, subs |-> <<>>, inbox |-> <<>>, live |-> IdleLive, tasks |-> <<>>]

Settled == {"done", "unanswered"}
Busy(tx) == tx.live.run # NoRun
NewestOf(S) == IF S = {} THEN 0 ELSE CHOOSE i \in S : \A j \in S : j <= i

(* The numbers of a finite set in ascending order, and what a sequence has at  *)
(* the positions of a set, in its order.                                     *)
Rank(S, i) == Cardinality({j \in S : j <= i})
Ascending(S) == [n \in 1..Cardinality(S) |-> CHOOSE i \in S : Rank(S, i) = n]
Keep(s, S) == [n \in 1..Cardinality(S) |-> s[Ascending(S)[n]]]

-----------------------------------------------------------------------------
(* The active range of the transcript.                                      *)

(* The newest entry with a head, 0 if there is none.                         *)
LatestHeadMarker(tx) == NewestOf({i \in DOMAIN tx.entries : tx.entries[i].head > 0})

(* Where the active range starts, 0 for the start of the transcript.         *)
ActiveStart(tx) ==
    LET h == LatestHeadMarker(tx) IN IF h = 0 THEN 0 ELSE tx.entries[h].head

(* The head marker followed by the non-head entries from its head.           *)
ActiveEntries(tx) ==
    LET h == LatestHeadMarker(tx)
        inRange(i) == i >= ActiveStart(tx) /\ (h = 0 \/ tx.entries[i].head = 0)
        rest == Ascending({i \in DOMAIN tx.entries : inRange(i)})
    IN IF h = 0 THEN rest ELSE <<h>> \o rest

Contributes(e) == e.kind \notin {"display", "failed"}

(* The entries that put messages into a request.                             *)
ModelContext(tx) == {i \in Range(ActiveEntries(tx)) : Contributes(tx.entries[i])}

(* An entry a summary may keep first: a user or assistant message that no     *)
(* result of the preceding assistant still follows.                          *)
IsCandidate(tx, view, k) ==
    LET entry(j) == tx.entries[view[j]]
        before == NewestOf({j \in 1..(k - 1) : entry(j).kind = "assistant"})
    IN \/ entry(k).kind = "assistant"
       \/ /\ entry(k).kind \in {"user", "note"}
          /\ \A j \in (k + 1)..Len(view) :
               before # 0 /\ entry(j).kind = "result" /\ entry(j).ref = view[before]
                 => \E m \in (k + 1)..(j - 1) : entry(m).kind = "assistant"

(* The first entries range selection may keep, for some size of what is kept. *)
(* Something before the cut, the head marker excepted, must be summarized.    *)
SelectCut(tx) ==
    LET view == ActiveEntries(tx)
        start == IF LatestHeadMarker(tx) = 0 THEN 1 ELSE 2
    IN {view[k] : k \in {k \in start..Len(view) :
            /\ IsCandidate(tx, view, k)
            /\ \E j \in start..(k - 1) : Contributes(tx.entries[view[j]])}}

(* Mutant: the summary a compaction replaces is not summarized.               *)
Summarized_DropsHead(tx, cut) == {i \in Range(ActiveEntries(tx)) : i < cut /\ i # LatestHeadMarker(tx)}

(* What a summary of the context before `cut` stands for: the head marker,   *)
(* what a summary there stood for, and the entries before the cut.           *)
Summarized(tx, cut) ==
    LET h == LatestHeadMarker(tx)
        before == {i \in Range(ActiveEntries(tx)) : i < cut /\ i # h}
    IN before \cup (IF h = 0 THEN {} ELSE {h} \cup tx.entries[h].cover)

-----------------------------------------------------------------------------
(* Transaction operations (session/transaction.ts).                          *)

AppendEntry(tx, entry) ==
    [tx EXCEPT !.entries = Append(@,
        IF entry.kind = "reset" THEN [entry EXCEPT !.head = Len(tx.entries) + 1] ELSE entry)]

CreateSubmission(tx, req, type, status, entry, why) ==
    [tx EXCEPT !.subs = Append(@, [req |-> req, type |-> type, status |-> status,
                                   entry |-> entry, answer |-> 0, why |-> why])]

(* A settled record stays as it is.                                          *)
SettleSubmission(tx, s, status, answer, why) ==
    IF tx.subs[s].status \in Settled THEN tx
    ELSE [tx EXCEPT !.subs[s] = [@ EXCEPT !.status = status, !.answer = answer, !.why = why]]

(* Placement turns a queued input placed and a queued write done.            *)
PlaceSubmission(tx, s, entry) ==
    [tx EXCEPT !.subs[s] = [@ EXCEPT !.entry = entry,
        !.status = IF tx.subs[s].type = "input" THEN "placed" ELSE "done"]]

CreateTask(tx, task) == [tx EXCEPT !.tasks = Append(@, task)]

-----------------------------------------------------------------------------
(* The inbox: a sequence of items in the order of their submissions.         *)

(* Mutant: nobody looks for a queued reset.                                   *)
HasQueuedReset_Never(tx) == FALSE

HasQueuedReset(tx) == \E i \in DOMAIN tx.inbox : tx.inbox[i].entry.kind = "reset"

(* Mutant: any head is placed.                                                *)
IsStale_Never(start, entry) == FALSE

(* A head write that reaches before the active range would bring back what   *)
(* a newer head cut.                                                        *)
IsStale(start, entry) == entry.head > 0 /\ start > 0 /\ entry.head < start

(* Mutant: a write without a head is taken for a display-only one.            *)
IsDisplayOnly_NoHead(entry) == entry.head = 0 /\ entry.kind # "reset"

IsDisplayOnly(entry) == entry.kind = "display"

RemoveInboxItem(tx, s) == [tx EXCEPT !.inbox = Keep(@, {i \in DOMAIN @ : @[i].sub # s})]

(* Abort of the conversation withdraws its queued inputs and keeps writes.    *)
WithdrawQueuedInputs(tx) ==
    LET writes == {i \in DOMAIN tx.inbox : tx.inbox[i].mode = "write"}
        withdrawn == {tx.inbox[i].sub : i \in DOMAIN tx.inbox \ writes}
    IN [tx EXCEPT !.inbox = Keep(@, writes),
                  !.subs = [s \in DOMAIN @ |->
                      IF s \in withdrawn /\ @[s].status \notin Settled
                      THEN [@[s] EXCEPT !.status = "unanswered", !.why = "aborted"] ELSE @[s]]]

(* A boundary under way: the staged records, and the start of the active     *)
(* range as far as the heads written in this commit moved it.                *)
PlaceWrite(b, item) ==
    IF IsStale(b.start, item.entry)
    THEN [b EXCEPT !.tx = SettleSubmission(@, item.sub, "unanswered", 0, "stale")]
    ELSE LET id == Len(b.tx.entries) + 1
             placed == PlaceSubmission(AppendEntry(b.tx, [item.entry EXCEPT !.by = item.sub]), item.sub, id)
         IN [tx |-> placed,
             start |-> IF item.entry.kind = "reset" THEN id
                       ELSE IF item.entry.head > 0 THEN item.entry.head ELSE b.start]

PlaceInput(b, item) ==
    [b EXCEPT !.tx = PlaceSubmission(AppendEntry(@, [item.entry EXCEPT !.by = item.sub]),
                                     item.sub, Len(@.entries) + 1)]

PlaceItem(b, item) == IF item.mode = "write" THEN PlaceWrite(b, item) ELSE PlaceInput(b, item)

(* Place the items of `order` one after the other.                           *)
PlaceAll(b, order) ==
    LET after[k \in 0..Len(order)] == IF k = 0 THEN b ELSE PlaceItem(after[k - 1], order[k])
    IN after[Len(order)]

(* Place what a boundary selects: every write, then user items, each in the   *)
(* order they were queued.  A queued reset makes the boundary a final one.    *)
ApplyBoundary(tx, start, where, modes) ==
    LET reset == HasQueuedReset(tx)
        items == tx.inbox
        of(mode) == {i \in DOMAIN items : items[i].mode = mode}
        pick(mode, queueMode) ==
            IF queueMode = "all" THEN of(mode) ELSE {i \in of(mode) : \A j \in of(mode) : i <= j}
        writes == of("write")
        users == pick("steer", modes.steer)
                   \cup (IF where = "final" \/ reset THEN pick("followUp", modes.followUp) ELSE {})
        placed == PlaceAll([tx |-> tx, start |-> start], Keep(items, writes) \o Keep(items, users)).tx
    IN [tx |-> [placed EXCEPT !.inbox = Keep(items, DOMAIN items \ (writes \cup users))],
        users |-> [k \in 1..Cardinality(users) |-> Keep(items, users)[k].sub],
        reset |-> reset]

-----------------------------------------------------------------------------
(* The live document.                                                        *)

StartRun(tx, inputs) ==
    [CreateTask(tx, NewTask) EXCEPT !.live.run = [task |-> Len(tx.tasks) + 1, inputs |-> inputs]]

(* A run of the boundary's user items, if it selected any.                   *)
StartRunOf(boundary) ==
    IF boundary.users = <<>> THEN boundary.tx ELSE StartRun(boundary.tx, boundary.users)

(* Mutant: the successor is created, and the run keeps its old task.          *)
HandOver_Forgets(tx, t) == CreateTask(tx, NewTask)

(* Create a successor and hand the run to it; the run's inputs go with it.    *)
HandOver(tx, t) ==
    LET next == CreateTask(tx, NewTask)
    IN IF tx.live.run.task = t THEN [next EXCEPT !.live.run.task = Len(next.tasks)] ELSE next

(* End the run `t` owns, settling its inputs, and drop its presentation.      *)
EndRun(tx, t, status, answer, why) ==
    LET owned == tx.live.run.task = t
        ends(s) == owned /\ s \in Range(tx.live.run.inputs)
        live == [tx.live EXCEPT !.run = IF owned THEN NoRun ELSE @, !.gen = "none", !.slots = <<>>]
    IN [tx EXCEPT !.subs = [s \in DOMAIN @ |->
                        IF ends(s) THEN SettleSubmission(tx, s, status, answer, why).subs[s] ELSE @[s]],
                  !.live = live]

(* A committed partial becomes an aborted answer; the caller replaces `gen`.  *)
ConvertPartial(tx) ==
    IF tx.live.gen = "partial" THEN AppendEntry(tx, [Blank EXCEPT !.kind = "failed"]) ELSE tx

AddCompactionStatus(tx, t) == [tx EXCEPT !.live.compactions = Append(@, t)]

(* Mutant: the oldest status is removed, whichever compaction ended.          *)
RemoveCompactionStatus_Oldest(tx, t) == [tx EXCEPT !.live.compactions = Tail(@)]

RemoveCompactionStatus(tx, t) == 
    [tx EXCEPT !.live.compactions = Keep(@, {i \in DOMAIN @ : @[i] # t})]

(* A compaction a generation owns blocks it; any other belongs to the         *)
(* conversation, in the background unless the host asked for it.             *)
CreateCompaction(tx, owner, background) ==
    AddCompactionStatus(
        CreateTask(tx, [NewTask EXCEPT !.kind = "comp", !.phase = "select",
                                       !.owner = owner, !.background = background]),
        Len(tx.tasks) + 1)

-----------------------------------------------------------------------------

(* Admission (harness/submissions.ts) of the draft `draft` under the request  *)
(* ID `req`.  A known request ID writes nothing.                             *)
ExistingSubmission(tx, req) == \E s \in DOMAIN tx.subs : tx.subs[s].req = req

RejectsBusy(tx, draft) == Busy(tx) /\ draft.type = "input" /\ draft.busy = "reject"

AdmitSubmission(tx, req, draft, modes) ==
    LET s == Len(tx.subs) + 1
        id == Len(tx.entries) + 1
        entry == [draft.entry EXCEPT !.by = s]
        type == draft.type
        written == CreateSubmission(AppendEntry(tx, entry), req, "write", "done", id, "none")
        mode == IF type = "write" THEN "write" ELSE IF draft.busy = "steer" THEN "steer" ELSE "followUp"
        item == [sub |-> s, mode |-> mode, entry |-> draft.entry]
        queued == [CreateSubmission(tx, req, type, "queued", 0, "none") EXCEPT !.inbox = Append(@, item)]
    IN IF ExistingSubmission(tx, req) \/ RejectsBusy(tx, draft) THEN tx
       ELSE IF type = "write" /\ IsDisplayOnly(draft.entry) /\ ~HasQueuedReset(tx) THEN written
       ELSE IF Busy(tx) THEN queued
       ELSE IF tx.inbox # <<>> THEN StartRunOf(ApplyBoundary(queued, ActiveStart(tx), "final", modes))
       ELSE IF type = "input"
            THEN StartRun(CreateSubmission(AppendEntry(tx, entry), req, "input", "placed", id, "none"), <<s>>)
       ELSE IF IsStale(ActiveStart(tx), draft.entry)
            THEN CreateSubmission(tx, req, "write", "unanswered", 0, "stale")
       ELSE written
=============================================================================
