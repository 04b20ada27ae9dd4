----------------------------- MODULE SessionLine -----------------------------
(***************************************************************************)
(* The mutation line of a Session (session/session.ts): the promise chain  *)
(* that runs commits and reads one at a time, the guard that fails the     *)
(* Session with its Storage, the cache of document trackers with its pins  *)
(* and evictions, the watches that follow commits, and close.              *)
(*                                                                         *)
(* One document address stands for all: its incarnations are numbered, and *)
(* its version is the commit that last changed it.  Each job is one call   *)
(* of the host.  What a commit writes besides the document is "tables".    *)
(***************************************************************************)
EXTENDS Naturals, Sequences, FiniteSets

CONSTANTS
    Jobs,       \* calls of the Session's public methods
    Readers,    \* backend reads off the line, as of the scheduler and of views
    Kinds,      \* the methods the jobs call
    Close       \* the job that closes the Storage

ASSUME KindsAssumption == Kinds \subseteq {"commit", "snapshot", "watch", "unload", "close"}
ASSUME CloseAssumption == Close \notin Jobs

VARIABLES
    line,       \* the jobs enqueued, the running one first
    pc,         \* how far each job is
    kind,       \* the method each job calls
    change,     \* what a commit's callback does to the document
    base,       \* the document as a job read it
    caught,     \* commits whose callback caught a read that failed with the Storage
    outcome,    \* what the caller of each job got
    failed,     \* `#failure`
    closing,    \* how far `close()` is
    reading,    \* `#underway`, the calls off the line
    doc,        \* the document in the Storage
    log,        \* the commits the Storage made durable
    mem,        \* `#documents`, `#idleDocuments` and `#attachedDocuments` of the address
    watch,      \* per job its watch, and what it was last given
    acked,      \* history: the version the last acknowledged commit left
    floor       \* history: `acked` when the job was called

vars == <<line, pc, kind, change, base, caught, outcome, failed, closing, reading, doc, log, mem, watch, acked, floor>>
session == <<failed, closing, mem, watch>>
storage == <<doc, log>>
callVars == <<kind, change, base, caught, acked, floor>>

NoDoc   == [inc |-> 0, ver |-> 0, live |-> FALSE]
NoWatch == [state |-> "none", inc |-> 0, last |-> NoDoc]
Changes == {"none", "tables", "set", "retire", "renew"}
OfDoc   == {"set", "retire", "renew"}
Running(j) == line # <<>> /\ Head(line) = j

Init ==
    /\ line = <<>> /\ reading = {} /\ caught = {}
    /\ pc = [j \in Jobs |-> "idle"] /\ outcome = [j \in Jobs |-> "none"]
    /\ kind = [j \in Jobs |-> "unload"] /\ change = [j \in Jobs |-> "none"]
    /\ base = [j \in Jobs |-> NoDoc] /\ floor = [j \in Jobs |-> 0] /\ acked = 0
    /\ failed = FALSE /\ closing = "open"
    /\ doc = NoDoc /\ log = <<>>
    /\ mem = [docs |-> {}, idle |-> FALSE, pins |-> {}]
    /\ watch = [j \in Jobs |-> NoWatch]

-----------------------------------------------------------------------------
(* The document cache: at most one tracker, idle or pinned by watches, each *)
(* pin the watch with the incarnation it shows.                             *)

Attached(m) == \E d \in m.docs : \E p \in m.pins : p[2] = d.inc

\* #touchDocument
Touch(m) == IF m.docs = {} \/ Attached(m) THEN m ELSE [m EXCEPT !.idle = TRUE]
Drop(m) == [m EXCEPT !.docs = {}, !.idle = FALSE]
Install(m, d) == Touch([m EXCEPT !.docs = {d}])

\* #pinDocument
Pin(m, j, inc) == [m EXCEPT !.pins = @ \cup {<<j, inc>>}, !.idle = FALSE]

\* The release of the pins of some watches: the incarnation is touched after its last.
Unpin(m, js) ==
    LET left == [m EXCEPT !.pins = {p \in @ : p[1] \notin js}]
    IN  IF Attached(m) /\ ~Attached(left) THEN Touch(left) ELSE left

\* #sweepDocuments: an idle document goes when its retention has passed.
Swept(m) == {m} \cup (IF m.idle THEN {Drop(m)} ELSE {})

-----------------------------------------------------------------------------
(* Failure and close.                                                      *)

Live(ws) == {j \in Jobs : ws[j].state = "live"}

\* fail(): the first failure seals admission and ends every watch; a later one is dropped.
\* `m` and `ws` are the cache and the watches as the failing step leaves them.
FailWith(m, ws) ==
    IF failed \/ closing # "open"
    THEN failed' = TRUE /\ closing' = closing /\ mem' = m /\ watch' = ws
    ELSE /\ failed' = TRUE /\ closing' = "sealed"
         /\ mem' = Unpin(m, Live(ws))
         /\ watch' = [j \in Jobs |-> IF j \in Live(ws) THEN [ws[j] EXCEPT !.state = "failed"] ELSE ws[j]]

Fail == FailWith(mem, watch)

\* A job leaves the line with what its caller gets.
\* Mutant: the line goes on after a job that resolved only.
Settle_Resolved(j, what) ==
    /\ line' = IF what = "ok" THEN Tail(line) ELSE line
    /\ pc' = [pc EXCEPT ![j] = "done"]
    /\ outcome' = [outcome EXCEPT ![j] = what]
Settle(j, what) ==
    /\ line' = Tail(line)
    /\ pc' = [pc EXCEPT ![j] = "done"]
    /\ outcome' = [outcome EXCEPT ![j] = what]

\* assertUsable
Usable == ~failed /\ closing = "open"

\* A method of a Session failed or closing refuses; a snapshot of a cached document
\* returns it at once, off the line; the rest is enqueued.  unloadDocuments asserts nothing.
Call(j) ==
    /\ pc[j] = "idle"
    /\ floor' = [floor EXCEPT ![j] = acked]
    /\ \E k \in Kinds \ {"close"} :
        LET refused == ~Usable /\ k # "unload"
            cached  == k = "snapshot" /\ mem.docs # {}
        IN  /\ kind' = [kind EXCEPT ![j] = k]
            /\ line' = IF refused \/ cached THEN line ELSE Append(line, j)
            /\ pc' = [pc EXCEPT ![j] = IF refused \/ cached THEN "done" ELSE "queued"]
            /\ outcome' = [outcome EXCEPT ![j] = IF refused THEN "refused" ELSE IF cached THEN "ok" ELSE @]
            /\ base' = IF cached /\ ~refused THEN [base EXCEPT ![j] = CHOOSE d \in mem.docs : TRUE] ELSE base
            /\ mem' = IF cached /\ ~refused THEN Touch(mem) ELSE mem
    /\ UNCHANGED <<change, caught, acked, failed, closing, watch, reading, storage>>

\* close(): the first call seals admission and ends the watches; all await the same close.
CallClose(j) ==
    /\ pc[j] = "idle" /\ "close" \in Kinds
    /\ kind' = [kind EXCEPT ![j] = "close"]
    /\ pc' = [pc EXCEPT ![j] = "awaiting"]
    /\ IF closing = "open"
       THEN /\ closing' = "sealed" /\ mem' = Unpin(mem, Live(watch))
            /\ watch' = [i \in Jobs |-> IF i \in Live(watch) THEN [watch[i] EXCEPT !.state = "closed"] ELSE watch[i]]
       ELSE UNCHANGED <<closing, mem, watch>>
    /\ UNCHANGED <<line, change, base, caught, outcome, acked, floor, failed, reading, storage>>

CloseEnqueued == Append(line, Close)

\* beforeClose has run: the close job goes on the line.
BeforeClose ==
    /\ closing = "sealed" /\ closing' = "queued"
    /\ line' = CloseEnqueued
    /\ UNCHANGED <<pc, outcome, failed, mem, watch, reading, storage, callVars>>

\* The close job drops every listener and tracker; the guard refuses calls from here on.
CloseRuns ==
    /\ Running(Close) /\ closing = "queued" /\ closing' = "closing"
    /\ mem' = [docs |-> {}, idle |-> FALSE, pins |-> {}]
    /\ UNCHANGED <<line, pc, outcome, failed, watch, reading, storage, callVars>>

Quiet == reading = {}

\* After every call underway the backend closes, or fails to, which fails the Session.
CloseBackend ==
    /\ closing = "closing" /\ Quiet
    /\ closing' = "closed" /\ failed' \in {failed, TRUE}
    /\ line' = Tail(line)
    /\ pc' = [j \in Jobs |-> IF pc[j] = "awaiting" THEN "done" ELSE pc[j]]
    /\ outcome' = [j \in Jobs |-> IF pc[j] = "awaiting" THEN "closed" ELSE outcome[j]]
    /\ UNCHANGED <<mem, watch, reading, storage, callVars>>

\* A close() of a Session closed before.
CloseAgain(j) ==
    /\ pc[j] = "awaiting" /\ closing = "closed"
    /\ pc' = [pc EXCEPT ![j] = "done"] /\ outcome' = [outcome EXCEPT ![j] = "closed"]
    /\ UNCHANGED <<line, session, reading, storage, callVars>>

-----------------------------------------------------------------------------
(* Jobs on the line.                                                       *)

Starts(j) == Running(j) /\ pc[j] = "queued"

\* #assertHealthy: what was admitted before the failure fails.
StartFailed(j) ==
    /\ Starts(j) /\ kind[j] # "unload" /\ failed
    /\ Settle(j, "failed")
    /\ UNCHANGED <<session, reading, storage, callVars>>

\* The caller's context was aborted while the job waited.
StartAborted(j) ==
    /\ Starts(j) /\ kind[j] \in {"commit", "watch"} /\ ~failed
    /\ Settle(j, "threw")
    /\ UNCHANGED <<session, reading, storage, callVars>>

Unload(j) ==
    /\ Starts(j) /\ kind[j] = "unload"
    /\ mem' = Drop(mem)
    /\ Settle(j, "ok")
    /\ UNCHANGED <<failed, closing, watch, reading, storage, callVars>>

\* A job starts: a commit's callback with what it will do, another method with the
\* document it is about.  A cached document is at hand; else the Storage is asked.
Start(j) ==
    /\ Starts(j) /\ kind[j] # "unload" /\ ~failed
    /\ \E do \in IF kind[j] = "commit" THEN Changes ELSE {"none"} :
        LET needs == do \in OfDoc \/ kind[j] # "commit"
        IN  /\ change' = [change EXCEPT ![j] = do]
            /\ pc' = [pc EXCEPT ![j] = IF needs /\ mem.docs = {} THEN "reading" ELSE "ready"]
            /\ base' = IF needs /\ mem.docs # {} THEN [base EXCEPT ![j] = CHOOSE d \in mem.docs : TRUE] ELSE base
            /\ mem' = IF needs THEN Touch(mem) ELSE mem
    /\ UNCHANGED <<line, kind, caught, outcome, acked, floor, failed, closing, watch, reading, storage>>

\* A callback returns with its read underway: the transaction is sealed, and the job ends
\* when the read has.
ReturnEarly(j) ==
    /\ pc[j] = "reading" /\ kind[j] = "commit"
    /\ pc' = [pc EXCEPT ![j] = "early"]
    /\ UNCHANGED <<line, outcome, session, reading, storage, callVars>>

\* #loadDocument: a current document is cached, except by retireDoc, which only finds it.
ReadAnswers(j) ==
    /\ pc[j] \in {"reading", "early"} /\ ~failed
    /\ mem' = IF doc.live /\ change[j] \in {"none", "set"} THEN Install(mem, doc) ELSE mem
    /\ \/ /\ pc[j] = "reading" /\ pc' = [pc EXCEPT ![j] = "ready"]
          /\ base' = [base EXCEPT ![j] = doc]
          /\ UNCHANGED <<line, outcome>>
       \/ pc[j] = "early" /\ Settle(j, "threw") /\ UNCHANGED base
    /\ UNCHANGED <<kind, change, caught, acked, floor, failed, closing, watch, reading, storage>>

\* The callback catches the error of its read and goes on without the document.
Catches(j) ==
    /\ pc[j] = "reading" /\ kind[j] = "commit"
    /\ pc' = [pc EXCEPT ![j] = "ready"] /\ change' = [change EXCEPT ![j] = "tables"]
    /\ UNCHANGED <<line, outcome>>

ReadFault == Fail

\* The read fails with the Storage, or the Session failed under it.
ReadFails(j) ==
    /\ pc[j] \in {"reading", "early"}
    /\ ReadFault
    /\ \/ Catches(j) /\ caught' = caught \cup {j}
       \/ Settle(j, "failed") /\ UNCHANGED <<change, caught>>
    /\ UNCHANGED <<kind, base, acked, floor, reading, storage>>

\* A StorageRequestError, or a read its caller aborted: it fails that read, nothing else.
ReadRefused(j) ==
    /\ pc[j] \in {"reading", "early"} /\ ~failed
    /\ Catches(j) \/ (Settle(j, "threw") /\ UNCHANGED change)
    /\ UNCHANGED <<kind, base, caught, acked, floor, session, reading, storage>>

Snapshot(j) ==
    /\ pc[j] = "ready" /\ kind[j] = "snapshot"
    /\ Settle(j, "ok")
    /\ UNCHANGED <<session, reading, storage, callVars>>

\* Mutant: a watch attaches whether or not the Session is closing.
MayObserve_Always == TRUE
\* observeCommits and subscribeClose assert a usable Session.
MayObserve == Usable

\* #attachDocument: the watch pins the incarnation it was given, on the line.  A Session
\* that began to close meanwhile refuses the listeners, with the pin already taken.
Attach(j) ==
    /\ pc[j] = "ready" /\ kind[j] = "watch"
    /\ mem' = IF base[j].live THEN Pin(mem, j, base[j].inc) ELSE mem
    /\ IF base[j].live /\ MayObserve
       THEN watch' = [watch EXCEPT ![j] = [state |-> "live", inc |-> base[j].inc, last |-> base[j]]]
       ELSE UNCHANGED watch
    /\ Settle(j, IF base[j].live /\ ~MayObserve THEN "threw" ELSE "ok")
    /\ UNCHANGED <<failed, closing, reading, storage, callVars>>

\* stop(), a cancellation or a listener that throws ends a watch.
EndWatch(j) ==
    /\ watch[j].state = "live"
    /\ watch' = [watch EXCEPT ![j].state = "stopped"]
    /\ mem' = Unpin(mem, {j})
    /\ UNCHANGED <<line, pc, outcome, failed, closing, reading, storage, callVars>>

-----------------------------------------------------------------------------
(* Commits.                                                                *)

\* The callback throws: settleFailure aborts its drafts.
CallbackThrows(j) ==
    /\ pc[j] = "ready" /\ kind[j] = "commit"
    /\ Settle(j, "threw")
    /\ mem' \in Swept(mem)
    /\ UNCHANGED <<failed, closing, watch, reading, storage, callVars>>

Writes(j) == change[j] \in {"tables", "set", "renew"} \/ (change[j] = "retire" /\ base[j].live)

\* Mutant: a callback that returned commits whatever happened under it.
StillHealthy_Unchecked == TRUE
\* #assertHealthy after the callback, and again by the guard before the backend.
StillHealthy == ~failed

\* The callback returned: nothing to write ends the job, a batch goes to the Storage.
CallbackReturns(j) ==
    /\ pc[j] = "ready" /\ kind[j] = "commit"
    /\ IF StillHealthy /\ Writes(j)
       THEN pc' = [pc EXCEPT ![j] = "backend"] /\ UNCHANGED <<line, outcome, mem>>
       ELSE Settle(j, IF StillHealthy THEN "ok" ELSE "failed") /\ mem' \in Swept(mem)
    /\ UNCHANGED <<failed, closing, watch, reading, storage, callVars>>

\* The document after commit n.
After(d, do, n) ==
    CASE do = "retire"         -> [d EXCEPT !.live = FALSE, !.ver = n]
      [] do = "set" /\ d.live  -> [d EXCEPT !.ver = n]
      [] OTHER                 -> [inc |-> d.inc + 1, ver |-> n, live |-> TRUE]

\* The backend makes the batch durable; its answer is on the way.
BackendCommits(j) ==
    /\ pc[j] = "backend" /\ pc' = [pc EXCEPT ![j] = "durable"]
    /\ log' = Append(log, j)
    /\ doc' = IF change[j] \in OfDoc THEN After(base[j], change[j], Len(log) + 1) ELSE doc
    /\ UNCHANGED <<line, outcome, session, reading, callVars>>

\* adopt(): a tracker takes the new value by pointer swap, a new incarnation is installed, a
\* retired one evicted.  Mutants: a tracker is not adopted; a retired document is kept.
Adopted_Unswapped(m, d) == IF m.docs # {} THEN m ELSE IF d.live THEN Install(m, d) ELSE Drop(m)
Adopted_KeepRetired(m, d) == IF d.live THEN Install(m, d) ELSE m
Adopted(m, d) ==
    IF ~d.live THEN Drop(m) ELSE IF \E c \in m.docs : c.inc # d.inc THEN Install(Drop(m), d) ELSE Install(m, d)

\* #publish: a watch is given each change of its incarnation, its retirement last.
\* Mutant: a watch follows the address, not the incarnation.
Given_Address(w, d) == [w EXCEPT !.last = d]
Given(w, d) ==
    IF ~w.last.live THEN w
    ELSE [w EXCEPT !.last = IF d.inc = w.inc THEN d ELSE [@ EXCEPT !.live = FALSE, !.ver = d.ver]]

\* #call after its backend call: a Session failed meanwhile uses nothing it returned.
Discarded == failed

\* The commit returns: adopted, published and swept in one synchronous step, during which a
\* listener of the Session may throw and fail it, the watches after it ungiven; or its
\* adoption fails, and memory is behind the Storage.
CommitReturns(j) ==
    LET touched == change[j] \in OfDoc
        m == IF touched THEN Adopted(mem, doc) ELSE mem
        Fed(js) == [i \in Jobs |-> IF touched /\ i \in js THEN Given(watch[i], doc) ELSE watch[i]]
        Retired(ws) == {i \in Live(ws) : ~ws[i].last.live}
    IN  /\ pc[j] = "durable"
        /\ \/ Discarded /\ Settle(j, "failed") /\ UNCHANGED <<session, acked>>
           \/ /\ ~Discarded /\ Settle(j, "ok") /\ acked' = doc.ver
              /\ LET ws == Fed(Live(watch))
                 IN  watch' = ws /\ mem' \in Swept(Unpin(m, Retired(ws)))
              /\ UNCHANGED <<failed, closing>>
           \/ /\ ~Discarded /\ Settle(j, "ok") /\ acked' = doc.ver
              /\ \E js \in SUBSET Live(watch) : \E left \in Swept(Unpin(m, Live(watch))) : FailWith(left, Fed(js))
           \/ ~Discarded /\ Settle(j, "failed") /\ Fail /\ UNCHANGED acked
    /\ UNCHANGED <<kind, change, base, caught, floor, reading, storage>>

\* Mutant: a rejected commit fails its caller only.
CommitFault_Exempt == UNCHANGED session
\* #call never exempts a commit: whether the batch is durable is unknown.
CommitFault == Fail

CommitRejected(j) ==
    /\ pc[j] \in {"backend", "durable"}
    /\ CommitFault
    /\ Settle(j, "failed")
    /\ UNCHANGED <<reading, storage, callVars>>

-----------------------------------------------------------------------------
(* The backend off the line, and the eviction timer.                       *)

StartRead(r) ==
    /\ r \notin reading /\ ~failed /\ closing \notin {"closing", "closed"}
    /\ reading' = reading \cup {r}
    /\ UNCHANGED <<line, pc, outcome, session, storage, callVars>>

\* A read off the line ends, with what it read or an error of its own, or with the Storage.
EndRead(r) ==
    /\ r \in reading /\ reading' = reading \ {r}
    /\ Fail \/ UNCHANGED session
    /\ UNCHANGED <<line, pc, outcome, storage, callVars>>

\* The eviction timer's job, which runs between others.
SweepJob ==
    /\ line = <<>> \/ \E j \in Jobs : Starts(j)
    /\ closing = "open"
    /\ mem.idle /\ mem' = Drop(mem)
    /\ UNCHANGED <<line, pc, outcome, failed, closing, watch, reading, storage, callVars>>

-----------------------------------------------------------------------------

\* A job once on the line goes on: its callback settles and the backend answers.
Step(j) ==
    \/ StartFailed(j) \/ StartAborted(j) \/ Unload(j) \/ Start(j)
    \/ ReadAnswers(j) \/ ReadFails(j) \/ ReadRefused(j)
    \/ Snapshot(j) \/ Attach(j)
    \/ CallbackThrows(j) \/ CallbackReturns(j)
    \/ BackendCommits(j) \/ CommitReturns(j) \/ CommitRejected(j)
    \/ CloseAgain(j)

Closes == BeforeClose \/ CloseRuns \/ CloseBackend

Next ==
    \/ \E j \in Jobs : Call(j) \/ CallClose(j) \/ Step(j) \/ ReturnEarly(j) \/ EndWatch(j)
    \/ Closes
    \/ \E r \in Readers : StartRead(r) \/ EndRead(r)
    \/ SweepJob

Spec == Init /\ [][Next]_vars

\* Callbacks settle, the backend answers every call, and beforeClose ends.
FairSpec ==
    /\ Spec
    /\ \A j \in Jobs : WF_vars(Step(j))
    /\ \A r \in Readers : WF_vars(EndRead(r))
    /\ WF_vars(Closes)

-----------------------------------------------------------------------------
(* Properties.                                                             *)

Docs == [inc : 0..Cardinality(Jobs), ver : 0..Cardinality(Jobs), live : BOOLEAN]

\* The state is well formed: the cache holds one document, and only live ones.
TypeOK ==
    /\ pc \in [Jobs -> {"idle", "queued", "reading", "early", "ready", "backend", "durable", "awaiting", "done"}]
    /\ outcome \in [Jobs -> {"none", "ok", "refused", "threw", "failed", "closed"}]
    /\ closing \in {"open", "sealed", "queued", "closing", "closed"}
    /\ doc \in Docs /\ base \in [Jobs -> Docs] /\ acked <= doc.ver
    /\ mem.docs \subseteq {d \in Docs : d.live} /\ Cardinality(mem.docs) <= 1
    /\ mem.idle => mem.docs # {}
    /\ \A j \in Jobs : j \in {line[i] : i \in DOMAIN line} <=> pc[j] \notin {"idle", "awaiting", "done"}

Answering == \E j \in Jobs : pc[j] = "durable"

\* While the Session is healthy a tracker is what the Storage holds, except between the
\* moment a commit is durable and its adoption; and it is never ahead of the Storage, nor,
\* after a failure, anything the Storage did not hold (session.ts:720, 728, 732).
CacheIsStorage ==
    \A d \in mem.docs :
        /\ ~failed /\ ~Answering => d = doc
        /\ d.ver <= doc.ver

\* Nothing leaks: while the Session is open a cached document is idle, so that a sweep takes
\* it, or a live watch pins it, and never both (session.ts:600-672).
EvictableOrWatched ==
    closing = "open" =>
        \A d \in mem.docs :
            LET shown == \E j \in Live(watch) : watch[j].inc = d.inc /\ watch[j].last.live
            IN  mem.idle <=> ~shown

\* The document cache is right: well formed, never other than the Storage while the Session
\* is healthy, and without leaks.
CacheIsRight == TypeOK /\ CacheIsStorage /\ EvictableOrWatched

\* No update is lost: a batch reaches the Storage with the document its callback changed
\* still as it was read, whatever was evicted, unloaded or retired before (session.ts:699).
NoLostUpdate == \A j \in Jobs : pc[j] = "backend" /\ change[j] \in OfDoc => base[j] = doc

\* What the caller is told is so: a commit that returned is durable, and one that threw or
\* was refused is not; only a failure of the Session leaves it open (session.ts:720-726).
ToldTheTruth ==
    \A j \in Jobs : LET durable == j \in {log[i] : i \in DOMAIN log} IN
        /\ kind[j] = "commit" /\ outcome[j] = "ok" /\ Writes(j) => durable
        /\ outcome[j] \in {"refused", "threw"} => ~durable
        /\ outcome[j] = "failed" => failed

\* A callback that caught a read the Storage failed neither commits nor succeeds
\* (session.ts:701-702).
CaughtNeverCommits == \A j \in caught : pc[j] \notin {"backend", "durable"} /\ outcome[j] # "ok"

\* A failure stays where it is: callers are told the truth, and a callback that caught it
\* does not commit past it.
FailureContained == ToldTheTruth /\ CaughtNeverCommits

\* A failed Session writes nothing more: no batch is handed to the Storage (session.ts:1054).
FailedNeverWrites == [][failed => \A j \in Jobs : pc'[j] = "backend" => pc[j] = "backend"]_vars

\* A snapshot is no older than any commit acknowledged before it was asked for, whether it
\* comes from the cache at once or from the line (session.ts:283-294).
SnapshotsAreCurrent == \A j \in Jobs : kind[j] = "snapshot" /\ outcome[j] = "ok" => floor[j] <= base[j].ver

\* Between commits a live watch shows its incarnation as the Storage holds it, or knows it
\* retired (session.ts:807-817).
WatchesAreCurrent ==
    ~failed /\ ~Answering =>
        \A j \in Live(watch) :
            /\ watch[j].last.inc = watch[j].inc
            /\ IF watch[j].last.live THEN watch[j].last = doc ELSE doc.inc > watch[j].inc \/ ~doc.live

\* No reader is behind what it was promised: neither a snapshot nor a watch.
ReadersAreCurrent == SnapshotsAreCurrent /\ WatchesAreCurrent

\* Close waits for what was admitted: when its job runs, no commit is left on the line; and
\* the backend closes under no call (session.ts:487-509, 1043-1047).
CloseComesLast ==
    /\ closing \in {"closing", "closed"} => \A j \in Jobs : pc[j] \in {"idle", "awaiting", "done"} \/ kind[j] = "unload"
    /\ closing = "closed" => reading = {}

\* No watch outlives the Session: one that is closing or failed has ended them all, also those
\* whose acquisition was on the line (session.ts:510, 798-819).
ClosedEndsWatches == closing # "open" => Live(watch) = {}

\* A close is final: it comes after what was admitted and leaves nothing live.
CloseIsFinal == CloseComesLast /\ ClosedEndsWatches

\* Every call settles, and a close once begun ends (session.ts:484-512, 854-861).
CallsEnd ==
    /\ \A j \in Jobs : pc[j] # "idle" ~> pc[j] = "done"
    /\ closing # "open" ~> closing = "closed"
=============================================================================
