----------------------------- MODULE JsonlStorage -----------------------------
(***************************************************************************)
(* The JSONL storage of the durable package (storage/jsonl/storage.ts): a  *)
(* commit appends its values to one sidecar file per task or document,     *)
(* then one marker to main.jsonl, which alone makes it committed; readers  *)
(* see it when the marker is written.  Sidecars whose content a committed  *)
(* base, retirement or terminal task made needless are rewritten or        *)
(* removed afterwards.  Opening a directory cuts torn and unconfirmed      *)
(* tails, replays what the markers confirm and reclaims what is left.      *)
(*                                                                         *)
(* Every file operation may fail with part of its effect, the process may  *)
(* crash between any two of them, and with `fsync` the machine may lose    *)
(* power.  The files one step of the code handles in turn (appends,        *)
(* flushes, truncations, replacements) are handled in any order.           *)
(***************************************************************************)
EXTENDS StorageTables

CONSTANTS
    Batches,        \* the batches the Session may commit: sequences of [op, id]
    Torn,           \* a line without its end
    Unavailable,    \* the view readers have of a storage that is not open
    FsyncOptions,   \* the values of JsonlStorageOptions.fsync it is opened with
    MaxAttempts,    \* bound: commits tried
    MaxFaults       \* bound: failed file operations, crashes and power losses

ASSUME FsyncAssumption == FsyncOptions \subseteq BOOLEAN
ASSUME BoundsAssumption == MaxAttempts \in Nat /\ MaxFaults \in Nat

VARIABLES
    main,           \* the lines of main.jsonl
    side,           \* the lines of each sidecar file, <<>> when there is none
    stableMain,     \* what main.jsonl may hold after a power loss
    stable,         \* what each sidecar may hold after a power loss
    phase,          \* what the process does with the directory
    todo,           \* the files the phase has still to handle, and the lines each gets
    batch,          \* the writes of the commit in progress
    tables,         \* the memory tables readers see
    log,            \* history: the commits whose markers are complete in main.jsonl
    attempt,        \* commits tried
    faults,         \* faults so far
    deferred,       \* history: sidecars whose reclamation failed since the last open
    fsync           \* the option every open is given

disk == <<main, side, stableMain, stable>>
vars == <<main, side, stableMain, stable, phase, todo, batch, tables, log, attempt, faults, deferred, fsync>>

Phases == {"closed", "opening", "trimming", "authorizing", "reclaiming", "reopening", "ready",
           "appending", "flushing", "marking", "poisoned", "corrupt"}

-----------------------------------------------------------------------------
(* Encoding a commit                                                       *)

\* Terminal tasks and retirements are written to main.jsonl whole; everything else
\* leaves its value in a sidecar and only an ordinal in the marker.
InSidecar(w) == w.op \in {"live", "create", "base", "delta"}

Ordinal(b, i) == Cardinality({j \in 1..(i - 1) : InSidecar(b[j])})

Marker(b, seq) ==
    [seq |-> seq,
     ops |-> [i \in DOMAIN b |->
                IF InSidecar(b[i]) THEN [op |-> b[i].op, id |-> b[i].id, ord |-> Ordinal(b, i), value |-> <<>>]
                                   ELSE [op |-> b[i].op, id |-> b[i].id, ord |-> 0, value |-> b[i].value]]]

Records(b, seq, x) ==
    LET all == [i \in DOMAIN b |->
                   [seq |-> seq, ord |-> Ordinal(b, i), op |-> b[i].op, id |-> b[i].id, value |-> b[i].value]]
    IN SelectSeq(all, LAMBDA r : r.id = x /\ InSidecar(r))

\* What a file may hold when an append of `lines` does not report success.
Partial(content, lines) ==
    UNION {{content \o SubSeq(lines, 1, k)}
             \cup (IF k < Len(lines) THEN {content \o SubSeq(lines, 1, k) \o <<Torn>>} ELSE {})
           : k \in 0..Len(lines)}

\* planReclamations, before the batch is applied.
CommitReclaims(b, seq) ==
    LET wrote(ops) == {x \in Ids : \E i \in DOMAIN b : b[i].id = x /\ b[i].op \in ops}
        retired    == wrote({"retire"}) \cap CurrentOnly
        rebased    == (wrote({"base"}) \cap CurrentOnly) \ retired
        ended      == {t \in wrote({"terminal"}) :
                         /\ Last(On(b, t)).op = "terminal"
                         /\ tables.task[t].status = "live" \/ Records(b, seq, t) # <<>>}
    IN [x \in retired \cup rebased \cup ended |-> IF x \in rebased THEN Records(b, seq, x) ELSE <<>>]

-----------------------------------------------------------------------------
(* Reading a directory back                                                *)

RecordsAt(x, seq, ord) == {i \in DOMAIN side[x] : side[x][i].seq = seq /\ side[x][i].ord = ord}

\* The operations of all markers on one ID, in order, each with its sequence.
Stamped(m) == [i \in DOMAIN m.ops |-> [seq |-> m.seq, op |-> m.ops[i].op, id |-> m.ops[i].id,
                                       ord |-> m.ops[i].ord, value |-> m.ops[i].value]]
History(x) ==
    SelectSeq(FlattenSeq([i \in DOMAIN main |-> Stamped(main[i])]), LAMBDA o : o.id = x)
Did(x, op) == \E i \in DOMAIN History(x) : History(x)[i].op = op

EndedTask(t) == t \in Tasks /\ History(t) # <<>> /\ Last(History(t)).op = "terminal"
Discarded(d) == d \in CurrentOnly /\ Did(d, "create") /\ Did(d, "retire")

\* latestBases: the last base of a current-only document whose record is still there.
Bases(d) ==
    IF d \in CurrentOnly /\ Did(d, "create")
    THEN SelectSeq(History(d), LAMBDA o :
           \E i \in RecordsAt(d, o.seq, o.ord) : Content(o) /\ side[d][i].op \in {"create", "base"})
    ELSE <<>>

Earlier(s, o, base) == s < base.seq \/ (s = base.seq /\ o < base.ord)
\* Mutant: the latest base itself counts as superseded.
BeforeLatestBase_Inclusive(d, s, o) ==
    Bases(d) # <<>> /\ (Earlier(s, o, Last(Bases(d))) \/ s = Last(Bases(d)).seq)
BeforeLatestBase(d, s, o) == Bases(d) # <<>> /\ Earlier(s, o, Last(Bases(d)))

\* A record that a later commit made needless may be missing.
Optional(o) ==
    IF o.op = "live" THEN EndedTask(o.id)
    ELSE Discarded(o.id) \/ BeforeLatestBase(o.id, o.seq, o.ord)

Confirmed(r) ==
    \E i \in DOMAIN History(r.id) : LET o == History(r.id)[i]
                                    IN InSidecar(o) /\ o.seq = r.seq /\ o.ord = r.ord

\* The writes a marker confirms: superseded changes are left out and a superseded
\* creation gets an empty base, both to be overwritten by what superseded them.
Restored(m) ==
    LET value(o)  == IF Optional(o) \/ RecordsAt(o.id, o.seq, o.ord) = {} THEN <<>>
                     ELSE side[o.id][CHOOSE i \in RecordsAt(o.id, o.seq, o.ord) : TRUE].value
        write(o)  == [op |-> o.op, id |-> o.id, value |-> IF InSidecar(o) THEN value(o) ELSE o.value]
        kept      == SelectSeq(Stamped(m), LAMBDA o :
                                   InSidecar(o) /\ o.op # "create" => ~Optional(o))
    IN [i \in DOMAIN kept |-> write(kept[i])]

Commits == [i \in DOMAIN main |-> [seq |-> main[i].seq, writes |-> Restored(main[i])]]

\* What makes recovery throw a JsonlCorruptionError.
Misordered(x) ==
    \E i \in 2..Len(side[x]) : LET last == side[x][i - 1]  record == side[x][i]
                               IN \/ record.seq < last.seq
                                  \/ record.seq = last.seq /\ record.ord <= last.ord
Missing ==
    \E x \in Ids : \E i \in DOMAIN History(x) :
        LET o == History(x)[i]
        IN InSidecar(o) /\ ~Optional(o) /\ RecordsAt(x, o.seq, o.ord) = {}
BrokenTail(x) ==
    \E i, j \in DOMAIN side[x] : i < j /\ ~Confirmed(side[x][i]) /\ Confirmed(side[x][j])
Unplayable ==
    \E n \in DOMAIN Commits :
        \/ n > 1 /\ main[n].seq <= main[n - 1].seq
        \/ ~Accepted(Replayed(SubSeq(Commits, 1, n - 1)), Commits[n].writes)
Malformed(lines) == \E i \in DOMAIN lines : lines[i] = Torn
Corrupted ==
    \/ Malformed(main) \/ \E x \in Ids : Malformed(side[x])
    \/ \E x \in Ids : Misordered(x) \/ BrokenTail(x)
    \/ Missing \/ Unplayable

\* Unconfirmed tails are cut.
\* Mutant: they are left to be overwritten by the next commit.
Tails_Kept == [x \in {} |-> <<>>]
Tails ==
    LET tail(x) == {i \in DOMAIN side[x] : ~Confirmed(side[x][i])}
    IN [x \in {x \in Ids : tail(x) # {}} |-> SelectSeq(side[x], Confirmed)]

\* Sidecars of ended tasks and retired documents go, those of other current-only
\* documents keep what follows their latest base.
\* Mutant: reclamation is left to commits.
OpenReclaims_None == [x \in {} |-> <<>>]
OpenReclaims ==
    LET retained(x) == IF EndedTask(x) \/ Discarded(x) THEN <<>>
                       ELSE SelectSeq(side[x], LAMBDA r : ~BeforeLatestBase(x, r.seq, r.ord))
    IN [x \in {x \in Ids : side[x] # <<>> /\ retained(x) # side[x]} |-> retained(x)]

-----------------------------------------------------------------------------

Init ==
    /\ main = <<>> /\ side = [x \in Ids |-> <<>>]
    /\ stableMain = {<<>>} /\ stable = [x \in Ids |-> {<<>>}]
    /\ phase = "closed" /\ todo = <<>> /\ batch = <<>>
    /\ tables = EmptyTables /\ log = <<>>
    /\ attempt = 0 /\ faults = 0 /\ deferred = {}
    /\ fsync \in FsyncOptions

Without(f, x) == [y \in (DOMAIN f) \ {x} |-> f[y]]

\* What a power loss may leave is tracked when the storage promises to survive one: what
\* was written, or any part of it.
EndsTorn(lines) == lines # <<>> /\ Last(lines) = Torn
Reached(parts, c) == {c} \cup {p \in parts : Len(p) < Len(c) \/ (Len(p) = Len(c) /\ EndsTorn(p))}
MayKeep(old, parts, c) == IF fsync THEN old \cup Reached(parts, c) ELSE old

\* Some content of `contents` is written; `parts` are the contents on the way to it.
WriteSide(x, contents, parts) ==
    /\ \E c \in contents : /\ side' = [side EXCEPT ![x] = c]
                           /\ stable' = [stable EXCEPT ![x] = MayKeep(@, parts, c)]
    /\ UNCHANGED <<main, stableMain>>
WriteMain(contents, parts) ==
    /\ \E c \in contents : main' = c /\ stableMain' = MayKeep(stableMain, parts, c)
    /\ UNCHANGED <<side, stable>>

Fault == faults < MaxFaults /\ faults' = faults + 1
NoFault == UNCHANGED faults

\* The next phase once every file of this one is handled.
Continue(rest, now, next) == todo' = rest /\ phase' = IF DOMAIN rest = {} THEN next ELSE now

-----------------------------------------------------------------------------
(* Committing                                                              *)

\* An append or flush that fails leaves the files uncertain: the storage must be
\* reopened.
\* Mutant: the failed commit is reported and the storage stays open.
AfterUncertain_Open == "ready"
AfterUncertain == "poisoned"

Seq1 == tables.seq + 1

Begin ==
    /\ phase = "ready" /\ attempt < MaxAttempts
    /\ attempt' = attempt + 1
    /\ \E b \in Batches :
        LET writes == [i \in DOMAIN b |-> [op |-> b[i].op, id |-> b[i].id, value |-> <<attempt', i>>]]
            files  == {x \in Ids : Records(writes, Seq1, x) # <<>>}
        IN /\ Accepted(tables, writes)
           /\ \A t \in Tasks : On(writes, t) # <<>> => tables.task[t].status # "terminal"
           /\ batch' = writes
           /\ todo' = [x \in files |-> Records(writes, Seq1, x)]
           /\ phase' = IF files = {} THEN "marking" ELSE "appending"
    /\ UNCHANGED <<disk, tables, log, faults, deferred, fsync>>

AppendSidecar(x) ==
    /\ phase = "appending" /\ x \in DOMAIN todo
    /\ WriteSide(x, {side[x] \o todo[x]}, Partial(side[x], todo[x]))
    /\ IF DOMAIN todo = {x} /\ fsync
       THEN /\ phase' = "flushing"
            /\ todo' = [y \in {y \in Ids : Records(batch, Seq1, y) # <<>>} |-> <<>>]
       ELSE Continue(Without(todo, x), "appending", "marking")
    /\ NoFault
    /\ UNCHANGED <<batch, tables, log, attempt, deferred, fsync>>

AppendFails(x) ==
    /\ phase = "appending" /\ x \in DOMAIN todo /\ Fault
    /\ WriteSide(x, Partial(side[x], todo[x]), Partial(side[x], todo[x]))
    /\ phase' = AfterUncertain /\ todo' = <<>>
    /\ UNCHANGED <<batch, tables, log, attempt, deferred, fsync>>

\* A flush makes one file durable, its name included.
Flushed(x) == {side[x]}

FlushSidecar(x) ==
    /\ phase = "flushing" /\ x \in DOMAIN todo
    /\ stable' = [stable EXCEPT ![x] = Flushed(x)]
    /\ Continue(Without(todo, x), "flushing", "marking")
    /\ NoFault
    /\ UNCHANGED <<main, side, stableMain, batch, tables, log, attempt, deferred, fsync>>

FlushFails(x) ==
    /\ phase = "flushing" /\ x \in DOMAIN todo /\ Fault
    /\ phase' = AfterUncertain /\ todo' = <<>>
    /\ UNCHANGED <<disk, batch, tables, log, attempt, deferred, fsync>>

Committed == [seq |-> Seq1, writes |-> batch]

\* reclaimSidecars: main.jsonl is flushed before anything it makes needless goes.
BeforeReclaims == IF fsync THEN "authorizing" ELSE "reclaiming"

\* The marker is written: the commit is published to readers.
AppendMarker ==
    LET line == Marker(batch, Seq1)
        plan == CommitReclaims(batch, Seq1)
    IN /\ phase = "marking"
       /\ WriteMain({Append(main, line)}, Partial(main, <<line>>))
       /\ log' = Append(log, Committed)
       /\ tables' = Applied(tables, batch, Seq1)
       /\ todo' = plan
       /\ phase' = IF DOMAIN plan = {} THEN "ready" ELSE BeforeReclaims
       /\ batch' = <<>>
       /\ NoFault
       /\ UNCHANGED <<attempt, deferred, fsync>>

MarkerFails ==
    LET line == Marker(batch, Seq1)
    IN /\ phase = "marking" /\ Fault
       /\ WriteMain(Partial(main, <<line>>), Partial(main, <<line>>))
       /\ log' = IF main' = Append(main, line) THEN Append(log, Committed) ELSE log
       /\ phase' = AfterUncertain /\ todo' = <<>>
       /\ UNCHANGED <<batch, tables, attempt, deferred, fsync>>

-----------------------------------------------------------------------------
(* Reclaiming: best effort, for a commit and at the end of an open         *)

Authorize ==
    /\ phase = "authorizing"
    /\ stableMain' = {main} /\ phase' = "reclaiming"
    /\ NoFault
    /\ UNCHANGED <<main, side, stable, todo, batch, tables, log, attempt, deferred, fsync>>

AuthorizeFails ==
    /\ phase = "authorizing" /\ Fault
    /\ deferred' = deferred \cup DOMAIN todo
    /\ todo' = <<>> /\ phase' = "ready"
    /\ UNCHANGED <<disk, batch, tables, log, attempt, fsync>>

\* Remove the file, or rename a flushed replacement over it.
Replace(x) ==
    /\ phase = "reclaiming" /\ x \in DOMAIN todo
    /\ WriteSide(x, {todo[x]}, {})
    /\ Continue(Without(todo, x), "reclaiming", "ready")
    /\ deferred' = deferred \ {x}
    /\ NoFault
    /\ UNCHANGED <<batch, tables, log, attempt, fsync>>

\* The operation reported a failure, whether or not it took effect.
ReplaceFails(x) ==
    /\ phase = "reclaiming" /\ x \in DOMAIN todo /\ Fault
    /\ WriteSide(x, {side[x], todo[x]}, {})
    /\ Continue(Without(todo, x), "reclaiming", "ready")
    /\ deferred' = deferred \cup {x}
    /\ UNCHANGED <<batch, tables, log, attempt, fsync>>

-----------------------------------------------------------------------------
(* Opening                                                                 *)

\* JsonlStorage.open: a new storage object over the directory.
Open ==
    /\ phase = "closed"
    /\ phase' = "opening" /\ tables' = EmptyTables /\ todo' = <<>> /\ batch' = <<>> /\ deferred' = {}
    /\ UNCHANGED <<disk, log, attempt, faults, fsync>>

\* readLines: a last line without its end is cut off, main.jsonl's first.
TruncateTorn ==
    /\ phase = "opening"
    /\ \/ EndsTorn(main) /\ WriteMain({Front(main)}, {})
       \/ ~EndsTorn(main) /\ \E x \in Ids : EndsTorn(side[x]) /\ WriteSide(x, {Front(side[x])}, {})
    /\ NoFault
    /\ UNCHANGED <<phase, todo, batch, tables, log, attempt, deferred, fsync>>

\* A truncation that fails makes the open fail.
TruncateTornFails ==
    /\ phase = "opening" /\ Fault
    /\ \/ EndsTorn(main) /\ WriteMain({main, Front(main)}, {})
       \/ ~EndsTorn(main) /\ \E x \in Ids : EndsTorn(side[x]) /\ WriteSide(x, {side[x], Front(side[x])}, {})
    /\ phase' = "closed"
    /\ UNCHANGED <<todo, batch, tables, log, attempt, deferred, fsync>>

\* Replay what the markers confirm.
Recover ==
    /\ phase = "opening" /\ ~EndsTorn(main) /\ \A x \in Ids : ~EndsTorn(side[x])
    /\ IF Corrupted
       THEN phase' = "corrupt" /\ UNCHANGED <<tables, todo>>
       ELSE /\ tables' = Replayed(Commits)
            /\ Continue(Tails, "trimming", "reopening")
    /\ UNCHANGED <<disk, batch, log, attempt, faults, deferred, fsync>>

Trim(x) ==
    /\ phase = "trimming" /\ x \in DOMAIN todo
    /\ WriteSide(x, {todo[x]}, {})
    /\ Continue(Without(todo, x), "trimming", "reopening")
    /\ NoFault
    /\ UNCHANGED <<batch, tables, log, attempt, deferred, fsync>>

TrimFails(x) ==
    /\ phase = "trimming" /\ x \in DOMAIN todo /\ Fault
    /\ WriteSide(x, {side[x], todo[x]}, {})
    /\ phase' = "closed" /\ todo' = <<>>
    /\ UNCHANGED <<batch, tables, log, attempt, deferred, fsync>>

PlanReclaims ==
    /\ phase = "reopening"
    /\ todo' = OpenReclaims
    /\ phase' = IF DOMAIN OpenReclaims = {} THEN "ready" ELSE BeforeReclaims
    /\ UNCHANGED <<disk, batch, tables, log, attempt, faults, deferred, fsync>>

-----------------------------------------------------------------------------
(* Ends                                                                    *)

\* The Session closes the storage after the commit it waits for, or after an error.
Close ==
    /\ phase \in {"ready", "poisoned"}
    /\ phase' = "closed" /\ todo' = <<>>
    /\ UNCHANGED <<disk, batch, tables, log, attempt, faults, deferred, fsync>>

\* The process ends between two file operations (a failed one covers its middle).
Crash ==
    /\ phase \notin {"closed", "corrupt"} /\ Fault
    /\ phase' = "closed" /\ todo' = <<>>
    /\ UNCHANGED <<disk, batch, tables, log, attempt, deferred, fsync>>

\* What was not flushed since it changed may be lost.
PowerLoss ==
    /\ fsync /\ phase # "corrupt" /\ Fault
    /\ \E m \in stableMain, s \in [Ids -> UNION {stable[x] : x \in Ids}] :
        /\ \A x \in Ids : s[x] \in stable[x]
        /\ main' = m /\ stableMain' = {m}
        /\ side' = s /\ stable' = [x \in Ids |-> {s[x]}]
        /\ log' = SubSeq(log, 1, Cardinality({i \in DOMAIN m : m[i] # Torn}))
    /\ phase' = "closed" /\ todo' = <<>>
    /\ UNCHANGED <<batch, tables, attempt, deferred, fsync>>

OnFile(x) ==
    \/ AppendSidecar(x) \/ AppendFails(x) \/ FlushSidecar(x) \/ FlushFails(x)
    \/ Replace(x) \/ ReplaceFails(x) \/ Trim(x) \/ TrimFails(x)

Next ==
    \/ Begin \/ AppendMarker \/ MarkerFails \/ Authorize \/ AuthorizeFails
    \/ Open \/ TruncateTorn \/ TruncateTornFails \/ Recover \/ PlanReclaims
    \/ Close \/ Crash \/ PowerLoss
    \/ \E x \in Ids : OnFile(x)

Spec == Init /\ [][Next]_vars

-----------------------------------------------------------------------------
(* Properties                                                              *)

Usable == {"ready", "appending", "flushing", "marking", "authorizing", "reclaiming"}

\* The shape of the state; files are left to handle exactly in the phases that do so.
TypeOK ==
    /\ phase \in Phases /\ fsync \in FsyncOptions /\ DOMAIN todo \subseteq Ids /\ deferred \subseteq Ids
    /\ DOMAIN todo # {} <=>
         phase \in {"trimming", "authorizing", "reclaiming", "appending", "flushing"}
    /\ attempt \in 0..MaxAttempts /\ faults \in 0..MaxFaults
    /\ main \in stableMain \/ ~fsync
    /\ \A x \in Ids : side[x] \in stable[x] \/ ~fsync

\* Whatever failed or crashed, recovery never meets a directory it calls corrupt: no
\* confirmed record is missing, out of order or behind an unconfirmed one, and no
\* append landed behind a torn line.
NeverCorrupt == phase # "corrupt"

\* Readers see what the markers in main.jsonl say, exactly: nothing of a commit without
\* a marker, no value of an earlier attempt at the same sequence, nothing resurrected
\* and nothing dropped by a reclamation, also right after recovery.
ReadersSeeCommitted == phase \in Usable => tables = Replayed(log)

\* A sidecar holds what the tables hold of its document or live task and nothing else,
\* unless its reclamation failed since the storage was opened; a failed reclamation
\* only ever leaves more.
SidecarsMatchTables ==
    phase = "ready" =>
        /\ \A d \in Documents \ deferred :
             [i \in DOMAIN side[d] |-> side[d][i].value]
               = [i \in DOMAIN tables.doc[d].revisions |-> tables.doc[d].revisions[i].value]
        /\ \A t \in Tasks \ deferred :
             IF tables.task[t].status = "live" THEN side[t] # <<>> /\ Last(side[t]).value = tables.task[t].value
                                               ELSE side[t] = <<>>

\* The files of the directory agree with the phase of the storage, with what reached
\* the device, and with the tables.
FilesAgree == TypeOK /\ SidecarsMatchTables

\* The storage implements the contract.
Contract == INSTANCE StorageContract WITH
    view <- IF phase \in Usable THEN tables ELSE Unavailable,
    mayLose <- fsync
ImplementsContract == Contract!Spec
=============================================================================
