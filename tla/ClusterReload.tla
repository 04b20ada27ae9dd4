---------------------------- MODULE ClusterReload ----------------------------
(***************************************************************************)
(* Reloads across the hosts of Chord (cluster.ts; reload.ts, host.ts and    *)
(* connection.ts for the epochs, the links and retirement).  A server and   *)
(* its child hosts run one epoch of their code and may still retain the     *)
(* previous one for the roots that run in it.  The server moves all to the  *)
(* next epoch: `prepare` on every usable link, votes, then `commit` or      *)
(* `abort`.  A child that connects behind is fenced and reconciled with the *)
(* same frames.  Links are FIFO; they break, are replaced by a reconnecting *)
(* child, and are closed by either end; child processes restart.  Loading   *)
(* and preparing fail, and so does a commit: its host fails for good, which *)
(* on the server refuses only the calls of its own records.                *)
(***************************************************************************)
EXTENDS Naturals, Sequences, FiniteSets

CONSTANTS
    Children,   \* the child hosts
    Roots,      \* the roots the server runs
    None,       \* no link
    MaxEpoch,   \* bound: the epochs the server allocates
    MaxLinks,   \* bound: for each child, the links it opens
    MaxFaults   \* bound: the server's setups and commits that throw

ASSUME BoundsAssumption ==
    MaxEpoch \in Nat \ {0} /\ MaxLinks \in [Children -> Nat \ {0}] /\ MaxFaults \in Nat

Links == UNION {{c} \X (1 .. MaxLinks[c]) : c \in Children}
LinksOf(c) == {l \in Links : l[1] = c}
ASSUME NoneAssumption == None \notin Links

VARIABLES
    srv,    \* the server: its epochs, #epochSeq, reloadSeq; history: the epochs it ran, the
            \* reloads whose commit it failed in, its faults
    pass,   \* the server's cluster reload, with the vote of every participant
    link,   \* every link: its ends, the frames on it, what the server knows of the peer;
            \* history: the epochs the server moved to without the usable peer
    child,  \* every child: its epochs, its reload, the calls it runs
    root    \* the server's roots: their epoch and the link of their pending call

vars == <<srv, pass, link, child, root>>

Idle   == [phase |-> "idle", local |-> "none", epoch |-> 0, id |-> 0, vote |-> <<>>]
NoOp   == [state |-> "none", id |-> 0, epoch |-> 0, cancelled |-> FALSE]
NoSync == [id |-> 0, epoch |-> 0]
Fresh  == [cur |-> 1, prev |-> 0, allowed |-> 0, op |-> NoOp, staged |-> 0,
           held |-> FALSE, loose |-> 0, runs |-> {}, failed |-> FALSE]
NoLink == [server |-> "new", child |-> "new", alive |-> FALSE, down |-> <<>>, up |-> <<>>,
           synced |-> FALSE, epoch |-> 0, sync |-> NoSync, missed |-> {}]

Frame(t, id, epoch) == [t |-> t, id |-> id, epoch |-> epoch]
Bye == Frame("bye", 0, 0)

Init ==
    /\ srv = [cur |-> 1, prev |-> 0, seq |-> 1, ids |-> 0, ran |-> {1}, lost |-> {}, faults |-> 0]
    /\ pass = Idle
    /\ link = [l \in Links |-> NoLink]
    /\ child = [c \in Children |-> Fresh]
    /\ root = [r \in Roots |-> [epoch |-> 0, at |-> None]]

-----------------------------------------------------------------------------
(* Links.  Functions from the state of the links to their state after.      *)

\* Frames sent into a dead link, or to an end that is closed, vanish.
SendDown(L, l, frames) ==
    IF L[l].server = "open" /\ L[l].child = "open" /\ L[l].alive
    THEN [L EXCEPT ![l].down = @ \o frames] ELSE L
SendUp(L, l, frames) ==
    IF L[l].server = "open" /\ L[l].child = "open" /\ L[l].alive
    THEN [L EXCEPT ![l].up = @ \o frames] ELSE L

\* To each link of a set its own frames: `frames` is a function on the set.
SendEach(L, frames) ==
    [l \in Links |-> IF l \in DOMAIN frames THEN SendDown(L, l, frames[l])[l] ELSE L[l]]

\* BaseLink.close and ended: the peer gets a `bye` after what was sent before.
CloseServerEnd(L, l) ==
    LET k == SendDown(L, l, <<Bye>>)[l]
    IN [L EXCEPT ![l] = [NoLink EXCEPT !.server = "closed", !.child = k.child, !.down = k.down,
                                       !.alive = k.alive /\ k.child = "open"]]
CloseChildEnd(L, l) ==
    LET k == SendUp(L, l, <<Bye>>)[l]
    IN [L EXCEPT ![l] = [k EXCEPT !.child = "closed", !.down = <<>>, !.alive = k.alive /\ k.server = "open"]]

Received(l, queue) == [link EXCEPT ![l][queue] = Tail(@)]

\* The child's upstream connection, while it is open.
Upstream(L, c) == {l \in LinksOf(c) : L[l].child = "open"}
SendParent(L, c, frames) ==
    IF Upstream(L, c) = {} THEN L ELSE SendUp(L, CHOOSE l \in Upstream(L, c) : TRUE, frames)

-----------------------------------------------------------------------------
(* Retirement.                                                             *)

ServerRoots(rt, e) == {r \in Roots : rt[r].epoch = e}
ChildRoots(h, e)   == {run \in h.runs : run.epoch = e}

\* retire on the server: every child host hears of it.
TellRetired(L, e) == SendEach(L, [l \in {k \in Links : L[k].server = "open"} |-> <<Frame("retire", 0, e)>>])

\* maybeRetire on the server, applied to its epochs and the links.
ServerRetires(s, rt) == s.prev # 0 /\ ServerRoots(rt, s.prev) = {}
MaybeRetire(s, rt, L) ==
    IF ServerRetires(s, rt)
    THEN srv' = [s EXCEPT !.prev = 0] /\ link' = TellRetired(L, s.prev)
    ELSE srv' = s /\ link' = L

\* Mutant: a child's own roots decide.
MayRetire_Alone(h, connected) == h.prev # 0 /\ ChildRoots(h, h.prev) = {}
\* A child with a parent also waits for the parent to retire the epoch.
MayRetire(h, connected) ==
    /\ h.prev # 0 /\ ChildRoots(h, h.prev) = {}
    /\ connected => h.prev <= h.allowed
ChildRetires(h, connected) == IF MayRetire(h, connected) THEN [h EXCEPT !.prev = 0] ELSE h

-----------------------------------------------------------------------------
(* The server's cluster reload.                                            *)

\* What the server may call over: an open link to a child it takes to be in step.
Usable(l) == link[l].server = "open" /\ link[l].synced

\* What a closed server end ends: awaited votes, the reconciliation, pending calls.
ServerLosesLink(l) ==
    /\ pass' = [pass EXCEPT !.vote = [p \in DOMAIN @ |-> IF p = l /\ @[p] = "wait" THEN "no" ELSE @[p]]]
    /\ root' = [r \in Roots |-> IF root[r].at = l THEN [root[r] EXCEPT !.at = None] ELSE root[r]]

\* The usable child links take part, as of now; then the modules load.
StartReload ==
    /\ pass.phase = "idle" /\ srv.seq < MaxEpoch
    /\ LET parts == {l \in Links : Usable(l)}
       IN pass' = [Idle EXCEPT !.phase = "loading", !.epoch = srv.seq + 1,
                               !.vote = [l \in parts |-> "none"]]
    /\ UNCHANGED <<srv, link, child, root>>

LoadFails ==
    /\ pass.phase = "loading"
    /\ pass' = Idle
    /\ UNCHANGED <<srv, link, child, root>>

MayFail == srv.faults < MaxFaults
\* load: a facet's setup may throw, before the epoch is allocated.
Loads(s) == {[seq |-> pass.epoch, local |-> "working", faults |-> s.faults]}
            \cup IF MayFail THEN {[seq |-> s.seq, local |-> "failing", faults |-> s.faults + 1]} ELSE {}
RetiresFirst(s) == [seq |-> s.seq, local |-> "retiring", faults |-> s.faults]

\* `prepare` to every participant; the server's own prepare first waits for the
\* roots of its previous epoch, when there are any.
Loaded ==
    /\ pass.phase = "loading"
    /\ LET id == srv.ids + 1
           sent == SendEach(link, [l \in DOMAIN pass.vote |-> <<Frame("prepare", id, pass.epoch)>>])
       IN \E x \in IF srv.prev # 0 /\ ~ServerRetires(srv, root) THEN {RetiresFirst(srv)} ELSE Loads(srv) :
             /\ pass' = [pass EXCEPT !.phase = "preparing", !.id = id, !.local = x.local,
                                     !.vote = [l \in DOMAIN @ |-> "wait"]]
             /\ MaybeRetire([srv EXCEPT !.ids = id, !.seq = x.seq, !.faults = x.faults], root, sent)
    /\ UNCHANGED <<child, root>>

\* The roots ended, or the deadline passed: the previous epoch is dropped.
RetirementEnds ==
    /\ pass.phase = "preparing" /\ pass.local = "retiring"
    /\ \E x \in Loads(srv) :
          /\ pass' = [pass EXCEPT !.local = x.local]
          /\ srv' = [srv EXCEPT !.prev = 0, !.seq = x.seq, !.faults = x.faults]
    /\ link' = IF srv.prev = 0 THEN link ELSE TellRetired(link, srv.prev)
    /\ UNCHANGED <<child, root>>

\* The server's own prepare succeeds, or fails and has rolled back.
LocalSettles ==
    /\ pass.phase = "preparing"
    /\ \E vote \in {"yes", "no"} :
          /\ pass.local = "working" \/ (pass.local = "failing" /\ vote = "no")
          /\ pass' = [pass EXCEPT !.local = vote]
    /\ UNCHANGED <<srv, link, child, root>>

\* awaitVote's deadline.
VoteMissing(l) ==
    /\ pass.phase = "preparing" /\ l \in DOMAIN pass.vote /\ pass.vote[l] = "wait"
    /\ pass' = [pass EXCEPT !.vote[l] = "no"]
    /\ UNCHANGED <<srv, link, child, root>>

AllSettled ==
    /\ pass.phase = "preparing" /\ pass.local \in {"yes", "no"}
    /\ \A l \in DOMAIN pass.vote : pass.vote[l] # "wait"
Unanimous == pass.local = "yes" /\ \A l \in DOMAIN pass.vote : pass.vote[l] = "yes"

CallFrame(r, e) == Frame("call", r, e)

\* Mutant: what the epoch starts runs before the commit frames are queued.
CommitFrames_Last(commit, started) == started \o commit
\* The commit is queued before anything the new epoch starts.
CommitFrames(commit, started) == commit \o started

\* The server moves to epoch e with the peers of some links; the usable others miss it.
Moves(L, parts, e) ==
    [l \in Links |-> CASE L[l].server = "open" /\ l \in parts -> [L[l] EXCEPT !.epoch = e]
                       [] L[l].synced /\ l \notin parts -> [L[l] EXCEPT !.missed = @ \cup {e}]
                       [] OTHER -> L[l]]

\* All voted yes: the server publishes the epoch, queues the commits and starts what
\* the epoch starts (a root of it may call a child at once); then endReload.  A start
\* that throws fails the host and undoes nothing.
Commit ==
    /\ AllSettled /\ Unanimous
    /\ pass' = Idle
    /\ \E r \in Roots, l \in Links \cup {None} :
          /\ l # None => root[r].epoch = 0 /\ Usable(l)
          /\ LET e == pass.epoch
                 frames(p) == CommitFrames(IF p \in DOMAIN pass.vote THEN <<Frame("commit", pass.id, 0)>> ELSE <<>>,
                                           IF p = l THEN <<CallFrame(r, e)>> ELSE <<>>)
                 queued == SendEach(link, [p \in DOMAIN pass.vote \cup ({l} \cap Links) |-> frames(p)])
                 started == IF l = None THEN root ELSE [root EXCEPT ![r] = [epoch |-> e, at |-> l]]
             IN /\ root' = started
                /\ MaybeRetire([srv EXCEPT !.prev = srv.cur, !.cur = e, !.ran = @ \cup {e}],
                               started, Moves(queued, DOMAIN pass.vote, e))
    /\ UNCHANGED child

\* The publication throws halfway: the server fails in its new epoch, and neither commit
\* nor abort goes to the participants; endReload.
CommitFails ==
    /\ AllSettled /\ Unanimous /\ MayFail
    /\ pass' = Idle
    /\ MaybeRetire([srv EXCEPT !.prev = srv.cur, !.cur = pass.epoch, !.ran = @ \cup {pass.epoch},
                               !.lost = @ \cup {pass.id}, !.faults = @ + 1],
                   root, Moves(link, {}, pass.epoch))
    /\ UNCHANGED <<child, root>>

\* A vote is missing or no: every participant aborts; the server's own prepare, if it
\* succeeded, is rolled back.
Abort ==
    /\ AllSettled /\ ~Unanimous
    /\ LET sent == SendEach(link, [l \in DOMAIN pass.vote |-> <<Frame("abort", pass.id, 0)>>])
       IN IF pass.local = "yes"
          THEN /\ pass' = [Idle EXCEPT !.phase = "unwinding"]
               /\ link' = sent /\ UNCHANGED srv
          ELSE /\ pass' = Idle
               /\ MaybeRetire(srv, root, sent)
    /\ UNCHANGED <<child, root>>

RolledBack ==
    /\ pass.phase = "unwinding"
    /\ pass' = Idle
    /\ MaybeRetire(srv, root, link)
    /\ UNCHANGED <<child, root>>

-----------------------------------------------------------------------------
(* What the server receives.                                               *)

\* A round of reconcileChild: a reload of the child to the server's current epoch.
Reconcile(L, l, first) ==
    /\ srv' = [srv EXCEPT !.ids = @ + 1]
    /\ link' = [SendDown(L, l, first \o <<Frame("prepare", srv.ids + 1, srv.cur)>>)
                   EXCEPT ![l].sync = [id |-> srv.ids + 1, epoch |-> srv.cur]]

\* Mutant: a child behind is taken for one in step.
InStep_Relabel(e) == e <= srv.cur
\* A child is usable when it runs the server's epoch.
InStep(e) == e = srv.cur

\* peerHello: usable, or fenced and reconciled.  A child ahead of the server would be
\* refused; OnlyCommitted says that there is none.
ReceiveHello(l, e) ==
    LET heard == Received(l, "up")
    IN /\ IF InStep(e)
          THEN link' = [heard EXCEPT ![l] = [@ EXCEPT !.synced = TRUE, !.epoch = srv.cur]] /\ UNCHANGED srv
          ELSE Reconcile([heard EXCEPT ![l].epoch = e], l, <<>>)
       /\ UNCHANGED <<pass, child, root>>

\* The server closes a link: a `bye` goes down.
ServerCloses(L, l) == link' = CloseServerEnd(L, l) /\ ServerLosesLink(l) /\ UNCHANGED <<srv, child>>

\* A vote settles the reload that awaits it; any other is dropped.
ReceiveVote(l, f) ==
    LET heard == Received(l, "up")
        sync == link[l].sync
    IN \/ /\ pass.phase = "preparing" /\ pass.id = f.id /\ l \in DOMAIN pass.vote /\ pass.vote[l] = "wait"
          /\ pass' = [pass EXCEPT !.vote[l] = f.vote]
          /\ link' = heard
          /\ UNCHANGED <<srv, child, root>>
       \/ /\ sync.id = f.id
          /\ \/ f.vote = "no" /\ ServerCloses(heard, l)
             \/ /\ f.vote = "yes" /\ sync.epoch # srv.cur      \* the server moved on: again
                /\ Reconcile(heard, l, <<Frame("abort", f.id, 0)>>)
                /\ UNCHANGED <<pass, child, root>>
             \/ /\ f.vote = "yes" /\ sync.epoch = srv.cur
                /\ link' = [SendDown(heard, l, <<Frame("commit", f.id, 0)>>)
                               EXCEPT ![l] = [@ EXCEPT !.synced = TRUE, !.epoch = srv.cur, !.sync = NoSync]]
                /\ UNCHANGED <<srv, pass, child, root>>
       \/ /\ sync.id # f.id
          /\ ~(pass.phase = "preparing" /\ pass.id = f.id /\ l \in DOMAIN pass.vote /\ pass.vote[l] = "wait")
          /\ link' = heard
          /\ UNCHANGED <<srv, pass, child, root>>

ReceiveResult(l, r) ==
    /\ link' = Received(l, "up")
    /\ root' = IF root[r].at = l THEN [root EXCEPT ![r].at = None] ELSE root
    /\ UNCHANGED <<srv, pass, child>>

ServerReceives(l) ==
    /\ link[l].server = "open" /\ link[l].up # <<>>
    /\ LET f == Head(link[l].up)
       IN \/ f.t = "hello" /\ ReceiveHello(l, f.epoch)
          \/ f.t = "vote" /\ ReceiveVote(l, f)
          \/ f.t = "result" /\ ReceiveResult(l, f.id)
          \/ f.t = "bye" /\ ServerCloses(link, l)

\* The reconciliation's vote deadline: the link is closed.
ReconcileTimesOut(l) == link[l].sync # NoSync /\ ServerCloses(link, l)

-----------------------------------------------------------------------------
(* The server's roots.                                                     *)

StartRoot(r) ==
    /\ root[r].epoch = 0
    /\ root' = [root EXCEPT ![r].epoch = srv.cur]
    /\ UNCHANGED <<srv, pass, link, child>>

Call(r, l) ==
    /\ root[r].epoch # 0 /\ root[r].at = None
    /\ Usable(l)
    /\ root' = [root EXCEPT ![r].at = l]
    /\ link' = SendDown(link, l, <<CallFrame(r, root[r].epoch)>>)
    /\ UNCHANGED <<srv, pass, child>>

EndRoot(r) ==
    /\ root[r].epoch # 0 /\ root[r].at = None
    /\ root' = [root EXCEPT ![r].epoch = 0]
    /\ MaybeRetire(srv, root', link)
    /\ UNCHANGED <<pass, child>>

-----------------------------------------------------------------------------
(* A child's reload: ChildReloads.                                         *)

Busy(h) == h.op.state # "none" \/ h.held      \* the host's reload slot

\* Mutant: an operation that voted is left to a commit that never comes.
Cancel_NotVoted(h) ==
    IF h.op.state \in {"none", "prepared"} THEN h ELSE [h EXCEPT !.op.cancelled = TRUE]
\* Loading, preparing and failing end by themselves; a rollback begins at once when
\* there is anything to roll back.
Cancel(h) ==
    CASE h.op.state = "none"     -> h
      [] h.op.state = "prepared" -> [h EXCEPT !.op = NoOp, !.held = TRUE]
      [] h.op.state = "working" /\ ~h.op.cancelled ->
             [h EXCEPT !.op.cancelled = TRUE, !.loose = @ + 1]
      [] h.op.state = "retiring" -> [h EXCEPT !.op.cancelled = TRUE, !.staged = 0]
      [] OTHER -> [h EXCEPT !.op.cancelled = TRUE]

\* endReload on a child.
Freed(h, L, c) == ChildRetires([h EXCEPT !.op = NoOp], Upstream(L, c) # {})

\* load: the new services are staged under the given epoch.
Stages(h) == [h EXCEPT !.prev = 0, !.staged = h.op.epoch, !.op.state = "working"]

Vote(h, L, c, vote) ==
    IF h.op.cancelled THEN L ELSE SendParent(L, c, <<[t |-> "vote", id |-> h.op.id, vote |-> vote]>>)

\* The modules are loaded: cancelled meanwhile, waiting for old roots, or staged.
ChildLoaded(c) ==
    LET h == child[c]
    IN /\ h.op.state = "loading"
       /\ child' = [child EXCEPT ![c] =
             IF h.op.cancelled THEN Freed([h EXCEPT !.staged = 0], link, c)
             ELSE IF h.prev # 0 /\ ChildRoots(h, h.prev) # {} THEN [h EXCEPT !.op.state = "retiring"]
             ELSE Stages(h)]
       /\ UNCHANGED <<srv, pass, link, root>>

ChildLoadFails(c) ==
    LET h == child[c]
    IN /\ h.op.state = "loading"
       /\ child' = [child EXCEPT ![c].op = NoOp]
       /\ link' = Vote(h, link, c, "no")
       /\ UNCHANGED <<srv, pass, root>>

\* The old roots ended or the deadline passed.  A cancelled reload still drops the old
\* epoch and stages its services, and only then finds out.
ChildRetirementEnds(c) ==
    LET h == child[c]
    IN /\ h.op.state = "retiring"
       /\ child' = [child EXCEPT ![c] =
             IF h.op.cancelled THEN Freed(Stages(h), link, c) ELSE Stages(h)]
       /\ UNCHANGED <<srv, pass, link, root>>

\* prepare settles: a cancelled one frees the slot, whether its rollback has ended or not.
ChildPrepares(c) ==
    LET h == child[c]
    IN /\ h.op.state = "working"
       /\ \/ /\ h.op.cancelled
             /\ child' = [child EXCEPT ![c] = Freed(h, link, c)]
             /\ UNCHANGED link
          \/ /\ ~h.op.cancelled
             /\ child' = [child EXCEPT ![c].op.state = "prepared"]
             /\ link' = Vote(h, link, c, "yes")
          \/ /\ ~h.op.cancelled
             /\ child' = [child EXCEPT ![c].op.state = "failing"]
             /\ UNCHANGED link
       /\ UNCHANGED <<srv, pass, root>>

\* A rollback ends: of a prepare that failed, of a cancelled vote, or of a cancelled
\* prepare.
ChildRolledBack(c) ==
    LET h == child[c]
    IN /\ \/ /\ h.op.state = "failing"
             /\ child' = [child EXCEPT ![c] = Freed([h EXCEPT !.staged = 0], link, c)]
             /\ link' = Vote(h, link, c, "no")
          \/ /\ h.held
             /\ child' = [child EXCEPT ![c] = Freed([h EXCEPT !.staged = 0, !.held = FALSE], link, c)]
             /\ UNCHANGED link
          \/ /\ h.loose > 0
             /\ child' = [child EXCEPT ![c] = [@ EXCEPT !.staged = 0, !.loose = h.loose - 1]]
             /\ UNCHANGED link
       /\ UNCHANGED <<srv, pass, root>>

-----------------------------------------------------------------------------
(* What a child receives.                                                  *)

\* A second reload while one holds the slot is refused.
ReceivePrepare(h, f) ==
    [h EXCEPT !.op = [state |-> "loading", id |-> f.id, epoch |-> f.epoch, cancelled |-> FALSE]]
Refusal(f) == <<[t |-> "vote", id |-> f.id, vote |-> "no"]>>

\* commit publishes what is staged; without it, or when an install throws, the host fails.
Install(h, throws) ==
    IF h.staged = 0 THEN [h EXCEPT !.failed = TRUE]
    ELSE [h EXCEPT !.prev = h.cur, !.cur = h.staged, !.staged = 0, !.failed = @ \/ throws]

Retains(h, e) == ~h.failed /\ (e = h.cur \/ (h.prev # 0 /\ e = h.prev))

ChildReceives(l) ==
    LET c == l[1]
        h == child[c]
        f == Head(link[l].down)
        heard == Received(l, "down")
        Becomes(new, L) == child' = [child EXCEPT ![c] = new] /\ link' = L
    IN /\ link[l].child = "open" /\ link[l].down # <<>>
       /\ \/ f.t = "prepare" /\ ~Busy(h) /\ Becomes(ReceivePrepare(h, f), heard)
          \/ f.t = "prepare" /\ Busy(h) /\ Becomes(h, SendUp(heard, l, Refusal(f)))
          \/ f.t = "abort" /\ Becomes(IF h.op.id = f.id THEN Cancel(h) ELSE h, heard)
          \/ /\ f.t = "commit"
             /\ \E throws \in BOOLEAN :
                   Becomes(IF h.op.id = f.id /\ h.op.state = "prepared" THEN Freed(Install(h, throws), link, c) ELSE h, heard)
          \/ /\ f.t = "retire"
             /\ Becomes(ChildRetires([h EXCEPT !.allowed = IF f.epoch > @ THEN f.epoch ELSE @], TRUE), heard)
          \/ /\ f.t = "call" /\ Retains(h, f.epoch)
             /\ Becomes([h EXCEPT !.runs = @ \cup {[root |-> f.id, epoch |-> f.epoch, link |-> l]}], heard)
          \/ /\ f.t = "call" /\ ~Retains(h, f.epoch)      \* superseded
             /\ Becomes(h, SendUp(heard, l, <<Frame("result", f.id, 0)>>))
          \/ f.t = "bye" /\ Becomes(Cancel(h), CloseChildEnd(link, l))
       /\ UNCHANGED <<srv, pass, root>>

\* A call ends; its result goes back over the link it came by.
ChildReturns(c) ==
    \E run \in child[c].runs :
        /\ child' = [child EXCEPT ![c] =
              ChildRetires([child[c] EXCEPT !.runs = @ \ {run}], Upstream(link, c) # {})]
        /\ link' = SendUp(link, run.link, <<Frame("result", run.root, 0)>>)
        /\ UNCHANGED <<srv, pass, root>>

-----------------------------------------------------------------------------
(* Links come and go.                                                      *)

Opened(c) == Cardinality({l \in LinksOf(c) : link[l].child # "new"})

\* connect: an older link that is still open is closed as replaced; the child's hello
\* tells its epoch.
Connect(c) ==
    LET l == <<c, Opened(c) + 1>>
        old == Upstream(link, c)
        closed == IF old = {} THEN link ELSE CloseChildEnd(link, CHOOSE o \in old : TRUE)
        lost == IF old = {} THEN child[c] ELSE Cancel(child[c])
    IN /\ l \in Links
       /\ link' = [closed EXCEPT ![l] = [NoLink EXCEPT !.server = "open", !.child = "open", !.alive = TRUE,
                                                       !.up = <<Frame("hello", 0, lost.cur)>>]]
       /\ child' = [child EXCEPT ![c] = lost]
       /\ UNCHANGED <<srv, pass, root>>

\* The transport breaks: what is in flight is lost, and neither end knows.
Cut(l) ==
    /\ link[l].alive
    /\ link' = [link EXCEPT ![l] = [@ EXCEPT !.alive = FALSE, !.down = <<>>, !.up = <<>>]]
    /\ UNCHANGED <<srv, pass, child, root>>

\* An end of a dead link finds out: the transport reports it, or no ping is answered.
ServerNotices(l) == link[l].server = "open" /\ ~link[l].alive /\ ServerCloses(link, l)
ChildNotices(l) ==
    /\ link[l].child = "open" /\ ~link[l].alive
    /\ child' = [child EXCEPT ![l[1]] = Cancel(@)]
    /\ link' = CloseChildEnd(link, l)
    /\ UNCHANGED <<srv, pass, root>>

\* A child's process ends and starts again, at its first epoch.
Restart(c) ==
    /\ Opened(c) \in 1 .. MaxLinks[c] - 1
    /\ child' = [child EXCEPT ![c] = Fresh]
    /\ link' = [l \in Links |->
          IF l[1] = c /\ link[l].child = "open"
          THEN [link[l] EXCEPT !.child = "closed", !.alive = FALSE, !.down = <<>>, !.up = <<>>]
          ELSE link[l]]
    /\ UNCHANGED <<srv, pass, root>>

-----------------------------------------------------------------------------

ServerReloads ==
    \/ LoadFails \/ Loaded \/ RetirementEnds \/ LocalSettles
    \/ Commit \/ CommitFails \/ Abort \/ RolledBack
    \/ \E l \in Links : VoteMissing(l)

ChildReload(c) ==
    ChildLoaded(c) \/ ChildLoadFails(c) \/ ChildRetirementEnds(c) \/ ChildPrepares(c) \/ ChildRolledBack(c)

ServerEnd(l) == ServerReceives(l) \/ ReconcileTimesOut(l) \/ ServerNotices(l)
ChildEnd(l)  == ChildReceives(l) \/ ChildNotices(l)

Next ==
    \/ StartReload \/ ServerReloads
    \/ \E l \in Links : ServerEnd(l) \/ ChildEnd(l) \/ Cut(l)
    \/ \E r \in Roots : StartRoot(r) \/ EndRoot(r) \/ \E l \in Links : Call(r, l)
    \/ \E c \in Children : ChildReload(c) \/ ChildReturns(c) \/ Connect(c) \/ Restart(c)

Spec == Init /\ [][Next]_vars

\* Frames arrive, modules load, factories and rollbacks settle, deadlines fire and an
\* end of a dead link finds out.  Nothing makes a call return, a child connect, a
\* server reload or a root end.
FairSpec ==
    /\ Spec
    /\ WF_vars(ServerReloads)
    /\ \A l \in Links : WF_vars(ServerEnd(l)) /\ WF_vars(ChildEnd(l))
    /\ \A c \in Children : WF_vars(ChildReload(c))

-----------------------------------------------------------------------------
(* Properties.                                                             *)

Open(l) == link[l].server = "open" /\ link[l].child = "open" /\ link[l].alive
CommitAt(l, i) == link[l].down[i].t = "commit" /\ link[l].down[i].id = child[l[1]].op.id

Epochs == 0 .. MaxEpoch
TypeOK ==
    /\ srv \in [cur : Epochs \ {0}, prev : Epochs, seq : Epochs, ids : Nat, ran : SUBSET Epochs,
                lost : SUBSET Nat, faults : Nat]
    /\ pass.phase \in {"idle", "loading", "preparing", "unwinding"} /\ pass.epoch \in Epochs
    /\ pass.local \in {"none", "retiring", "working", "failing", "yes", "no"}
    /\ DOMAIN pass.vote \subseteq Links
    /\ \A l \in Links :
          /\ {link[l].server, link[l].child} \subseteq {"new", "open", "closed"}
          /\ link[l].synced \in BOOLEAN /\ link[l].epoch \in Epochs /\ link[l].missed \subseteq srv.ran
    /\ \A c \in Children :
          /\ {child[c].cur, child[c].prev, child[c].allowed, child[c].staged, child[c].op.epoch} \subseteq Epochs
          /\ child[c].op.state \in {"none", "loading", "retiring", "working", "prepared", "failing"}
          /\ child[c].runs \subseteq [root : Roots, epoch : Epochs, link : Links]
    /\ root \in [Roots -> [epoch : Epochs, at : Links \cup {None}]]

\* Every epoch a host runs or retains is one the server has run, so a child is never
\* ahead of its parent (host.ts:771-775: "impossible").
OnlyCommitted ==
    /\ \A c \in Children : {child[c].cur, child[c].prev} \subseteq srv.ran \cup {0}
    /\ \A l \in Links : \A i \in DOMAIN link[l].up :
          link[l].up[i].t = "hello" => link[l].up[i].epoch <= srv.cur

\* What the server takes a usable child to run, the child runs, or a commit of what it
\* has prepared is on the way (cluster.ts:81-97, 116-141).
PeersKnown ==
    \A l \in Links : LET h == child[l[1]] IN
        Open(l) /\ link[l].synced /\ ~h.failed =>
            \/ h.cur = link[l].epoch
            \/ h.op.state = "prepared" /\ h.op.epoch = link[l].epoch /\ \E i \in DOMAIN link[l].down : CommitAt(l, i)

\* A call reaches a child after the commit of its epoch, unless the server moved to that
\* epoch without the child: one that became usable after the participants were fixed, or
\* any when the server's commit failed (cluster.ts:9-13, 45-50, 92-97; reload.ts:528-532).
CommitFirst ==
    \A l \in Links : \A i \in DOMAIN link[l].down :
        LET h == child[l[1]]
            f == link[l].down[i]
        IN f.t = "call" /\ f.epoch \notin link[l].missed /\ link[l].synced /\ ~h.failed =>
              f.epoch <= h.cur \/ (f.epoch <= h.op.epoch /\ \E k \in 1 .. i - 1 : CommitAt(l, k))

\* Besides types, the hosts agree on the epochs: a child runs only what the server decided, what the
\* server takes it to run, and the new code before the new calls, where it is given the new
\* code.  A host that failed in its commit is exempt (see StagedByReload).
EpochsAgree == TypeOK /\ OnlyCommitted /\ PeersKnown /\ CommitFirst

\* Unless a new prepare forces it, a child drops an epoch only when nothing of it runs there
\* and, while it has a parent, only when the parent has dropped it (host.ts:524-538).
RetiresInTurn ==
    [][\A c \in Children :
        LET old == child[c].prev
            forced == child[c].op.state \in {"loading", "retiring"} /\ child'[c].op.state # child[c].op.state
        IN old # 0 /\ child'[c].prev = 0 /\ child'[c] # Fresh /\ ~forced =>
               /\ ChildRoots(child'[c], old) = {}
               /\ Upstream(link', c) # {} => old \notin {srv.prev, srv.cur}]_vars

\* A child that voted for a reload whose commit the server failed in hears no decision.
Abandoned(c) == child[c].op.state = "prepared" /\ child[c].op.id \in srv.lost

\* Every reload ends and frees its slot, on the server and on the children, whatever
\* becomes of the links; a child that voted for a reload whose commit the server failed in
\* is only freed when it loses its link; a fenced child becomes usable or loses its link
\* (cluster.ts:106-108, 152-156, 191-209; host.ts:765-781; reload.ts:528-532).
ReloadsEnd ==
    /\ pass.phase # "idle" ~> pass.phase = "idle"
    /\ \A c \in Children : /\ Busy(child[c]) ~> ~Busy(child[c]) \/ Abandoned(c)
                          /\ Busy(child[c]) /\ Upstream(link, c) = {} ~> ~Busy(child[c])
    /\ \A l \in Links : link[l].server = "open" ~> link[l].synced \/ link[l].server = "closed"

-----------------------------------------------------------------------------
(* Five statements the documents make and the code does not keep; the README *)
(* tells how each fails.  No run checks them.                               *)

\* Nothing is routed to a child behind the server (guide.md:687, connection.ts:207).
UsableIsCurrent == \A l \in Links : Usable(l) /\ pass.phase = "idle" => link[l].epoch = srv.cur

\* A child retires an epoch only after its parent retired it (spec.md:231).
ParentRetiresFirst ==
    [][\A c \in Children :
        child[c].prev # 0 /\ child'[c].prev = 0 /\ child'[c] # Fresh /\ Upstream(link', c) # {}
            => srv.prev # child[c].prev]_vars

\* A host stages what its reload has prepared, and an aborted reload leaves nothing
\* (reload.ts:173, cluster.ts:152-156).
StagedByReload ==
    \A c \in Children :
        /\ child[c].op.state = "prepared" => child[c].staged = child[c].op.epoch
        /\ ~Busy(child[c]) /\ child[c].loose = 0 => child[c].staged = 0

\* No host receives a call of an epoch before it commits it (spec.md:191, cluster.ts:9-11).
NoCallAhead ==
    \A l \in Links : \A i \in DOMAIN link[l].down :
        Open(l) /\ link[l].down[i].t = "call" =>
            link[l].down[i].epoch <= child[l[1]].cur \/ \E k \in 1 .. i - 1 : CommitAt(l, k)

\* A failure of the server's aborts everywhere, and every child's slot is freed
\* (cluster.ts:12, 152-156).
SlotsFreed == \A c \in Children : Busy(child[c]) ~> ~Busy(child[c])
=============================================================================
