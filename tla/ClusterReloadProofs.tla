------------------------ MODULE ClusterReloadProofs -------------------------
(***************************************************************************)
(* What the hosts of a cluster know of one another's epochs, for any number *)
(* of children, links, roots and epochs.  A frame on its way says what its  *)
(* sender knew when it sent it; the proofs say what it still tells when it  *)
(* arrives: which frames can be ahead of it, which reload a vote or a       *)
(* commit belongs to, and what the child has done since.                    *)
(*                                                                          *)
(* With that, every action of the server, of a child and of a link keeps the*)
(* invariant, so the hosts agree on their epochs and children retire in turn.*)
(***************************************************************************)
EXTENDS ClusterReload, FiniteSetTheorems, TLAPS

-----------------------------------------------------------------------------
(* Types.                                                                  *)

Ends   == {"new", "open", "closed"}
Votes  == {"none", "wait", "yes", "no"}
Orders == {"prepare", "commit", "abort"}

DownFrame == [t : Orders, id : Nat \ {0}, epoch : Epochs] \cup [t : {"retire"}, id : {0}, epoch : Epochs]
               \cup [t : {"call"}, id : Roots, epoch : Epochs] \cup {Bye}
UpFrame   == [t : {"hello"}, id : {0}, epoch : Epochs] \cup [t : {"vote"}, id : Nat \ {0}, vote : {"yes", "no"}]
               \cup [t : {"result"}, id : Roots, epoch : {0}] \cup {Bye}

LinkState  == [server : Ends, child : Ends, alive : BOOLEAN, down : Seq(DownFrame), up : Seq(UpFrame),
               synced : BOOLEAN, epoch : Epochs, sync : [id : Nat, epoch : Epochs], missed : SUBSET Epochs]
OpState    == [state : {"none", "loading", "retiring", "working", "prepared", "failing"},
               id : Nat, epoch : Epochs, cancelled : BOOLEAN]
RunRecord  == [root : Roots, epoch : Epochs, link : Links]
ChildState == [cur : Epochs, prev : Epochs, allowed : Epochs, op : OpState, staged : Epochs,
               held : BOOLEAN, loose : Nat, runs : SUBSET RunRecord, failed : BOOLEAN]
PassState  == [phase : {"idle", "loading", "preparing", "unwinding"},
               local : {"none", "retiring", "working", "failing", "yes", "no"},
               epoch : Epochs, id : Nat, vote : UNION {[P -> Votes] : P \in SUBSET Links}]

-----------------------------------------------------------------------------
(* The invariant.  Its parts are operators of the server s, its reload p, the *)
(* links L, the children ch and the roots rt, so that an action that does two *)
(* things can be taken for two steps.                                       *)

ServerState == [cur : Epochs \ {0}, prev : Epochs, seq : Epochs, ids : Nat, ran : SUBSET Epochs,
                lost : SUBSET Nat, faults : Nat]
Types(s, p, L, ch, rt) ==
    /\ s \in ServerState
    /\ p \in PassState
    /\ L \in [Links -> LinkState]
    /\ ch \in [Children -> ChildState]
    /\ rt \in [Roots -> [epoch : Epochs, at : Links \cup {None}]]

\* The epochs of the server rise, and the next one is none it ran.
EpochsRise(s, p) ==
    /\ {1, s.cur} \subseteq s.ran /\ s.ran \subseteq 1 .. s.cur
    /\ s.prev < s.cur /\ s.cur <= s.seq
    /\ p.phase = "loading" => p.epoch = s.seq + 1
    /\ p.phase = "preparing" => p.id # 0 /\ p.epoch > s.cur
    /\ p.phase = "preparing" /\ p.local \in {"working", "yes"} => s.seq = p.epoch

\* The links of a child follow one another, one of them open at its end; what is on its
\* way to a link the server has open will arrive or is lost at once.
OpenIn(L, l) == L[l].server = "open" /\ L[l].child = "open" /\ L[l].alive
OneUpstream(L) ==
    /\ \A l, m \in Links : l[1] = m[1] /\ L[l].child = "open" /\ L[m].child = "open" => l = m
    /\ \A c \in Children : \E n \in 0 .. MaxLinks[c] :
          {l \in LinksOf(c) : L[l].child # "new"} = {c} \X (1 .. n)
    /\ \A l \in Links : L[l].server = "open" => L[l].child # "new"
    /\ \A l \in Links : L[l].server = "open" /\ L[l].down # <<>> => OpenIn(L, l)

FirstHello(k) == \A n \in DOMAIN k.up : k.up[n].t = "hello" => n = 1 /\ ~k.synced /\ k.sync = NoSync

\* What the server knew of a link it has closed is forgotten, and it knows nothing
\* of a child whose hello it has not read.
ServerEnds(L, p) ==
    /\ \A l \in Links : L[l].synced => L[l].server = "open" /\ L[l].sync = NoSync
    /\ \A l \in Links : L[l].sync # NoSync => L[l].server = "open" /\ L[l].sync.id # 0
    /\ \A l \in DOMAIN p.vote : L[l].child # "new" /\ (L[l].server = "open" => L[l].synced)
    /\ \A l \in Links : FirstHello(L[l])

\* A reload of a child stages its own epoch or lost it, and one that voted goes on.
Stage(h) ==
    /\ h.op.state = "none" => h.op = NoOp
    /\ h.op.state # "none" => h.op.id # 0
    /\ h.op.state \in {"working", "prepared"} => h.staged \in {0, h.op.epoch}
    /\ h.op.state = "prepared" => ~h.op.cancelled
    /\ h.held => h.op.state = "none"
    /\ h.op.state \in {"working", "prepared", "failing"} => h.prev = 0
Staging(ch) == \A c \in Children : Stage(ch[c])

Frames(q) == {q[k] : k \in DOMAIN q}
Has(q, t, i) == \E f \in Frames(q) : f.t = t /\ f.id = i
OnTheWay(L) == UNION {Frames(L[l].down) : l \in Links}

\* A reload under way, by its id and its epoch: offered, held by a child, or waited for.
Offered(p, L, ch, i, e) ==
    \/ \E f \in OnTheWay(L) : f.t = "prepare" /\ f.id = i /\ f.epoch = e
    \/ \E c \in Children : ch[c].op.state # "none" /\ ch[c].op.id = i /\ ch[c].op.epoch = e
    \/ p.phase = "preparing" /\ p.id = i /\ p.epoch = e
    \/ \E l \in Links : L[l].sync # NoSync /\ L[l].sync.id = i /\ L[l].sync.epoch = e
Committed(L, i) == \E f \in OnTheWay(L) : f.t = "commit" /\ f.id = i

\* An id stands for one epoch, and what is committed was run by the server.
OneEpochEach(s, p, L, ch) ==
    /\ \A i \in Nat, e, f \in Epochs : Offered(p, L, ch, i, e) /\ Offered(p, L, ch, i, f) => e = f
    /\ \A i \in Nat, e \in Epochs : Offered(p, L, ch, i, e) => i <= s.ids
    /\ \A i \in Nat, e \in Epochs : Offered(p, L, ch, i, e) /\ Committed(L, i) => e \in s.ran
    /\ \A f \in OnTheWay(L) : f.t \in Orders => f.id <= s.ids
    /\ \A l \in Links : \A f \in Frames(L[l].up) : f.t = "vote" => f.id <= s.ids

\* What the server's reload asks of a link.
NoAsk == [id |-> 0, vote |-> "none"]
Ask(p, l) == IF p.phase = "preparing" /\ l \in DOMAIN p.vote THEN [id |-> p.id, vote |-> p.vote[l]] ELSE NoAsk

(* What can be under way on an open link k to the child h, of which the      *)
(* server's reload asks q.                                                   *)

\* The server may still commit reload i.
Undecided(k, q, i) == i # 0 /\ (i = k.sync.id \/ (i = q.id /\ q.vote # "no"))

\* Nothing reaches a child before its hello was read, and it keeps the epoch it told.
HelloFirst(k, h) ==
    \A n \in DOMAIN k.up : k.up[n].t = "hello" =>
        /\ n = 1 /\ ~k.synced /\ k.sync = NoSync /\ k.up[n].epoch = h.cur
        /\ \A f \in Frames(k.down) : f.t = "retire"
NoCallsYet(k) == ~k.synced => \A f \in Frames(k.down) : f.t # "call"

\* A reload is offered once, and is not decided while the server waits for it.
OfferedOnce(k, h) ==
    \A n, m \in DOMAIN k.down : k.down[n].t = "prepare" =>
        /\ k.down[n].id # h.op.id
        /\ k.down[m].t = "prepare" /\ k.down[m].id = k.down[n].id => m = n
Waits(k, q) == \A f \in Frames(k.down) : f.t \in {"abort", "commit"} => f.id # k.sync.id /\ f.id # q.id

\* A vote comes from what the child has prepared, which waits for the decision.
Pending(k, h, i) ==
    \/ Has(k.down, "prepare", i)
    \/ h.op.id = i /\ h.op.state \in {"loading", "retiring", "working", "failing"}
SaidYes(k, q, i) ==
    \/ \E f \in Frames(k.up) : f.t = "vote" /\ f.id = i /\ f.vote = "yes"
    \/ q.id = i /\ q.vote = "yes"
    \/ Has(k.down, "commit", i)
VotesLast(k, h, q) == \A i \in Nat : Pending(k, h, i) => ~SaidYes(k, q, i)
VoteStands(k, h, q) ==
    \A i \in Nat : SaidYes(k, q, i) /\ Undecided(k, q, i) => h.op.id = i /\ h.op.state = "prepared"

\* A commit of what the child has prepared makes true what the server takes it to run,
\* and comes before the calls of epochs the child has not reached, unless the server moved
\* to them without it.
NewCall(k, h, f) == f.t = "call" /\ f.epoch \notin k.missed /\ ~(f.epoch <= h.cur)
CommitTells(k, h) ==
    \A n \in DOMAIN k.down : k.down[n].t = "commit" /\ k.down[n].id = h.op.id =>
        /\ k.synced /\ k.epoch = h.op.epoch
        /\ ~Has(k.down, "abort", h.op.id)
        /\ ~h.failed => \A m \in DOMAIN k.down : NewCall(k, h, k.down[m]) => n < m
Known(k, h) ==
    k.synced /\ ~h.failed =>
        h.cur = k.epoch \/ (h.op.state = "prepared" /\ h.op.epoch = k.epoch /\ Has(k.down, "commit", h.op.id))

Protocol(k, h, q) ==
    /\ HelloFirst(k, h) /\ NoCallsYet(k) /\ OfferedOnce(k, h) /\ Waits(k, q)
    /\ VotesLast(k, h, q) /\ VoteStands(k, h, q) /\ CommitTells(k, h) /\ Known(k, h)
Protocols(p, L, ch) == \A l \in Links : OpenIn(L, l) => Protocol(L[l], ch[l[1]], Ask(p, l))

\* Calls are of epochs the server ran by then.
CallsKnown(s, L, rt) ==
    /\ \A r \in Roots : rt[r].epoch \in s.ran \cup {0}
    /\ \A f \in OnTheWay(L) : f.t = "call" => f.epoch \in s.ran \cup {0}

\* An epoch the server ran is not newer than what it takes a child to run, or missed it.
MissedIn(s, k) ==
    /\ k.missed \subseteq s.ran
    /\ k.synced => \A e \in s.ran : e <= k.epoch \/ e \in k.missed
Missed(s, L) == \A l \in Links : MissedIn(s, L[l])

\* What the server says is retired is older than all it still retains.
Retired(s, e) == e < s.cur /\ (s.prev # 0 => e < s.prev)
RetiredIsOld(s, L, ch) ==
    /\ \A c \in Children : Retired(s, ch[c].allowed)
    /\ \A f \in OnTheWay(L) : f.t = "retire" => Retired(s, f.epoch)

\* Children run what the server ran.
EpochsRun(s, L, ch) ==
    /\ \A c \in Children : {ch[c].cur, ch[c].prev} \subseteq s.ran \cup {0}
    /\ \A l \in Links : \A f \in Frames(L[l].up) : f.t = "hello" => f.epoch <= s.cur

All(s, p, L, ch, rt) ==
    /\ Types(s, p, L, ch, rt) /\ EpochsRise(s, p) /\ OneUpstream(L) /\ ServerEnds(L, p) /\ Staging(ch)
    /\ OneEpochEach(s, p, L, ch) /\ Protocols(p, L, ch) /\ CallsKnown(s, L, rt) /\ RetiredIsOld(s, L, ch)
    /\ EpochsRun(s, L, ch) /\ Missed(s, L)
Inv == All(srv, pass, link, child, root)

-----------------------------------------------------------------------------
(* Queues of frames.                                                       *)

\* A link is one of its child.
LEMMA LinkChild == \A l \in Links : l[1] \in Children /\ l \in LinksOf(l[1])
  BY DEF Links, LinksOf

LEMMA FramesOfEmpty == Frames(<<>>) = {}
  BY DEF Frames

\* The frames of a queue, and of what is left when one is taken from it.
LEMMA FramesOfConcat ==
  ASSUME NEW S, NEW q \in Seq(S), NEW r \in Seq(S)
  PROVE  Frames(q \o r) = Frames(q) \cup Frames(r)
<1>1. ASSUME NEW f \in Frames(q \o r) PROVE f \in Frames(q) \cup Frames(r)
  BY DEF Frames
<1>2. ASSUME NEW f \in Frames(q) PROVE f \in Frames(q \o r)
  BY DEF Frames
<1>3. ASSUME NEW f \in Frames(r) PROVE f \in Frames(q \o r)
  <2>1. PICK k \in DOMAIN r : f = r[k]
    BY DEF Frames
  <2>2. Len(q) + k \in DOMAIN (q \o r) /\ (q \o r)[Len(q) + k] = f
    BY <2>1
  <2> QED
    BY <2>2 DEF Frames
<1> QED
  BY <1>1, <1>2, <1>3

LEMMA FramesOfOne == ASSUME NEW f PROVE Frames(<<f>>) = {f}
  BY DEF Frames

LEMMA FramesOfTail ==
  ASSUME NEW S, NEW q \in Seq(S), q # <<>>
  PROVE  /\ Tail(q) \in Seq(S) /\ Head(q) \in S /\ Head(q) \in Frames(q)
         /\ Frames(Tail(q)) \subseteq Frames(q)
         /\ Frames(q) \subseteq Frames(Tail(q)) \cup {Head(q)}
<1>1. Tail(q) \in Seq(S) /\ Head(q) \in S /\ Head(q) \in Frames(q)
  BY DEF Frames
<1>2. Frames(Tail(q)) \subseteq Frames(q)
  BY DEF Frames
<1>3. ASSUME NEW f \in Frames(q), f # Head(q) PROVE f \in Frames(Tail(q))
  <2>1. PICK k \in DOMAIN q : f = q[k]
    BY DEF Frames
  <2>2. k # 1 /\ k - 1 \in DOMAIN Tail(q) /\ Tail(q)[k - 1] = f
    BY <1>3, <2>1
  <2> QED
    BY <2>2 DEF Frames
<1> QED
  BY <1>1, <1>2, <1>3

LEMMA NoVotes == <<>> \in UNION {[P -> Votes] : P \in SUBSET Links} /\ DOMAIN <<>> = {}
<1>1. DOMAIN <<>> = {}
  OBVIOUS
<1>2. <<>> \in [{} -> Votes]
  OBVIOUS
<1>3. {} \in SUBSET Links
  OBVIOUS
<1> QED
  BY <1>1, <1>2, <1>3, Zenon

-----------------------------------------------------------------------------
(* Types of the frames and of what moves them.                             *)

\* The frames the hosts send are frames of the types above.
LEMMA FrameTypes ==
  /\ Bye \in DownFrame /\ Bye \in UpFrame /\ Bye.t = "bye"
  /\ \A t \in Orders, i \in Nat \ {0}, e \in Epochs : Frame(t, i, e) \in DownFrame
  /\ \A e \in Epochs : Frame("retire", 0, e) \in DownFrame
  /\ \A r \in Roots, e \in Epochs : Frame("call", r, e) \in DownFrame
  /\ \A e \in Epochs : Frame("hello", 0, e) \in UpFrame
  /\ \A r \in Roots : Frame("result", r, 0) \in UpFrame
  /\ \A i \in Nat \ {0}, v \in {"yes", "no"} : [t |-> "vote", id |-> i, vote |-> v] \in UpFrame
  BY DEF DownFrame, UpFrame, Frame, Bye, Orders

\* The values the system starts with.
LEMMA InitTypes ==
  /\ NoLink \in LinkState /\ NoOp \in OpState /\ Idle \in PassState /\ NoSync \in [id : Nat, epoch : Epochs]
  /\ Fresh \in ChildState
<1>1. 0 \in Epochs /\ 1 \in Epochs
  BY BoundsAssumption DEF Epochs
<1>2. NoSync \in [id : Nat, epoch : Epochs] /\ NoOp \in OpState
  BY <1>1 DEF NoSync, NoOp, OpState
<1>3. NoLink \in LinkState
  BY <1>1, <1>2 DEF NoLink, LinkState, Ends
<1>4. Fresh \in ChildState
  BY <1>1, <1>2 DEF Fresh, ChildState
<1>5. Idle \in PassState
  BY <1>1, NoVotes DEF Idle, PassState
<1> QED
  BY <1>2, <1>3, <1>4, <1>5

LEMMA Zero == 0 \in Epochs
  BY BoundsAssumption DEF Epochs

LinkTable == [Links -> LinkState]

\* Frames reach a link that is open at both ends and alive, and change nothing else.
LEMMA SendDownIs ==
  ASSUME NEW L \in LinkTable, NEW l \in Links, NEW fs \in Seq(DownFrame)
  PROVE  /\ SendDown(L, l, fs) \in LinkTable
         /\ \A m \in Links \ {l} : SendDown(L, l, fs)[m] = L[m]
         /\ SendDown(L, l, fs)[l] = IF OpenIn(L, l) THEN [L[l] EXCEPT !.down = @ \o fs] ELSE L[l]
<1>1. L[l].down \o fs \in Seq(DownFrame)
  BY DEF LinkTable, LinkState
<1> QED
  BY <1>1 DEF SendDown, LinkTable, LinkState, OpenIn

LEMMA SendUpIs ==
  ASSUME NEW L \in LinkTable, NEW l \in Links, NEW fs \in Seq(UpFrame)
  PROVE  /\ SendUp(L, l, fs) \in LinkTable
         /\ \A m \in Links \ {l} : SendUp(L, l, fs)[m] = L[m]
         /\ SendUp(L, l, fs)[l] = IF OpenIn(L, l) THEN [L[l] EXCEPT !.up = @ \o fs] ELSE L[l]
<1>1. L[l].up \o fs \in Seq(UpFrame)
  BY DEF LinkTable, LinkState
<1> QED
  BY <1>1 DEF SendUp, LinkTable, LinkState, OpenIn

LEMMA SendEachIs ==
  ASSUME NEW L \in LinkTable, NEW fs, \A l \in DOMAIN fs : fs[l] \in Seq(DownFrame)
  PROVE  /\ SendEach(L, fs) \in LinkTable
         /\ \A l \in Links : SendEach(L, fs)[l] = IF l \in DOMAIN fs /\ OpenIn(L, l)
                                                  THEN [L[l] EXCEPT !.down = @ \o fs[l]] ELSE L[l]
<1>1. \A l \in Links : l \in DOMAIN fs => /\ SendDown(L, l, fs[l]) \in LinkTable
          /\ SendDown(L, l, fs[l])[l] = IF OpenIn(L, l) THEN [L[l] EXCEPT !.down = @ \o fs[l]] ELSE L[l]
  BY SendDownIs
<1>2. \A l \in Links : l \in DOMAIN fs => SendDown(L, l, fs[l])[l] \in LinkState
  BY <1>1 DEF LinkTable
<1>3. \A l \in Links : L[l] \in LinkState
  BY DEF LinkTable
<1>4. SendEach(L, fs) = [l \in Links |-> IF l \in DOMAIN fs THEN SendDown(L, l, fs[l])[l] ELSE L[l]]
  BY DEF SendEach
<1> QED
  BY <1>1, <1>2, <1>3, <1>4, Zenon DEF LinkTable

\* A closed server end forgets what it knew; a closed child end hears nothing more.
LEMMA CloseServerEndIs ==
  ASSUME NEW L \in LinkTable, NEW l \in Links
  PROVE  LET k == CloseServerEnd(L, l)[l] IN
         /\ CloseServerEnd(L, l) \in LinkTable
         /\ \A m \in Links \ {l} : CloseServerEnd(L, l)[m] = L[m]
         /\ k.server = "closed" /\ k.child = L[l].child /\ k.up = <<>> /\ ~k.synced /\ k.sync = NoSync /\ k.missed = {}
         /\ k.down = IF OpenIn(L, l) THEN L[l].down \o <<Bye>> ELSE L[l].down
<1>1. <<Bye>> \in Seq(DownFrame)
  BY FrameTypes
<1> DEFINE d == SendDown(L, l, <<Bye>>)[l]
<1>2. d \in LinkState /\ d = IF OpenIn(L, l) THEN [L[l] EXCEPT !.down = @ \o <<Bye>>] ELSE L[l]
  BY <1>1, SendDownIs DEF LinkTable
<1>3. d.child = L[l].child /\ d.down = IF OpenIn(L, l) THEN L[l].down \o <<Bye>> ELSE L[l].down
  BY <1>2 DEF LinkTable, LinkState
<1> DEFINE a == d.alive /\ d.child = "open"
           e == [NoLink EXCEPT !.server = "closed", !.child = d.child, !.down = d.down, !.alive = a]
<1>4. CloseServerEnd(L, l) = [L EXCEPT ![l] = e]
  BY DEF CloseServerEnd
<1>5. a \in BOOLEAN
  BY <1>2 DEF LinkState
<1> HIDE DEF d, a
<1>6. /\ e \in LinkState
      /\ e.server = "closed" /\ e.up = <<>> /\ ~e.synced /\ e.sync = NoSync /\ e.missed = {}
      /\ e.child = d.child /\ e.down = d.down
  BY <1>2, <1>5, InitTypes, Zero, SMTT(30), ZenonT(60) DEF LinkState, Ends, NoLink
<1> HIDE DEF e
<1> QED
  BY <1>3, <1>4, <1>6 DEF LinkTable

LEMMA CloseChildEndIs ==
  ASSUME NEW L \in LinkTable, NEW l \in Links
  PROVE  LET k == CloseChildEnd(L, l)[l] IN
         /\ CloseChildEnd(L, l) \in LinkTable
         /\ \A m \in Links \ {l} : CloseChildEnd(L, l)[m] = L[m]
         /\ k.server = L[l].server /\ k.child = "closed" /\ k.down = <<>>
         /\ k.synced = L[l].synced /\ k.epoch = L[l].epoch /\ k.sync = L[l].sync /\ k.missed = L[l].missed
         /\ k.up = IF OpenIn(L, l) THEN L[l].up \o <<Bye>> ELSE L[l].up
<1>1. <<Bye>> \in Seq(UpFrame)
  BY FrameTypes
<1> DEFINE u == SendUp(L, l, <<Bye>>)[l]
<1>2. u \in LinkState /\ u = IF OpenIn(L, l) THEN [L[l] EXCEPT !.up = @ \o <<Bye>>] ELSE L[l]
  BY <1>1, SendUpIs DEF LinkTable
<1>3. /\ u.server = L[l].server
      /\ u.synced = L[l].synced /\ u.epoch = L[l].epoch /\ u.sync = L[l].sync /\ u.missed = L[l].missed
      /\ u.up = IF OpenIn(L, l) THEN L[l].up \o <<Bye>> ELSE L[l].up
  BY <1>2 DEF LinkTable, LinkState
<1> DEFINE a == u.alive /\ u.server = "open"
           none == <<>>
           e == [u EXCEPT !.child = "closed", !.down = none, !.alive = a]
<1>4. CloseChildEnd(L, l) = [L EXCEPT ![l] = e]
  BY DEF CloseChildEnd
<1>5. a \in BOOLEAN /\ none \in Seq(DownFrame)
  BY <1>2 DEF LinkState
<1>6. none = <<>>
  OBVIOUS
<1> HIDE DEF u, a, none
<1>7. /\ e \in LinkState
      /\ e.child = "closed" /\ e.down = none /\ e.server = u.server /\ e.up = u.up
      /\ e.synced = u.synced /\ e.epoch = u.epoch /\ e.sync = u.sync /\ e.missed = u.missed
  BY <1>2, <1>5 DEF LinkState, Ends
<1> HIDE DEF e
<1> QED
  BY <1>3, <1>4, <1>6, <1>7 DEF LinkTable

-----------------------------------------------------------------------------
(* Queues by position.                                                     *)

\* One frame more, and one less, by position.
LEMMA AppendIs ==
  ASSUME NEW S, NEW q \in Seq(S), NEW f \in S
  PROVE  LET r == q \o <<f>> IN
         /\ r \in Seq(S) /\ r # <<>>
         /\ DOMAIN q = 1 .. Len(q) /\ DOMAIN r = DOMAIN q \cup {Len(q) + 1} /\ Len(q) \in Nat
         /\ \A n \in DOMAIN q : r[n] = q[n] /\ n \in Nat /\ n < Len(q) + 1
         /\ r[Len(q) + 1] = f
         /\ Frames(r) = Frames(q) \cup {f}
<1> DEFINE r == q \o <<f>>
<1>2. Frames(r) = Frames(q) \cup {f}
  <2> DEFINE one == <<f>>
  <2>1. one \in Seq(S) /\ Frames(one) = {f}
    BY FramesOfOne
  <2> HIDE DEF one
  <2>2. Frames(q \o one) = Frames(q) \cup Frames(one)
    BY <2>1, FramesOfConcat
  <2> QED
    BY <2>1, <2>2 DEF one
<1>3. r \in Seq(S) /\ r # <<>> /\ Len(r) = Len(q) + 1 /\ Len(q) \in Nat
  OBVIOUS
<1>4. DOMAIN q = 1 .. Len(q) /\ DOMAIN r = DOMAIN q \cup {Len(q) + 1}
  BY <1>3
<1>5. \A n \in DOMAIN q : r[n] = q[n] /\ n \in Nat /\ n < Len(q) + 1
  BY <1>3, <1>4
<1>6. r[Len(q) + 1] = f
  BY <1>3
<1> QED
  BY <1>2, <1>3, <1>4, <1>5, <1>6

LEMMA TailIs ==
  ASSUME NEW S, NEW q \in Seq(S), q # <<>>
  PROVE  /\ Tail(q) \in Seq(S) /\ Head(q) \in S /\ Head(q) = q[1] /\ 1 \in DOMAIN q
         /\ \A n \in DOMAIN Tail(q) : n \in Nat /\ n + 1 \in DOMAIN q /\ Tail(q)[n] = q[n + 1] /\ n + 1 # 1
         /\ \A n \in DOMAIN q : n # 1 => n - 1 \in DOMAIN Tail(q) /\ Tail(q)[n - 1] = q[n]
         /\ DOMAIN q \subseteq Nat
         /\ Frames(Tail(q)) \subseteq Frames(q)
         /\ Head(q) \in Frames(q)
<1>1. Tail(q) \in Seq(S) /\ Head(q) \in S /\ Head(q) = q[1] /\ 1 \in DOMAIN q
  OBVIOUS
<1>2. \A n \in DOMAIN Tail(q) : n \in Nat /\ n + 1 \in DOMAIN q /\ Tail(q)[n] = q[n + 1] /\ n + 1 # 1
  OBVIOUS
<1>3. \A n \in DOMAIN q : n # 1 => n - 1 \in DOMAIN Tail(q) /\ Tail(q)[n - 1] = q[n]
  OBVIOUS
<1>4. DOMAIN q \subseteq Nat
  OBVIOUS
<1> QED
  BY <1>1, <1>2, <1>3, <1>4, FramesOfTail

LEMMA OrderIds == \A f \in DownFrame : f.t \in Orders => f.id \in Nat /\ f.id # 0
  BY DEF DownFrame, Orders, Bye, Frame

LEMMA VoteFrames == \A f \in UpFrame : f.t = "vote" => f.id \in Nat /\ f.id # 0 /\ f.vote \in {"yes", "no"}
  BY DEF UpFrame, Bye, Frame

-----------------------------------------------------------------------------
(* One link and its child: what a step of the server does to what is under way. *)

\* The server asks less than before, or nothing.
Weaker(q, q2) == q2 = NoAsk \/ (q2.id = q.id /\ q2.vote \in {q.vote, "no"})

SameLink(k, k2) == k2.up = k.up /\ k2.synced = k.synced /\ k2.epoch = k.epoch /\ k2.missed = k.missed
SameOp(h, h2) ==
    /\ h2.cur = h.cur /\ h2.failed = h.failed
    /\ h2.op.id = h.op.id /\ h2.op.state = h.op.state /\ h2.op.epoch = h.op.epoch

LEMMA OrdersOf ==
  ASSUME NEW k \in LinkState
  PROVE  \A f \in Frames(k.down) : f \in DownFrame /\ (f.t \in {"prepare", "commit", "abort"} => f.id \in Nat /\ f.id # 0)
<1>1. \A f \in Frames(k.down) : f \in DownFrame
  BY DEF LinkState, Frames
<1> QED
  BY <1>1, OrderIds DEF Orders

LEMMA ProtocolSame ==
  ASSUME NEW k \in LinkState, NEW k2, NEW h, NEW h2, NEW q, NEW q2, Protocol(k, h, q), Weaker(q, q2),
         SameLink(k, k2), k2.down = k.down, k2.sync = k.sync, SameOp(h, h2)
  PROVE  Protocol(k2, h2, q2)
<1>1. HelloFirst(k2, h2) /\ NoCallsYet(k2) /\ OfferedOnce(k2, h2) /\ CommitTells(k2, h2) /\ Known(k2, h2)
  BY DEF Protocol, HelloFirst, NoCallsYet, OfferedOnce, CommitTells, NewCall, Known, SameLink, SameOp
<1>2. Waits(k2, q2)
  BY OrdersOf DEF Protocol, Waits, Weaker, NoAsk
<1>3. ASSUME NEW i, SaidYes(k2, q2, i) PROVE SaidYes(k, q, i)
  BY <1>3 DEF SaidYes, Weaker, NoAsk, SameLink
<1>4. ASSUME NEW i, Undecided(k2, q2, i) PROVE Undecided(k, q, i)
  BY <1>4 DEF Undecided, Weaker, NoAsk
<1>5. VotesLast(k2, h2, q2)
  BY <1>3 DEF Protocol, VotesLast, Pending, SameOp
<1>6. VoteStands(k2, h2, q2)
  BY <1>3, <1>4 DEF Protocol, VoteStands, SameOp
<1> QED
  BY <1>1, <1>2, <1>5, <1>6 DEF Protocol

\* The server moves to an epoch without the child.
LEMMA ProtocolMisses ==
  ASSUME NEW k, NEW k2, NEW h, NEW q, Protocol(k, h, q), k2.up = k.up, k2.down = k.down,
         k2.synced = k.synced, k2.epoch = k.epoch, k2.sync = k.sync, k.missed \subseteq k2.missed
  PROVE  Protocol(k2, h, q)
<1>1. \A f : NewCall(k2, h, f) => NewCall(k, h, f)
  BY DEF NewCall
<1>2. HelloFirst(k2, h) /\ NoCallsYet(k2) /\ OfferedOnce(k2, h) /\ Waits(k2, q) /\ Known(k2, h)
  BY DEF Protocol, HelloFirst, NoCallsYet, OfferedOnce, Waits, Known
<1>3. CommitTells(k2, h)
  BY <1>1 DEF Protocol, CommitTells
<1>4. VotesLast(k2, h, q) /\ VoteStands(k2, h, q)
  BY DEF Protocol, VotesLast, VoteStands, Pending, SaidYes, Undecided
<1> QED
  BY <1>2, <1>3, <1>4 DEF Protocol

\* The server tells of a retirement, or calls over a link it may use.
LEMMA ProtocolTells ==
  ASSUME NEW k \in LinkState, NEW k2, NEW h, NEW q, Protocol(k, h, q), SameLink(k, k2), k2.sync = k.sync,
         NEW f \in DownFrame, k2.down = k.down \o <<f>>, f.t = "retire" \/ (f.t = "call" /\ k.synced)
  PROVE  Protocol(k2, h, q)
<1> DEFINE D == k.down
           n1 == Len(D) + 1
<1>1. D \in Seq(DownFrame)
  BY DEF LinkState
<1>2. /\ DOMAIN D = 1 .. Len(D) /\ DOMAIN k2.down = DOMAIN D \cup {n1}
      /\ \A n \in DOMAIN D : k2.down[n] = D[n] /\ n \in Nat /\ n < n1
      /\ k2.down[n1] = f
      /\ Frames(k2.down) = Frames(D) \cup {f}
  BY <1>1, AppendIs
<1> HIDE DEF D, n1
<1>3. HelloFirst(k2, h)
  BY <1>2 DEF Protocol, HelloFirst, SameLink, D
<1>4. NoCallsYet(k2)
  BY <1>2 DEF Protocol, NoCallsYet, SameLink, D
<1>5. OfferedOnce(k2, h)
  BY <1>2 DEF Protocol, OfferedOnce, D
<1>6. Waits(k2, q)
  BY <1>2 DEF Protocol, Waits, D
<1>7. ASSUME NEW i, NEW t \in {"prepare", "commit", "abort"} PROVE Has(k2.down, t, i) <=> Has(k.down, t, i)
  BY <1>2 DEF Has, D
<1>8. VotesLast(k2, h, q) /\ VoteStands(k2, h, q)
  BY <1>7 DEF Protocol, VotesLast, VoteStands, Pending, SaidYes, Undecided, SameLink
<1>9. CommitTells(k2, h)
  <2> SUFFICES ASSUME NEW n \in DOMAIN k2.down, k2.down[n].t = "commit", k2.down[n].id = h.op.id
               PROVE  /\ k2.synced /\ k2.epoch = h.op.epoch /\ ~Has(k2.down, "abort", h.op.id)
                      /\ ~h.failed => \A m \in DOMAIN k2.down : NewCall(k2, h, k2.down[m]) => n < m
    BY DEF CommitTells
  <2>1. n \in DOMAIN D
    BY <1>2
  <2> QED
    BY <1>2, <1>7, <2>1 DEF Protocol, CommitTells, NewCall, SameLink, D
<1>10. Known(k2, h)
  BY <1>7 DEF Protocol, Known, SameLink
<1> QED
  BY <1>3, <1>4, <1>5, <1>6, <1>8, <1>9, <1>10 DEF Protocol

\* The server gives up what it asked for.
LEMMA ProtocolAborts ==
  ASSUME NEW k \in LinkState, NEW k2, NEW h, NEW q, NEW q2, Protocol(k, h, q), SameLink(k, k2), Weaker(q, q2),
         NEW f \in DownFrame, k2.down = k.down \o <<f>>, f.t = "abort",
         f.id \in {k.sync.id, q.id}, f.id \notin {k2.sync.id, q2.id},
         k2.sync \in {k.sync, NoSync}, k.synced \/ k.sync # NoSync
  PROVE  Protocol(k2, h, q2)
<1> DEFINE D == k.down
           n1 == Len(D) + 1
<1>1. D \in Seq(DownFrame)
  BY DEF LinkState
<1>2. /\ DOMAIN D = 1 .. Len(D) /\ DOMAIN k2.down = DOMAIN D \cup {n1}
      /\ \A n \in DOMAIN D : k2.down[n] = D[n] /\ n \in Nat /\ n < n1
      /\ k2.down[n1] = f
      /\ Frames(k2.down) = Frames(D) \cup {f}
  BY <1>1, AppendIs
<1>f. f.id \in Nat /\ f.id # 0
  BY OrderIds DEF Orders
<1>o. \A g \in Frames(D) : g.t \in {"prepare", "commit", "abort"} => g.id # 0
  BY OrdersOf
<1> HIDE DEF D, n1
<1>3. HelloFirst(k2, h)
  BY DEF Protocol, HelloFirst, SameLink, NoSync
<1>4. NoCallsYet(k2)
  BY <1>2 DEF Protocol, NoCallsYet, SameLink, D
<1>5. OfferedOnce(k2, h)
  BY SMTT(30), <1>2 DEF Protocol, OfferedOnce, D
<1>6. Waits(k2, q2)
  <2>1. k2.sync.id \in {k.sync.id, 0} /\ q2.id \in {q.id, 0}
    BY DEF Weaker, NoAsk, NoSync
  <2>2. \A g \in Frames(D) : g.t \in {"abort", "commit"} => g.id # k2.sync.id /\ g.id # q2.id
    BY <1>o, <2>1 DEF Protocol, Waits, D
  <2> QED
    BY <1>2, <2>2 DEF Waits
<1>7. ASSUME NEW i, NEW t \in {"prepare", "commit"} PROVE Has(k2.down, t, i) <=> Has(k.down, t, i)
  BY <1>2 DEF Has, D
<1>8. ASSUME NEW i, SaidYes(k2, q2, i) PROVE SaidYes(k, q, i)
  BY <1>7, <1>8 DEF SaidYes, Weaker, NoAsk, SameLink
<1>9. ASSUME NEW i, Undecided(k2, q2, i) PROVE Undecided(k, q, i)
  BY <1>9 DEF Undecided, Weaker, NoAsk, NoSync
<1>10. VotesLast(k2, h, q2)
  BY <1>7, <1>8 DEF Protocol, VotesLast, Pending
<1>11. VoteStands(k2, h, q2)
  BY <1>8, <1>9 DEF Protocol, VoteStands
<1>12. CommitTells(k2, h)
  <2> SUFFICES ASSUME NEW n \in DOMAIN k2.down, k2.down[n].t = "commit", k2.down[n].id = h.op.id
               PROVE  /\ k2.synced /\ k2.epoch = h.op.epoch /\ ~Has(k2.down, "abort", h.op.id)
                      /\ ~h.failed => \A m \in DOMAIN k2.down : NewCall(k2, h, k2.down[m]) => n < m
    BY DEF CommitTells
  <2>1. n \in DOMAIN D
    BY <1>2
  <2>2. D[n] \in Frames(D) /\ D[n].t = "commit" /\ D[n].id = h.op.id
    BY <1>2, <2>1 DEF Frames
  <2>3. f.id # h.op.id
    BY <2>2 DEF Protocol, Waits, D
  <2>4. ~Has(k2.down, "abort", h.op.id)
    BY <1>2, <2>1, <2>2, <2>3 DEF Protocol, CommitTells, Has, D
  <2> QED
    BY <1>2, <2>1, <2>2, <2>4 DEF Protocol, CommitTells, NewCall, SameLink, D
<1>13. Known(k2, h)
  BY <1>7 DEF Protocol, Known, SameLink
<1> QED
  BY <1>3, <1>4, <1>5, <1>6, <1>10, <1>11, <1>12, <1>13 DEF Protocol

\* The server offers a reload it has not spoken of before.
LEMMA ProtocolOffers ==
  ASSUME NEW k \in LinkState, NEW k2, NEW h, NEW q, NEW q2, Protocol(k, h, q), SameLink(k, k2),
         NEW f \in DownFrame, k2.down = k.down \o <<f>>, f.t = "prepare",
         \A g \in Frames(k.down) : g.t \in Orders => g.id # f.id,
         \A g \in Frames(k.up) : g.t = "vote" => g.id # f.id,
         h.op.id # f.id, k2.sync.id \in {k.sync.id, f.id},
         Weaker(q, q2) \/ (q2.id = f.id /\ q2.vote = "wait"), q.id # f.id,
         k.synced \/ \A n \in DOMAIN k.up : k.up[n].t # "hello"
  PROVE  Protocol(k2, h, q2)
<1> DEFINE D == k.down
           n1 == Len(D) + 1
<1>1. D \in Seq(DownFrame)
  BY DEF LinkState
<1>2. /\ DOMAIN D = 1 .. Len(D) /\ DOMAIN k2.down = DOMAIN D \cup {n1}
      /\ \A n \in DOMAIN D : k2.down[n] = D[n] /\ n \in Nat /\ n < n1
      /\ k2.down[n1] = f
      /\ Frames(k2.down) = Frames(D) \cup {f}
  BY <1>1, AppendIs
<1>o. \A g \in Frames(D) : g.t \in {"prepare", "commit", "abort"} => g.id # 0 /\ g.id # f.id
  BY OrdersOf DEF Orders
<1>n. \A n \in DOMAIN D : D[n] \in Frames(D)
  BY DEF Frames
<1> HIDE DEF D, n1
<1>3. HelloFirst(k2, h)
  <2>1. \A n \in DOMAIN k.up : k.up[n].t # "hello"
    BY DEF Protocol, HelloFirst
  <2> QED
    BY <2>1 DEF HelloFirst, SameLink
<1>4. NoCallsYet(k2)
  BY <1>2 DEF Protocol, NoCallsYet, SameLink, D
<1>5. OfferedOnce(k2, h)
  <2>1. \A n \in DOMAIN D : D[n].t = "prepare" => D[n].id # f.id
    BY <1>o, <1>n
  <2> SUFFICES ASSUME NEW n \in DOMAIN k2.down, NEW m \in DOMAIN k2.down, k2.down[n].t = "prepare"
               PROVE  /\ k2.down[n].id # h.op.id
                      /\ k2.down[m].t = "prepare" /\ k2.down[m].id = k2.down[n].id => m = n
    BY DEF OfferedOnce
  <2>2. CASE n = n1
    BY <1>2, <2>1, <2>2
  <2>3. CASE n # n1
    <3>1. n \in DOMAIN D /\ D[n].t = "prepare" /\ k2.down[n] = D[n]
      BY <1>2, <2>3
    <3>2. CASE m = n1
      BY <1>2, <2>1, <3>1, <3>2 DEF Protocol, OfferedOnce, D
    <3>3. CASE m # n1
      BY <1>2, <3>1, <3>3 DEF Protocol, OfferedOnce, D
    <3> QED
      BY <3>2, <3>3
  <2> QED
    BY <2>2, <2>3
<1>6. Waits(k2, q2)
  <2>1. q2.id \in {q.id, f.id, 0}
    BY DEF Weaker, NoAsk
  <2>2. \A g \in Frames(D) : g.t \in {"abort", "commit"} => g.id # k2.sync.id /\ g.id # q2.id
    BY <1>o, <2>1 DEF Protocol, Waits, D
  <2> QED
    BY <1>2, <2>2 DEF Waits
<1>7. ASSUME NEW i, NEW t \in {"abort", "commit"} PROVE Has(k2.down, t, i) <=> Has(k.down, t, i)
  BY <1>2 DEF Has, D
<1>8. ASSUME NEW i, SaidYes(k2, q2, i) PROVE SaidYes(k, q, i) /\ i # f.id
  <2>1. ASSUME q2.id = i, q2.vote = "yes" PROVE q.id = i /\ q.vote = "yes"
    BY <2>1 DEF Weaker, NoAsk
  <2>2. Has(k.down, "commit", i) => i # f.id
    BY <1>o DEF Has, D
  <2> QED
    BY <1>7, <1>8, <2>1, <2>2 DEF SaidYes, SameLink
<1>9. ASSUME NEW i, i # f.id, Undecided(k2, q2, i) PROVE Undecided(k, q, i)
  BY <1>9 DEF Undecided, Weaker, NoAsk
<1>10. VotesLast(k2, h, q2)
  <2>1. ASSUME NEW i, i # f.id, Pending(k2, h, i) PROVE Pending(k, h, i)
    BY <1>2, <2>1 DEF Pending, Has, D
  <2> QED
    BY <1>8, <2>1 DEF Protocol, VotesLast
<1>11. VoteStands(k2, h, q2)
  BY <1>8, <1>9 DEF Protocol, VoteStands
<1>12. CommitTells(k2, h)
  <2> SUFFICES ASSUME NEW n \in DOMAIN k2.down, k2.down[n].t = "commit", k2.down[n].id = h.op.id
               PROVE  /\ k2.synced /\ k2.epoch = h.op.epoch /\ ~Has(k2.down, "abort", h.op.id)
                      /\ ~h.failed => \A m \in DOMAIN k2.down : NewCall(k2, h, k2.down[m]) => n < m
    BY DEF CommitTells
  <2>1. n \in DOMAIN D
    BY <1>2
  <2> QED
    BY <1>2, <1>7, <2>1 DEF Protocol, CommitTells, NewCall, SameLink, D
<1>13. Known(k2, h)
  BY <1>7 DEF Protocol, Known, SameLink
<1> QED
  BY <1>3, <1>4, <1>5, <1>6, <1>10, <1>11, <1>12, <1>13 DEF Protocol

\* The server decides for what the child has prepared, and takes it to be in step.
LEMMA ProtocolCommits ==
  ASSUME NEW k \in LinkState, NEW k2, NEW h, NEW q, NEW q2, Protocol(k, h, q),
         k2.up = k.up, k2.synced, k2.epoch = h.op.epoch,
         NEW f \in DownFrame, k2.down = k.down \o <<f>>, f.t = "commit",
         f.id \in {k.sync.id, q.id}, f.id \notin {k2.sync.id, q2.id},
         h.op.id = f.id, h.op.state = "prepared",
         k2.sync \in {k.sync, NoSync}, Weaker(q, q2), k.synced \/ k.sync # NoSync,
         ~h.failed => \A g \in Frames(k.down) : ~NewCall(k2, h, g)
  PROVE  Protocol(k2, h, q2)
<1> DEFINE D == k.down
           n1 == Len(D) + 1
<1>1. D \in Seq(DownFrame)
  BY DEF LinkState
<1>2. /\ DOMAIN D = 1 .. Len(D) /\ DOMAIN k2.down = DOMAIN D \cup {n1}
      /\ \A n \in DOMAIN D : k2.down[n] = D[n] /\ n \in Nat /\ n < n1
      /\ k2.down[n1] = f
      /\ Frames(k2.down) = Frames(D) \cup {f}
  BY <1>1, AppendIs
<1>o. \A g \in Frames(D) : g.t \in {"prepare", "commit", "abort"} => g.id # 0
  BY OrdersOf
<1>n. \A n \in DOMAIN D : D[n] \in Frames(D)
  BY DEF Frames
<1>w. \A g \in Frames(D) : g.t \in {"abort", "commit"} => g.id # f.id
  BY DEF Protocol, Waits
<1>p. \A g \in Frames(D) : g.t = "prepare" => g.id # f.id
  BY DEF Protocol, OfferedOnce, Frames
<1> HIDE DEF D, n1
<1>3. HelloFirst(k2, h)
  BY DEF Protocol, HelloFirst, NoSync
<1>4. NoCallsYet(k2)
  BY DEF NoCallsYet
<1>5. OfferedOnce(k2, h)
  BY SMTT(30), <1>2 DEF Protocol, OfferedOnce, D
<1>6. Waits(k2, q2)
  <2>1. k2.sync.id \in {k.sync.id, 0} /\ q2.id \in {q.id, 0}
    BY DEF Weaker, NoAsk, NoSync
  <2>2. \A g \in Frames(D) : g.t \in {"abort", "commit"} => g.id # k2.sync.id /\ g.id # q2.id
    BY <1>o, <2>1 DEF Protocol, Waits, D
  <2> QED
    BY <1>2, <2>2 DEF Waits
<1>8. ASSUME NEW i, i # f.id, SaidYes(k2, q2, i) PROVE SaidYes(k, q, i)
  <2>1. Has(k2.down, "commit", i) => Has(k.down, "commit", i)
    BY <1>2, <1>8 DEF Has, D
  <2> QED
    BY <1>8, <2>1 DEF SaidYes, Weaker, NoAsk
<1>9. ASSUME NEW i, Undecided(k2, q2, i) PROVE Undecided(k, q, i) /\ i # f.id
  BY <1>9 DEF Undecided, Weaker, NoAsk, NoSync
<1>10. VotesLast(k2, h, q2)
  <2>1. ASSUME NEW i, Pending(k2, h, i) PROVE Pending(k, h, i) /\ i # f.id
    BY <1>2, <1>p, <2>1 DEF Pending, Has, D
  <2> QED
    BY <1>8, <2>1 DEF Protocol, VotesLast
<1>11. VoteStands(k2, h, q2)
  BY <1>8, <1>9 DEF Protocol, VoteStands
<1>12. CommitTells(k2, h)
  <2> SUFFICES ASSUME NEW n \in DOMAIN k2.down, k2.down[n].t = "commit", k2.down[n].id = h.op.id
               PROVE  /\ k2.synced /\ k2.epoch = h.op.epoch /\ ~Has(k2.down, "abort", h.op.id)
                      /\ ~h.failed => \A m \in DOMAIN k2.down : NewCall(k2, h, k2.down[m]) => n < m
    BY DEF CommitTells
  <2>1. n = n1
    BY <1>2, <1>n, <1>w
  <2>2. ~Has(k2.down, "abort", h.op.id)
    BY <1>2, <1>w DEF Has
  <2>3. ~h.failed => \A m \in DOMAIN k2.down : ~NewCall(k2, h, k2.down[m])
    BY <1>2, <1>n DEF D, NewCall
  <2> QED
    BY <2>2, <2>3
<1>13. Known(k2, h)
  <2>1. Has(k2.down, "commit", h.op.id)
    BY <1>2 DEF Has
  <2> QED
    BY <2>1 DEF Known
<1> QED
  BY <1>3, <1>4, <1>5, <1>6, <1>10, <1>11, <1>12, <1>13 DEF Protocol

-----------------------------------------------------------------------------
(* One link: what the server receives.                                     *)

\* The server reads a frame other than a hello; a vote it counts may be that frame.
LEMMA ProtocolReads ==
  ASSUME NEW k \in LinkState, NEW k2, NEW h, NEW q, NEW q2, Protocol(k, h, q),
         k.up # <<>>, k2.up = Tail(k.up), k2.down = k.down, k2.sync = k.sync, k2.synced = k.synced,
         k2.epoch = k.epoch \/ ~k.synced, k2.missed = k.missed,
         \/ Weaker(q, q2)
         \/ /\ Head(k.up).t = "vote" /\ q2.id = q.id /\ q2.id = Head(k.up).id
            /\ q2.vote = Head(k.up).vote /\ q.vote = "wait"
  PROVE  Protocol(k2, h, q2)
<1> DEFINE U == k.up
<1>1. U \in Seq(UpFrame)
  BY DEF LinkState
<1>2. /\ Tail(U) \in Seq(UpFrame) /\ Head(U) \in UpFrame /\ Head(U) \in Frames(U) /\ Frames(Tail(U)) \subseteq Frames(U)
      /\ \A n \in DOMAIN Tail(U) : n + 1 \in DOMAIN U /\ Tail(U)[n] = U[n + 1] /\ n + 1 # 1
  BY <1>1, TailIs
<1> HIDE DEF U
<1>3. \A n \in DOMAIN k2.up : k2.up[n].t # "hello"
  BY <1>2 DEF Protocol, HelloFirst, U
<1>4. HelloFirst(k2, h)
  BY <1>3 DEF HelloFirst
<1>5. NoCallsYet(k2) /\ OfferedOnce(k2, h)
  BY DEF Protocol, NoCallsYet, OfferedOnce
<1>6. CommitTells(k2, h) /\ Known(k2, h)
  BY DEF Protocol, CommitTells, NewCall, Known
<1>7. Waits(k2, q2)
  BY OrdersOf DEF Protocol, Waits, Weaker, NoAsk
<1>8. ASSUME NEW i, SaidYes(k2, q2, i) PROVE SaidYes(k, q, i)
  <2>1. \A f \in Frames(k2.up) : f \in Frames(k.up)
    BY <1>2 DEF U
  <2>2. CASE q2.id = i /\ q2.vote = "yes"
    BY <1>2, <2>2 DEF SaidYes, Weaker, NoAsk, U
  <2> QED
    BY <1>8, <2>1, <2>2 DEF SaidYes
<1>9. ASSUME NEW i, Undecided(k2, q2, i) PROVE Undecided(k, q, i)
  BY <1>9 DEF Undecided, Weaker, NoAsk
<1>10. VotesLast(k2, h, q2)
  BY <1>8 DEF Protocol, VotesLast, Pending
<1>11. VoteStands(k2, h, q2)
  BY <1>8, <1>9 DEF Protocol, VoteStands
<1> QED
  BY <1>4, <1>5, <1>6, <1>7, <1>10, <1>11 DEF Protocol

\* The server reads the hello of a child that runs its epoch.
LEMMA ProtocolJoins ==
  ASSUME NEW k \in LinkState, NEW k2, NEW h, NEW q, Protocol(k, h, q),
         k.up # <<>>, Head(k.up).t = "hello", k2.up = Tail(k.up), k2.down = k.down, k2.sync = k.sync,
         k2.epoch = Head(k.up).epoch
  PROVE  Protocol(k2, h, q)
<1> DEFINE U == k.up
<1>1. U \in Seq(UpFrame)
  BY DEF LinkState
<1>2. /\ Head(U) = U[1] /\ 1 \in DOMAIN U /\ Frames(Tail(U)) \subseteq Frames(U)
      /\ \A n \in DOMAIN Tail(U) : n + 1 \in DOMAIN U /\ Tail(U)[n] = U[n + 1] /\ n + 1 # 1
  BY <1>1, TailIs
<1> HIDE DEF U
<1>3. \A n \in DOMAIN k2.up : k2.up[n].t # "hello"
  BY <1>2 DEF Protocol, HelloFirst, U
<1>4. HelloFirst(k2, h)
  BY <1>3 DEF HelloFirst
<1>5. k2.epoch = h.cur /\ \A f \in Frames(k2.down) : f.t = "retire"
  BY <1>2 DEF Protocol, HelloFirst, U
<1>6. NoCallsYet(k2) /\ OfferedOnce(k2, h)
  BY <1>5 DEF Protocol, NoCallsYet, OfferedOnce
<1>7. CommitTells(k2, h) /\ Known(k2, h) /\ Waits(k2, q)
  BY <1>5 DEF CommitTells, Known, Waits, Frames
<1>8. ASSUME NEW i, SaidYes(k2, q, i) PROVE SaidYes(k, q, i)
  BY <1>2, <1>8 DEF SaidYes, U
<1>10. VotesLast(k2, h, q)
  BY <1>8 DEF Protocol, VotesLast, Pending
<1>11. VoteStands(k2, h, q)
  BY <1>8 DEF Protocol, VoteStands, Undecided
<1> QED
  BY <1>4, <1>6, <1>7, <1>10, <1>11 DEF Protocol

\* What a vote the server reads tells it of the child.
LEMMA VoteTells ==
  ASSUME NEW k \in LinkState, NEW h, NEW q, Protocol(k, h, q), k.up # <<>>,
         Head(k.up).t = "vote", Head(k.up).vote = "yes", Undecided(k, q, Head(k.up).id)
  PROVE  h.op.id = Head(k.up).id /\ h.op.state = "prepared"
<1>1. Head(k.up) \in Frames(k.up) /\ Head(k.up) \in UpFrame
  BY FramesOfTail DEF LinkState
<1>2. Head(k.up).id \in Nat
  BY <1>1, VoteFrames
<1> QED
  BY <1>1, <1>2 DEF Protocol, VoteStands, SaidYes

-----------------------------------------------------------------------------
(* One link: what its child does.                                          *)

\* The child sends nothing, a result or a vote of no.
Says(k, k2) ==
    \/ k2.up = k.up
    \/ \E g \in UpFrame : k2.up = k.up \o <<g>> /\ (g.t = "result" \/ (g.t = "vote" /\ g.vote = "no"))

LEMMA SaysIs ==
  ASSUME NEW k \in LinkState, NEW k2, Says(k, k2)
  PROVE  /\ \A n \in DOMAIN k2.up : k2.up[n].t = "hello" => n \in DOMAIN k.up /\ k.up[n] = k2.up[n]
         /\ \A f \in Frames(k2.up) : f.t = "vote" /\ f.vote = "yes" => f \in Frames(k.up)
<1>1. CASE k2.up = k.up
  BY <1>1
<1>2. ASSUME NEW g \in UpFrame, k2.up = k.up \o <<g>>, g.t = "result" \/ (g.t = "vote" /\ g.vote = "no")
      PROVE  /\ \A n \in DOMAIN k2.up : k2.up[n].t = "hello" => n \in DOMAIN k.up /\ k.up[n] = k2.up[n]
             /\ \A f \in Frames(k2.up) : f.t = "vote" /\ f.vote = "yes" => f \in Frames(k.up)
  <2> DEFINE U == k.up
  <2>1. U \in Seq(UpFrame)
    BY DEF LinkState
  <2>2. /\ DOMAIN k2.up = DOMAIN U \cup {Len(U) + 1}
        /\ \A n \in DOMAIN U : k2.up[n] = U[n]
        /\ k2.up[Len(U) + 1] = g
        /\ Frames(k2.up) = Frames(U) \cup {g}
    BY <1>2, <2>1, AppendIs
  <2> QED
    BY <1>2, <2>2
<1> QED
  BY <1>1, <1>2 DEF Says

\* A reload of the child goes on.
LEMMA ProtocolGoesOn ==
  ASSUME NEW k, NEW h, NEW h2, NEW q, Protocol(k, h, q), h2.cur = h.cur, h2.failed = h.failed,
         {h.op.state, h2.op.state} \subseteq {"loading", "retiring", "working", "failing"},
         h2.op.id = h.op.id, h2.op.epoch = h.op.epoch
  PROVE  Protocol(k, h2, q)
<1>1. HelloFirst(k, h2) /\ NoCallsYet(k) /\ OfferedOnce(k, h2) /\ Waits(k, q) /\ CommitTells(k, h2)
  BY DEF Protocol, HelloFirst, OfferedOnce, CommitTells, NewCall
<1>2. Known(k, h2)
  BY DEF Protocol, Known
<1>3. \A i : Pending(k, h2, i) => Pending(k, h, i)
  BY DEF Pending
<1>4. VotesLast(k, h2, q) /\ VoteStands(k, h2, q)
  BY <1>3 DEF Protocol, VotesLast, VoteStands
<1> QED
  BY <1>1, <1>2, <1>4 DEF Protocol

\* A reload of the child ends; of what it has prepared, only one nobody will commit.
LEMMA ProtocolStops ==
  ASSUME NEW k \in LinkState, NEW k2, NEW h, NEW h2, NEW q, Protocol(k, h, q),
         h2.cur = h.cur, h2.failed = h.failed, h2.op = NoOp, Says(k, k2),
         k2.down = k.down, k2.synced = k.synced, k2.epoch = k.epoch, k2.sync = k.sync, k2.missed = k.missed,
         h.op.state = "prepared" => ~Undecided(k, q, h.op.id) /\ ~Has(k.down, "commit", h.op.id)
  PROVE  Protocol(k2, h2, q)
<1>1. h2.op.id = 0 /\ h2.op.state = "none"
  BY DEF NoOp
<1>2. HelloFirst(k2, h2)
  BY SaysIs DEF Protocol, HelloFirst
<1>n. \A n \in DOMAIN k.down : k.down[n] \in Frames(k.down)
  BY DEF Frames
<1>3. NoCallsYet(k2) /\ Waits(k2, q)
  BY DEF Protocol, NoCallsYet, Waits
<1>4. OfferedOnce(k2, h2)
  BY <1>1, <1>n, OrdersOf DEF Protocol, OfferedOnce
<1>5. CommitTells(k2, h2)
  BY <1>1, <1>n, OrdersOf DEF CommitTells
<1>6. Known(k2, h2)
  BY DEF Protocol, Known
<1>7. ASSUME NEW i, SaidYes(k2, q, i) PROVE SaidYes(k, q, i)
  BY <1>7, SaysIs DEF SaidYes
<1>8. ASSUME NEW i, Pending(k2, h2, i) PROVE Pending(k, h, i)
  BY <1>1, <1>8 DEF Pending
<1>9. VotesLast(k2, h2, q)
  BY <1>7, <1>8 DEF Protocol, VotesLast
<1>10. VoteStands(k2, h2, q)
  <2> SUFFICES ASSUME NEW i \in Nat, SaidYes(k2, q, i), Undecided(k2, q, i) PROVE FALSE
    BY DEF VoteStands
  <2>1. Undecided(k, q, i)
    BY DEF Undecided
  <2> QED
    BY <1>7, <2>1 DEF Protocol, VoteStands
<1> QED
  BY <1>2, <1>3, <1>4, <1>5, <1>6, <1>9, <1>10 DEF Protocol

\* The child has prepared and votes.
LEMMA ProtocolVotes ==
  ASSUME NEW k \in LinkState, NEW k2, NEW h, NEW h2, NEW q, Protocol(k, h, q),
         h2.cur = h.cur, h2.failed = h.failed, h.op.state = "working", h2.op.state = "prepared",
         h2.op.id = h.op.id, h2.op.epoch = h.op.epoch, h.op.id \in Nat,
         NEW g \in UpFrame, g.t = "vote", g.id = h.op.id, k2.up = k.up \o <<g>>,
         k2.down = k.down, k2.synced = k.synced, k2.epoch = k.epoch, k2.sync = k.sync, k2.missed = k.missed
  PROVE  Protocol(k2, h2, q)
<1> DEFINE U == k.up
<1>1. U \in Seq(UpFrame)
  BY DEF LinkState
<1>2. /\ DOMAIN k2.up = DOMAIN U \cup {Len(U) + 1}
      /\ \A n \in DOMAIN U : k2.up[n] = U[n]
      /\ k2.up[Len(U) + 1] = g
      /\ Frames(k2.up) = Frames(U) \cup {g}
  BY <1>1, AppendIs
<1> HIDE DEF U
<1>3. HelloFirst(k2, h2)
  BY <1>2 DEF Protocol, HelloFirst, U
<1>4. NoCallsYet(k2) /\ Waits(k2, q) /\ OfferedOnce(k2, h2) /\ CommitTells(k2, h2)
  BY DEF Protocol, NoCallsYet, Waits, OfferedOnce, CommitTells, NewCall
<1>5. Known(k2, h2)
  BY DEF Protocol, Known
<1>6. ASSUME NEW i, i # h.op.id, SaidYes(k2, q, i) PROVE SaidYes(k, q, i)
  BY <1>2, <1>6 DEF SaidYes, U
<1>7. ASSUME NEW i, Pending(k2, h2, i) PROVE Pending(k, h, i) /\ i # h.op.id
  <2>1. ~Has(k.down, "prepare", h.op.id)
    BY DEF Protocol, OfferedOnce, Has, Frames
  <2> QED
    BY <1>7, <2>1 DEF Pending
<1>8. VotesLast(k2, h2, q)
  BY <1>6, <1>7 DEF Protocol, VotesLast
<1>9. VoteStands(k2, h2, q)
  <2> SUFFICES ASSUME NEW i \in Nat, SaidYes(k2, q, i), Undecided(k2, q, i), i # h.op.id PROVE FALSE
    BY DEF VoteStands
  <2>1. Undecided(k, q, i)
    BY DEF Undecided
  <2> QED
    BY <1>6, <2>1 DEF Protocol, VoteStands
<1> QED
  BY <1>3, <1>4, <1>5, <1>8, <1>9 DEF Protocol

\* A result goes up.
LEMMA ProtocolSends ==
  ASSUME NEW k \in LinkState, NEW k2, NEW h, NEW q, Protocol(k, h, q), Says(k, k2),
         k2.down = k.down, k2.synced = k.synced, k2.epoch = k.epoch, k2.sync = k.sync, k2.missed = k.missed
  PROVE  Protocol(k2, h, q)
<1>1. HelloFirst(k2, h)
  BY SaysIs DEF Protocol, HelloFirst
<1>2. NoCallsYet(k2) /\ Waits(k2, q) /\ OfferedOnce(k2, h) /\ CommitTells(k2, h) /\ Known(k2, h)
  BY DEF Protocol, NoCallsYet, Waits, OfferedOnce, CommitTells, NewCall, Known
<1>3. ASSUME NEW i, SaidYes(k2, q, i) PROVE SaidYes(k, q, i)
  BY <1>3, SaysIs DEF SaidYes
<1>4. VotesLast(k2, h, q)
  BY <1>3 DEF Protocol, VotesLast, Pending
<1>5. VoteStands(k2, h, q)
  BY <1>3 DEF Protocol, VoteStands, Undecided
<1> QED
  BY <1>1, <1>2, <1>4, <1>5 DEF Protocol

\* The child reads a frame that moves no reload of its.
LEMMA ProtocolHears ==
  ASSUME NEW k \in LinkState, NEW k2, NEW h, NEW h2, NEW q, Protocol(k, h, q), SameOp(h, h2), Says(k, k2),
         k.down # <<>>, k2.down = Tail(k.down), k2.synced = k.synced, k2.epoch = k.epoch, k2.sync = k.sync, k2.missed = k.missed,
         Head(k.down).t = "commit" /\ Head(k.down).id = h.op.id => h.op.state # "prepared"
  PROVE  Protocol(k2, h2, q)
<1> DEFINE D == k.down
<1>1. D \in Seq(DownFrame)
  BY DEF LinkState
<1>2. /\ \A n \in DOMAIN Tail(D) : n \in Nat /\ n + 1 \in DOMAIN D /\ Tail(D)[n] = D[n + 1]
      /\ \A n \in DOMAIN D : n # 1 => n - 1 \in DOMAIN Tail(D) /\ Tail(D)[n - 1] = D[n]
      /\ DOMAIN D \subseteq Nat /\ Frames(Tail(D)) \subseteq Frames(D) /\ Head(D) = D[1]
  BY <1>1, TailIs
<1>3. ASSUME NEW f \in Frames(D), f # Head(D) PROVE f \in Frames(Tail(D))
  BY <1>1, <1>3, FramesOfTail
<1> HIDE DEF D
<1>4. \A f \in Frames(k2.down) : f \in Frames(k.down)
  BY <1>2 DEF D
<1>5. \A t, i : Has(k2.down, t, i) => Has(k.down, t, i)
  BY <1>4 DEF Has
<1>6. HelloFirst(k2, h2)
  BY <1>4, SaysIs DEF Protocol, HelloFirst, SameOp
<1>7. NoCallsYet(k2) /\ Waits(k2, q)
  BY <1>4 DEF Protocol, NoCallsYet, Waits
<1>8. OfferedOnce(k2, h2)
  <2> SUFFICES ASSUME NEW n \in DOMAIN Tail(D), NEW m \in DOMAIN Tail(D), Tail(D)[n].t = "prepare"
               PROVE  /\ Tail(D)[n].id # h.op.id
                      /\ Tail(D)[m].t = "prepare" /\ Tail(D)[m].id = Tail(D)[n].id => m = n
    BY DEF OfferedOnce, SameOp, D
  <2>1. n \in Nat /\ m \in Nat /\ n + 1 \in DOMAIN D /\ m + 1 \in DOMAIN D /\ Tail(D)[n] = D[n + 1] /\ Tail(D)[m] = D[m + 1]
    BY <1>2
  <2>2. D[n + 1].id # h.op.id /\ (D[m + 1].t = "prepare" /\ D[m + 1].id = D[n + 1].id => m + 1 = n + 1)
    BY <2>1 DEF Protocol, OfferedOnce, D
  <2> QED
    BY <2>1, <2>2
<1>9. CommitTells(k2, h2)
  <2> SUFFICES ASSUME NEW n \in DOMAIN Tail(D), Tail(D)[n].t = "commit", Tail(D)[n].id = h.op.id
               PROVE  /\ k2.synced /\ k2.epoch = h.op.epoch /\ ~Has(k2.down, "abort", h.op.id)
                      /\ ~h.failed => \A m \in DOMAIN Tail(D) : NewCall(k, h, Tail(D)[m]) => n < m
    BY DEF CommitTells, NewCall, SameOp, D
  <2>1. n \in Nat /\ n + 1 \in DOMAIN D /\ D[n + 1].t = "commit" /\ D[n + 1].id = h.op.id
    BY <1>2
  <2>2. /\ k.synced /\ k.epoch = h.op.epoch /\ ~Has(k.down, "abort", h.op.id)
        /\ ~h.failed => \A m \in DOMAIN D : NewCall(k, h, D[m]) => n + 1 < m
    BY <2>1 DEF Protocol, CommitTells, D
  <2>3. ASSUME ~h.failed, NEW m \in DOMAIN Tail(D), NewCall(k, h, Tail(D)[m]) PROVE n < m
    <3>1. m \in Nat /\ m + 1 \in DOMAIN D /\ D[m + 1] = Tail(D)[m]
      BY <1>2
    <3>2. n + 1 < m + 1
      BY <2>2, <2>3, <3>1
    <3> QED
      BY <2>1, <3>1, <3>2
  <2> QED
    BY <1>5, <2>2, <2>3
<1>10. Known(k2, h2)
  <2>1. ASSUME h.op.state = "prepared", Has(k.down, "commit", h.op.id) PROVE Has(k2.down, "commit", h.op.id)
    BY <1>3, <2>1 DEF Has, D
  <2> QED
    BY <2>1 DEF Protocol, Known, SameOp
<1>11. ASSUME NEW i, SaidYes(k2, q, i) PROVE SaidYes(k, q, i)
  BY <1>5, <1>11, SaysIs DEF SaidYes
<1>12. VotesLast(k2, h2, q)
  BY <1>5, <1>11 DEF Protocol, VotesLast, Pending, SameOp
<1>13. VoteStands(k2, h2, q)
  BY <1>11 DEF Protocol, VoteStands, Undecided, SameOp
<1> QED
  BY <1>6, <1>7, <1>8, <1>9, <1>10, <1>12, <1>13 DEF Protocol

\* The child takes an offer.
LEMMA ProtocolTakes ==
  ASSUME NEW k \in LinkState, NEW k2, NEW h, NEW h2, NEW q, Protocol(k, h, q),
         h2.cur = h.cur, h2.failed = h.failed, h.op.state = "none", h2.op.state = "loading",
         k.down # <<>>, Head(k.down).t = "prepare", h2.op.id = Head(k.down).id,
         k2.down = Tail(k.down), k2.up = k.up, k2.synced = k.synced, k2.epoch = k.epoch, k2.sync = k.sync, k2.missed = k.missed
  PROVE  Protocol(k2, h2, q)
<1> DEFINE D == k.down
           i0 == Head(k.down).id
<1>1. D \in Seq(DownFrame)
  BY DEF LinkState
<1>2. /\ \A n \in DOMAIN Tail(D) : n \in Nat /\ n + 1 \in DOMAIN D /\ Tail(D)[n] = D[n + 1] /\ n + 1 # 1
      /\ 1 \in DOMAIN D /\ Frames(Tail(D)) \subseteq Frames(D) /\ Head(D) = D[1] /\ Head(D) \in Frames(D)
      /\ Head(D) \in DownFrame
  BY <1>1, TailIs
<1>i. i0 \in Nat /\ i0 # 0
  BY <1>2, OrderIds DEF Orders
<1> HIDE DEF D
<1>4. \A f \in Frames(k2.down) : f \in Frames(k.down)
  BY <1>2 DEF D
<1>5. \A t, i : Has(k2.down, t, i) => Has(k.down, t, i)
  BY <1>4 DEF Has
<1>6. HelloFirst(k2, h2)
  BY <1>4 DEF Protocol, HelloFirst
<1>7. NoCallsYet(k2) /\ Waits(k2, q)
  BY <1>4 DEF Protocol, NoCallsYet, Waits
<1>8. OfferedOnce(k2, h2)
  <2> SUFFICES ASSUME NEW n \in DOMAIN Tail(D), NEW m \in DOMAIN Tail(D), Tail(D)[n].t = "prepare"
               PROVE  /\ Tail(D)[n].id # i0
                      /\ Tail(D)[m].t = "prepare" /\ Tail(D)[m].id = Tail(D)[n].id => m = n
    BY DEF OfferedOnce, D
  <2>1. n \in Nat /\ m \in Nat /\ n + 1 \in DOMAIN D /\ m + 1 \in DOMAIN D /\ Tail(D)[n] = D[n + 1] /\ Tail(D)[m] = D[m + 1]
    BY <1>2
  <2>2. /\ D[m + 1].t = "prepare" /\ D[m + 1].id = D[n + 1].id => m + 1 = n + 1
        /\ D[1].t = "prepare" /\ D[1].id = D[n + 1].id => 1 = n + 1
    BY <1>2, <2>1 DEF Protocol, OfferedOnce, D
  <2>3. D[1].t = "prepare" /\ D[1].id = i0
    BY <1>2 DEF D
  <2>4. D[n + 1].id # i0
    BY <1>2, <2>2, <2>3
  <2> QED
    BY <2>1, <2>2, <2>4
<1>9. Pending(k, h, i0) /\ \A i : Pending(k2, h2, i) => Pending(k, h, i)
  BY <1>2, <1>5 DEF Pending, Has, D
<1>10. \A i : SaidYes(k2, q, i) => SaidYes(k, q, i)
  BY <1>5 DEF SaidYes
<1>11. ~SaidYes(k, q, i0)
  BY <1>9, <1>i DEF Protocol, VotesLast
<1>12. CommitTells(k2, h2)
  <2>1. ~Has(k2.down, "commit", i0)
    BY <1>5, <1>11 DEF SaidYes
  <2> QED
    BY <2>1 DEF CommitTells, Has, Frames
<1>13. Known(k2, h2)
  BY DEF Protocol, Known
<1>14. VotesLast(k2, h2, q)
  BY <1>9, <1>10 DEF Protocol, VotesLast
<1>15. VoteStands(k2, h2, q)
  <2> SUFFICES ASSUME NEW i \in Nat, SaidYes(k2, q, i), Undecided(k2, q, i) PROVE FALSE
    BY DEF VoteStands
  <2>1. Undecided(k, q, i)
    BY DEF Undecided
  <2> QED
    BY <1>10, <2>1 DEF Protocol, VoteStands
<1> QED
  BY <1>6, <1>7, <1>8, <1>12, <1>13, <1>14, <1>15 DEF Protocol

\* The child publishes what it has prepared.
LEMMA ProtocolInstalls ==
  ASSUME NEW k \in LinkState, NEW k2, NEW h, NEW h2, NEW q, Protocol(k, h, q),
         h.op.state = "prepared", h2.op = NoOp, h2.cur = h.op.epoch \/ h2.failed,
         k.down # <<>>, Head(k.down).t = "commit", h.op.id = Head(k.down).id,
         k2.down = Tail(k.down), k2.up = k.up, k2.synced = k.synced, k2.epoch = k.epoch, k2.sync = k.sync, k2.missed = k.missed
  PROVE  Protocol(k2, h2, q)
<1> DEFINE D == k.down
<1>1. D \in Seq(DownFrame)
  BY DEF LinkState
<1>2. /\ \A n \in DOMAIN Tail(D) : n \in Nat /\ n + 1 \in DOMAIN D /\ Tail(D)[n] = D[n + 1]
      /\ 1 \in DOMAIN D /\ Frames(Tail(D)) \subseteq Frames(D) /\ Head(D) = D[1] /\ Head(D) \in Frames(D)
  BY <1>1, TailIs
<1> HIDE DEF D
<1>3. h2.op.id = 0 /\ h2.op.state = "none"
  BY DEF NoOp
<1>4. \A f \in Frames(k2.down) : f \in Frames(k.down)
  BY <1>2 DEF D
<1>n. \A n \in DOMAIN k2.down : k2.down[n] \in Frames(k.down)
  BY <1>4 DEF Frames
<1>5. \A t, i : Has(k2.down, t, i) => Has(k.down, t, i)
  BY <1>4 DEF Has
<1>6. HelloFirst(k2, h2)
  BY <1>2 DEF Protocol, HelloFirst, D
<1>7. NoCallsYet(k2) /\ Waits(k2, q)
  BY <1>4 DEF Protocol, NoCallsYet, Waits
<1>8. OfferedOnce(k2, h2)
  <2> SUFFICES ASSUME NEW n \in DOMAIN Tail(D), NEW m \in DOMAIN Tail(D), Tail(D)[n].t = "prepare"
               PROVE  /\ Tail(D)[n].id # 0
                      /\ Tail(D)[m].t = "prepare" /\ Tail(D)[m].id = Tail(D)[n].id => m = n
    BY <1>3 DEF OfferedOnce, D
  <2>1. n \in Nat /\ m \in Nat /\ n + 1 \in DOMAIN D /\ m + 1 \in DOMAIN D /\ Tail(D)[n] = D[n + 1] /\ Tail(D)[m] = D[m + 1]
    BY <1>2
  <2>2. D[m + 1].t = "prepare" /\ D[m + 1].id = D[n + 1].id => m + 1 = n + 1
    BY <2>1 DEF Protocol, OfferedOnce, D
  <2>3. Tail(D)[n].id # 0
    BY <1>n, OrdersOf DEF D
  <2> QED
    BY <2>1, <2>2, <2>3
<1>9. CommitTells(k2, h2)
  BY <1>3, <1>n, OrdersOf DEF CommitTells
<1>10. Known(k2, h2)
  <2>1. k.epoch = h.op.epoch
    BY <1>2 DEF Protocol, CommitTells, D
  <2> QED
    BY <2>1 DEF Known
<1>11. \A i : SaidYes(k2, q, i) => SaidYes(k, q, i)
  BY <1>5 DEF SaidYes
<1>12. VotesLast(k2, h2, q)
  BY <1>3, <1>5, <1>11 DEF Protocol, VotesLast, Pending
<1>13. VoteStands(k2, h2, q)
  <2> SUFFICES ASSUME NEW i \in Nat, SaidYes(k2, q, i), Undecided(k2, q, i) PROVE FALSE
    BY DEF VoteStands
  <2>1. Undecided(k, q, i) /\ i # 0
    BY DEF Undecided
  <2>2. i = h.op.id
    BY <1>11, <2>1 DEF Protocol, VoteStands
  <2>3. i # k.sync.id /\ i # q.id
    BY <1>2, <2>2 DEF Protocol, Waits, D
  <2> QED
    BY <2>1, <2>3 DEF Undecided
<1> QED
  BY <1>6, <1>7, <1>8, <1>9, <1>10, <1>12, <1>13 DEF Protocol

\* A link that has just been opened.
LEMMA ProtocolOpens ==
  ASSUME NEW k, NEW h, k.up = <<Frame("hello", 0, h.cur)>>, k.down = <<>>, ~k.synced, k.sync = NoSync,
         h.op.id \in Nat
  PROVE  Protocol(k, h, NoAsk)
<1>1. Frames(k.down) = {} /\ Frames(k.up) = {Frame("hello", 0, h.cur)} /\ DOMAIN k.down = {}
  BY FramesOfEmpty, FramesOfOne
<1>2. DOMAIN k.up = {1} /\ k.up[1] = Frame("hello", 0, h.cur) /\ k.up[1].t = "hello" /\ k.up[1].epoch = h.cur
  BY DEF Frame
<1>3. HelloFirst(k, h) /\ NoCallsYet(k) /\ OfferedOnce(k, h) /\ Waits(k, NoAsk) /\ CommitTells(k, h) /\ Known(k, h)
  BY <1>1, <1>2 DEF HelloFirst, NoCallsYet, OfferedOnce, Waits, CommitTells, Known
<1>4. \A i : ~SaidYes(k, NoAsk, i)
  BY <1>1 DEF SaidYes, Has, NoAsk, Frame
<1> QED
  BY <1>3, <1>4 DEF Protocol, VotesLast, VoteStands

-----------------------------------------------------------------------------
(* Frames added to links.                                                  *)

SameEnds(k, k2) == k2.server = k.server /\ k2.child = k.child /\ k2.alive = k.alive

\* The frame f is sent down each link of P.
Adds(L, L2, P, f) ==
    /\ L2 \in LinkTable
    /\ \A l \in Links : SameEnds(L[l], L2[l]) /\ SameLink(L[l], L2[l]) /\ L2[l].sync = L[l].sync
    /\ \A l \in Links : L2[l].down = IF l \in P /\ OpenIn(L, l) THEN L[l].down \o <<f>> ELSE L[l].down

LEMMA DownAdds ==
  ASSUME NEW L \in LinkTable, NEW l \in Links, NEW f \in DownFrame
  PROVE  Adds(L, SendDown(L, l, <<f>>), {l}, f)
<1> DEFINE fs == <<f>>
           L2 == SendDown(L, l, fs)
<1>1. fs \in Seq(DownFrame)
  OBVIOUS
<1> HIDE DEF fs
<1>2. /\ L2 \in LinkTable /\ \A m \in Links \ {l} : L2[m] = L[m]
      /\ L2[l] = IF OpenIn(L, l) THEN [L[l] EXCEPT !.down = @ \o fs] ELSE L[l]
  BY <1>1, SendDownIs
<1> HIDE DEF L2
<1>3. \A m \in Links : L[m] \in LinkState
  BY DEF LinkTable
<1>4. SameEnds(L[l], L2[l]) /\ SameLink(L[l], L2[l]) /\ L2[l].sync = L[l].sync
  BY <1>2, <1>3 DEF SameEnds, SameLink, LinkState
<1>5. L2[l].down = IF OpenIn(L, l) THEN L[l].down \o fs ELSE L[l].down
  BY <1>2, <1>3 DEF LinkState
<1>6. Adds(L, L2, {l}, f)
  BY <1>2, <1>4, <1>5 DEF Adds, SameEnds, SameLink, fs
<1> QED
  BY <1>6 DEF L2, fs

LEMMA EachAdds ==
  ASSUME NEW L \in LinkTable, NEW P \in SUBSET Links, NEW f \in DownFrame
  PROVE  Adds(L, SendEach(L, [l \in P |-> <<f>>]), P, f)
<1> DEFINE fs == [l \in P |-> <<f>>]
           L2 == SendEach(L, fs)
<1>1. DOMAIN fs = P /\ \A l \in DOMAIN fs : fs[l] \in Seq(DownFrame) /\ fs[l] = <<f>>
  OBVIOUS
<1> HIDE DEF fs
<1>2. /\ L2 \in LinkTable
      /\ \A l \in Links : L2[l] = IF l \in DOMAIN fs /\ OpenIn(L, l) THEN [L[l] EXCEPT !.down = @ \o fs[l]] ELSE L[l]
  BY <1>1, SendEachIs
<1> HIDE DEF L2
<1>3. ASSUME NEW l \in Links
      PROVE  /\ SameEnds(L[l], L2[l]) /\ SameLink(L[l], L2[l]) /\ L2[l].sync = L[l].sync
             /\ L2[l].down = IF l \in P /\ OpenIn(L, l) THEN L[l].down \o <<f>> ELSE L[l].down
  <2>1. L[l] \in LinkState
    BY DEF LinkTable
  <2>2. CASE l \in P /\ OpenIn(L, l)
    <3>1. L2[l] = [L[l] EXCEPT !.down = @ \o fs[l]] /\ fs[l] = <<f>>
      BY <1>1, <1>2, <2>2
    <3>2. SameEnds(L[l], L2[l]) /\ SameLink(L[l], L2[l]) /\ L2[l].sync = L[l].sync /\ L2[l].down = L[l].down \o fs[l]
      BY <2>1, <3>1 DEF SameEnds, SameLink, LinkState
    <3> QED
      BY <2>2, <3>1, <3>2
  <2>3. CASE ~(l \in P /\ OpenIn(L, l))
    BY <1>1, <1>2, <2>3 DEF SameEnds, SameLink
  <2> QED
    BY <2>2, <2>3
<1>4. Adds(L, L2, P, f)
  BY <1>2, <1>3 DEF Adds
<1> QED
  BY <1>4 DEF L2, fs

LEMMA AddsKeeps ==
  ASSUME NEW L \in LinkTable, NEW L2, NEW P \in SUBSET Links, NEW f \in DownFrame, Adds(L, L2, P, f),
         NEW p, DOMAIN p.vote \subseteq Links
  PROVE  /\ L2 \in LinkTable
         /\ OnTheWay(L2) \subseteq OnTheWay(L) \cup {f}
         /\ OneUpstream(L) => OneUpstream(L2)
         /\ ServerEnds(L, p) => ServerEnds(L2, p)
         /\ \A l \in Links : OpenIn(L2, l) <=> OpenIn(L, l)
         /\ \A l \in Links : L2[l].up = L[l].up /\ L2[l].sync = L[l].sync /\ SameLink(L[l], L2[l])
<1>1. \A l \in Links : L[l].down \in Seq(DownFrame)
  BY DEF LinkTable, LinkState
<1>2. \A l \in Links : Frames(L2[l].down) \subseteq Frames(L[l].down) \cup {f}
  BY <1>1, AppendIs DEF Adds
<1>3. OnTheWay(L2) \subseteq OnTheWay(L) \cup {f}
  BY <1>2 DEF OnTheWay
<1>4. \A l \in Links : OpenIn(L2, l) <=> OpenIn(L, l)
  BY DEF Adds, SameEnds, OpenIn
<1>5. ASSUME OneUpstream(L) PROVE OneUpstream(L2)
  <2>1. \A l \in Links : L2[l].server = L[l].server /\ L2[l].child = L[l].child
    BY DEF Adds, SameEnds
  <2>2. \A c \in Children : {l \in LinksOf(c) : L2[l].child # "new"} = {l \in LinksOf(c) : L[l].child # "new"}
    BY <2>1 DEF LinksOf
  <2>3. \A l \in Links : L2[l].server = "open" /\ L2[l].down # <<>> => OpenIn(L2, l)
    BY <1>4, <1>5, <2>1 DEF Adds, OneUpstream
  <2> QED
    BY <1>5, <2>1, <2>2, <2>3 DEF OneUpstream
<1>6. ASSUME ServerEnds(L, p) PROVE ServerEnds(L2, p)
  <2>1. \A l \in Links : L2[l].server = L[l].server /\ L2[l].child = L[l].child /\ L2[l].sync = L[l].sync /\ L2[l].synced = L[l].synced
    BY DEF Adds, SameEnds, SameLink
  <2>2. \A l \in DOMAIN p.vote : L2[l].child # "new" /\ (L2[l].server = "open" => L2[l].synced)
    BY <1>6, <2>1 DEF ServerEnds
  <2>3. \A l \in Links : FirstHello(L2[l])
    BY <1>6, <2>1 DEF Adds, SameLink, ServerEnds, FirstHello
  <2> QED
    BY <1>6, <2>1, <2>2, <2>3 DEF ServerEnds
<1> QED
  BY <1>3, <1>4, <1>5, <1>6 DEF Adds, SameLink

-----------------------------------------------------------------------------
(* Ids and epochs.                                                         *)

\* A step offers at most one new reload, the next id for the epoch e0, and commits only
\* what the server has run.
Offers(s, s2, e0, p, p2, L, L2, ch, ch2) ==
    /\ s2.ids \in {s.ids, s.ids + 1} /\ s.ran \subseteq s2.ran
    /\ \A f \in OnTheWay(L2) : f \in OnTheWay(L) \/ f.t \notin Orders
          \/ (f.t = "prepare" /\ s2.ids = s.ids + 1 /\ f.id = s2.ids /\ f.epoch = e0)
          \/ (f.t = "commit" /\ f.id <= s.ids /\ \A e \in Epochs : Offered(p, L, ch, f.id, e) => e \in s2.ran)
          \/ (f.t = "abort" /\ f.id <= s.ids)
    /\ \A l \in Links : \A f \in Frames(L2[l].up) : f.t = "vote" => f \in Frames(L[l].up) \/ f.id <= s.ids
    /\ \A c \in Children : ch2[c].op.state # "none" => Offered(p, L, ch, ch2[c].op.id, ch2[c].op.epoch)
    /\ p2.phase = "preparing" => \/ p.phase = "preparing" /\ p2.id = p.id /\ p2.epoch = p.epoch
                                 \/ s2.ids = s.ids + 1 /\ p2.id = s2.ids /\ p2.epoch = e0
    /\ \A l \in Links : L2[l].sync # NoSync => \/ L2[l].sync = L[l].sync
                                               \/ s2.ids = s.ids + 1 /\ L2[l].sync.id = s2.ids /\ L2[l].sync.epoch = e0

\* Ids stand for one epoch each when what is newly offered has a new id or goes on with an old one.
LEMMA OffersStep ==
  ASSUME NEW s, NEW s2, NEW e0, NEW p, NEW p2, NEW L, NEW L2, NEW ch, NEW ch2,
         s.ids \in Nat, L \in LinkTable, L2 \in LinkTable,
         OneEpochEach(s, p, L, ch), Offers(s, s2, e0, p, p2, L, L2, ch, ch2)
  PROVE  OneEpochEach(s2, p2, L2, ch2)
<1>1. s2.ids \in Nat /\ s.ids <= s2.ids /\ (s2.ids = s.ids + 1 => ~(s2.ids <= s.ids))
  BY DEF Offers
<1>2. \A f \in OnTheWay(L) \cup OnTheWay(L2) : f \in DownFrame /\ (f.t \in Orders => f.id \in Nat)
  BY OrderIds DEF OnTheWay, Frames, LinkTable, LinkState
<1>3. \A l \in Links : \A f \in Frames(L[l].up) \cup Frames(L2[l].up) : f.t = "vote" => f.id \in Nat
  BY VoteFrames DEF Frames, LinkTable, LinkState
<1>o. "prepare" \in Orders /\ "commit" \in Orders /\ "abort" \in Orders
  BY DEF Orders
<1>4. ASSUME NEW i \in Nat, NEW e \in Epochs, Offered(p2, L2, ch2, i, e)
      PROVE  Offered(p, L, ch, i, e) \/ (s2.ids = s.ids + 1 /\ i = s2.ids /\ e = e0)
  <2>1. ASSUME NEW f \in OnTheWay(L2), f.t = "prepare", f.id = i, f.epoch = e
        PROVE  Offered(p, L, ch, i, e) \/ (s2.ids = s.ids + 1 /\ i = s2.ids /\ e = e0)
    BY <1>o, <2>1 DEF Offers, Offered
  <2>2. ASSUME NEW c \in Children, ch2[c].op.state # "none", ch2[c].op.id = i, ch2[c].op.epoch = e
        PROVE  Offered(p, L, ch, i, e)
    BY <2>2 DEF Offers
  <2>3. ASSUME p2.phase = "preparing", p2.id = i, p2.epoch = e
        PROVE  Offered(p, L, ch, i, e) \/ (s2.ids = s.ids + 1 /\ i = s2.ids /\ e = e0)
    BY <2>3 DEF Offers, Offered
  <2>4. ASSUME NEW l \in Links, L2[l].sync # NoSync, L2[l].sync.id = i, L2[l].sync.epoch = e
        PROVE  Offered(p, L, ch, i, e) \/ (s2.ids = s.ids + 1 /\ i = s2.ids /\ e = e0)
    BY <2>4 DEF Offers, Offered
  <2> QED
    BY <1>4, <2>1, <2>2, <2>3, <2>4 DEF Offered
<1>5. \A i \in Nat, e \in Epochs : Offered(p2, L2, ch2, i, e) => i <= s2.ids
  BY <1>1, <1>4 DEF OneEpochEach
<1>6. \A i \in Nat, e, f \in Epochs : Offered(p2, L2, ch2, i, e) /\ Offered(p2, L2, ch2, i, f) => e = f
  BY <1>1, <1>4 DEF OneEpochEach
<1>7. ASSUME NEW f \in OnTheWay(L2), f.t \in Orders
      PROVE  /\ f.id <= s2.ids
             /\ f.t = "commit" => f.id <= s.ids
             /\ f.t = "commit" => f \in OnTheWay(L) \/ \A e \in Epochs : Offered(p, L, ch, f.id, e) => e \in s2.ran
  <2>1. f.id \in Nat
    BY <1>2, <1>7
  <2>2. CASE f \in OnTheWay(L)
    BY <1>1, <1>7, <2>1, <2>2 DEF OneEpochEach
  <2>3. CASE f \notin OnTheWay(L)
    BY <1>1, <1>7, <2>1, <2>3 DEF Offers
  <2> QED
    BY <2>2, <2>3
<1>8. ASSUME NEW l \in Links, NEW f \in Frames(L2[l].up), f.t = "vote" PROVE f.id <= s2.ids
  <2>1. f.id \in Nat
    BY <1>3, <1>8
  <2>2. f.id <= s.ids
    BY <1>8 DEF Offers, OneEpochEach
  <2> QED
    BY <1>1, <2>1, <2>2
<1>9. ASSUME NEW i \in Nat, NEW e \in Epochs, Offered(p2, L2, ch2, i, e), Committed(L2, i) PROVE e \in s2.ran
  <2>1. PICK f \in OnTheWay(L2) : f.t = "commit" /\ f.id = i
    BY <1>9 DEF Committed
  <2>2. i <= s.ids /\ (f \in OnTheWay(L) \/ \A d \in Epochs : Offered(p, L, ch, i, d) => d \in s2.ran)
    BY <1>7, <1>o, <2>1
  <2>3. Offered(p, L, ch, i, e)
    BY <1>1, <1>4, <1>9, <2>2
  <2>4. f \in OnTheWay(L) => e \in s.ran
    BY <2>1, <2>3 DEF OneEpochEach, Committed
  <2> QED
    BY <2>2, <2>3, <2>4 DEF Offers
<1> QED
  BY <1>5, <1>6, <1>7, <1>8, <1>9 DEF OneEpochEach

\* Which reload an operation stands for.
LEMMA Offering ==
  ASSUME NEW p, NEW L, NEW ch
  PROVE  /\ \A c \in Children : ch[c].op.state # "none" => Offered(p, L, ch, ch[c].op.id, ch[c].op.epoch)
         /\ \A l \in Links : L[l].sync # NoSync => Offered(p, L, ch, L[l].sync.id, L[l].sync.epoch)
         /\ p.phase = "preparing" => Offered(p, L, ch, p.id, p.epoch)
         /\ \A f \in OnTheWay(L) : f.t = "prepare" => Offered(p, L, ch, f.id, f.epoch)
  BY DEF Offered

-----------------------------------------------------------------------------
(* Steps of the server that leave the children alone.                      *)

\* What the types say, field by field.
LEMMA TypesOf ==
  ASSUME NEW s, NEW p, NEW L, NEW ch, NEW rt, Types(s, p, L, ch, rt)
  PROVE  /\ s.cur \in Nat /\ s.prev \in Nat /\ s.seq \in Nat /\ s.ids \in Nat /\ s.ran \subseteq Nat
         /\ s.cur \in Epochs /\ s.prev \in Epochs /\ s.seq \in Epochs /\ s.cur # 0 /\ s.ran \subseteq Epochs
         /\ p \in PassState /\ DOMAIN p.vote \subseteq Links /\ p.id \in Nat /\ p.epoch \in Nat /\ p.epoch \in Epochs
         /\ L \in LinkTable /\ \A l \in Links : L[l] \in LinkState
         /\ \A c \in Children : ch[c] \in ChildState
         /\ \A f \in OnTheWay(L) : f \in DownFrame
<1>1. L \in LinkTable /\ \A l \in Links : L[l] \in LinkState
  BY DEF Types, LinkTable
<1>2. \A f \in OnTheWay(L) : f \in DownFrame
  BY <1>1 DEF OnTheWay, Frames, LinkState
<1>3. DOMAIN p.vote \subseteq Links
  BY DEF Types, PassState
<1> QED
  BY <1>1, <1>2, <1>3, BoundsAssumption DEF Types, ServerState, PassState, Epochs

\* The server's reload asks less of the links than it did.
LEMMA PassStep ==
  ASSUME NEW s, NEW p, NEW L, NEW ch, NEW rt, All(s, p, L, ch, rt),
         NEW p2 \in PassState, EpochsRise(s, p2), ServerEnds(L, p2),
         \A l \in Links : Weaker(Ask(p, l), Ask(p2, l)),
         p2.phase = "preparing" => p.phase = "preparing" /\ p2.id = p.id /\ p2.epoch = p.epoch
  PROVE  All(s, p2, L, ch, rt)
<1>1. Types(s, p2, L, ch, rt)
  BY DEF All, Types
<1>2. OneEpochEach(s, p2, L, ch)
  <2>1. Offers(s, s, 0, p, p2, L, L, ch, ch)
    BY Offering DEF Offers
  <2> QED
    BY <2>1, TypesOf, OffersStep DEF All
<1>3. Protocols(p2, L, ch)
  <2> SUFFICES ASSUME NEW l \in Links, OpenIn(L, l) PROVE Protocol(L[l], ch[l[1]], Ask(p2, l))
    BY DEF Protocols
  <2>1. Protocol(L[l], ch[l[1]], Ask(p, l)) /\ L[l] \in LinkState
    BY TypesOf DEF All, Protocols
  <2> QED
    BY <2>1, ProtocolSame DEF SameLink, SameOp
<1> QED
  BY <1>1, <1>2, <1>3 DEF All

\* The server's roots are of epochs it ran.
LEMMA RootStep ==
  ASSUME NEW s, NEW p, NEW L, NEW ch, NEW rt, All(s, p, L, ch, rt),
         NEW rt2 \in [Roots -> [epoch : Epochs, at : Links \cup {None}]],
         \A r \in Roots : rt2[r].epoch \in s.ran \cup {0}
  PROVE  All(s, p, L, ch, rt2)
  BY DEF All, Types, CallsKnown

\* The server tells of a retirement, or calls.
LEMMA TellStep ==
  ASSUME NEW s, NEW p, NEW L, NEW ch, NEW rt, All(s, p, L, ch, rt),
         NEW L2, NEW P \in SUBSET Links, NEW f \in DownFrame, Adds(L, L2, P, f),
         \/ f.t = "retire" /\ Retired(s, f.epoch)
         \/ f.t = "call" /\ f.epoch \in s.ran \cup {0} /\ \A l \in P : L[l].synced
  PROVE  All(s, p, L2, ch, rt)
<1>t. L \in LinkTable /\ DOMAIN p.vote \subseteq Links /\ s.ids \in Nat /\ \A l \in Links : L[l] \in LinkState
  BY TypesOf DEF All
<1>1. /\ L2 \in LinkTable /\ OnTheWay(L2) \subseteq OnTheWay(L) \cup {f}
      /\ OneUpstream(L2) /\ ServerEnds(L2, p)
      /\ \A l \in Links : OpenIn(L2, l) <=> OpenIn(L, l)
      /\ \A l \in Links : L2[l].up = L[l].up /\ L2[l].sync = L[l].sync /\ SameLink(L[l], L2[l])
  BY <1>t, AddsKeeps, SMT, ZenonT(60) DEF All
<1>2. Types(s, p, L2, ch, rt)
  BY <1>1 DEF All, Types, LinkTable
<1>3. OneEpochEach(s, p, L2, ch)
  <2>1. Offers(s, s, 0, p, p, L, L2, ch, ch)
    BY <1>1, Offering DEF Offers, Orders
  <2> QED
    BY <1>1, <1>t, <2>1, OffersStep DEF All
<1>4. Protocols(p, L2, ch)
  <2> SUFFICES ASSUME NEW l \in Links, OpenIn(L2, l) PROVE Protocol(L2[l], ch[l[1]], Ask(p, l))
    BY DEF Protocols
  <2>1. Protocol(L[l], ch[l[1]], Ask(p, l)) /\ L[l] \in LinkState /\ OpenIn(L, l)
    BY <1>t, <1>1 DEF All, Protocols
  <2>2. L2[l].sync = L[l].sync /\ SameLink(L[l], L2[l])
    BY <1>1
  <2>3. CASE l \in P
    <3>1. L2[l].down = L[l].down \o <<f>>
      BY <2>1, <2>3 DEF Adds
    <3> QED
      BY <2>1, <2>2, <2>3, <3>1, ProtocolTells
  <2>4. CASE l \notin P
    <3>1. L2[l].down = L[l].down
      BY <2>4 DEF Adds
    <3> QED
      BY <2>1, <2>2, <3>1, ProtocolSame DEF SameOp, Weaker
  <2> QED
    BY <2>3, <2>4
<1>5. CallsKnown(s, L2, rt) /\ RetiredIsOld(s, L2, ch)
  BY <1>1 DEF All, CallsKnown, RetiredIsOld
<1>6. EpochsRun(s, L2, ch)
  BY <1>1 DEF All, EpochsRun
<1>7. Missed(s, L2)
  BY <1>1 DEF All, Missed, MissedIn, SameLink
<1> QED
  BY <1>1, <1>2, <1>3, <1>4, <1>5, <1>6, <1>7 DEF All

\* The server drops its previous epoch and tells its children.
LEMMA RetireStep ==
  ASSUME NEW s, NEW p, NEW L, NEW ch, NEW rt, All(s, p, L, ch, rt), s.prev # 0
  PROVE  All([s EXCEPT !.prev = 0], p, TellRetired(L, s.prev), ch, rt)
<1> DEFINE s2 == [s EXCEPT !.prev = 0]
           P == {k \in Links : L[k].server = "open"}
           f == Frame("retire", 0, s.prev)
<1>t. /\ s.cur \in Nat /\ s.prev \in Nat /\ s.prev \in Epochs /\ L \in LinkTable /\ s.ids \in Nat /\ s.seq \in Nat
      /\ \A g \in OnTheWay(L) : g \in DownFrame
  BY TypesOf DEF All
<1>1. /\ s2 \in ServerState
      /\ s2.cur = s.cur /\ s2.prev = 0 /\ s2.seq = s.seq /\ s2.ids = s.ids /\ s2.ran = s.ran
  BY Zero DEF All, Types, ServerState
<1>2. f \in DownFrame /\ f.t = "retire" /\ f.epoch = s.prev
  BY <1>t, FrameTypes DEF Frame
<1>3. Adds(L, TellRetired(L, s.prev), P, f)
  BY <1>t, <1>2, EachAdds DEF TellRetired
<1> HIDE DEF s2, P, f
<1>4. Retired(s2, s.prev) /\ \A e : Retired(s, e) => Retired(s2, e)
  BY <1>t, <1>1 DEF Retired, All, EpochsRise
<1>5. All(s2, p, L, ch, rt)
  <2>1. Types(s2, p, L, ch, rt)
    BY <1>1 DEF All, Types
  <2>2. EpochsRise(s2, p)
    BY <1>1, <1>t DEF All, EpochsRise
  <2>3. OneEpochEach(s2, p, L, ch)
    BY <1>1 DEF All, OneEpochEach
  <2>4. CallsKnown(s2, L, rt) /\ RetiredIsOld(s2, L, ch) /\ EpochsRun(s2, L, ch) /\ Missed(s2, L)
    BY <1>1, <1>4 DEF All, CallsKnown, RetiredIsOld, EpochsRun, Missed, MissedIn
  <2> QED
    BY <2>1, <2>2, <2>3, <2>4 DEF All
<1>6. P \in SUBSET Links
  BY DEF P
<1>7. All(s2, p, TellRetired(L, s.prev), ch, rt)
  BY <1>2, <1>3, <1>4, <1>5, <1>6, TellStep
<1> QED
  BY <1>7 DEF s2

\* maybeRetire, with or without something to retire.
LEMMA MaybeStep ==
  ASSUME NEW s, NEW p, NEW L, NEW ch, NEW rt, All(s, p, L, ch, rt), MaybeRetire(s, rt, L)
  PROVE  All(srv', p, link', ch, rt)
  BY RetireStep DEF MaybeRetire, ServerRetires


\* The server offers its reload to the participants.
LEMMA OfferStep ==
  ASSUME NEW s, NEW p, NEW L, NEW ch, NEW rt, All(s, p, L, ch, rt), p.phase = "loading",
         NEW s2 \in ServerState, s2.cur = s.cur, s2.prev = s.prev, s2.ran = s.ran, s2.ids = s.ids + 1,
         NEW p2 \in PassState, p2.phase = "preparing", p2.epoch = p.epoch, p2.id = s2.ids,
         s2.seq \in {s.seq, p.epoch}, p2.local \in {"working", "yes"} => s2.seq = p.epoch,
         DOMAIN p2.vote = DOMAIN p.vote, \A l \in DOMAIN p.vote : p2.vote[l] = "wait",
         NEW L2, Adds(L, L2, DOMAIN p.vote, Frame("prepare", s2.ids, p.epoch))
  PROVE  All(s2, p2, L2, ch, rt)
<1> DEFINE P == DOMAIN p.vote
           f == Frame("prepare", s2.ids, p.epoch)
<1>t. /\ L \in LinkTable /\ P \in SUBSET Links /\ s.ids \in Nat /\ \A l \in Links : L[l] \in LinkState
      /\ s.cur \in Nat /\ s.prev \in Nat /\ s.seq \in Nat /\ p.epoch \in Nat /\ p.epoch \in Epochs
      /\ \A g \in OnTheWay(L) : g \in DownFrame
      /\ \A c \in Children : ch[c] \in ChildState
  BY TypesOf DEF All
<1>f. f \in DownFrame /\ f.t = "prepare" /\ f.id = s2.ids /\ f.epoch = p.epoch /\ s2.ids \in Nat
  BY <1>t, FrameTypes DEF Frame, Orders
<1>e. EpochsRise(s, p) /\ p.epoch = s.seq + 1
  BY DEF All, EpochsRise
<1>a. Adds(L, L2, P, f) /\ DOMAIN p.vote \subseteq Links /\ OneUpstream(L) /\ ServerEnds(L, p)
  BY <1>t DEF All
<1> HIDE DEF P, f
<1>1. /\ L2 \in LinkTable /\ OnTheWay(L2) \subseteq OnTheWay(L) \cup {f}
      /\ OneUpstream(L2) /\ ServerEnds(L2, p)
      /\ \A l \in Links : OpenIn(L2, l) <=> OpenIn(L, l)
      /\ \A l \in Links : L2[l].up = L[l].up /\ L2[l].sync = L[l].sync /\ SameLink(L[l], L2[l])
  BY <1>t, <1>f, <1>a, AddsKeeps
<1>2. Types(s2, p2, L2, ch, rt)
  BY <1>1 DEF All, Types, LinkTable, ServerState
<1>3. EpochsRise(s2, p2)
  BY <1>t, <1>e DEF EpochsRise
<1>4. ServerEnds(L2, p2)
  BY <1>1 DEF ServerEnds, P
<1>5. OneEpochEach(s2, p2, L2, ch)
  <2>1. Offers(s, s2, p.epoch, p, p2, L, L2, ch, ch)
    BY <1>1, <1>f, Offering DEF Offers
  <2> QED
    BY <1>1, <1>t, <2>1, OffersStep DEF All
<1>6. Protocols(p2, L2, ch)
  <2> SUFFICES ASSUME NEW l \in Links, OpenIn(L2, l) PROVE Protocol(L2[l], ch[l[1]], Ask(p2, l))
    BY DEF Protocols
  <2>1. /\ Protocol(L[l], ch[l[1]], Ask(p, l)) /\ L[l] \in LinkState /\ OpenIn(L, l)
        /\ L2[l].sync = L[l].sync /\ SameLink(L[l], L2[l])
    BY <1>t, <1>1 DEF All, Protocols
  <2>2. Ask(p, l) = NoAsk /\ NoAsk.id = 0
    BY DEF Ask, NoAsk
  <2>3. CASE l \in P
    <3>1. L2[l].down = L[l].down \o <<f>>
      BY <1>a, <2>1, <2>3 DEF Adds
    <3>2. Ask(p2, l).id = f.id /\ Ask(p2, l).vote = "wait"
      BY <1>f, <2>3 DEF Ask, P
    <3>3. \A g \in Frames(L[l].down) : g.t \in Orders => g.id # f.id
      <4>1. ASSUME NEW g \in Frames(L[l].down), g.t \in Orders PROVE g.id # f.id
        <5>1. g \in OnTheWay(L) /\ g.id <= s.ids
          BY <4>1 DEF OnTheWay, All, OneEpochEach
        <5> QED
          BY <1>f, <1>t, <5>1
      <4> QED
        BY <4>1
    <3>4. \A g \in Frames(L[l].up) : g.t = "vote" => g.id # f.id
      <4>1. ASSUME NEW g \in Frames(L[l].up), g.t = "vote" PROVE g.id # f.id
        <5>1. g.id <= s.ids
          BY <4>1 DEF All, OneEpochEach
        <5> QED
          BY <1>f, <1>t, <5>1
      <4> QED
        BY <4>1
    <3>5. ch[l[1]].op.id # f.id
      <4>1. l[1] \in Children /\ ch[l[1]] \in ChildState
        BY <1>t, LinkChild
      <4>2. ch[l[1]].op.state = "none" => ch[l[1]].op.id = 0
        BY <4>1 DEF All, Staging, Stage, NoOp
      <4>3. ch[l[1]].op.state # "none" => ch[l[1]].op.id <= s.ids
        BY <4>1, Offering DEF All, OneEpochEach, ChildState, OpState
      <4> QED
        BY <1>f, <1>t, <4>2, <4>3
    <3>6. L[l].synced
      BY <2>1, <2>3 DEF All, ServerEnds, OpenIn, P
    <3>7. Ask(p, l).id # f.id
      BY <1>f, <1>t, <2>2
    <3>8. /\ Weaker(Ask(p, l), Ask(p2, l)) \/ (Ask(p2, l).id = f.id /\ Ask(p2, l).vote = "wait")
          /\ L[l].synced \/ \A n \in DOMAIN L[l].up : L[l].up[n].t # "hello"
          /\ L2[l].sync.id \in {L[l].sync.id, f.id} /\ f \in DownFrame /\ f.t = "prepare"
      BY <1>f, <2>1, <3>2, <3>6
    <3>9. Protocol(L[l], ch[l[1]], Ask(p, l)) /\ L[l] \in LinkState /\ SameLink(L[l], L2[l])
      BY <2>1
    <3> QED
      BY <3>1, <3>3, <3>4, <3>5, <3>7, <3>8, <3>9, ProtocolOffers
  <2>4. CASE l \notin P
    <3>1. L2[l].down = L[l].down
      BY <1>a, <2>4 DEF Adds
    <3>2. Ask(p2, l) = NoAsk
      BY <2>4 DEF Ask, P
    <3> QED
      BY <2>1, <3>1, <3>2, ProtocolSame DEF SameOp, Weaker
  <2> QED
    BY <2>3, <2>4
<1>7. CallsKnown(s2, L2, rt) /\ RetiredIsOld(s2, L2, ch)
  BY <1>1, <1>f DEF All, CallsKnown, RetiredIsOld, Retired
<1>8. EpochsRun(s2, L2, ch) /\ Missed(s2, L2)
  BY <1>1 DEF All, EpochsRun, Missed, MissedIn, SameLink
<1> QED
  BY <1>1, <1>2, <1>3, <1>4, <1>5, <1>6, <1>7, <1>8 DEF All

\* The server gives its reload up.
LEMMA AbortStep ==
  ASSUME NEW s, NEW p, NEW L, NEW ch, NEW rt, All(s, p, L, ch, rt), p.phase = "preparing",
         NEW p2 \in PassState, p2.phase \in {"idle", "unwinding"}, DOMAIN p2.vote = {},
         NEW L2, Adds(L, L2, DOMAIN p.vote, Frame("abort", p.id, 0))
  PROVE  All(s, p2, L2, ch, rt)
<1> DEFINE P == DOMAIN p.vote
           f == Frame("abort", p.id, 0)
<1>t. /\ L \in LinkTable /\ P \in SUBSET Links /\ s.ids \in Nat /\ \A l \in Links : L[l] \in LinkState
      /\ p.id \in Nat /\ p.epoch \in Epochs /\ \A g \in OnTheWay(L) : g \in DownFrame
  BY TypesOf DEF All
<1>i. p.id # 0 /\ p.id <= s.ids
  BY <1>t, Offering DEF All, EpochsRise, OneEpochEach
<1>f. f \in DownFrame /\ f.t = "abort" /\ f.id = p.id
  BY <1>t, <1>i, Zero, FrameTypes DEF Frame, Orders
<1>a. Adds(L, L2, P, f) /\ DOMAIN p.vote \subseteq Links /\ OneUpstream(L) /\ ServerEnds(L, p)
  BY <1>t DEF All
<1> HIDE DEF P, f
<1>1. /\ L2 \in LinkTable /\ OnTheWay(L2) \subseteq OnTheWay(L) \cup {f}
      /\ OneUpstream(L2) /\ ServerEnds(L2, p)
      /\ \A l \in Links : OpenIn(L2, l) <=> OpenIn(L, l)
      /\ \A l \in Links : L2[l].up = L[l].up /\ L2[l].sync = L[l].sync /\ SameLink(L[l], L2[l])
  BY <1>t, <1>f, <1>a, AddsKeeps
<1>2. Types(s, p2, L2, ch, rt)
  BY <1>1 DEF All, Types, LinkTable
<1>3. EpochsRise(s, p2) /\ ServerEnds(L2, p2)
  BY <1>1 DEF All, EpochsRise, ServerEnds
<1>5. OneEpochEach(s, p2, L2, ch)
  <2>1. Offers(s, s, 0, p, p2, L, L2, ch, ch)
    BY <1>1, <1>f, <1>i, Offering DEF Offers
  <2> QED
    BY <1>1, <1>t, <2>1, OffersStep DEF All
<1>6. Protocols(p2, L2, ch)
  <2> SUFFICES ASSUME NEW l \in Links, OpenIn(L2, l) PROVE Protocol(L2[l], ch[l[1]], Ask(p2, l))
    BY DEF Protocols
  <2>1. /\ Protocol(L[l], ch[l[1]], Ask(p, l)) /\ L[l] \in LinkState /\ OpenIn(L, l)
        /\ L2[l].sync = L[l].sync /\ SameLink(L[l], L2[l])
    BY <1>t, <1>1 DEF All, Protocols
  <2>2. Ask(p2, l) = NoAsk /\ NoAsk.id = 0
    BY DEF Ask, NoAsk
  <2>3. CASE l \in P
    <3>1. L2[l].down = L[l].down \o <<f>>
      BY <1>a, <2>1, <2>3 DEF Adds
    <3>2. Ask(p, l).id = f.id
      BY <1>f, <2>3 DEF Ask, P
    <3>3. L[l].synced /\ L[l].sync = NoSync /\ NoSync.id = 0
      BY <2>1, <2>3 DEF All, ServerEnds, OpenIn, P, NoSync
    <3> QED
      BY <1>f, <1>i, <2>1, <2>2, <3>1, <3>2, <3>3, ProtocolAborts DEF Weaker
  <2>4. CASE l \notin P
    <3>1. L2[l].down = L[l].down
      BY <1>a, <2>4 DEF Adds
    <3> QED
      BY <2>1, <2>2, <3>1, ProtocolSame DEF SameOp, Weaker
  <2> QED
    BY <2>3, <2>4
<1>7. CallsKnown(s, L2, rt) /\ RetiredIsOld(s, L2, ch)
  BY <1>1, <1>f DEF All, CallsKnown, RetiredIsOld
<1>8. EpochsRun(s, L2, ch) /\ Missed(s, L2)
  BY <1>1 DEF All, EpochsRun, Missed, MissedIn, SameLink
<1> QED
  BY <1>1, <1>2, <1>3, <1>5, <1>6, <1>7, <1>8 DEF All

\* The server moves with the peers of P, link by link.
LEMMA MovesIs ==
  ASSUME NEW L \in LinkTable, NEW P, NEW e \in Epochs, NEW l \in Links
  PROVE  LET k == L[l]
             k2 == Moves(L, P, e)[l] IN
         /\ k2 \in LinkState /\ SameEnds(k, k2) /\ k2.up = k.up /\ k2.down = k.down
         /\ k2.synced = k.synced /\ k2.sync = k.sync
         /\ k.server = "open" /\ l \in P => k2.epoch = e /\ k2.missed = k.missed
         /\ ~(k.server = "open" /\ l \in P) => k2.epoch = k.epoch
         /\ ~(k.server = "open" /\ l \in P) /\ k.synced /\ l \notin P => k2.missed = k.missed \cup {e}
         /\ ~(k.server = "open" /\ l \in P) /\ ~(k.synced /\ l \notin P) => k2.missed = k.missed
<1> DEFINE k == L[l]
           k2 == Moves(L, P, e)[l]
<1>1. k \in LinkState
  BY DEF LinkTable
<1>2. k2 = IF k.server = "open" /\ l \in P THEN [k EXCEPT !.epoch = e]
           ELSE IF k.synced /\ l \notin P THEN [k EXCEPT !.missed = @ \cup {e}] ELSE k
  BY DEF Moves
<1> SUFFICES /\ k2 \in LinkState /\ SameEnds(k, k2) /\ k2.up = k.up /\ k2.down = k.down
             /\ k2.synced = k.synced /\ k2.sync = k.sync
             /\ k.server = "open" /\ l \in P => k2.epoch = e /\ k2.missed = k.missed
             /\ ~(k.server = "open" /\ l \in P) => k2.epoch = k.epoch
             /\ ~(k.server = "open" /\ l \in P) /\ k.synced /\ l \notin P => k2.missed = k.missed \cup {e}
             /\ ~(k.server = "open" /\ l \in P) /\ ~(k.synced /\ l \notin P) => k2.missed = k.missed
  BY DEF k, k2
<1> HIDE DEF k, k2
<1>3. CASE k.server = "open" /\ l \in P
  <2>1. k2 = [k EXCEPT !.epoch = e]
    BY <1>2, <1>3
  <2>2. k2 \in LinkState
    BY <1>1, <2>1 DEF LinkState
  <2> QED
    BY <1>1, <1>3, <2>1, <2>2 DEF LinkState, SameEnds
<1>4. CASE ~(k.server = "open" /\ l \in P) /\ k.synced /\ l \notin P
  <2>1. k2 = [k EXCEPT !.missed = @ \cup {e}]
    BY <1>2, <1>4
  <2>2. k2 \in LinkState
    BY <1>1, <2>1 DEF LinkState
  <2> QED
    BY <1>1, <1>4, <2>1, <2>2 DEF LinkState, SameEnds
<1>5. CASE ~(k.server = "open" /\ l \in P) /\ ~(k.synced /\ l \notin P)
  <2>1. k2 = k
    BY <1>2, <1>5
  <2> QED
    BY <1>1, <1>5, <2>1 DEF SameEnds
<1> QED
  BY <1>3, <1>4, <1>5

\* The calls under way are of epochs the child has reached, or that it missed.
LEMMA NoneNew ==
  ASSUME NEW s, NEW p, NEW L, NEW ch, NEW rt, All(s, p, L, ch, rt), NEW l \in Links, OpenIn(L, l),
         L[l].synced, ~ch[l[1]].failed, ~Has(L[l].down, "commit", ch[l[1]].op.id)
  PROVE  \A f \in Frames(L[l].down) : ~NewCall(L[l], ch[l[1]], f)
<1> DEFINE k == L[l]
           h == ch[l[1]]
<1>1. h.cur = k.epoch /\ h.cur \in Nat
  <2>1. Protocol(k, h, Ask(p, l))
    BY DEF All, Protocols
  <2>2. h \in ChildState
    BY LinkChild, TypesOf DEF All
  <2> QED
    BY <2>1, <2>2 DEF Protocol, Known, ChildState, Epochs
<1> SUFFICES ASSUME NEW f \in Frames(k.down), f.t = "call", f.epoch \notin k.missed PROVE f.epoch <= h.cur
  BY DEF NewCall
<1>2. f.epoch \in s.ran \cup {0}
  BY DEF All, CallsKnown, OnTheWay
<1>3. f.epoch \in s.ran => f.epoch <= k.epoch
  BY DEF All, Missed, MissedIn
<1> QED
  BY <1>1, <1>2, <1>3

\* The server runs the new epoch; the participants P follow, all of them or none.
LEMMA CommitStep ==
  ASSUME NEW s, NEW p, NEW L, NEW ch, NEW rt, All(s, p, L, ch, rt),
         p.phase = "preparing", p.local = "yes", \A l \in DOMAIN p.vote : p.vote[l] = "yes",
         NEW s2 \in ServerState, s2.cur = p.epoch, s2.prev = s.cur, s2.ran = s.ran \cup {p.epoch},
         s2.ids = s.ids, s2.seq = s.seq,
         NEW P \in SUBSET DOMAIN p.vote, NEW L1, Adds(L, L1, P, Frame("commit", p.id, 0)),
         NEW L2 \in LinkTable, L2 = Moves(L1, P, p.epoch)
  PROVE  All(s2, Idle, L2, ch, rt)
<1> DEFINE f == Frame("commit", p.id, 0)
<1>t. /\ L \in LinkTable /\ P \in SUBSET Links /\ s.ids \in Nat /\ \A l \in Links : L[l] \in LinkState
      /\ p.id \in Nat /\ p.epoch \in Epochs /\ p.epoch \in Nat /\ s.cur \in Nat /\ s.prev \in Nat /\ s.seq \in Nat
      /\ \A g \in OnTheWay(L) : g \in DownFrame
  BY TypesOf DEF All
<1>r. s.prev < s.cur /\ s.cur < p.epoch /\ s.seq = p.epoch /\ s.ran \subseteq 1 .. s.cur /\ s.ran \subseteq Nat
  BY <1>t DEF All, EpochsRise
<1>i. p.id # 0 /\ p.id <= s.ids
  BY <1>t, Offering DEF All, EpochsRise, OneEpochEach
<1>f. f \in DownFrame /\ f.t = "commit" /\ f.id = p.id
  BY <1>t, <1>i, Zero, FrameTypes DEF Frame, Orders
<1>a. Adds(L, L1, P, f) /\ DOMAIN p.vote \subseteq Links /\ OneUpstream(L) /\ ServerEnds(L, p)
  BY TypesOf DEF All
<1>v. DOMAIN Idle.vote = {} /\ Idle.phase = "idle"
  BY NoVotes DEF Idle
<1> HIDE DEF f
<1>0. /\ L1 \in LinkTable /\ OnTheWay(L1) \subseteq OnTheWay(L) \cup {f}
      /\ OneUpstream(L1) /\ ServerEnds(L1, p)
      /\ \A l \in Links : OpenIn(L1, l) <=> OpenIn(L, l)
      /\ \A l \in Links : L1[l].up = L[l].up /\ L1[l].sync = L[l].sync /\ SameLink(L[l], L1[l])
  BY <1>t, <1>f, <1>a, AddsKeeps
<1>1. ASSUME NEW l \in Links
      PROVE  /\ SameEnds(L1[l], L2[l]) /\ L2[l].up = L1[l].up /\ L2[l].synced = L1[l].synced /\ L2[l].sync = L1[l].sync
             /\ L2[l].down = L1[l].down /\ L1[l].missed \subseteq L2[l].missed /\ L2[l].missed \subseteq L1[l].missed \cup {p.epoch}
             /\ l \in P /\ L[l].server = "open" => L2[l].epoch = p.epoch /\ L2[l].missed = L1[l].missed
             /\ ~(l \in P /\ L[l].server = "open") => L2[l].epoch = L1[l].epoch
             /\ l \notin P /\ L[l].synced => p.epoch \in L2[l].missed
  <2>1. L1[l].server = L[l].server /\ L1[l].synced = L[l].synced
    BY <1>a, <1>0 DEF Adds, SameEnds, SameLink
  <2> QED
    BY <1>0, <1>t, <2>1, MovesIs
<1>2. Types(s2, Idle, L2, ch, rt)
  BY InitTypes DEF All, Types, LinkTable, ServerState
<1>3. EpochsRise(s2, Idle)
  BY <1>t, <1>r, <1>v DEF EpochsRise, All
<1>4. OneUpstream(L2)
  <2>1. \A l \in Links : L2[l].server = L1[l].server /\ L2[l].child = L1[l].child /\ L2[l].down = L1[l].down
                         /\ (OpenIn(L2, l) <=> OpenIn(L1, l))
    BY <1>1 DEF SameEnds, OpenIn
  <2>2. \A c \in Children : {l \in LinksOf(c) : L2[l].child # "new"} = {l \in LinksOf(c) : L1[l].child # "new"}
    BY <2>1 DEF LinksOf
  <2> QED
    BY <1>0, <2>1, <2>2 DEF OneUpstream
<1>5. ServerEnds(L2, Idle)
  <2>1. \A l \in Links : FirstHello(L2[l])
    BY <1>0, <1>1 DEF ServerEnds, FirstHello
  <2> QED
    BY <1>0, <1>1, <1>v, <2>1 DEF ServerEnds, SameEnds
<1>w. OnTheWay(L2) \subseteq OnTheWay(L) \cup {f}
  BY <1>0, <1>1 DEF OnTheWay
<1>u. \A l \in Links : L2[l].up = L[l].up /\ L2[l].sync = L[l].sync /\ (OpenIn(L2, l) => OpenIn(L, l))
  BY <1>0, <1>1 DEF OpenIn, SameEnds
<1>6. OneEpochEach(s2, Idle, L2, ch)
  <2>1. \A e \in Epochs : Offered(p, L, ch, f.id, e) => e \in s2.ran
    BY <1>f, <1>t, Offering DEF All, OneEpochEach
  <2>2. Offers(s, s2, 0, p, Idle, L, L2, ch, ch)
    BY <1>w, <1>u, <1>f, <1>i, <1>v, <2>1, Offering DEF Offers
  <2> QED
    BY <1>t, <2>2, OffersStep DEF All
<1>7. Protocols(Idle, L2, ch)
  <2> SUFFICES ASSUME NEW l \in Links, OpenIn(L2, l) PROVE Protocol(L2[l], ch[l[1]], Ask(Idle, l))
    BY DEF Protocols
  <2>1. /\ Protocol(L[l], ch[l[1]], Ask(p, l)) /\ L[l] \in LinkState /\ OpenIn(L, l)
        /\ L2[l].sync = L[l].sync /\ L2[l].up = L[l].up /\ L2[l].synced = L[l].synced
    BY <1>t, <1>0, <1>1, <1>u DEF All, Protocols, SameLink
  <2>2. Ask(Idle, l) = NoAsk /\ NoAsk.id = 0
    BY <1>v DEF Ask, NoAsk
  <2>3. CASE l \in P
    <3>0. L1[l].down = L[l].down \o <<f>> /\ L[l].server = "open"
      <4>1. L1[l].down = IF l \in P /\ OpenIn(L, l) THEN L[l].down \o <<f>> ELSE L[l].down
        BY <1>a DEF Adds
      <4> QED
        BY <4>1, <2>1, <2>3 DEF OpenIn
    <3>1. L2[l].down = L[l].down \o <<f>> /\ L2[l].epoch = p.epoch
      BY <1>1, <3>0, <2>3
    <3>2. Ask(p, l).id = p.id /\ Ask(p, l).vote = "yes"
      BY <2>3 DEF Ask
    <3>3. L[l].synced /\ L[l].sync = NoSync /\ NoSync.id = 0
      BY <2>1, <2>3 DEF All, ServerEnds, OpenIn, NoSync
    <3>4. ch[l[1]].op.id = p.id /\ ch[l[1]].op.state = "prepared"
      BY <1>i, <1>t, <2>1, <3>2 DEF Protocol, VoteStands, SaidYes, Undecided
    <3>5. ch[l[1]].op.epoch = p.epoch
      <4>1. l[1] \in Children
        BY LinkChild
      <4>2. ch[l[1]].op.epoch \in Epochs
        BY <4>1, TypesOf DEF All, ChildState, OpState
      <4> QED
        BY <1>t, <3>4, <4>1, <4>2, Offering DEF All, OneEpochEach
    <3>6. ~ch[l[1]].failed => \A g \in Frames(L[l].down) : ~NewCall(L[l], ch[l[1]], g)
      <4>1. ~Has(L[l].down, "commit", ch[l[1]].op.id)
        BY <2>1, <3>2, <3>4 DEF Protocol, Waits, Has
      <4> QED
        BY <2>1, <3>3, <4>1, NoneNew
    <3>7. /\ f.id \in {L[l].sync.id, Ask(p, l).id} /\ f.id \notin {L2[l].sync.id, NoAsk.id}
          /\ L2[l].sync \in {L[l].sync, NoSync} /\ Weaker(Ask(p, l), NoAsk)
          /\ L[l].synced \/ L[l].sync # NoSync
          /\ L2[l].synced /\ L2[l].epoch = ch[l[1]].op.epoch
          /\ ch[l[1]].op.id = f.id
      BY <1>f, <1>i, <2>1, <2>2, <3>1, <3>2, <3>3, <3>4, <3>5, SMT, ZenonT(60) DEF Weaker
    <3>8. ~ch[l[1]].failed => \A g \in Frames(L[l].down) : ~NewCall(L2[l], ch[l[1]], g)
      <4>1. L2[l].missed = L[l].missed
        BY <1>0, <1>1, <2>3, <3>0 DEF SameLink
      <4> QED
        BY <3>6, <4>1 DEF NewCall
    <3>9. Protocol(L2[l], ch[l[1]], NoAsk)
      BY <1>f, <2>1, <3>1, <3>4, <3>7, <3>8, ProtocolCommits
    <3> QED
      BY <2>2, <3>9
  <2>4. CASE l \notin P
    <3>1. /\ L2[l].down = L[l].down /\ L2[l].epoch = L[l].epoch /\ L[l].missed \subseteq L2[l].missed
      BY <1>0, <1>1, <1>a, <2>4 DEF Adds, SameLink
    <3>2. Protocol(L2[l], ch[l[1]], Ask(p, l))
      BY <2>1, <3>1, ProtocolMisses
    <3>3. L2[l] \in LinkState
      BY DEF LinkTable
    <3> QED
      BY <2>2, <3>2, <3>3, ProtocolSame DEF SameLink, SameOp, Weaker
  <2> QED
    BY <2>3, <2>4
<1>8. CallsKnown(s2, L2, rt)
  BY <1>w, <1>f DEF All, CallsKnown
<1>9. RetiredIsOld(s2, L2, ch)
  <2>1. \A e \in Nat : Retired(s, e) => Retired(s2, e)
    BY <1>t, <1>r DEF Retired
  <2>2. \A c \in Children : ch[c].allowed \in Nat
    BY TypesOf DEF All, ChildState, Epochs
  <2>3. \A g \in OnTheWay(L) : g.t = "retire" => g.epoch \in Nat
    BY <1>t DEF DownFrame, Bye, Frame, Orders, Epochs
  <2> QED
    BY <1>w, <1>f, <2>1, <2>2, <2>3 DEF All, RetiredIsOld
<1>10. EpochsRun(s2, L2, ch)
  <2>1. \A l \in Links : \A g \in Frames(L[l].up) : g.t = "hello" => g.epoch \in Nat
    BY <1>t, SMTT(30) DEF LinkState, Frames, UpFrame, Bye, Frame, Epochs
  <2>2. \A n \in Nat : n <= s.cur => n <= s2.cur
    BY <1>t, <1>r
  <2> QED
    BY <1>u, <2>1, <2>2 DEF All, EpochsRun
<1>11. Missed(s2, L2)
  <2> SUFFICES ASSUME NEW l \in Links PROVE MissedIn(s2, L2[l])
    BY DEF Missed
  <2>1. /\ L[l].missed \subseteq s.ran /\ L1[l].missed = L[l].missed /\ L1[l].epoch = L[l].epoch /\ L2[l].synced = L[l].synced
        /\ L[l].synced => L[l].server = "open" /\ \A e \in s.ran : e <= L[l].epoch \/ e \in L[l].missed
    BY <1>0, <1>1 DEF All, Missed, MissedIn, ServerEnds, SameLink
  <2>2. L2[l].missed \subseteq s2.ran
    BY <1>1, <2>1
  <2>3. ASSUME L[l].synced, NEW e \in s2.ran PROVE e <= L2[l].epoch \/ e \in L2[l].missed
    <3>1. CASE l \in P
      <4>1. L2[l].epoch = p.epoch
        BY <1>1, <2>1, <2>3, <3>1
      <4> QED
        BY <1>r, <1>t, <2>3, <4>1
    <3>2. CASE l \notin P
      BY <1>1, <2>1, <2>3, <3>2
    <3> QED
      BY <3>1, <3>2
  <2> QED
    BY <2>1, <2>2, <2>3 DEF MissedIn
<1> QED
  BY <1>2, <1>3, <1>4, <1>5, <1>6, <1>7, <1>8, <1>9, <1>10, <1>11 DEF All

-----------------------------------------------------------------------------
(* Steps of the server about one link.                                     *)

\* What the server does about one link: the obligations of every such step.
LEMMA LinkStep ==
  ASSUME NEW s, NEW p, NEW L, NEW ch, NEW rt, All(s, p, L, ch, rt),
         NEW l \in Links, NEW L2 \in LinkTable, \A m \in Links \ {l} : L2[m] = L[m],
         NEW s2 \in ServerState, s2.cur = s.cur, s2.prev = s.prev, s2.seq = s.seq, s2.ran = s.ran,
         s2.ids \in {s.ids, s.ids + 1},
         NEW p2 \in PassState, p2.phase = p.phase, p2.local = p.local, p2.id = p.id, p2.epoch = p.epoch,
         DOMAIN p2.vote = DOMAIN p.vote, \A m \in Links \ {l} : Weaker(Ask(p, m), Ask(p2, m)),
         L2[l].child = L[l].child, L[l].child # "new",
         L2[l].server = "open" /\ L2[l].down # <<>> => OpenIn(L2, l),
         L2[l].synced => L2[l].server = "open" /\ L2[l].sync = NoSync,
         L2[l].sync # NoSync => L2[l].server = "open" /\ L2[l].sync.id # 0,
         l \in DOMAIN p.vote /\ L2[l].server = "open" => L2[l].synced,
         \A f \in Frames(L2[l].down) : f \in Frames(L[l].down) \/ f.t = "bye"
             \/ (f.t = "prepare" /\ s2.ids = s.ids + 1 /\ f.id = s2.ids /\ f.epoch = s.cur)
             \/ (f.t = "commit" /\ f.id <= s.ids /\ \A e \in Epochs : Offered(p, L, ch, f.id, e) => e \in s.ran)
             \/ (f.t = "abort" /\ f.id <= s.ids),
         L2[l].sync # NoSync => L2[l].sync = L[l].sync \/ (s2.ids = s.ids + 1 /\ L2[l].sync.id = s2.ids /\ L2[l].sync.epoch = s.cur),
         Frames(L2[l].up) \subseteq Frames(L[l].up), FirstHello(L2[l]), MissedIn(s, L2[l]),
         OpenIn(L2, l) => Protocol(L2[l], ch[l[1]], Ask(p2, l))
  PROVE  All(s2, p2, L2, ch, rt)
<1>t. L \in LinkTable /\ s.ids \in Nat /\ \A m \in Links : L[m] \in LinkState
  BY TypesOf DEF All
<1>1. Types(s2, p2, L2, ch, rt)
  BY DEF All, Types, LinkTable, ServerState
<1>2. EpochsRise(s2, p2)
  BY DEF All, EpochsRise
<1>3. OneUpstream(L2)
  <2>1. \A m \in Links : L2[m].child = L[m].child
    OBVIOUS
  <2>2. \A c \in Children : {m \in LinksOf(c) : L2[m].child # "new"} = {m \in LinksOf(c) : L[m].child # "new"}
    BY <2>1 DEF LinksOf
  <2>3. \A m \in Links : L2[m].server = "open" => L2[m].child # "new"
    BY DEF All, OneUpstream
  <2>4. \A m \in Links : L2[m].server = "open" /\ L2[m].down # <<>> => OpenIn(L2, m)
    BY DEF All, OneUpstream, OpenIn
  <2> QED
    BY <2>1, <2>2, <2>3, <2>4 DEF All, OneUpstream
<1>4. ServerEnds(L2, p2)
  <2>1. \A m \in DOMAIN p2.vote : L2[m].child # "new" /\ (L2[m].server = "open" => L2[m].synced)
    <3> TAKE m \in DOMAIN p2.vote
    <3>1. m \in DOMAIN p.vote /\ m \in Links
      BY TypesOf DEF All
    <3> QED
      BY <3>1 DEF All, ServerEnds
  <2>2. \A m \in Links : L2[m].synced => L2[m].server = "open" /\ L2[m].sync = NoSync
    BY DEF All, ServerEnds
  <2>3. \A m \in Links : L2[m].sync # NoSync => L2[m].server = "open" /\ L2[m].sync.id # 0
    BY DEF All, ServerEnds
  <2>4. \A m \in Links : FirstHello(L2[m])
    BY DEF All, ServerEnds
  <2> QED
    BY <2>1, <2>2, <2>3, <2>4 DEF ServerEnds
<1>5. \A f \in OnTheWay(L2) : f \in OnTheWay(L) \/ f \in Frames(L2[l].down)
  BY DEF OnTheWay
<1>6. \A f \in Frames(L2[l].down) : f \in Frames(L[l].down) => f \in OnTheWay(L)
  BY DEF OnTheWay
<1>7. OneEpochEach(s2, p2, L2, ch)
  <2>1. \A f \in OnTheWay(L2) : f \in OnTheWay(L) \/ f.t \notin Orders
          \/ (f.t = "prepare" /\ s2.ids = s.ids + 1 /\ f.id = s2.ids /\ f.epoch = s.cur)
          \/ (f.t = "commit" /\ f.id <= s.ids /\ \A e \in Epochs : Offered(p, L, ch, f.id, e) => e \in s2.ran)
          \/ (f.t = "abort" /\ f.id <= s.ids)
    BY <1>5, <1>6 DEF Orders
  <2>2. \A m \in Links : \A f \in Frames(L2[m].up) : f \in Frames(L[m].up)
    OBVIOUS
  <2>3. \A m \in Links : L2[m].sync # NoSync => \/ L2[m].sync = L[m].sync
                                                \/ s2.ids = s.ids + 1 /\ L2[m].sync.id = s2.ids /\ L2[m].sync.epoch = s.cur
    OBVIOUS
  <2>4. Offers(s, s2, s.cur, p, p2, L, L2, ch, ch)
    BY <2>1, <2>2, <2>3, Offering DEF Offers
  <2> QED
    BY <1>t, <2>4, OffersStep DEF All
<1>8. Protocols(p2, L2, ch)
  <2> SUFFICES ASSUME NEW m \in Links, OpenIn(L2, m), m # l PROVE Protocol(L2[m], ch[m[1]], Ask(p2, m))
    BY DEF Protocols
  <2>1. L2[m] = L[m] /\ OpenIn(L, m)
    BY DEF OpenIn
  <2>2. Protocol(L[m], ch[m[1]], Ask(p, m)) /\ L[m] \in LinkState
    BY <1>t, <2>1 DEF All, Protocols
  <2> QED
    BY <2>1, <2>2, ProtocolSame DEF SameLink, SameOp
<1>9. CallsKnown(s2, L2, rt) /\ RetiredIsOld(s2, L2, ch)
  BY <1>5, <1>6 DEF All, CallsKnown, RetiredIsOld, Retired
<1>10. EpochsRun(s2, L2, ch)
  <2>1. \A m \in Links : \A f \in Frames(L2[m].up) : f \in Frames(L[m].up)
    OBVIOUS
  <2> QED
    BY <2>1 DEF All, EpochsRun
<1>11. Missed(s2, L2)
  <2>1. \A m \in Links : MissedIn(s, L2[m])
    BY DEF All, Missed
  <2> QED
    BY <2>1 DEF Missed, MissedIn
<1> QED
  BY <1>1, <1>2, <1>3, <1>4, <1>7, <1>8, <1>9, <1>10, <1>11 DEF All

\* What a link missed stays so, while it is taken for in step.
LEMMA MissedSame ==
  ASSUME NEW s, NEW k, NEW k2, MissedIn(s, k), k2.missed = k.missed, k2.epoch = k.epoch \/ ~k2.synced,
         k2.synced => k.synced
  PROVE  MissedIn(s, k2)
  BY DEF MissedIn

\* A link that is taken to run the server's epoch has missed nothing.
LEMMA MissedNone ==
  ASSUME NEW s, NEW p, NEW L, NEW ch, NEW rt, All(s, p, L, ch, rt), NEW k, NEW k2, MissedIn(s, k),
         k2.missed = k.missed, k2.epoch = s.cur
  PROVE  MissedIn(s, k2)
<1>1. s.cur \in Nat /\ s.ran \subseteq 1 .. s.cur
  BY TypesOf DEF All, EpochsRise
<1> QED
  BY <1>1 DEF MissedIn

\* What the invariant says of one link.
LEMMA LinkFacts ==
  ASSUME NEW s, NEW p, NEW L, NEW ch, NEW rt, All(s, p, L, ch, rt), NEW l \in Links
  PROVE  /\ L[l] \in LinkState /\ l[1] \in Children /\ ch[l[1]] \in ChildState /\ s.ids \in Nat
         /\ OpenIn(L, l) => Protocol(L[l], ch[l[1]], Ask(p, l))
         /\ L[l].server = "open" => L[l].child # "new" /\ (L[l].down # <<>> => OpenIn(L, l))
         /\ L[l].synced => L[l].server = "open" /\ L[l].sync = NoSync
         /\ L[l].sync # NoSync => /\ L[l].server = "open" /\ ~L[l].synced
                                  /\ L[l].sync.id # 0 /\ L[l].sync.id \in Nat /\ L[l].sync.id <= s.ids
         /\ l \in DOMAIN p.vote /\ L[l].server = "open" => L[l].synced
         /\ L[l].server = "open" /\ ~L[l].synced => Ask(p, l) = NoAsk
         /\ FirstHello(L[l])
         /\ \A f \in Frames(L[l].down) : f.t \in Orders => f.id \in Nat /\ f.id <= s.ids
         /\ \A f \in Frames(L[l].up) : f.t = "vote" => f.id \in Nat /\ f.id <= s.ids
         /\ ch[l[1]].op.id \in Nat /\ ch[l[1]].op.id <= s.ids
         /\ MissedIn(s, L[l])
<1>1. L[l] \in LinkState /\ l[1] \in Children /\ ch[l[1]] \in ChildState /\ s.ids \in Nat
  BY TypesOf, LinkChild DEF All
<1>2. OpenIn(L, l) => Protocol(L[l], ch[l[1]], Ask(p, l))
  BY DEF All, Protocols
<1>3. L[l].server = "open" => L[l].child # "new" /\ (L[l].down # <<>> => OpenIn(L, l))
  BY DEF All, OneUpstream
<1>4. /\ L[l].synced => L[l].server = "open" /\ L[l].sync = NoSync
      /\ L[l].sync # NoSync => L[l].server = "open" /\ ~L[l].synced /\ L[l].sync.id # 0
      /\ l \in DOMAIN p.vote /\ L[l].server = "open" => L[l].synced
      /\ FirstHello(L[l])
  BY DEF All, ServerEnds
<1>5. L[l].server = "open" /\ ~L[l].synced => Ask(p, l) = NoAsk
  BY <1>4 DEF Ask
<1>6. L[l].sync # NoSync => L[l].sync.id \in Nat /\ L[l].sync.id <= s.ids
  <2>1. L[l].sync.id \in Nat /\ L[l].sync.epoch \in Epochs
    BY <1>1 DEF LinkState
  <2> QED
    BY <2>1, Offering DEF All, OneEpochEach
<1>7. \A f \in Frames(L[l].down) : f.t \in Orders => f.id \in Nat /\ f.id <= s.ids
  <2>1. \A f \in Frames(L[l].down) : f \in OnTheWay(L)
    BY DEF OnTheWay
  <2>2. \A f \in Frames(L[l].down) : f \in DownFrame
    BY <2>1, TypesOf DEF All
  <2> QED
    BY <2>1, <2>2, OrderIds DEF All, OneEpochEach
<1>8. \A f \in Frames(L[l].up) : f.t = "vote" => f.id \in Nat /\ f.id <= s.ids
  <2>1. \A f \in Frames(L[l].up) : f \in UpFrame
    BY <1>1 DEF LinkState, Frames
  <2> QED
    BY <2>1, VoteFrames DEF All, OneEpochEach
<1>9. ch[l[1]].op.id \in Nat /\ ch[l[1]].op.id <= s.ids
  <2>1. ch[l[1]].op.id \in Nat /\ ch[l[1]].op.epoch \in Epochs
    BY <1>1 DEF ChildState, OpState
  <2>2. CASE ch[l[1]].op.state = "none"
    BY <1>1, <2>2 DEF All, Staging, Stage, NoOp
  <2>3. CASE ch[l[1]].op.state # "none"
    BY <1>1, <2>1, <2>3, Offering DEF All, OneEpochEach
  <2> QED
    BY <2>1, <2>2, <2>3
<1>10. MissedIn(s, L[l])
  BY DEF All, Missed
<1> QED
  BY <1>1, <1>2, <1>3, <1>4, <1>5, <1>6, <1>7, <1>8, <1>9, <1>10

\* The first frame is read; the epoch a hello tells is noted.
Reads(k, k2) ==
    /\ SameEnds(k, k2) /\ k2.up = Tail(k.up) /\ k2.down = k.down /\ k2.sync = k.sync /\ k2.missed = k.missed
    /\ IF Head(k.up).t = "hello" THEN k2.epoch = Head(k.up).epoch ELSE k2.synced = k.synced /\ k2.epoch = k.epoch
\* An awaited vote is counted.
Counts(p, p2, l, f) ==
    \/ p2 = p
    \/ /\ f.t = "vote" /\ p.phase = "preparing" /\ p.id = f.id /\ l \in DOMAIN p.vote /\ p.vote[l] = "wait"
       /\ p2.phase = p.phase /\ p2.local = p.local /\ p2.id = p.id /\ p2.epoch = p.epoch
       /\ p2.vote = [p.vote EXCEPT ![l] = f.vote]

\* The server reads a frame: a hello tells it the child's epoch, a vote may be counted.
LEMMA ReadStep ==
  ASSUME NEW s, NEW p, NEW L, NEW ch, NEW rt, All(s, p, L, ch, rt),
         NEW l \in Links, L[l].server = "open", L[l].up # <<>>,
         NEW L2 \in LinkTable, \A m \in Links \ {l} : L2[m] = L[m], Reads(L[l], L2[l]),
         Head(L[l].up).t = "hello" /\ L2[l].synced => L2[l].epoch = s.cur,
         NEW p2 \in PassState, Counts(p, p2, l, Head(L[l].up))
  PROVE  All(s, p2, L2, ch, rt)
<1> DEFINE f == Head(L[l].up)
<1>0. /\ SameEnds(L[l], L2[l]) /\ L2[l].up = Tail(L[l].up) /\ L2[l].down = L[l].down /\ L2[l].sync = L[l].sync
      /\ f = Head(L[l].up) /\ L2[l].missed = L[l].missed
      /\ \/ f.t = "hello" /\ p2 = p /\ L2[l].epoch = f.epoch
         \/ /\ f.t # "hello" /\ L2[l].synced = L[l].synced /\ L2[l].epoch = L[l].epoch
            /\ \/ p2 = p
               \/ /\ f.t = "vote" /\ p.phase = "preparing" /\ p.id = f.id /\ l \in DOMAIN p.vote /\ p.vote[l] = "wait"
                  /\ p2.phase = p.phase /\ p2.local = p.local /\ p2.id = p.id /\ p2.epoch = p.epoch
                  /\ p2.vote = [p.vote EXCEPT ![l] = f.vote]
  BY DEF Reads, Counts
<1> HIDE DEF f
<1>1. /\ L[l] \in LinkState /\ (OpenIn(L, l) => Protocol(L[l], ch[l[1]], Ask(p, l)))
      /\ L[l].child # "new" /\ (L[l].down # <<>> => OpenIn(L, l))
      /\ L[l].synced => L[l].server = "open" /\ L[l].sync = NoSync
      /\ L[l].sync # NoSync => L[l].server = "open" /\ ~L[l].synced /\ L[l].sync.id # 0
      /\ l \in DOMAIN p.vote => L[l].synced
      /\ FirstHello(L[l]) /\ MissedIn(s, L[l])
  BY LinkFacts
<1>2. L[l].up \in Seq(UpFrame)
  BY <1>1 DEF LinkState
<1>3. /\ f = L[l].up[1] /\ 1 \in DOMAIN L[l].up /\ f \in Frames(L[l].up)
      /\ Frames(L2[l].up) \subseteq Frames(L[l].up)
      /\ \A n \in DOMAIN L2[l].up : n + 1 \in DOMAIN L[l].up /\ L2[l].up[n] = L[l].up[n + 1] /\ n + 1 # 1
  BY <1>0, <1>2, TailIs
<1>4. FirstHello(L2[l])
  BY <1>0, <1>1, <1>3 DEF FirstHello
<1>5. f.t = "hello" => ~L[l].synced /\ L[l].sync = NoSync /\ l \notin DOMAIN p.vote
  BY <1>0, <1>1, <1>3 DEF FirstHello
<1>6. /\ p2.phase = p.phase /\ p2.local = p.local /\ p2.id = p.id /\ p2.epoch = p.epoch
      /\ DOMAIN p2.vote = DOMAIN p.vote /\ \A m \in Links \ {l} : Weaker(Ask(p, m), Ask(p2, m))
  BY <1>0, <1>5 DEF Weaker, Ask
<1>7. L2[l].child = L[l].child /\ L2[l].server = "open" /\ (OpenIn(L2, l) <=> OpenIn(L, l))
  BY <1>0 DEF SameEnds, OpenIn
<1>8. ASSUME OpenIn(L2, l) PROVE Protocol(L2[l], ch[l[1]], Ask(p2, l))
  <2>1. Protocol(L[l], ch[l[1]], Ask(p, l))
    BY <1>1, <1>7, <1>8
  <2>2. CASE f.t = "hello"
    BY <1>0, <1>1, <2>1, <2>2, ProtocolJoins
  <2>3. CASE f.t # "hello" /\ p2 = p
    BY <1>0, <1>1, <2>1, <2>3, ProtocolReads DEF Weaker
  <2>4. CASE f.t # "hello" /\ p2 # p
    <3>1. Ask(p, l).id = p.id /\ Ask(p, l).vote = "wait" /\ Ask(p2, l).id = p.id /\ Ask(p2, l).vote = f.vote
      BY <1>0, <1>6, <2>4 DEF Ask, PassState
    <3> QED
      BY <1>0, <1>1, <2>1, <2>4, <3>1, ProtocolReads, SMT, ZenonT(60)
  <2> QED
    BY <2>2, <2>3, <2>4
<1>9. /\ s \in ServerState /\ L2[l].synced => L2[l].sync = NoSync
      /\ s \in ServerState /\ (L2[l].sync # NoSync => L2[l].sync.id # 0)
      /\ s.ids \in {s.ids, s.ids + 1}
      /\ l \in DOMAIN p.vote => L2[l].synced
  BY <1>0, <1>1, <1>5 DEF All, Types, ServerState
<1>10. MissedIn(s, L2[l])
  <2>1. CASE f.t = "hello" /\ L2[l].synced
    BY <1>0, <1>1, <2>1, MissedNone
  <2>2. CASE ~(f.t = "hello" /\ L2[l].synced)
    BY <1>0, <1>1, <2>2, MissedSame
  <2> QED
    BY <2>1, <2>2
<1> QED
  BY <1>0, <1>1, <1>3, <1>4, <1>6, <1>7, <1>8, <1>9, <1>10, LinkStep

\* The server closes its end: what it awaited of that link is no.
Lost(p, l) == [p EXCEPT !.vote = [m \in DOMAIN @ |-> IF m = l /\ @[m] = "wait" THEN "no" ELSE @[m]]]

\* The votes after a link is closed.
LEMMA LostIs ==
  ASSUME NEW p \in PassState, NEW l
  PROVE  /\ Lost(p, l) \in PassState
         /\ Lost(p, l).phase = p.phase /\ Lost(p, l).local = p.local
         /\ Lost(p, l).id = p.id /\ Lost(p, l).epoch = p.epoch
         /\ DOMAIN Lost(p, l).vote = DOMAIN p.vote
         /\ \A m \in DOMAIN p.vote : m # l => Lost(p, l).vote[m] = p.vote[m]
<1> DEFINE v == [m \in DOMAIN p.vote |-> IF m = l /\ p.vote[m] = "wait" THEN "no" ELSE p.vote[m]]
<1>1. Lost(p, l) = [p EXCEPT !.vote = v]
  BY DEF Lost
<1>2. PICK P \in SUBSET Links : p.vote \in [P -> Votes]
  BY DEF PassState
<1>3. v \in [P -> Votes]
  BY <1>2 DEF Votes
<1>4. v \in UNION {[Q -> Votes] : Q \in SUBSET Links}
  BY <1>3
<1>5. DOMAIN v = DOMAIN p.vote /\ \A m \in DOMAIN p.vote : m # l => v[m] = p.vote[m]
  OBVIOUS
<1> HIDE DEF v
<1> QED
  BY <1>1, <1>4, <1>5 DEF PassState

\* The server closes its end of a link.
LEMMA CloseStep ==
  ASSUME NEW s, NEW p, NEW L, NEW ch, NEW rt, All(s, p, L, ch, rt), NEW l \in Links, L[l].server = "open"
  PROVE  All(s, Lost(p, l), CloseServerEnd(L, l), ch, rt)
<1> DEFINE L2 == CloseServerEnd(L, l)
           p2 == Lost(p, l)
<1>1. L[l] \in LinkState /\ L[l].child # "new" /\ L \in LinkTable /\ p \in PassState /\ s \in ServerState
  <2>1. L[l] \in LinkState /\ L[l].child # "new"
    BY LinkFacts
  <2>2. Types(s, p, L, ch, rt)
    BY DEF All
  <2>3. L \in LinkTable /\ p \in PassState
    BY <2>2, TypesOf
  <2>4. s \in ServerState
    BY <2>2 DEF Types
  <2> QED
    BY <2>1, <2>3, <2>4
<1>2. /\ L2 \in LinkTable /\ \A m \in Links \ {l} : L2[m] = L[m]
      /\ L2[l].server = "closed" /\ L2[l].child = L[l].child /\ L2[l].up = <<>> /\ ~L2[l].synced /\ L2[l].sync = NoSync
      /\ L2[l].missed = {}
      /\ L2[l].down = IF OpenIn(L, l) THEN L[l].down \o <<Bye>> ELSE L[l].down
  BY <1>1, CloseServerEndIs
<1>3. /\ p2 \in PassState /\ p2.phase = p.phase /\ p2.local = p.local /\ p2.id = p.id /\ p2.epoch = p.epoch
      /\ DOMAIN p2.vote = DOMAIN p.vote /\ \A m \in DOMAIN p.vote : m # l => p2.vote[m] = p.vote[m]
  BY <1>1, LostIs
<1> HIDE DEF L2, p2
<1>4. \A m \in Links \ {l} : Weaker(Ask(p, m), Ask(p2, m))
  BY <1>3 DEF Weaker, Ask
<1>5. Frames(L2[l].down) \subseteq Frames(L[l].down) \cup {Bye}
  <2>1. L[l].down \in Seq(DownFrame) /\ Bye \in DownFrame
    BY <1>1, FrameTypes DEF LinkState
  <2> QED
    BY <1>2, <2>1, AppendIs
<1>6. \A f \in Frames(L2[l].down) : f \in Frames(L[l].down) \/ f.t = "bye"
  BY <1>5, FrameTypes
<1>7. Frames(L2[l].up) = {} /\ FirstHello(L2[l]) /\ ~OpenIn(L2, l) /\ s.ids \in {s.ids, s.ids + 1}
      /\ L2[l].server # "open" /\ MissedIn(s, L2[l])
  BY <1>2, FramesOfEmpty DEF FirstHello, OpenIn, MissedIn
<1>8. All(s, p2, L2, ch, rt)
  BY <1>1, <1>2, <1>3, <1>4, <1>6, <1>7, LinkStep
<1> QED
  BY <1>8 DEF L2, p2

\* The server offers a child that is behind the epoch it runs.
LEMMA ReconcileStep ==
  ASSUME NEW s, NEW p, NEW L, NEW ch, NEW rt, All(s, p, L, ch, rt),
         NEW l \in Links, L[l].server = "open", ~L[l].synced, \A n \in DOMAIN L[l].up : L[l].up[n].t # "hello",
         NEW s2 \in ServerState, s2.cur = s.cur, s2.prev = s.prev, s2.seq = s.seq, s2.ran = s.ran, s2.ids = s.ids + 1,
         NEW L2 \in LinkTable, \A m \in Links \ {l} : L2[m] = L[m], SameEnds(L[l], L2[l]), SameLink(L[l], L2[l]),
         L2[l].down = IF OpenIn(L, l) THEN L[l].down \o <<Frame("prepare", s.ids + 1, s.cur)>> ELSE L[l].down,
         L2[l].sync = [id |-> s.ids + 1, epoch |-> s.cur]
  PROVE  All(s2, p, L2, ch, rt)
<1> DEFINE f == Frame("prepare", s.ids + 1, s.cur)
<1>1. /\ L[l] \in LinkState /\ (OpenIn(L, l) => Protocol(L[l], ch[l[1]], Ask(p, l)))
      /\ L[l].child # "new" /\ (L[l].down # <<>> => OpenIn(L, l)) /\ s.ids \in Nat
      /\ l \notin DOMAIN p.vote /\ Ask(p, l) = NoAsk
      /\ \A g \in Frames(L[l].down) : g.t \in Orders => g.id \in Nat /\ g.id <= s.ids
      /\ \A g \in Frames(L[l].up) : g.t = "vote" => g.id \in Nat /\ g.id <= s.ids
      /\ ch[l[1]].op.id \in Nat /\ ch[l[1]].op.id <= s.ids /\ MissedIn(s, L[l])
  BY LinkFacts
<1>2. f \in DownFrame /\ f.t = "prepare" /\ f.id = s.ids + 1 /\ f.epoch = s.cur /\ p \in PassState
  <2>1. s.cur \in Epochs /\ s.ids + 1 \in Nat \ {0} /\ p \in PassState
    BY <1>1, TypesOf DEF All
  <2> QED
    BY <2>1, FrameTypes DEF Orders, Frame
<1>3. L2[l].down = IF OpenIn(L, l) THEN L[l].down \o <<f>> ELSE L[l].down
  OBVIOUS
<1> HIDE DEF f
<1>4. Frames(L2[l].down) \subseteq Frames(L[l].down) \cup {f}
  <2>1. L[l].down \in Seq(DownFrame)
    BY <1>1 DEF LinkState
  <2> QED
    BY <1>2, <1>3, <2>1, AppendIs
<1>5. \A g \in Frames(L2[l].down) : g \in Frames(L[l].down) \/ (g.t = "prepare" /\ s2.ids = s.ids + 1 /\ g.id = s2.ids /\ g.epoch = s.cur)
  BY <1>2, <1>4
<1>6. /\ L2[l].child = L[l].child /\ L2[l].server = "open" /\ (OpenIn(L2, l) <=> OpenIn(L, l))
      /\ L2[l].up = L[l].up /\ ~L2[l].synced /\ MissedIn(s, L2[l])
  BY <1>1, MissedSame DEF SameEnds, OpenIn, SameLink
<1>7. /\ L2[l].sync.id = s.ids + 1 /\ L2[l].sync.epoch = s.cur /\ L2[l].sync.id # 0 /\ s2.ids \in {s.ids, s.ids + 1}
      /\ Frames(L2[l].up) \subseteq Frames(L[l].up) /\ FirstHello(L2[l])
      /\ L2[l].down # <<>> => OpenIn(L2, l)
  BY <1>1, <1>3, <1>6 DEF FirstHello
<1>8. ASSUME OpenIn(L2, l) PROVE Protocol(L2[l], ch[l[1]], Ask(p, l))
  <2>1. Protocol(L[l], ch[l[1]], NoAsk) /\ L2[l].down = L[l].down \o <<f>>
    BY <1>1, <1>3, <1>6, <1>8
  <2>2. /\ \A g \in Frames(L[l].down) : g.t \in Orders => g.id # f.id
        /\ \A g \in Frames(L[l].up) : g.t = "vote" => g.id # f.id
        /\ ch[l[1]].op.id # f.id
    <3>1. \A i \in Nat : i <= s.ids => i # s.ids + 1
      BY <1>1
    <3> QED
      BY <1>1, <1>2, <3>1
  <2>3. L2[l].sync.id \in {L[l].sync.id, f.id} /\ Weaker(NoAsk, NoAsk) /\ NoAsk.id # f.id
    BY <1>1, <1>2, <1>7 DEF Weaker, NoAsk
  <2>4. Protocol(L2[l], ch[l[1]], NoAsk)
    BY <1>1, <1>2, <2>1, <2>2, <2>3, ProtocolOffers
  <2> QED
    BY <1>1, <2>4
<1>9. \A m \in Links \ {l} : Weaker(Ask(p, m), Ask(p, m))
  BY DEF Weaker, Ask, NoAsk
<1> QED
  BY <1>1, <1>2, <1>5, <1>6, <1>7, <1>8, <1>9, LinkStep

\* The server moved on: it calls the reload of the child off.
LEMMA UnaskStep ==
  ASSUME NEW s, NEW p, NEW L, NEW ch, NEW rt, All(s, p, L, ch, rt), NEW l \in Links, L[l].sync # NoSync,
         NEW L2 \in LinkTable, \A m \in Links \ {l} : L2[m] = L[m], SameEnds(L[l], L2[l]), SameLink(L[l], L2[l]),
         L2[l].down = IF OpenIn(L, l) THEN L[l].down \o <<Frame("abort", L[l].sync.id, 0)>> ELSE L[l].down,
         L2[l].sync = NoSync
  PROVE  All(s, p, L2, ch, rt)
<1> DEFINE f == Frame("abort", L[l].sync.id, 0)
<1>1. /\ L[l] \in LinkState /\ (OpenIn(L, l) => Protocol(L[l], ch[l[1]], Ask(p, l)))
      /\ L[l].server = "open" /\ ~L[l].synced /\ L[l].sync.id # 0 /\ L[l].sync.id \in Nat /\ L[l].sync.id <= s.ids
      /\ L[l].child # "new" /\ (L[l].down # <<>> => OpenIn(L, l)) /\ s.ids \in Nat
      /\ l \notin DOMAIN p.vote /\ Ask(p, l) = NoAsk /\ FirstHello(L[l]) /\ MissedIn(s, L[l])
  BY LinkFacts
<1>2. f \in DownFrame /\ f.t = "abort" /\ f.id = L[l].sync.id
  BY <1>1, Zero, FrameTypes DEF Orders, Frame
<1>3. L2[l].down = IF OpenIn(L, l) THEN L[l].down \o <<f>> ELSE L[l].down
  OBVIOUS
<1> HIDE DEF f
<1>4. Frames(L2[l].down) \subseteq Frames(L[l].down) \cup {f}
  <2>1. L[l].down \in Seq(DownFrame)
    BY <1>1 DEF LinkState
  <2> QED
    BY <1>2, <1>3, <2>1, AppendIs
<1>5. \A g \in Frames(L2[l].down) : g \in Frames(L[l].down) \/ (g.t = "abort" /\ g.id <= s.ids)
  BY <1>1, <1>2, <1>4
<1>6. /\ L2[l].child = L[l].child /\ L2[l].server = "open" /\ (OpenIn(L2, l) <=> OpenIn(L, l))
      /\ L2[l].up = L[l].up /\ ~L2[l].synced /\ MissedIn(s, L2[l])
  BY <1>1, MissedSame DEF SameEnds, OpenIn, SameLink
<1>7. /\ s.ids \in {s.ids, s.ids + 1} /\ s \in ServerState /\ p \in PassState
      /\ Frames(L2[l].up) \subseteq Frames(L[l].up) /\ FirstHello(L2[l])
      /\ L2[l].down # <<>> => OpenIn(L2, l)
  BY <1>1, <1>3, <1>6 DEF FirstHello, All, Types, ServerState
<1>8. ASSUME OpenIn(L2, l) PROVE Protocol(L2[l], ch[l[1]], Ask(p, l))
  <2>1. Protocol(L[l], ch[l[1]], NoAsk) /\ L2[l].down = L[l].down \o <<f>>
    BY <1>1, <1>3, <1>6, <1>8
  <2>3. /\ Weaker(NoAsk, NoAsk) /\ f.id \in {L[l].sync.id, NoAsk.id} /\ f.id \notin {L2[l].sync.id, NoAsk.id}
        /\ L2[l].sync \in {L[l].sync, NoSync} /\ (L[l].synced \/ L[l].sync # NoSync)
    BY <1>1, <1>2 DEF Weaker, NoAsk, NoSync
  <2>4. Protocol(L2[l], ch[l[1]], NoAsk)
    BY <1>1, <1>2, <2>1, <2>3, ProtocolAborts
  <2> QED
    BY <1>1, <2>4
<1>9. \A m \in Links \ {l} : Weaker(Ask(p, m), Ask(p, m))
  BY DEF Weaker, Ask, NoAsk
<1> QED
  BY <1>1, <1>5, <1>6, <1>7, <1>8, <1>9, LinkStep

\* The child has prepared the server's epoch: the server commits it and may use it.
LEMMA SyncStep ==
  ASSUME NEW s, NEW p, NEW L, NEW ch, NEW rt, All(s, p, L, ch, rt), NEW l \in Links,
         L[l].sync # NoSync, L[l].sync.epoch = s.cur, \A n \in DOMAIN L[l].up : L[l].up[n].t # "hello",
         OpenIn(L, l) => ch[l[1]].op.id = L[l].sync.id /\ ch[l[1]].op.state = "prepared",
         NEW L2 \in LinkTable, \A m \in Links \ {l} : L2[m] = L[m], SameEnds(L[l], L2[l]), L2[l].up = L[l].up,
         L2[l].down = IF OpenIn(L, l) THEN L[l].down \o <<Frame("commit", L[l].sync.id, 0)>> ELSE L[l].down,
         L2[l].synced, L2[l].epoch = s.cur, L2[l].sync = NoSync, L2[l].missed = L[l].missed
  PROVE  All(s, p, L2, ch, rt)
<1> DEFINE f == Frame("commit", L[l].sync.id, 0)
<1>1. /\ L[l] \in LinkState /\ (OpenIn(L, l) => Protocol(L[l], ch[l[1]], Ask(p, l)))
      /\ L[l].server = "open" /\ ~L[l].synced /\ L[l].sync.id # 0 /\ L[l].sync.id \in Nat /\ L[l].sync.id <= s.ids
      /\ L[l].child # "new" /\ (L[l].down # <<>> => OpenIn(L, l)) /\ s.ids \in Nat
      /\ l \notin DOMAIN p.vote /\ Ask(p, l) = NoAsk /\ l[1] \in Children /\ ch[l[1]] \in ChildState
      /\ MissedIn(s, L[l])
  BY LinkFacts
<1>2. f \in DownFrame /\ f.t = "commit" /\ f.id = L[l].sync.id
  BY <1>1, Zero, FrameTypes DEF Orders, Frame
<1>3. L2[l].down = IF OpenIn(L, l) THEN L[l].down \o <<f>> ELSE L[l].down
  OBVIOUS
<1> HIDE DEF f
<1>4. Frames(L2[l].down) \subseteq Frames(L[l].down) \cup {f}
  <2>1. L[l].down \in Seq(DownFrame)
    BY <1>1 DEF LinkState
  <2> QED
    BY <1>2, <1>3, <2>1, AppendIs
<1>c. \A e \in Epochs : Offered(p, L, ch, f.id, e) => e = s.cur
  <2>1. Offered(p, L, ch, f.id, s.cur) /\ s.cur \in Epochs
    BY <1>2, Offering, TypesOf DEF All
  <2> QED
    BY <1>1, <1>2, <2>1 DEF All, OneEpochEach
<1>5. \A g \in Frames(L2[l].down) : g \in Frames(L[l].down)
         \/ (g.t = "commit" /\ g.id <= s.ids /\ \A e \in Epochs : Offered(p, L, ch, g.id, e) => e \in s.ran)
  <2>1. s.cur \in s.ran
    BY DEF All, EpochsRise
  <2> QED
    BY <1>1, <1>2, <1>4, <1>c, <2>1
<1>6. /\ L2[l].child = L[l].child /\ L2[l].server = "open" /\ (OpenIn(L2, l) <=> OpenIn(L, l))
      /\ MissedIn(s, L2[l])
  BY <1>1, MissedNone DEF SameEnds, OpenIn
<1>7. /\ s.ids \in {s.ids, s.ids + 1} /\ s \in ServerState /\ p \in PassState
      /\ Frames(L2[l].up) \subseteq Frames(L[l].up) /\ FirstHello(L2[l])
      /\ L2[l].down # <<>> => OpenIn(L2, l)
  BY <1>1, <1>3, <1>6 DEF FirstHello, All, Types, ServerState
<1>8. ASSUME OpenIn(L2, l) PROVE Protocol(L2[l], ch[l[1]], Ask(p, l))
  <2>1. Protocol(L[l], ch[l[1]], NoAsk) /\ L2[l].down = L[l].down \o <<f>>
    BY <1>1, <1>3, <1>6, <1>8
  <2>2. ch[l[1]].op.id = f.id /\ ch[l[1]].op.state = "prepared" /\ ch[l[1]].op.epoch = s.cur
    <3>1. ch[l[1]].op.id = f.id /\ ch[l[1]].op.state = "prepared"
      BY <1>2, <1>6, <1>8
    <3>2. Offered(p, L, ch, f.id, ch[l[1]].op.epoch) /\ ch[l[1]].op.epoch \in Epochs
      BY <1>1, <3>1, Offering DEF ChildState, OpState
    <3> QED
      BY <1>c, <3>1, <3>2
  <2>3. /\ Weaker(NoAsk, NoAsk) /\ f.id \in {L[l].sync.id, NoAsk.id} /\ f.id \notin {L2[l].sync.id, NoAsk.id}
        /\ L2[l].sync \in {L[l].sync, NoSync} /\ (L[l].synced \/ L[l].sync # NoSync)
    BY <1>1, <1>2 DEF Weaker, NoAsk, NoSync
  <2>4. \A g \in Frames(L[l].down) : ~NewCall(L2[l], ch[l[1]], g)
    BY <1>1, <2>1 DEF Protocol, NoCallsYet, NewCall
  <2>5. Protocol(L2[l], ch[l[1]], NoAsk)
    BY <1>1, <1>2, <2>1, <2>2, <2>3, <2>4, ProtocolCommits
  <2> QED
    BY <1>1, <2>5
<1>9. \A m \in Links \ {l} : Weaker(Ask(p, m), Ask(p, m))
  BY DEF Weaker, Ask, NoAsk
<1> QED
  BY <1>1, <1>5, <1>6, <1>7, <1>8, <1>9, LinkStep

-----------------------------------------------------------------------------
(* Steps of a child.                                                       *)

\* What a child hears and says can only be what is under way, and what it becomes keeps
\* to the protocol of its open link.
LEMMA ChildStep ==
  ASSUME NEW s, NEW p, NEW L, NEW ch, NEW rt, All(s, p, L, ch, rt),
         NEW c \in Children, NEW h2 \in ChildState,
         NEW L2 \in LinkTable, \A m \in Links \ LinksOf(c) : L2[m] = L[m],
         OneUpstream(L2), ServerEnds(L2, p),
         \A m \in LinksOf(c) : Frames(L2[m].down) \subseteq Frames(L[m].down),
         \A m \in LinksOf(c) : \A f \in Frames(L2[m].up) :
            \/ f \in Frames(L[m].up) \/ f.t \in {"result", "bye"}
            \/ f.t = "hello" /\ f.epoch <= s.cur
            \/ f.t = "vote" /\ f.id <= s.ids,
         \A m \in LinksOf(c) : L2[m].sync \in {L[m].sync, NoSync} /\ MissedIn(s, L2[m]),
         \A m \in LinksOf(c) : OpenIn(L2, m) => Protocol(L2[m], h2, Ask(p, m)),
         Stage(h2), {h2.cur, h2.prev} \subseteq s.ran \cup {0}, Retired(s, h2.allowed),
         h2.op.state # "none" => Offered(p, L, ch, h2.op.id, h2.op.epoch)
  PROVE  All(s, p, L2, [ch EXCEPT ![c] = h2], rt)
<1> DEFINE ch2 == [ch EXCEPT ![c] = h2]
<1>t. L \in LinkTable /\ s.ids \in Nat /\ \A m \in Links : L[m] \in LinkState
  BY TypesOf DEF All
<1>c. ch2 \in [Children -> ChildState] /\ ch2[c] = h2 /\ \A d \in Children \ {c} : ch2[d] = ch[d]
  BY DEF All, Types
<1> HIDE DEF ch2
<1>1. Types(s, p, L2, ch2, rt)
  BY <1>c DEF All, Types, LinkTable
<1>2. EpochsRise(s, p) /\ Staging(ch2)
  BY <1>c DEF All, Staging
<1>3. OnTheWay(L2) \subseteq OnTheWay(L)
  <2>1. \A m \in Links : Frames(L2[m].down) \subseteq Frames(L[m].down)
    OBVIOUS
  <2> QED
    BY <2>1 DEF OnTheWay
<1>4. \A m \in Links : \A f \in Frames(L2[m].up) :
            \/ f \in Frames(L[m].up) \/ f.t \in {"result", "bye"}
            \/ f.t = "hello" /\ f.epoch <= s.cur
            \/ f.t = "vote" /\ f.id <= s.ids
  OBVIOUS
<1>5. OneEpochEach(s, p, L2, ch2)
  <2>1. \A d \in Children : ch2[d].op.state # "none" => Offered(p, L, ch, ch2[d].op.id, ch2[d].op.epoch)
    BY <1>c, Offering
  <2>2. \A m \in Links : L2[m].sync # NoSync => L2[m].sync = L[m].sync
    OBVIOUS
  <2>3. \A m \in Links : \A f \in Frames(L2[m].up) : f.t = "vote" => f \in Frames(L[m].up) \/ f.id <= s.ids
    BY <1>4
  <2>4. Offers(s, s, 0, p, p, L, L2, ch, ch2)
    BY <1>3, <2>1, <2>2, <2>3 DEF Offers
  <2> QED
    BY <1>t, <2>4, OffersStep DEF All
<1>6. Protocols(p, L2, ch2)
  <2> SUFFICES ASSUME NEW m \in Links, OpenIn(L2, m) PROVE Protocol(L2[m], ch2[m[1]], Ask(p, m))
    BY DEF Protocols
  <2>1. CASE m[1] = c
    BY <1>c, <2>1 DEF LinksOf
  <2>2. CASE m[1] # c
    <3>1. L2[m] = L[m] /\ m[1] \in Children /\ OpenIn(L, m)
      BY <2>2, LinkChild DEF LinksOf, OpenIn
    <3> QED
      BY <1>c, <2>2, <3>1 DEF All, Protocols
  <2> QED
    BY <2>1, <2>2
<1>7. CallsKnown(s, L2, rt)
  BY <1>3 DEF All, CallsKnown
<1>8. RetiredIsOld(s, L2, ch2)
  BY <1>3, <1>c DEF All, RetiredIsOld
<1>9. EpochsRun(s, L2, ch2)
  <2>1. \A m \in Links : \A f \in Frames(L2[m].up) : f.t = "hello" => f \in Frames(L[m].up) \/ f.epoch <= s.cur
    BY <1>4
  <2> QED
    BY <1>c, <2>1 DEF All, EpochsRun
<1>10. Missed(s, L2)
  BY DEF All, Missed
<1>11. All(s, p, L2, ch2, rt)
  BY <1>1, <1>2, <1>5, <1>6, <1>7, <1>8, <1>9, <1>10 DEF All
<1> QED
  BY <1>11 DEF ch2

\* What a child may become as far as the others are concerned.
Fit(s, p, L, ch, h2) ==
    /\ h2 \in ChildState /\ Stage(h2) /\ {h2.cur, h2.prev} \subseteq s.ran \cup {0} /\ Retired(s, h2.allowed)
    /\ h2.op.state # "none" => Offered(p, L, ch, h2.op.id, h2.op.epoch)

\* What a child may become while its link goes on.
LEMMA FitNow ==
  ASSUME NEW s, NEW p, NEW L, NEW ch, NEW rt, All(s, p, L, ch, rt), NEW c \in Children
  PROVE  Fit(s, p, L, ch, ch[c])
<1>1. ch[c] \in ChildState
  BY TypesOf DEF All
<1> QED
  BY <1>1, Offering DEF All, Staging, EpochsRun, RetiredIsOld, Fit

\* The child changes, its links do not.
LEMMA AloneStep ==
  ASSUME NEW s, NEW p, NEW L, NEW ch, NEW rt, All(s, p, L, ch, rt), NEW c \in Children,
         NEW h2, Fit(s, p, L, ch, h2),
         \A m \in LinksOf(c) : /\ m \in Links /\ L[m].child = "open" /\ L[m] \in LinkState
                               /\ Protocol(L[m], ch[c], Ask(p, m))
                               => Protocol(L[m], h2, Ask(p, m))
  PROVE  All(s, p, L, [ch EXCEPT ![c] = h2], rt)
<1>1. L \in LinkTable /\ \A m \in Links : L[m] \in LinkState
  BY TypesOf DEF All
<1>2. \A m \in LinksOf(c) : m \in Links /\ m[1] = c
  BY DEF LinksOf
<1>3. \A m \in LinksOf(c) : OpenIn(L, m) => Protocol(L[m], h2, Ask(p, m))
  BY <1>1, <1>2 DEF All, Protocols, OpenIn
<1>4. OneUpstream(L) /\ ServerEnds(L, p) /\ \A m \in LinksOf(c) : MissedIn(s, L[m])
  BY <1>2 DEF All, Missed
<1> QED
  BY <1>1, <1>3, <1>4, ChildStep DEF Fit

\* The child reads a frame of its link, or sends one, or both.
Speaks(s, k, k2) ==
    \/ k2.up = k.up
    \/ \E g \in UpFrame : /\ k2.up = k.up \o <<g>> /\ g.t \in {"vote", "result"}
                          /\ g.t = "vote" => g.id <= s.ids

\* A child sends a frame or reads one.
LEMMA TalkStep ==
  ASSUME NEW s, NEW p, NEW L, NEW ch, NEW rt, All(s, p, L, ch, rt),
         NEW l \in Links, L[l].child = "open", NEW h2, Fit(s, p, L, ch, h2),
         NEW L2 \in LinkTable, \A m \in Links \ {l} : L2[m] = L[m],
         SameEnds(L[l], L2[l]), L2[l].synced = L[l].synced, L2[l].epoch = L[l].epoch, L2[l].sync = L[l].sync,
         L2[l].missed = L[l].missed, L2[l].down \in {L[l].down, Tail(L[l].down)}, L[l].down = <<>> => L2[l].down = <<>>,
         Speaks(s, L[l], L2[l]),
         OpenIn(L, l) /\ Protocol(L[l], ch[l[1]], Ask(p, l)) => Protocol(L2[l], h2, Ask(p, l))
  PROVE  All(s, p, L2, [ch EXCEPT ![l[1]] = h2], rt)
<1> DEFINE c == l[1]
<1>1. /\ L \in LinkTable /\ c \in Children /\ l \in LinksOf(c) /\ L[l] \in LinkState
      /\ (OpenIn(L, l) => Protocol(L[l], ch[c], Ask(p, l)))
      /\ (L[l].server = "open" => (L[l].down # <<>> => OpenIn(L, l))) /\ FirstHello(L[l])
      /\ \A m \in Links : L[m].server = "open" /\ L[m].down # <<>> => OpenIn(L, m)
  BY LinkFacts, LinkChild, TypesOf DEF All, OneUpstream
<1>2. Frames(L2[l].down) \subseteq Frames(L[l].down)
  <2>1. L[l].down \in Seq(DownFrame)
    BY <1>1 DEF LinkState
  <2> QED
    BY <2>1, TailIs
<1>3. /\ \A f \in Frames(L2[l].up) : f \in Frames(L[l].up) \/ f.t = "result" \/ (f.t = "vote" /\ f.id <= s.ids)
      /\ FirstHello(L2[l])
  <2>1. L[l].up \in Seq(UpFrame)
    BY <1>1 DEF LinkState
  <2>2. CASE L2[l].up = L[l].up
    BY <1>1, <2>2 DEF FirstHello
  <2>3. ASSUME NEW g \in UpFrame, L2[l].up = L[l].up \o <<g>>, g.t \in {"vote", "result"}, g.t = "vote" => g.id <= s.ids
        PROVE  <1>3!1 /\ <1>3!2
    <3>1. /\ Frames(L2[l].up) = Frames(L[l].up) \cup {g}
          /\ DOMAIN L2[l].up = DOMAIN L[l].up \cup {Len(L[l].up) + 1} /\ L2[l].up[Len(L[l].up) + 1] = g
          /\ \A n \in DOMAIN L[l].up : L2[l].up[n] = L[l].up[n]
      BY <2>1, <2>3, AppendIs
    <3> QED
      BY <1>1, <2>3, <3>1 DEF FirstHello
  <2> QED
    BY <2>2, <2>3 DEF Speaks
<1>4. \A m \in LinksOf(c) : m \in Links /\ m[1] = c
  BY DEF LinksOf
<1>5. \A m \in Links : m # l /\ m[1] = c => L[m].child # "open"
  BY <1>1 DEF All, OneUpstream
<1>6. OneUpstream(L2)
  <2>1. \A m \in Links : L2[m].server = L[m].server /\ L2[m].child = L[m].child /\ (OpenIn(L2, m) <=> OpenIn(L, m))
    BY DEF SameEnds, OpenIn
  <2>2. \A d \in Children : {m \in LinksOf(d) : L2[m].child # "new"} = {m \in LinksOf(d) : L[m].child # "new"}
    BY <2>1 DEF LinksOf
  <2>3. \A m \in Links : L2[m].server = "open" /\ L2[m].down # <<>> => OpenIn(L2, m)
    BY <1>1, <2>1
  <2> QED
    BY <2>1, <2>2, <2>3 DEF All, OneUpstream
<1>7. ServerEnds(L2, p)
  <2>1. \A m \in Links : L2[m].server = L[m].server /\ L2[m].child = L[m].child /\ L2[m].sync = L[m].sync /\ L2[m].synced = L[m].synced
    BY DEF SameEnds
  <2>2. \A m \in Links : FirstHello(L2[m])
    BY <1>3 DEF All, ServerEnds
  <2>3. \A m \in DOMAIN p.vote : L2[m].child # "new" /\ (L2[m].server = "open" => L2[m].synced)
    <3>1. DOMAIN p.vote \subseteq Links
      BY TypesOf DEF All
    <3> QED
      BY <2>1, <3>1 DEF All, ServerEnds
  <2> QED
    BY <2>1, <2>2, <2>3 DEF All, ServerEnds
<1>8. \A m \in LinksOf(c) : Frames(L2[m].down) \subseteq Frames(L[m].down) /\ L2[m].sync \in {L[m].sync, NoSync}
  BY <1>2, <1>4
<1>9. \A m \in LinksOf(c) : \A f \in Frames(L2[m].up) :
            \/ f \in Frames(L[m].up) \/ f.t \in {"result", "bye"}
            \/ f.t = "hello" /\ f.epoch <= s.cur
            \/ f.t = "vote" /\ f.id <= s.ids
  BY <1>3, <1>4
<1>10. \A m \in LinksOf(c) : OpenIn(L2, m) => Protocol(L2[m], h2, Ask(p, m))
  <2> SUFFICES ASSUME NEW m \in LinksOf(c), OpenIn(L2, m) PROVE Protocol(L2[m], h2, Ask(p, m))
    OBVIOUS
  <2>1. m = l
    BY <1>4, <1>5 DEF OpenIn, SameEnds
  <2>2. OpenIn(L, l)
    BY <2>1 DEF OpenIn, SameEnds
  <2> QED
    BY <1>1, <2>1, <2>2
<1>11. \A m \in Links \ LinksOf(c) : L2[m] = L[m]
  BY <1>1
<1>m. \A m \in LinksOf(c) : MissedIn(s, L2[m])
  BY <1>4 DEF All, Missed, MissedIn
<1> HIDE DEF c
<1>12. All(s, p, L2, [ch EXCEPT ![c] = h2], rt)
  BY <1>1, <1>6, <1>7, <1>8, <1>9, <1>10, <1>11, <1>m, ChildStep DEF Fit
<1> QED
  BY <1>12 DEF c

\* The child closes its end.
LEMMA LeaveStep ==
  ASSUME NEW s, NEW p, NEW L, NEW ch, NEW rt, All(s, p, L, ch, rt),
         NEW l \in Links, L[l].child = "open", NEW h2, Fit(s, p, L, ch, h2)
  PROVE  /\ All(s, p, CloseChildEnd(L, l), [ch EXCEPT ![l[1]] = h2], rt)
         /\ \A m \in LinksOf(l[1]) : CloseChildEnd(L, l)[m].child # "open"
<1> DEFINE c == l[1]
           L2 == CloseChildEnd(L, l)
<1>1. /\ L \in LinkTable /\ c \in Children /\ l \in LinksOf(c) /\ L[l] \in LinkState /\ FirstHello(L[l])
      /\ \A m \in Links : L[m].server = "open" /\ L[m].down # <<>> => OpenIn(L, m)
  BY LinkFacts, LinkChild, TypesOf DEF All, OneUpstream
<1>2. /\ L2 \in LinkTable /\ \A m \in Links \ {l} : L2[m] = L[m]
      /\ L2[l].server = L[l].server /\ L2[l].child = "closed" /\ L2[l].down = <<>>
      /\ L2[l].synced = L[l].synced /\ L2[l].epoch = L[l].epoch /\ L2[l].sync = L[l].sync
      /\ L2[l].missed = L[l].missed
      /\ L2[l].up = IF OpenIn(L, l) THEN L[l].up \o <<Bye>> ELSE L[l].up
  BY <1>1, CloseChildEndIs
<1> HIDE DEF L2
<1>3. /\ \A f \in Frames(L2[l].up) : f \in Frames(L[l].up) \/ f.t = "bye"
      /\ FirstHello(L2[l])
  <2>1. L[l].up \in Seq(UpFrame) /\ Bye \in UpFrame /\ Bye.t = "bye"
    BY <1>1, FrameTypes DEF LinkState
  <2>2. CASE L2[l].up = L[l].up
    BY <1>1, <1>2, <2>2 DEF FirstHello
  <2>3. CASE L2[l].up = L[l].up \o <<Bye>>
    <3>1. /\ Frames(L2[l].up) = Frames(L[l].up) \cup {Bye}
          /\ DOMAIN L2[l].up = DOMAIN L[l].up \cup {Len(L[l].up) + 1} /\ L2[l].up[Len(L[l].up) + 1] = Bye
          /\ \A n \in DOMAIN L[l].up : L2[l].up[n] = L[l].up[n]
      BY <2>1, <2>3, AppendIs
    <3> QED
      BY <1>1, <1>2, <2>1, <3>1 DEF FirstHello
  <2> QED
    BY <1>2, <2>2, <2>3
<1>4. \A m \in LinksOf(c) : m \in Links /\ m[1] = c
  BY DEF LinksOf
<1>5. \A m \in LinksOf(c) : L2[m].child # "open"
  BY <1>1, <1>2, <1>4 DEF All, OneUpstream
<1>6. OneUpstream(L2)
  <2>1. \A m \in Links : L2[m].server = L[m].server /\ (L2[m].child = "new" <=> L[m].child = "new")
          /\ (L2[m].child = "open" => L[m].child = "open")
    BY <1>2
  <2>2. \A d \in Children : {m \in LinksOf(d) : L2[m].child # "new"} = {m \in LinksOf(d) : L[m].child # "new"}
    BY <2>1 DEF LinksOf
  <2>3. \A m \in Links : L2[m].server = "open" /\ L2[m].down # <<>> => OpenIn(L2, m)
    BY <1>1, <1>2 DEF OpenIn
  <2> QED
    BY <2>1, <2>2, <2>3 DEF All, OneUpstream
<1>7. ServerEnds(L2, p)
  <2>1. \A m \in Links : L2[m].server = L[m].server /\ (L2[m].child = "new" <=> L[m].child = "new")
                         /\ L2[m].sync = L[m].sync /\ L2[m].synced = L[m].synced
    BY <1>2
  <2>2. \A m \in Links : FirstHello(L2[m])
    BY <1>2, <1>3 DEF All, ServerEnds
  <2>3. \A m \in DOMAIN p.vote : L2[m].child # "new" /\ (L2[m].server = "open" => L2[m].synced)
    <3>1. DOMAIN p.vote \subseteq Links
      BY TypesOf DEF All
    <3> QED
      BY <2>1, <3>1 DEF All, ServerEnds
  <2> QED
    BY <2>1, <2>2, <2>3 DEF All, ServerEnds
<1>8. \A m \in LinksOf(c) : Frames(L2[m].down) \subseteq Frames(L[m].down) /\ L2[m].sync \in {L[m].sync, NoSync}
  BY <1>2, <1>4, FramesOfEmpty
<1>9. \A m \in LinksOf(c) : \A f \in Frames(L2[m].up) :
            \/ f \in Frames(L[m].up) \/ f.t \in {"result", "bye"}
            \/ f.t = "hello" /\ f.epoch <= s.cur
            \/ f.t = "vote" /\ f.id <= s.ids
  BY <1>2, <1>3, <1>4
<1>10. \A m \in LinksOf(c) : OpenIn(L2, m) => Protocol(L2[m], h2, Ask(p, m))
  BY <1>5 DEF OpenIn
<1>11. \A m \in Links \ LinksOf(c) : L2[m] = L[m]
  BY <1>1, <1>2
<1>m. \A m \in LinksOf(c) : MissedIn(s, L2[m])
  BY <1>2, <1>4 DEF All, Missed, MissedIn
<1> HIDE DEF c
<1>12. All(s, p, L2, [ch EXCEPT ![c] = h2], rt)
  BY <1>1, <1>2, <1>6, <1>7, <1>8, <1>9, <1>10, <1>11, <1>m, ChildStep DEF Fit
<1> QED
  BY <1>5, <1>12 DEF c, L2

\* The transport of a link breaks.
LEMMA CutStep ==
  ASSUME NEW s, NEW p, NEW L, NEW ch, NEW rt, All(s, p, L, ch, rt), NEW l \in Links,
         NEW L2 \in LinkTable, \A m \in Links \ {l} : L2[m] = L[m],
         L2[l].server = L[l].server, L2[l].child = L[l].child, ~L2[l].alive,
         L2[l].down = <<>>, L2[l].up = <<>>, L2[l].synced = L[l].synced, L2[l].sync = L[l].sync,
         L2[l].epoch = L[l].epoch, L2[l].missed = L[l].missed
  PROVE  All(s, p, L2, ch, rt)
<1> DEFINE c == l[1]
<1>1. /\ L \in LinkTable /\ c \in Children /\ l \in LinksOf(c)
      /\ \A m \in Links : L[m].server = "open" /\ L[m].down # <<>> => OpenIn(L, m)
      /\ \A m \in Links : L[m] \in LinkState
  BY LinkChild, TypesOf DEF All, OneUpstream
<1>4. \A m \in LinksOf(c) : m \in Links /\ m[1] = c
  BY DEF LinksOf
<1>6. OneUpstream(L2)
  <2>1. \A m \in Links : L2[m].server = L[m].server /\ L2[m].child = L[m].child
    OBVIOUS
  <2>2. \A d \in Children : {m \in LinksOf(d) : L2[m].child # "new"} = {m \in LinksOf(d) : L[m].child # "new"}
    BY <2>1 DEF LinksOf
  <2>3. \A m \in Links : L2[m].server = "open" /\ L2[m].down # <<>> => OpenIn(L2, m)
    BY <1>1 DEF OpenIn
  <2> QED
    BY <2>1, <2>2, <2>3 DEF All, OneUpstream
<1>7. ServerEnds(L2, p)
  <2>1. \A m \in Links : L2[m].server = L[m].server /\ L2[m].child = L[m].child
                         /\ L2[m].sync = L[m].sync /\ L2[m].synced = L[m].synced
    OBVIOUS
  <2>2. \A m \in Links : FirstHello(L2[m])
    BY DEF All, ServerEnds, FirstHello
  <2>3. \A m \in DOMAIN p.vote : L2[m].child # "new" /\ (L2[m].server = "open" => L2[m].synced)
    <3>1. DOMAIN p.vote \subseteq Links
      BY TypesOf DEF All
    <3> QED
      BY <2>1, <3>1 DEF All, ServerEnds
  <2> QED
    BY <2>1, <2>2, <2>3 DEF All, ServerEnds
<1>8. \A m \in LinksOf(c) : Frames(L2[m].down) \subseteq Frames(L[m].down) /\ L2[m].sync \in {L[m].sync, NoSync}
  BY <1>4, FramesOfEmpty
<1>9. \A m \in LinksOf(c) : Frames(L2[m].up) \subseteq Frames(L[m].up)
  BY <1>4, FramesOfEmpty
<1>10. \A m \in LinksOf(c) : OpenIn(L2, m) => Protocol(L2[m], ch[c], Ask(p, m))
  <2> SUFFICES ASSUME NEW m \in LinksOf(c), OpenIn(L2, m) PROVE Protocol(L2[m], ch[c], Ask(p, m))
    OBVIOUS
  <2>1. m # l /\ m \in Links /\ m[1] = c
    BY <1>4 DEF OpenIn
  <2> QED
    BY <2>1 DEF All, Protocols, OpenIn
<1>11. \A m \in Links \ LinksOf(c) : L2[m] = L[m]
  BY <1>1
<1>12. Fit(s, p, L, ch, ch[c]) /\ [ch EXCEPT ![c] = ch[c]] = ch
  BY <1>1, FitNow DEF All, Types
<1>m. \A m \in LinksOf(c) : MissedIn(s, L2[m])
  BY <1>4 DEF All, Missed, MissedIn
<1> HIDE DEF c
<1>13. All(s, p, L2, [ch EXCEPT ![c] = ch[c]], rt)
  BY <1>1, <1>6, <1>7, <1>8, <1>9, <1>10, <1>11, <1>12, <1>m, ChildStep DEF Fit
<1> QED
  BY <1>12, <1>13

\* The links a child has opened are its first ones.
LEMMA OpenedIs ==
  ASSUME NEW L \in LinkTable, NEW c \in Children, OneUpstream(L)
  PROVE  /\ Cardinality({l \in LinksOf(c) : L[l].child # "new"}) \in Nat
         /\ {l \in LinksOf(c) : L[l].child # "new"}
              = {c} \X (1 .. Cardinality({l \in LinksOf(c) : L[l].child # "new"}))
<1>1. PICK n \in 0 .. MaxLinks[c] : {l \in LinksOf(c) : L[l].child # "new"} = {c} \X (1 .. n)
  BY DEF OneUpstream
<1>2. n \in Nat
  BY <1>1, BoundsAssumption
<1>3. IsFiniteSet(1 .. n) /\ Cardinality(1 .. n) = n
  BY <1>2, FS_Interval
<1>4. IsFiniteSet({c}) /\ Cardinality({c}) = 1
  BY FS_Singleton
<1>5. Cardinality({c} \X (1 .. n)) = n
  <2>1. Cardinality({c} \X (1 .. n)) = Cardinality({c}) * Cardinality(1 .. n)
    BY <1>3, <1>4, FS_Product, Zenon
  <2> QED
    BY <1>2, <1>3, <1>4, <2>1
<1> QED
  BY <1>1, <1>2, <1>5

\* A child without an open link opens its next one.
LEMMA OpenStep ==
  ASSUME NEW s, NEW p, NEW L, NEW ch, NEW rt, All(s, p, L, ch, rt), NEW c \in Children,
         \A m \in LinksOf(c) : L[m].child # "open", NEW l \in Links,
         l = <<c, Cardinality({m \in LinksOf(c) : L[m].child # "new"}) + 1>>,
         NEW L2 \in LinkTable, \A m \in Links \ {l} : L2[m] = L[m],
         L2[l].server = "open", L2[l].child = "open", L2[l].alive, ~L2[l].synced, L2[l].sync = NoSync, L2[l].missed = {},
         L2[l].down = <<>>, L2[l].up = <<Frame("hello", 0, ch[c].cur)>>
  PROVE  All(s, p, L2, ch, rt)
<1> DEFINE Used == {m \in LinksOf(c) : L[m].child # "new"}
           n == Cardinality(Used)
           g == Frame("hello", 0, ch[c].cur)
<1>1. /\ L \in LinkTable /\ ch[c] \in ChildState /\ OneUpstream(L) /\ p \in PassState
      /\ DOMAIN p.vote \subseteq Links
  BY TypesOf DEF All
<1>2. n \in Nat /\ Used = {c} \X (1 .. n)
  BY <1>1, OpenedIs
<1>3. l = <<c, n + 1>>
  OBVIOUS
<1> HIDE DEF n
<1>4. l[1] = c /\ l[2] = n + 1 /\ l \in LinksOf(c)
  BY <1>3 DEF LinksOf
<1>5. n + 1 \in 1 .. MaxLinks[c]
  <2>1. PICK d \in Children : l \in {d} \X (1 .. MaxLinks[d])
    BY DEF Links
  <2> QED
    BY <1>4, <2>1
<1>6. L[l].child = "new"
  <2>1. l \notin {c} \X (1 .. n)
    BY <1>2, <1>4
  <2> QED
    BY <1>2, <1>4, <2>1
<1>7. {m \in LinksOf(c) : L2[m].child # "new"} = {c} \X (1 .. n + 1)
  <2>1. {m \in LinksOf(c) : L2[m].child # "new"} = Used \cup {l}
    BY <1>4 DEF LinksOf
  <2>2. {c} \X (1 .. n + 1) = ({c} \X (1 .. n)) \cup {<<c, n + 1>>}
    <3>1. 1 .. n + 1 = (1 .. n) \cup {n + 1}
      BY <1>2
    <3> QED
      BY <3>1
  <2> QED
    BY <1>2, <1>3, <2>1, <2>2
<1>8. OneUpstream(L2)
  <2>1. \A m, o \in Links : m[1] = o[1] /\ L2[m].child = "open" /\ L2[o].child = "open" => m = o
    <3>1. \A m \in Links : m[1] = c => L[m].child # "open"
      BY DEF LinksOf
    <3>2. \A m, o \in Links : m[1] = o[1] /\ L[m].child = "open" /\ L[o].child = "open" => m = o
      BY <1>1 DEF OneUpstream
    <3>3. \A m \in Links : m # l => L2[m].child = L[m].child
      OBVIOUS
    <3>4. \A m \in Links : m # l /\ m[1] = l[1] => L2[m].child # "open"
      BY <1>4, <3>1, <3>3
    <3> SUFFICES ASSUME NEW m \in Links, NEW o \in Links, m[1] = o[1], L2[m].child = "open", L2[o].child = "open"
                 PROVE  m = o
      OBVIOUS
    <3> QED
      BY <3>2, <3>3, <3>4
  <2>2. \A d \in Children : \E k \in 0 .. MaxLinks[d] : {m \in LinksOf(d) : L2[m].child # "new"} = {d} \X (1 .. k)
    <3> SUFFICES ASSUME NEW d \in Children
                 PROVE  \E k \in 0 .. MaxLinks[d] : {m \in LinksOf(d) : L2[m].child # "new"} = {d} \X (1 .. k)
      OBVIOUS
    <3>1. CASE d = c
      BY <1>2, <1>5, <1>7, <3>1
    <3>2. CASE d # c
      <4>1. {m \in LinksOf(d) : L2[m].child # "new"} = {m \in LinksOf(d) : L[m].child # "new"}
        BY <1>4, <3>2 DEF LinksOf
      <4> QED
        BY <1>1, <4>1 DEF OneUpstream
    <3> QED
      BY <3>1, <3>2
  <2>3. /\ \A m \in Links : L2[m].server = "open" => L2[m].child # "new"
        /\ \A m \in Links : L2[m].server = "open" /\ L2[m].down # <<>> => OpenIn(L2, m)
    BY <1>1, SMT, ZenonT(60) DEF OneUpstream, OpenIn
  <2> QED
    BY <2>1, <2>2, <2>3 DEF OneUpstream
<1>9. l \notin DOMAIN p.vote
  BY <1>6 DEF All, ServerEnds
<1>10. L2[l].up[1] = g /\ DOMAIN L2[l].up = {1} /\ Frames(L2[l].up) = {g} /\ g.t = "hello" /\ g.epoch = ch[c].cur
  BY FramesOfOne DEF Frame
<1> HIDE DEF g
<1>11. ServerEnds(L2, p)
  <2>1. FirstHello(L2[l])
    BY <1>10 DEF FirstHello
  <2> QED
    BY <1>1, <1>9, <2>1, SMT, ZenonT(60) DEF All, ServerEnds
<1>t. Types(s, p, L, ch, rt)
  BY DEF All
<1>e. EpochsRise(s, p) /\ EpochsRun(s, L, ch)
  BY DEF All
<1>12. g.epoch <= s.cur
  <2>1. s.cur \in Nat
    BY <1>t, TypesOf
  <2>2. ch[c].cur \in s.ran \cup {0} /\ s.ran \subseteq 1 .. s.cur
    BY <1>e DEF EpochsRise, EpochsRun
  <2> QED
    BY <1>10, <2>1, <2>2
<1>13. \A m \in LinksOf(c) : m \in Links /\ m[1] = c
  BY DEF LinksOf
<1>14. \A m \in LinksOf(c) : Frames(L2[m].down) \subseteq Frames(L[m].down) /\ L2[m].sync \in {L[m].sync, NoSync}
  BY <1>13, FramesOfEmpty
<1>15. \A m \in LinksOf(c) : \A f \in Frames(L2[m].up) : f \in Frames(L[m].up) \/ (f.t = "hello" /\ f.epoch <= s.cur)
  BY <1>10, <1>12, <1>13
<1>16. \A m \in LinksOf(c) : OpenIn(L2, m) => Protocol(L2[m], ch[c], Ask(p, m))
  <2> SUFFICES ASSUME NEW m \in LinksOf(c), OpenIn(L2, m) PROVE Protocol(L2[m], ch[c], Ask(p, m))
    OBVIOUS
  <2>1. m = l
    BY <1>13 DEF OpenIn
  <2>2. Ask(p, l) = NoAsk
    BY <1>9 DEF Ask
  <2>3. ch[c].op.id \in Nat
    BY <1>1 DEF ChildState, OpState
  <2>4. Protocol(L2[l], ch[c], NoAsk)
    BY <2>3, ProtocolOpens
  <2> QED
    BY <2>1, <2>2, <2>4
<1>17. Fit(s, p, L, ch, ch[c]) /\ [ch EXCEPT ![c] = ch[c]] = ch
  BY <1>1, FitNow DEF All, Types
<1>18. \A m \in Links \ LinksOf(c) : L2[m] = L[m]
  BY <1>4
<1>m. \A m \in LinksOf(c) : MissedIn(s, L2[m])
  BY <1>13 DEF All, Missed, MissedIn
<1>19. All(s, p, L2, [ch EXCEPT ![c] = ch[c]], rt)
  BY <1>1, <1>8, <1>11, <1>14, <1>15, <1>16, <1>17, <1>18, <1>m, ChildStep DEF Fit
<1> QED
  BY <1>17, <1>19

\* The process of a child ends and starts again.
LEMMA RestartStep ==
  ASSUME NEW s, NEW p, NEW L, NEW ch, NEW rt, All(s, p, L, ch, rt), NEW c \in Children,
         NEW L2 \in LinkTable,
         \A m \in Links : IF m[1] = c /\ L[m].child = "open"
                          THEN /\ L2[m].server = L[m].server /\ L2[m].child = "closed" /\ L2[m].down = <<>> /\ L2[m].up = <<>>
                               /\ L2[m].synced = L[m].synced /\ L2[m].sync = L[m].sync
                               /\ L2[m].epoch = L[m].epoch /\ L2[m].missed = L[m].missed
                          ELSE L2[m] = L[m]
  PROVE  All(s, p, L2, [ch EXCEPT ![c] = Fresh], rt)
<1>1. /\ L \in LinkTable /\ OneUpstream(L) /\ DOMAIN p.vote \subseteq Links
      /\ s.cur \in Nat /\ s.cur # 0 /\ s.prev \in Nat
  BY TypesOf DEF All
<1>2. \A m \in LinksOf(c) : m \in Links /\ m[1] = c
  BY DEF LinksOf
<1>3. \A m \in Links : /\ L2[m].server = L[m].server /\ (L2[m].child = "new" <=> L[m].child = "new")
                       /\ (L2[m].child = "open" => L[m].child = "open" /\ L2[m] = L[m])
                       /\ L2[m].synced = L[m].synced /\ L2[m].sync = L[m].sync
                       /\ L2[m].epoch = L[m].epoch /\ L2[m].missed = L[m].missed
                       /\ (L2[m].down = <<>> \/ L2[m] = L[m]) /\ (L2[m].up = <<>> \/ L2[m] = L[m])
  OBVIOUS
<1>4. OneUpstream(L2)
  <2>1. \A d \in Children : {m \in LinksOf(d) : L2[m].child # "new"} = {m \in LinksOf(d) : L[m].child # "new"}
    BY <1>3 DEF LinksOf
  <2>2. \A m \in Links : L2[m].server = "open" /\ L2[m].down # <<>> => OpenIn(L2, m)
    BY <1>1, <1>3 DEF OneUpstream, OpenIn
  <2> QED
    BY <1>1, <1>3, <2>1, <2>2 DEF OneUpstream
<1>5. ServerEnds(L2, p)
  <2>1. \A m \in Links : FirstHello(L2[m])
    BY <1>3 DEF All, ServerEnds, FirstHello
  <2> QED
    BY <1>1, <1>3, <2>1 DEF All, ServerEnds
<1>6. \A m \in LinksOf(c) : /\ Frames(L2[m].down) \subseteq Frames(L[m].down)
                            /\ Frames(L2[m].up) \subseteq Frames(L[m].up)
                            /\ L2[m].sync \in {L[m].sync, NoSync}
  BY <1>2, <1>3, FramesOfEmpty
<1>7. \A m \in LinksOf(c) : ~OpenIn(L2, m)
  BY <1>2 DEF OpenIn
<1>8. Fit(s, p, L, ch, Fresh)
  <2>1. Stage(Fresh) /\ {Fresh.cur, Fresh.prev} = {1, 0} /\ Fresh.allowed = 0 /\ Fresh.op.state = "none"
    BY DEF Stage, Fresh, NoOp
  <2>2. 1 \in s.ran
    BY DEF All, EpochsRise
  <2>3. Retired(s, 0)
    BY <1>1 DEF Retired
  <2> QED
    BY <2>1, <2>2, <2>3, InitTypes DEF Fit
<1>9. \A m \in Links \ LinksOf(c) : L2[m] = L[m]
  BY DEF LinksOf
<1>m. \A m \in LinksOf(c) : MissedIn(s, L2[m])
  BY <1>2, <1>3 DEF All, Missed, MissedIn
<1> QED
  BY <1>1, <1>4, <1>5, <1>6, <1>7, <1>8, <1>9, <1>m, ChildStep DEF Fit

\* The child sends its parent a vote, if it has one.
LEMMA VoteStep ==
  ASSUME NEW s, NEW p, NEW L, NEW ch, NEW rt, All(s, p, L, ch, rt), NEW c \in Children,
         NEW h2, Fit(s, p, L, ch, h2), NEW g \in UpFrame, g.t = "vote", g.id <= s.ids,
         \A k \in LinkState : \A k2, q :
            /\ Protocol(k, ch[c], q) /\ k2.up = k.up \o <<g>> /\ k2.down = k.down
            /\ k2.synced = k.synced /\ k2.epoch = k.epoch /\ k2.sync = k.sync /\ k2.missed = k.missed
            => Protocol(k2, h2, q)
  PROVE  /\ All(s, p, SendParent(L, c, <<g>>), [ch EXCEPT ![c] = h2], rt)
         /\ \A m \in Links : SendParent(L, c, <<g>>)[m].child = L[m].child
<1>1. L \in LinkTable /\ \A m \in Links : L[m] \in LinkState
  BY TypesOf DEF All
<1>2. CASE Upstream(L, c) = {}
  <2>1. SendParent(L, c, <<g>>) = L
    BY <1>2 DEF SendParent
  <2>2. \A m \in LinksOf(c) : L[m].child # "open"
    BY <1>2 DEF Upstream
  <2> QED
    BY <2>1, <2>2, AloneStep
<1>3. CASE Upstream(L, c) # {}
  <2>1. PICK l : l = CHOOSE o \in Upstream(L, c) : TRUE
    OBVIOUS
  <2>2. l \in Upstream(L, c)
    BY <1>3, <2>1
  <2>3. l \in Links /\ l[1] = c /\ L[l].child = "open" /\ L[l] \in LinkState
    BY <1>1, <2>2 DEF Upstream, LinksOf
  <2> DEFINE L2 == SendUp(L, l, <<g>>)
  <2>4. SendParent(L, c, <<g>>) = L2
    BY <1>3, <2>1 DEF SendParent
  <2>5. /\ L2 \in LinkTable /\ \A m \in Links \ {l} : L2[m] = L[m]
        /\ L2[l] = IF OpenIn(L, l) THEN [L[l] EXCEPT !.up = @ \o <<g>>] ELSE L[l]
    <3>1. <<g>> \in Seq(UpFrame)
      OBVIOUS
    <3> QED
      BY <1>1, <2>3, <3>1, SendUpIs, Zenon
  <2> HIDE DEF L2
  <2>6. /\ SameEnds(L[l], L2[l]) /\ L2[l].synced = L[l].synced /\ L2[l].epoch = L[l].epoch
        /\ L2[l].sync = L[l].sync /\ L2[l].missed = L[l].missed /\ L2[l].down = L[l].down
        /\ L2[l].up = IF OpenIn(L, l) THEN L[l].up \o <<g>> ELSE L[l].up
    BY <2>3, <2>5 DEF SameEnds, LinkState
  <2>7. OpenIn(L, l) /\ Protocol(L[l], ch[l[1]], Ask(p, l)) => Protocol(L2[l], h2, Ask(p, l))
    BY <2>3, <2>6
  <2>8. All(s, p, L2, [ch EXCEPT ![l[1]] = h2], rt)
    <3>1. /\ L2[l].down \in {L[l].down, Tail(L[l].down)} /\ (L[l].down = <<>> => L2[l].down = <<>>)
          /\ Speaks(s, L[l], L2[l])
      BY <2>6 DEF Speaks
    <3>2. L2 \in LinkTable /\ \A m \in Links \ {l} : L2[m] = L[m]
      BY <2>5
    <3> QED
      BY <2>3, <2>6, <2>7, <3>1, <3>2, TalkStep
  <2> QED
    BY <2>3, <2>4, <2>5, <2>6, <2>8 DEF SameEnds
<1> QED
  BY <1>2, <1>3

-----------------------------------------------------------------------------
(* What a child's operations make of it.                                   *)

\* All of a child but its epochs under reload.
SameChild(h, h2) ==
    h2.cur = h.cur /\ h2.allowed = h.allowed /\ h2.runs = h.runs /\ h2.failed = h.failed

\* Cancel leaves a child its epochs and calls.
LEMMA CancelIs ==
  ASSUME NEW h \in ChildState, Stage(h)
  PROVE  /\ Cancel(h) \in ChildState /\ Stage(Cancel(h)) /\ SameChild(h, Cancel(h)) /\ Cancel(h).prev = h.prev
         /\ h.op.state = "prepared" => Cancel(h).op = NoOp
         /\ h.op.state # "prepared" => SameOp(h, Cancel(h))
<1>1. NoOp \in OpState
  BY InitTypes
<1>2. CASE h.op.state = "none"
  BY <1>2 DEF Cancel, SameChild, SameOp
<1>3. CASE h.op.state = "prepared"
  <2>1. Cancel(h) = [h EXCEPT !.op = NoOp, !.held = TRUE]
    BY <1>3 DEF Cancel
  <2>2. Cancel(h) \in ChildState /\ SameChild(h, Cancel(h)) /\ Cancel(h).prev = h.prev /\ Cancel(h).op = NoOp
    BY <1>1, <2>1 DEF ChildState, SameChild
  <2> QED
    BY <1>3, <2>2 DEF Stage, NoOp
<1> DEFINE o == [h.op EXCEPT !.cancelled = TRUE]
<1>o. o \in OpState /\ o.id = h.op.id /\ o.state = h.op.state /\ o.epoch = h.op.epoch
  BY DEF ChildState, OpState
<1>4. CASE h.op.state = "working" /\ ~h.op.cancelled
  <2> DEFINE n == h.loose + 1
  <2>1. Cancel(h) = [h EXCEPT !.op = o, !.loose = n] /\ n \in Nat
    BY <1>4 DEF Cancel, ChildState
  <2> HIDE DEF o, n
  <2>2. /\ Cancel(h) \in ChildState /\ Cancel(h).op = o /\ Cancel(h).staged = h.staged /\ Cancel(h).held = h.held
        /\ Cancel(h).prev = h.prev /\ SameChild(h, Cancel(h))
    BY <1>o, <2>1 DEF ChildState, SameChild
  <2> QED
    BY <1>4, <1>o, <2>2 DEF SameChild, SameOp, Stage
<1>5. CASE h.op.state = "retiring"
  <2>1. Cancel(h) = [h EXCEPT !.op = o, !.staged = 0]
    BY <1>5 DEF Cancel
  <2> HIDE DEF o
  <2>2. /\ Cancel(h) \in ChildState /\ Cancel(h).op = o /\ Cancel(h).held = h.held
        /\ Cancel(h).prev = h.prev /\ SameChild(h, Cancel(h))
    BY <1>o, <2>1, Zero DEF ChildState, SameChild
  <2> QED
    BY <1>5, <1>o, <2>2 DEF SameChild, SameOp, Stage
<1>6. CASE h.op.state \notin {"none", "prepared", "retiring"} /\ ~(h.op.state = "working" /\ ~h.op.cancelled)
  <2>1. Cancel(h) = [h EXCEPT !.op = o]
    BY <1>6 DEF Cancel
  <2> HIDE DEF o
  <2>2. /\ Cancel(h) \in ChildState /\ Cancel(h).op = o /\ Cancel(h).staged = h.staged /\ Cancel(h).held = h.held
        /\ Cancel(h).prev = h.prev /\ SameChild(h, Cancel(h))
    BY <1>o, <2>1 DEF ChildState, SameChild
  <2> QED
    BY <1>6, <1>o, <2>2 DEF SameChild, SameOp, Stage
<1> QED
  BY <1>2, <1>3, <1>4, <1>5, <1>6

\* A child drops its previous epoch in turn.
Turn(h, h2, connected) ==
    /\ h.prev # 0 /\ h2.prev = 0 /\ h2 # Fresh
    /\ ~(h.op.state \in {"loading", "retiring"} /\ h2.op.state # h.op.state)
    => ChildRoots(h2, h.prev) = {} /\ (connected => h.prev <= h2.allowed)

\* A child that retires its previous epoch does so in turn.
LEMMA RetiresIs ==
  ASSUME NEW h \in ChildState, NEW connected
  PROVE  LET r == ChildRetires(h, connected) IN
         /\ r \in ChildState /\ r.prev \in {h.prev, 0} /\ SameChild(h, r)
         /\ r.op = h.op /\ r.staged = h.staged /\ r.held = h.held /\ r.loose = h.loose
         /\ Stage(h) => Stage(r)
         /\ Turn(h, r, connected)
<1> DEFINE r == ChildRetires(h, connected)
<1>1. CASE MayRetire(h, connected)
  <2>1. r = [h EXCEPT !.prev = 0]
    BY <1>1 DEF ChildRetires
  <2>2. /\ r \in ChildState /\ r.prev = 0 /\ SameChild(h, r)
        /\ r.op = h.op /\ r.staged = h.staged /\ r.held = h.held /\ r.loose = h.loose
    BY <2>1, Zero DEF ChildState, SameChild
  <2> HIDE DEF r
  <2>3. Stage(h) => Stage(r)
    BY <2>2 DEF Stage
  <2>4. Turn(h, r, connected)
    BY <1>1, <2>2 DEF Turn, MayRetire, ChildRoots, SameChild
  <2> QED
    BY <2>2, <2>3, <2>4 DEF r
<1>2. CASE ~MayRetire(h, connected)
  <2>1. r = h
    BY <1>2 DEF ChildRetires
  <2> QED
    BY <2>1 DEF Turn, SameChild
<1> QED
  BY <1>1, <1>2

\* endReload frees the slot and may retire.
LEMMA FreedIs ==
  ASSUME NEW h \in ChildState, NEW L, NEW c
  PROVE  LET r == Freed(h, L, c) IN
         /\ r \in ChildState /\ r.prev \in {h.prev, 0} /\ SameChild(h, r)
         /\ r.op = NoOp /\ r.staged = h.staged /\ r.held = h.held /\ r.loose = h.loose
         /\ Stage(r)
         /\ h.op.state \notin {"loading", "retiring"} => Turn(h, r, Upstream(L, c) # {})
<1> DEFINE h1 == [h EXCEPT !.op = NoOp]
           connected == Upstream(L, c) # {}
           r == ChildRetires(h1, connected)
<1>1. h1 \in ChildState /\ h1.op = NoOp /\ h1.prev = h.prev /\ SameChild(h, h1)
      /\ h1.staged = h.staged /\ h1.held = h.held /\ h1.loose = h.loose
  BY InitTypes DEF ChildState, SameChild
<1>2. Stage(h1)
  BY <1>1 DEF Stage, NoOp
<1> HIDE DEF h1, connected
<1>3. /\ r \in ChildState /\ r.prev \in {h1.prev, 0} /\ SameChild(h1, r)
      /\ r.op = h1.op /\ r.staged = h1.staged /\ r.held = h1.held /\ r.loose = h1.loose
      /\ Stage(r) /\ Turn(h1, r, connected)
  BY <1>1, <1>2, RetiresIs
<1>4. Freed(h, L, c) = r
  BY DEF Freed, h1, connected
<1> HIDE DEF r
<1>5. h.op.state \notin {"loading", "retiring"} => Turn(h, r, connected)
  BY <1>1, <1>3 DEF Turn, NoOp
<1> QED
  BY <1>1, <1>3, <1>4, <1>5 DEF SameChild, connected

-----------------------------------------------------------------------------
(* The steps a child takes by itself.                                      *)

LEMMA FitSame ==
  ASSUME NEW s, NEW p, NEW L, NEW ch, NEW rt, All(s, p, L, ch, rt), NEW c \in Children,
         NEW h2 \in ChildState, Stage(h2), SameChild(ch[c], h2), h2.prev \in {ch[c].prev, 0},
         h2.op.state # "none" => ch[c].op.state # "none" /\ h2.op.id = ch[c].op.id /\ h2.op.epoch = ch[c].op.epoch
  PROVE  Fit(s, p, L, ch, h2)
<1>1. Fit(s, p, L, ch, ch[c])
  BY FitNow
<1> QED
  BY <1>1 DEF Fit, SameChild

\* Its reload stays what it is.
LEMMA KeepStep ==
  ASSUME NEW s, NEW p, NEW L, NEW ch, NEW rt, All(s, p, L, ch, rt), NEW c \in Children,
         NEW h2 \in ChildState, Stage(h2), h2.prev \in {ch[c].prev, 0}, h2.allowed = ch[c].allowed, SameOp(ch[c], h2)
  PROVE  All(s, p, L, [ch EXCEPT ![c] = h2], rt)
<1>1. Fit(s, p, L, ch, ch[c])
  BY FitNow
<1>2. Fit(s, p, L, ch, h2)
  BY <1>1 DEF Fit, SameOp
<1>3. \A k \in LinkState : \A q : Protocol(k, ch[c], q) => Protocol(k, h2, q)
  BY ProtocolSame DEF SameLink, Weaker
<1> QED
  BY <1>2, <1>3, AloneStep

\* Its reload goes on.
LEMMA GoOnStep ==
  ASSUME NEW s, NEW p, NEW L, NEW ch, NEW rt, All(s, p, L, ch, rt), NEW c \in Children,
         NEW h2 \in ChildState, Stage(h2), h2.prev \in {ch[c].prev, 0}, SameChild(ch[c], h2),
         {ch[c].op.state, h2.op.state} \subseteq {"loading", "retiring", "working", "failing"},
         h2.op.id = ch[c].op.id, h2.op.epoch = ch[c].op.epoch
  PROVE  All(s, p, L, [ch EXCEPT ![c] = h2], rt)
<1>1. Fit(s, p, L, ch, h2)
  BY FitSame
<1>2. \A k \in LinkState : \A q : Protocol(k, ch[c], q) => Protocol(k, h2, q)
  BY ProtocolGoesOn DEF SameChild
<1> QED
  BY <1>1, <1>2, AloneStep

\* Its reload, which has not voted, ends.
LEMMA StopStep ==
  ASSUME NEW s, NEW p, NEW L, NEW ch, NEW rt, All(s, p, L, ch, rt), NEW c \in Children,
         NEW h2 \in ChildState, Stage(h2), h2.prev \in {ch[c].prev, 0}, SameChild(ch[c], h2),
         h2.op = NoOp, ch[c].op.state # "prepared"
  PROVE  All(s, p, L, [ch EXCEPT ![c] = h2], rt)
<1>1. Fit(s, p, L, ch, h2)
  BY FitSame DEF NoOp
<1>2. \A k \in LinkState : \A q : Protocol(k, ch[c], q) => Protocol(k, h2, q)
  BY ProtocolStops DEF SameChild, Says
<1> QED
  BY <1>1, <1>2, AloneStep

\* It ends with a vote of no.
LEMMA RefuseStep ==
  ASSUME NEW s, NEW p, NEW L, NEW ch, NEW rt, All(s, p, L, ch, rt), NEW c \in Children,
         NEW h2 \in ChildState, Stage(h2), h2.prev \in {ch[c].prev, 0}, SameChild(ch[c], h2),
         h2.op = NoOp, ch[c].op.state \notin {"none", "prepared"}
  PROVE  /\ All(s, p, Vote(ch[c], L, c, "no"), [ch EXCEPT ![c] = h2], rt)
         /\ \A m \in Links : Vote(ch[c], L, c, "no")[m].child = L[m].child
<1> DEFINE g == [t |-> "vote", id |-> ch[c].op.id, vote |-> "no"]
<1>1. Fit(s, p, L, ch, h2)
  BY FitSame DEF NoOp
<1>2. CASE ch[c].op.cancelled
  BY <1>2, StopStep DEF Vote
<1>3. CASE ~ch[c].op.cancelled
  <2>1. Vote(ch[c], L, c, "no") = SendParent(L, c, <<g>>)
    BY <1>3 DEF Vote
  <2>2. ch[c].op.id \in Nat \ {0} /\ ch[c].op.id <= s.ids
    <3>1. ch[c] \in ChildState /\ ch[c].op.state # "none"
      BY TypesOf DEF All
    <3>2. ch[c].op.id \in Nat /\ ch[c].op.epoch \in Epochs /\ ch[c].op.id # 0
      BY <3>1 DEF ChildState, OpState, All, Staging, Stage
    <3> QED
      BY <3>1, <3>2, Offering DEF All, OneEpochEach
  <2>3. g \in UpFrame /\ g.t = "vote" /\ g.vote = "no" /\ g.id <= s.ids
    BY <2>2, FrameTypes
  <2> HIDE DEF g
  <2>4. \A k \in LinkState : \A k2, q :
            /\ Protocol(k, ch[c], q) /\ k2.up = k.up \o <<g>> /\ k2.down = k.down
            /\ k2.synced = k.synced /\ k2.epoch = k.epoch /\ k2.sync = k.sync /\ k2.missed = k.missed
            => Protocol(k2, h2, q)
    <3> SUFFICES ASSUME NEW k \in LinkState, NEW k2, NEW q, Protocol(k, ch[c], q), k2.up = k.up \o <<g>>,
                        k2.down = k.down, k2.synced = k.synced, k2.epoch = k.epoch, k2.sync = k.sync, k2.missed = k.missed
                 PROVE  Protocol(k2, h2, q)
      OBVIOUS
    <3>1. Says(k, k2)
      BY <2>3 DEF Says
    <3> QED
      BY <3>1, ProtocolStops DEF SameChild
  <2> QED
    BY <1>1, <2>1, <2>3, <2>4, VoteStep
<1> QED
  BY <1>2, <1>3

\* It has prepared and votes yes.
LEMMA AcceptStep ==
  ASSUME NEW s, NEW p, NEW L, NEW ch, NEW rt, All(s, p, L, ch, rt), NEW c \in Children,
         ch[c].op.state = "working", ~ch[c].op.cancelled,
         NEW h2 \in ChildState, Stage(h2), h2.prev \in {ch[c].prev, 0}, SameChild(ch[c], h2),
         h2.op.state = "prepared", h2.op.id = ch[c].op.id, h2.op.epoch = ch[c].op.epoch
  PROVE  /\ All(s, p, Vote(ch[c], L, c, "yes"), [ch EXCEPT ![c] = h2], rt)
         /\ \A m \in Links : Vote(ch[c], L, c, "yes")[m].child = L[m].child
<1> DEFINE g == [t |-> "vote", id |-> ch[c].op.id, vote |-> "yes"]
<1>1. Fit(s, p, L, ch, h2)
  BY FitSame
<1>2. Vote(ch[c], L, c, "yes") = SendParent(L, c, <<g>>)
  BY DEF Vote
<1>3. ch[c].op.id \in Nat \ {0} /\ ch[c].op.id <= s.ids
  <3>1. ch[c] \in ChildState /\ ch[c].op.state # "none"
    BY TypesOf DEF All
  <3>2. ch[c].op.id \in Nat /\ ch[c].op.epoch \in Epochs /\ ch[c].op.id # 0
    BY <3>1 DEF ChildState, OpState, All, Staging, Stage
  <3> QED
    BY <3>1, <3>2, Offering DEF All, OneEpochEach
<1>4. g \in UpFrame /\ g.t = "vote" /\ g.id = ch[c].op.id /\ g.id <= s.ids
  BY <1>3, FrameTypes
<1> HIDE DEF g
<1>5. \A k \in LinkState : \A k2, q :
          /\ Protocol(k, ch[c], q) /\ k2.up = k.up \o <<g>> /\ k2.down = k.down
          /\ k2.synced = k.synced /\ k2.epoch = k.epoch /\ k2.sync = k.sync /\ k2.missed = k.missed
          => Protocol(k2, h2, q)
  BY <1>3, <1>4, ProtocolVotes DEF SameChild
<1> QED
  BY <1>1, <1>2, <1>4, <1>5, VoteStep

-----------------------------------------------------------------------------
(* The actions of the children.                                            *)

\* Every child that drops its previous epoch does so in turn.
Turns == \A c \in Children : Turn(child[c], child'[c], Upstream(link', c) # {})

\* What the invariant says of the types.
LEMMA InvTypes ==
  ASSUME Inv
  PROVE  /\ link \in LinkTable /\ child \in [Children -> ChildState]
         /\ \A c \in Children : child[c] \in ChildState /\ Stage(child[c])
         /\ \A l \in Links : link[l] \in LinkState /\ l[1] \in Children
  BY TypesOf, LinkChild DEF Inv, All, Types, Staging

\* One child changes.
LEMMA TurnOne ==
  ASSUME Inv, NEW c \in Children, NEW h2, child' = [child EXCEPT ![c] = h2],
         Turn(child[c], h2, Upstream(link', c) # {})
  PROVE  Turns
<1>1. child'[c] = h2 /\ \A d \in Children \ {c} : child'[d] = child[d]
  BY InvTypes
<1> SUFFICES ASSUME NEW d \in Children PROVE Turn(child[d], child'[d], Upstream(link', d) # {})
  BY DEF Turns
<1>2. CASE d = c
  BY <1>1, <1>2
<1>3. CASE d # c
  BY <1>1, <1>3 DEF Turn
<1> QED
  BY <1>2, <1>3

LEMMA SameUpstream ==
  ASSUME NEW L, NEW L2, NEW c, \A m \in Links : L2[m].child = L[m].child
  PROVE  Upstream(L2, c) = Upstream(L, c)
  BY DEF Upstream, LinksOf

\* load drops the old epoch and stages the new one.
LEMMA StagesIs ==
  ASSUME NEW h \in ChildState, Stage(h), h.op.state \in {"loading", "retiring"}
  PROVE  /\ Stages(h) \in ChildState /\ Stage(Stages(h)) /\ SameChild(h, Stages(h)) /\ Stages(h).prev = 0
         /\ Stages(h).op.state = "working" /\ Stages(h).op.id = h.op.id /\ Stages(h).op.epoch = h.op.epoch
<1> DEFINE o == [h.op EXCEPT !.state = "working"]
<1>1. o \in OpState /\ o.id = h.op.id /\ o.state = "working" /\ o.epoch = h.op.epoch
  BY DEF ChildState, OpState
<1>2. Stages(h) = [h EXCEPT !.prev = 0, !.staged = h.op.epoch, !.op = o]
  BY DEF Stages
<1> HIDE DEF o
<1>3. h.op.epoch \in Epochs
  BY DEF ChildState, OpState
<1>4. /\ Stages(h) \in ChildState /\ SameChild(h, Stages(h)) /\ Stages(h).prev = 0 /\ Stages(h).op = o
      /\ Stages(h).staged = h.op.epoch /\ Stages(h).held = h.held
  BY <1>2, <1>1, <1>3, Zero DEF ChildState, SameChild
<1> QED
  BY <1>1, <1>4 DEF Stage

\* The reload of a child moves to another state.
Goes(h, state) == [h EXCEPT !.op.state = state]
LEMMA GoesIs ==
  ASSUME NEW h \in ChildState, NEW state \in {"loading", "retiring", "working", "prepared", "failing"}
  PROVE  /\ Goes(h, state) \in ChildState /\ SameChild(h, Goes(h, state)) /\ Goes(h, state).prev = h.prev
         /\ Goes(h, state).op.state = state /\ Goes(h, state).op.id = h.op.id
         /\ Goes(h, state).op.epoch = h.op.epoch /\ Goes(h, state).op.cancelled = h.op.cancelled
         /\ Goes(h, state).staged = h.staged /\ Goes(h, state).held = h.held
<1> DEFINE o == [h.op EXCEPT !.state = state]
<1>1. o \in OpState /\ o.id = h.op.id /\ o.state = state /\ o.epoch = h.op.epoch /\ o.cancelled = h.op.cancelled
  BY DEF ChildState, OpState
<1>2. Goes(h, state) = [h EXCEPT !.op = o]
  BY DEF Goes
<1> HIDE DEF o
<1> QED
  BY <1>1, <1>2 DEF ChildState, SameChild

LEMMA UnstagedIs ==
  ASSUME NEW h \in ChildState
  PROVE  LET r == [h EXCEPT !.staged = 0] IN
         r \in ChildState /\ SameChild(h, r) /\ r.prev = h.prev /\ r.op = h.op /\ r.held = h.held
  BY Zero DEF ChildState, SameChild

\* The steps of ChildReloads: loading, retirement, preparation and rollback.
LEMMA ChildLoadedKeeps ==
  ASSUME Inv, NEW c \in Children, ChildLoaded(c)
  PROVE  Inv' /\ Turns
<1> DEFINE h == child[c]
<1>1. h \in ChildState /\ Stage(h) /\ h.op.state = "loading" /\ All(srv, pass, link, child, root)
  BY InvTypes DEF ChildLoaded, Inv
<1>2. srv' = srv /\ pass' = pass /\ link' = link /\ root' = root
  BY DEF ChildLoaded
<1>3. CASE h.op.cancelled
  <2> DEFINE h1 == [h EXCEPT !.staged = 0]
             h2 == Freed(h1, link, c)
  <2>1. child' = [child EXCEPT ![c] = h2]
    BY <1>3 DEF ChildLoaded
  <2>2. h1 \in ChildState /\ SameChild(h, h1) /\ h1.prev = h.prev
    BY <1>1, UnstagedIs
  <2> HIDE DEF h1
  <2>3. h2 \in ChildState /\ h2.prev \in {h.prev, 0} /\ SameChild(h, h2) /\ h2.op = NoOp /\ Stage(h2)
    BY <2>2, FreedIs DEF SameChild
  <2> HIDE DEF h2
  <2>4. All(srv, pass, link, [child EXCEPT ![c] = h2], root)
    BY <1>1, <2>3, StopStep
  <2>5. Turn(h, h2, Upstream(link', c) # {})
    BY <1>1, <2>3 DEF Turn, NoOp
  <2> QED
    BY <1>2, <2>1, <2>4, <2>5, TurnOne DEF Inv
<1>4. CASE ~h.op.cancelled /\ h.prev # 0 /\ ChildRoots(h, h.prev) # {}
  <2> DEFINE h2 == Goes(h, "retiring")
  <2>1. child' = [child EXCEPT ![c] = h2]
    BY <1>4 DEF ChildLoaded, Goes
  <2>2. /\ h2 \in ChildState /\ SameChild(h, h2) /\ h2.prev = h.prev /\ h2.op.state = "retiring"
        /\ h2.op.id = h.op.id /\ h2.op.epoch = h.op.epoch /\ h2.held = h.held
    BY <1>1, GoesIs
  <2> HIDE DEF h2
  <2>3. Stage(h2)
    BY <1>1, <2>2 DEF Stage
  <2>4. All(srv, pass, link, [child EXCEPT ![c] = h2], root)
    BY <1>1, <2>2, <2>3, GoOnStep
  <2>5. Turn(h, h2, Upstream(link', c) # {})
    BY <2>2 DEF Turn
  <2> QED
    BY <1>2, <2>1, <2>4, <2>5, TurnOne DEF Inv
<1>5. CASE ~h.op.cancelled /\ ~(h.prev # 0 /\ ChildRoots(h, h.prev) # {})
  <2> DEFINE h2 == Stages(h)
  <2>1. child' = [child EXCEPT ![c] = h2]
    BY <1>5 DEF ChildLoaded
  <2>2. /\ h2 \in ChildState /\ SameChild(h, h2) /\ h2.prev = 0 /\ h2.op.state = "working"
        /\ h2.op.id = h.op.id /\ h2.op.epoch = h.op.epoch /\ Stage(h2)
    BY <1>1, StagesIs
  <2> HIDE DEF h2
  <2>4. All(srv, pass, link, [child EXCEPT ![c] = h2], root)
    BY <1>1, <2>2, GoOnStep
  <2>5. Turn(h, h2, Upstream(link', c) # {})
    BY <1>1, <2>2 DEF Turn
  <2> QED
    BY <1>2, <2>1, <2>4, <2>5, TurnOne DEF Inv
<1> QED
  BY <1>3, <1>4, <1>5

LEMMA ChildLoadFailsKeeps ==
  ASSUME Inv, NEW c \in Children, ChildLoadFails(c)
  PROVE  Inv' /\ Turns
<1> DEFINE h == child[c]
           h2 == [h EXCEPT !.op = NoOp]
<1>1. h \in ChildState /\ Stage(h) /\ h.op.state = "loading" /\ All(srv, pass, link, child, root)
  BY InvTypes DEF ChildLoadFails, Inv
<1>2. srv' = srv /\ pass' = pass /\ root' = root /\ link' = Vote(h, link, c, "no")
  BY DEF ChildLoadFails
<1>3. child' = [child EXCEPT ![c] = h2]
  BY DEF ChildLoadFails
<1>4. h2 \in ChildState /\ SameChild(h, h2) /\ h2.prev = h.prev /\ h2.op = NoOp /\ h2.held = h.held
  BY <1>1, InitTypes DEF ChildState, SameChild
<1> HIDE DEF h2
<1>5. Stage(h2)
  BY <1>4 DEF Stage, NoOp
<1>6. All(srv, pass, Vote(h, link, c, "no"), [child EXCEPT ![c] = h2], root)
  BY <1>1, <1>4, <1>5, RefuseStep
<1>7. Turn(h, h2, Upstream(link', c) # {})
  BY <1>4 DEF Turn
<1> QED
  BY <1>2, <1>3, <1>6, <1>7, TurnOne DEF Inv

LEMMA ChildRetirementEndsKeeps ==
  ASSUME Inv, NEW c \in Children, ChildRetirementEnds(c)
  PROVE  Inv' /\ Turns
<1> DEFINE h == child[c]
           h1 == Stages(h)
<1>1. h \in ChildState /\ Stage(h) /\ h.op.state = "retiring" /\ All(srv, pass, link, child, root)
  BY InvTypes DEF ChildRetirementEnds, Inv
<1>2. srv' = srv /\ pass' = pass /\ link' = link /\ root' = root
  BY DEF ChildRetirementEnds
<1>3. /\ h1 \in ChildState /\ SameChild(h, h1) /\ h1.prev = 0 /\ h1.op.state = "working"
      /\ h1.op.id = h.op.id /\ h1.op.epoch = h.op.epoch /\ Stage(h1)
  BY <1>1, StagesIs
<1>4. CASE h.op.cancelled
  <2> DEFINE h2 == Freed(h1, link, c)
  <2>1. child' = [child EXCEPT ![c] = h2]
    BY <1>4 DEF ChildRetirementEnds
  <2> HIDE DEF h1
  <2>2. h2 \in ChildState /\ h2.prev \in {h.prev, 0} /\ SameChild(h, h2) /\ h2.op = NoOp /\ Stage(h2)
    BY <1>3, FreedIs DEF SameChild
  <2> HIDE DEF h2
  <2>4. All(srv, pass, link, [child EXCEPT ![c] = h2], root)
    BY <1>1, <2>2, StopStep
  <2>5. Turn(h, h2, Upstream(link', c) # {})
    BY <1>1, <2>2 DEF Turn, NoOp
  <2> QED
    BY <1>2, <2>1, <2>4, <2>5, TurnOne DEF Inv
<1>5. CASE ~h.op.cancelled
  <2>1. child' = [child EXCEPT ![c] = h1]
    BY <1>5 DEF ChildRetirementEnds
  <2> HIDE DEF h1
  <2>4. All(srv, pass, link, [child EXCEPT ![c] = h1], root)
    BY <1>1, <1>3, GoOnStep
  <2>5. Turn(h, h1, Upstream(link', c) # {})
    BY <1>1, <1>3 DEF Turn
  <2> QED
    BY <1>2, <2>1, <2>4, <2>5, TurnOne DEF Inv
<1> QED
  BY <1>4, <1>5

LEMMA ChildPreparesKeeps ==
  ASSUME Inv, NEW c \in Children, ChildPrepares(c)
  PROVE  Inv' /\ Turns
<1> DEFINE h == child[c]
<1>1. h \in ChildState /\ Stage(h) /\ h.op.state = "working" /\ All(srv, pass, link, child, root)
  BY InvTypes DEF ChildPrepares, Inv
<1>2. srv' = srv /\ pass' = pass /\ root' = root
  BY DEF ChildPrepares
<1>3. CASE h.op.cancelled
  <2> DEFINE h2 == Freed(h, link, c)
  <2>1. child' = [child EXCEPT ![c] = h2] /\ link' = link
    BY <1>3 DEF ChildPrepares
  <2>2. /\ h2 \in ChildState /\ h2.prev \in {h.prev, 0} /\ SameChild(h, h2) /\ h2.op = NoOp /\ Stage(h2)
        /\ Turn(h, h2, Upstream(link, c) # {})
    BY <1>1, FreedIs
  <2> HIDE DEF h2
  <2>3. All(srv, pass, link, [child EXCEPT ![c] = h2], root)
    BY <1>1, <2>2, StopStep
  <2> QED
    BY <1>2, <2>1, <2>2, <2>3, TurnOne DEF Inv
<1>4. CASE ~h.op.cancelled /\ child' = [child EXCEPT ![c].op.state = "prepared"] /\ link' = Vote(h, link, c, "yes")
  <2> DEFINE h2 == Goes(h, "prepared")
  <2>1. child' = [child EXCEPT ![c] = h2]
    BY <1>4 DEF Goes
  <2>2. /\ h2 \in ChildState /\ SameChild(h, h2) /\ h2.prev = h.prev /\ h2.op.state = "prepared"
        /\ h2.op.id = h.op.id /\ h2.op.epoch = h.op.epoch /\ h2.op.cancelled = h.op.cancelled
        /\ h2.staged = h.staged /\ h2.held = h.held
    BY <1>1, GoesIs
  <2> HIDE DEF h2
  <2>3. Stage(h2)
    BY <1>1, <1>4, <2>2 DEF Stage
  <2>4. All(srv, pass, Vote(h, link, c, "yes"), [child EXCEPT ![c] = h2], root)
    BY <1>1, <1>4, <2>2, <2>3, AcceptStep
  <2>5. Turn(h, h2, Upstream(link', c) # {})
    BY <2>2 DEF Turn
  <2> QED
    BY <1>2, <1>4, <2>1, <2>4, <2>5, TurnOne DEF Inv
<1>5. CASE ~h.op.cancelled /\ child' = [child EXCEPT ![c].op.state = "failing"] /\ link' = link
  <2> DEFINE h2 == Goes(h, "failing")
  <2>1. child' = [child EXCEPT ![c] = h2]
    BY <1>5 DEF Goes
  <2>2. /\ h2 \in ChildState /\ SameChild(h, h2) /\ h2.prev = h.prev /\ h2.op.state = "failing"
        /\ h2.op.id = h.op.id /\ h2.op.epoch = h.op.epoch /\ h2.held = h.held
    BY <1>1, GoesIs
  <2> HIDE DEF h2
  <2>3. Stage(h2)
    BY <1>1, <2>2 DEF Stage
  <2>4. All(srv, pass, link, [child EXCEPT ![c] = h2], root)
    BY <1>1, <2>2, <2>3, GoOnStep
  <2>5. Turn(h, h2, Upstream(link', c) # {})
    BY <2>2 DEF Turn
  <2> QED
    BY <1>2, <1>5, <2>1, <2>4, <2>5, TurnOne DEF Inv
<1> QED
  BY <1>3, <1>4, <1>5 DEF ChildPrepares

LEMMA ChildRolledBackKeeps ==
  ASSUME Inv, NEW c \in Children, ChildRolledBack(c)
  PROVE  Inv' /\ Turns
<1> DEFINE h == child[c]
<1>1. h \in ChildState /\ Stage(h) /\ All(srv, pass, link, child, root)
  BY InvTypes DEF Inv
<1>2. srv' = srv /\ pass' = pass /\ root' = root
  BY DEF ChildRolledBack
<1>3. CASE /\ h.op.state = "failing"
           /\ child' = [child EXCEPT ![c] = Freed([h EXCEPT !.staged = 0], link, c)]
           /\ link' = Vote(h, link, c, "no")
  <2> DEFINE h1 == [h EXCEPT !.staged = 0]
             h2 == Freed(h1, link, c)
  <2>1. child' = [child EXCEPT ![c] = h2]
    BY <1>3
  <2>2. h1 \in ChildState /\ SameChild(h, h1) /\ h1.prev = h.prev
    BY <1>1, UnstagedIs
  <2> HIDE DEF h1
  <2>3. h2 \in ChildState /\ h2.prev \in {h.prev, 0} /\ SameChild(h, h2) /\ h2.op = NoOp /\ Stage(h2)
    BY <2>2, FreedIs DEF SameChild
  <2> HIDE DEF h2
  <2>4. All(srv, pass, Vote(h, link, c, "no"), [child EXCEPT ![c] = h2], root)
    BY <1>1, <1>3, <2>3, RefuseStep
  <2>5. Turn(h, h2, Upstream(link', c) # {})
    BY <1>1, <1>3 DEF Turn, Stage
  <2> QED
    BY <1>2, <1>3, <2>1, <2>4, <2>5, TurnOne DEF Inv
<1>4. CASE /\ h.held
           /\ child' = [child EXCEPT ![c] = Freed([h EXCEPT !.staged = 0, !.held = FALSE], link, c)]
           /\ link' = link
  <2> DEFINE h1 == [h EXCEPT !.staged = 0, !.held = FALSE]
             h2 == Freed(h1, link, c)
  <2>1. child' = [child EXCEPT ![c] = h2]
    BY <1>4
  <2>2. h1 \in ChildState /\ SameChild(h, h1) /\ h1.prev = h.prev /\ h1.op = h.op
    BY <1>1, Zero DEF ChildState, SameChild
  <2> HIDE DEF h1
  <2>3. h.op.state = "none"
    BY <1>1, <1>4 DEF Stage
  <2>4. /\ h2 \in ChildState /\ h2.prev \in {h.prev, 0} /\ SameChild(h, h2) /\ h2.op = NoOp /\ Stage(h2)
        /\ Turn(h1, h2, Upstream(link, c) # {})
    BY <2>2, <2>3, FreedIs DEF SameChild
  <2> HIDE DEF h2
  <2>5. All(srv, pass, link, [child EXCEPT ![c] = h2], root)
    BY <1>1, <2>3, <2>4, StopStep
  <2>6. Turn(h, h2, Upstream(link', c) # {})
    BY <1>4, <2>2, <2>4 DEF Turn
  <2> QED
    BY <1>2, <1>4, <2>1, <2>5, <2>6, TurnOne DEF Inv
<1>5. CASE /\ h.loose > 0
           /\ child' = [child EXCEPT ![c] = [@ EXCEPT !.staged = 0, !.loose = h.loose - 1]]
           /\ link' = link
  <2> DEFINE n == h.loose - 1
             h2 == [h EXCEPT !.staged = 0, !.loose = n]
  <2>1. child' = [child EXCEPT ![c] = h2] /\ n \in Nat
    BY <1>1, <1>5 DEF ChildState
  <2> HIDE DEF n
  <2>2. /\ h2 \in ChildState /\ SameChild(h, h2) /\ h2.prev = h.prev /\ h2.op = h.op /\ h2.held = h.held
        /\ h2.staged = 0
    BY <1>1, <2>1, Zero DEF ChildState, SameChild
  <2> HIDE DEF h2
  <2>3. Stage(h2) /\ SameOp(h, h2)
    BY <1>1, <2>2 DEF Stage, SameOp, SameChild
  <2>4. All(srv, pass, link, [child EXCEPT ![c] = h2], root)
    BY <1>1, <2>2, <2>3, KeepStep DEF SameChild
  <2>5. Turn(h, h2, Upstream(link', c) # {})
    BY <2>2 DEF Turn
  <2> QED
    BY <1>2, <1>5, <2>1, <2>4, <2>5, TurnOne DEF Inv
<1> QED
  BY <1>3, <1>4, <1>5 DEF ChildRolledBack

\* A link whose child has read a frame.
Heard(k, k2) ==
    /\ k2.down = Tail(k.down) /\ k2.synced = k.synced /\ k2.epoch = k.epoch /\ k2.sync = k.sync /\ k2.missed = k.missed

\* A frame is taken from the queue of a child, and may be answered.
LEMMA HeardIs ==
  ASSUME NEW l \in Links, link \in LinkTable, link[l].down # <<>>
  PROVE  LET L2 == Received(l, "down") IN
         /\ L2 \in LinkTable /\ \A m \in Links \ {l} : L2[m] = link[m]
         /\ SameEnds(link[l], L2[l]) /\ Heard(link[l], L2[l]) /\ L2[l].up = link[l].up
<1>1. link[l] \in LinkState /\ link[l].down \in Seq(DownFrame) /\ Tail(link[l].down) \in Seq(DownFrame)
  BY TailIs DEF LinkTable, LinkState
<1> DEFINE k == [link[l] EXCEPT !.down = Tail(@)]
<1>2. Received(l, "down") = [link EXCEPT ![l] = k]
  BY DEF Received
<1>3. k \in LinkState /\ SameEnds(link[l], k) /\ Heard(link[l], k) /\ k.up = link[l].up
  BY <1>1 DEF LinkState, SameEnds, Heard
<1> HIDE DEF k
<1> QED
  BY <1>2, <1>3 DEF LinkTable

LEMMA ReplyIs ==
  ASSUME NEW l \in Links, link \in LinkTable, link[l].down # <<>>, NEW g \in UpFrame
  PROVE  LET L2 == SendUp(Received(l, "down"), l, <<g>>) IN
         /\ L2 \in LinkTable /\ \A m \in Links \ {l} : L2[m] = link[m]
         /\ SameEnds(link[l], L2[l]) /\ Heard(link[l], L2[l])
         /\ L2[l].up = IF OpenIn(link, l) THEN link[l].up \o <<g>> ELSE link[l].up
<1> DEFINE L1 == Received(l, "down")
           L2 == SendUp(L1, l, <<g>>)
<1>1. /\ L1 \in LinkTable /\ \A m \in Links \ {l} : L1[m] = link[m]
      /\ SameEnds(link[l], L1[l]) /\ Heard(link[l], L1[l]) /\ L1[l].up = link[l].up
  BY HeardIs
<1>2. <<g>> \in Seq(UpFrame)
  OBVIOUS
<1> HIDE DEF L1
<1>3. /\ L2 \in LinkTable /\ \A m \in Links \ {l} : L2[m] = L1[m]
      /\ L2[l] = IF OpenIn(L1, l) THEN [L1[l] EXCEPT !.up = @ \o <<g>>] ELSE L1[l]
  BY <1>1, <1>2, SendUpIs, Zenon
<1> HIDE DEF L2
<1>4. L1[l] \in LinkState /\ (OpenIn(L1, l) <=> OpenIn(link, l))
  BY <1>1 DEF LinkTable, OpenIn, SameEnds
<1>5. /\ SameEnds(L1[l], L2[l]) /\ L2[l].synced = L1[l].synced /\ L2[l].epoch = L1[l].epoch
      /\ L2[l].sync = L1[l].sync /\ L2[l].missed = L1[l].missed /\ L2[l].down = L1[l].down
      /\ L2[l].up = IF OpenIn(L1, l) THEN L1[l].up \o <<g>> ELSE L1[l].up
  BY <1>3, <1>4 DEF SameEnds, LinkState
<1> QED
  BY <1>1, <1>3, <1>4, <1>5 DEF SameEnds, Heard, L2, L1

\* The child reads a frame.
LEMMA HearStep ==
  ASSUME Inv, NEW l \in Links, link[l].child = "open", link[l].down # <<>>,
         NEW h2, Fit(srv, pass, link, child, h2),
         ASSUME NEW k2, Protocol(link[l], child[l[1]], Ask(pass, l)), Heard(link[l], k2), k2.up = link[l].up
         PROVE  Protocol(k2, h2, Ask(pass, l))
  PROVE  /\ All(srv, pass, Received(l, "down"), [child EXCEPT ![l[1]] = h2], root)
         /\ \A m \in Links : Received(l, "down")[m].child = link[m].child
<1> DEFINE L2 == Received(l, "down")
<1>1. /\ L2 \in LinkTable /\ \A m \in Links \ {l} : L2[m] = link[m]
      /\ SameEnds(link[l], L2[l]) /\ Heard(link[l], L2[l]) /\ L2[l].up = link[l].up
  BY HeardIs, InvTypes
<1> HIDE DEF L2
<1>2. OpenIn(link, l) /\ Protocol(link[l], child[l[1]], Ask(pass, l)) => Protocol(L2[l], h2, Ask(pass, l))
  BY <1>1
<1>3. /\ L2[l].down \in {link[l].down, Tail(link[l].down)} /\ (link[l].down = <<>> => L2[l].down = <<>>)
      /\ Speaks(srv, link[l], L2[l]) /\ All(srv, pass, link, child, root)
      /\ L2[l].synced = link[l].synced /\ L2[l].epoch = link[l].epoch /\ L2[l].sync = link[l].sync
      /\ L2[l].missed = link[l].missed
  BY <1>1 DEF Heard, Speaks, Inv
<1>4. All(srv, pass, L2, [child EXCEPT ![l[1]] = h2], root)
  BY <1>1, <1>2, <1>3, TalkStep
<1> QED
  BY <1>1, <1>4 DEF SameEnds, L2

\* The child refuses what it reads.
LEMMA ReplyStep ==
  ASSUME Inv, NEW l \in Links, link[l].child = "open", link[l].down # <<>>,
         Head(link[l].down).t \in {"prepare", "call"}, NEW g \in UpFrame,
         g.t = "result" \/ (g.t = "vote" /\ g.vote = "no" /\ g.id <= srv.ids)
  PROVE  /\ All(srv, pass, SendUp(Received(l, "down"), l, <<g>>), child, root)
         /\ \A m \in Links : SendUp(Received(l, "down"), l, <<g>>)[m].child = link[m].child
<1> DEFINE L2 == SendUp(Received(l, "down"), l, <<g>>)
           h == child[l[1]]
<1>1. /\ L2 \in LinkTable /\ \A m \in Links \ {l} : L2[m] = link[m]
      /\ SameEnds(link[l], L2[l]) /\ Heard(link[l], L2[l])
      /\ L2[l].up = IF OpenIn(link, l) THEN link[l].up \o <<g>> ELSE link[l].up
  BY ReplyIs, InvTypes
<1> HIDE DEF L2
<1>2. OpenIn(link, l) /\ Protocol(link[l], h, Ask(pass, l)) => Protocol(L2[l], h, Ask(pass, l))
  <2> SUFFICES ASSUME OpenIn(link, l), Protocol(link[l], h, Ask(pass, l)) PROVE Protocol(L2[l], h, Ask(pass, l))
    OBVIOUS
  <2>1. Says(link[l], L2[l]) /\ SameOp(h, h) /\ Head(link[l].down).t # "commit" /\ link[l] \in LinkState
    BY <1>1, InvTypes DEF Says, SameOp
  <2> QED
    BY <1>1, <2>1, ProtocolHears DEF Heard
<1>3. /\ L2[l].down \in {link[l].down, Tail(link[l].down)} /\ (link[l].down = <<>> => L2[l].down = <<>>)
      /\ Speaks(srv, link[l], L2[l]) /\ All(srv, pass, link, child, root)
      /\ L2[l].synced = link[l].synced /\ L2[l].epoch = link[l].epoch /\ L2[l].sync = link[l].sync
      /\ L2[l].missed = link[l].missed
  BY <1>1 DEF Heard, Speaks, Inv
<1>4. Fit(srv, pass, link, child, h) /\ [child EXCEPT ![l[1]] = h] = child
  <2>1. l[1] \in Children /\ child \in [Children -> ChildState]
    BY InvTypes
  <2> QED
    BY <1>3, <2>1, FitNow
<1>5. All(srv, pass, L2, [child EXCEPT ![l[1]] = h], root)
  BY <1>1, <1>2, <1>3, <1>4, TalkStep
<1> QED
  BY <1>1, <1>4, <1>5 DEF SameEnds, L2

\* What a child that reads a frame has in hand.
LEMMA ReadingIs ==
  ASSUME Inv, NEW l \in Links, ChildReceives(l)
  PROVE  LET h == child[l[1]]
             f == Head(link[l].down)
         IN /\ l[1] \in Children /\ h \in ChildState /\ Stage(h) /\ All(srv, pass, link, child, root)
            /\ link[l].child = "open" /\ link[l].down # <<>> /\ link[l] \in LinkState
            /\ f \in DownFrame /\ f \in Frames(link[l].down) /\ f \in OnTheWay(link)
            /\ srv' = srv /\ pass' = pass /\ root' = root
            /\ f.t \in Orders => f.id \in Nat /\ f.id # 0 /\ f.id <= srv.ids
<1> DEFINE f == Head(link[l].down)
<1>1. /\ l[1] \in Children /\ child[l[1]] \in ChildState /\ Stage(child[l[1]]) /\ All(srv, pass, link, child, root)
      /\ link[l].child = "open" /\ link[l].down # <<>> /\ link[l] \in LinkState
      /\ srv' = srv /\ pass' = pass /\ root' = root
  BY InvTypes DEF ChildReceives, Inv
<1>2. link[l].down \in Seq(DownFrame)
  BY <1>1 DEF LinkState
<1>3. f \in DownFrame /\ f \in Frames(link[l].down)
  BY <1>1, <1>2, TailIs
<1>4. f \in OnTheWay(link)
  BY <1>3 DEF OnTheWay
<1>5. f.t \in Orders => f.id \in Nat /\ f.id # 0 /\ f.id <= srv.ids
  BY <1>1, <1>3, <1>4, OrderIds DEF All, OneEpochEach
<1> QED
  BY <1>1, <1>3, <1>4, <1>5

\* A child with its slot free takes the reload offered.
LEMMA TakesKeeps ==
  ASSUME Inv, NEW l \in Links, ChildReceives(l), Head(link[l].down).t = "prepare", ~Busy(child[l[1]]),
         child' = [child EXCEPT ![l[1]] = ReceivePrepare(child[l[1]], Head(link[l].down))],
         link' = Received(l, "down")
  PROVE  Inv' /\ Turns
<1> DEFINE c == l[1]
           h == child[c]
           f == Head(link[l].down)
           o == [state |-> "loading", id |-> f.id, epoch |-> f.epoch, cancelled |-> FALSE]
           h2 == [h EXCEPT !.op = o]
<1>1. /\ c \in Children /\ h \in ChildState /\ Stage(h) /\ All(srv, pass, link, child, root)
      /\ link[l].child = "open" /\ link[l].down # <<>> /\ link[l] \in LinkState
      /\ f \in DownFrame /\ f \in OnTheWay(link) /\ f.t = "prepare"
      /\ srv' = srv /\ pass' = pass /\ root' = root
      /\ f.id \in Nat /\ f.id # 0
  BY ReadingIs DEF Orders
<1>2. child' = [child EXCEPT ![c] = h2]
  BY DEF ReceivePrepare
<1>3. f.epoch \in Epochs
  BY <1>1 DEF DownFrame, Bye, Frame
<1> HIDE DEF f
<1>4. o \in OpState /\ o.state = "loading" /\ o.id = f.id /\ o.epoch = f.epoch
  BY <1>1, <1>3 DEF OpState
<1> HIDE DEF o
<1>5. h2 \in ChildState /\ SameChild(h, h2) /\ h2.prev = h.prev /\ h2.op = o /\ h2.held = h.held
  BY <1>1, <1>4 DEF ChildState, SameChild
<1> HIDE DEF h2
<1>6. h.op.state = "none" /\ ~h.held
  BY DEF Busy
<1>7. Stage(h2)
  BY <1>1, <1>4, <1>5, <1>6 DEF Stage
<1>8. Fit(srv, pass, link, child, h2)
  <2>1. Offered(pass, link, child, o.id, o.epoch)
    BY <1>1, <1>4, Offering
  <2>2. Fit(srv, pass, link, child, h)
    BY <1>1, FitNow
  <2> QED
    BY <1>5, <1>7, <2>1, <2>2 DEF Fit, SameChild
<1>9. ASSUME NEW k2, Protocol(link[l], h, Ask(pass, l)), Heard(link[l], k2), k2.up = link[l].up
      PROVE  Protocol(k2, h2, Ask(pass, l))
  <2>1. h2.cur = h.cur /\ h2.failed = h.failed /\ h2.op.state = "loading" /\ h2.op.id = Head(link[l].down).id
    BY <1>4, <1>5 DEF SameChild, f
  <2>2. Head(link[l].down).t = "prepare"
    OBVIOUS
  <2> QED
    BY <1>1, <1>6, <1>9, <2>1, <2>2, ProtocolTakes DEF Heard
<1>10. /\ All(srv, pass, Received(l, "down"), [child EXCEPT ![c] = h2], root)
  BY <1>1, <1>8, <1>9, HearStep
<1>11. Turn(h, h2, Upstream(link', c) # {})
  BY <1>5 DEF Turn
<1> QED
  BY <1>1, <1>2, <1>10, <1>11, TurnOne DEF Inv

\* A child reads what changes nothing of its reload.
LEMMA HearsKeeps ==
  ASSUME Inv, NEW l \in Links, ChildReceives(l), link' = Received(l, "down"),
         NEW h2 \in ChildState, child' = [child EXCEPT ![l[1]] = h2],
         Stage(h2), h2.prev \in {child[l[1]].prev, 0}, SameOp(child[l[1]], h2), Retired(srv, h2.allowed),
         Head(link[l].down).t = "commit" /\ Head(link[l].down).id = child[l[1]].op.id => child[l[1]].op.state # "prepared",
         Turn(child[l[1]], h2, Upstream(link, l[1]) # {})
  PROVE  Inv' /\ Turns
<1> DEFINE c == l[1]
           h == child[c]
<1>1. /\ c \in Children /\ All(srv, pass, link, child, root)
      /\ link[l].child = "open" /\ link[l].down # <<>> /\ link[l] \in LinkState
      /\ srv' = srv /\ pass' = pass /\ root' = root
  BY ReadingIs
<1>2. Fit(srv, pass, link, child, h2)
  <2>1. Fit(srv, pass, link, child, h)
    BY <1>1, FitNow
  <2> QED
    BY <2>1 DEF Fit, SameOp
<1>3. ASSUME NEW k2, Protocol(link[l], h, Ask(pass, l)), Heard(link[l], k2), k2.up = link[l].up
      PROVE  Protocol(k2, h2, Ask(pass, l))
  BY <1>1, <1>3, ProtocolHears DEF Heard, Says
<1>4. /\ All(srv, pass, Received(l, "down"), [child EXCEPT ![c] = h2], root)
      /\ \A m \in Links : Received(l, "down")[m].child = link[m].child
  BY <1>1, <1>2, <1>3, HearStep
<1>5. Upstream(link', c) = Upstream(link, c)
  BY <1>4, SameUpstream
<1> QED
  BY <1>1, <1>4, <1>5, TurnOne DEF Inv

\* The reload is called off.
LEMMA AbortedKeeps ==
  ASSUME Inv, NEW l \in Links, ChildReceives(l), Head(link[l].down).t = "abort",
         child' = [child EXCEPT ![l[1]] = IF child[l[1]].op.id = Head(link[l].down).id
                                          THEN Cancel(child[l[1]]) ELSE child[l[1]]],
         link' = Received(l, "down")
  PROVE  Inv' /\ Turns
<1> DEFINE c == l[1]
           h == child[c]
           f == Head(link[l].down)
           h2 == IF h.op.id = f.id THEN Cancel(h) ELSE h
<1>1. /\ c \in Children /\ h \in ChildState /\ Stage(h) /\ All(srv, pass, link, child, root)
      /\ link[l].child = "open" /\ link[l].down # <<>> /\ link[l] \in LinkState
      /\ f \in Frames(link[l].down)
      /\ srv' = srv /\ pass' = pass /\ root' = root /\ f.id # 0
  BY ReadingIs DEF Orders
<1>2. /\ h2 \in ChildState /\ Stage(h2) /\ SameChild(h, h2) /\ h2.prev = h.prev
      /\ h.op.state = "prepared" /\ h.op.id = f.id => h2.op = NoOp
      /\ ~(h.op.state = "prepared" /\ h.op.id = f.id) => SameOp(h, h2)
  BY <1>1, CancelIs DEF SameChild, SameOp
<1>3. child' = [child EXCEPT ![c] = h2] /\ f.t = "abort"
  OBVIOUS
<1> HIDE DEF h2
<1>4. CASE ~(h.op.state = "prepared" /\ h.op.id = f.id)
  <2>1. Retired(srv, h2.allowed)
    BY <1>1, <1>2 DEF SameChild, All, RetiredIsOld
  <2>2. Turn(h, h2, Upstream(link, c) # {})
    BY <1>2 DEF Turn
  <2> QED
    BY <1>1, <1>2, <1>3, <1>4, <2>1, <2>2, HearsKeeps
<1>5. CASE h.op.state = "prepared" /\ h.op.id = f.id
  <2>1. Fit(srv, pass, link, child, h2)
    BY <1>1, <1>2, <1>5, FitSame DEF NoOp
  <2>2. ASSUME NEW k2, Protocol(link[l], h, Ask(pass, l)), Heard(link[l], k2), k2.up = link[l].up
        PROVE  Protocol(k2, h2, Ask(pass, l))
    <3>1. f.id # link[l].sync.id /\ f.id # Ask(pass, l).id
      BY <1>1, <1>3, <2>2 DEF Protocol, Waits
    <3>2. ~Has(link[l].down, "commit", h.op.id)
      <4>1. Has(link[l].down, "abort", h.op.id)
        BY <1>1, <1>3, <1>5 DEF Has
      <4> QED
        BY <2>2, <4>1 DEF Protocol, CommitTells, Has, Frames
    <3>3. Protocol(link[l], h2, Ask(pass, l))
      <4>1. ~Undecided(link[l], Ask(pass, l), h.op.id)
        BY <1>5, <3>1 DEF Undecided
      <4> QED
        BY <1>1, <1>2, <1>5, <2>2, <3>2, <4>1, ProtocolStops DEF SameChild, Says
    <3>4. SameOp(h2, h2) /\ Says(link[l], k2)
      BY <2>2 DEF SameOp, Says
    <3> QED
      BY <1>1, <1>3, <2>2, <3>3, <3>4, ProtocolHears DEF Heard
  <2>3. All(srv, pass, Received(l, "down"), [child EXCEPT ![c] = h2], root)
    BY <1>1, <2>1, <2>2, HearStep
  <2>4. Turn(h, h2, Upstream(link', c) # {})
    BY <1>2 DEF Turn
  <2> QED
    BY <1>1, <1>3, <2>3, <2>4, TurnOne DEF Inv
<1> QED
  BY <1>4, <1>5

\* commit publishes what is staged.
LEMMA InstallIs ==
  ASSUME NEW h \in ChildState, Stage(h), h.op.state = "prepared", NEW throws \in BOOLEAN
  PROVE  LET h2 == Install(h, throws) IN
         /\ h2 \in ChildState /\ h2.op = h.op /\ h2.held = h.held /\ h2.allowed = h.allowed
         /\ \/ h2.failed /\ h2.cur = h.cur /\ h2.prev = h.prev
            \/ h2.cur = h.op.epoch /\ h2.prev = h.cur
<1>1. CASE h.staged = 0
  BY <1>1 DEF Install, ChildState
<1>2. CASE h.staged # 0
  <2> DEFINE failed == h.failed \/ throws
             h2 == [h EXCEPT !.prev = h.cur, !.cur = h.staged, !.staged = 0, !.failed = failed]
  <2>1. Install(h, throws) = h2 /\ h.staged = h.op.epoch /\ failed \in BOOLEAN
    BY <1>2 DEF Install, Stage
  <2> HIDE DEF failed
  <2>2. h2 \in ChildState /\ h2.op = h.op /\ h2.held = h.held /\ h2.allowed = h.allowed
        /\ h2.cur = h.staged /\ h2.prev = h.cur
    BY <2>1, Zero DEF ChildState
  <2> QED
    BY <2>1, <2>2
<1> QED
  BY <1>1, <1>2

\* The child publishes what it has prepared.
LEMMA InstallsKeeps ==
  ASSUME Inv, NEW l \in Links, ChildReceives(l), Head(link[l].down).t = "commit",
         child[l[1]].op.id = Head(link[l].down).id, child[l[1]].op.state = "prepared",
         NEW throws \in BOOLEAN, link' = Received(l, "down"),
         child' = [child EXCEPT ![l[1]] = Freed(Install(child[l[1]], throws), link, l[1])]
  PROVE  Inv' /\ Turns
<1> DEFINE c == l[1]
           h == child[c]
           f == Head(link[l].down)
           h1 == Install(h, throws)
           h2 == Freed(h1, link, c)
<1>1. /\ c \in Children /\ h \in ChildState /\ Stage(h) /\ All(srv, pass, link, child, root)
      /\ link[l].child = "open" /\ link[l].down # <<>> /\ link[l] \in LinkState
      /\ f \in OnTheWay(link) /\ f.t = "commit" /\ h.op.id = f.id /\ h.op.state = "prepared"
      /\ srv' = srv /\ pass' = pass /\ root' = root
  BY ReadingIs
<1>2. /\ h1 \in ChildState /\ h1.op = h.op /\ h1.allowed = h.allowed
      /\ \/ h1.failed /\ h1.cur = h.cur /\ h1.prev = h.prev
         \/ h1.cur = h.op.epoch /\ h1.prev = h.cur
  BY <1>1, InstallIs
<1> HIDE DEF h1
<1>3. /\ h2 \in ChildState /\ h2.prev \in {h1.prev, 0} /\ SameChild(h1, h2) /\ h2.op = NoOp /\ Stage(h2)
      /\ child' = [child EXCEPT ![c] = h2]
  BY <1>2, FreedIs DEF h1
<1> HIDE DEF h2
<1>4. h.op.epoch \in srv.ran
  <2>1. Offered(pass, link, child, h.op.id, h.op.epoch) /\ Committed(link, h.op.id)
    BY <1>1, Offering DEF Committed
  <2>2. h.op.id \in Nat /\ h.op.epoch \in Epochs
    BY <1>1 DEF ChildState, OpState
  <2> QED
    BY <1>1, <2>1, <2>2 DEF All, OneEpochEach
<1>5. Fit(srv, pass, link, child, h2)
  <2>1. Fit(srv, pass, link, child, h)
    BY <1>1, FitNow
  <2> QED
    BY <1>2, <1>3, <1>4, <2>1 DEF Fit, SameChild, NoOp
<1>6. ASSUME NEW k2, Protocol(link[l], h, Ask(pass, l)), Heard(link[l], k2), k2.up = link[l].up
      PROVE  Protocol(k2, h2, Ask(pass, l))
  <2>1. h2.cur = h.op.epoch \/ h2.failed
    BY <1>2, <1>3 DEF SameChild
  <2> QED
    BY <1>1, <1>3, <1>6, <2>1, ProtocolInstalls DEF Heard
<1>7. All(srv, pass, Received(l, "down"), [child EXCEPT ![c] = h2], root)
  BY <1>1, <1>5, <1>6, HearStep
<1>8. Turn(h, h2, Upstream(link', c) # {})
  BY <1>1 DEF Turn, Stage
<1> QED
  BY <1>1, <1>3, <1>7, <1>8, TurnOne DEF Inv

\* The parent has retired an epoch.
LEMMA RetiredKeeps ==
  ASSUME Inv, NEW l \in Links, ChildReceives(l), Head(link[l].down).t = "retire",
         NEW h1, h1 = [child[l[1]] EXCEPT !.allowed = IF Head(link[l].down).epoch > @ THEN Head(link[l].down).epoch ELSE @],
         child' = [child EXCEPT ![l[1]] = ChildRetires(h1, TRUE)],
         link' = Received(l, "down")
  PROVE  Inv' /\ Turns
<1> DEFINE c == l[1]
           h == child[c]
           f == Head(link[l].down)
           a == IF f.epoch > h.allowed THEN f.epoch ELSE h.allowed
           h2 == ChildRetires(h1, TRUE)
<1>1. /\ c \in Children /\ h \in ChildState /\ Stage(h) /\ All(srv, pass, link, child, root)
      /\ f \in DownFrame /\ f \in OnTheWay(link) /\ f.t = "retire"
  BY ReadingIs
<1>2. f.epoch \in Epochs /\ Retired(srv, f.epoch) /\ h.allowed \in Epochs /\ Retired(srv, h.allowed)
  BY <1>1 DEF DownFrame, Bye, Frame, Orders, ChildState, All, RetiredIsOld
<1>3. a \in Epochs /\ Retired(srv, a)
  BY <1>2
<1>4. h1 = [h EXCEPT !.allowed = a]
  OBVIOUS
<1> HIDE DEF a
<1>5. /\ h1 \in ChildState /\ h1.allowed = a /\ h1.prev = h.prev /\ h1.op = h.op /\ h1.cur = h.cur
      /\ h1.failed = h.failed /\ h1.runs = h.runs /\ h1.staged = h.staged /\ h1.held = h.held
  BY <1>1, <1>3, <1>4 DEF ChildState
<1>6. Stage(h1)
  BY <1>1, <1>5 DEF Stage
<1>7. /\ h2 \in ChildState /\ h2.prev \in {h.prev, 0} /\ SameChild(h1, h2) /\ h2.op = h.op
      /\ Stage(h2) /\ Turn(h1, h2, TRUE)
  BY <1>5, <1>6, RetiresIs
<1>8. child' = [child EXCEPT ![c] = h2]
  OBVIOUS
<1> HIDE DEF h2
<1>9. SameOp(h, h2) /\ Retired(srv, h2.allowed) /\ Turn(h, h2, Upstream(link, c) # {})
  BY <1>3, <1>5, <1>7 DEF SameOp, SameChild, Turn
<1> QED
  BY <1>1, <1>7, <1>8, <1>9, HearsKeeps

\* A call starts to run.
LEMMA CalledKeeps ==
  ASSUME Inv, NEW l \in Links, ChildReceives(l), Head(link[l].down).t = "call",
         child' = [child EXCEPT ![l[1]] =
            [child[l[1]] EXCEPT !.runs = @ \cup {[root |-> Head(link[l].down).id,
                                                  epoch |-> Head(link[l].down).epoch, link |-> l]}]],
         link' = Received(l, "down")
  PROVE  Inv' /\ Turns
<1> DEFINE c == l[1]
           h == child[c]
           f == Head(link[l].down)
           run == [root |-> f.id, epoch |-> f.epoch, link |-> l]
           h2 == [h EXCEPT !.runs = @ \cup {run}]
<1>1. /\ c \in Children /\ h \in ChildState /\ Stage(h) /\ All(srv, pass, link, child, root)
      /\ f \in DownFrame /\ f.t = "call"
  BY ReadingIs
<1>2. run \in RunRecord
  BY <1>1 DEF DownFrame, Bye, Frame, Orders, RunRecord
<1>3. child' = [child EXCEPT ![c] = h2]
  OBVIOUS
<1> HIDE DEF run
<1>4. /\ h2 \in ChildState /\ h2.allowed = h.allowed /\ h2.prev = h.prev /\ h2.op = h.op /\ h2.cur = h.cur
      /\ h2.failed = h.failed /\ h2.staged = h.staged /\ h2.held = h.held
  BY <1>1, <1>2 DEF ChildState
<1> HIDE DEF h2
<1>5. Stage(h2) /\ SameOp(h, h2) /\ Turn(h, h2, Upstream(link, c) # {})
  BY <1>1, <1>4 DEF Stage, SameOp, Turn
<1>6. Retired(srv, h2.allowed)
  BY <1>1, <1>4 DEF All, RetiredIsOld
<1> QED
  BY <1>1, <1>3, <1>4, <1>5, <1>6, HearsKeeps

\* A child refuses a reload, or a call of an epoch it does not run.
LEMMA RefusesKeeps ==
  ASSUME Inv, NEW l \in Links, ChildReceives(l), Head(link[l].down).t \in {"prepare", "call"},
         child' = [child EXCEPT ![l[1]] = child[l[1]]], NEW g \in UpFrame,
         g.t = "result" \/ (g.t = "vote" /\ g.vote = "no" /\ g.id <= srv.ids),
         link' = SendUp(Received(l, "down"), l, <<g>>)
  PROVE  Inv' /\ Turns
<1>1. /\ link[l].child = "open" /\ link[l].down # <<>>
      /\ srv' = srv /\ pass' = pass /\ root' = root /\ child' = child
  BY ReadingIs, InvTypes
<1>2. All(srv, pass, link', child, root)
  BY <1>1, ReplyStep
<1>3. Turns
  BY <1>1 DEF Turns, Turn
<1> QED
  BY <1>1, <1>2, <1>3 DEF Inv

\* The child closes its end and drops its reload.
LEMMA LeavesKeeps ==
  ASSUME Inv, NEW l \in Links, link[l].child = "open", srv' = srv, pass' = pass, root' = root,
         child' = [child EXCEPT ![l[1]] = Cancel(child[l[1]])], link' = CloseChildEnd(link, l)
  PROVE  Inv' /\ Turns
<1> DEFINE c == l[1]
           h == child[c]
           h2 == Cancel(h)
<1>1. c \in Children /\ h \in ChildState /\ Stage(h) /\ All(srv, pass, link, child, root)
  BY InvTypes DEF Inv
<1>2. /\ h2 \in ChildState /\ Stage(h2) /\ SameChild(h, h2) /\ h2.prev = h.prev
      /\ h2.op.state # "none" => h.op.state # "none" /\ h2.op.id = h.op.id /\ h2.op.epoch = h.op.epoch
  BY <1>1, CancelIs DEF SameOp, NoOp
<1> HIDE DEF h2
<1>3. Fit(srv, pass, link, child, h2)
  BY <1>1, <1>2, FitSame
<1>4. All(srv, pass, CloseChildEnd(link, l), [child EXCEPT ![c] = h2], root)
  BY <1>1, <1>3, LeaveStep
<1>5. child' = [child EXCEPT ![c] = h2]
  BY DEF h2
<1>6. Turn(h, h2, Upstream(link', c) # {})
  BY <1>2 DEF Turn
<1> QED
  BY <1>1, <1>4, <1>5, <1>6, TurnOne DEF Inv

\* Everything a child can receive.
LEMMA ChildReceivesKeeps ==
  ASSUME Inv, NEW l \in Links, ChildReceives(l)
  PROVE  Inv' /\ Turns
<1> DEFINE h == child[l[1]]
           f == Head(link[l].down)
           heard == Received(l, "down")
           Becomes(new, L) == child' = [child EXCEPT ![l[1]] = new] /\ link' = L
<1>1. /\ l[1] \in Children /\ h \in ChildState /\ link[l].child = "open" /\ f \in DownFrame
      /\ srv' = srv /\ pass' = pass /\ root' = root
      /\ f.t \in Orders => f.id \in Nat /\ f.id # 0 /\ f.id <= srv.ids
  BY ReadingIs
<1>2. CASE f.t = "prepare" /\ ~Busy(h) /\ Becomes(ReceivePrepare(h, f), heard)
  BY <1>2, TakesKeeps
<1>3. CASE f.t = "prepare" /\ Busy(h) /\ Becomes(h, SendUp(heard, l, Refusal(f)))
  <2> DEFINE g == [t |-> "vote", id |-> f.id, vote |-> "no"]
  <2>1. f.id \in Nat \ {0} /\ f.id <= srv.ids
    BY <1>1, <1>3 DEF Orders
  <2>2. g \in UpFrame /\ g.t = "vote" /\ g.vote = "no" /\ g.id <= srv.ids
    BY <2>1, FrameTypes
  <2>3. Refusal(f) = <<g>>
    BY DEF Refusal
  <2> HIDE DEF g
  <2>4. link' = SendUp(Received(l, "down"), l, <<g>>) /\ child' = [child EXCEPT ![l[1]] = child[l[1]]]
        /\ Head(link[l].down).t \in {"prepare", "call"}
    BY <1>3, <2>3
  <2> QED
    BY <2>2, <2>4, RefusesKeeps
<1>4. CASE f.t = "abort" /\ Becomes(IF h.op.id = f.id THEN Cancel(h) ELSE h, heard)
  BY <1>4, AbortedKeeps
<1>5. CASE /\ f.t = "commit"
           /\ \E throws \in BOOLEAN :
                 Becomes(IF h.op.id = f.id /\ h.op.state = "prepared" THEN Freed(Install(h, throws), link, l[1]) ELSE h, heard)
  <2>1. CASE h.op.id = f.id /\ h.op.state = "prepared"
    BY <1>5, <2>1, InstallsKeeps
  <2>2. CASE ~(h.op.id = f.id /\ h.op.state = "prepared")
    <3>1. child' = [child EXCEPT ![l[1]] = h] /\ link' = Received(l, "down")
      BY <1>5, <2>2
    <3>2. /\ Stage(h) /\ h.prev \in {h.prev, 0} /\ SameOp(h, h) /\ Retired(srv, h.allowed)
          /\ Turn(h, h, Upstream(link, l[1]) # {})
      BY <1>1, InvTypes DEF SameOp, Turn, Inv, All, RetiredIsOld
    <3> QED
      BY <1>1, <2>2, <3>1, <3>2, HearsKeeps
  <2> QED
    BY <2>1, <2>2
<1>6. CASE /\ f.t = "retire"
           /\ Becomes(ChildRetires([h EXCEPT !.allowed = IF f.epoch > @ THEN f.epoch ELSE @], TRUE), heard)
  BY <1>6, RetiredKeeps
<1>7. CASE /\ f.t = "call" /\ Retains(h, f.epoch)
           /\ Becomes([h EXCEPT !.runs = @ \cup {[root |-> f.id, epoch |-> f.epoch, link |-> l]}], heard)
  BY <1>7, CalledKeeps
<1>8. CASE /\ f.t = "call" /\ ~Retains(h, f.epoch)
           /\ Becomes(h, SendUp(heard, l, <<Frame("result", f.id, 0)>>))
  <2> DEFINE g == Frame("result", f.id, 0)
  <2>1. f.id \in Roots
    BY <1>1, <1>8 DEF DownFrame, Bye, Frame, Orders
  <2>2. g \in UpFrame /\ g.t = "result"
    BY <2>1, FrameTypes DEF Frame
  <2> HIDE DEF g
  <2>3. link' = SendUp(Received(l, "down"), l, <<g>>) /\ child' = [child EXCEPT ![l[1]] = child[l[1]]]
        /\ Head(link[l].down).t \in {"prepare", "call"}
    BY <1>8 DEF g
  <2> QED
    BY <2>2, <2>3, RefusesKeeps
<1>9. CASE f.t = "bye" /\ Becomes(Cancel(h), CloseChildEnd(link, l))
  BY <1>1, <1>9, LeavesKeeps
<1> QED
  BY <1>2, <1>3, <1>4, <1>5, <1>6, <1>7, <1>8, <1>9 DEF ChildReceives

LEMMA ChildNoticesKeeps ==
  ASSUME Inv, NEW l \in Links, ChildNotices(l)
  PROVE  Inv' /\ Turns
<1>1. /\ link[l].child = "open" /\ srv' = srv /\ pass' = pass /\ root' = root
      /\ child' = [child EXCEPT ![l[1]] = Cancel(child[l[1]])] /\ link' = CloseChildEnd(link, l)
  BY DEF ChildNotices
<1> QED
  BY <1>1, LeavesKeeps

\* A result goes up a link.
LEMMA ResultStep ==
  ASSUME Inv, NEW l \in Links, NEW g \in UpFrame, g.t = "result"
  PROVE  /\ All(srv, pass, SendUp(link, l, <<g>>), child, root)
         /\ \A m \in Links : SendUp(link, l, <<g>>)[m].child = link[m].child
<1> DEFINE L2 == SendUp(link, l, <<g>>)
           h == child[l[1]]
<1>1. /\ link \in LinkTable /\ link[l] \in LinkState /\ l[1] \in Children /\ child \in [Children -> ChildState]
      /\ All(srv, pass, link, child, root)
  BY InvTypes DEF Inv
<1>2. CASE ~OpenIn(link, l)
  BY <1>1, <1>2 DEF SendUp, OpenIn
<1>3. CASE OpenIn(link, l)
  <2>1. <<g>> \in Seq(UpFrame)
    OBVIOUS
  <2>2. /\ L2 \in LinkTable /\ \A m \in Links \ {l} : L2[m] = link[m]
        /\ L2[l] = [link[l] EXCEPT !.up = @ \o <<g>>]
    BY <1>1, <1>3, <2>1, SendUpIs, Zenon
  <2> HIDE DEF L2
  <2>3. /\ SameEnds(link[l], L2[l]) /\ L2[l].synced = link[l].synced /\ L2[l].epoch = link[l].epoch
        /\ L2[l].sync = link[l].sync /\ L2[l].missed = link[l].missed
        /\ L2[l].down = link[l].down /\ L2[l].up = link[l].up \o <<g>>
    BY <1>1, <2>2 DEF SameEnds, LinkState
  <2>4. /\ link[l].child = "open" /\ Speaks(srv, link[l], L2[l]) /\ Says(link[l], L2[l])
        /\ L2[l].down \in {link[l].down, Tail(link[l].down)} /\ (link[l].down = <<>> => L2[l].down = <<>>)
    BY <1>3, <2>3 DEF OpenIn, Speaks, Says
  <2>5. Fit(srv, pass, link, child, h) /\ [child EXCEPT ![l[1]] = h] = child
    BY <1>1, FitNow
  <2>6. ASSUME Protocol(link[l], h, Ask(pass, l)) PROVE Protocol(L2[l], h, Ask(pass, l))
    BY <1>1, <2>3, <2>4, <2>6, ProtocolSends
  <2>7. All(srv, pass, L2, [child EXCEPT ![l[1]] = h], root)
    <3>1. L2 \in LinkTable /\ \A m \in Links \ {l} : L2[m] = link[m]
      BY <2>2
    <3>2. OpenIn(link, l) /\ Protocol(link[l], h, Ask(pass, l)) => Protocol(L2[l], h, Ask(pass, l))
      BY <2>6
    <3>3. /\ SameEnds(link[l], L2[l]) /\ L2[l].synced = link[l].synced /\ L2[l].epoch = link[l].epoch
          /\ L2[l].sync = link[l].sync /\ L2[l].missed = link[l].missed
      BY <2>3
    <3>4. link[l].child = "open" /\ Fit(srv, pass, link, child, h) /\ All(srv, pass, link, child, root)
      BY <1>1, <2>4, <2>5
    <3> QED
      BY <2>4, <3>1, <3>2, <3>3, <3>4, TalkStep
  <2> QED
    BY <2>2, <2>3, <2>5, <2>7 DEF SameEnds, L2
<1> QED
  BY <1>2, <1>3

\* A call ends at a child.
LEMMA ChildReturnsKeeps ==
  ASSUME Inv, NEW c \in Children, ChildReturns(c)
  PROVE  Inv' /\ Turns
<1> DEFINE h == child[c]
<1>1. /\ h \in ChildState /\ Stage(h) /\ srv' = srv /\ pass' = pass /\ root' = root
  BY InvTypes DEF ChildReturns
<1>2. PICK run \in h.runs :
        /\ child' = [child EXCEPT ![c] = ChildRetires([h EXCEPT !.runs = @ \ {run}], Upstream(link, c) # {})]
        /\ link' = SendUp(link, run.link, <<Frame("result", run.root, 0)>>)
  BY DEF ChildReturns
<1>3. run.link \in Links /\ run.root \in Roots
  BY <1>1, <1>2 DEF ChildState, RunRecord
<1> DEFINE g == Frame("result", run.root, 0)
           R == h.runs \ {run}
           h1 == [h EXCEPT !.runs = R]
           h2 == ChildRetires(h1, Upstream(link, c) # {})
<1>4. g \in UpFrame /\ g.t = "result"
  BY <1>3, FrameTypes DEF Frame
<1>5. child' = [child EXCEPT ![c] = h2] /\ link' = SendUp(link, run.link, <<g>>)
  BY <1>2
<1>6. R \in SUBSET RunRecord
  BY <1>1 DEF ChildState
<1> HIDE DEF g, R
<1>7. /\ h1 \in ChildState /\ h1.allowed = h.allowed /\ h1.prev = h.prev /\ h1.op = h.op /\ h1.cur = h.cur
      /\ h1.failed = h.failed /\ h1.staged = h.staged /\ h1.held = h.held
  BY <1>1, <1>6 DEF ChildState
<1> HIDE DEF h1
<1>8. Stage(h1)
  BY <1>1, <1>7 DEF Stage
<1>9. /\ h2 \in ChildState /\ h2.prev \in {h.prev, 0} /\ SameChild(h1, h2) /\ h2.op = h.op
      /\ Stage(h2) /\ Turn(h1, h2, Upstream(link, c) # {})
  BY <1>7, <1>8, RetiresIs
<1> HIDE DEF h2
<1>10. All(srv, pass, link', child, root) /\ \A m \in Links : link'[m].child = link[m].child
  BY <1>3, <1>4, <1>5, ResultStep
<1>11. All(srv, pass, link', [child EXCEPT ![c] = h2], root)
  BY <1>7, <1>9, <1>10, KeepStep DEF SameChild, SameOp
<1>12. Turn(h, h2, Upstream(link', c) # {})
  BY <1>7, <1>9, <1>10, SameUpstream DEF Turn
<1> QED
  BY <1>1, <1>5, <1>11, <1>12, TurnOne DEF Inv

-----------------------------------------------------------------------------
(* Links come and go.                                                      *)

\* The link a child opens.
NewLink(e) == [NoLink EXCEPT !.server = "open", !.child = "open", !.alive = TRUE, !.up = <<Frame("hello", 0, e)>>]

\* A link as connect opens it.
LEMMA NewLinkIs ==
  ASSUME NEW e \in Epochs
  PROVE  /\ NewLink(e) \in LinkState /\ NewLink(e).server = "open" /\ NewLink(e).child = "open" /\ NewLink(e).alive
         /\ ~NewLink(e).synced /\ NewLink(e).sync = NoSync /\ NewLink(e).down = <<>>
         /\ NewLink(e).missed = {}
         /\ NewLink(e).up = <<Frame("hello", 0, e)>>
<1> DEFINE u == <<Frame("hello", 0, e)>>
<1>1. u \in Seq(UpFrame)
  BY FrameTypes
<1>2. NewLink(e) = [NoLink EXCEPT !.server = "open", !.child = "open", !.alive = TRUE, !.up = u]
  BY DEF NewLink
<1>3. NoLink \in LinkState /\ ~NoLink.synced /\ NoLink.sync = NoSync /\ NoLink.down = <<>> /\ NoLink.missed = {}
  BY InitTypes DEF NoLink
<1> HIDE DEF u
<1>4. /\ NewLink(e) \in LinkState /\ NewLink(e).server = "open" /\ NewLink(e).child = "open" /\ NewLink(e).alive
      /\ ~NewLink(e).synced /\ NewLink(e).sync = NoSync /\ NewLink(e).down = NoLink.down
      /\ NewLink(e).missed = {}
      /\ NewLink(e).up = u
  BY <1>1, <1>2, <1>3, SMT, ZenonT(60) DEF LinkState, Ends
<1> QED
  BY <1>3, <1>4 DEF u

\* A child without an open link joins.
LEMMA JoinStep ==
  ASSUME NEW L, NEW ch, All(srv, pass, L, ch, root), NEW c \in Children,
         \A m \in LinksOf(c) : L[m].child # "open", NEW l \in Links,
         l = <<c, Cardinality({m \in LinksOf(c) : L[m].child # "new"}) + 1>>
  PROVE  All(srv, pass, [L EXCEPT ![l] = NewLink(ch[c].cur)], ch, root)
<1> DEFINE L2 == [L EXCEPT ![l] = NewLink(ch[c].cur)]
<1>1. L \in LinkTable /\ ch[c].cur \in Epochs
  BY TypesOf DEF All, ChildState
<1>2. L2 \in LinkTable /\ (\A m \in Links \ {l} : L2[m] = L[m]) /\ L2[l] = NewLink(ch[c].cur)
  BY <1>1, NewLinkIs DEF LinkTable
<1> HIDE DEF L2
<1>3. /\ L2[l].server = "open" /\ L2[l].child = "open" /\ L2[l].alive /\ ~L2[l].synced /\ L2[l].sync = NoSync
      /\ L2[l].missed = {} /\ L2[l].down = <<>> /\ L2[l].up = <<Frame("hello", 0, ch[c].cur)>>
  BY <1>1, <1>2, NewLinkIs
<1>4. All(srv, pass, L2, ch, root)
  BY <1>2, <1>3, OpenStep
<1> QED
  BY <1>4 DEF L2

\* A child connects, and closes the link it had.
LEMMA ConnectKeeps ==
  ASSUME Inv, NEW c \in Children, Connect(c)
  PROVE  Inv' /\ Turns
<1> DEFINE h == child[c]
           l == <<c, Opened(c) + 1>>
           old == Upstream(link, c)
           o == CHOOSE m \in old : TRUE
           closed == IF old = {} THEN link ELSE CloseChildEnd(link, o)
           h2 == IF old = {} THEN h ELSE Cancel(h)
           ch2 == [child EXCEPT ![c] = h2]
<1>1. h \in ChildState /\ Stage(h) /\ child \in [Children -> ChildState] /\ All(srv, pass, link, child, root)
      /\ link \in LinkTable
  BY InvTypes DEF Inv
<1>2. /\ l \in Links /\ link' = [closed EXCEPT ![l] = NewLink(h2.cur)] /\ child' = ch2
      /\ srv' = srv /\ pass' = pass /\ root' = root
  BY DEF Connect, NewLink
<1>3. /\ h2 \in ChildState /\ Stage(h2) /\ SameChild(h, h2) /\ h2.prev = h.prev
      /\ h2.op.state # "none" => h.op.state # "none" /\ h2.op.id = h.op.id /\ h2.op.epoch = h.op.epoch
  BY <1>1, CancelIs DEF SameOp, NoOp, SameChild
<1>4. /\ All(srv, pass, closed, ch2, root) /\ \A m \in LinksOf(c) : closed[m].child # "open"
      /\ \A m \in Links : closed[m].child = "new" <=> link[m].child = "new"
  <2>1. CASE old = {}
    <3>1. closed = link /\ h2 = h
      BY <2>1
    <3>2. ch2 = child
      BY <1>1, <3>1
    <3> QED
      BY <1>1, <2>1, <3>1, <3>2 DEF Upstream
  <2>2. CASE old # {}
    <3>1. o \in old
      BY <2>2
    <3>2. o \in Links /\ o[1] = c /\ link[o].child = "open"
      BY <3>1 DEF Upstream, LinksOf
    <3>3. closed = CloseChildEnd(link, o)
      BY <2>2
    <3> HIDE DEF o, closed
    <3>4. Fit(srv, pass, link, child, h2)
      BY <1>1, <1>3, FitSame
    <3> HIDE DEF h2
    <3>5. /\ All(srv, pass, CloseChildEnd(link, o), [child EXCEPT ![o[1]] = h2], root)
          /\ \A m \in LinksOf(o[1]) : CloseChildEnd(link, o)[m].child # "open"
      BY <1>1, <3>2, <3>4, LeaveStep
    <3>6. /\ CloseChildEnd(link, o)[o].child = "closed"
          /\ \A m \in Links \ {o} : CloseChildEnd(link, o)[m] = link[m]
      BY <1>1, <3>2, CloseChildEndIs
    <3> QED
      BY <3>2, <3>3, <3>5, <3>6
  <2> QED
    BY <2>1, <2>2
<1>5. ch2[c] = h2 /\ Opened(c) = Cardinality({m \in LinksOf(c) : closed[m].child # "new"})
  <2>1. {m \in LinksOf(c) : closed[m].child # "new"} = {m \in LinksOf(c) : link[m].child # "new"}
    BY <1>4 DEF LinksOf
  <2>2. ch2[c] = h2
    BY <1>1
  <2> QED
    BY <2>1, <2>2 DEF Opened
<1>6. Turn(h, h2, Upstream(link', c) # {})
  BY <1>3 DEF Turn
<1>7. l = <<c, Cardinality({m \in LinksOf(c) : closed[m].child # "new"}) + 1>>
  BY <1>5
<1> HIDE DEF l, closed, h2, ch2
<1>8. All(srv, pass, link', ch2, root)
  BY <1>2, <1>4, <1>5, <1>7, JoinStep
<1>9. child' = [child EXCEPT ![c] = h2]
  BY <1>2 DEF ch2
<1>10. Turns
  BY <1>6, <1>9, TurnOne
<1> QED
  BY <1>2, <1>8, <1>10 DEF Inv

\* The transport breaks.
LEMMA CutKeeps ==
  ASSUME Inv, NEW l \in Links, Cut(l)
  PROVE  Inv' /\ Turns
<1> DEFINE none == <<>>
           k == [link[l] EXCEPT !.alive = FALSE, !.down = none, !.up = none]
<1>1. link' = [link EXCEPT ![l] = k] /\ srv' = srv /\ pass' = pass /\ child' = child /\ root' = root
  BY DEF Cut
<1>2. link \in LinkTable /\ link[l] \in LinkState /\ All(srv, pass, link, child, root)
  BY InvTypes DEF Inv
<1>3. none \in Seq(DownFrame) /\ none \in Seq(UpFrame)
  OBVIOUS
<1> HIDE DEF none
<1>4. /\ k \in LinkState /\ k.server = link[l].server /\ k.child = link[l].child /\ ~k.alive
      /\ k.down = none /\ k.up = none /\ k.synced = link[l].synced /\ k.sync = link[l].sync
      /\ k.epoch = link[l].epoch /\ k.missed = link[l].missed
  BY <1>2, <1>3 DEF LinkState
<1> HIDE DEF k
<1>5. link' \in LinkTable /\ (\A m \in Links \ {l} : link'[m] = link[m]) /\ link'[l] = k
  BY <1>1, <1>2, <1>4 DEF LinkTable
<1>6. All(srv, pass, link', child, root)
  BY <1>2, <1>4, <1>5, CutStep DEF none
<1>7. Turns
  BY <1>1 DEF Turns, Turn
<1> QED
  BY <1>1, <1>6, <1>7 DEF Inv

\* A child's process starts again.
LEMMA RestartKeeps ==
  ASSUME Inv, NEW c \in Children, Restart(c)
  PROVE  Inv' /\ Turns
<1> DEFINE none == <<>>
           Ended(k) == [k EXCEPT !.child = "closed", !.alive = FALSE, !.down = none, !.up = none]
<1>1. /\ link' = [l \in Links |-> IF l[1] = c /\ link[l].child = "open" THEN Ended(link[l]) ELSE link[l]]
      /\ child' = [child EXCEPT ![c] = Fresh] /\ srv' = srv /\ pass' = pass /\ root' = root
  BY DEF Restart
<1>2. link \in LinkTable /\ All(srv, pass, link, child, root)
  BY InvTypes DEF Inv
<1>3. none \in Seq(DownFrame) /\ none \in Seq(UpFrame)
  OBVIOUS
<1> HIDE DEF none
<1>4. ASSUME NEW k \in LinkState
      PROVE  /\ Ended(k) \in LinkState /\ Ended(k).server = k.server /\ Ended(k).child = "closed"
             /\ Ended(k).down = none /\ Ended(k).up = none
             /\ Ended(k).synced = k.synced /\ Ended(k).sync = k.sync
             /\ Ended(k).epoch = k.epoch /\ Ended(k).missed = k.missed
  BY <1>3 DEF LinkState, Ends
<1> HIDE DEF Ended
<1>5. \A l \in Links : link[l] \in LinkState
  BY <1>2 DEF LinkTable
<1>6. link' \in LinkTable
  BY <1>1, <1>4, <1>5 DEF LinkTable
<1>7. \A m \in Links : IF m[1] = c /\ link[m].child = "open"
        THEN /\ link'[m].server = link[m].server /\ link'[m].child = "closed" /\ link'[m].down = <<>> /\ link'[m].up = <<>>
             /\ link'[m].synced = link[m].synced /\ link'[m].sync = link[m].sync
             /\ link'[m].epoch = link[m].epoch /\ link'[m].missed = link[m].missed
        ELSE link'[m] = link[m]
  BY <1>1, <1>4, <1>5 DEF none
<1>8. All(srv, pass, link', [child EXCEPT ![c] = Fresh], root)
  BY <1>2, <1>6, <1>7, RestartStep
<1>9. Turn(child[c], Fresh, Upstream(link', c) # {})
  BY DEF Turn
<1> QED
  BY <1>1, <1>8, <1>9, TurnOne DEF Inv

-----------------------------------------------------------------------------
(* The server's reload, action by action.                                  *)

\* What the invariant says of the server.
LEMMA ServerTypes ==
  ASSUME Inv
  PROVE  /\ All(srv, pass, link, child, root) /\ srv \in ServerState /\ pass \in PassState /\ link \in LinkTable
         /\ srv.cur \in Nat /\ srv.prev \in Epochs /\ srv.seq \in Nat /\ srv.ids \in Nat
         /\ pass.id \in Nat /\ pass.epoch \in Epochs /\ DOMAIN pass.vote \in SUBSET Links
         /\ \A l \in Links : link[l] \in LinkState
         /\ root \in [Roots -> [epoch : Epochs, at : Links \cup {None}]]
         /\ \A r \in Roots : root[r].epoch \in srv.ran \cup {0}
         /\ srv.cur \in srv.ran
<1>1. All(srv, pass, link, child, root) /\ Types(srv, pass, link, child, root) /\ CallsKnown(srv, link, root)
  BY DEF Inv, All
<1>2. srv \in ServerState /\ pass \in PassState /\ root \in [Roots -> [epoch : Epochs, at : Links \cup {None}]]
  BY <1>1 DEF Types, ServerState
<1>3. (\A r \in Roots : root[r].epoch \in srv.ran \cup {0}) /\ srv.cur \in srv.ran
  BY <1>1 DEF CallsKnown, All, EpochsRise
<1> QED
  BY <1>1, <1>2, <1>3, TypesOf

\* A reload that asks nothing of any link.
LEMMA QuietStep ==
  ASSUME Inv, NEW p2 \in PassState, p2.phase \in {"idle", "loading", "unwinding"},
         p2.phase = "loading" => p2.epoch = srv.seq + 1,
         \A l \in DOMAIN p2.vote : link[l].child # "new" /\ (link[l].server = "open" => link[l].synced)
  PROVE  All(srv, p2, link, child, root)
<1>1. EpochsRise(srv, p2) /\ ServerEnds(link, p2)
  BY DEF Inv, All, EpochsRise, ServerEnds
<1>2. \A l \in Links : Weaker(Ask(pass, l), Ask(p2, l))
  BY DEF Ask, Weaker
<1> QED
  BY <1>1, <1>2, PassStep DEF Inv

\* The usable links take part.
LEMMA StartReloadKeeps ==
  ASSUME Inv, StartReload
  PROVE  Inv'
<1> DEFINE parts == {l \in Links : Usable(l)}
           asked == [l \in parts |-> "none"]
           e == srv.seq + 1
           p2 == [Idle EXCEPT !.phase = "loading", !.epoch = e, !.vote = asked]
<1>1. pass' = p2 /\ srv' = srv /\ link' = link /\ child' = child /\ root' = root /\ srv.seq < MaxEpoch
  BY DEF StartReload
<1>2. e \in Epochs
  BY <1>1, ServerTypes, BoundsAssumption DEF Epochs
<1>3. asked \in UNION {[P -> Votes] : P \in SUBSET Links} /\ DOMAIN asked = parts
  <2>1. asked \in [parts -> Votes] /\ parts \in SUBSET Links
    BY DEF Votes
  <2> QED
    BY <2>1
<1> HIDE DEF asked, e
<1>4. p2 \in PassState /\ p2.phase = "loading" /\ p2.epoch = e /\ p2.vote = asked
  BY <1>2, <1>3, InitTypes DEF PassState, Idle
<1> HIDE DEF p2
<1>5. \A l \in parts : link[l].child # "new" /\ link[l].synced
  BY DEF Usable, Inv, All, OneUpstream
<1>6. All(srv, p2, link, child, root)
  BY <1>3, <1>4, <1>5, QuietStep DEF e
<1> QED
  BY <1>1, <1>6 DEF Inv

LEMMA LoadFailsKeeps ==
  ASSUME Inv, LoadFails
  PROVE  Inv'
<1>1. pass' = Idle /\ srv' = srv /\ link' = link /\ child' = child /\ root' = root
  BY DEF LoadFails
<1>2. Idle \in PassState /\ Idle.phase = "idle" /\ DOMAIN Idle.vote = {}
  BY InitTypes, NoVotes DEF Idle
<1>3. All(srv, Idle, link, child, root)
  BY <1>2, QuietStep
<1> QED
  BY <1>1, <1>3 DEF Inv

LEMMA RolledBackKeeps ==
  ASSUME Inv, RolledBack
  PROVE  Inv'
<1>1. pass' = Idle /\ child' = child /\ root' = root /\ MaybeRetire(srv, root, link)
  BY DEF RolledBack
<1>2. Idle \in PassState /\ Idle.phase = "idle" /\ DOMAIN Idle.vote = {}
  BY InitTypes, NoVotes DEF Idle
<1>3. All(srv, Idle, link, child, root)
  BY <1>2, QuietStep
<1>4. All(srv', Idle, link', child, root)
  BY <1>1, <1>3, MaybeStep
<1> QED
  BY <1>1, <1>4 DEF Inv

LEMMA LocalSettlesKeeps ==
  ASSUME Inv, LocalSettles
  PROVE  Inv'
<1>1. PICK v \in {"yes", "no"} : pass' = [pass EXCEPT !.local = v] /\ (v = "yes" => pass.local = "working")
  BY DEF LocalSettles
<1>2. srv' = srv /\ link' = link /\ child' = child /\ root' = root /\ pass.phase = "preparing"
      /\ pass.local \in {"working", "failing"}
  BY DEF LocalSettles
<1>3. /\ pass' \in PassState /\ pass'.phase = pass.phase /\ pass'.local = v /\ pass'.id = pass.id
      /\ pass'.epoch = pass.epoch /\ pass'.vote = pass.vote
  BY <1>1, ServerTypes DEF PassState
<1>4. EpochsRise(srv, pass') /\ ServerEnds(link, pass')
  BY <1>1, <1>2, <1>3 DEF Inv, All, EpochsRise, ServerEnds
<1>5. \A l \in Links : Weaker(Ask(pass, l), Ask(pass', l))
  BY <1>2, <1>3 DEF Ask, Weaker, NoAsk
<1>6. All(srv, pass', link, child, root)
  BY <1>3, <1>4, <1>5, PassStep DEF Inv
<1> QED
  BY <1>2, <1>6 DEF Inv

LEMMA VoteMissingKeeps ==
  ASSUME Inv, NEW l \in Links, VoteMissing(l)
  PROVE  Inv'
<1> DEFINE v2 == [pass.vote EXCEPT ![l] = "no"]
<1>1. /\ pass' = [pass EXCEPT !.vote = v2] /\ srv' = srv /\ link' = link /\ child' = child /\ root' = root
      /\ pass.phase = "preparing" /\ l \in DOMAIN pass.vote
  BY ServerTypes DEF VoteMissing, PassState
<1>2. /\ v2 \in UNION {[P -> Votes] : P \in SUBSET Links} /\ DOMAIN v2 = DOMAIN pass.vote
      /\ \A m \in DOMAIN pass.vote : v2[m] \in {pass.vote[m], "no"}
  <2>1. PICK P \in SUBSET Links : pass.vote \in [P -> Votes]
    BY ServerTypes DEF PassState
  <2>2. v2 \in [P -> Votes]
    BY <2>1 DEF Votes
  <2> QED
    BY <2>1, <2>2
<1> HIDE DEF v2
<1>3. /\ pass' \in PassState /\ pass'.phase = pass.phase /\ pass'.local = pass.local /\ pass'.id = pass.id
      /\ pass'.epoch = pass.epoch /\ pass'.vote = v2
  BY <1>1, <1>2, ServerTypes DEF PassState
<1>4. EpochsRise(srv, pass') /\ ServerEnds(link, pass')
  BY <1>1, <1>2, <1>3 DEF Inv, All, EpochsRise, ServerEnds
<1>5. \A m \in Links : Weaker(Ask(pass, m), Ask(pass', m))
  BY <1>1, <1>2, <1>3 DEF Ask, Weaker, NoAsk
<1>6. All(srv, pass', link, child, root)
  BY <1>3, <1>4, <1>5, PassStep DEF Inv
<1> QED
  BY <1>1, <1>6 DEF Inv

\* The server waits for its old roots or loads, and then may not come to allocate the epoch.
LEMMA LoadsIs ==
  ASSUME Inv, NEW x \in {RetiresFirst(srv)} \cup Loads(srv)
  PROVE  /\ x.seq \in {srv.seq, pass.epoch} /\ x.seq \in Epochs /\ x.faults \in Nat
         /\ x.local \in {"retiring", "working", "failing"} /\ (x.local = "working" => x.seq = pass.epoch)
  BY ServerTypes DEF RetiresFirst, Loads, ServerState

\* The participants are asked to prepare.
LEMMA LoadedKeeps ==
  ASSUME Inv, Loaded
  PROVE  Inv'
<1> DEFINE id == srv.ids + 1
           f == Frame("prepare", id, pass.epoch)
           sent == SendEach(link, [l \in DOMAIN pass.vote |-> <<f>>])
           asked == [l \in DOMAIN pass.vote |-> "wait"]
<1>0. PICK x \in {RetiresFirst(srv)} \cup Loads(srv) :
        /\ pass' = [pass EXCEPT !.phase = "preparing", !.id = id, !.local = x.local, !.vote = asked]
        /\ MaybeRetire([srv EXCEPT !.ids = id, !.seq = x.seq, !.faults = x.faults], root, sent)
  BY DEF Loaded
<1> DEFINE how == x.local
           next == x.seq
           p2 == [pass EXCEPT !.phase = "preparing", !.id = id, !.local = how, !.vote = asked]
           s2 == [srv EXCEPT !.ids = id, !.seq = next, !.faults = x.faults]
<1>1. /\ pass' = p2 /\ MaybeRetire(s2, root, sent)
      /\ child' = child /\ root' = root /\ pass.phase = "loading"
  BY <1>0 DEF Loaded
<1>2. asked \in UNION {[P -> Votes] : P \in SUBSET Links} /\ DOMAIN asked = DOMAIN pass.vote
      /\ \A l \in DOMAIN pass.vote : asked[l] = "wait"
  <2>1. asked \in [DOMAIN pass.vote -> Votes] /\ DOMAIN pass.vote \in SUBSET Links
    BY ServerTypes DEF Votes
  <2> QED
    BY <2>1
<1>3. id \in Nat /\ id # 0 /\ next \in Epochs /\ how \in {"retiring", "working", "failing"} /\ x.faults \in Nat
  BY ServerTypes, LoadsIs
<1>4. f \in DownFrame
  BY <1>3, ServerTypes, FrameTypes DEF Orders
<1>5. Adds(link, sent, DOMAIN pass.vote, f)
  BY <1>4, ServerTypes, EachAdds
<1>6. next \in {srv.seq, pass.epoch} /\ (how \in {"working", "yes"} => next = pass.epoch)
  BY LoadsIs
<1> HIDE DEF asked, how, next, sent
<1>7. /\ p2 \in PassState /\ p2.phase = "preparing" /\ p2.epoch = pass.epoch /\ p2.id = id /\ p2.local = how
      /\ p2.vote = asked
  BY <1>2, <1>3, ServerTypes DEF PassState
<1>8. /\ s2 \in ServerState /\ s2.cur = srv.cur /\ s2.prev = srv.prev /\ s2.ran = srv.ran
      /\ s2.ids = id /\ s2.seq = next
  BY <1>3, ServerTypes DEF ServerState
<1>9. Adds(link, sent, DOMAIN pass.vote, Frame("prepare", s2.ids, pass.epoch))
  BY <1>5, <1>8
<1> HIDE DEF p2, s2
<1>10. All(s2, p2, sent, child, root)
  BY <1>1, <1>2, <1>6, <1>7, <1>8, <1>9, ServerTypes, OfferStep
<1>11. All(srv', p2, link', child, root)
  BY <1>1, <1>10, MaybeStep
<1> QED
  BY <1>1, <1>11 DEF Inv

\* The server gives its next epoch away, or does not come to it.
LEMMA SeqStep ==
  ASSUME NEW s, NEW p, NEW L, NEW ch, NEW rt, All(s, p, L, ch, rt), p.phase = "preparing",
         NEW s2 \in ServerState, s2.cur = s.cur, s2.prev = s.prev, s2.ran = s.ran, s2.ids = s.ids,
         s2.seq \in {s.seq, p.epoch}, p.local = "retiring"
  PROVE  All(s2, p, L, ch, rt)
<1>1. Types(s2, p, L, ch, rt)
  BY DEF All, Types, ServerState
<1>2. EpochsRise(s2, p)
  BY TypesOf DEF All, EpochsRise
<1>3. OneEpochEach(s2, p, L, ch) /\ CallsKnown(s2, L, rt)
  BY DEF All, OneEpochEach, CallsKnown
<1>4. RetiredIsOld(s2, L, ch) /\ EpochsRun(s2, L, ch) /\ Missed(s2, L)
  BY DEF All, RetiredIsOld, EpochsRun, Retired, Missed, MissedIn
<1> QED
  BY <1>1, <1>2, <1>3, <1>4 DEF All

LEMMA RetirementEndsKeeps ==
  ASSUME Inv, RetirementEnds
  PROVE  Inv'
<1> DEFINE s1 == [srv EXCEPT !.prev = 0]
           L1 == IF srv.prev = 0 THEN link ELSE TellRetired(link, srv.prev)
<1>0. PICK x \in Loads(srv) :
        pass' = [pass EXCEPT !.local = x.local] /\ srv' = [srv EXCEPT !.prev = 0, !.seq = x.seq, !.faults = x.faults]
  BY DEF RetirementEnds
<1>x. /\ x.seq \in {srv.seq, pass.epoch} /\ x.seq \in Epochs /\ x.faults \in Nat
      /\ x.local \in {"retiring", "working", "failing"} /\ (x.local = "working" => x.seq = pass.epoch)
  BY LoadsIs
<1> DEFINE p2 == [pass EXCEPT !.local = x.local]
           s2 == [srv EXCEPT !.prev = 0, !.seq = x.seq, !.faults = x.faults]
<1>1. /\ pass' = p2 /\ srv' = s2 /\ link' = L1 /\ child' = child /\ root' = root
      /\ pass.phase = "preparing" /\ pass.local = "retiring"
  BY <1>0 DEF RetirementEnds
<1>2. s1 \in ServerState /\ s1.cur = srv.cur /\ s1.prev = 0 /\ s1.ran = srv.ran /\ s1.ids = srv.ids /\ s1.seq = srv.seq
  BY ServerTypes, Zero DEF ServerState
<1>3. /\ s2 \in ServerState /\ s2.cur = srv.cur /\ s2.prev = 0 /\ s2.ran = srv.ran /\ s2.ids = srv.ids
      /\ s2.seq = x.seq
  BY <1>x, ServerTypes, Zero DEF ServerState
<1>4. /\ p2 \in PassState /\ p2.phase = pass.phase /\ p2.local = x.local /\ p2.id = pass.id
      /\ p2.epoch = pass.epoch /\ p2.vote = pass.vote
  BY <1>x, ServerTypes DEF PassState
<1>5. All(s1, pass, L1, child, root)
  <2>1. CASE srv.prev = 0
    <3>1. s1 = srv
      BY <2>1, ServerTypes DEF ServerState
    <3> QED
      BY <2>1, <3>1 DEF Inv
  <2>2. CASE srv.prev # 0
    BY <2>2, RetireStep DEF Inv
  <2> QED
    BY <2>1, <2>2
<1> HIDE DEF s1, s2, p2, L1
<1>6. All(s2, pass, L1, child, root)
  BY <1>x, <1>1, <1>2, <1>3, <1>5, SeqStep
<1>7. EpochsRise(s2, p2) /\ ServerEnds(L1, p2)
  BY <1>x, <1>1, <1>3, <1>4, <1>6 DEF All, EpochsRise, ServerEnds
<1>8. \A l \in Links : Weaker(Ask(pass, l), Ask(p2, l))
  BY <1>4 DEF Ask, Weaker, NoAsk
<1>9. All(s2, p2, L1, child, root)
  BY <1>4, <1>6, <1>7, <1>8, PassStep
<1> QED
  BY <1>1, <1>9 DEF Inv

LEMMA AbortKeeps ==
  ASSUME Inv, Abort
  PROVE  Inv'
<1> DEFINE f == Frame("abort", pass.id, 0)
           sent == SendEach(link, [l \in DOMAIN pass.vote |-> <<f>>])
           p2 == [Idle EXCEPT !.phase = "unwinding"]
<1>1. pass.phase = "preparing" /\ child' = child /\ root' = root
  BY DEF Abort, AllSettled
<1>2. \/ pass' = p2 /\ link' = sent /\ srv' = srv
      \/ pass' = Idle /\ MaybeRetire(srv, root, sent)
  BY DEF Abort
<1>3. f \in DownFrame
  <2>1. pass.id # 0
    BY <1>1 DEF Inv, All, EpochsRise
  <2> QED
    BY <2>1, ServerTypes, Zero, FrameTypes DEF Orders
<1>4. Adds(link, sent, DOMAIN pass.vote, f)
  BY <1>3, ServerTypes, EachAdds
<1> HIDE DEF sent
<1>5. /\ Idle \in PassState /\ Idle.phase = "idle" /\ DOMAIN Idle.vote = {}
      /\ p2 \in PassState /\ p2.phase = "unwinding" /\ DOMAIN p2.vote = {}
  <2>1. Idle \in PassState /\ Idle.phase = "idle" /\ DOMAIN Idle.vote = {}
    BY InitTypes, NoVotes DEF Idle
  <2>2. p2 \in PassState /\ p2.phase = "unwinding" /\ p2.vote = Idle.vote
    BY <2>1 DEF PassState
  <2> QED
    BY <2>1, <2>2
<1> HIDE DEF p2
<1>6. All(srv, Idle, sent, child, root) /\ All(srv, p2, sent, child, root)
  BY <1>1, <1>4, <1>5, AbortStep DEF Inv
<1>7. CASE pass' = p2 /\ link' = sent /\ srv' = srv
  BY <1>1, <1>6, <1>7 DEF Inv
<1>8. CASE pass' = Idle /\ MaybeRetire(srv, root, sent)
  <2>1. All(srv', Idle, link', child, root)
    BY <1>6, <1>8, MaybeStep
  <2> QED
    BY <1>1, <1>8, <2>1 DEF Inv
<1> QED
  BY <1>2, <1>7, <1>8

LEMMA Joined ==
  ASSUME NEW S, NEW q \in Seq(S), NEW f \in S, NEW g \in S
  PROVE  /\ <<f>> \o <<g>> \in Seq(S) /\ <<f>> \o <<>> \in Seq(S) /\ <<>> \o <<g>> \in Seq(S) /\ <<>> \o <<>> \in Seq(S)
         /\ q \o (<<f>> \o <<g>>) = (q \o <<f>>) \o <<g>>
         /\ q \o (<<f>> \o <<>>) = q \o <<f>>
         /\ q \o (<<>> \o <<g>>) = q \o <<g>>
         /\ q \o (<<>> \o <<>>) = q
  OBVIOUS

Each(P, f) == [l \in P |-> <<f>>]
BothOf(fr, D, P, f, g) ==
    /\ DOMAIN fr = D \cup P
    /\ \A m \in D \cup P : fr[m] = (IF m \in D THEN <<f>> ELSE <<>>) \o (IF m \in P THEN <<g>> ELSE <<>>)

\* To send the commits and the first call at once is to send them one after the other.
LEMMA CommitAdds ==
  ASSUME NEW L \in LinkTable, NEW D \in SUBSET Links, NEW P \in SUBSET Links, NEW cf \in DownFrame, NEW gf \in DownFrame,
         NEW e \in Epochs, NEW fr, BothOf(fr, D, P, cf, gf),
         NEW L1, L1 = SendEach(L, Each(D, cf)),
         NEW L2, L2 = Moves(L1, D, e),
         NEW Q, Q = SendEach(L, fr),
         NEW L3, L3 = Moves(Q, D, e)
  PROVE  L2 \in LinkTable /\ Adds(L, L1, D, cf) /\ Adds(L2, L3, P, gf)
<1>1. Adds(L, L1, D, cf)
  BY EachAdds DEF Each
<1>0. /\ DOMAIN fr = D \cup P
      /\ \A m \in D \cup P : fr[m] = (IF m \in D THEN <<cf>> ELSE <<>>) \o (IF m \in P THEN <<gf>> ELSE <<>>)
  BY DEF BothOf
<1>2. \A m \in D \cup P : fr[m] \in Seq(DownFrame)
  BY <1>0, Joined
<1>3. Q \in LinkTable /\ \A m \in Links : Q[m] = IF m \in D \cup P /\ OpenIn(L, m) THEN [L[m] EXCEPT !.down = @ \o fr[m]] ELSE L[m]
  BY <1>0, <1>2, SendEachIs
<1>4. L1 \in LinkTable /\ \A m \in Links : L[m] \in LinkState /\ L1[m] \in LinkState /\ Q[m] \in LinkState
  BY <1>1, <1>3 DEF Adds, LinkTable
<1>5. ASSUME NEW m \in Links
      PROVE  /\ SameEnds(L[m], Q[m]) /\ SameLink(L[m], Q[m]) /\ Q[m].sync = L[m].sync
             /\ Q[m].down = IF m \in D \cup P /\ OpenIn(L, m) THEN L[m].down \o fr[m] ELSE L[m].down
  BY <1>3, <1>4 DEF SameEnds, SameLink, LinkState
<1>8. L2 \in LinkTable /\ L3 \in LinkTable
  <2>1. L2 = [m \in Links |-> L2[m]] /\ L3 = [m \in Links |-> L3[m]]
    BY DEF Moves
  <2>2. \A m \in Links : L2[m] \in LinkState /\ L3[m] \in LinkState
    <3> SUFFICES ASSUME NEW m \in Links PROVE Moves(L1, D, e)[m] \in LinkState /\ Moves(Q, D, e)[m] \in LinkState
      OBVIOUS
    <3>1. L1 \in LinkTable /\ Q \in LinkTable
      BY <1>1, <1>3 DEF Adds
    <3> QED
      BY <3>1, MovesIs
  <2> QED
    BY <2>1, <2>2, Zenon DEF LinkTable
<1>9. ASSUME NEW m \in Links
      PROVE  /\ SameEnds(L2[m], L3[m]) /\ SameLink(L2[m], L3[m]) /\ L3[m].sync = L2[m].sync
             /\ L3[m].down = Q[m].down /\ L2[m].down = L1[m].down /\ (OpenIn(L2, m) <=> OpenIn(L, m))
  <2>1. SameEnds(L[m], L1[m]) /\ SameLink(L[m], L1[m]) /\ L1[m].sync = L[m].sync /\ L1 \in LinkTable
    BY <1>1 DEF Adds
  <2>2. SameEnds(L[m], Q[m]) /\ SameLink(L[m], Q[m]) /\ Q[m].sync = L[m].sync
    BY <1>5
  <2>3. /\ SameEnds(L1[m], Q[m]) /\ SameLink(L1[m], Q[m]) /\ Q[m].sync = L1[m].sync
    BY <2>1, <2>2 DEF SameEnds, SameLink
  <2>4. /\ SameEnds(L1[m], L2[m]) /\ SameEnds(Q[m], L3[m]) /\ L3[m].down = Q[m].down /\ L2[m].down = L1[m].down
        /\ L2[m].up = L1[m].up /\ L3[m].up = Q[m].up /\ L2[m].synced = L1[m].synced /\ L3[m].synced = Q[m].synced
        /\ L2[m].sync = L1[m].sync /\ L3[m].sync = Q[m].sync
    BY <1>3, <2>1, MovesIs
  <2>5. L3[m].epoch = L2[m].epoch /\ L3[m].missed = L2[m].missed
    <3>1. Q[m].server = L1[m].server /\ Q[m].synced = L1[m].synced /\ Q[m].epoch = L1[m].epoch /\ Q[m].missed = L1[m].missed
      BY <2>3 DEF SameEnds, SameLink
    <3>2. CASE L1[m].server = "open" /\ m \in D
      BY <1>3, <2>1, <3>1, <3>2, MovesIs
    <3>3. CASE ~(L1[m].server = "open" /\ m \in D) /\ L1[m].synced /\ m \notin D
      <4>1. L2[m].epoch = L1[m].epoch /\ L2[m].missed = L1[m].missed \cup {e}
        BY <2>1, <3>3, MovesIs
      <4>2. ~(Q[m].server = "open" /\ m \in D) /\ Q[m].synced /\ m \notin D
        BY <3>1, <3>3
      <4>3. L3[m].epoch = Q[m].epoch /\ L3[m].missed = Q[m].missed \cup {e}
        BY <1>3, <4>2, MovesIs
      <4> QED
        BY <3>1, <4>1, <4>3, Zenon
    <3>4. CASE ~(L1[m].server = "open" /\ m \in D) /\ ~(L1[m].synced /\ m \notin D)
      BY <1>3, <2>1, <3>1, <3>4, MovesIs
    <3> QED
      BY <3>2, <3>3, <3>4
  <2> QED
    BY <2>1, <2>3, <2>4, <2>5 DEF SameEnds, SameLink, OpenIn
<1>10. ASSUME NEW m \in Links
       PROVE  L3[m].down = IF m \in P /\ OpenIn(L2, m) THEN L2[m].down \o <<gf>> ELSE L2[m].down
  <2> DEFINE q == L[m].down
             c == <<cf>>
             g == <<gf>>
             n == <<>>
  <2>1. L1[m].down = IF m \in D /\ OpenIn(L, m) THEN q \o c ELSE q
    BY <1>1 DEF Adds
  <2>2. q \in Seq(DownFrame)
    BY <1>4 DEF LinkState
  <2>3. m \in D \cup P => fr[m] = (IF m \in D THEN c ELSE n) \o (IF m \in P THEN g ELSE n)
    BY <1>0
  <2>4. Q[m].down = IF m \in D \cup P /\ OpenIn(L, m) THEN q \o fr[m] ELSE q
    BY <1>5
  <2>5. L3[m].down = Q[m].down /\ L2[m].down = L1[m].down /\ (OpenIn(L2, m) <=> OpenIn(L, m))
    BY <1>9
  <2>6. /\ q \o (c \o g) = (q \o c) \o g /\ q \o (c \o n) = q \o c /\ q \o (n \o g) = q \o g
    BY <2>2, Joined, SMTT(30)
  <2> HIDE DEF q, c, g, n
  <2>7. L3[m].down = IF m \in P /\ OpenIn(L2, m) THEN L2[m].down \o g ELSE L2[m].down
    BY <2>1, <2>3, <2>4, <2>5, <2>6, Zenon
  <2> QED
    BY <2>7 DEF g
<1> QED
  BY <1>1, <1>8, <1>9, <1>10 DEF Adds

\* The server publishes the epoch, then tells the participants, then calls.
LEMMA CommitKeeps ==
  ASSUME Inv, Commit
  PROVE  Inv'
<1> DEFINE e == pass.epoch
           D == DOMAIN pass.vote
           cf == Frame("commit", pass.id, 0)
           s2 == [srv EXCEPT !.prev = srv.cur, !.cur = e, !.ran = @ \cup {e}]
<1>1. /\ pass.phase = "preparing" /\ pass.local = "yes" /\ (\A l \in D : pass.vote[l] = "yes")
      /\ pass' = Idle /\ child' = child
  BY DEF Commit, AllSettled, Unanimous
<1>2. PICK r \in Roots, l \in Links \cup {None} :
        /\ l # None => root[r].epoch = 0 /\ Usable(l)
        /\ LET frames(p) == CommitFrames(IF p \in D THEN <<cf>> ELSE <<>>, IF p = l THEN <<CallFrame(r, e)>> ELSE <<>>)
               queued == SendEach(link, [p \in D \cup ({l} \cap Links) |-> frames(p)])
               started == IF l = None THEN root ELSE [root EXCEPT ![r] = [epoch |-> e, at |-> l]]
           IN root' = started /\ MaybeRetire(s2, started, Moves(queued, D, e))
  BY DEF Commit
<1> DEFINE P == {l} \cap Links
           gf == Frame("call", r, e)
           fr == [p \in D \cup P |-> CommitFrames(IF p \in D THEN <<cf>> ELSE <<>>, IF p = l THEN <<gf>> ELSE <<>>)]
           L1 == SendEach(link, Each(D, cf))
           L2 == Moves(L1, D, e)
           Q  == SendEach(link, fr)
           L3 == Moves(Q, D, e)
           started == IF l = None THEN root ELSE [root EXCEPT ![r] = [epoch |-> e, at |-> l]]
<1>3. root' = started /\ MaybeRetire(s2, started, L3)
  BY <1>2 DEF CallFrame
<1>4. /\ cf \in DownFrame /\ gf \in DownFrame /\ gf.t = "call" /\ gf.epoch = e /\ e \in Epochs /\ e # 0 /\ e > srv.cur
      /\ D \in SUBSET Links /\ P \in SUBSET Links
  <2>1. pass.id # 0 /\ e > srv.cur
    BY <1>1 DEF Inv, All, EpochsRise
  <2>2. e \in Epochs /\ e # 0 /\ D \in SUBSET Links
    BY <2>1, ServerTypes, BoundsAssumption DEF Epochs
  <2>3. cf \in DownFrame /\ gf \in DownFrame
    BY <2>1, <2>2, ServerTypes, Zero, FrameTypes DEF Orders
  <2> QED
    BY <2>1, <2>2, <2>3 DEF Frame
<1>5. BothOf(fr, D, P, cf, gf)
  BY <1>4 DEF CommitFrames, BothOf
<1> HIDE DEF fr, cf, gf
<1>6. L2 \in LinkTable /\ Adds(link, L1, D, cf) /\ Adds(L2, L3, P, gf)
  <2>1. link \in LinkTable
    BY ServerTypes
  <2> HIDE DEF D, P, e, L1, L2, Q, L3
  <2>2. L1 = SendEach(link, Each(D, cf)) /\ L2 = Moves(L1, D, e) /\ Q = SendEach(link, fr) /\ L3 = Moves(Q, D, e)
    BY DEF L1, L2, Q, L3
  <2> QED
    BY <1>4, <1>5, <2>1, <2>2, CommitAdds
<1>7. L2 = Moves(L1, D, e)
  OBVIOUS
<1>8. /\ s2 \in ServerState /\ s2.cur = e /\ s2.prev = srv.cur /\ s2.ran = srv.ran \cup {e}
      /\ s2.ids = srv.ids /\ s2.seq = srv.seq
  BY <1>4, ServerTypes DEF ServerState
<1>9. \A p \in Links : L2[p].synced = link[p].synced
  <2>1. L1 \in LinkTable /\ \A p \in Links : L1[p].synced = link[p].synced
    BY <1>6 DEF Adds, SameLink
  <2> HIDE DEF L1
  <2> SUFFICES ASSUME NEW p \in Links PROVE Moves(L1, D, e)[p].synced = L1[p].synced
    BY <2>1
  <2> HIDE DEF D, e
  <2> QED
    BY <1>4, <2>1, MovesIs
<1> HIDE DEF s2, L1, L2, L3
<1>10. All(s2, Idle, L2, child, root)
  <2>1. All(srv, pass, link, child, root) /\ Adds(link, L1, D, Frame("commit", pass.id, 0))
    BY <1>6 DEF Inv, cf
  <2> QED
    BY <1>1, <1>6, <1>7, <1>8, <2>1, CommitStep
<1>11. /\ started \in [Roots -> [epoch : Epochs, at : Links \cup {None}]]
       /\ \A q \in Roots : started[q].epoch \in s2.ran \cup {0}
  <2>1. [epoch |-> e, at |-> l] \in [epoch : Epochs, at : Links \cup {None}]
    BY <1>4
  <2>2. \A q \in Roots : started[q] \in {root[q], [epoch |-> e, at |-> l]}
    BY ServerTypes
  <2>3. started \in [Roots -> [epoch : Epochs, at : Links \cup {None}]]
    BY <2>1, ServerTypes
  <2> HIDE DEF started
  <2> QED
    BY <1>8, <2>2, <2>3, ServerTypes
<1> HIDE DEF started
<1>12. All(s2, Idle, L2, child, started)
  BY <1>8, <1>10, <1>11, RootStep
<1>13. All(s2, Idle, L3, child, started)
  <2>1. \A m \in P : L2[m].synced
    BY <1>2, <1>9, NoneAssumption DEF Usable
  <2>2. gf.epoch \in s2.ran \cup {0}
    BY <1>4, <1>8
  <2> QED
    BY <1>4, <1>6, <1>12, <2>1, <2>2, TellStep
<1>14. All(srv', Idle, link', child, started)
  BY <1>3, <1>13, MaybeStep
<1> QED
  BY <1>1, <1>3, <1>14 DEF Inv

\* The server publishes the epoch, and fails before it tells anybody.
LEMMA CommitFailsKeeps ==
  ASSUME Inv, CommitFails
  PROVE  Inv'
<1> DEFINE e == pass.epoch
           s2 == [srv EXCEPT !.prev = srv.cur, !.cur = e, !.ran = @ \cup {e}, !.lost = @ \cup {pass.id}, !.faults = @ + 1]
           L2 == Moves(link, {}, e)
<1>1. /\ pass.phase = "preparing" /\ pass.local = "yes" /\ (\A l \in DOMAIN pass.vote : pass.vote[l] = "yes")
      /\ pass' = Idle /\ child' = child /\ root' = root /\ MaybeRetire(s2, root, L2)
  BY DEF CommitFails, AllSettled, Unanimous
<1>2. e \in Epochs /\ e # 0
  <2>1. e > srv.cur
    BY <1>1 DEF Inv, All, EpochsRise
  <2> QED
    BY <2>1, ServerTypes, BoundsAssumption DEF Epochs
<1>3. /\ s2 \in ServerState /\ s2.cur = e /\ s2.prev = srv.cur /\ s2.ran = srv.ran \cup {e}
      /\ s2.ids = srv.ids /\ s2.seq = srv.seq
  <2> DEFINE ran == srv.ran \cup {e}
             lost == srv.lost \cup {pass.id}
             faults == srv.faults + 1
  <2>1. ran \in SUBSET Epochs /\ lost \in SUBSET Nat /\ faults \in Nat /\ srv.cur \in Epochs
    BY <1>2, ServerTypes DEF ServerState
  <2>2. s2 = [srv EXCEPT !.prev = srv.cur, !.cur = e, !.ran = ran, !.lost = lost, !.faults = faults]
    OBVIOUS
  <2> HIDE DEF ran, lost, faults, s2, e
  <2>3. /\ s2 \in ServerState /\ s2.cur = e /\ s2.prev = srv.cur /\ s2.ran = ran
        /\ s2.ids = srv.ids /\ s2.seq = srv.seq
    BY <1>2, <2>1, <2>2, ServerTypes DEF ServerState
  <2> QED
    BY <2>3 DEF ran, e
<1>4. Adds(link, link, {}, Frame("commit", pass.id, 0))
  BY ServerTypes DEF Adds, SameEnds, SameLink
<1>5. L2 \in LinkTable
  <2>1. \A l \in Links : L2[l] \in LinkState
    BY <1>2, ServerTypes, MovesIs
  <2> QED
    BY <2>1 DEF LinkTable, Moves
<1>6. L2 = Moves(link, {}, e) /\ {} \in SUBSET DOMAIN pass.vote
  OBVIOUS
<1> HIDE DEF s2, L2
<1>7. All(s2, Idle, L2, child, root)
  BY <1>1, <1>3, <1>4, <1>5, <1>6, ServerTypes, CommitStep
<1>8. All(srv', Idle, link', child, root)
  BY <1>1, <1>7, MaybeStep
<1> QED
  BY <1>1, <1>8 DEF Inv

-----------------------------------------------------------------------------
(* The server's roots.                                                     *)

RootTable == [Roots -> [epoch : Epochs, at : Links \cup {None}]]

LEMMA StartRootKeeps ==
  ASSUME Inv, NEW r \in Roots, StartRoot(r)
  PROVE  Inv'
<1>1. root' = [root EXCEPT ![r].epoch = srv.cur] /\ srv' = srv /\ pass' = pass /\ link' = link /\ child' = child
  BY DEF StartRoot
<1>2. root \in RootTable /\ srv.cur \in srv.ran /\ srv.cur \in Epochs /\ \A q \in Roots : root[q].epoch \in srv.ran \cup {0}
  BY ServerTypes DEF RootTable, ServerState
<1>3. root' \in RootTable /\ \A q \in Roots : root'[q].epoch \in srv.ran \cup {0}
  BY <1>1, <1>2 DEF RootTable
<1>4. All(srv, pass, link, child, root')
  BY <1>3, RootStep DEF Inv, RootTable
<1> QED
  BY <1>1, <1>4 DEF Inv

LEMMA EndRootKeeps ==
  ASSUME Inv, NEW r \in Roots, EndRoot(r)
  PROVE  Inv'
<1>1. root' = [root EXCEPT ![r].epoch = 0] /\ MaybeRetire(srv, root', link) /\ pass' = pass /\ child' = child
  BY DEF EndRoot
<1>2. root \in RootTable /\ srv.cur \in Nat /\ 0 \in Epochs /\ \A q \in Roots : root[q].epoch \in srv.ran \cup {0}
  BY ServerTypes, Zero DEF RootTable
<1>3. root' \in RootTable /\ \A q \in Roots : root'[q].epoch \in srv.ran \cup {0}
  BY <1>1, <1>2 DEF RootTable
<1>4. All(srv, pass, link, child, root')
  BY <1>3, RootStep DEF Inv, RootTable
<1>5. All(srv', pass, link', child, root')
  BY <1>1, <1>4, MaybeStep
<1> QED
  BY <1>1, <1>5 DEF Inv

LEMMA CallKeeps ==
  ASSUME Inv, NEW r \in Roots, NEW l \in Links, Call(r, l)
  PROVE  Inv'
<1> DEFINE f == Frame("call", r, root[r].epoch)
<1>1. /\ root' = [root EXCEPT ![r].at = l] /\ link' = SendDown(link, l, <<f>>) /\ link[l].synced
      /\ srv' = srv /\ pass' = pass /\ child' = child
  BY DEF Call, CallFrame, Usable
<1>2. root \in RootTable /\ link \in LinkTable /\ \A q \in Roots : root[q].epoch \in srv.ran \cup {0}
  BY ServerTypes DEF RootTable
<1>3. root' \in RootTable /\ \A q \in Roots : root'[q].epoch \in srv.ran \cup {0}
  BY <1>1, <1>2 DEF RootTable
<1>4. All(srv, pass, link, child, root')
  BY <1>3, RootStep DEF Inv, RootTable
<1>5. f \in DownFrame /\ f.t = "call" /\ f.epoch \in srv.ran \cup {0}
  BY <1>2, FrameTypes DEF RootTable, Frame
<1> HIDE DEF f
<1>6. Adds(link, link', {l}, f)
  BY <1>1, <1>2, <1>5, DownAdds
<1>7. \A m \in {l} : link[m].synced
  BY <1>1
<1>8. {l} \in SUBSET Links
  OBVIOUS
<1>9. All(srv, pass, link', child, root')
  BY <1>4, <1>5, <1>6, <1>7, <1>8, TellStep
<1> QED
  BY <1>1, <1>9 DEF Inv

-----------------------------------------------------------------------------
(* What the server receives.                                               *)

\* A link whose first frame is read.
LEMMA HeadRead ==
  ASSUME NEW l \in Links, link \in LinkTable, link[l].up # <<>>
  PROVE  LET L2 == Received(l, "up") IN
         /\ L2 \in LinkTable /\ \A m \in Links \ {l} : L2[m] = link[m]
         /\ SameEnds(link[l], L2[l]) /\ L2[l].up = Tail(link[l].up) /\ L2[l].down = link[l].down
         /\ L2[l].synced = link[l].synced /\ L2[l].epoch = link[l].epoch /\ L2[l].sync = link[l].sync
         /\ L2[l].missed = link[l].missed
         /\ L2 = [link EXCEPT ![l] = L2[l]]
<1> DEFINE q == Tail(link[l].up)
           k == [link[l] EXCEPT !.up = q]
<1>1. link[l] \in LinkState
  BY DEF LinkTable
<1>2. q \in Seq(UpFrame)
  BY <1>1 DEF LinkState
<1> HIDE DEF q
<1>3. /\ k \in LinkState /\ SameEnds(link[l], k) /\ k.up = q /\ k.down = link[l].down
      /\ k.synced = link[l].synced /\ k.epoch = link[l].epoch /\ k.sync = link[l].sync /\ k.missed = link[l].missed
  BY <1>1, <1>2 DEF LinkState, SameEnds
<1>4. Received(l, "up") = [link EXCEPT ![l] = k]
  BY DEF Received, q
<1> HIDE DEF k
<1>5. [link EXCEPT ![l] = k] \in LinkTable /\ [link EXCEPT ![l] = k][l] = k /\ \A m \in Links \ {l} : [link EXCEPT ![l] = k][m] = link[m]
  BY <1>3 DEF LinkTable
<1> QED
  BY <1>3, <1>4, <1>5 DEF q

\* What the read frame is.
LEMMA HeadIs ==
  ASSUME Inv, NEW l \in Links, link[l].up # <<>>
  PROVE  /\ Head(link[l].up) \in UpFrame /\ Head(link[l].up) \in Frames(link[l].up)
         /\ \A n \in DOMAIN Tail(link[l].up) : Tail(link[l].up)[n].t # "hello"
         /\ Head(link[l].up).t = "hello" =>
               /\ ~link[l].synced /\ link[l].sync = NoSync
               /\ Head(link[l].up).epoch <= srv.cur /\ Head(link[l].up).epoch \in Epochs
<1>1. link[l].up \in Seq(UpFrame) /\ FirstHello(link[l])
  BY ServerTypes, LinkFacts DEF LinkState
<1>2. /\ Head(link[l].up) \in UpFrame /\ Head(link[l].up) = link[l].up[1] /\ 1 \in DOMAIN link[l].up
      /\ \A n \in DOMAIN Tail(link[l].up) : n + 1 \in DOMAIN link[l].up /\ Tail(link[l].up)[n] = link[l].up[n + 1] /\ n + 1 # 1
      /\ Head(link[l].up) \in Frames(link[l].up)
  BY <1>1, TailIs
<1>3. \A n \in DOMAIN Tail(link[l].up) : Tail(link[l].up)[n].t # "hello"
  BY <1>1, <1>2 DEF FirstHello
<1>4. Head(link[l].up).t = "hello" => ~link[l].synced /\ link[l].sync = NoSync
  BY <1>1, <1>2 DEF FirstHello
<1>5. Head(link[l].up).t = "hello" => Head(link[l].up).epoch <= srv.cur
  BY <1>2 DEF Inv, All, EpochsRun
<1>6. Head(link[l].up).t = "hello" => Head(link[l].up).epoch \in Epochs
  BY <1>2 DEF UpFrame, Bye, Frame
<1> QED
  BY <1>2, <1>3, <1>4, <1>5, <1>6

\* The server closes a link for any of its reasons.
LEMMA ClosesKeeps ==
  ASSUME NEW L, NEW l \in Links, All(srv, pass, L, child, root), L[l].server = "open", ServerCloses(L, l)
  PROVE  Inv'
<1>1. /\ link' = CloseServerEnd(L, l) /\ pass' = Lost(pass, l) /\ srv' = srv /\ child' = child
      /\ root' = [r \in Roots |-> IF root[r].at = l THEN [root[r] EXCEPT !.at = None] ELSE root[r]]
  BY DEF ServerCloses, ServerLosesLink, Lost
<1>2. All(srv, Lost(pass, l), CloseServerEnd(L, l), child, root)
  BY CloseStep
<1>3. root \in RootTable /\ \A r \in Roots : root[r].epoch \in srv.ran \cup {0}
  BY DEF All, Types, CallsKnown, RootTable
<1>4. ASSUME NEW r \in Roots
      PROVE  /\ root'[r] \in [epoch : Epochs, at : Links \cup {None}]
             /\ root'[r].epoch = root[r].epoch
  <2>1. root[r] \in [epoch : Epochs, at : Links \cup {None}]
    BY <1>3 DEF RootTable
  <2>2. root'[r] \in {root[r], [root[r] EXCEPT !.at = None]}
    BY <1>1
  <2> QED
    BY <2>1, <2>2
<1>5. root' \in RootTable /\ \A r \in Roots : root'[r].epoch \in srv.ran \cup {0}
  <2>1. root' = [r \in Roots |-> root'[r]]
    BY <1>1
  <2> QED
    BY <1>3, <1>4, <2>1 DEF RootTable
<1>6. All(srv, Lost(pass, l), CloseServerEnd(L, l), child, root')
  BY <1>2, <1>5, RootStep DEF RootTable
<1> QED
  BY <1>1, <1>6 DEF Inv

\* One more round of the reconciliation of a link.
Round(L, l, fs, y) == [SendDown(L, l, fs) EXCEPT ![l].sync = y]
LEMMA RoundIs ==
  ASSUME NEW L \in LinkTable, NEW l \in Links, NEW fs \in Seq(DownFrame), NEW y \in [id : Nat, epoch : Epochs]
  PROVE  LET L2 == Round(L, l, fs, y) IN
         /\ L2 \in LinkTable /\ \A m \in Links \ {l} : L2[m] = L[m]
         /\ SameEnds(L[l], L2[l]) /\ SameLink(L[l], L2[l])
         /\ L2[l].down = IF OpenIn(L, l) THEN L[l].down \o fs ELSE L[l].down
         /\ L2[l].sync = y
<1> DEFINE S == SendDown(L, l, fs)
           q == L[l].down \o fs
           k == [S[l] EXCEPT !.sync = y]
<1>1. L[l] \in LinkState
  BY DEF LinkTable
<1>2. /\ S \in LinkTable /\ \A m \in Links \ {l} : S[m] = L[m]
      /\ S[l] = IF OpenIn(L, l) THEN [L[l] EXCEPT !.down = q] ELSE L[l]
  BY <1>1, SendDownIs DEF LinkState
<1>3. S[l] \in LinkState
  BY <1>2 DEF LinkTable
<1>4. /\ SameEnds(L[l], S[l]) /\ SameLink(L[l], S[l])
      /\ S[l].down = IF OpenIn(L, l) THEN q ELSE L[l].down
  BY <1>1, <1>2 DEF SameEnds, SameLink, LinkState
<1> HIDE DEF S
<1>5. /\ k \in LinkState /\ SameEnds(S[l], k) /\ SameLink(S[l], k) /\ k.down = S[l].down /\ k.sync = y
  BY <1>3 DEF LinkState, SameEnds, SameLink
<1>6. [S EXCEPT ![l].sync = y] = [S EXCEPT ![l] = k]
  BY <1>2 DEF LinkTable
<1> HIDE DEF k
<1>7. /\ [S EXCEPT ![l] = k] \in LinkTable /\ [S EXCEPT ![l] = k][l] = k
      /\ \A m \in Links \ {l} : [S EXCEPT ![l] = k][m] = L[m]
  BY <1>2, <1>5 DEF LinkTable
<1>8. SameEnds(L[l], k) /\ SameLink(L[l], k) /\ k.down = IF OpenIn(L, l) THEN q ELSE L[l].down
  BY <1>4, <1>5 DEF SameEnds, SameLink
<1> QED
  BY <1>5, <1>6, <1>7, <1>8 DEF S, Round

\* A hello: the child is in step, or is fenced and reconciled.
LEMMA HelloKeeps ==
  ASSUME Inv, NEW l \in Links, link[l].server = "open", link[l].up # <<>>,
         Head(link[l].up).t = "hello", ReceiveHello(l, Head(link[l].up).epoch)
  PROVE  Inv'
<1> DEFINE f == Head(link[l].up)
           e == f.epoch
           heard == Received(l, "up")
<1>1. /\ heard \in LinkTable /\ \A m \in Links \ {l} : heard[m] = link[m]
      /\ SameEnds(link[l], heard[l]) /\ heard[l].up = Tail(link[l].up) /\ heard[l].down = link[l].down
      /\ heard[l].synced = link[l].synced /\ heard[l].sync = link[l].sync /\ heard[l].missed = link[l].missed
  BY ServerTypes, HeadRead
<1>2. e \in Epochs /\ (\A n \in DOMAIN Tail(link[l].up) : Tail(link[l].up)[n].t # "hello")
      /\ ~link[l].synced /\ link[l].sync = NoSync
  BY HeadIs
<1>3. pass' = pass /\ child' = child /\ root' = root
  BY DEF ReceiveHello
<1>4. heard[l] \in LinkState
  BY <1>1 DEF LinkTable
<1>5. CASE InStep(e)
  <2> DEFINE k == [heard[l] EXCEPT !.synced = TRUE, !.epoch = srv.cur]
  <2>1. link' = [heard EXCEPT ![l] = k] /\ srv' = srv /\ srv.cur = e
    BY <1>5 DEF ReceiveHello, InStep
  <2>2. /\ k \in LinkState /\ SameEnds(heard[l], k) /\ k.up = heard[l].up /\ k.down = heard[l].down
        /\ k.sync = heard[l].sync /\ k.epoch = e /\ k.missed = heard[l].missed
    BY <1>2, <1>4, <2>1 DEF LinkState, SameEnds
  <2> HIDE DEF k, heard
  <2>3. link' \in LinkTable /\ link'[l] = k /\ \A m \in Links \ {l} : link'[m] = heard[m]
    BY <1>1, <2>1, <2>2 DEF LinkTable
  <2>4. /\ \A m \in Links \ {l} : link'[m] = link[m]
        /\ SameEnds(link[l], link'[l]) /\ link'[l].up = Tail(link[l].up) /\ link'[l].down = link[l].down
        /\ link'[l].sync = link[l].sync /\ link'[l].epoch = f.epoch /\ link'[l].missed = link[l].missed
    BY <1>1, <2>2, <2>3 DEF SameEnds
  <2>5. All(srv, pass, link, child, root) /\ pass \in PassState
    BY ServerTypes
  <2>6. All(srv, pass, link', child, root)
    <3>1. Reads(link[l], link'[l]) /\ Counts(pass, pass, l, f)
      BY <2>4 DEF Reads, Counts
    <3>2. link'[l].epoch = srv.cur
      BY <2>1, <2>4
    <3> QED
      BY <2>3, <2>4, <2>5, <3>1, <3>2, ReadStep
  <2> QED
    BY <1>3, <2>1, <2>6 DEF Inv
<1>6. CASE ~InStep(e)
  <2> DEFINE k == [heard[l] EXCEPT !.epoch = e]
             L1 == [heard EXCEPT ![l].epoch = e]
             g == Frame("prepare", srv.ids + 1, srv.cur)
             y == [id |-> srv.ids + 1, epoch |-> srv.cur]
             fs == <<>> \o <<g>>
  <2>1. link' = Round(L1, l, fs, y) /\ srv' = [srv EXCEPT !.ids = @ + 1]
    BY <1>6 DEF ReceiveHello, Reconcile, Round
  <2>2. /\ k \in LinkState /\ SameEnds(heard[l], k) /\ k.up = heard[l].up /\ k.down = heard[l].down
        /\ k.synced = heard[l].synced /\ k.sync = heard[l].sync /\ k.epoch = e /\ k.missed = heard[l].missed
    BY <1>2, <1>4 DEF LinkState, SameEnds
  <2>3. L1 = [heard EXCEPT ![l] = k]
    BY <1>1 DEF LinkTable
  <2> HIDE DEF k, heard, L1
  <2>4. L1 \in LinkTable /\ L1[l] = k /\ \A m \in Links \ {l} : L1[m] = heard[m]
    BY <1>1, <2>2, <2>3 DEF LinkTable
  <2>5. /\ \A m \in Links \ {l} : L1[m] = link[m]
        /\ SameEnds(link[l], L1[l]) /\ L1[l].up = Tail(link[l].up) /\ L1[l].down = link[l].down
        /\ L1[l].sync = link[l].sync /\ L1[l].epoch = f.epoch /\ L1[l].synced = link[l].synced
        /\ L1[l].missed = link[l].missed
    BY <1>1, <2>2, <2>4 DEF SameEnds
  <2>6. All(srv, pass, link, child, root) /\ pass \in PassState
    BY ServerTypes
  <2>7. All(srv, pass, L1, child, root)
    <3>1. Reads(link[l], L1[l]) /\ Counts(pass, pass, l, f)
      BY <2>5 DEF Reads, Counts
    <3>2. ~L1[l].synced
      BY <1>2, <2>5
    <3> QED
      BY <2>4, <2>5, <2>6, <3>1, <3>2, ReadStep
  <2>8. g \in DownFrame /\ y \in [id : Nat, epoch : Epochs] /\ srv.ids + 1 \in Nat
    BY ServerTypes, FrameTypes DEF ServerState, Orders
  <2>9. fs = <<g>> /\ fs \in Seq(DownFrame)
    BY <2>8
  <2>14. y = [id |-> srv.ids + 1, epoch |-> srv.cur]
    OBVIOUS
  <2> HIDE DEF fs, y
  <2>10. /\ link' \in LinkTable /\ \A m \in Links \ {l} : link'[m] = L1[m]
         /\ SameEnds(L1[l], link'[l]) /\ SameLink(L1[l], link'[l])
         /\ link'[l].down = IF OpenIn(L1, l) THEN L1[l].down \o fs ELSE L1[l].down
         /\ link'[l].sync = y
    <3>1. L1 \in LinkTable /\ fs \in Seq(DownFrame) /\ y \in [id : Nat, epoch : Epochs] /\ link' = Round(L1, l, fs, y)
      BY <2>1, <2>4, <2>8, <2>9
    <3> DEFINE R == Round(L1, l, fs, y)
    <3>2. /\ R \in LinkTable /\ \A m \in Links \ {l} : R[m] = L1[m]
          /\ SameEnds(L1[l], R[l]) /\ SameLink(L1[l], R[l])
          /\ R[l].down = IF OpenIn(L1, l) THEN L1[l].down \o fs ELSE L1[l].down
          /\ R[l].sync = y
      BY <3>1, RoundIs, Zenon
    <3> HIDE DEF R
    <3>3. link' = R
      BY <3>1 DEF R
    <3> QED
      BY <3>2, <3>3
  <2>11. /\ srv' \in ServerState /\ srv'.cur = srv.cur /\ srv'.prev = srv.prev /\ srv'.seq = srv.seq
         /\ srv'.ran = srv.ran /\ srv'.ids = srv.ids + 1
    BY <2>1, <2>8, ServerTypes DEF ServerState
  <2>12. L1[l].server = "open" /\ ~L1[l].synced /\ \A n \in DOMAIN L1[l].up : L1[l].up[n].t # "hello"
    BY <1>2, <2>5 DEF SameEnds
  <2>13. link'[l].down = IF OpenIn(L1, l) THEN L1[l].down \o <<Frame("prepare", srv.ids + 1, srv.cur)>> ELSE L1[l].down
    BY <2>9, <2>10
  <2>15. link'[l].sync = [id |-> srv.ids + 1, epoch |-> srv.cur]
    BY <2>10, <2>14
  <2> HIDE DEF g
  <2>16. All(srv', pass, link', child, root)
    BY <2>7, <2>10, <2>11, <2>12, <2>13, <2>15, ReconcileStep
  <2> QED
    BY <1>3, <2>16 DEF Inv
<1> QED
  BY <1>5, <1>6

\* The child has what its server runs: the last round of the reconciliation.
Synced(L, l, fs, e) == [SendDown(L, l, fs) EXCEPT ![l] = [@ EXCEPT !.synced = TRUE, !.epoch = e, !.sync = NoSync]]
LEMMA SyncedIs ==
  ASSUME NEW L \in LinkTable, NEW l \in Links, NEW fs \in Seq(DownFrame), NEW e \in Epochs
  PROVE  LET L2 == Synced(L, l, fs, e) IN
         /\ L2 \in LinkTable /\ \A m \in Links \ {l} : L2[m] = L[m]
         /\ SameEnds(L[l], L2[l]) /\ L2[l].up = L[l].up
         /\ L2[l].down = IF OpenIn(L, l) THEN L[l].down \o fs ELSE L[l].down
         /\ L2[l].synced /\ L2[l].epoch = e /\ L2[l].sync = NoSync /\ L2[l].missed = L[l].missed
<1> DEFINE S == SendDown(L, l, fs)
           q == L[l].down \o fs
           k == [S[l] EXCEPT !.synced = TRUE, !.epoch = e, !.sync = NoSync]
<1>1. L[l] \in LinkState
  BY DEF LinkTable
<1>2. /\ S \in LinkTable /\ \A m \in Links \ {l} : S[m] = L[m]
      /\ S[l] = IF OpenIn(L, l) THEN [L[l] EXCEPT !.down = q] ELSE L[l]
  BY <1>1, SendDownIs DEF LinkState
<1>3. S[l] \in LinkState
  BY <1>2 DEF LinkTable
<1>4. /\ SameEnds(L[l], S[l]) /\ S[l].up = L[l].up /\ S[l].missed = L[l].missed
      /\ S[l].down = IF OpenIn(L, l) THEN q ELSE L[l].down
  BY <1>1, <1>2 DEF SameEnds, LinkState
<1> HIDE DEF S
<1>n. NoSync \in [id : Nat, epoch : Epochs]
  BY InitTypes
<1>5. /\ k \in LinkState /\ SameEnds(S[l], k) /\ k.up = S[l].up /\ k.down = S[l].down
      /\ k.synced /\ k.epoch = e /\ k.sync = NoSync /\ k.missed = S[l].missed
  BY <1>3, <1>n DEF LinkState, SameEnds
<1>6. Synced(L, l, fs, e) = [S EXCEPT ![l] = k]
  BY <1>2 DEF LinkTable, Synced, S
<1> HIDE DEF k
<1>7. /\ [S EXCEPT ![l] = k] \in LinkTable /\ [S EXCEPT ![l] = k][l] = k
      /\ \A m \in Links \ {l} : [S EXCEPT ![l] = k][m] = L[m]
  BY <1>2, <1>5 DEF LinkTable
<1>8. SameEnds(L[l], k) /\ k.up = L[l].up /\ k.missed = L[l].missed /\ k.down = IF OpenIn(L, l) THEN q ELSE L[l].down
  BY <1>4, <1>5 DEF SameEnds
<1> QED
  BY <1>5, <1>6, <1>7, <1>8

\* A frame other than a hello is read and nothing follows from it.
LEMMA HeardAll ==
  ASSUME Inv, NEW l \in Links, link[l].server = "open", link[l].up # <<>>, Head(link[l].up).t # "hello"
  PROVE  LET heard == Received(l, "up") IN
         /\ All(srv, pass, heard, child, root) /\ heard \in LinkTable
         /\ heard[l].server = "open" /\ (OpenIn(heard, l) <=> OpenIn(link, l))
         /\ heard[l].sync = link[l].sync /\ heard[l].synced = link[l].synced
         /\ \A n \in DOMAIN heard[l].up : heard[l].up[n].t # "hello"
<1> DEFINE heard == Received(l, "up")
<1>1. /\ heard \in LinkTable /\ \A m \in Links \ {l} : heard[m] = link[m]
      /\ SameEnds(link[l], heard[l]) /\ heard[l].up = Tail(link[l].up) /\ heard[l].down = link[l].down
      /\ heard[l].synced = link[l].synced /\ heard[l].epoch = link[l].epoch /\ heard[l].sync = link[l].sync
      /\ heard[l].missed = link[l].missed
  BY ServerTypes, HeadRead
<1> HIDE DEF heard
<1>2. Reads(link[l], heard[l]) /\ Counts(pass, pass, l, Head(link[l].up))
  BY <1>1 DEF Reads, Counts
<1>3. All(srv, pass, link, child, root) /\ pass \in PassState
  BY ServerTypes
<1>4. All(srv, pass, heard, child, root)
  BY <1>1, <1>2, <1>3, ReadStep
<1>5. \A n \in DOMAIN Tail(link[l].up) : Tail(link[l].up)[n].t # "hello"
  BY HeadIs
<1>6. heard[l].server = "open" /\ (OpenIn(heard, l) <=> OpenIn(link, l))
  BY <1>1 DEF SameEnds, OpenIn
<1> QED
  BY <1>1, <1>4, <1>5, <1>6 DEF heard

LEMMA ResultKeeps ==
  ASSUME Inv, NEW l \in Links, link[l].server = "open", link[l].up # <<>>,
         Head(link[l].up).t = "result", ReceiveResult(l, Head(link[l].up).id)
  PROVE  Inv'
<1> DEFINE r == Head(link[l].up).id
<1>1. /\ link' = Received(l, "up") /\ srv' = srv /\ pass' = pass /\ child' = child
      /\ root' = IF root[r].at = l THEN [root EXCEPT ![r].at = None] ELSE root
  BY DEF ReceiveResult
<1>2. All(srv, pass, link', child, root)
  BY <1>1, HeardAll
<1>3. root \in RootTable /\ \A q \in Roots : root[q].epoch \in srv.ran \cup {0}
  BY ServerTypes DEF RootTable
<1>4. r \in Roots
  BY HeadIs DEF UpFrame, Bye, Frame
<1>5. root' \in RootTable /\ \A q \in Roots : root'[q].epoch \in srv.ran \cup {0}
  BY <1>1, <1>3, <1>4 DEF RootTable
<1>6. All(srv, pass, link', child, root')
  BY <1>2, <1>5, RootStep DEF RootTable
<1> QED
  BY <1>1, <1>6 DEF Inv

LEMMA CountedKeeps ==
  ASSUME Inv, NEW l \in Links, link[l].server = "open", link[l].up # <<>>, NEW f, f = Head(link[l].up), f.t = "vote",
         pass.phase = "preparing", pass.id = f.id, l \in DOMAIN pass.vote, pass.vote[l] = "wait",
         pass' = [pass EXCEPT !.vote[l] = f.vote], link' = Received(l, "up"), UNCHANGED <<srv, child, root>>
  PROVE  Inv'
<1> DEFINE v2 == [pass.vote EXCEPT ![l] = f.vote]
<1>1. /\ link' \in LinkTable /\ \A m \in Links \ {l} : link'[m] = link[m]
      /\ SameEnds(link[l], link'[l]) /\ link'[l].up = Tail(link[l].up) /\ link'[l].down = link[l].down
      /\ link'[l].synced = link[l].synced /\ link'[l].epoch = link[l].epoch /\ link'[l].sync = link[l].sync
      /\ link'[l].missed = link[l].missed
  BY ServerTypes, HeadRead
<1>2. f.vote \in {"yes", "no"}
  BY HeadIs, VoteFrames
<1>3. v2 \in UNION {[P -> Votes] : P \in SUBSET Links}
  <2>1. PICK P \in SUBSET Links : pass.vote \in [P -> Votes]
    BY ServerTypes DEF PassState
  <2>2. v2 \in [P -> Votes]
    BY <1>2, <2>1 DEF Votes
  <2> QED
    BY <2>1, <2>2
<1>4. pass' = [pass EXCEPT !.vote = v2]
  BY ServerTypes DEF PassState
<1>5. v2 = [pass.vote EXCEPT ![l] = f.vote]
  OBVIOUS
<1> HIDE DEF v2
<1>6. /\ pass' \in PassState /\ pass'.phase = pass.phase /\ pass'.local = pass.local /\ pass'.id = pass.id
      /\ pass'.epoch = pass.epoch /\ pass'.vote = v2
  BY <1>3, <1>4, ServerTypes DEF PassState
<1>7. Reads(link[l], link'[l])
  BY <1>1 DEF Reads
<1>8. Counts(pass, pass', l, Head(link[l].up))
  BY <1>5, <1>6 DEF Counts
<1>9. All(srv, pass, link, child, root)
  BY DEF Inv
<1>10. All(srv, pass', link', child, root)
  BY <1>1, <1>6, <1>7, <1>8, <1>9, ReadStep
<1> QED
  BY <1>10 DEF Inv

LEMMA Regrouped ==
  ASSUME NEW q \in Seq(DownFrame), NEW r \in Seq(DownFrame), NEW t \in Seq(DownFrame)
  PROVE  q \o (r \o t) = (q \o r) \o t
  OBVIOUS

\* The child prepared an epoch the server has left: abort, and once more.
LEMMA AgainKeeps ==
  ASSUME Inv, NEW l \in Links, link[l].server = "open", link[l].up # <<>>, NEW f, f = Head(link[l].up), f.t = "vote",
         link[l].sync.id = f.id, Reconcile(Received(l, "up"), l, <<Frame("abort", f.id, 0)>>),
         UNCHANGED <<pass, child, root>>
  PROVE  Inv'
<1> DEFINE L == Received(l, "up")
           a == <<Frame("abort", f.id, 0)>>
           g == <<Frame("prepare", srv.ids + 1, srv.cur)>>
           y == [id |-> srv.ids + 1, epoch |-> srv.cur]
           L1 == Round(L, l, a, NoSync)
           fs == a \o g
<1>1. /\ All(srv, pass, L, child, root) /\ L \in LinkTable
      /\ L[l].server = "open" /\ L[l].sync = link[l].sync
      /\ \A n \in DOMAIN L[l].up : L[l].up[n].t # "hello"
  BY HeardAll
<1>2. f.id \in Nat \ {0} /\ link[l].sync # NoSync
  BY HeadIs, VoteFrames DEF NoSync
<1>3. ~L[l].synced
  BY <1>1, <1>2, LinkFacts
<1>4. /\ a \in Seq(DownFrame) /\ g \in Seq(DownFrame) /\ fs \in Seq(DownFrame)
      /\ y \in [id : Nat, epoch : Epochs] /\ NoSync \in [id : Nat, epoch : Epochs]
  <2>0. srv.ids + 1 \in Nat \ {0} /\ srv.cur \in Epochs
    BY ServerTypes DEF ServerState
  <2>1. Frame("abort", f.id, 0) \in DownFrame /\ Frame("prepare", srv.ids + 1, srv.cur) \in DownFrame
    BY <1>2, <2>0, Zero, FrameTypes DEF Orders
  <2>2. a \in Seq(DownFrame) /\ g \in Seq(DownFrame)
    BY <2>1
  <2> HIDE DEF a, g
  <2> QED
    BY <2>2, ServerTypes, InitTypes DEF ServerState
<1>5. link' = Round(L, l, fs, y) /\ srv' = [srv EXCEPT !.ids = @ + 1]
  BY DEF Reconcile, Round
<1>6. /\ a = <<Frame("abort", L[l].sync.id, 0)>> /\ g = <<Frame("prepare", srv.ids + 1, srv.cur)>>
      /\ y = [id |-> srv.ids + 1, epoch |-> srv.cur] /\ fs = a \o g
  BY <1>1
<1> DEFINE R == Round(L, l, fs, y)
<1> HIDE DEF L, a, g, y, fs
<1>7. /\ L1 \in LinkTable /\ \A m \in Links \ {l} : L1[m] = L[m]
      /\ SameEnds(L[l], L1[l]) /\ SameLink(L[l], L1[l])
      /\ L1[l].down = IF OpenIn(L, l) THEN L[l].down \o a ELSE L[l].down
      /\ L1[l].sync = NoSync
  <2>1. L \in LinkTable /\ a \in Seq(DownFrame) /\ NoSync \in [id : Nat, epoch : Epochs]
    BY <1>1, <1>4
  <2> QED
    BY <2>1, RoundIs, ZenonT(60)
<1>8. /\ R \in LinkTable /\ \A m \in Links \ {l} : R[m] = L[m]
      /\ SameEnds(L[l], R[l]) /\ SameLink(L[l], R[l])
      /\ R[l].down = IF OpenIn(L, l) THEN L[l].down \o fs ELSE L[l].down
      /\ R[l].sync = y
  <2>1. L \in LinkTable /\ fs \in Seq(DownFrame) /\ y \in [id : Nat, epoch : Epochs]
    BY <1>1, <1>4
  <2> QED
    BY <2>1, RoundIs, ZenonT(60)
<1> HIDE DEF L1, R
<1>9. All(srv, pass, L1, child, root)
  <2>1. L[l].sync # NoSync
    BY <1>1, <1>2
  <2>2. L1[l].down = IF OpenIn(L, l) THEN L[l].down \o <<Frame("abort", L[l].sync.id, 0)>> ELSE L[l].down
    BY <1>6, <1>7
  <2> QED
    BY <1>1, <1>7, <2>1, <2>2, UnaskStep
<1>10. L[l].down \o fs = (L[l].down \o a) \o g
  <2>1. L[l].down \in Seq(DownFrame)
    BY <1>1 DEF LinkTable, LinkState
  <2>2. a \in Seq(DownFrame) /\ g \in Seq(DownFrame) /\ fs = a \o g
    BY <1>4, <1>6
  <2>3. \A q \in Seq(DownFrame) : q \o (a \o g) = (q \o a) \o g
    BY <2>2, Regrouped, Zenon
  <2> QED
    BY <2>1, <2>2, <2>3
<1>11. /\ R[l].down = IF OpenIn(L1, l) THEN L1[l].down \o g ELSE L1[l].down
       /\ SameEnds(L1[l], R[l]) /\ SameLink(L1[l], R[l]) /\ \A m \in Links \ {l} : R[m] = L1[m]
  <2>1. OpenIn(L1, l) <=> OpenIn(L, l)
    BY <1>7 DEF SameEnds, OpenIn
  <2> QED
    BY <1>7, <1>8, <1>10, <2>1 DEF SameEnds, SameLink
<1>12. L1[l].server = "open" /\ ~L1[l].synced /\ \A n \in DOMAIN L1[l].up : L1[l].up[n].t # "hello"
  BY <1>1, <1>3, <1>7 DEF SameEnds, SameLink
<1>13. /\ srv' \in ServerState /\ srv'.cur = srv.cur /\ srv'.prev = srv.prev /\ srv'.seq = srv.seq
       /\ srv'.ran = srv.ran /\ srv'.ids = srv.ids + 1
  BY <1>5, ServerTypes DEF ServerState
<1>14. /\ R[l].down = IF OpenIn(L1, l) THEN L1[l].down \o <<Frame("prepare", srv.ids + 1, srv.cur)>> ELSE L1[l].down
       /\ R[l].sync = [id |-> srv.ids + 1, epoch |-> srv.cur]
  BY <1>6, <1>8, <1>11
<1>15. All(srv', pass, R, child, root)
  BY <1>8, <1>9, <1>11, <1>12, <1>13, <1>14, ReconcileStep
<1> QED
  BY <1>5, <1>15 DEF Inv, R

\* The child prepared the server's epoch: commit.
LEMMA FollowsKeeps ==
  ASSUME Inv, NEW l \in Links, link[l].server = "open", link[l].up # <<>>, NEW f, f = Head(link[l].up),
         f.t = "vote", f.vote = "yes", link[l].sync.id = f.id, link[l].sync.epoch = srv.cur,
         link' = Synced(Received(l, "up"), l, <<Frame("commit", f.id, 0)>>, srv.cur),
         UNCHANGED <<srv, pass, child, root>>
  PROVE  Inv'
<1> DEFINE L == Received(l, "up")
           g == <<Frame("commit", f.id, 0)>>
<1>1. /\ All(srv, pass, L, child, root) /\ L \in LinkTable
      /\ L[l].server = "open" /\ L[l].sync = link[l].sync /\ (OpenIn(L, l) <=> OpenIn(link, l))
      /\ \A n \in DOMAIN L[l].up : L[l].up[n].t # "hello"
  BY HeardAll
<1>2. f.id \in Nat \ {0} /\ link[l].sync # NoSync
  BY HeadIs, VoteFrames DEF NoSync
<1>3. OpenIn(L, l) => child[l[1]].op.id = L[l].sync.id /\ child[l[1]].op.state = "prepared"
  <2> SUFFICES ASSUME OpenIn(link, l) PROVE child[l[1]].op.id = f.id /\ child[l[1]].op.state = "prepared"
    BY <1>1
  <2>1. Protocol(link[l], child[l[1]], Ask(pass, l)) /\ link[l] \in LinkState
    BY LinkFacts DEF Inv
  <2>2. Undecided(link[l], Ask(pass, l), f.id)
    BY <1>2 DEF Undecided
  <2> QED
    BY <2>1, <2>2, VoteTells
<1>4. g \in Seq(DownFrame) /\ srv.cur \in Epochs
  <2>1. Frame("commit", f.id, 0) \in DownFrame
    BY <1>2, Zero, FrameTypes DEF Orders
  <2> QED
    BY <2>1, ServerTypes DEF ServerState
<1>5. g = <<Frame("commit", L[l].sync.id, 0)>> /\ link' = Synced(L, l, g, srv.cur)
  BY <1>1
<1> DEFINE R == Synced(L, l, g, srv.cur)
<1> HIDE DEF L, g
<1>6. /\ R \in LinkTable /\ \A m \in Links \ {l} : R[m] = L[m]
      /\ SameEnds(L[l], R[l]) /\ R[l].up = L[l].up
      /\ R[l].down = IF OpenIn(L, l) THEN L[l].down \o g ELSE L[l].down
      /\ R[l].synced /\ R[l].epoch = srv.cur /\ R[l].sync = NoSync /\ R[l].missed = L[l].missed
  <2>1. L \in LinkTable /\ g \in Seq(DownFrame) /\ srv.cur \in Epochs
    BY <1>1, <1>4
  <2>2. R = Synced(L, l, g, srv.cur)
    OBVIOUS
  <2> HIDE DEF R
  <2>3. /\ R \in LinkTable /\ \A m \in Links \ {l} : R[m] = L[m]
        /\ SameEnds(L[l], R[l]) /\ R[l].up = L[l].up
    BY <2>1, <2>2, SyncedIs
  <2>4. /\ R[l].down = IF OpenIn(L, l) THEN L[l].down \o g ELSE L[l].down
        /\ R[l].synced /\ R[l].epoch = srv.cur /\ R[l].sync = NoSync /\ R[l].missed = L[l].missed
    BY <2>1, <2>2, SyncedIs
  <2> QED
    BY <2>3, <2>4
<1> HIDE DEF R
<1>7. /\ R[l].down = IF OpenIn(L, l) THEN L[l].down \o <<Frame("commit", L[l].sync.id, 0)>> ELSE L[l].down
      /\ L[l].sync # NoSync /\ L[l].sync.epoch = srv.cur
  BY <1>1, <1>2, <1>5, <1>6
<1>8. All(srv, pass, R, child, root)
  BY <1>1, <1>3, <1>6, <1>7, SyncStep
<1> QED
  BY <1>5, <1>8 DEF Inv, R

\* A vote is counted, decides a reconciliation, or comes too late.
LEMMA VoteKeeps ==
  ASSUME Inv, NEW l \in Links, link[l].server = "open", link[l].up # <<>>, NEW f, f = Head(link[l].up), f.t = "vote",
         ReceiveVote(l, f)
  PROVE  Inv'
<1> DEFINE heard == Received(l, "up")
           counted == pass.phase = "preparing" /\ pass.id = f.id /\ l \in DOMAIN pass.vote /\ pass.vote[l] = "wait"
<1>1. All(srv, pass, heard, child, root) /\ heard[l].server = "open"
  BY HeardAll
<1>2. CASE counted /\ pass' = [pass EXCEPT !.vote[l] = f.vote] /\ link' = heard /\ UNCHANGED <<srv, child, root>>
  BY <1>2, CountedKeeps
<1>3. CASE ServerCloses(heard, l)
  BY <1>1, <1>3, ClosesKeeps
<1>4. CASE /\ link[l].sync.id = f.id /\ Reconcile(heard, l, <<Frame("abort", f.id, 0)>>)
           /\ UNCHANGED <<pass, child, root>>
  BY <1>4, AgainKeeps
<1>5. CASE /\ link[l].sync.id = f.id /\ f.vote = "yes" /\ link[l].sync.epoch = srv.cur
           /\ link' = Synced(heard, l, <<Frame("commit", f.id, 0)>>, srv.cur)
           /\ UNCHANGED <<srv, pass, child, root>>
  BY <1>5, FollowsKeeps
<1>6. CASE link' = heard /\ UNCHANGED <<srv, pass, child, root>>
  BY <1>1, <1>6 DEF Inv
<1>7. \/ counted /\ pass' = [pass EXCEPT !.vote[l] = f.vote] /\ link' = heard /\ UNCHANGED <<srv, child, root>>
      \/ ServerCloses(heard, l)
      \/ /\ link[l].sync.id = f.id /\ Reconcile(heard, l, <<Frame("abort", f.id, 0)>>)
         /\ UNCHANGED <<pass, child, root>>
      \/ /\ link[l].sync.id = f.id /\ f.vote = "yes" /\ link[l].sync.epoch = srv.cur
         /\ link' = Synced(heard, l, <<Frame("commit", f.id, 0)>>, srv.cur)
         /\ UNCHANGED <<srv, pass, child, root>>
      \/ link' = heard /\ UNCHANGED <<srv, pass, child, root>>
  BY DEF ReceiveVote, Synced
<1> QED
  BY <1>2, <1>3, <1>4, <1>5, <1>6, <1>7

\* Everything the server can receive.
LEMMA ServerReceivesKeeps ==
  ASSUME Inv, NEW l \in Links, ServerReceives(l)
  PROVE  Inv'
<1> DEFINE f == Head(link[l].up)
<1>1. link[l].server = "open" /\ link[l].up # <<>> /\ All(srv, pass, link, child, root)
  BY DEF ServerReceives, Inv
<1>2. CASE f.t = "hello" /\ ReceiveHello(l, f.epoch)
  BY <1>1, <1>2, HelloKeeps
<1>3. CASE f.t = "vote" /\ ReceiveVote(l, f)
  BY <1>1, <1>3, VoteKeeps
<1>4. CASE f.t = "result" /\ ReceiveResult(l, f.id)
  BY <1>1, <1>4, ResultKeeps
<1>5. CASE f.t = "bye" /\ ServerCloses(link, l)
  BY <1>1, <1>5, ClosesKeeps
<1> QED
  BY <1>2, <1>3, <1>4, <1>5 DEF ServerReceives

LEMMA ReconcileTimesOutKeeps ==
  ASSUME Inv, NEW l \in Links, ReconcileTimesOut(l)
  PROVE  Inv'
<1>1. link[l].sync # NoSync /\ ServerCloses(link, l) /\ All(srv, pass, link, child, root)
  BY DEF ReconcileTimesOut, Inv
<1>2. link[l].server = "open"
  BY <1>1, LinkFacts
<1> QED
  BY <1>1, <1>2, ClosesKeeps

LEMMA ServerNoticesKeeps ==
  ASSUME Inv, NEW l \in Links, ServerNotices(l)
  PROVE  Inv'
  BY ClosesKeeps DEF ServerNotices, Inv

-----------------------------------------------------------------------------
(* The theorems.                                                           *)

\* A cluster as it starts.
LEMMA InitInv ==
  ASSUME Init
  PROVE  Inv
<1>1. /\ srv = [cur |-> 1, prev |-> 0, seq |-> 1, ids |-> 0, ran |-> {1}, lost |-> {}, faults |-> 0]
      /\ pass = Idle
      /\ link = [l \in Links |-> NoLink] /\ child = [c \in Children |-> Fresh]
      /\ root = [r \in Roots |-> [epoch |-> 0, at |-> None]]
  BY DEF Init
<1>2. 0 \in Epochs /\ 1 \in Epochs
  BY BoundsAssumption DEF Epochs
<1>3. srv \in ServerState /\ srv.cur = 1 /\ srv.prev = 0 /\ srv.seq = 1 /\ srv.ids = 0 /\ srv.ran = {1}
  BY <1>1, <1>2 DEF ServerState
<1>4. /\ \A l \in Links : link[l] = NoLink
      /\ \A c \in Children : child[c] = Fresh
      /\ \A r \in Roots : root[r].epoch = 0
  BY <1>1
<1>5. /\ NoLink.server = "new" /\ NoLink.child = "new" /\ NoLink.down = <<>> /\ NoLink.up = <<>>
      /\ ~NoLink.synced /\ NoLink.sync = NoSync /\ ~NoLink.alive /\ NoLink.missed = {}
  BY DEF NoLink
<1>6. pass.phase = "idle" /\ DOMAIN pass.vote = {}
  BY <1>1, NoVotes DEF Idle
<1>7. /\ Fresh.op = NoOp /\ NoOp.state = "none" /\ ~Fresh.held /\ Fresh.prev = 0 /\ Fresh.cur = 1 /\ Fresh.allowed = 0
  BY DEF Fresh, NoOp
<1>8. OnTheWay(link) = {} /\ \A l \in Links : Frames(link[l].up) = {}
  BY <1>4, <1>5, FramesOfEmpty DEF OnTheWay
<1>9. Types(srv, pass, link, child, root)
  <2>1. srv \in ServerState
    BY <1>3
  <2>2. pass \in PassState
    BY <1>1, InitTypes
  <2>3. link \in [Links -> LinkState] /\ child \in [Children -> ChildState]
    BY <1>1, InitTypes
  <2>4. root \in [Roots -> [epoch : Epochs, at : Links \cup {None}]]
    BY <1>1, <1>2
  <2> QED
    BY <2>1, <2>2, <2>3, <2>4 DEF Types
<1>10. EpochsRise(srv, pass)
  BY <1>3, <1>6 DEF EpochsRise
<1>11. OneUpstream(link)
  <2>1. ASSUME NEW c \in Children
        PROVE  \E n \in 0 .. MaxLinks[c] : {l \in LinksOf(c) : link[l].child # "new"} = {c} \X (1 .. n)
    <3>1. {l \in LinksOf(c) : link[l].child # "new"} = {}
      BY <1>4, <1>5 DEF LinksOf
    <3>2. 0 \in 0 .. MaxLinks[c] /\ 1 .. 0 = {}
      BY BoundsAssumption
    <3>3. {c} \X {} = {}
      OBVIOUS
    <3> QED
      BY <3>1, <3>2, <3>3
  <2>2. \A l \in Links : link[l].child = "new" /\ link[l].server = "new"
    BY <1>4, <1>5
  <2> QED
    BY <2>1, <2>2 DEF OneUpstream
<1>12. ServerEnds(link, pass)
  BY <1>4, <1>5, <1>6 DEF ServerEnds, FirstHello
<1>13. Staging(child)
  BY <1>4, <1>7 DEF Staging, Stage
<1>14. OneEpochEach(srv, pass, link, child)
  <2>1. \A i, e : ~Offered(pass, link, child, i, e)
    BY <1>4, <1>5, <1>6, <1>7, <1>8 DEF Offered
  <2> QED
    BY <1>8, <2>1 DEF OneEpochEach
<1>15. Protocols(pass, link, child)
  BY <1>4, <1>5 DEF Protocols, OpenIn
<1>16. CallsKnown(srv, link, root) /\ RetiredIsOld(srv, link, child) /\ EpochsRun(srv, link, child)
  BY <1>3, <1>4, <1>7, <1>8 DEF CallsKnown, RetiredIsOld, Retired, EpochsRun
<1>17. Missed(srv, link)
  BY <1>4, <1>5 DEF Missed, MissedIn
<1> QED
  BY <1>17, <1>9, <1>10, <1>11, <1>12, <1>13, <1>14, <1>15, <1>16 DEF Inv, All

\* The actions of the server leave the children as they are.
LEMMA ServerTurns ==
  ASSUME child' = child
  PROVE  Turns
  BY DEF Turns, Turn

\* Every action keeps the invariant.
LEMMA NextInv ==
  ASSUME Inv, [Next]_vars
  PROVE  Inv'
<1>1. CASE UNCHANGED vars
  BY <1>1 DEF vars, Inv
<1>2. CASE StartReload \/ ServerReloads
  BY <1>2, StartReloadKeeps, LoadFailsKeeps, LoadedKeeps, RetirementEndsKeeps, LocalSettlesKeeps, CommitKeeps, CommitFailsKeeps, AbortKeeps,
     RolledBackKeeps, VoteMissingKeeps DEF ServerReloads
<1>3. ASSUME NEW l \in Links, ServerEnd(l) PROVE Inv'
  BY <1>3, ServerReceivesKeeps, ReconcileTimesOutKeeps, ServerNoticesKeeps DEF ServerEnd
<1>4. ASSUME NEW l \in Links, ChildEnd(l) \/ Cut(l) PROVE Inv'
  BY <1>4, ChildReceivesKeeps, ChildNoticesKeeps, CutKeeps DEF ChildEnd
<1>5. ASSUME NEW r \in Roots, StartRoot(r) \/ EndRoot(r) \/ \E l \in Links : Call(r, l) PROVE Inv'
  BY <1>5, StartRootKeeps, EndRootKeeps, CallKeeps
<1>6. ASSUME NEW c \in Children, ChildReload(c) \/ ChildReturns(c) \/ Connect(c) \/ Restart(c) PROVE Inv'
  BY <1>6, ChildLoadedKeeps, ChildLoadFailsKeeps, ChildRetirementEndsKeeps, ChildPreparesKeeps, ChildRolledBackKeeps,
     ChildReturnsKeeps, ConnectKeeps, RestartKeeps DEF ChildReload
<1> QED
  BY <1>1, <1>2, <1>3, <1>4, <1>5, <1>6 DEF Next

\* A step of a child takes its turn, and leaves the server as it is.
LEMMA NextTurns ==
  ASSUME Inv, Next
  PROVE  child' = child \/ (Turns /\ srv' = srv)
<1>1. CASE StartReload \/ ServerReloads
  BY <1>1 DEF ServerReloads, StartReload, LoadFails, Loaded, RetirementEnds, LocalSettles, Commit, CommitFails, Abort,
     RolledBack, VoteMissing
<1>2. ASSUME NEW l \in Links, ServerEnd(l) PROVE child' = child
  BY <1>2 DEF ServerEnd, ServerReceives, ReceiveHello, ReceiveVote, ReceiveResult, ServerCloses, ReconcileTimesOut, ServerNotices
<1>3. ASSUME NEW l \in Links, ChildEnd(l) \/ Cut(l) PROVE Turns /\ srv' = srv
  BY <1>3, ChildReceivesKeeps, ChildNoticesKeeps, CutKeeps DEF ChildEnd, ChildReceives, ChildNotices, Cut
<1>4. ASSUME NEW r \in Roots, StartRoot(r) \/ EndRoot(r) \/ \E l \in Links : Call(r, l) PROVE child' = child
  BY <1>4 DEF StartRoot, EndRoot, Call
<1>5. ASSUME NEW c \in Children, ChildReload(c) \/ ChildReturns(c) \/ Connect(c) \/ Restart(c) PROVE Turns /\ srv' = srv
  <2>1. Turns
    BY <1>5, ChildLoadedKeeps, ChildLoadFailsKeeps, ChildRetirementEndsKeeps, ChildPreparesKeeps, ChildRolledBackKeeps,
       ChildReturnsKeeps, ConnectKeeps, RestartKeeps DEF ChildReload
  <2>2. srv' = srv
    BY <1>5 DEF ChildReload, ChildLoaded, ChildLoadFails, ChildRetirementEnds, ChildPrepares, ChildRolledBack,
       ChildReturns, Connect, Restart
  <2> QED
    BY <2>1, <2>2
<1> QED
  BY <1>1, <1>2, <1>3, <1>4, <1>5 DEF Next

\* Frames on their way tell what is still true when they arrive (cluster.ts:81-209): the
\* invariant holds in every state the hosts, their links and their crashes can reach.
THEOREM ClusterInvariant == Spec => []Inv
<1>1. Init => Inv
  BY InitInv
<1>2. Inv /\ [Next]_vars => Inv'
  BY NextInv
<1> QED
  BY <1>1, <1>2, PTL DEF Spec

\* The invariant makes the hosts agree.
LEMMA InvAgrees ==
  ASSUME Inv
  PROVE  EpochsAgree
<1>1. /\ \A l \in Links : link[l] \in LinkState /\ l[1] \in Children
      /\ \A c \in Children : child[c] \in ChildState
  BY InvTypes
<1>2. TypeOK
  <2>1. /\ srv \in [cur : Epochs \ {0}, prev : Epochs, seq : Epochs, ids : Nat, ran : SUBSET Epochs,
                    lost : SUBSET Nat, faults : Nat]
        /\ root \in [Roots -> [epoch : Epochs, at : Links \cup {None}]]
    BY DEF Inv, All, Types, ServerState
  <2>2. /\ pass.phase \in {"idle", "loading", "preparing", "unwinding"} /\ pass.epoch \in Epochs
        /\ pass.local \in {"none", "retiring", "working", "failing", "yes", "no"} /\ DOMAIN pass.vote \subseteq Links
    BY ServerTypes DEF PassState
  <2>3. ASSUME NEW l \in Links
        PROVE  /\ {link[l].server, link[l].child} \subseteq {"new", "open", "closed"}
               /\ link[l].synced \in BOOLEAN /\ link[l].epoch \in Epochs /\ link[l].missed \subseteq srv.ran
    BY <1>1 DEF LinkState, Ends, Inv, All, Missed, MissedIn
  <2>4. ASSUME NEW c \in Children
        PROVE  /\ {child[c].cur, child[c].prev, child[c].allowed, child[c].staged, child[c].op.epoch} \subseteq Epochs
               /\ child[c].op.state \in {"none", "loading", "retiring", "working", "prepared", "failing"}
               /\ child[c].runs \subseteq [root : Roots, epoch : Epochs, link : Links]
    <3>1. child[c] \in ChildState /\ child[c].op \in OpState
      BY <1>1 DEF ChildState
    <3> QED
      BY <3>1 DEF ChildState, OpState, RunRecord
  <2> QED
    BY <2>1, <2>2, <2>3, <2>4 DEF TypeOK
<1>3. OnlyCommitted
  <2>1. EpochsRun(srv, link, child)
    BY DEF Inv, All
  <2>2. ASSUME NEW l \in Links, NEW i \in DOMAIN link[l].up, link[l].up[i].t = "hello"
        PROVE  link[l].up[i].epoch <= srv.cur
    BY <2>1, <2>2 DEF EpochsRun, Frames
  <2> QED
    BY <2>1, <2>2 DEF OnlyCommitted, EpochsRun
<1>4. ASSUME NEW l \in Links, OpenIn(link, l), link[l].synced, ~child[l[1]].failed
      PROVE  \/ child[l[1]].cur = link[l].epoch
             \/ /\ child[l[1]].op.state = "prepared" /\ child[l[1]].op.epoch = link[l].epoch
                /\ \E i \in DOMAIN link[l].down : CommitAt(l, i)
  <2>1. Known(link[l], child[l[1]])
    BY <1>4 DEF Inv, All, Protocols, Protocol
  <2> QED
    BY <1>4, <2>1 DEF Known, Has, Frames, CommitAt
<1>5. PeersKnown
  BY <1>4 DEF PeersKnown, Open, OpenIn
<1>6. CommitFirst
  <2> SUFFICES ASSUME NEW l \in Links, NEW i \in DOMAIN link[l].down, NEW f, f = link[l].down[i],
                      f.t = "call", f.epoch \notin link[l].missed, link[l].synced, ~child[l[1]].failed,
                      ~(f.epoch <= child[l[1]].cur)
               PROVE  f.epoch <= child[l[1]].op.epoch /\ \E k \in 1 .. i - 1 : CommitAt(l, k)
    BY DEF CommitFirst
  <2>1. /\ link[l] \in LinkState /\ link[l].down \in Seq(DownFrame) /\ link[l].epoch \in Nat
        /\ child[l[1]].cur \in Nat
    BY <1>1, BoundsAssumption DEF LinkState, Epochs, ChildState
  <2>2. OpenIn(link, l)
    <3>1. link[l].server = "open" /\ link[l].down # <<>>
      BY <2>1 DEF Inv, All, ServerEnds
    <3> QED
      BY <3>1 DEF Inv, All, OneUpstream
  <2>3. f.epoch <= link[l].epoch /\ f.epoch \in Nat
    <3>1. f \in OnTheWay(link)
      BY DEF OnTheWay, Frames
    <3>2. f.epoch \in srv.ran \cup {0}
      BY <3>1 DEF Inv, All, CallsKnown
    <3>3. MissedIn(srv, link[l]) /\ srv.ran \subseteq Nat
      BY TypesOf DEF Inv, All, Missed
    <3> QED
      BY <2>1, <3>2, <3>3 DEF MissedIn
  <2>4. child[l[1]].cur # link[l].epoch
    BY <2>3
  <2>5. PICK n \in DOMAIN link[l].down : CommitAt(l, n)
    BY <1>4, <2>2, <2>4
  <2>6. n < i
    <3>1. CommitTells(link[l], child[l[1]]) /\ NewCall(link[l], child[l[1]], f)
      BY <2>2 DEF Inv, All, Protocols, Protocol, NewCall
    <3> QED
      BY <2>5, <3>1 DEF CommitTells, CommitAt
  <2>7. child[l[1]].op.epoch = link[l].epoch
    BY <1>4, <2>2, <2>4
  <2> QED
    BY <2>1, <2>3, <2>5, <2>6, <2>7
<1> QED
  BY <1>2, <1>3, <1>5, <1>6 DEF EpochsAgree

\* A child runs and retains only epochs the server has decided, is what a usable link of
\* the server takes it to be or has the commit on its way, and commits an epoch before it
\* receives a call of it - unless the server moved to that epoch without it (see CommitFirst),
\* or it failed in its own commit (cluster.ts:9-13, 45-50, 81-141; host.ts:771-775).
THEOREM EpochsAgreed == Spec => []EpochsAgree
<1>1. Inv => EpochsAgree
  BY InvAgrees
<1> QED
  BY <1>1, ClusterInvariant, PTL

RetiresNow ==
    \A c \in Children :
        LET old == child[c].prev
            forced == child[c].op.state \in {"loading", "retiring"} /\ child'[c].op.state # child[c].op.state
        IN old # 0 /\ child'[c].prev = 0 /\ child'[c] # Fresh /\ ~forced =>
               /\ ChildRoots(child'[c], old) = {}
               /\ Upstream(link', c) # {} => old \notin {srv.prev, srv.cur}

\* What the server said is retired is older than all it retains, so a child's turn is no earlier.
LEMMA NextRetires ==
  ASSUME Inv, Inv', [Next]_vars
  PROVE  [RetiresNow]_vars
<1>1. CASE UNCHANGED vars
  BY <1>1
<1>2. CASE Next
  <2> SUFFICES ASSUME NEW c \in Children, child[c].prev # 0, child'[c].prev = 0, child'[c] # Fresh,
                      ~(child[c].op.state \in {"loading", "retiring"} /\ child'[c].op.state # child[c].op.state)
               PROVE  /\ ChildRoots(child'[c], child[c].prev) = {}
                      /\ Upstream(link', c) # {} => child[c].prev \notin {srv.prev, srv.cur}
    BY DEF RetiresNow
  <2>1. Turns /\ srv' = srv
    BY <1>2, NextTurns
  <2>2. /\ ChildRoots(child'[c], child[c].prev) = {}
        /\ Upstream(link', c) # {} => child[c].prev <= child'[c].allowed
    BY <2>1 DEF Turns, Turn
  <2>3. Retired(srv, child'[c].allowed)
    BY <2>1 DEF Inv, All, RetiredIsOld
  <2>4. child[c].prev \in Nat /\ child'[c].allowed \in Nat /\ srv.cur \in Nat /\ srv.prev \in Nat
    <3>1. child[c].prev \in Nat
      BY InvTypes, BoundsAssumption DEF ChildState, Epochs
    <3>2. child'[c] \in ChildState
      BY DEF Inv, All, Types
    <3>3. child'[c].allowed \in Nat
      BY <3>2, BoundsAssumption DEF ChildState, Epochs
    <3>4. srv.cur \in Nat /\ srv.prev \in Nat
      BY ServerTypes, BoundsAssumption DEF Epochs
    <3> QED
      BY <3>1, <3>3, <3>4
  <2> QED
    BY <2>2, <2>3, <2>4 DEF Retired
<1> QED
  BY <1>1, <1>2

\* A child drops an epoch, unless a new prepare forces it, when nothing of it runs there
\* and its parent, if it has one, has dropped it (host.ts:524-538, reload.ts).
THEOREM RetiredInTurn == Spec => RetiresInTurn
<1>1. Inv /\ Inv' /\ [Next]_vars => [RetiresNow]_vars
  BY NextRetires
<1>2. Spec => [][RetiresNow]_vars
  BY <1>1, ClusterInvariant, PTL DEF Spec
<1> QED
  BY <1>2 DEF RetiresInTurn, RetiresNow

=============================================================================
