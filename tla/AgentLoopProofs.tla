--------------------------- MODULE AgentLoopProofs ---------------------------
(***************************************************************************)
(* What hosts queue reaches the model once and as the transcript shows it,  *)
(* for any number of messages, tool calls, requests and faults.  Between    *)
(* two requests a message is in the queue, in what the run has drained, in  *)
(* the transcript but not the context, or in both; the invariant says where *)
(* for each await of the loop.                                             *)
(***************************************************************************)
EXTENDS AgentLoop, SequenceTheorems, FiniteSetTheorems, TLAPS

-----------------------------------------------------------------------------
(* The invariant.                                                          *)

Queued   == Steers \cup FollowUps
Messages == [role : {"user"}, id : Queued \cup {"prompt"}]
              \cup [role : {"assistant"}, calls : Nat, stop : {"stop", "length", "error", "aborted"}]
              \cup [role : {"toolResult"}, call : Nat]
Waits    == {"idle", "begin", "turn", "inject", "push", "calls", "finish", "poll", "followUp",
             "ending", "stopped", "failed"}
RunState == [at : Waits, prompts : Seq(Queued \cup {"prompt"}), pending : Seq(Queued), more : BOOLEAN,
             again : BOOLEAN, skip : BOOLEAN, turned : BOOLEAN, aborted : BOOLEAN, left : Seq(Steers)]
BatchState == [calls : Nat, size : Nat, serial : BOOLEAN, truncated : BOOLEAN, next : Nat,
               state : Seq({"new", "ready", "running", "over"}), ends : Seq(BOOLEAN), results : Seq(Nat),
               late : SUBSET Nat]

Types ==
    /\ mode \in QueueModes
    /\ steering \in Seq(Steers) /\ followUps \in Seq(FollowUps)
    /\ messages \in Seq(Messages) /\ context \in Seq(Messages)
    /\ run \in RunState /\ batch \in BatchState
    /\ fate \in [Queued -> {"unsent", "sent", "dropped"}]
    /\ used \in [requests : Nat, faults : Nat]

\* The locals of the loop are empty where it does not need them.
Locals ==
    /\ run.at # "begin" => run.prompts = <<>>
    /\ run.at \notin {"turn", "inject", "push"} => run.pending = <<>>
    /\ run.at = "push" => run.pending # <<>>
    /\ run.at \in {"followUp", "ending"} => run.left = <<>>
    /\ run.at # "calls" => batch = NoBatch

\* How far the context of the run is behind the transcript, or ahead of it.
Follows ==
    /\ run.at = "begin" => context = messages \o Users(run.prompts)
    /\ run.at \in {"turn", "inject", "finish", "poll", "followUp", "ending", "stopped"} => context = messages
    /\ run.at = "push" => messages = Append(context, User(Head(run.pending)))
    /\ run.at = "calls" => messages = context \o Results(batch.results)

\* Where steering messages are that the model was not asked about yet.
AtMostOne(S) == \A a, b \in S : a = b
OneSteered ==
    mode.steer = "one-at-a-time" =>
        /\ run.at \in {"idle", "failed"} => Steered(messages) = {}
        /\ run.at = "begin" => AtMostOne(Steered(context)) /\ (~run.skip => Steered(context) = {})
        /\ run.at \in {"inject", "push"} => AtMostOne(Steered(context) \cup (Sent(run.pending) \cap Steers))
        /\ run.at = "turn" => AtMostOne(Sent(run.pending) \cap Steers)
        /\ run.at \notin {"idle", "failed", "begin", "inject", "push"} => Steered(context) = {}

\* A batch reports the results of its first calls: a serial one of the calls that are
\* over, a parallel one nothing before all are.  Only an aborted one leaves calls out.
Reports(b, aborted) ==
    /\ b.size \in 1 .. b.calls /\ b.next \in 1 .. b.size + 1 /\ b.calls <= MaxCalls
    /\ DOMAIN b.state = 1 .. b.calls /\ DOMAIN b.ends = 1 .. b.calls
    /\ b.next <= b.size \/ ~aborted \/ b.truncated => b.size = b.calls
    /\ b.truncated => b.serial
    /\ \A k \in 1 .. b.calls : /\ k < b.next => b.state[k] # "new"
                               /\ k > b.next => b.state[k] = "new"
                               /\ k >= b.next /\ b.next > b.size => b.state[k] = "new"
                               /\ b.truncated => b.state[k] # "ready"
                               /\ b.serial /\ k < b.next => b.state[k] = "over"
                               /\ ~b.serial /\ b.next <= b.size => b.state[k] # "running"
    /\ Len(b.results) <= b.size
    /\ \A k \in DOMAIN b.results : b.results[k] = k
    /\ IF b.serial THEN Len(b.results) = IF b.next <= b.size /\ b.state[b.next] = "over" THEN b.next ELSE b.next - 1
       ELSE b.results # <<>> => b.next > b.size /\ \A k \in 1 .. b.size : b.state[k] = "over"
Batched == run.at = "calls" => Reports(batch, run.aborted)

\* The last reply of the run is answered once its calls are dealt with.
Answered(ms, aborted) ==
    \E i \in DOMAIN ms :
        /\ ms[i].role = "assistant"
        /\ \E n \in 0 .. ms[i].calls : Answers(ms, i, n) /\ (~aborted => n = ms[i].calls)
Replied ==
    /\ run.at = "calls" => /\ context # <<>>
                           /\ context[Len(context)].role = "assistant"
                           /\ context[Len(context)].calls = batch.calls
    /\ run.at = "begin" => ~run.turned
    /\ run.at \in {"finish", "poll", "followUp"} => Answered(context, run.aborted)
    /\ run.turned /\ run.at \in {"turn", "inject", "push"} => Answered(context, run.aborted)

Inv == Types /\ Locals /\ Follows /\ Conserved /\ OneSteered /\ Batched /\ Replied

-----------------------------------------------------------------------------
(* Counting in sequences.                                                  *)

Places(m, q) == {i \in DOMAIN q : q[i] = m}

LEMMA PlacesFinite ==
  ASSUME NEW S, NEW q \in Seq(S), NEW m
  PROVE  IsFiniteSet(Places(m, q)) /\ Occurrences(m, q) = Cardinality(Places(m, q)) /\ Occurrences(m, q) \in Nat
<1>1. Places(m, q) \in SUBSET (1 .. Len(q)) /\ Len(q) \in Int
  BY DEF Places
<1>2. IsFiniteSet(1 .. Len(q))
  BY <1>1, FS_Interval
<1>3. IsFiniteSet(Places(m, q))
  BY <1>1, <1>2, FS_Subset
<1>4. Cardinality(Places(m, q)) \in Nat
  BY <1>3, FS_CardinalityType
<1> QED
  BY <1>3, <1>4 DEF Occurrences, Places

LEMMA OccursIn ==
  ASSUME NEW S, NEW q \in Seq(S), NEW m
  PROVE  Occurrences(m, q) = 0 <=> \A i \in DOMAIN q : q[i] # m
<1>1. Occurrences(m, q) = 0 <=> Places(m, q) = {}
  BY PlacesFinite, FS_EmptySet
<1> QED
  BY <1>1 DEF Places

LEMMA OccursEmpty == \A m : Occurrences(m, <<>>) = 0
<1>1. <<>> \in Seq({}) /\ DOMAIN <<>> = {}
  OBVIOUS
<1>2. ASSUME NEW m PROVE Occurrences(m, <<>>) = 0
  BY <1>1, OccursIn
<1> QED
  BY <1>2

LEMMA OccursConcat ==
  ASSUME NEW S, NEW q \in Seq(S), NEW r \in Seq(S), NEW m
  PROVE  Occurrences(m, q \o r) = Occurrences(m, q) + Occurrences(m, r)
<1> DEFINE Q == Places(m, q)
           R == Places(m, r)
           T == {i \in DOMAIN (q \o r) : i > Len(q) /\ (q \o r)[i] = m}
           f == [i \in R |-> Len(q) + i]
<1>1. /\ Len(q) \in Nat /\ Len(r) \in Nat /\ q \o r \in Seq(S)
      /\ DOMAIN q = 1 .. Len(q) /\ DOMAIN r = 1 .. Len(r) /\ DOMAIN (q \o r) = 1 .. Len(q) + Len(r)
      /\ \A i \in 1 .. Len(q) + Len(r) : (q \o r)[i] = IF i <= Len(q) THEN q[i] ELSE r[i - Len(q)]
  BY ConcatProperties, LenProperties
<1>2. Places(m, q \o r) = Q \cup T /\ Q \cap T = {}
  BY <1>1 DEF Places
<1>3. f \in Bijection(R, T)
  <2>1. \A i \in R : i \in 1 .. Len(r) /\ r[i] = m
    BY <1>1 DEF Places
  <2>2. \A i \in R : Len(q) + i \in T
    BY <1>1, <2>1
  <2>3. \A t \in T : t - Len(q) \in R /\ Len(q) + (t - Len(q)) = t
    BY <1>1 DEF Places
  <2>4. \A i, j \in R : Len(q) + i = Len(q) + j => i = j
    BY <1>1, <2>1
  <2> HIDE DEF R, T
  <2>5. f \in [R -> T] /\ (\A i, j \in R : f[i] = f[j] => i = j) /\ (\A t \in T : \E i \in R : f[i] = t)
    BY <2>2, <2>3, <2>4
  <2> QED
    BY <2>5 DEF Bijection, Injection, Surjection, IsInjective
<1>4. IsFiniteSet(Q) /\ IsFiniteSet(R)
  BY PlacesFinite
<1>5. IsFiniteSet(T) /\ Cardinality(T) = Cardinality(R)
  <2> HIDE DEF R, T, f
  <2> QED
    BY <1>3, <1>4, FS_Bijection DEF ExistsBijection
<1>6. Cardinality(Q \cup T) = Cardinality(Q) + Cardinality(T)
  <2> HIDE DEF Q, T
  <2>1. Cardinality(Q \cap T) = 0 /\ Cardinality(Q) \in Nat /\ Cardinality(T) \in Nat
    BY <1>2, <1>4, <1>5, FS_EmptySet, FS_CardinalityType
  <2>2. Cardinality(Q \cup T) = Cardinality(Q) + Cardinality(T) - Cardinality(Q \cap T)
    BY <1>4, <1>5, FS_Union
  <2> QED
    BY <2>1, <2>2
<1> QED
  BY <1>1, <1>2, <1>5, <1>6, PlacesFinite

LEMMA OccursOne ==
  ASSUME NEW x, NEW m
  PROVE  Occurrences(m, <<x>>) = IF x = m THEN 1 ELSE 0
<1>1. <<x>> \in Seq({x}) /\ DOMAIN <<x>> = {1} /\ <<x>>[1] = x
  OBVIOUS
<1>2. CASE x # m
  BY <1>1, <1>2, OccursIn
<1>3. CASE x = m
  <2>1. Places(m, <<x>>) = {1}
    BY <1>3 DEF Places
  <2>2. Occurrences(m, <<x>>) = Cardinality(Places(m, <<x>>))
    BY <1>1, PlacesFinite, Zenon
  <2>3. Cardinality({1}) = 1
    BY FS_Singleton
  <2> QED
    BY <1>3, <2>1, <2>2, <2>3
<1> QED
  BY <1>2, <1>3

LEMMA OccursAppend ==
  ASSUME NEW S, NEW q \in Seq(S), NEW x \in S, NEW m
  PROVE  Occurrences(m, Append(q, x)) = Occurrences(m, q) + IF x = m THEN 1 ELSE 0
<1>1. Append(q, x) = q \o <<x>> /\ <<x>> \in Seq(S)
  BY AppendIsConcat
<1>2. Occurrences(m, q \o <<x>>) = Occurrences(m, q) + Occurrences(m, <<x>>)
  BY <1>1, OccursConcat
<1>3. Occurrences(m, <<x>>) = IF x = m THEN 1 ELSE 0
  BY OccursOne
<1> QED
  BY <1>1, <1>2, <1>3

LEMMA OccursTail ==
  ASSUME NEW S, NEW q \in Seq(S), q # <<>>, NEW m
  PROVE  Occurrences(m, q) = Occurrences(m, Tail(q)) + IF Head(q) = m THEN 1 ELSE 0
<1>1. q = <<Head(q)>> \o Tail(q) /\ <<Head(q)>> \in Seq(S) /\ Tail(q) \in Seq(S)
  OBVIOUS
<1>2. Occurrences(m, Tail(q)) \in Nat
  BY <1>1, PlacesFinite
<1>3. Occurrences(m, <<Head(q)>> \o Tail(q)) = Occurrences(m, <<Head(q)>>) + Occurrences(m, Tail(q))
  BY <1>1, OccursConcat
<1>4. Occurrences(m, <<Head(q)>>) = IF Head(q) = m THEN 1 ELSE 0
  BY OccursOne
<1>5. Occurrences(m, q) = Occurrences(m, <<Head(q)>> \o Tail(q))
  BY <1>1, Zenon
<1> QED
  BY <1>2, <1>3, <1>4, <1>5

-----------------------------------------------------------------------------
(* What a drain takes and leaves.                                          *)

LEMMA Drains ==
  ASSUME NEW S, NEW q \in Seq(S), NEW how
  PROVE  /\ Taken(q, how) \in Seq(S) /\ Left(q, how) \in Seq(S)
         /\ q = Taken(q, how) \o Left(q, how)
         /\ q # <<>> => Taken(q, how) # <<>>
         /\ q = <<>> => Taken(q, how) = <<>> /\ Left(q, how) = <<>>
         /\ how # "all" => Len(Taken(q, how)) <= 1
<1>1. CASE how = "all" \/ q = <<>>
  <2>1. Taken(q, how) = q
    BY <1>1 DEF Taken
  <2>2. Left(q, how) = <<>>
    BY <2>1 DEF Left
  <2>3. how # "all" => Len(q) = 0
    BY <1>1
  <2> QED
    BY <2>1, <2>2, <2>3
<1>2. CASE how # "all" /\ q # <<>>
  <2>1. Taken(q, how) = <<Head(q)>>
    BY <1>2 DEF Taken
  <2>2. Left(q, how) = SubSeq(q, 2, Len(q))
    BY <2>1 DEF Left
  <2>3. Left(q, how) = Tail(q)
    BY <1>2, <2>2
  <2>4. q = <<Head(q)>> \o Tail(q) /\ Head(q) \in S /\ Tail(q) \in Seq(S)
    BY <1>2
  <2> QED
    BY <1>2, <2>1, <2>3, <2>4
<1> QED
  BY <1>1, <1>2

-----------------------------------------------------------------------------
(* Types.                                                                  *)

LEMMA UsersSeq ==
  ASSUME NEW q \in Seq(Queued \cup {"prompt"})
  PROVE  /\ Users(q) \in Seq(Messages) /\ Len(Users(q)) = Len(q) /\ DOMAIN Users(q) = DOMAIN q
         /\ \A i \in DOMAIN q : Users(q)[i] = User(q[i]) /\ User(q[i]) \in Messages
<1>1. DOMAIN q = 1 .. Len(q) /\ Len(q) \in Nat /\ \A i \in DOMAIN q : q[i] \in Queued \cup {"prompt"}
  BY LenProperties
<1>2. \A i \in DOMAIN q : User(q[i]) \in Messages
  BY <1>1 DEF User, Messages
<1>3. Users(q) \in [1 .. Len(q) -> Messages]
  BY <1>1, <1>2 DEF Users
<1> QED
  BY <1>1, <1>2, <1>3 DEF Users

LEMMA ResultsSeq ==
  ASSUME NEW q \in Seq(Nat)
  PROVE  /\ Results(q) \in Seq(Messages) /\ Len(Results(q)) = Len(q) /\ DOMAIN Results(q) = DOMAIN q
         /\ \A i \in DOMAIN q : Results(q)[i] = Result(q[i]) /\ Result(q[i]) \in Messages
<1>1. DOMAIN q = 1 .. Len(q) /\ Len(q) \in Nat /\ \A i \in DOMAIN q : q[i] \in Nat
  BY LenProperties
<1>2. \A i \in DOMAIN q : Result(q[i]) \in Messages
  BY <1>1 DEF Result, Messages
<1>3. Results(q) \in [1 .. Len(q) -> Messages]
  BY <1>1, <1>2 DEF Results
<1> QED
  BY <1>1, <1>2, <1>3 DEF Results

LEMMA QueueTypes ==
  ASSUME Types, NEW how
  PROVE  /\ Taken(steering, how) \in Seq(Steers) /\ Left(steering, how) \in Seq(Steers)
         /\ Taken(followUps, how) \in Seq(FollowUps) /\ Left(followUps, how) \in Seq(FollowUps)
         /\ Taken(steering, how) \in Seq(Queued) /\ Taken(followUps, how) \in Seq(Queued)
         /\ Taken(steering, how) \in Seq(Queued \cup {"prompt"})
         /\ Taken(followUps, how) \in Seq(Queued \cup {"prompt"})
<1>1. steering \in Seq(Steers) /\ followUps \in Seq(FollowUps)
  BY DEF Types
<1>2. /\ Taken(steering, how) \in Seq(Steers) /\ Left(steering, how) \in Seq(Steers)
      /\ Taken(followUps, how) \in Seq(FollowUps) /\ Left(followUps, how) \in Seq(FollowUps)
  BY <1>1, Drains
<1>3. /\ Steers \subseteq Queued /\ FollowUps \subseteq Queued
      /\ Steers \subseteq Queued \cup {"prompt"} /\ FollowUps \subseteq Queued \cup {"prompt"}
  BY DEF Queued
<1> QED
  BY <1>2, <1>3, SeqMonotonic

LEMMA DroppedType ==
  ASSUME Types, NEW S
  PROVE  Dropped(S) \in [Queued -> {"unsent", "sent", "dropped"}]
BY DEF Dropped, Types

\* A call that ends, or is handed over, keeps the batch what it is.
LEMMA OverType ==
  ASSUME batch \in BatchState, NEW i \in DOMAIN batch.state, DOMAIN batch.ends = DOMAIN batch.state,
         NEW t \in BOOLEAN
  PROVE  /\ Over(batch, i, t) \in BatchState
         /\ i \in Nat
         /\ Over(batch, i, t).state = [batch.state EXCEPT ![i] = "over"]
         /\ Over(batch, i, t).ends = [batch.ends EXCEPT ![i] = t]
         /\ Over(batch, i, t).results = IF batch.serial THEN Append(batch.results, i) ELSE batch.results
         /\ Over(batch, i, t).calls = batch.calls /\ Over(batch, i, t).size = batch.size
         /\ Over(batch, i, t).serial = batch.serial /\ Over(batch, i, t).truncated = batch.truncated
         /\ Over(batch, i, t).next = batch.next /\ Over(batch, i, t).late = batch.late
<1>1. /\ batch.state \in Seq({"new", "ready", "running", "over"}) /\ batch.ends \in Seq(BOOLEAN)
      /\ batch.results \in Seq(Nat)
  BY DEF BatchState
<1>2. i \in 1 .. Len(batch.state) /\ i \in 1 .. Len(batch.ends) /\ i \in Nat
  BY <1>1, LenProperties
<1>3. [batch.state EXCEPT ![i] = "over"] \in Seq({"new", "ready", "running", "over"})
  BY <1>1, <1>2, ExceptSeq
<1>4. [batch.ends EXCEPT ![i] = t] \in Seq(BOOLEAN)
  BY <1>1, <1>2, ExceptSeq
<1>5. Append(batch.results, i) \in Seq(Nat)
  BY <1>1, <1>2, AppendProperties
<1> QED
  BY <1>2, <1>3, <1>4, <1>5 DEF Over, BatchState

LEMMA NewBatchType ==
  ASSUME NEW n \in Nat, NEW serial \in BOOLEAN, NEW truncated \in BOOLEAN
  PROVE  NewBatch(n, serial, truncated) \in BatchState
<1>1. [i \in 1 .. n |-> "new"] \in Seq({"new", "ready", "running", "over"}) /\ [i \in 1 .. n |-> FALSE] \in Seq(BOOLEAN)
  <2>1. [i \in 1 .. n |-> "new"] \in [1 .. n -> {"new", "ready", "running", "over"}]
    OBVIOUS
  <2>2. [i \in 1 .. n |-> FALSE] \in [1 .. n -> BOOLEAN]
    OBVIOUS
  <2> QED
    BY <2>1, <2>2, SeqDef
<1>2. <<>> \in Seq(Nat) /\ 1 \in Nat
  OBVIOUS
<1> QED
  BY <1>1, <1>2 DEF NewBatch, NoBatch, BatchState

LEMMA NoTypes == NoRun \in RunState /\ NoBatch \in BatchState
<1>1. <<>> \in Seq(Queued) /\ <<>> \in Seq(Queued \cup {"prompt"}) /\ <<>> \in Seq(Steers) /\ <<>> \in Seq(BOOLEAN)
      /\ <<>> \in Seq(Nat) /\ <<>> \in Seq({"new", "ready", "running", "over"})
  OBVIOUS
<1> QED
  BY <1>1 DEF NoRun, NoBatch, RunState, BatchState, Waits

LEMMA StartType ==
  ASSUME Types, NEW q \in Seq(Queued \cup {"prompt"}), NEW skip \in BOOLEAN, Start(q, skip)
  PROVE  /\ run' = [NoRun EXCEPT !.at = "begin", !.prompts = q, !.skip = skip]
         /\ run' \in RunState /\ context' = messages \o Users(q) /\ context' \in Seq(Messages)
         /\ UNCHANGED <<mode, messages, batch, fate, used>>
<1>1. run' = [NoRun EXCEPT !.at = "begin", !.prompts = q, !.skip = skip] /\ NoRun \in RunState
  BY NoTypes DEF Start
<1>2. run' \in RunState
  BY <1>1 DEF RunState, Waits
<1>3. messages \in Seq(Messages) /\ Users(q) \in Seq(Messages) /\ context' = messages \o Users(q)
  BY UsersSeq DEF Types, Start
<1> QED
  BY <1>1, <1>2, <1>3, ConcatProperties DEF Start

LEMMA PollType ==
  ASSUME Types, NEW r \in RunState, NEW asks \in BOOLEAN, Poll(r, asks)
  PROVE  /\ run' = Polled(r, asks) /\ run' \in RunState
         /\ steering' = (IF asks THEN Left(steering, mode.steer) ELSE steering) /\ steering' \in Seq(Steers)
         /\ run'.pending = (IF asks THEN Taken(steering, mode.steer) ELSE r.pending)
         /\ run'.left = (IF asks THEN Left(steering, mode.steer) ELSE r.left)
         /\ run'.at = r.at /\ run'.prompts = r.prompts /\ run'.turned = r.turned /\ run'.aborted = r.aborted
         /\ UNCHANGED <<mode, followUps, messages, context, batch, fate, used>>
<1>1. /\ Taken(steering, mode.steer) \in Seq(Queued) /\ Left(steering, mode.steer) \in Seq(Steers)
      /\ steering \in Seq(Steers)
  BY QueueTypes DEF Types
<1> QED
  BY <1>1 DEF Poll, Polled, RunState

\* What is appended to the transcript and the context is a message.
LEMMA MessageTypes ==
  /\ \A m \in Queued \cup {"prompt"} : User(m) \in Messages
  /\ \A n \in Nat, stop \in {"stop", "length", "error", "aborted"} : Assistant(n, stop) \in Messages
  /\ \A i \in Nat : Result(i) \in Messages
BY DEF User, Assistant, Result, Messages

\* A reply has a call exactly when tools are run.
LEMMA RespondType ==
  ASSUME Types, Respond
  PROVE  \E n \in 0 .. MaxCalls, stop \in {"stop", "length", "error", "aborted"} :
           /\ Assistant(n, stop) \in Messages
           /\ messages' = Append(messages, Assistant(n, stop)) /\ context' = Append(context, Assistant(n, stop))
           /\ \/ run'.at = "stopped" /\ n = 0 /\ batch' = NoBatch
              \/ run'.at = "finish" /\ n = 0 /\ batch' = NoBatch
              \/ run'.at = "calls" /\ n # 0 /\ \E serial \in BOOLEAN, t \in BOOLEAN : batch' = NewBatch(n, serial, t)
           /\ run' = [run EXCEPT !.more = n > 0, !.turned = TRUE, !.at = run'.at]
<1>1. PICK reply \in Replies, serial \in BOOLEAN :
        /\ messages' = Append(messages, reply) /\ context' = Append(context, reply)
        /\ run' = [run EXCEPT !.more = reply.calls > 0, !.turned = TRUE,
                              !.at = CASE reply.stop \in {"error", "aborted"} -> "stopped"
                                       [] reply.calls > 0 -> "calls"
                                       [] OTHER -> "finish"]
        /\ IF run'.at = "calls"
           THEN batch' = NewBatch(reply.calls, serial, reply.stop = "length")
           ELSE serial /\ batch' = NoBatch
  BY DEF Respond
<1>2. PICK n \in 0 .. MaxCalls, stop \in {"stop", "length", "error", "aborted"} :
        /\ reply = Assistant(n, stop)
        /\ stop \in {"error", "aborted"} => n = 0
  <2>1. MaxCalls \in Nat
    BY AgentAssumption
  <2>2. CASE run.aborted
    BY <2>1, <2>2 DEF Replies
  <2>3. CASE ~run.aborted /\ \E stop \in {"stop", "error"} : reply = Assistant(0, stop)
    BY <2>1, <2>3
  <2>4. CASE ~run.aborted /\ \E n \in 1 .. MaxCalls, stop \in {"stop", "length"} : reply = Assistant(n, stop)
    BY <2>1, <2>4
  <2> QED
    BY <2>2, <2>3, <2>4 DEF Replies
<1>3. reply.calls = n /\ reply.stop = stop /\ n \in Nat
  BY <1>2, AgentAssumption DEF Assistant
<1>4. run \in RunState
  BY DEF Types
<1>5. run'.at = CASE stop \in {"error", "aborted"} -> "stopped" [] n > 0 -> "calls" [] OTHER -> "finish"
  BY <1>1, <1>3, <1>4 DEF RunState
<1>6. run' = [run EXCEPT !.more = n > 0, !.turned = TRUE, !.at = run'.at]
  BY <1>1, <1>3, <1>4, <1>5 DEF RunState
<1>7. \/ run'.at = "stopped" /\ n = 0 /\ batch' = NoBatch
      \/ run'.at = "finish" /\ n = 0 /\ batch' = NoBatch
      \/ run'.at = "calls" /\ n # 0 /\ batch' = NewBatch(n, serial, stop = "length")
  BY <1>1, <1>2, <1>3, <1>5
<1> QED
  BY <1>1, <1>2, <1>3, <1>6, <1>7, MessageTypes

LEMMA TypesStep ==
  ASSUME Types, Batched, Locals, [Next]_vars
  PROVE  Types'
<1>0. /\ run \in RunState /\ batch \in BatchState /\ mode \in QueueModes
      /\ messages \in Seq(Messages) /\ context \in Seq(Messages)
      /\ steering \in Seq(Steers) /\ followUps \in Seq(FollowUps)
      /\ fate \in [Queued -> {"unsent", "sent", "dropped"}]
      /\ used \in [requests : Nat, faults : Nat]
  BY DEF Types
<1>1. ASSUME NEW m \in Steers, Steer(m) PROVE Types'
  <2>1. Append(steering, m) \in Seq(Steers)
    BY <1>0, AppendProperties
  <2> QED
    BY <1>0, <1>1, <2>1 DEF Steer, Types
<1>2. ASSUME NEW m \in FollowUps, FollowUp(m) PROVE Types'
  <2>1. Append(followUps, m) \in Seq(FollowUps)
    BY <1>0, AppendProperties
  <2> QED
    BY <1>0, <1>2, <2>1 DEF FollowUp, Types
<1>3. ASSUME NEW w \in SUBSET {"steer", "followUp"}, ClearQueues(w) PROVE Types'
  <2>1. <<>> \in Seq(Steers) /\ <<>> \in Seq(FollowUps)
    OBVIOUS
  <2> QED
    BY <1>0, <1>3, <2>1, DroppedType DEF ClearQueues, Types
<1>4. CASE Abort
  BY <1>0, <1>4 DEF Abort, queues, Types, RunState
<1>5. CASE Reset
  <2>1. <<>> \in Seq(Steers) /\ <<>> \in Seq(FollowUps) /\ <<>> \in Seq(Messages)
    OBVIOUS
  <2> QED
    BY <1>0, <1>5, <2>1, DroppedType DEF Reset, Types
<1>6. CASE Prompt
  <2>1. <<"prompt">> \in Seq(Queued \cup {"prompt"})
    OBVIOUS
  <2> QED
    BY <1>0, <1>6, <2>1, StartType DEF Prompt, queues, Types
<1>7. CASE Continue
  <2>1. <<>> \in Seq(Queued \cup {"prompt"})
    OBVIOUS
  <2>2. CASE Start(<<>>, FALSE) /\ UNCHANGED queues
    BY <1>0, <2>1, <2>2, StartType DEF queues, Types
  <2>3. CASE /\ Start(Taken(steering, mode.steer), TRUE)
             /\ steering' = Left(steering, mode.steer) /\ UNCHANGED followUps
    BY <1>0, <2>3, StartType, QueueTypes DEF Types
  <2>4. CASE /\ Start(Taken(followUps, mode.followUp), FALSE)
             /\ followUps' = Left(followUps, mode.followUp) /\ UNCHANGED steering
    BY <1>0, <2>4, StartType, QueueTypes DEF Types
  <2> QED
    BY <1>7, <2>2, <2>3, <2>4 DEF Continue
<1>8. CASE EmitPrompt
  <2>1. run.prompts \in Seq(Queued \cup {"prompt"}) /\ run.prompts # <<>>
    BY <1>0, <1>8 DEF EmitPrompt, RunState
  <2>2. User(Head(run.prompts)) \in Messages /\ Tail(run.prompts) \in Seq(Queued \cup {"prompt"})
    BY <2>1, HeadTailProperties, MessageTypes
  <2>3. Append(messages, User(Head(run.prompts))) \in Seq(Messages)
    BY <1>0, <2>2, AppendProperties
  <2> QED
    BY <1>0, <1>8, <2>2, <2>3 DEF EmitPrompt, queues, Types, RunState
<1>9. CASE PollFirst
  <2>1. [run EXCEPT !.at = "inject", !.skip = FALSE] \in RunState
    BY <1>0 DEF RunState, Waits
  <2>2. (~run.skip) \in BOOLEAN
    OBVIOUS
  <2> QED
    BY <1>0, <1>9, <2>1, <2>2, PollType DEF PollFirst, Types
<1>10. CASE PrepareNextTurn
  <2>1. [run EXCEPT !.at = "inject"] \in RunState
    BY <1>0 DEF RunState, Waits
  <2>2. Repolls \in BOOLEAN
    BY DEF Repolls
  <2> QED
    BY <1>0, <1>10, <2>1, <2>2, PollType DEF PrepareNextTurn, Types
<1>11. CASE Inject
  <2>1. run.pending \in Seq(Queued) /\ run.pending # <<>>
    BY <1>0, <1>11 DEF Inject, RunState
  <2>2. User(Head(run.pending)) \in Messages
    BY <2>1, HeadTailProperties, MessageTypes
  <2>3. Append(messages, User(Head(run.pending))) \in Seq(Messages)
    BY <1>0, <2>2, AppendProperties
  <2> QED
    BY <1>0, <1>11, <2>3 DEF Inject, queues, Types, RunState, Waits
<1>12. CASE Push
  <2>1. run.pending \in Seq(Queued) /\ run.pending # <<>>
    BY <1>0, <1>12 DEF Push, RunState, Locals
  <2>2. User(Head(run.pending)) \in Messages /\ Tail(run.pending) \in Seq(Queued)
    BY <2>1, HeadTailProperties, MessageTypes
  <2>3. Append(context, User(Head(run.pending))) \in Seq(Messages)
    BY <1>0, <2>2, AppendProperties
  <2> QED
    BY <1>0, <1>12, <2>2, <2>3 DEF Push, queues, Types, RunState, Waits
<1>13. CASE Respond
  <2>1. PICK n \in 0 .. MaxCalls, stop \in {"stop", "length", "error", "aborted"} :
           /\ Assistant(n, stop) \in Messages
           /\ messages' = Append(messages, Assistant(n, stop)) /\ context' = Append(context, Assistant(n, stop))
           /\ \/ run'.at = "stopped" /\ n = 0 /\ batch' = NoBatch
              \/ run'.at = "finish" /\ n = 0 /\ batch' = NoBatch
              \/ run'.at = "calls" /\ n # 0 /\ \E serial \in BOOLEAN, t \in BOOLEAN : batch' = NewBatch(n, serial, t)
           /\ run' = [run EXCEPT !.more = n > 0, !.turned = TRUE, !.at = run'.at]
    BY <1>13, RespondType
  <2>2. messages' \in Seq(Messages) /\ context' \in Seq(Messages)
    BY <1>0, <2>1, AppendProperties
  <2>3. batch' \in BatchState
    BY <2>1, NewBatchType, NoTypes, AgentAssumption
  <2>4. run' \in RunState
    <3>1. run'.at \in Waits /\ (n > 0) \in BOOLEAN
      BY <2>1 DEF Waits
    <3> QED
      BY <1>0, <2>1, <3>1 DEF RunState
  <2>5. used' = [used EXCEPT !.requests = @ + 1] /\ UNCHANGED <<mode, queues, fate>>
    BY <1>13 DEF Respond
  <2>6. used' \in [requests : Nat, faults : Nat]
    BY <1>0, <2>5
  <2> QED
    BY <1>0, <2>2, <2>3, <2>4, <2>5, <2>6 DEF queues, Types
<1>14. CASE PrepareCall
  <2>1. /\ batch.next \in DOMAIN batch.state /\ DOMAIN batch.ends = DOMAIN batch.state
        /\ batch.state \in Seq({"new", "ready", "running", "over"})
    BY <1>0, <1>14 DEF PrepareCall, Prepared, Batched, Reports, BatchState
  <2>2. UNCHANGED <<mode, queues, context, run, fate, used>>
    BY <1>14 DEF PrepareCall
  <2>3. ASSUME NEW t \in BOOLEAN, batch' = Over(batch, batch.next, t), Reported(batch.next)
        PROVE  batch' \in BatchState /\ messages' \in Seq(Messages)
    <3>1. batch' \in BatchState /\ batch.next \in Nat
      BY <1>0, <2>1, <2>3, OverType
    <3>2. <<batch.next>> \in Seq(Nat)
      BY <3>1
    <3>3. messages \o Results(<<batch.next>>) \in Seq(Messages)
      BY <1>0, <3>2, ResultsSeq, ConcatProperties
    <3> QED
      BY <1>0, <2>3, <3>1, <3>3 DEF Reported, Report
  <2>4. ASSUME batch' = [batch EXCEPT !.state[batch.next] = "ready"], UNCHANGED messages
        PROVE  batch' \in BatchState /\ messages' \in Seq(Messages)
    <3>1. batch.next \in 1 .. Len(batch.state)
      BY <2>1, LenProperties
    <3>2. [batch.state EXCEPT ![batch.next] = "ready"] \in Seq({"new", "ready", "running", "over"})
      BY <2>1, <3>1, ExceptSeq
    <3> QED
      BY <1>0, <2>4, <3>2 DEF BatchState
  <2>5. batch' \in BatchState /\ messages' \in Seq(Messages)
    BY <1>14, <2>3, <2>4 DEF PrepareCall
  <2> QED
    BY <1>0, <2>2, <2>5 DEF queues, Types
<1>15. CASE NextCall
  <2> DEFINE size == IF run.aborted /\ ~batch.truncated THEN batch.next ELSE batch.size
  <2>1. batch' = [batch EXCEPT !.next = batch.next + 1, !.size = size]
    BY <1>0, <1>15 DEF NextCall, BatchState
  <2>2. size \in Nat /\ batch.next + 1 \in Nat
    BY <1>0 DEF BatchState
  <2>3. batch' \in BatchState
    BY <1>0, <2>1, <2>2 DEF BatchState
  <2> QED
    BY <1>0, <1>15, <2>3 DEF NextCall, queues, Types
<1>16. CASE StartReady
  <2>1. batch.state \in Seq({"new", "ready", "running", "over"}) /\ DOMAIN batch.state \subseteq Nat
    BY <1>0, LenProperties DEF BatchState
  <2>2. [i \in DOMAIN batch.state |-> IF i \notin ReadyCalls THEN batch.state[i]
                                      ELSE IF Starts THEN "running" ELSE "over"]
           \in [1 .. Len(batch.state) -> {"new", "ready", "running", "over"}]
    BY <2>1, LenProperties
  <2>3. Len(batch.state) \in Nat
    BY <2>1, LenProperties
  <2>4. [i \in DOMAIN batch.state |-> IF i \notin ReadyCalls THEN batch.state[i]
                                      ELSE IF Starts THEN "running" ELSE "over"]
           \in Seq({"new", "ready", "running", "over"})
    BY <2>2, <2>3, SeqDef
  <2>5. batch.late \cup Late(IF Starts THEN ReadyCalls ELSE {}) \in SUBSET Nat
    BY <1>0, <2>1 DEF BatchState, Late, ReadyCalls
  <2> QED
    BY <1>0, <1>16, <2>4, <2>5 DEF StartReady, queues, Types, BatchState
<1>17. ASSUME NEW i \in 1 .. MaxCalls, EndCall(i) PROVE Types'
  <2>1. i \in DOMAIN batch.state /\ DOMAIN batch.ends = DOMAIN batch.state
    BY <1>0, <1>17 DEF EndCall, Batched, Reports
  <2>2. UNCHANGED <<mode, queues, context, run, fate, used>>
    BY <1>17 DEF EndCall
  <2>3. PICK t \in BOOLEAN : batch' = Over(batch, i, t) /\ Reported(i)
    BY <1>17 DEF EndCall
  <2>4. batch' \in BatchState /\ i \in Nat
    BY <1>0, <2>1, <2>3, OverType
  <2>5. <<i>> \in Seq(Nat)
    BY <2>4
  <2>6. messages \o Results(<<i>>) \in Seq(Messages)
    BY <1>0, <2>5, ResultsSeq, ConcatProperties
  <2> QED
    BY <1>0, <2>2, <2>3, <2>4, <2>6 DEF Reported, Report, queues, Types
<1>18. CASE ReportResult
  <2>1. PICK i \in 1 .. batch.size : /\ batch' = [batch EXCEPT !.results = Append(@, i)]
                                     /\ Report(<<i>>)
    BY <1>18 DEF ReportResult
  <2>2. i \in Nat
    BY <1>0 DEF BatchState
  <2>3. <<i>> \in Seq(Nat) /\ Append(batch.results, i) \in Seq(Nat)
    BY <1>0, <2>2, AppendProperties DEF BatchState
  <2>4. messages \o Results(<<i>>) \in Seq(Messages)
    BY <1>0, <2>3, ResultsSeq, ConcatProperties
  <2> QED
    BY <1>0, <1>18, <2>1, <2>3, <2>4 DEF ReportResult, Report, queues, Types, BatchState
<1>19. CASE CloseBatch
  <2>1. context \o Results(batch.results) \in Seq(Messages)
    BY <1>0, ResultsSeq, ConcatProperties DEF BatchState
  <2> QED
    BY <1>0, <1>19, <2>1, NoTypes DEF CloseBatch, queues, Types, RunState, Waits
<1>20. CASE FinishTurn
  <2>1. \/ run' = [run EXCEPT !.at = "stopped"]
        \/ \E again \in BOOLEAN : run' = [run EXCEPT !.at = "poll", !.again = again]
    BY <1>20 DEF FinishTurn
  <2>2. run' \in RunState
    BY <1>0, <2>1 DEF RunState, Waits
  <2> QED
    BY <1>0, <1>20, <2>2 DEF FinishTurn, queues, Types
<1>21. CASE PollNext
  <2>1. /\ [run EXCEPT !.at = "turn", !.again = FALSE] \in RunState
        /\ [run EXCEPT !.at = "followUp"] \in RunState
    BY <1>0 DEF RunState, Waits
  <2> QED
    BY <1>0, <1>21, <2>1, PollType DEF PollNext, Types
<1>22. CASE PollFollowUps
  BY <1>0, <1>22, QueueTypes DEF PollFollowUps, Types, RunState, Waits
<1>23. CASE FinishRun
  BY <1>0, <1>23, NoTypes DEF FinishRun, queues, Types
<1>24. CASE Throw
  <2>1. Append(messages, Assistant(0, IF run.aborted THEN "aborted" ELSE "error")) \in Seq(Messages)
    BY <1>0, AppendProperties, MessageTypes
  <2>2. [NoRun EXCEPT !.at = "failed", !.aborted = run.aborted] \in RunState
    BY <1>0, NoTypes DEF RunState, Waits
  <2> QED
    BY <1>0, <1>24, <2>1, <2>2, NoTypes, DroppedType DEF Throw, queues, Types
<1>25. CASE UNCHANGED vars
  BY <1>0, <1>25 DEF vars, queues, Types
<1>26. CASE StartNext
  <2>1. batch.next \in 1 .. Len(batch.state) /\ batch.next \in Nat
    BY <1>0, <1>26, LenProperties DEF StartNext, Prepared, Batched, Reports, BatchState
  <2>2. [batch.state EXCEPT ![batch.next] = "running"] \in Seq({"new", "ready", "running", "over"})
    BY <1>0, <2>1, ExceptSeq DEF BatchState
  <2>3. batch.late \cup Late({batch.next}) \in SUBSET Nat
    BY <1>0, <2>1 DEF BatchState, Late
  <2> QED
    BY <1>0, <1>26, <2>2, <2>3 DEF StartNext, queues, Types, BatchState
<1> QED
  BY <1>1, <1>2, <1>3, <1>4, <1>5, <1>6, <1>7, <1>8, <1>9, <1>10, <1>11, <1>12, <1>13, <1>14, <1>15, <1>16,
     <1>17, <1>18, <1>19, <1>20, <1>21, <1>22, <1>23, <1>24, <1>25, <1>26 DEF Next, Host, Turn, Calls, End

-----------------------------------------------------------------------------
(* Where the loop waits, and how its context follows the transcript.       *)

LEMMA FirstOf ==
  ASSUME NEW S, NEW q \in Seq(S), NEW r \in Seq(S), Len(q) = Len(r) + 1, \A k \in 1 .. Len(r) : q[k + 1] = r[k]
  PROVE  q = <<q[1]>> \o r /\ q[1] \in S
<1>1. q # <<>>
  BY LenProperties, EmptySeq
<1>2. Tail(q) \in Seq(S) /\ Len(Tail(q)) = Len(r) /\ \A k \in 1 .. Len(Tail(q)) : Tail(q)[k] = q[k + 1]
  BY <1>1, HeadTailProperties, LenProperties
<1>3. Tail(q) = r
  BY <1>2, SeqEqual
<1>4. q = <<Head(q)>> \o Tail(q) /\ Head(q) = q[1] /\ Head(q) \in S
  BY <1>1
<1> QED
  BY <1>3, <1>4

LEMMA LastOf ==
  ASSUME NEW S, NEW q \in Seq(S), NEW r \in Seq(S), NEW x \in S,
         Len(q) = Len(r) + 1, \A k \in 1 .. Len(r) : q[k] = r[k], q[Len(r) + 1] = x
  PROVE  q = Append(r, x)
<1>1. /\ Append(r, x) \in Seq(S) /\ Len(Append(r, x)) = Len(r) + 1 /\ Len(r) \in Nat
      /\ \A k \in 1 .. Len(r) : Append(r, x)[k] = r[k]
      /\ Append(r, x)[Len(r) + 1] = x
  BY AppendProperties, LenProperties
<1>2. \A k \in 1 .. Len(q) : q[k] = Append(r, x)[k]
  <2>1. \A k \in 1 .. Len(q) : k \in 1 .. Len(r) \/ k = Len(r) + 1
    BY <1>1
  <2> QED
    BY <1>1, <2>1
<1> QED
  BY <1>1, <1>2, SeqEqual

LEMMA UsersTail ==
  ASSUME NEW ms \in Seq(Messages), NEW q \in Seq(Queued \cup {"prompt"}), q # <<>>
  PROVE  ms \o Users(q) = Append(ms, User(Head(q))) \o Users(Tail(q))
<1>1. /\ Tail(q) \in Seq(Queued \cup {"prompt"}) /\ Len(Tail(q)) = Len(q) - 1
      /\ \A k \in 1 .. Len(Tail(q)) : Tail(q)[k] = q[k + 1]
  BY HeadTailProperties
<1>2. Len(q) \in Nat /\ Len(q) # 0 /\ DOMAIN q = 1 .. Len(q) /\ Head(q) = q[1] /\ DOMAIN Tail(q) = 1 .. Len(Tail(q))
  BY <1>1, LenProperties
<1>3. Users(q) \in Seq(Messages) /\ Len(Users(q)) = Len(q) /\ \A k \in 1 .. Len(q) : Users(q)[k] = User(q[k])
  BY <1>2, UsersSeq
<1>4. /\ Users(Tail(q)) \in Seq(Messages) /\ Len(Users(Tail(q))) = Len(Tail(q))
      /\ \A k \in 1 .. Len(Tail(q)) : Users(Tail(q))[k] = User(Tail(q)[k])
  BY <1>1, <1>2, UsersSeq
<1>5. Len(Users(q)) = Len(Users(Tail(q))) + 1 /\ Users(q)[1] = User(Head(q))
  <2>1. 1 \in 1 .. Len(q)
    BY <1>2
  <2>2. Users(q)[1] = User(q[1])
    BY <1>3, <2>1
  <2>3. Len(Users(q)) = Len(Users(Tail(q))) + 1
    <3>1. Len(Users(q)) = Len(q) /\ Len(Users(Tail(q))) = Len(q) - 1 /\ Len(q) \in Nat
      BY <1>1, <1>2, <1>3, <1>4, Zenon
    <3> QED
      BY <3>1
  <2> QED
    BY <1>2, <2>2, <2>3
<1>6. \A k \in 1 .. Len(Users(Tail(q))) : Users(q)[k + 1] = Users(Tail(q))[k]
  BY <1>1, <1>2, <1>3, <1>4
<1>7. Users(q) = <<User(Head(q))>> \o Users(Tail(q)) /\ User(Head(q)) \in Messages
  BY <1>3, <1>4, <1>5, <1>6, FirstOf
<1>8. Append(ms, User(Head(q))) = ms \o <<User(Head(q))>> /\ <<User(Head(q))>> \in Seq(Messages)
  BY <1>7, AppendIsConcat
<1>9. (ms \o <<User(Head(q))>>) \o Users(Tail(q)) = ms \o (<<User(Head(q))>> \o Users(Tail(q)))
  BY <1>4, <1>8, ConcatAssociative
<1> QED
  BY <1>7, <1>8, <1>9

LEMMA ResultsAppend ==
  ASSUME NEW ms \in Seq(Messages), NEW q \in Seq(Nat), NEW i \in Nat
  PROVE  /\ Results(<<i>>) = <<Result(i)>> /\ Results(Append(q, i)) = Append(Results(q), Result(i))
         /\ (ms \o Results(q)) \o Results(<<i>>) = ms \o Results(Append(q, i))
<1>1. /\ Append(q, i) \in Seq(Nat) /\ Len(Append(q, i)) = Len(q) + 1 /\ Append(q, i)[Len(q) + 1] = i
      /\ \A k \in 1 .. Len(q) : Append(q, i)[k] = q[k]
  BY AppendProperties
<1>2. DOMAIN q = 1 .. Len(q) /\ DOMAIN Append(q, i) = 1 .. Len(q) + 1 /\ Len(q) \in Nat
  BY <1>1, LenProperties
<1>3. Results(q) \in Seq(Messages) /\ Len(Results(q)) = Len(q) /\ \A k \in 1 .. Len(q) : Results(q)[k] = Result(q[k])
  BY <1>2, ResultsSeq
<1>4. /\ Results(Append(q, i)) \in Seq(Messages) /\ Len(Results(Append(q, i))) = Len(q) + 1
      /\ \A k \in 1 .. Len(q) + 1 : Results(Append(q, i))[k] = Result(Append(q, i)[k])
  BY <1>1, <1>2, ResultsSeq
<1>5. Result(i) \in Messages
  BY MessageTypes
<1>6. Results(Append(q, i))[Len(Results(q)) + 1] = Result(i)
  BY <1>1, <1>2, <1>3, <1>4
<1>7. Len(Results(Append(q, i))) = Len(Results(q)) + 1 /\ \A k \in 1 .. Len(Results(q)) : Results(Append(q, i))[k] = Results(q)[k]
  BY <1>1, <1>2, <1>3, <1>4
<1>8. Results(Append(q, i)) = Append(Results(q), Result(i))
  BY <1>3, <1>4, <1>5, <1>6, <1>7, LastOf
<1>9. Results(<<i>>) = <<Result(i)>>
  BY DEF Results
<1>10. <<Result(i)>> \in Seq(Messages) /\ Append(Results(q), Result(i)) = Results(q) \o <<Result(i)>>
  BY <1>3, <1>5, AppendIsConcat
<1>11. (ms \o Results(q)) \o <<Result(i)>> = ms \o (Results(q) \o <<Result(i)>>)
  BY <1>3, <1>10, ConcatAssociative
<1> QED
  BY <1>8, <1>9, <1>10, <1>11

LEMMA NoneOf == Users(<<>>) = <<>> /\ Results(<<>>) = <<>>
<1>1. Users(<<>>) = [i \in {} |-> User(<<>>[i])] /\ Results(<<>>) = [i \in {} |-> Result(<<>>[i])]
  BY DEF Users, Results
<1> QED
  BY <1>1

\* What a step on the calls of a batch does.
LEMMA CallsReport ==
  ASSUME Types, Batched,
         PrepareCall \/ StartNext \/ NextCall \/ StartReady \/ (\E i \in 1 .. MaxCalls : EndCall(i)) \/ ReportResult
  PROVE  /\ run.at = "calls" /\ UNCHANGED <<mode, queues, context, run, fate, used>>
         /\ \/ messages' = messages /\ batch'.results = batch.results
            \/ \E i \in Nat : messages' = messages \o Results(<<i>>) /\ batch'.results = Append(batch.results, i)
<1>0. batch \in BatchState
  BY DEF Types
<1>1. ASSUME NEW i \in DOMAIN batch.state, NEW t \in BOOLEAN, run.at = "calls", batch' = Over(batch, i, t), Reported(i)
      PROVE  \/ messages' = messages /\ batch'.results = batch.results
             \/ \E k \in Nat : messages' = messages \o Results(<<k>>) /\ batch'.results = Append(batch.results, k)
  <2>1. DOMAIN batch.ends = DOMAIN batch.state
    BY <1>1 DEF Batched, Reports
  <2>2. i \in Nat /\ batch'.results = IF batch.serial THEN Append(batch.results, i) ELSE batch.results
    BY <1>0, <1>1, <2>1, OverType
  <2> QED
    BY <1>1, <2>2 DEF Reported, Report
<1>2. CASE PrepareCall
  <2>1. batch.next \in DOMAIN batch.state
    BY <1>0, <1>2 DEF PrepareCall, Prepared, Batched, Reports, BatchState
  <2>2. CASE \E t \in BOOLEAN : batch' = Over(batch, batch.next, t) /\ Reported(batch.next)
    BY <1>1, <1>2, <2>1, <2>2 DEF PrepareCall
  <2>3. CASE batch' = [batch EXCEPT !.state[batch.next] = "ready"] /\ UNCHANGED messages
    BY <1>0, <1>2, <2>3 DEF PrepareCall, BatchState
  <2> QED
    BY <1>2, <2>2, <2>3 DEF PrepareCall
<1>3. CASE NextCall
  BY <1>0, <1>3 DEF NextCall, BatchState
<1>4. CASE StartReady
  BY <1>0, <1>4 DEF StartReady, BatchState
<1>5. ASSUME NEW i \in 1 .. MaxCalls, EndCall(i)
      PROVE  /\ run.at = "calls" /\ UNCHANGED <<mode, queues, context, run, fate, used>>
             /\ \/ messages' = messages /\ batch'.results = batch.results
                \/ \E k \in Nat : messages' = messages \o Results(<<k>>) /\ batch'.results = Append(batch.results, k)
  BY <1>1, <1>5 DEF EndCall
<1>6. CASE ReportResult
  <2>1. PICK i \in 1 .. batch.size : /\ batch' = [batch EXCEPT !.results = Append(@, i)]
                                     /\ messages' = messages \o Results(<<i>>)
    BY <1>6 DEF ReportResult, Report
  <2>2. i \in Nat /\ batch'.results = Append(batch.results, i)
    BY <1>0, <2>1 DEF BatchState
  <2> QED
    BY <1>6, <2>1, <2>2 DEF ReportResult
<1>7. CASE StartNext
  BY <1>0, <1>7 DEF StartNext, BatchState
<1> QED
  BY <1>2, <1>3, <1>4, <1>5, <1>6, <1>7, <1>1 DEF PrepareCall

LEMMA FollowsStep ==
  ASSUME Types, Batched, Locals, Follows, [Next]_vars
  PROVE  Locals' /\ Follows'
<1>0. /\ run \in RunState /\ batch \in BatchState
      /\ messages \in Seq(Messages) /\ context \in Seq(Messages)
      /\ run.pending \in Seq(Queued) /\ run.prompts \in Seq(Queued \cup {"prompt"}) /\ run.left \in Seq(Steers)
  BY DEF Types, RunState
<1>1. ASSUME NEW q \in Seq(Queued \cup {"prompt"}), NEW skip \in BOOLEAN, Start(q, skip)
      PROVE  Locals' /\ Follows'
  <2>1. /\ run' = [NoRun EXCEPT !.at = "begin", !.prompts = q, !.skip = skip] /\ context' = messages \o Users(q)
        /\ batch' = batch /\ messages' = messages /\ run.at = "idle"
    BY <1>1, StartType DEF Start, Idle
  <2>2. run'.at = "begin" /\ run'.prompts = q /\ run'.pending = <<>>
    BY <2>1 DEF NoRun
  <2> QED
    BY <2>1, <2>2 DEF Locals, Follows
<1>2. CASE \/ \E m \in Steers : Steer(m)
           \/ \E m \in FollowUps : FollowUp(m)
           \/ \E which \in SUBSET {"steer", "followUp"} : ClearQueues(which)
           \/ UNCHANGED vars
  <2>1. UNCHANGED <<messages, context, run, batch>>
    BY <1>2 DEF Steer, FollowUp, ClearQueues, vars
  <2> QED
    BY <2>1 DEF Locals, Follows
<1>3. CASE Abort
  BY <1>0, <1>3 DEF Abort, RunState, Locals, Follows
<1>4. CASE Reset
  BY <1>4 DEF Reset, Idle, Locals, Follows
<1>5. CASE Prompt
  <2>1. <<"prompt">> \in Seq(Queued \cup {"prompt"})
    OBVIOUS
  <2> QED
    BY <1>1, <1>5, <2>1 DEF Prompt
<1>6. CASE Continue
  <2>1. <<>> \in Seq(Queued \cup {"prompt"})
    OBVIOUS
  <2> QED
    BY <1>1, <1>6, <2>1, QueueTypes DEF Continue
<1>7. CASE EmitPrompt
  <2>1. /\ messages' = Append(messages, User(Head(run.prompts))) /\ context' = context /\ batch' = batch
        /\ run'.at = "begin" /\ run'.prompts = Tail(run.prompts) /\ run'.pending = run.pending
        /\ run.at = "begin" /\ run.prompts # <<>>
    BY <1>0, <1>7 DEF EmitPrompt, RunState
  <2>2. context = messages' \o Users(Tail(run.prompts))
    BY <1>0, <2>1, UsersTail DEF Follows
  <2> QED
    BY <2>1, <2>2 DEF Locals, Follows
<1>8. CASE PollFirst
  <2>1. [run EXCEPT !.at = "inject", !.skip = FALSE] \in RunState
    BY <1>0 DEF RunState, Waits
  <2>2. (~run.skip) \in BOOLEAN
    OBVIOUS
  <2>3. run'.at = "inject" /\ run'.prompts = <<>> /\ UNCHANGED <<messages, context, batch>>
        /\ run.at = "begin" /\ run.prompts = <<>>
    BY <1>0, <1>8, <2>1, <2>2, PollType DEF PollFirst, RunState
  <2>4. context = messages
    BY <1>0, <2>3, NoneOf, ConcatEmptySeq DEF Follows
  <2> QED
    BY <2>3, <2>4 DEF Locals, Follows
<1>9. CASE PrepareNextTurn
  <2>1. [run EXCEPT !.at = "inject"] \in RunState
    BY <1>0 DEF RunState, Waits
  <2>2. Repolls \in BOOLEAN
    BY DEF Repolls
  <2>3. run'.at = "inject" /\ run'.prompts = run.prompts /\ UNCHANGED <<messages, context, batch>> /\ run.at = "turn"
    BY <1>0, <1>9, <2>1, <2>2, PollType DEF PrepareNextTurn, RunState
  <2> QED
    BY <2>3 DEF Locals, Follows
<1>10. CASE Inject
  BY <1>0, <1>10 DEF Inject, RunState, Locals, Follows
<1>11. CASE Push
  BY <1>0, <1>11 DEF Push, RunState, Locals, Follows
<1>12. CASE Respond
  <2>1. PICK n \in 0 .. MaxCalls, stop \in {"stop", "length", "error", "aborted"} :
           /\ Assistant(n, stop) \in Messages
           /\ messages' = Append(messages, Assistant(n, stop)) /\ context' = Append(context, Assistant(n, stop))
           /\ \/ run'.at = "stopped" /\ n = 0 /\ batch' = NoBatch
              \/ run'.at = "finish" /\ n = 0 /\ batch' = NoBatch
              \/ run'.at = "calls" /\ n # 0 /\ \E serial \in BOOLEAN, t \in BOOLEAN : batch' = NewBatch(n, serial, t)
           /\ run' = [run EXCEPT !.more = n > 0, !.turned = TRUE, !.at = run'.at]
    BY <1>12, RespondType
  <2>2. run.at = "inject" /\ run.pending = <<>> /\ run'.pending = <<>> /\ run'.prompts = run.prompts
        /\ run'.left = run.left
    BY <1>0, <1>12, <2>1 DEF Respond, Requesting, RunState
  <2>3. context' = messages' /\ context' \in Seq(Messages)
    BY <1>0, <2>1, <2>2, AppendProperties DEF Follows
  <2>4. run'.at = "calls" => batch'.results = <<>>
    BY <2>1 DEF NewBatch, NoBatch
  <2>5. run'.at = "calls" => messages' = context' \o Results(batch'.results)
    BY <2>3, <2>4, NoneOf, ConcatEmptySeq
  <2>6. Locals'
    BY <2>1, <2>2 DEF Locals
  <2> QED
    BY <2>1, <2>3, <2>5, <2>6 DEF Follows
<1>13. CASE PrepareCall \/ StartNext \/ NextCall \/ StartReady \/ (\E i \in 1 .. MaxCalls : EndCall(i)) \/ ReportResult
  <2>1. run.at = "calls" /\ UNCHANGED <<mode, queues, context, run, fate, used>>
    BY <1>13, CallsReport
  <2>2. CASE messages' = messages /\ batch'.results = batch.results
    BY <2>1, <2>2 DEF Locals, Follows
  <2>3. CASE \E i \in Nat : messages' = messages \o Results(<<i>>) /\ batch'.results = Append(batch.results, i)
    <3>1. PICK i \in Nat : messages' = messages \o Results(<<i>>) /\ batch'.results = Append(batch.results, i)
      BY <2>3
    <3>2. batch.results \in Seq(Nat) /\ messages = context \o Results(batch.results)
      BY <1>0, <2>1 DEF BatchState, Follows
    <3>3. messages' = context \o Results(batch'.results)
      BY <1>0, <3>1, <3>2, ResultsAppend
    <3> QED
      BY <2>1, <3>3 DEF Locals, Follows
  <2> QED
    BY <1>13, <2>2, <2>3, CallsReport
<1>14. CASE CloseBatch
  BY <1>0, <1>14 DEF CloseBatch, RunState, Locals, Follows
<1>15. CASE FinishTurn
  BY <1>0, <1>15 DEF FinishTurn, RunState, Locals, Follows
<1>16. CASE PollNext
  <2>1. PICK r \in RunState : /\ r.at \in {"turn", "followUp"} /\ Poll(r, TRUE) /\ r.prompts = run.prompts
                              /\ r.at = "followUp" => Taken(steering, mode.steer) = <<>>
    <3>1. /\ [run EXCEPT !.at = "turn", !.again = FALSE] \in RunState
          /\ [run EXCEPT !.at = "followUp"] \in RunState
      BY <1>0 DEF RunState, Waits
    <3>2. Polled(run, TRUE).pending = Taken(steering, mode.steer)
      BY <1>0 DEF Polled, RunState
    <3>3. CASE GoesOn(Polled(run, TRUE))
      BY <1>0, <1>16, <3>1, <3>3 DEF PollNext, RunState
    <3>4. CASE ~GoesOn(Polled(run, TRUE))
      BY <1>0, <1>16, <3>1, <3>2, <3>4 DEF PollNext, RunState, GoesOn
    <3> QED
      BY <3>3, <3>4
  <2>2. /\ run'.at = r.at /\ run'.prompts = run.prompts /\ run'.pending = Taken(steering, mode.steer)
        /\ run'.left = Left(steering, mode.steer) /\ UNCHANGED <<messages, context, batch>>
    BY <2>1, PollType
  <2>3. Taken(steering, mode.steer) = <<>> => Left(steering, mode.steer) = <<>>
    BY Drains DEF Types
  <2>4. run.at = "poll"
    BY <1>16 DEF PollNext
  <2> QED
    BY <2>1, <2>2, <2>3, <2>4 DEF Locals, Follows
<1>17. CASE PollFollowUps
  <2>1. run.at = "followUp" /\ UNCHANGED <<messages, context, batch>>
    BY <1>17 DEF PollFollowUps
  <2>2. /\ run'.at \in {"turn", "ending"} /\ run'.prompts = run.prompts /\ run'.left = run.left
        /\ run'.at = "ending" => run'.pending = run.pending
    BY <1>0, <1>17 DEF PollFollowUps, RunState
  <2> QED
    BY <2>1, <2>2 DEF Locals, Follows
<1>18. CASE FinishRun
  BY <1>18 DEF FinishRun, NoRun, Locals, Follows
<1>19. CASE Throw
  BY <1>19 DEF Throw, NoRun, Locals, Follows
<1> QED
  BY <1>2, <1>3, <1>4, <1>5, <1>6, <1>7, <1>8, <1>9, <1>10, <1>11, <1>12, <1>13, <1>14, <1>15, <1>16, <1>17,
     <1>18, <1>19 DEF Next, Host, Turn, Calls, End

-----------------------------------------------------------------------------
(* Where a message is.                                                     *)

\* What run r holds that the transcript has not, as a sequence.
Holds(r) == r.prompts \o IF r.at = "push" THEN Tail(r.pending) ELSE r.pending

LEMMA HoldsType ==
  ASSUME NEW r \in RunState, r.at = "push" => r.pending # <<>>, NEW m
  PROVE  /\ Holds(r) \in Seq(Queued \cup {"prompt"})
         /\ r.at = "push" => Occurrences(m, Holds(r)) = Occurrences(m, r.prompts) + Occurrences(m, Tail(r.pending))
         /\ r.at # "push" => Occurrences(m, Holds(r)) = Occurrences(m, r.prompts) + Occurrences(m, r.pending)
         /\ Occurrences(m, r.prompts) \in Nat /\ Occurrences(m, r.pending) \in Nat
<1> DEFINE T == Queued \cup {"prompt"}
<1>1. r.prompts \in Seq(T) /\ r.pending \in Seq(Queued) /\ Queued \subseteq T
  BY DEF RunState
<1>2. r.pending \in Seq(T) /\ (r.at = "push" => Tail(r.pending) \in Seq(T))
  <2>1. r.pending \in Seq(T)
    BY <1>1, SeqMonotonic
  <2> QED
    BY <2>1, HeadTailProperties
<1> HIDE DEF T
<1>3. CASE r.at = "push"
  <2>1. Holds(r) = r.prompts \o Tail(r.pending)
    BY <1>3 DEF Holds
  <2>2. Holds(r) \in Seq(T) /\ Occurrences(m, Holds(r)) = Occurrences(m, r.prompts) + Occurrences(m, Tail(r.pending))
    <3> DEFINE a == r.prompts
               b == Tail(r.pending)
    <3>1. a \in Seq(T) /\ b \in Seq(T)
      BY <1>1, <1>2, <1>3
    <3>2. Holds(r) = a \o b
      BY <2>1
    <3> HIDE DEF a, b
    <3>3. a \o b \in Seq(T) /\ Occurrences(m, a \o b) = Occurrences(m, a) + Occurrences(m, b)
      BY <3>1, ConcatProperties, OccursConcat
    <3> QED
      BY <3>2, <3>3 DEF a, b
  <2> QED
    BY <1>1, <1>2, <1>3, <2>2, PlacesFinite DEF T
<1>4. CASE r.at # "push"
  <2>1. Holds(r) = r.prompts \o r.pending
    BY <1>4 DEF Holds
  <2>2. Holds(r) \in Seq(T) /\ Occurrences(m, Holds(r)) = Occurrences(m, r.prompts) + Occurrences(m, r.pending)
    BY <1>1, <1>2, <1>4, <2>1, ConcatProperties, OccursConcat
  <2> QED
    BY <1>1, <1>2, <1>4, <2>2, PlacesFinite DEF T
<1> QED
  BY <1>3, <1>4

LEMMA SentOccurs ==
  ASSUME NEW S, NEW q \in Seq(S), NEW m \in Queued
  PROVE  m \in Sent(q) <=> Occurrences(m, q) # 0
BY OccursIn DEF Sent, Queued

LEMMA DrainCounts ==
  ASSUME NEW S, NEW q \in Seq(S), NEW how, NEW m
  PROVE  Occurrences(m, q) = Occurrences(m, Taken(q, how)) + Occurrences(m, Left(q, how))
<1>1. /\ Taken(q, how) \in Seq(S) /\ Left(q, how) \in Seq(S)
      /\ q = Taken(q, how) \o Left(q, how)
  BY Drains
<1>2. Occurrences(m, Taken(q, how) \o Left(q, how)) = Occurrences(m, Taken(q, how)) + Occurrences(m, Left(q, how))
  BY <1>1, OccursConcat
<1> QED
  BY <1>1, <1>2, Zenon

\* What a step appends to the transcript shows a message or it does not.
LEMMA ShownBy ==
  ASSUME NEW ms \in Seq(Messages), NEW m \in Queued
  PROVE  /\ \A k \in Queued \cup {"prompt"} :
               Occurrences(User(m), Append(ms, User(k))) = Occurrences(User(m), ms) + IF k = m THEN 1 ELSE 0
         /\ \A n \in Nat, stop \in {"stop", "length", "error", "aborted"} :
               Occurrences(User(m), Append(ms, Assistant(n, stop))) = Occurrences(User(m), ms)
         /\ \A i \in Nat : Occurrences(User(m), ms \o Results(<<i>>)) = Occurrences(User(m), ms)
         /\ Occurrences(User(m), ms) \in Nat
<1>0. Occurrences(User(m), ms) \in Nat
  BY PlacesFinite
<1>1. ASSUME NEW k \in Queued \cup {"prompt"}
      PROVE  Occurrences(User(m), Append(ms, User(k))) = Occurrences(User(m), ms) + IF k = m THEN 1 ELSE 0
  <2>1. User(k) = User(m) <=> k = m
    BY DEF User
  <2>2. User(k) \in Messages
    BY MessageTypes
  <2>3. Occurrences(User(m), Append(ms, User(k))) = Occurrences(User(m), ms) + IF User(k) = User(m) THEN 1 ELSE 0
    BY <2>2, OccursAppend
  <2> QED
    BY <2>1, <2>3
<1>2. ASSUME NEW x \in Messages, x.role # "user"
      PROVE  Occurrences(User(m), Append(ms, x)) = Occurrences(User(m), ms)
  <2>1. x # User(m)
    BY <1>2 DEF User
  <2>2. Occurrences(User(m), Append(ms, x)) = Occurrences(User(m), ms) + IF x = User(m) THEN 1 ELSE 0
    BY OccursAppend
  <2> QED
    BY <1>0, <2>1, <2>2
<1>3. ASSUME NEW n \in Nat, NEW stop \in {"stop", "length", "error", "aborted"}
      PROVE  Occurrences(User(m), Append(ms, Assistant(n, stop))) = Occurrences(User(m), ms)
  <2>1. Assistant(n, stop) \in Messages /\ Assistant(n, stop).role # "user"
    BY MessageTypes DEF Assistant
  <2> QED
    BY <1>2, <2>1
<1>4. ASSUME NEW i \in Nat PROVE Occurrences(User(m), ms \o Results(<<i>>)) = Occurrences(User(m), ms)
  <2>1. Result(i) \in Messages /\ Result(i).role # "user" /\ Results(<<i>>) = <<Result(i)>>
    BY MessageTypes DEF Result, Results
  <2>2. Append(ms, Result(i)) = ms \o <<Result(i)>>
    BY <2>1, AppendIsConcat
  <2>3. Occurrences(User(m), Append(ms, Result(i))) = Occurrences(User(m), ms)
    BY <1>2, <2>1
  <2> QED
    BY <2>1, <2>2, <2>3, Zenon
<1> QED
  BY <1>0, <1>1, <1>3, <1>4

\* All places of a message, in the terms the steps change.
Places4(m, st, fu, r, ms) ==
    Occurrences(m, st) + Occurrences(m, fu) + Occurrences(m, Holds(r)) + Occurrences(User(m), ms)
Kept(m, st, fu, r, ms, ft) == Places4(m, st, fu, r, ms) = IF ft[m] = "sent" THEN 1 ELSE 0

LEMMA KeptIs ==
  /\ Conserved => \A m \in Queued : Kept(m, steering, followUps, run, messages, fate)
  /\ (\A m \in Queued : Kept(m, steering', followUps', run', messages', fate')) => Conserved'
<1>1. \A m : Shown(m) = Occurrences(User(m), messages) /\ Shown(m)' = Occurrences(User(m), messages')
  BY DEF Shown, Occurrences
<1>2. InRun = Holds(run) /\ InRun' = Holds(run')
  BY DEF InRun, Holds
<1>3. Conserved => \A m \in Queued : Kept(m, steering, followUps, run, messages, fate)
  BY <1>1, <1>2, Zenon DEF Conserved, Kept, Places4, Queued
<1>4. ASSUME \A m \in Queued : Kept(m, steering', followUps', run', messages', fate') PROVE Conserved'
  <2>1. ASSUME NEW m \in Queued
        PROVE  Occurrences(m, steering') + Occurrences(m, followUps') + Occurrences(m, InRun') + Shown(m)'
                 = IF fate'[m] = "sent" THEN 1 ELSE 0
    BY <1>1, <1>2, <1>4, Zenon DEF Kept, Places4
  <2> QED
    BY <2>1, Zenon DEF Conserved, Queued, Occurrences
<1> QED
  BY <1>3, <1>4

LEMMA Counts ==
  ASSUME Types, Locals, NEW m \in Queued
  PROVE  /\ Occurrences(m, steering) \in Nat /\ Occurrences(m, followUps) \in Nat
         /\ Occurrences(m, Holds(run)) \in Nat /\ Occurrences(User(m), messages) \in Nat
         /\ Occurrences(m, run.pending) \in Nat /\ Occurrences(m, run.prompts) \in Nat
<1>1. /\ steering \in Seq(Steers) /\ followUps \in Seq(FollowUps) /\ messages \in Seq(Messages) /\ run \in RunState
      /\ run.at = "push" => run.pending # <<>>
  BY DEF Types, Locals
<1>2. Holds(run) \in Seq(Queued \cup {"prompt"}) /\ Occurrences(m, run.pending) \in Nat /\ Occurrences(m, run.prompts) \in Nat
  BY <1>1, HoldsType
<1> QED
  BY <1>1, <1>2, PlacesFinite

\* A host drops messages from where they are: from nowhere else.
LEMMA DroppedFrom ==
  ASSUME Types, Locals, Conserved, NEW m \in Queued, NEW S, NEW T, fate' = Dropped(S), run' = run,
         steering' \in {steering, <<>>}, followUps' \in {followUps, <<>>}, messages' \in {messages, <<>>},
         m \in S <=> \/ steering' # steering /\ Occurrences(m, steering) # 0
                     \/ followUps' # followUps /\ Occurrences(m, followUps) # 0
                     \/ messages' # messages /\ Occurrences(User(m), messages) # 0
  PROVE  Kept(m, steering', followUps', run', messages', fate')
<1>1. fate'[m] = IF m \in S THEN "dropped" ELSE fate[m]
  BY DEF Dropped, Types
<1>2. Kept(m, steering, followUps, run, messages, fate)
  BY KeptIs
<1>3. /\ Occurrences(m, steering') = IF steering' = steering THEN Occurrences(m, steering) ELSE 0
      /\ Occurrences(m, followUps') = IF followUps' = followUps THEN Occurrences(m, followUps) ELSE 0
      /\ Occurrences(User(m), messages') = IF messages' = messages THEN Occurrences(User(m), messages) ELSE 0
      /\ Occurrences(m, Holds(run')) = Occurrences(m, Holds(run))
  BY OccursEmpty
<1> QED
  BY <1>1, <1>2, <1>3, Counts DEF Kept, Places4

LEMMA ConservedStep ==
  ASSUME Types, Types', Locals, Locals', Batched, Conserved, [Next]_vars
  PROVE  Conserved'
<1>0. /\ run \in RunState /\ run' \in RunState /\ messages \in Seq(Messages)
      /\ steering \in Seq(Steers) /\ followUps \in Seq(FollowUps)
      /\ fate \in [Queued -> {"unsent", "sent", "dropped"}]
      /\ run.at = "push" => run.pending # <<>>
      /\ run'.at = "push" => run'.pending # <<>>
  BY DEF Types, Locals
<1> SUFFICES ASSUME NEW m \in Queued PROVE Kept(m, steering', followUps', run', messages', fate')
  BY KeptIs
<1>a. Kept(m, steering, followUps, run, messages, fate)
  BY KeptIs
<1>b. /\ Occurrences(m, steering) \in Nat /\ Occurrences(m, followUps) \in Nat
      /\ Occurrences(m, Holds(run)) \in Nat /\ Occurrences(User(m), messages) \in Nat
      /\ Occurrences(m, run.pending) \in Nat /\ Occurrences(m, run.prompts) \in Nat
  BY Counts
<1>h. /\ run.at = "push" => Occurrences(m, Holds(run)) = Occurrences(m, run.prompts) + Occurrences(m, Tail(run.pending))
      /\ run.at # "push" => Occurrences(m, Holds(run)) = Occurrences(m, run.prompts) + Occurrences(m, run.pending)
      /\ run'.at = "push" => Occurrences(m, Holds(run')) = Occurrences(m, run'.prompts) + Occurrences(m, Tail(run'.pending))
      /\ run'.at # "push" => Occurrences(m, Holds(run')) = Occurrences(m, run'.prompts) + Occurrences(m, run'.pending)
  BY <1>0, HoldsType
<1>z. Occurrences(m, <<>>) = 0
  BY OccursEmpty
\* Nothing moves, or one place takes what another gives.
<1>c. ASSUME UNCHANGED <<steering, followUps, fate>>,
             Occurrences(m, Holds(run')) + Occurrences(User(m), messages')
               = Occurrences(m, Holds(run)) + Occurrences(User(m), messages),
             Occurrences(m, Holds(run')) \in Nat, Occurrences(User(m), messages') \in Nat
      PROVE  Kept(m, steering', followUps', run', messages', fate')
  BY <1>a, <1>b, <1>c DEF Kept, Places4
<1>d. Occurrences(m, Holds(run')) \in Nat /\ Occurrences(User(m), messages') \in Nat
  <2>1. Holds(run') \in Seq(Queued \cup {"prompt"}) /\ messages' \in Seq(Messages)
    BY <1>0, HoldsType DEF Types
  <2> QED
    BY <2>1, PlacesFinite
<1>e. ASSUME UNCHANGED <<steering, followUps, fate, messages>>, run'.prompts = run.prompts,
             run.at # "push", run'.at # "push", run'.pending = run.pending
      PROVE  Kept(m, steering', followUps', run', messages', fate')
  <2>1. Occurrences(m, Holds(run')) = Occurrences(m, Holds(run))
    BY <1>e, <1>h
  <2> QED
    BY <1>c, <1>d, <1>e, <2>1
<1>f. ASSUME NEW q \in Seq(Queued \cup {"prompt"}), NEW skip \in BOOLEAN, Start(q, skip)
      PROVE  /\ Occurrences(m, Holds(run')) = Occurrences(m, q) /\ Occurrences(m, Holds(run)) = 0
             /\ UNCHANGED <<messages, fate>>
  <2>1. /\ run' = [NoRun EXCEPT !.at = "begin", !.prompts = q, !.skip = skip]
        /\ UNCHANGED <<messages, fate>> /\ run.at = "idle"
    BY <1>f, StartType DEF Start, Idle
  <2>2. run'.at = "begin" /\ run'.prompts = q /\ run'.pending = <<>>
    BY <2>1 DEF NoRun
  <2>3. run.prompts = <<>> /\ run.pending = <<>>
    BY <2>1 DEF Locals
  <2>4. Occurrences(m, q) \in Nat
    BY PlacesFinite
  <2> QED
    BY <1>h, <1>z, <2>1, <2>2, <2>3, <2>4
\* Steering is polled: what the run had pending was nothing.
<1>g. ASSUME UNCHANGED <<followUps, fate, messages>>, run'.prompts = <<>>, run.prompts = <<>>,
             run.at # "push", run'.at # "push", run.pending = <<>>,
             run'.pending = Taken(steering, mode.steer), steering' = Left(steering, mode.steer)
      PROVE  Kept(m, steering', followUps', run', messages', fate')
  <2>1. Occurrences(m, steering) = Occurrences(m, run'.pending) + Occurrences(m, steering')
    BY <1>0, <1>g, DrainCounts
  <2>2. steering' \in Seq(Steers) /\ run'.pending \in Seq(Queued)
    BY <1>0, <1>g DEF Types, RunState
  <2>3. Occurrences(m, steering') \in Nat /\ Occurrences(m, run'.pending) \in Nat
    BY <2>2, PlacesFinite
  <2>4. Occurrences(m, Holds(run')) = Occurrences(m, run'.pending) /\ Occurrences(m, Holds(run)) = 0
    BY <1>g, <1>h, <1>z, <2>3
  <2>5. Occurrences(m, followUps') = Occurrences(m, followUps) /\ Occurrences(User(m), messages') = Occurrences(User(m), messages)
        /\ fate'[m] = fate[m]
    BY <1>g
  <2> QED
    BY <1>a, <1>b, <2>1, <2>3, <2>4, <2>5 DEF Kept, Places4
<1>1. ASSUME NEW k \in Steers, Steer(k) PROVE Kept(m, steering', followUps', run', messages', fate')
  <2>1. Occurrences(m, steering') = Occurrences(m, steering) + IF k = m THEN 1 ELSE 0
    BY <1>0, <1>1, OccursAppend DEF Steer
  <2>2. /\ fate'[m] = (IF k = m THEN "sent" ELSE fate[m]) /\ (k = m => fate[m] = "unsent")
        /\ followUps' = followUps /\ messages' = messages /\ run' = run
    BY <1>0, <1>1 DEF Steer
  <2>3. /\ Occurrences(m, followUps') = Occurrences(m, followUps) /\ Occurrences(m, Holds(run')) = Occurrences(m, Holds(run))
        /\ Occurrences(User(m), messages') = Occurrences(User(m), messages)
    BY <2>2
  <2> QED
    BY <1>a, <1>b, <2>1, <2>2, <2>3 DEF Kept, Places4
<1>2. ASSUME NEW k \in FollowUps, FollowUp(k) PROVE Kept(m, steering', followUps', run', messages', fate')
  <2>1. Occurrences(m, followUps') = Occurrences(m, followUps) + IF k = m THEN 1 ELSE 0
    BY <1>0, <1>2, OccursAppend DEF FollowUp
  <2>2. /\ fate'[m] = (IF k = m THEN "sent" ELSE fate[m]) /\ (k = m => fate[m] = "unsent")
        /\ steering' = steering /\ messages' = messages /\ run' = run
    BY <1>0, <1>2 DEF FollowUp
  <2>3. /\ Occurrences(m, steering') = Occurrences(m, steering) /\ Occurrences(m, Holds(run')) = Occurrences(m, Holds(run))
        /\ Occurrences(User(m), messages') = Occurrences(User(m), messages)
    BY <2>2
  <2> QED
    BY <1>a, <1>b, <2>1, <2>2, <2>3 DEF Kept, Places4
<1>3. ASSUME NEW w \in SUBSET {"steer", "followUp"}, ClearQueues(w)
      PROVE  Kept(m, steering', followUps', run', messages', fate')
  <2> DEFINE S == (IF "steer" \in w THEN Sent(steering) ELSE {}) \cup (IF "followUp" \in w THEN Sent(followUps) ELSE {})
  <2>1. /\ fate' = Dropped(S) /\ run' = run /\ messages' = messages
        /\ steering' = (IF "steer" \in w THEN <<>> ELSE steering)
        /\ followUps' = (IF "followUp" \in w THEN <<>> ELSE followUps)
    BY <1>3 DEF ClearQueues
  <2>2. (m \in Sent(steering) <=> Occurrences(m, steering) # 0) /\ (m \in Sent(followUps) <=> Occurrences(m, followUps) # 0)
    BY <1>0, SentOccurs
  <2>3. m \in S <=> \/ steering' # steering /\ Occurrences(m, steering) # 0
                    \/ followUps' # followUps /\ Occurrences(m, followUps) # 0
                    \/ messages' # messages /\ Occurrences(User(m), messages) # 0
    BY <1>z, <2>1, <2>2
  <2> QED
    BY <2>1, <2>3, DroppedFrom
<1>4. CASE Abort
  <2>1. /\ run'.prompts = run.prompts /\ run'.pending = run.pending /\ run'.at = run.at
        /\ UNCHANGED <<steering, followUps, fate, messages>>
    BY <1>0, <1>4 DEF Abort, RunState, queues
  <2>2. Holds(run') = Holds(run)
    BY <2>1 DEF Holds
  <2> QED
    BY <1>c, <1>d, <2>1, <2>2
<1>5. CASE Reset
  <2> DEFINE U == {messages[i].id : i \in {j \in DOMAIN messages : messages[j].role = "user"}}
             S == Sent(steering) \cup Sent(followUps) \cup U
  <2>1. /\ fate' = Dropped(S) /\ run' = run /\ messages' = <<>> /\ steering' = <<>> /\ followUps' = <<>>
    BY <1>5 DEF Reset
  <2>2. (m \in Sent(steering) <=> Occurrences(m, steering) # 0) /\ (m \in Sent(followUps) <=> Occurrences(m, followUps) # 0)
    BY <1>0, SentOccurs
  <2>3. m \in U <=> Occurrences(User(m), messages) # 0
    <3>1. Occurrences(User(m), messages) # 0 <=> \E i \in DOMAIN messages : messages[i] = User(m)
      BY <1>0, OccursIn
    <3>2. \A i \in DOMAIN messages : messages[i].role = "user" /\ messages[i].id = m <=> messages[i] = User(m)
      <4>1. \A i \in DOMAIN messages : messages[i] \in Messages
        BY <1>0
      <4> QED
        BY <4>1 DEF Messages, User
    <3> QED
      BY <3>1, <3>2
  <2>4. m \in S <=> \/ steering' # steering /\ Occurrences(m, steering) # 0
                    \/ followUps' # followUps /\ Occurrences(m, followUps) # 0
                    \/ messages' # messages /\ Occurrences(User(m), messages) # 0
    <3> HIDE DEF U
    <3>1. Occurrences(User(m), <<>>) = 0
      BY OccursEmpty
    <3> QED
      BY <1>z, <2>1, <2>2, <2>3, <3>1
  <2> HIDE DEF U, S
  <2> QED
    BY <2>1, <2>4, DroppedFrom
<1>6. CASE Prompt
  <2>1. <<"prompt">> \in Seq(Queued \cup {"prompt"})
    OBVIOUS
  <2>2. /\ Occurrences(m, Holds(run')) = Occurrences(m, <<"prompt">>) /\ Occurrences(m, Holds(run)) = 0
        /\ UNCHANGED <<messages, fate, steering, followUps>>
    BY <1>6, <1>f, <2>1 DEF Prompt, queues
  <2>3. m # "prompt"
    BY AgentAssumption DEF Queued
  <2>4. Occurrences(m, <<"prompt">>) = 0
    BY <2>3, OccursOne
  <2> QED
    BY <1>c, <1>d, <2>2, <2>4
<1>7. CASE Continue
  <2>1. CASE Start(<<>>, FALSE) /\ UNCHANGED queues
    <3>1. <<>> \in Seq(Queued \cup {"prompt"})
      OBVIOUS
    <3>2. /\ Occurrences(m, Holds(run')) = 0 /\ Occurrences(m, Holds(run)) = 0
          /\ UNCHANGED <<messages, fate, steering, followUps>>
      BY <1>f, <1>z, <2>1, <3>1 DEF queues
    <3> QED
      BY <1>c, <1>d, <3>2
  <2>2. CASE /\ Start(Taken(steering, mode.steer), TRUE)
             /\ steering' = Left(steering, mode.steer) /\ UNCHANGED followUps
    <3>1. Taken(steering, mode.steer) \in Seq(Queued \cup {"prompt"}) /\ Left(steering, mode.steer) \in Seq(Steers)
      BY QueueTypes
    <3>2. /\ Occurrences(m, Holds(run')) = Occurrences(m, Taken(steering, mode.steer)) /\ Occurrences(m, Holds(run)) = 0
          /\ UNCHANGED <<messages, fate, followUps>> /\ steering' = Left(steering, mode.steer)
      BY <1>f, <2>2, <3>1
    <3>3. Occurrences(m, steering) = Occurrences(m, Holds(run')) + Occurrences(m, steering')
      BY <1>0, <3>2, DrainCounts
    <3>4. Occurrences(m, steering') \in Nat
      BY <3>1, <3>2, PlacesFinite
    <3>5. Occurrences(m, followUps') = Occurrences(m, followUps) /\ Occurrences(User(m), messages') = Occurrences(User(m), messages)
          /\ fate'[m] = fate[m]
      BY <3>2
    <3> QED
      BY <1>a, <1>b, <1>d, <3>2, <3>3, <3>4, <3>5 DEF Kept, Places4
  <2>3. CASE /\ Start(Taken(followUps, mode.followUp), FALSE)
             /\ followUps' = Left(followUps, mode.followUp) /\ UNCHANGED steering
    <3>1. Taken(followUps, mode.followUp) \in Seq(Queued \cup {"prompt"}) /\ Left(followUps, mode.followUp) \in Seq(FollowUps)
      BY QueueTypes
    <3>2. /\ Occurrences(m, Holds(run')) = Occurrences(m, Taken(followUps, mode.followUp)) /\ Occurrences(m, Holds(run)) = 0
          /\ UNCHANGED <<messages, fate, steering>> /\ followUps' = Left(followUps, mode.followUp)
      BY <1>f, <2>3, <3>1
    <3>3. Occurrences(m, followUps) = Occurrences(m, Holds(run')) + Occurrences(m, followUps')
      BY <1>0, <3>2, DrainCounts
    <3>4. Occurrences(m, followUps') \in Nat
      BY <3>1, <3>2, PlacesFinite
    <3>5. Occurrences(m, steering') = Occurrences(m, steering) /\ Occurrences(User(m), messages') = Occurrences(User(m), messages)
          /\ fate'[m] = fate[m]
      BY <3>2
    <3> QED
      BY <1>a, <1>b, <1>d, <3>2, <3>3, <3>4, <3>5 DEF Kept, Places4
  <2> QED
    BY <1>7, <2>1, <2>2, <2>3 DEF Continue
<1>8. CASE EmitPrompt
  <2>1. /\ run.prompts \in Seq(Queued \cup {"prompt"}) /\ run.prompts # <<>>
        /\ messages' = Append(messages, User(Head(run.prompts)))
        /\ run'.at = "begin" /\ run'.prompts = Tail(run.prompts) /\ run'.pending = run.pending /\ run.at = "begin"
        /\ UNCHANGED <<steering, followUps, fate>>
    BY <1>0, <1>8 DEF EmitPrompt, RunState, queues
  <2>2. Head(run.prompts) \in Queued \cup {"prompt"} /\ Tail(run.prompts) \in Seq(Queued \cup {"prompt"})
    BY <2>1, HeadTailProperties
  <2>3. Occurrences(User(m), messages') = Occurrences(User(m), messages) + IF Head(run.prompts) = m THEN 1 ELSE 0
    BY <1>0, <2>1, <2>2, ShownBy
  <2>4. Occurrences(m, run.prompts) = Occurrences(m, run'.prompts) + IF Head(run.prompts) = m THEN 1 ELSE 0
    BY <2>1, OccursTail
  <2>5. Occurrences(m, run'.prompts) \in Nat
    BY <2>1, <2>2, PlacesFinite
  <2>6. Occurrences(m, Holds(run)) = Occurrences(m, run.prompts) + Occurrences(m, run.pending)
        /\ Occurrences(m, Holds(run')) = Occurrences(m, run'.prompts) + Occurrences(m, run.pending)
    BY <1>h, <2>1
  <2>7. Occurrences(m, Holds(run')) + Occurrences(User(m), messages')
          = Occurrences(m, Holds(run)) + Occurrences(User(m), messages)
    BY <1>b, <2>3, <2>4, <2>5, <2>6
  <2> QED
    BY <1>c, <1>d, <2>1, <2>7
<1>9. CASE PollFirst
  <2>1. [run EXCEPT !.at = "inject", !.skip = FALSE] \in RunState
    BY <1>0 DEF RunState, Waits
  <2>2. (~run.skip) \in BOOLEAN
    OBVIOUS
  <2>3. /\ run.at = "begin" /\ run.prompts = <<>> /\ run.pending = <<>> /\ run'.at = "inject" /\ run'.prompts = <<>>
        /\ UNCHANGED <<followUps, messages, fate>>
        /\ run'.pending = (IF ~run.skip THEN Taken(steering, mode.steer) ELSE run.pending)
        /\ steering' = (IF ~run.skip THEN Left(steering, mode.steer) ELSE steering)
    BY <1>0, <1>9, <2>1, <2>2, PollType DEF PollFirst, RunState, Locals
  <2> QED
    BY <1>e, <1>g, <2>3
<1>10. CASE PrepareNextTurn
  <2>1. [run EXCEPT !.at = "inject"] \in RunState
    BY <1>0 DEF RunState, Waits
  <2>2. PICK asks \in BOOLEAN : /\ asks <=> run.pending = <<>>
                               /\ Poll([run EXCEPT !.at = "inject"], asks)
    BY <1>10 DEF PrepareNextTurn, Repolls
  <2>3. /\ run.at = "turn" /\ run.prompts = <<>> /\ run'.at = "inject" /\ run'.prompts = <<>>
        /\ UNCHANGED <<followUps, messages, fate>>
        /\ run'.pending = (IF asks THEN Taken(steering, mode.steer) ELSE run.pending)
        /\ steering' = (IF asks THEN Left(steering, mode.steer) ELSE steering)
    <3> DEFINE r == [run EXCEPT !.at = "inject"]
    <3>1. r.at = "inject" /\ r.prompts = run.prompts /\ r.pending = run.pending
      BY <1>0 DEF RunState
    <3>2. run.at = "turn" /\ run.prompts = <<>>
      BY <1>10 DEF PrepareNextTurn, Locals
    <3>3. r \in RunState /\ Poll(r, asks)
      BY <2>1, <2>2
    <3> HIDE DEF r
    <3>4. /\ run'.at = r.at /\ run'.prompts = r.prompts /\ UNCHANGED <<followUps, messages, fate>>
          /\ run'.pending = (IF asks THEN Taken(steering, mode.steer) ELSE r.pending)
          /\ steering' = (IF asks THEN Left(steering, mode.steer) ELSE steering)
      BY <3>3, PollType
    <3> QED
      BY <3>1, <3>2, <3>4
  <2> QED
    BY <1>e, <1>g, <2>2, <2>3
<1>11. CASE Inject
  <2>1. /\ run.pending \in Seq(Queued) /\ run.pending # <<>> /\ run.at = "inject" /\ run'.at = "push"
        /\ run'.pending = run.pending /\ run'.prompts = run.prompts
        /\ messages' = Append(messages, User(Head(run.pending)))
        /\ UNCHANGED <<steering, followUps, fate>>
    BY <1>0, <1>11 DEF Inject, RunState, queues
  <2>2. Head(run.pending) \in Queued /\ Tail(run.pending) \in Seq(Queued)
    BY <2>1, HeadTailProperties
  <2>3. Occurrences(User(m), messages') = Occurrences(User(m), messages) + IF Head(run.pending) = m THEN 1 ELSE 0
    BY <1>0, <2>1, <2>2, ShownBy
  <2>4. Occurrences(m, run.pending) = Occurrences(m, Tail(run.pending)) + IF Head(run.pending) = m THEN 1 ELSE 0
    BY <2>1, OccursTail
  <2>5. Occurrences(m, Tail(run.pending)) \in Nat
    BY <2>2, PlacesFinite
  <2>6. Occurrences(m, Holds(run)) = Occurrences(m, run.prompts) + Occurrences(m, run.pending)
        /\ Occurrences(m, Holds(run')) = Occurrences(m, run.prompts) + Occurrences(m, Tail(run.pending))
    BY <1>h, <2>1
  <2>7. Occurrences(m, Holds(run')) + Occurrences(User(m), messages')
          = Occurrences(m, Holds(run)) + Occurrences(User(m), messages)
    BY <1>b, <2>3, <2>4, <2>5, <2>6
  <2> QED
    BY <1>c, <1>d, <2>1, <2>7
<1>12. CASE Push
  <2>1. /\ run.at = "push" /\ run'.at = "inject" /\ run'.pending = Tail(run.pending) /\ run'.prompts = run.prompts
        /\ UNCHANGED <<steering, followUps, fate, messages>>
    BY <1>0, <1>12 DEF Push, RunState, queues
  <2>2. Occurrences(m, Holds(run')) = Occurrences(m, Holds(run))
    BY <1>h, <2>1
  <2> QED
    BY <1>c, <1>d, <2>1, <2>2
<1>13. CASE Respond
  <2>1. PICK n \in 0 .. MaxCalls, stop \in {"stop", "length", "error", "aborted"} :
           /\ messages' = Append(messages, Assistant(n, stop))
           /\ run'.at \in {"stopped", "finish", "calls"}
           /\ run' = [run EXCEPT !.more = n > 0, !.turned = TRUE, !.at = run'.at]
    BY <1>13, RespondType
  <2>2. /\ run.at = "inject" /\ run'.pending = run.pending /\ run'.prompts = run.prompts
        /\ UNCHANGED <<steering, followUps, fate>>
    BY <1>0, <1>13, <2>1 DEF Respond, Requesting, RunState, queues
  <2>3. Occurrences(User(m), messages') = Occurrences(User(m), messages)
    BY <1>0, <2>1, ShownBy, AgentAssumption
  <2>4. Occurrences(m, Holds(run')) = Occurrences(m, Holds(run))
    BY <1>h, <2>1, <2>2
  <2> QED
    BY <1>c, <1>d, <2>2, <2>3, <2>4
<1>14. CASE PrepareCall \/ StartNext \/ NextCall \/ StartReady \/ (\E i \in 1 .. MaxCalls : EndCall(i)) \/ ReportResult
  <2>1. run' = run /\ UNCHANGED <<steering, followUps, fate>>
    BY <1>14, CallsReport DEF queues
  <2>2. messages' = messages \/ \E i \in Nat : messages' = messages \o Results(<<i>>)
    BY <1>14, CallsReport
  <2>3. Occurrences(User(m), messages') = Occurrences(User(m), messages)
    <3>1. ASSUME NEW i \in Nat, messages' = messages \o Results(<<i>>)
          PROVE  Occurrences(User(m), messages') = Occurrences(User(m), messages)
      <4>1. Occurrences(User(m), messages \o Results(<<i>>)) = Occurrences(User(m), messages)
        BY <1>0, ShownBy
      <4> QED
        BY <3>1, <4>1, Zenon
    <3>2. CASE messages' = messages
      BY <3>2
    <3> QED
      BY <2>2, <3>1, <3>2
  <2> QED
    BY <1>c, <1>d, <2>1, <2>3
<1>15. CASE CloseBatch
  <2>1. /\ run.at = "calls" /\ run'.at = "finish" /\ run'.prompts = run.prompts /\ run'.pending = run.pending
        /\ UNCHANGED <<steering, followUps, fate, messages>>
    BY <1>0, <1>15 DEF CloseBatch, RunState, queues
  <2> QED
    BY <1>e, <2>1
<1>16. CASE FinishTurn
  <2>1. /\ run.at = "finish" /\ run'.at \in {"stopped", "poll"} /\ run'.prompts = run.prompts /\ run'.pending = run.pending
        /\ UNCHANGED <<steering, followUps, fate, messages>>
    BY <1>0, <1>16 DEF FinishTurn, RunState, queues
  <2> QED
    BY <1>e, <2>1
<1>17. CASE PollNext
  <2>1. PICK r \in RunState : r.at \in {"turn", "followUp"} /\ Poll(r, TRUE) /\ r.prompts = run.prompts
    <3>1. /\ [run EXCEPT !.at = "turn", !.again = FALSE] \in RunState
          /\ [run EXCEPT !.at = "followUp"] \in RunState
      BY <1>0 DEF RunState, Waits
    <3>2. CASE GoesOn(Polled(run, TRUE))
      BY <1>0, <1>17, <3>1, <3>2 DEF PollNext, RunState
    <3>3. CASE ~GoesOn(Polled(run, TRUE))
      BY <1>0, <1>17, <3>1, <3>3 DEF PollNext, RunState
    <3> QED
      BY <3>2, <3>3
  <2>2. /\ run'.at = r.at /\ run'.prompts = run.prompts /\ run'.pending = Taken(steering, mode.steer)
        /\ steering' = Left(steering, mode.steer) /\ UNCHANGED <<followUps, messages, fate>>
    BY <2>1, PollType
  <2>3. run.at = "poll" /\ run.prompts = <<>> /\ run.pending = <<>>
    BY <1>17 DEF PollNext, Locals
  <2> QED
    BY <1>g, <2>1, <2>2, <2>3
<1>18. CASE PollFollowUps
  <2>1. /\ run.at = "followUp" /\ UNCHANGED <<steering, messages, fate>> /\ run'.at \in {"turn", "ending"}
        /\ followUps' = Left(followUps, mode.followUp) /\ run'.prompts = <<>> /\ run.prompts = <<>> /\ run.pending = <<>>
        /\ run'.pending = Taken(followUps, mode.followUp)
    BY <1>0, <1>18 DEF PollFollowUps, RunState, Locals
  <2>2. Occurrences(m, followUps) = Occurrences(m, run'.pending) + Occurrences(m, followUps')
    BY <1>0, <2>1, DrainCounts
  <2>3. followUps' \in Seq(FollowUps) /\ run'.pending \in Seq(Queued)
    BY <1>0 DEF Types, RunState
  <2>4. Occurrences(m, followUps') \in Nat /\ Occurrences(m, run'.pending) \in Nat
    BY <2>3, PlacesFinite
  <2>5. Occurrences(m, Holds(run')) = Occurrences(m, run'.pending) /\ Occurrences(m, Holds(run)) = 0
    BY <1>h, <1>z, <2>1, <2>4
  <2>6. Occurrences(m, steering') = Occurrences(m, steering) /\ Occurrences(User(m), messages') = Occurrences(User(m), messages)
        /\ fate'[m] = fate[m]
    BY <2>1
  <2> QED
    BY <1>a, <1>b, <2>2, <2>4, <2>5, <2>6 DEF Kept, Places4
<1>19. CASE FinishRun
  <2>1. /\ run.at # "push" /\ run'.at = "idle" /\ run'.prompts = <<>> /\ run'.pending = <<>>
        /\ run.prompts = <<>> /\ run.pending = <<>> /\ UNCHANGED <<steering, followUps, fate, messages>>
    BY <1>19 DEF FinishRun, NoRun, queues, Locals
  <2> QED
    BY <1>e, <2>1
<1>20. CASE Throw
  <2>1. /\ run'.at = "failed" /\ run'.prompts = <<>> /\ run'.pending = <<>> /\ fate' = Dropped(Held)
        /\ UNCHANGED <<steering, followUps>>
        /\ messages' = Append(messages, Assistant(0, IF run.aborted THEN "aborted" ELSE "error"))
    BY <1>20 DEF Throw, NoRun, queues
  <2>2. Occurrences(User(m), messages') = Occurrences(User(m), messages)
    <3>1. (IF run.aborted THEN "aborted" ELSE "error") \in {"stop", "length", "error", "aborted"} /\ 0 \in Nat
      OBVIOUS
    <3> QED
      BY <1>0, <2>1, <3>1, ShownBy
  <2>3. Occurrences(m, Holds(run')) = 0
    BY <1>h, <1>z, <2>1
  <2>4. m \in Held <=> Occurrences(m, Holds(run)) # 0
    <3>1. CASE run.at = "push"
      <4>1. Tail(run.pending) \in Seq(Queued) /\ run.prompts \in Seq(Queued \cup {"prompt"})
        BY <1>0, <3>1, HeadTailProperties DEF RunState
      <4>2. m \in Held <=> m \in Sent(run.prompts) \/ m \in Sent(Tail(run.pending))
        BY <3>1 DEF Held
      <4>3. /\ m \in Sent(run.prompts) <=> Occurrences(m, run.prompts) # 0
            /\ m \in Sent(Tail(run.pending)) <=> Occurrences(m, Tail(run.pending)) # 0
            /\ Occurrences(m, Tail(run.pending)) \in Nat
        BY <4>1, SentOccurs, PlacesFinite
      <4> QED
        BY <1>b, <1>h, <3>1, <4>2, <4>3
    <3>2. CASE run.at # "push"
      <4>1. run.pending \in Seq(Queued) /\ run.prompts \in Seq(Queued \cup {"prompt"})
        BY <1>0 DEF RunState
      <4>2. m \in Held <=> m \in Sent(run.prompts) \/ m \in Sent(run.pending)
        BY <3>2 DEF Held
      <4>3. /\ m \in Sent(run.prompts) <=> Occurrences(m, run.prompts) # 0
            /\ m \in Sent(run.pending) <=> Occurrences(m, run.pending) # 0
        BY <4>1, SentOccurs
      <4> QED
        BY <1>b, <1>h, <3>2, <4>2, <4>3
    <3> QED
      BY <3>1, <3>2
  <2>5. fate'[m] = IF m \in Held THEN "dropped" ELSE fate[m]
    BY <1>0, <2>1 DEF Dropped
  <2>6. Occurrences(m, steering') = Occurrences(m, steering) /\ Occurrences(m, followUps') = Occurrences(m, followUps)
    BY <2>1
  <2> QED
    BY <1>a, <1>b, <2>2, <2>3, <2>4, <2>5, <2>6 DEF Kept, Places4
<1>21. CASE UNCHANGED vars
  BY <1>c, <1>d, <1>21 DEF vars, queues
<1> QED
  BY <1>1, <1>2, <1>3, <1>4, <1>5, <1>6, <1>7, <1>8, <1>9, <1>10, <1>11, <1>12, <1>13, <1>14, <1>15, <1>16, <1>17,
     <1>18, <1>19, <1>20, <1>21 DEF Next, Host, Turn, Calls, End

-----------------------------------------------------------------------------
(* Steering, one message at a time.                                        *)

LEMMA SteeredConcat ==
  ASSUME NEW a \in Seq(Messages), NEW b \in Seq(Messages), NEW m \in Steered(a \o b)
  PROVE  m \in Steers /\ (m \in Steered(a) \/ \E i \in DOMAIN b : b[i] = User(m))
<1>1. /\ a \o b \in Seq(Messages) /\ Len(a \o b) = Len(a) + Len(b) /\ Len(a) \in Nat /\ Len(b) \in Nat
      /\ \A i \in 1 .. Len(a) + Len(b) : (a \o b)[i] = IF i <= Len(a) THEN a[i] ELSE b[i - Len(a)]
      /\ DOMAIN (a \o b) = 1 .. Len(a) + Len(b) /\ DOMAIN a = 1 .. Len(a) /\ DOMAIN b = 1 .. Len(b)
  BY ConcatProperties, LenProperties
<1> DEFINE c == a \o b
<1>2. PICK i \in 1 .. Len(a) + Len(b) : c[i] = User(m) /\ \A k \in i .. Len(a) + Len(b) : c[k].role # "assistant"
  BY <1>1 DEF Steered, Unanswered
<1>3. m \in Steers
  BY DEF Steered
<1> HIDE DEF c
<1>4. \A k \in 1 .. Len(a) + Len(b) : c[k] = IF k <= Len(a) THEN a[k] ELSE b[k - Len(a)]
  BY <1>1 DEF c
<1>5. CASE i <= Len(a)
  <2>1. i \in DOMAIN a /\ a[i] = User(m)
    BY <1>1, <1>2, <1>4, <1>5
  <2>2. \A k \in i .. Len(a) : k \in 1 .. Len(a) + Len(b) /\ k \in i .. Len(a) + Len(b) /\ k <= Len(a)
    BY <1>1, <1>2
  <2>3. \A k \in i .. Len(a) : a[k].role # "assistant"
    BY <1>2, <1>4, <2>2
  <2> QED
    BY <1>3, <2>1, <2>3 DEF Steered, Unanswered
<1>6. CASE ~(i <= Len(a))
  <2>1. i - Len(a) \in DOMAIN b /\ b[i - Len(a)] = User(m)
    BY <1>1, <1>2, <1>4, <1>6
  <2> QED
    BY <1>3, <2>1
<1> QED
  BY <1>5, <1>6

LEMMA SteeredUsers ==
  ASSUME NEW ms \in Seq(Messages), NEW q \in Seq(Queued \cup {"prompt"})
  PROVE  Steered(ms \o Users(q)) \subseteq Steered(ms) \cup (Sent(q) \cap Steers)
<1>1. Users(q) \in Seq(Messages) /\ DOMAIN Users(q) = DOMAIN q /\ \A i \in DOMAIN q : Users(q)[i] = User(q[i])
  BY UsersSeq
<1>2. \A i \in DOMAIN q, m \in Steers : Users(q)[i] = User(m) => m \in Sent(q)
  BY <1>1 DEF User, Sent, Queued
<1> QED
  BY <1>1, <1>2, SteeredConcat

LEMMA SteeredUser ==
  ASSUME NEW ms \in Seq(Messages), NEW k \in Queued
  PROVE  Steered(Append(ms, User(k))) \subseteq Steered(ms) \cup ({k} \cap Steers)
<1>1. User(k) \in Messages
  BY MessageTypes
<1>2. Append(ms, User(k)) = ms \o <<User(k)>> /\ <<User(k)>> \in Seq(Messages)
  BY <1>1, AppendIsConcat
<1>3. \A m : \A i \in DOMAIN <<User(k)>> : <<User(k)>>[i] = User(m) => m = k
  BY DEF User
<1> QED
  BY <1>2, <1>3, SteeredConcat

LEMMA SteeredResults ==
  ASSUME NEW ms \in Seq(Messages), NEW q \in Seq(Nat)
  PROVE  Steered(ms \o Results(q)) \subseteq Steered(ms)
<1>1. Results(q) \in Seq(Messages) /\ DOMAIN Results(q) = DOMAIN q /\ \A i \in DOMAIN q : Results(q)[i] = Result(q[i])
  BY ResultsSeq
<1>2. \A m : \A i \in DOMAIN q : Results(q)[i] # User(m)
  <2>1. \A m, k : Result(k).role = "toolResult" /\ User(m).role = "user"
    BY DEF User, Result
  <2> QED
    BY <1>1, <2>1
<1> QED
  BY <1>1, <1>2, SteeredConcat

LEMMA SteeredNone ==
  /\ Steered(<<>>) = {}
  /\ \A ms \in Seq(Messages), n \in Nat, stop \in {"stop", "length", "error", "aborted"} :
        Steered(Append(ms, Assistant(n, stop))) = {}
<1>1. Steered(<<>>) = {}
  BY DEF Steered, Unanswered
<1>2. ASSUME NEW ms \in Seq(Messages), NEW n \in Nat, NEW stop \in {"stop", "length", "error", "aborted"}
      PROVE  Steered(Append(ms, Assistant(n, stop))) = {}
  <2> DEFINE r == Append(ms, Assistant(n, stop))
  <2>1. Assistant(n, stop) \in Messages /\ Assistant(n, stop).role = "assistant"
    BY MessageTypes DEF Assistant
  <2>2. r \in Seq(Messages) /\ Len(r) = Len(ms) + 1 /\ r[Len(r)] = Assistant(n, stop) /\ Len(ms) \in Nat
        /\ DOMAIN r = 1 .. Len(r)
    BY <2>1, AppendProperties, LenProperties
  <2> HIDE DEF r
  <2>3. \A i \in DOMAIN r : Len(r) \in i .. Len(r)
    BY <2>2
  <2> QED
    BY <2>1, <2>2, <2>3 DEF Steered, Unanswered, r
<1> QED
  BY <1>1, <1>2

LEMMA SentAtMost ==
  ASSUME NEW S, NEW q \in Seq(S), Len(q) <= 1
  PROVE  AtMostOne(Sent(q))
<1>1. \A i, j \in DOMAIN q : i = j
  BY LenProperties
<1> QED
  BY <1>1 DEF AtMostOne, Sent

LEMMA SteeredStep ==
  ASSUME Types, Types', Locals, Follows, Batched, OneSteered, [Next]_vars
  PROVE  OneSteered'
<1>0. /\ run \in RunState /\ messages \in Seq(Messages) /\ context \in Seq(Messages)
      /\ steering \in Seq(Steers) /\ followUps \in Seq(FollowUps) /\ run.pending \in Seq(Queued)
      /\ mode' = mode
  <2>1. mode' = mode
    BY DEF Next, vars, Host, Turn, Calls, End, Steer, FollowUp, ClearQueues, Abort, Reset, Prompt, Continue, Start,
           EmitPrompt, PollFirst, PrepareNextTurn, Poll, Inject, Push, Respond, PrepareCall, StartNext, NextCall,
           StartReady, EndCall, ReportResult, CloseBatch, FinishTurn, PollNext, PollFollowUps, FinishRun, Throw
  <2> QED
    BY <2>1 DEF Types, RunState
<1>m. CASE mode.steer # "one-at-a-time"
  BY <1>0, <1>m DEF OneSteered
<1> SUFFICES ASSUME mode.steer = "one-at-a-time"
             PROVE  OneSteered'
  BY <1>m
<1>t. AtMostOne(Sent(Taken(steering, mode.steer)) \cap Steers)
  <2>1. Taken(steering, mode.steer) \in Seq(Steers) /\ Len(Taken(steering, mode.steer)) <= 1
    BY <1>0, Drains
  <2> QED
    BY <2>1, SentAtMost DEF AtMostOne
<1>f. \A how : Sent(Taken(followUps, how)) \cap Steers = {}
  <2>1. \A how : Taken(followUps, how) \in Seq(FollowUps)
    BY <1>0, Drains
  <2>2. \A how : \A i \in DOMAIN Taken(followUps, how) : Taken(followUps, how)[i] \in FollowUps
    BY <2>1
  <2> QED
    BY <2>2, AgentAssumption DEF Sent
<1>e. Sent(<<>>) = {}
  BY DEF Sent
<1>s. ASSUME NEW q \in Seq(Queued \cup {"prompt"}), NEW skip \in BOOLEAN, Start(q, skip),
             AtMostOne(Sent(q) \cap Steers), ~skip => Sent(q) \cap Steers = {}
      PROVE  OneSteered'
  <2>1. /\ run' = [NoRun EXCEPT !.at = "begin", !.prompts = q, !.skip = skip] /\ context' = messages \o Users(q)
        /\ run.at = "idle"
    BY <1>s, StartType DEF Start, Idle
  <2>2. run'.at = "begin" /\ run'.skip = skip
    BY <2>1 DEF NoRun
  <2>3. Steered(messages) = {}
    BY <2>1 DEF OneSteered
  <2>4. Steered(context') \subseteq Sent(q) \cap Steers
    BY <1>0, <2>1, <2>3, SteeredUsers
  <2> QED
    BY <1>s, <2>2, <2>4 DEF OneSteered, AtMostOne
<1>1. CASE \/ \E m \in Steers : Steer(m)
           \/ \E m \in FollowUps : FollowUp(m)
           \/ \E which \in SUBSET {"steer", "followUp"} : ClearQueues(which)
           \/ UNCHANGED vars
           \/ PrepareCall \/ StartNext \/ NextCall \/ StartReady \/ (\E i \in 1 .. MaxCalls : EndCall(i)) \/ ReportResult
  <2>1. CASE PrepareCall \/ StartNext \/ NextCall \/ StartReady \/ (\E i \in 1 .. MaxCalls : EndCall(i)) \/ ReportResult
    BY <1>0, <2>1, CallsReport DEF OneSteered
  <2>2. CASE \/ \E m \in Steers : Steer(m)
             \/ \E m \in FollowUps : FollowUp(m)
             \/ \E which \in SUBSET {"steer", "followUp"} : ClearQueues(which)
             \/ UNCHANGED vars
    <3>1. UNCHANGED <<messages, context, run>>
      BY <2>2 DEF Steer, FollowUp, ClearQueues, vars
    <3> QED
      BY <1>0, <3>1 DEF OneSteered
  <2> QED
    BY <1>1, <2>1, <2>2
<1>2. CASE Abort
  <2>1. /\ run'.at = run.at /\ run'.pending = run.pending /\ run'.skip = run.skip
        /\ UNCHANGED <<messages, context>>
    BY <1>0, <1>2 DEF Abort, RunState
  <2> QED
    BY <1>0, <2>1 DEF OneSteered
<1>3. CASE Reset
  BY <1>0, <1>3, SteeredNone DEF Reset, Idle, OneSteered
<1>4. CASE Prompt
  <2>1. <<"prompt">> \in Seq(Queued \cup {"prompt"})
    OBVIOUS
  <2>2. Sent(<<"prompt">>) = {}
    BY AgentAssumption DEF Sent
  <2> QED
    BY <1>4, <1>s, <2>1, <2>2 DEF Prompt, AtMostOne
<1>5. CASE Continue
  <2>1. <<>> \in Seq(Queued \cup {"prompt"})
    OBVIOUS
  <2>2. CASE Start(<<>>, FALSE)
    BY <1>e, <1>s, <2>1, <2>2 DEF AtMostOne
  <2>3. CASE Start(Taken(steering, mode.steer), TRUE)
    BY <1>s, <1>t, <2>3, QueueTypes
  <2>4. CASE Start(Taken(followUps, mode.followUp), FALSE)
    BY <1>f, <1>s, <2>4, QueueTypes DEF AtMostOne
  <2> QED
    BY <1>5, <2>2, <2>3, <2>4 DEF Continue
<1>6. CASE EmitPrompt
  <2>1. run.at = "begin" /\ run'.at = "begin" /\ run'.skip = run.skip /\ context' = context
    BY <1>0, <1>6 DEF EmitPrompt, RunState
  <2> QED
    BY <1>0, <2>1 DEF OneSteered
<1>7. CASE PollFirst
  <2> DEFINE r == [run EXCEPT !.at = "inject", !.skip = FALSE]
  <2>1. r \in RunState /\ r.at = "inject" /\ r.pending = run.pending
    BY <1>0 DEF RunState, Waits
  <2>2. PICK asks \in BOOLEAN : (asks <=> ~run.skip) /\ Poll(r, asks)
    BY <1>7 DEF PollFirst
  <2>3. run.at = "begin" /\ run.pending = <<>>
    BY <1>7 DEF PollFirst, Locals
  <2> HIDE DEF r
  <2>4. run'.at = "inject" /\ run'.pending = (IF asks THEN Taken(steering, mode.steer) ELSE r.pending) /\ context' = context
    BY <2>1, <2>2, PollType
  <2>5. AtMostOne(Steered(context)) /\ (~run.skip => Steered(context) = {})
    BY <2>3 DEF OneSteered
  <2> QED
    BY <1>e, <1>t, <2>1, <2>2, <2>3, <2>4, <2>5 DEF OneSteered, AtMostOne
<1>8. CASE PrepareNextTurn
  <2> DEFINE r == [run EXCEPT !.at = "inject"]
  <2>1. r \in RunState /\ r.at = "inject" /\ r.pending = run.pending
    BY <1>0 DEF RunState, Waits
  <2>2. PICK asks \in BOOLEAN : Poll(r, asks)
    BY <1>8 DEF PrepareNextTurn, Repolls
  <2>3. run.at = "turn"
    BY <1>8 DEF PrepareNextTurn
  <2> HIDE DEF r
  <2>4. run'.at = "inject" /\ run'.pending = (IF asks THEN Taken(steering, mode.steer) ELSE r.pending) /\ context' = context
    BY <2>1, <2>2, PollType
  <2>5. AtMostOne(Sent(run.pending) \cap Steers) /\ Steered(context) = {}
    BY <2>3 DEF OneSteered
  <2> QED
    BY <1>t, <2>1, <2>4, <2>5 DEF OneSteered, AtMostOne
<1>9. CASE Inject
  <2>1. run.at = "inject" /\ run'.at = "push" /\ run'.pending = run.pending /\ context' = context
    BY <1>0, <1>9 DEF Inject, RunState
  <2> QED
    BY <1>0, <2>1 DEF OneSteered
<1>10. CASE Push
  <2>1. /\ run.at = "push" /\ run'.at = "inject" /\ run'.pending = Tail(run.pending)
        /\ context' = Append(context, User(Head(run.pending))) /\ run.pending # <<>>
    BY <1>0, <1>10 DEF Push, RunState, Locals
  <2>2. /\ Head(run.pending) \in Queued /\ Head(run.pending) = run.pending[1] /\ 1 \in DOMAIN run.pending
        /\ \A i \in DOMAIN Tail(run.pending) : i + 1 \in DOMAIN run.pending /\ Tail(run.pending)[i] = run.pending[i + 1]
    BY <1>0, <2>1
  <2>3. Sent(Tail(run.pending)) \subseteq Sent(run.pending) /\ {Head(run.pending)} \cap Steers \subseteq Sent(run.pending)
    BY <2>2 DEF Sent
  <2>4. Steered(context') \subseteq Steered(context) \cup ({Head(run.pending)} \cap Steers)
    BY <1>0, <2>1, <2>2, SteeredUser
  <2>5. AtMostOne(Steered(context) \cup (Sent(run.pending) \cap Steers))
    BY <2>1 DEF OneSteered
  <2>6. AtMostOne(Steered(context') \cup (Sent(run'.pending) \cap Steers))
    BY <2>1, <2>3, <2>4, <2>5 DEF AtMostOne
  <2> QED
    BY <2>1, <2>6 DEF OneSteered
<1>11. CASE Respond
  <2>1. PICK n \in 0 .. MaxCalls, stop \in {"stop", "length", "error", "aborted"} :
           /\ context' = Append(context, Assistant(n, stop))
           /\ run'.at \in {"stopped", "finish", "calls"}
    BY <1>11, RespondType
  <2>2. n \in Nat
    BY AgentAssumption
  <2>3. Steered(context') = {}
    BY <1>0, <2>1, <2>2, SteeredNone
  <2> QED
    BY <2>1, <2>3 DEF OneSteered
<1>12. CASE CloseBatch
  <2>1. run.at = "calls" /\ run'.at = "finish" /\ context' = context \o Results(batch.results) /\ batch.results \in Seq(Nat)
    BY <1>0, <1>12 DEF CloseBatch, RunState, Types, BatchState
  <2>2. Steered(context) = {}
    BY <2>1 DEF OneSteered
  <2>3. Steered(context') = {}
    BY <1>0, <2>1, <2>2, SteeredResults
  <2> QED
    BY <2>1, <2>3 DEF OneSteered
<1>13. CASE FinishTurn
  <2>1. run.at = "finish" /\ run'.at \in {"stopped", "poll"} /\ context' = context
    BY <1>0, <1>13 DEF FinishTurn, RunState
  <2> QED
    BY <2>1 DEF OneSteered
<1>14. CASE PollNext
  <2>1. PICK r \in RunState : r.at \in {"turn", "followUp"} /\ Poll(r, TRUE)
    <3>1. /\ [run EXCEPT !.at = "turn", !.again = FALSE] \in RunState
          /\ [run EXCEPT !.at = "followUp"] \in RunState
      BY <1>0 DEF RunState, Waits
    <3>2. CASE GoesOn(Polled(run, TRUE))
      BY <1>0, <1>14, <3>1, <3>2 DEF PollNext, RunState
    <3>3. CASE ~GoesOn(Polled(run, TRUE))
      BY <1>0, <1>14, <3>1, <3>3 DEF PollNext, RunState
    <3> QED
      BY <3>2, <3>3
  <2>2. run'.at = r.at /\ run'.pending = Taken(steering, mode.steer) /\ context' = context /\ run.at = "poll"
    BY <1>14, <2>1, PollType DEF PollNext
  <2> QED
    BY <1>0, <1>t, <2>1, <2>2 DEF OneSteered
<1>15. CASE PollFollowUps
  <2>1. /\ run.at = "followUp" /\ run'.at \in {"turn", "ending"} /\ context' = context
        /\ run'.pending = Taken(followUps, mode.followUp)
    BY <1>0, <1>15 DEF PollFollowUps, RunState, Locals
  <2> QED
    BY <1>f, <2>1 DEF OneSteered, AtMostOne
<1>16. CASE FinishRun
  <2>1. run'.at = "idle" /\ messages' = messages /\ run.at \in {"ending", "stopped", "failed"}
    BY <1>16 DEF FinishRun, NoRun
  <2>2. Steered(messages) = {}
    BY <2>1 DEF OneSteered, Follows
  <2> QED
    BY <2>1, <2>2 DEF OneSteered
<1>17. CASE Throw
  <2>1. run'.at = "failed" /\ messages' = Append(messages, Assistant(0, IF run.aborted THEN "aborted" ELSE "error"))
    BY <1>17 DEF Throw, NoRun
  <2>2. (IF run.aborted THEN "aborted" ELSE "error") \in {"stop", "length", "error", "aborted"} /\ 0 \in Nat
    OBVIOUS
  <2>3. Steered(messages') = {}
    BY <1>0, <2>1, <2>2, SteeredNone
  <2> QED
    BY <2>1, <2>3 DEF OneSteered
<1> QED
  BY <1>1, <1>2, <1>3, <1>4, <1>5, <1>6, <1>7, <1>8, <1>9, <1>10, <1>11, <1>12, <1>13, <1>14, <1>15, <1>16, <1>17
     DEF Next, Host, Turn, Calls, End

-----------------------------------------------------------------------------
(* Tool calls and their results.                                           *)

\* What each step on the calls does to the batch.
LEMMA CallsStep ==
  ASSUME Types, Batched,
         PrepareCall \/ StartNext \/ NextCall \/ StartReady \/ (\E i \in 1 .. MaxCalls : EndCall(i)) \/ ReportResult
  PROVE  Reports(batch', run.aborted) /\ batch'.calls = batch.calls
<1>0. batch \in BatchState /\ run.at = "calls" /\ Reports(batch, run.aborted)
  BY CallsReport DEF Types, Batched
<1>1. /\ batch.calls \in Nat /\ batch.size \in Nat /\ batch.next \in Nat /\ batch.results \in Seq(Nat)
      /\ batch.serial \in BOOLEAN /\ batch.truncated \in BOOLEAN
      /\ DOMAIN batch.results = 1 .. Len(batch.results) /\ Len(batch.results) \in Nat
  <2>1. batch.results \in Seq(Nat)
    BY <1>0 DEF BatchState
  <2> QED
    BY <1>0, <2>1, LenProperties DEF BatchState
\* A call that ends where it is the batch's turn, or in a parallel batch anywhere.
<1>2. ASSUME NEW i \in DOMAIN batch.state, NEW t \in BOOLEAN, batch' = Over(batch, i, t), batch.state[i] # "over",
             i <= batch.next, i <= batch.size, i < batch.next \/ batch.next <= batch.size,
             batch.serial => i = batch.next
      PROVE  Reports(batch', run.aborted) /\ batch'.calls = batch.calls
  <2>1. /\ batch'.state = [batch.state EXCEPT ![i] = "over"] /\ batch'.ends = [batch.ends EXCEPT ![i] = t]
        /\ batch'.results = (IF batch.serial THEN Append(batch.results, i) ELSE batch.results)
        /\ batch'.calls = batch.calls /\ batch'.size = batch.size /\ batch'.serial = batch.serial
        /\ batch'.truncated = batch.truncated /\ batch'.next = batch.next
    <3>1. batch \in BatchState /\ DOMAIN batch.ends = DOMAIN batch.state
      BY <1>0 DEF Reports
    <3>2. i \in DOMAIN batch.state /\ t \in BOOLEAN /\ batch' = Over(batch, i, t)
      BY <1>2
    <3> HIDE <1>2
    <3> QED
      BY <3>1, <3>2, OverType
  <2>2. /\ DOMAIN batch'.state = 1 .. batch.calls /\ DOMAIN batch'.ends = 1 .. batch.calls
        /\ \A k \in 1 .. batch.calls : batch'.state[k] = IF k = i THEN "over" ELSE batch.state[k]
    <3>1. DOMAIN batch.state = 1 .. batch.calls /\ DOMAIN batch.ends = 1 .. batch.calls
      BY <1>0 DEF Reports
    <3> QED
      BY <1>2, <2>1, <3>1
  <2>6. i \in Nat
    BY <1>0, <1>1, <1>2 DEF Reports
  <2>3. \A k \in 1 .. batch.calls : /\ k < batch.next => batch'.state[k] # "new"
                                    /\ k > batch.next => batch'.state[k] = "new"
                                    /\ k >= batch.next /\ batch.next > batch.size => batch'.state[k] = "new"
                                    /\ batch.truncated => batch'.state[k] # "ready"
                                    /\ batch.serial /\ k < batch.next => batch'.state[k] = "over"
                                    /\ ~batch.serial /\ batch.next <= batch.size => batch'.state[k] # "running"
    <3>1. ASSUME NEW k \in 1 .. batch.calls, k # i
          PROVE  /\ k < batch.next => batch'.state[k] # "new"
                 /\ k > batch.next => batch'.state[k] = "new"
                 /\ k >= batch.next /\ batch.next > batch.size => batch'.state[k] = "new"
                 /\ batch.truncated => batch'.state[k] # "ready"
                 /\ batch.serial /\ k < batch.next => batch'.state[k] = "over"
                 /\ ~batch.serial /\ batch.next <= batch.size => batch'.state[k] # "running"
      <4>1. batch'.state[k] = batch.state[k]
        BY <2>2, <3>1
      <4> QED
        BY <1>0, <4>1 DEF Reports
    <3>2. ~(i > batch.next) /\ ~(i >= batch.next /\ batch.next > batch.size)
      BY <1>1, <1>2, <2>6
    <3>3. \A k \in 1 .. batch.calls : k = i => batch'.state[k] = "over"
      BY <2>2
    <3> QED
      BY <3>1, <3>2, <3>3
  <2>4. CASE batch.serial
    <3>1. Len(batch.results) = batch.next - 1 /\ \A k \in DOMAIN batch.results : batch.results[k] = k
      BY <1>0, <1>1, <1>2, <2>4 DEF Reports
    <3>2. /\ Len(batch'.results) = batch.next /\ DOMAIN batch'.results = 1 .. batch.next
          /\ \A k \in 1 .. batch.next : batch'.results[k] = k
      <4>1. i \in Nat /\ i = batch.next
        BY <1>1, <1>2, <2>4
      <4>2. /\ Append(batch.results, i) \in Seq(Nat) /\ Len(Append(batch.results, i)) = Len(batch.results) + 1
            /\ \A k \in 1 .. Len(batch.results) : Append(batch.results, i)[k] = batch.results[k]
            /\ Append(batch.results, i)[Len(batch.results) + 1] = i
        BY <1>1, <4>1, AppendProperties
      <4>3. batch'.results = Append(batch.results, i)
        BY <2>1, <2>4
      <4>4. DOMAIN batch'.results = 1 .. Len(batch'.results)
        BY <4>2, <4>3, LenProperties
      <4>5. \A k \in 1 .. batch.next : k \in 1 .. Len(batch.results) \/ k = Len(batch.results) + 1
        BY <1>1, <3>1
      <4>6. Len(batch'.results) = batch.next
        BY <1>1, <3>1, <4>2, <4>3
      <4>7. \A k \in 1 .. Len(batch.results) : batch'.results[k] = k
        BY <1>1, <3>1, <4>2, <4>3
      <4>8. batch'.results[batch.next] = batch.next /\ Len(batch.results) + 1 = batch.next
        BY <1>1, <3>1, <4>1, <4>2, <4>3
      <4> QED
        BY <4>4, <4>5, <4>6, <4>7, <4>8
    <3>3. batch.next <= batch.size /\ batch'.state[batch.next] = "over"
      BY <1>0, <1>2, <2>2, <2>4 DEF Reports
    <3>4. \A k \in DOMAIN batch'.results : batch'.results[k] = k
      BY <3>2
    <3> QED
      BY <1>0, <2>1, <2>2, <2>3, <2>4, <3>2, <3>3, <3>4 DEF Reports
  <2>5. CASE ~batch.serial
    <3>1. batch.results = <<>> /\ batch'.results = batch.results
      <4>1. i \in 1 .. batch.size
        BY <1>0, <1>1, <1>2, <2>6 DEF Reports
      <4> QED
        BY <1>0, <1>2, <2>1, <2>5, <4>1 DEF Reports
    <3> QED
      BY <1>0, <1>1, <2>1, <2>2, <2>3, <2>5, <3>1 DEF Reports
  <2> QED
    BY <2>4, <2>5
<1>3. CASE PrepareCall
  <2>1. batch.next \in DOMAIN batch.state /\ batch.next <= batch.size /\ batch.state[batch.next] = "new"
    BY <1>0, <1>1, <1>3 DEF PrepareCall, Prepared, Reports
  <2>2. CASE \E t \in BOOLEAN : batch' = Over(batch, batch.next, t)
    <3>1. PICK t \in BOOLEAN : batch' = Over(batch, batch.next, t)
      BY <2>2
    <3>2. batch.next <= batch.next /\ batch.state[batch.next] # "over"
      BY <1>1, <2>1
    <3> QED
      BY <1>2, <2>1, <3>1, <3>2
  <2>3. CASE Admits(batch.next) /\ batch' = [batch EXCEPT !.state[batch.next] = "ready"]
    <3>1. /\ batch'.state = [batch.state EXCEPT ![batch.next] = "ready"]
          /\ batch'.ends = batch.ends /\ batch'.results = batch.results
          /\ batch'.calls = batch.calls /\ batch'.size = batch.size /\ batch'.serial = batch.serial
          /\ batch'.truncated = batch.truncated /\ batch'.next = batch.next
      BY <1>0, <2>3 DEF BatchState
    <3>2. /\ DOMAIN batch'.state = 1 .. batch.calls
          /\ \A k \in 1 .. batch.calls : batch'.state[k] = IF k = batch.next THEN "ready" ELSE batch.state[k]
      <4>1. DOMAIN batch.state = 1 .. batch.calls
        BY <1>0 DEF Reports
      <4> QED
        BY <2>1, <3>1, <4>1
    <3>3. \A k \in 1 .. batch.calls : /\ k < batch.next => batch'.state[k] # "new"
                                      /\ k > batch.next => batch'.state[k] = "new"
                                      /\ k >= batch.next /\ batch.next > batch.size => batch'.state[k] = "new"
                                      /\ batch.truncated => batch'.state[k] # "ready"
                                      /\ batch.serial /\ k < batch.next => batch'.state[k] = "over"
                                      /\ ~batch.serial /\ batch.next <= batch.size => batch'.state[k] # "running"
      BY <1>0, <1>1, <2>1, <2>3, <3>2 DEF Reports, Admits
    <3>4. batch'.state[batch.next] # "over"
      BY <1>0, <1>1, <2>1, <3>2 DEF Reports
    <3>5. batch.serial => Len(batch.results) = batch.next - 1
      BY <1>0, <2>1 DEF Reports
    <3>6. ~batch.serial => batch.results = <<>>
      BY <1>0, <1>1, <2>1 DEF Reports
    <3> QED
      BY <1>0, <1>1, <2>1, <3>1, <3>2, <3>3, <3>4, <3>5, <3>6 DEF Reports
  <2> QED
    BY <1>3, <2>2, <2>3 DEF PrepareCall
<1>4. CASE NextCall
  <2> DEFINE size == IF run.aborted /\ ~batch.truncated THEN batch.next ELSE batch.size
  <2>1. /\ batch'.state = batch.state /\ batch'.ends = batch.ends /\ batch'.results = batch.results
        /\ batch'.calls = batch.calls /\ batch'.size = size /\ batch'.serial = batch.serial
        /\ batch'.truncated = batch.truncated /\ batch'.next = batch.next + 1
    BY <1>0, <1>4 DEF NextCall, BatchState
  <2>2. /\ batch.next <= batch.size /\ batch.next \in 1 .. batch.calls
        /\ batch.state[batch.next] \in {"ready", "over"}
        /\ batch.serial => batch.state[batch.next] = "over"
    BY <1>0, <1>1, <1>4 DEF NextCall, Prepared, Reports
  <2>3. size \in batch.next .. batch.size /\ (size # batch.size => run.aborted /\ ~batch.truncated /\ size = batch.next)
    BY <1>1, <2>2
  <2> HIDE DEF size
  <2>4. \A k \in 1 .. batch.calls : /\ k < batch.next + 1 => batch.state[k] # "new"
                                    /\ k > batch.next + 1 => batch.state[k] = "new"
                                    /\ k >= batch.next + 1 /\ batch.next + 1 > size => batch.state[k] = "new"
                                    /\ batch.truncated => batch.state[k] # "ready"
                                    /\ batch.serial /\ k < batch.next + 1 => batch.state[k] = "over"
                                    /\ ~batch.serial /\ batch.next + 1 <= size => batch.state[k] # "running"
    <3>1. batch.state[batch.next] # "new" /\ (batch.serial => batch.state[batch.next] = "over")
      BY <1>0, <2>2 DEF Reports
    <3>2. \A k \in 1 .. batch.calls : k < batch.next + 1 => k < batch.next \/ k = batch.next
      BY <1>1
    <3>3. \A k \in 1 .. batch.calls : k >= batch.next + 1 \/ k > batch.next + 1 => k > batch.next
      BY <1>1
    <3> QED
      BY <1>0, <2>2, <3>1, <3>2, <3>3 DEF Reports
  <2>5. size \in 1 .. batch.calls /\ batch.next + 1 \in 1 .. size + 1 /\ batch.calls <= MaxCalls
    BY <1>0, <1>1, <2>2, <2>3 DEF Reports
  <2>6. batch.next + 1 <= size \/ ~run.aborted \/ batch.truncated => size = batch.calls
    <3>1. batch.size = batch.calls
      BY <1>0, <2>2 DEF Reports
    <3> QED
      BY <1>1, <2>2, <2>3, <3>1
  <2>7. batch.serial => Len(batch.results) = batch.next
    BY <1>0, <2>2, <2>4 DEF Reports
  <2>8. ~batch.serial => batch.results = <<>>
    BY <1>0, <1>1, <2>2 DEF Reports
  <2>9. batch.serial => (IF batch.next + 1 <= size /\ batch.state[batch.next + 1] = "over"
                         THEN batch.next + 1 ELSE (batch.next + 1) - 1) = batch.next
    <3>1. CASE batch.next + 1 <= size
      <4>1. batch.next + 1 \in 1 .. batch.calls
        BY <1>1, <2>5, <3>1
      <4>2. batch.state[batch.next + 1] = "new"
        BY <1>0, <1>1, <4>1 DEF Reports
      <4> QED
        BY <1>1, <4>2
    <3>2. CASE ~(batch.next + 1 <= size)
      BY <1>1, <3>2
    <3> QED
      BY <3>1, <3>2
  <2>10. Len(batch.results) <= size /\ \A k \in DOMAIN batch.results : batch.results[k] = k
    BY <1>0, <1>1, <2>2, <2>3, <2>5, <2>7, <2>8 DEF Reports
  <2>11. DOMAIN batch.state = 1 .. batch.calls /\ DOMAIN batch.ends = 1 .. batch.calls /\ (batch.truncated => batch.serial)
    BY <1>0 DEF Reports
  <2> QED
    BY <2>1, <2>4, <2>5, <2>6, <2>7, <2>8, <2>9, <2>10, <2>11 DEF Reports
<1>5. CASE StartReady
  <2>1. /\ batch'.state = [i \in DOMAIN batch.state |-> IF i \notin ReadyCalls THEN batch.state[i]
                                                        ELSE IF Starts THEN "running" ELSE "over"]
        /\ batch'.ends = batch.ends /\ batch'.results = batch.results
        /\ batch'.calls = batch.calls /\ batch'.size = batch.size /\ batch'.serial = batch.serial
        /\ batch'.truncated = batch.truncated /\ batch'.next = batch.next
    BY <1>0, <1>5 DEF StartReady, BatchState
  <2>2. /\ DOMAIN batch'.state = 1 .. batch.calls
        /\ \A k \in 1 .. batch.calls : /\ batch.state[k] # "ready" => batch'.state[k] = batch.state[k]
                                       /\ batch.state[k] = "ready" => batch'.state[k] \in {"running", "over"}
    BY <1>0, <2>1 DEF Reports, ReadyCalls
  <2>3. PICK r \in 1 .. batch.calls : batch.state[r] = "ready"
    BY <1>0, <1>5 DEF StartReady, ReadyCalls, Reports
  <2>4. ~batch.serial /\ batch.results = <<>>
    <3>1. r < batch.next /\ r <= batch.size
      BY <1>0, <1>1, <1>5, <2>3 DEF StartReady, Prepared, Reports
    <3> QED
      BY <1>0, <1>1, <2>3, <3>1 DEF Reports
  <2>5. \A k \in 1 .. batch.calls : /\ k < batch.next => batch'.state[k] # "new"
                                    /\ k > batch.next => batch'.state[k] = "new"
                                    /\ k >= batch.next /\ batch.next > batch.size => batch'.state[k] = "new"
    BY <1>0, <2>2 DEF Reports
  <2>6. batch.next > batch.size
    BY <1>5 DEF StartReady, Prepared
  <2> QED
    BY <1>0, <1>1, <2>1, <2>2, <2>4, <2>5, <2>6 DEF Reports
<1>6. ASSUME NEW i \in 1 .. MaxCalls, EndCall(i) PROVE Reports(batch', run.aborted) /\ batch'.calls = batch.calls
  <2>1. PICK t \in BOOLEAN : batch' = Over(batch, i, t)
    BY <1>6 DEF EndCall
  <2>2. i \in DOMAIN batch.state /\ batch.state[i] = "running" /\ i \in 1 .. batch.calls
    BY <1>0, <1>6 DEF EndCall, Reports
  <2>3. ~(i > batch.next) /\ ~(i >= batch.next /\ batch.next > batch.size) /\ (batch.serial => ~(i < batch.next))
    BY <1>0, <2>2 DEF Reports
  <2>4. ~batch.serial => batch.next > batch.size
    BY <1>0, <1>1, <2>2 DEF Reports
  <2>5. batch.next <= batch.size + 1
    BY <1>0, <1>1 DEF Reports
  <2>6. /\ i <= batch.next /\ i <= batch.size /\ (i < batch.next \/ batch.next <= batch.size)
        /\ batch.serial => i = batch.next
    BY <1>1, <2>2, <2>3, <2>4, <2>5
  <2> QED
    BY <1>2, <2>1, <2>2, <2>6
<1>7. CASE ReportResult
  <2>1. PICK i \in 1 .. batch.size : MayReport(i) /\ batch' = [batch EXCEPT !.results = Append(@, i)]
    BY <1>7 DEF ReportResult
  <2>2. /\ batch'.state = batch.state /\ batch'.ends = batch.ends /\ batch'.results = Append(batch.results, i)
        /\ batch'.calls = batch.calls /\ batch'.size = batch.size /\ batch'.serial = batch.serial
        /\ batch'.truncated = batch.truncated /\ batch'.next = batch.next
    BY <1>0, <2>1 DEF BatchState
  <2>3. ~batch.serial /\ batch.next > batch.size /\ i = Len(batch.results) + 1
        /\ \A k \in 1 .. batch.size : batch.state[k] = "over"
    BY <1>7, <2>1 DEF ReportResult, Prepared, MayReport
  <2>4. i \in Nat /\ i <= batch.size
    BY <1>1
  <2>5. /\ Append(batch.results, i) \in Seq(Nat) /\ Len(Append(batch.results, i)) = Len(batch.results) + 1
        /\ \A k \in 1 .. Len(batch.results) : Append(batch.results, i)[k] = batch.results[k]
        /\ Append(batch.results, i)[Len(batch.results) + 1] = i
    BY <1>1, <2>4, AppendProperties
  <2>6. DOMAIN batch'.results = 1 .. Len(batch.results) + 1
    BY <2>2, <2>5, LenProperties
  <2>7. \A k \in DOMAIN batch'.results : batch'.results[k] = k
    <3>1. \A k \in 1 .. Len(batch.results) + 1 : k \in 1 .. Len(batch.results) \/ k = Len(batch.results) + 1
      BY <1>1
    <3>2. \A k \in 1 .. Len(batch.results) : batch.results[k] = k
      BY <1>0, <1>1 DEF Reports
    <3> QED
      BY <2>2, <2>3, <2>5, <2>6, <3>1, <3>2
  <2> QED
    BY <1>0, <2>2, <2>3, <2>4, <2>5, <2>7 DEF Reports
<1>8. CASE StartNext
  <2>1. /\ batch.next <= batch.size /\ batch.next \in 1 .. batch.calls /\ batch.serial
        /\ batch.state[batch.next] = "ready"
    BY <1>0, <1>1, <1>8 DEF StartNext, Prepared, Reports
  <2>2. /\ batch'.state = [batch.state EXCEPT ![batch.next] = "running"]
        /\ batch'.ends = batch.ends /\ batch'.results = batch.results
        /\ batch'.calls = batch.calls /\ batch'.size = batch.size /\ batch'.serial = batch.serial
        /\ batch'.truncated = batch.truncated /\ batch'.next = batch.next
    BY <1>0, <1>8 DEF StartNext, BatchState
  <2>3. /\ DOMAIN batch'.state = 1 .. batch.calls
        /\ \A k \in 1 .. batch.calls : batch'.state[k] = IF k = batch.next THEN "running" ELSE batch.state[k]
    BY <1>0, <2>1, <2>2 DEF Reports
  <2>4. \A k \in 1 .. batch.calls : /\ k < batch.next => batch'.state[k] = "over"
                                    /\ k > batch.next => batch'.state[k] = "new"
    BY <1>0, <1>1, <2>1, <2>3 DEF Reports
  <2>5. Len(batch.results) = batch.next - 1 /\ batch'.state[batch.next] = "running"
    BY <1>0, <2>1, <2>3 DEF Reports
  <2>6. \A k \in 1 .. batch.calls : /\ k < batch.next => batch'.state[k] # "new"
                                    /\ k > batch.next => batch'.state[k] = "new"
                                    /\ k >= batch.next /\ batch.next > batch.size => batch'.state[k] = "new"
                                    /\ batch.truncated => batch'.state[k] # "ready"
                                    /\ batch.serial /\ k < batch.next => batch'.state[k] = "over"
                                    /\ ~batch.serial /\ batch.next <= batch.size => batch'.state[k] # "running"
    <3>1. ASSUME NEW k \in 1 .. batch.calls
          PROVE  k < batch.next \/ k > batch.next \/ batch'.state[k] = "running"
      BY <1>1, <2>1, <2>5
    <3>2. ~(batch.next > batch.size)
      BY <1>1, <2>1
    <3> QED
      BY <2>1, <2>4, <3>1, <3>2
  <2>7. /\ batch.size \in 1 .. batch.calls /\ batch.next \in 1 .. batch.size + 1 /\ batch.calls <= MaxCalls
        /\ DOMAIN batch.ends = 1 .. batch.calls
        /\ batch.next <= batch.size \/ ~run.aborted \/ batch.truncated => batch.size = batch.calls
        /\ batch.truncated => batch.serial
        /\ Len(batch.results) <= batch.size /\ \A k \in DOMAIN batch.results : batch.results[k] = k
    BY <1>0 DEF Reports
  <2> QED
    BY <2>1, <2>2, <2>3, <2>5, <2>6, <2>7 DEF Reports
<1> QED
  BY <1>3, <1>4, <1>5, <1>6, <1>7, <1>8

LEMMA BatchedStep ==
  ASSUME Types, Locals, Batched, [Next]_vars
  PROVE  Batched'
<1>0. run \in RunState /\ batch \in BatchState
  BY DEF Types
<1>1. CASE \/ \E m \in Steers : Steer(m)
           \/ \E m \in FollowUps : FollowUp(m)
           \/ \E which \in SUBSET {"steer", "followUp"} : ClearQueues(which)
           \/ Reset
           \/ UNCHANGED vars
  <2>1. UNCHANGED <<run, batch>>
    BY <1>1 DEF Steer, FollowUp, ClearQueues, Reset, vars
  <2> QED
    BY <2>1 DEF Batched
<1>2. CASE Abort
  <2>1. run'.at = run.at /\ run'.aborted = TRUE /\ batch' = batch
    BY <1>0, <1>2 DEF Abort, RunState
  <2>2. Reports(batch, run.aborted) => Reports(batch, TRUE)
    BY DEF Reports
  <2> QED
    BY <2>1, <2>2 DEF Batched
<1>3. CASE Prompt \/ Continue
  <2>1. run'.at = "begin"
    BY <1>3 DEF Prompt, Continue, Start, NoRun
  <2> QED
    BY <2>1 DEF Batched
<1>4. CASE EmitPrompt \/ Inject \/ Push
  <2>1. run'.at \in {"begin", "inject", "push"}
    BY <1>0, <1>4 DEF EmitPrompt, Inject, Push, RunState
  <2> QED
    BY <2>1 DEF Batched
<1>5. CASE PollFirst \/ PrepareNextTurn \/ PollNext \/ PollFollowUps
  <2>1. run'.at \in {"inject", "turn", "followUp", "ending"}
    BY <1>0, <1>5 DEF PollFirst, PrepareNextTurn, PollNext, PollFollowUps, Poll, Polled, RunState
  <2> QED
    BY <2>1 DEF Batched
<1>6. CASE Respond
  <2>1. PICK n \in 0 .. MaxCalls :
           run'.at = "calls" => n # 0 /\ \E serial \in BOOLEAN, t \in BOOLEAN : batch' = NewBatch(n, serial, t)
    BY <1>6, RespondType
  <2>2. n \in Nat /\ n <= MaxCalls /\ MaxCalls \in Nat
    BY AgentAssumption
  <2>3. ASSUME run'.at = "calls", NEW serial \in BOOLEAN, NEW t \in BOOLEAN, batch' = NewBatch(n, serial, t)
        PROVE  Reports(batch', run'.aborted)
    <3>1. /\ batch'.calls = n /\ batch'.size = n /\ batch'.next = 1 /\ batch'.results = <<>>
          /\ batch'.serial = (serial \/ t) /\ batch'.truncated = t
          /\ batch'.state = [k \in 1 .. n |-> "new"] /\ batch'.ends = [k \in 1 .. n |-> FALSE]
      BY <2>3 DEF NewBatch, NoBatch
    <3>2. n \in 1 .. n /\ 1 \in 1 .. n + 1 /\ 1 <= n
      BY <2>1, <2>2, <2>3
    <3>3. \A k \in 1 .. n : ~(k < 1) /\ batch'.state[k] = "new"
      BY <3>1
    <3>4. Len(<<>>) = 0 /\ DOMAIN <<>> = {}
      OBVIOUS
    <3> QED
      BY <2>2, <3>1, <3>2, <3>3, <3>4 DEF Reports
  <2> QED
    BY <2>1, <2>3 DEF Batched
<1>7. CASE PrepareCall \/ StartNext \/ NextCall \/ StartReady \/ (\E i \in 1 .. MaxCalls : EndCall(i)) \/ ReportResult
  BY <1>7, CallsReport, CallsStep DEF Batched
<1>8. CASE CloseBatch \/ FinishTurn \/ FinishRun \/ Throw
  <2>1. run'.at \in {"finish", "stopped", "poll", "idle", "failed"}
    <3>1. CASE CloseBatch \/ FinishTurn
      BY <1>0, <3>1 DEF CloseBatch, FinishTurn, RunState
    <3>2. CASE FinishRun
      BY <3>2 DEF FinishRun, NoRun
    <3>3. CASE Throw
      BY <3>3 DEF Throw, NoRun
    <3> QED
      BY <1>8, <3>1, <3>2, <3>3
  <2> QED
    BY <2>1 DEF Batched
<1> QED
  BY <1>1, <1>2, <1>3, <1>4, <1>5, <1>6, <1>7, <1>8 DEF Next, Host, Turn, Calls, End

-----------------------------------------------------------------------------
(* The answers to a reply.                                                 *)

LEMMA MessageRoles ==
  /\ \A e \in Messages : e.role = "assistant" => e.calls \in Nat
  /\ \A m : User(m).role = "user"
  /\ \A i : Result(i).role = "toolResult"
  /\ \A n, stop : Assistant(n, stop).role = "assistant" /\ Assistant(n, stop).calls = n
BY DEF Messages, User, Result, Assistant

LEMMA AnsweredNew ==
  ASSUME NEW ms \in Seq(Messages), NEW stop \in {"stop", "length", "error", "aborted"}, NEW aborted \in BOOLEAN
  PROVE  Answered(Append(ms, Assistant(0, stop)), aborted)
<1> DEFINE r == Append(ms, Assistant(0, stop))
           L == Len(ms) + 1
<1>1. Assistant(0, stop) \in Messages
  BY MessageTypes
<1>2. r \in Seq(Messages) /\ Len(r) = L /\ r[L] = Assistant(0, stop) /\ L \in Nat /\ L > 0 /\ DOMAIN r = 1 .. Len(r)
  BY <1>1, AppendProperties, LenProperties
<1> HIDE DEF r, L
<1>3. L \in DOMAIN r /\ r[L].role = "assistant" /\ r[L].calls = 0
  BY <1>2, MessageRoles
<1>4. Answers(r, L, 0)
  BY <1>2 DEF Answers
<1>5. 0 \in 0 .. 0
  OBVIOUS
<1>6. Answered(r, aborted)
  BY <1>3, <1>4, <1>5 DEF Answered
<1> QED
  BY <1>6 DEF r

LEMMA AnsweredUser ==
  ASSUME NEW ms \in Seq(Messages), NEW aborted \in BOOLEAN, Answered(ms, aborted), NEW m \in Queued \cup {"prompt"}
  PROVE  Answered(Append(ms, User(m)), aborted)
<1> DEFINE r == Append(ms, User(m))
<1>1. PICK i \in DOMAIN ms : ms[i].role = "assistant" /\ \E n \in 0 .. ms[i].calls : Answers(ms, i, n) /\ (~aborted => n = ms[i].calls)
  BY DEF Answered
<1>2. PICK n \in 0 .. ms[i].calls : Answers(ms, i, n) /\ (~aborted => n = ms[i].calls)
  BY <1>1
<1>3. /\ r \in Seq(Messages) /\ Len(r) = Len(ms) + 1 /\ Len(ms) \in Nat
      /\ \A k \in 1 .. Len(ms) : r[k] = ms[k]
      /\ r[Len(ms) + 1] = User(m) /\ DOMAIN ms = 1 .. Len(ms) /\ DOMAIN r = 1 .. Len(ms) + 1
  <2>1. User(m) \in Messages
    BY MessageTypes
  <2> QED
    BY <2>1, AppendProperties, LenProperties
<1> HIDE DEF r
<1>4. ms[i].calls \in Nat
  <2>1. ms[i] \in Messages
    OBVIOUS
  <2> QED
    BY <1>1, <2>1, MessageRoles
<1>5. i \in Nat /\ i > 0 /\ n \in Nat /\ i \in DOMAIN r /\ r[i] = ms[i]
  BY <1>3, <1>4
<1>6. Answers(r, i, n)
  <2>1. i + n <= Len(ms)
    BY <1>2 DEF Answers
  <2>2. ASSUME NEW k \in i + 1 .. i + n PROVE r[k] = Result(k - i)
    <3>1. k \in 1 .. Len(ms)
      BY <1>3, <1>5, <2>1
    <3> QED
      BY <1>2, <1>3, <3>1 DEF Answers
  <2>3. ASSUME NEW k \in i + n + 1 .. Len(ms) + 1 PROVE r[k].role = "user"
    <3>1. CASE k = Len(ms) + 1
      BY <1>3, <3>1, MessageRoles
    <3>2. CASE k # Len(ms) + 1
      <4>1. k \in i + n + 1 .. Len(ms) /\ k \in 1 .. Len(ms)
        BY <1>3, <1>5, <3>2
      <4> QED
        BY <1>2, <1>3, <4>1 DEF Answers
    <3> QED
      BY <3>1, <3>2
  <2> QED
    BY <1>3, <1>5, <2>1, <2>2, <2>3 DEF Answers
<1>7. Answered(r, aborted)
  BY <1>1, <1>2, <1>5, <1>6 DEF Answered
<1> QED
  BY <1>7 DEF r

LEMMA AnsweredCalls ==
  ASSUME NEW ms \in Seq(Messages), ms # <<>>, ms[Len(ms)].role = "assistant", NEW q \in Seq(Nat),
         \A k \in DOMAIN q : q[k] = k, Len(q) <= ms[Len(ms)].calls,
         NEW aborted \in BOOLEAN, ~aborted => Len(q) = ms[Len(ms)].calls
  PROVE  Answered(ms \o Results(q), aborted)
<1> DEFINE r == ms \o Results(q)
           L == Len(ms)
           n == Len(q)
<1>1. /\ Results(q) \in Seq(Messages) /\ Len(Results(q)) = n
      /\ \A i \in 1 .. n : Results(q)[i] = Result(i)
      /\ n \in Nat /\ L \in Nat /\ L > 0
  <2>1. Len(q) \in Nat /\ DOMAIN q = 1 .. Len(q) /\ Len(ms) \in Nat /\ Len(ms) > 0
    BY LenProperties, EmptySeq
  <2> QED
    BY <2>1, ResultsSeq
<1>2. /\ r \in Seq(Messages) /\ Len(r) = L + n /\ DOMAIN r = 1 .. L + n
      /\ \A k \in 1 .. L + n : r[k] = IF k <= L THEN ms[k] ELSE Results(q)[k - L]
  <2>1. /\ ms \o Results(q) \in Seq(Messages) /\ Len(ms \o Results(q)) = Len(ms) + Len(Results(q))
        /\ \A k \in 1 .. Len(ms) + Len(Results(q)) :
              (ms \o Results(q))[k] = IF k <= Len(ms) THEN ms[k] ELSE Results(q)[k - Len(ms)]
    BY <1>1, ConcatProperties
  <2>2. DOMAIN (ms \o Results(q)) = 1 .. Len(ms \o Results(q))
    BY <2>1, LenProperties
  <2> QED
    BY <1>1, <2>1, <2>2
<1>3. ms[L].calls \in Nat
  <2>1. ms[L] \in Messages
    BY <1>1
  <2> QED
    BY <2>1, MessageRoles
<1>4. n \in 0 .. ms[L].calls
  BY <1>1, <1>3
<1>5. ms[L].role = "assistant" /\ (~aborted => n = ms[L].calls)
  OBVIOUS
<1> HIDE DEF r, L, n
<1>6. L \in DOMAIN r /\ r[L] = ms[L]
  BY <1>1, <1>2
<1>7. Answers(r, L, n)
  <2>1. ASSUME NEW k \in L + 1 .. L + n PROVE r[k] = Result(k - L)
    <3>1. k \in 1 .. L + n /\ ~(k <= L) /\ k - L \in 1 .. n
      BY <1>1
    <3> QED
      BY <1>1, <1>2, <3>1
  <2>2. \A k \in L + n + 1 .. L + n : FALSE
    BY <1>1
  <2> QED
    BY <1>1, <1>2, <2>1, <2>2 DEF Answers
<1>8. Answered(r, aborted)
  BY <1>4, <1>5, <1>6, <1>7 DEF Answered
<1> QED
  BY <1>8 DEF r

LEMMA RepliedStep ==
  ASSUME Types, Types', Locals, Batched, Replied, [Next]_vars
  PROVE  Replied'
<1>0. /\ run \in RunState /\ batch \in BatchState /\ context \in Seq(Messages)
      /\ run.aborted \in BOOLEAN /\ run.pending \in Seq(Queued)
  BY DEF Types, RunState
<1>1. CASE \/ \E m \in Steers : Steer(m)
           \/ \E m \in FollowUps : FollowUp(m)
           \/ \E which \in SUBSET {"steer", "followUp"} : ClearQueues(which)
           \/ Reset
           \/ UNCHANGED vars
  <2>1. UNCHANGED <<run, batch, context>>
    BY <1>1 DEF Steer, FollowUp, ClearQueues, Reset, vars
  <2> QED
    BY <2>1 DEF Replied
<1>2. CASE Abort
  <2>1. run'.at = run.at /\ run'.aborted = TRUE /\ run'.turned = run.turned /\ UNCHANGED <<batch, context>>
    BY <1>0, <1>2 DEF Abort, RunState
  <2>2. Answered(context, run.aborted) => Answered(context, TRUE)
    BY DEF Answered
  <2> QED
    BY <2>1, <2>2 DEF Replied
<1>3. CASE Prompt \/ Continue
  <2>1. run'.at = "begin" /\ ~run'.turned
    BY <1>3 DEF Prompt, Continue, Start, NoRun
  <2> QED
    BY <2>1 DEF Replied
<1>4. CASE EmitPrompt
  <2>1. run.at = "begin" /\ run'.at = "begin" /\ run'.turned = run.turned
    BY <1>0, <1>4 DEF EmitPrompt, RunState
  <2> QED
    BY <2>1 DEF Replied
<1>5. CASE PollFirst
  <2>1. run.at = "begin" /\ run'.at = "inject" /\ run'.turned = run.turned
    BY <1>0, <1>5 DEF PollFirst, Poll, Polled, RunState
  <2> QED
    BY <2>1 DEF Replied
<1>6. CASE PrepareNextTurn
  <2>1. run.at = "turn" /\ run'.at = "inject" /\ run'.turned = run.turned /\ run'.aborted = run.aborted
        /\ context' = context
    BY <1>0, <1>6 DEF PrepareNextTurn, Poll, Polled, RunState
  <2> QED
    BY <2>1 DEF Replied
<1>7. CASE Inject
  <2>1. run.at = "inject" /\ run'.at = "push" /\ run'.turned = run.turned /\ run'.aborted = run.aborted
        /\ context' = context
    BY <1>0, <1>7 DEF Inject, RunState
  <2> QED
    BY <2>1 DEF Replied
<1>8. CASE Push
  <2>1. /\ run.at = "push" /\ run'.at = "inject" /\ run'.turned = run.turned /\ run'.aborted = run.aborted
        /\ context' = Append(context, User(Head(run.pending))) /\ run.pending # <<>>
    BY <1>0, <1>8 DEF Push, RunState, Locals
  <2>2. Head(run.pending) \in Queued \cup {"prompt"}
    BY <1>0, <2>1
  <2>3. run.turned => Answered(context', run.aborted)
    <3>1. ASSUME run.turned PROVE Answered(context', run.aborted)
      <4>1. Answered(context, run.aborted)
        BY <2>1, <3>1 DEF Replied
      <4> QED
        BY <1>0, <2>1, <2>2, <4>1, AnsweredUser
    <3> QED
      BY <3>1
  <2> QED
    BY <2>1, <2>3 DEF Replied
<1>9. CASE Respond
  <2>1. PICK n \in 0 .. MaxCalls, stop \in {"stop", "length", "error", "aborted"} :
           /\ context' = Append(context, Assistant(n, stop))
           /\ \/ run'.at \in {"stopped", "finish"} /\ n = 0
              \/ run'.at = "calls" /\ \E serial \in BOOLEAN, t \in BOOLEAN : batch' = NewBatch(n, serial, t)
           /\ run'.aborted = run.aborted
    <3>1. PICK n \in 0 .. MaxCalls, stop \in {"stop", "length", "error", "aborted"} :
             /\ context' = Append(context, Assistant(n, stop))
             /\ \/ run'.at = "stopped" /\ n = 0 /\ batch' = NoBatch
                \/ run'.at = "finish" /\ n = 0 /\ batch' = NoBatch
                \/ run'.at = "calls" /\ n # 0 /\ \E serial \in BOOLEAN, t \in BOOLEAN : batch' = NewBatch(n, serial, t)
             /\ run' = [run EXCEPT !.more = n > 0, !.turned = TRUE, !.at = run'.at]
      BY <1>9, RespondType
    <3>2. run'.aborted = run.aborted
      BY <1>0, <3>1 DEF RunState
    <3> QED
      BY <3>1, <3>2
  <2>2. CASE run'.at \in {"stopped", "finish"} /\ n = 0
    <3>1. Answered(context', run'.aborted)
      BY <1>0, <2>1, <2>2, AnsweredNew
    <3> QED
      BY <2>2, <3>1 DEF Replied
  <2>3. CASE run'.at = "calls" /\ \E serial \in BOOLEAN, t \in BOOLEAN : batch' = NewBatch(n, serial, t)
    <3>1. batch'.calls = n /\ n \in Nat
      BY <2>3, AgentAssumption DEF NewBatch, NoBatch
    <3>2. Assistant(n, stop) \in Messages
      BY <3>1, MessageTypes
    <3>3. context' \in Seq(Messages) /\ context' # <<>> /\ context'[Len(context')] = Assistant(n, stop)
      BY <1>0, <2>1, <3>2, AppendProperties
    <3> QED
      BY <2>3, <3>1, <3>3, MessageRoles DEF Replied
  <2> QED
    BY <2>1, <2>2, <2>3
<1>10. CASE PrepareCall \/ StartNext \/ NextCall \/ StartReady \/ (\E i \in 1 .. MaxCalls : EndCall(i)) \/ ReportResult
  <2>1. run.at = "calls" /\ run' = run /\ context' = context /\ batch'.calls = batch.calls
    BY <1>10, CallsReport, CallsStep
  <2> QED
    BY <2>1 DEF Replied
<1>11. CASE CloseBatch
  <2>1. /\ run.at = "calls" /\ run'.at = "finish" /\ run'.aborted = run.aborted
        /\ context' = context \o Results(batch.results) /\ batch.next > batch.size /\ Len(batch.results) = batch.size
    BY <1>0, <1>11 DEF CloseBatch, Prepared, RunState
  <2>2. /\ context # <<>> /\ context[Len(context)].role = "assistant" /\ context[Len(context)].calls = batch.calls
    BY <2>1 DEF Replied
  <2>3. /\ batch.size \in 1 .. batch.calls /\ \A k \in DOMAIN batch.results : batch.results[k] = k
        /\ ~run.aborted => batch.size = batch.calls
    BY <2>1 DEF Batched, Reports
  <2>4. batch.results \in Seq(Nat) /\ batch.calls \in Nat /\ batch.size \in Nat
    BY <1>0 DEF BatchState
  <2>5. Len(batch.results) <= batch.calls
    BY <2>1, <2>3, <2>4
  <2>6. Answered(context', run.aborted)
    BY <1>0, <2>1, <2>2, <2>3, <2>4, <2>5, AnsweredCalls
  <2> QED
    BY <2>1, <2>6 DEF Replied
<1>12. CASE FinishTurn
  <2>1. run.at = "finish" /\ run'.at \in {"stopped", "poll"} /\ run'.aborted = run.aborted /\ context' = context
    BY <1>0, <1>12 DEF FinishTurn, RunState
  <2> QED
    BY <2>1 DEF Replied
<1>13. CASE PollNext \/ PollFollowUps
  <2>1. run.at \in {"poll", "followUp"} /\ run'.at \in {"turn", "followUp", "ending"} /\ run'.aborted = run.aborted
        /\ context' = context
    BY <1>0, <1>13 DEF PollNext, PollFollowUps, Poll, Polled, RunState
  <2> QED
    BY <2>1 DEF Replied
<1>14. CASE FinishRun \/ Throw
  <2>1. run'.at \in {"idle", "failed"}
    <3>1. CASE FinishRun
      BY <3>1 DEF FinishRun, NoRun
    <3>2. CASE Throw
      BY <3>2 DEF Throw, NoRun
    <3> QED
      BY <1>14, <3>1, <3>2
  <2> QED
    BY <2>1 DEF Replied
<1> QED
  BY <1>1, <1>2, <1>3, <1>4, <1>5, <1>6, <1>7, <1>8, <1>9, <1>10, <1>11, <1>12, <1>13, <1>14
     DEF Next, Host, Turn, Calls, End

-----------------------------------------------------------------------------
(* The theorems.                                                           *)

LEMMA InvInit == Init => Inv
<1> SUFFICES ASSUME Init PROVE Inv
  OBVIOUS
<1>1. /\ mode \in QueueModes /\ steering = <<>> /\ followUps = <<>> /\ messages = <<>> /\ context = <<>>
      /\ run = NoRun /\ batch = NoBatch /\ fate = [m \in Queued |-> "unsent"]
      /\ used = [requests |-> 0, faults |-> 0]
  BY DEF Init, Queued
<1>2. NoRun.at = "idle" /\ NoRun.prompts = <<>> /\ NoRun.pending = <<>>
  BY DEF NoRun
<1>3. Types
  <2>1. <<>> \in Seq(Steers) /\ <<>> \in Seq(FollowUps) /\ <<>> \in Seq(Messages)
    OBVIOUS
  <2>2. fate \in [Queued -> {"unsent", "sent", "dropped"}] /\ used \in [requests : Nat, faults : Nat]
    BY <1>1
  <2> QED
    BY <1>1, <2>1, <2>2, NoTypes DEF Types
<1>4. Locals /\ Follows /\ Batched /\ Replied
  BY <1>1, <1>2 DEF Locals, Follows, Batched, Replied
<1>5. OneSteered
  BY <1>1, <1>2, SteeredNone DEF OneSteered
<1>6. Conserved
  <2>1. ASSUME NEW m \in Queued
        PROVE  Occurrences(m, steering) + Occurrences(m, followUps) + Occurrences(m, InRun) + Shown(m)
                 = IF fate[m] = "sent" THEN 1 ELSE 0
    <3>1. InRun = <<>>
      BY <1>1, <1>2 DEF InRun
    <3>2. Shown(m) = 0
      <4>1. {i \in DOMAIN messages : messages[i] = User(m)} = {}
        BY <1>1
      <4> QED
        BY <4>1, FS_EmptySet DEF Shown
    <3>3. fate[m] = "unsent"
      BY <1>1
    <3> QED
      BY <1>1, <3>1, <3>2, <3>3, OccursEmpty
  <2> QED
    BY <2>1 DEF Conserved, Queued
<1> QED
  BY <1>3, <1>4, <1>5, <1>6 DEF Inv

LEMMA InvNext == Inv /\ [Next]_vars => Inv'
<1> SUFFICES ASSUME Inv, [Next]_vars PROVE Inv'
  OBVIOUS
<1>1. Types /\ Locals /\ Follows /\ Conserved /\ OneSteered /\ Batched /\ Replied
  BY DEF Inv
<1>2. Types'
  BY <1>1, TypesStep
<1>3. Locals' /\ Follows'
  BY <1>1, FollowsStep
<1>4. Conserved'
  BY <1>1, <1>2, <1>3, ConservedStep
<1>5. OneSteered'
  BY <1>1, <1>2, SteeredStep
<1>6. Batched'
  BY <1>1, BatchedStep
<1>7. Replied'
  BY <1>1, <1>2, RepliedStep
<1> QED
  BY <1>2, <1>3, <1>4, <1>5, <1>6, <1>7 DEF Inv

\* Where every message, the context and the calls stand at each await of the loop.
THEOREM LoopInvariant == Spec => []Inv
BY InvInit, InvNext, PTL DEF Spec

LEMMA DeliveryHolds == Inv => Delivery
<1> SUFFICES ASSUME Inv PROVE Delivery
  OBVIOUS
<1>0. Types /\ Locals /\ Follows /\ Conserved /\ OneSteered /\ Batched
  BY DEF Inv
<1>1. TypeOK
  <2>1. batch.size \in 0 .. MaxCalls /\ Len(batch.results) <= batch.size
    <3>1. CASE run.at = "calls"
      <4>1. /\ batch.size \in 1 .. batch.calls /\ batch.calls <= MaxCalls /\ Len(batch.results) <= batch.size
        BY <1>0, <3>1 DEF Batched, Reports
      <4>2. batch.calls \in Nat /\ MaxCalls \in Nat
        BY <1>0, AgentAssumption DEF Types, BatchState
      <4> QED
        BY <4>1, <4>2
    <3>2. CASE run.at # "calls"
      <4>1. batch.size = 0 /\ batch.results = <<>>
        BY <1>0, <3>2 DEF Locals, NoBatch
      <4> QED
        BY <4>1, AgentAssumption
    <3> QED
      BY <3>1, <3>2
  <2>2. run.at \in Waits /\ fate \in [Queued -> {"unsent", "sent", "dropped"}]
    BY <1>0 DEF Types, RunState
  <2>3. mode \in QueueModes /\ steering \in Seq(Steers) /\ followUps \in Seq(FollowUps)
        /\ (run.at # "calls" => batch = NoBatch)
    BY <1>0 DEF Types, Locals
  <2> QED
    BY <2>1, <2>2, <2>3 DEF TypeOK, Waits, Queued
<1>2. OneAtATime
  <2> SUFFICES ASSUME Requesting, mode.steer = "one-at-a-time"
               PROVE  Cardinality(Steered(context)) <= 1
    BY DEF OneAtATime
  <2>1. \A a, b \in Steered(context) : a = b
    BY <1>0 DEF Requesting, OneSteered, AtMostOne
  <2>2. CASE Steered(context) = {}
    BY <2>2, FS_EmptySet
  <2>3. CASE Steered(context) # {}
    <3>1. PICK m : Steered(context) = {m}
      BY <2>1, <2>3
    <3>2. Cardinality(Steered(context)) = 1
      BY <3>1, FS_Singleton, Zenon
    <3> QED
      BY <3>2
  <2> QED
    BY <2>2, <2>3
<1>3. NothingLeftBehind /\ ContextIsTranscript
  BY <1>0 DEF NothingLeftBehind, ContextIsTranscript, Requesting, Locals, Follows
<1> QED
  BY <1>0, <1>1, <1>2, <1>3 DEF Delivery

\* No steering or follow-up message is lost, repeated, or shown to the model other than the
\* transcript shows it, and one-at-a-time steering adds one a turn (steer, followUp,
\* getSteeringMessages, prepareNextTurn), wherever hosts steer, clear or abort.
THEOREM Delivered == Spec => []Delivery
BY LoopInvariant, DeliveryHolds, PTL

LEMMA AnswersHold == Inv => AnsweredInOrder
<1> SUFFICES ASSUME Inv, Requesting, run.turned
             PROVE  LET i == LastAssistant(context)
                    IN \E n \in 0 .. context[i].calls :
                          Answers(context, i, n) /\ (~run.aborted => n = context[i].calls)
  BY DEF AnsweredInOrder
<1>1. context \in Seq(Messages) /\ Answered(context, run.aborted)
  BY DEF Inv, Types, Replied, Requesting
<1>2. PICK i \in DOMAIN context :
        /\ context[i].role = "assistant"
        /\ \E n \in 0 .. context[i].calls : Answers(context, i, n) /\ (~run.aborted => n = context[i].calls)
  BY <1>1 DEF Answered
<1>3. PICK n \in 0 .. context[i].calls : Answers(context, i, n)
  BY <1>2
<1>4. /\ DOMAIN context = 1 .. Len(context) /\ Len(context) \in Nat /\ i \in 1 .. Len(context) /\ n \in Nat
  <2>1. context[i].calls \in Nat
    BY <1>1, <1>2, MessageRoles
  <2> QED
    BY <1>1, <2>1, LenProperties
<1>5. \A k \in i + 1 .. Len(context) : context[k].role # "assistant"
  <2> TAKE k \in i + 1 .. Len(context)
  <2>1. k \in i + 1 .. i + n \/ k \in i + n + 1 .. Len(context)
    BY <1>4
  <2> QED
    BY <1>3, <2>1, MessageRoles DEF Answers
<1>6. ASSUME NEW j \in DOMAIN context, context[j].role = "assistant",
             \A k \in j + 1 .. Len(context) : context[k].role # "assistant"
      PROVE  j = i
  BY <1>2, <1>4, <1>5, <1>6
<1>7. LastAssistant(context) = i
  BY <1>2, <1>5, <1>6 DEF LastAssistant
<1> QED
  BY <1>2, <1>7

\* The model is asked again only with the results of its last reply right after it, in the
\* order of its calls, all of them unless the run is aborted (executeToolCallsParallel).
THEOREM RepliesAnswered == Spec => []AnsweredInOrder
BY LoopInvariant, AnswersHold, PTL

\* A call started late is the serial batch's last: it is still the batch's turn, or an
\* abort has cut the batch right after it.
HeldBack ==
    \A i \in batch.late :
        /\ run.aborted /\ batch.serial /\ ~batch.truncated
        /\ batch.late = {i} /\ i \in 1 .. batch.calls
        /\ \/ batch.next = i /\ batch.state[i] \in {"running", "over"}
           \/ batch.next = i + 1 /\ batch.size = i

LEMMA HeldBackInit == Init => HeldBack
BY DEF Init, NoBatch, HeldBack

\* The steps on the calls: only StartNext adds a call, and only while none is in.
LEMMA HeldBackCalls ==
  ASSUME Types, Batched, HeldBack,
         PrepareCall \/ StartNext \/ NextCall \/ StartReady \/ (\E i \in 1 .. MaxCalls : EndCall(i)) \/ ReportResult
  PROVE  HeldBack'
<1>0. batch \in BatchState /\ run.at = "calls" /\ Reports(batch, run.aborted) /\ run' = run
  BY CallsReport DEF Types, Batched
<1>1. /\ batch.calls \in Nat /\ batch.size \in Nat /\ batch.next \in Nat
      /\ DOMAIN batch.state = 1 .. batch.calls /\ DOMAIN batch.ends = DOMAIN batch.state
      /\ \A i \in batch.late : i \in Nat
  BY <1>0 DEF BatchState, Reports
<1>2. ASSUME NEW i \in DOMAIN batch.state, NEW t \in BOOLEAN, batch' = Over(batch, i, t)
      PROVE  HeldBack'
  <2>1. /\ batch'.state = [batch.state EXCEPT ![i] = "over"] /\ batch'.late = batch.late
        /\ batch'.calls = batch.calls /\ batch'.size = batch.size /\ batch'.serial = batch.serial /\ batch'.truncated = batch.truncated
        /\ batch'.next = batch.next
    BY <1>0, <1>1, <1>2, OverType
  <2>2. \A k \in 1 .. batch.calls : batch.state[k] \in {"running", "over"} => batch'.state[k] \in {"running", "over"}
    BY <1>1, <2>1
  <2> QED
    BY <1>0, <2>1, <2>2 DEF HeldBack
<1>3. CASE PrepareCall
  <2>1. batch.next \in DOMAIN batch.state /\ batch.state[batch.next] = "new"
    BY <1>0, <1>1, <1>3 DEF PrepareCall, Prepared, Reports
  <2>2. CASE \E t \in BOOLEAN : batch' = Over(batch, batch.next, t)
    BY <1>2, <2>1, <2>2
  <2>3. CASE batch' = [batch EXCEPT !.state[batch.next] = "ready"]
    <3>1. /\ batch'.state = [batch.state EXCEPT ![batch.next] = "ready"] /\ batch'.late = batch.late
          /\ batch'.calls = batch.calls /\ batch'.size = batch.size /\ batch'.serial = batch.serial /\ batch'.truncated = batch.truncated
          /\ batch'.next = batch.next
      BY <1>0, <2>3 DEF BatchState
    <3>2. \A k \in 1 .. batch.calls : batch.state[k] \in {"running", "over"} => batch'.state[k] \in {"running", "over"}
      BY <1>1, <2>1, <3>1
    <3> QED
      BY <1>0, <3>1, <3>2 DEF HeldBack
  <2> QED
    BY <1>3, <2>2, <2>3 DEF PrepareCall
<1>4. CASE StartNext
  <2>1. /\ batch.next <= batch.size /\ batch.next \in 1 .. batch.calls /\ batch.serial
        /\ ~batch.truncated /\ batch.state[batch.next] = "ready"
    BY <1>0, <1>1, <1>4 DEF StartNext, Prepared, Reports
  <2>2. batch.late = {}
    BY <1>1, <2>1 DEF HeldBack
  <2>3. /\ batch'.state = [batch.state EXCEPT ![batch.next] = "running"]
        /\ batch'.late = IF run.aborted THEN {batch.next} ELSE {}
        /\ batch'.calls = batch.calls /\ batch'.size = batch.size /\ batch'.serial = batch.serial /\ batch'.truncated = batch.truncated
        /\ batch'.next = batch.next
    BY <1>0, <1>4, <2>2 DEF StartNext, BatchState, Late
  <2>4. batch'.state[batch.next] = "running"
    BY <1>1, <2>1, <2>3
  <2> QED
    BY <1>0, <2>1, <2>3, <2>4 DEF HeldBack
<1>5. CASE NextCall
  <2>1. /\ batch'.state = batch.state /\ batch'.late = batch.late /\ batch'.calls = batch.calls
        /\ batch'.serial = batch.serial /\ batch'.truncated = batch.truncated /\ batch'.next = batch.next + 1
        /\ batch'.size = IF run.aborted /\ ~batch.truncated THEN batch.next ELSE batch.size
        /\ batch.next <= batch.size
    BY <1>0, <1>1, <1>5 DEF NextCall, Prepared, BatchState
  <2>2. ASSUME NEW i \in batch.late PROVE batch.next = i /\ run.aborted
    BY <1>1, <2>1, <2>2 DEF HeldBack
  <2>3. batch.late # {} => ~batch.truncated
    BY <2>2 DEF HeldBack
  <2> QED
    BY <1>0, <1>1, <2>1, <2>2, <2>3 DEF HeldBack
<1>6. CASE StartReady
  <2>1. PICK r \in 1 .. batch.calls : batch.state[r] = "ready"
    BY <1>1, <1>6 DEF StartReady, ReadyCalls
  <2>2. ~batch.serial
    <3>1. r < batch.next
      BY <1>0, <1>1, <1>6, <2>1 DEF StartReady, Prepared, Reports
    <3> QED
      BY <1>0, <2>1, <3>1 DEF Reports
  <2>3. batch.late = {} /\ Late(IF Starts THEN ReadyCalls ELSE {}) = {}
    BY <2>2 DEF HeldBack, Late, Starts
  <2>4. batch'.late = {}
    BY <1>0, <1>6, <2>3 DEF StartReady, BatchState
  <2> QED
    BY <2>4 DEF HeldBack
<1>7. ASSUME NEW i \in 1 .. MaxCalls, EndCall(i) PROVE HeldBack'
  BY <1>2, <1>7 DEF EndCall
<1>8. CASE ReportResult
  <2>1. /\ batch'.state = batch.state /\ batch'.late = batch.late /\ batch'.calls = batch.calls
        /\ batch'.serial = batch.serial /\ batch'.truncated = batch.truncated /\ batch'.next = batch.next /\ batch'.size = batch.size
    BY <1>0, <1>8 DEF ReportResult, BatchState
  <2> QED
    BY <1>0, <2>1 DEF HeldBack
<1> QED
  BY <1>3, <1>4, <1>5, <1>6, <1>7, <1>8

LEMMA HeldBackStep ==
  ASSUME Types, Locals, Batched, HeldBack, [Next]_vars
  PROVE  HeldBack'
<1>0. batch \in BatchState /\ run \in RunState
  BY DEF Types
<1>1. CASE PrepareCall \/ StartNext \/ NextCall \/ StartReady \/ (\E i \in 1 .. MaxCalls : EndCall(i)) \/ ReportResult
  BY <1>1, HeldBackCalls
<1>2. CASE CloseBatch \/ Throw
  BY <1>2 DEF CloseBatch, Throw, NoBatch, HeldBack
<1>3. CASE Respond
  <2>1. PICK n \in 0 .. MaxCalls :
           batch' = NoBatch \/ \E serial \in BOOLEAN, t \in BOOLEAN : batch' = NewBatch(n, serial, t)
    BY <1>3, RespondType
  <2> QED
    <3>1. NoBatch.late = {} /\ \A serial, t \in BOOLEAN : NewBatch(n, serial, t).late = {}
      BY DEF NewBatch, NoBatch
    <3>2. batch'.late = {}
      BY <2>1, <3>1
    <3> QED
      BY <3>2 DEF HeldBack
<1>4. CASE \/ Host \/ End \/ UNCHANGED vars
           \/ EmitPrompt \/ PollFirst \/ PrepareNextTurn \/ Inject \/ Push
  <2>1. batch' = batch
    BY <1>4 DEF Host, End, vars, Steer, FollowUp, ClearQueues, Abort, Reset, Prompt, Continue, Start, EmitPrompt, PollFirst,
                PrepareNextTurn, Poll, Inject, Push, FinishTurn, PollNext, PollFollowUps, FinishRun
  <2>2. CASE run.at # "calls"
    BY <2>1, <2>2 DEF Locals, NoBatch, HeldBack
  <2>3. CASE run.at = "calls"
    <3>1. run'.aborted = run.aborted \/ run'.aborted = TRUE
      BY <1>0, <1>4, <2>3 DEF Host, End, vars, Steer, FollowUp, ClearQueues, Abort, Reset, Prompt, Continue, Start, Idle,
           EmitPrompt, PollFirst, PrepareNextTurn, Inject, Requesting, Push, FinishTurn, PollNext, PollFollowUps,
           FinishRun, RunState
    <3> QED
      BY <2>1, <3>1 DEF HeldBack
  <2> QED
    BY <2>2, <2>3
<1> QED
  BY <1>1, <1>2, <1>3, <1>4 DEF Next, Turn, Calls

\* After an abort a parallel batch starts none of the calls handed over before it, and a
\* serial one at most the call whose preparation had passed its check, as its last
\* (prepareToolCall, executeToolCallsSequential, executeToolCallsParallel).
THEOREM AbortHolds == Spec => []AbortHoldsBack
<1>1. Spec => []HeldBack
  <2>1. Inv /\ HeldBack /\ [Next]_vars => HeldBack'
    BY HeldBackStep DEF Inv
  <2> QED
    BY <2>1, HeldBackInit, LoopInvariant, PTL DEF Spec
<1>2. Inv /\ HeldBack => AbortHoldsBack
  <2> SUFFICES ASSUME Inv, HeldBack, NEW i \in batch.late
               PROVE  /\ batch.serial /\ batch.late = {i}
                      /\ \A k \in DOMAIN batch.state : k > i => batch.state[k] = "new"
    BY DEF AbortHoldsBack
  <2>1. run.at = "calls"
    BY DEF Inv, Locals, NoBatch
  <2>2. Reports(batch, run.aborted) /\ batch \in BatchState
    BY <2>1 DEF Inv, Types, Batched
  <2>3. /\ batch.next \in Nat /\ batch.size \in Nat /\ batch.calls \in Nat /\ i \in Nat
        /\ batch.next = i \/ (batch.next = i + 1 /\ batch.size = i)
    BY <2>2 DEF BatchState, HeldBack
  <2>4. ASSUME NEW k \in DOMAIN batch.state, k > i PROVE batch.state[k] = "new"
    BY <2>2, <2>3, <2>4 DEF Reports
  <2> QED
    BY <2>4 DEF HeldBack
<1> QED
  BY <1>1, <1>2, LoopInvariant, PTL
=============================================================================
