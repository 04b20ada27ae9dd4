-------------------------- MODULE SessionLineProofs --------------------------
(***************************************************************************)
(* What the mutation line promises, for any number of jobs and readers:    *)
(* the line runs one job at a time, so a commit changes the document as    *)
(* the Storage holds it; a failure stops the line and nobody is told       *)
(* otherwise; and a close comes after what was admitted before it.  Its    *)
(* readers see what was promised to them, and the document cache is right. *)
(***************************************************************************)
EXTENDS SessionLine, FiniteSetTheorems, TLAPS

DocType   == [inc : Nat, ver : Nat, live : BOOLEAN]
WatchType == [state : {"none", "live", "stopped", "closed", "failed"}, inc : Nat, last : DocType]
CacheType == [docs : SUBSET DocType, idle : BOOLEAN, pins : SUBSET (Jobs \X Nat)]
Active    == {"reading", "early", "ready", "backend", "durable"}
OnLine    == Active \cup {"queued"}
OffLine   == {"idle", "awaiting", "done"}

Types ==
    /\ line \in Seq(Jobs \cup {Close})
    /\ pc \in [Jobs -> OnLine \cup OffLine]
    /\ kind \in [Jobs -> {"commit", "snapshot", "watch", "unload", "close"}]
    /\ change \in [Jobs -> Changes]
    /\ base \in [Jobs -> DocType]
    /\ caught \in SUBSET Jobs
    /\ outcome \in [Jobs -> {"none", "ok", "refused", "threw", "failed", "closed"}]
    /\ failed \in BOOLEAN
    /\ closing \in {"open", "sealed", "queued", "closing", "closed"}
    /\ doc \in DocType
    /\ log \in Seq(Jobs)
    /\ mem \in CacheType
    /\ watch \in [Jobs -> WatchType]

\* Each job is on the line once, and only the first has begun.
OneAtATime ==
    /\ \A i, k \in DOMAIN line : line[i] = line[k] => i = k
    /\ \A i \in DOMAIN line : line[i] \in Jobs => pc[line[i]] \in OnLine
    /\ \A j \in Jobs : pc[j] \in OnLine => \E i \in DOMAIN line : line[i] = j
    /\ \A i \in DOMAIN line : i # 1 /\ line[i] \in Jobs => pc[line[i]] = "queued"

\* The close job is on the line once queued, and only unloads come behind it.
CloseLast ==
    /\ closing \notin {"queued", "closing"} => \A i \in DOMAIN line : line[i] # Close
    /\ closing = "closing" => line # <<>> /\ line[1] = Close
    /\ \A i, k \in DOMAIN line : i < k /\ line[i] = Close => kind[line[k]] = "unload"
    /\ closing = "closed" => \A i \in DOMAIN line : kind[line[i]] = "unload"

\* A tracker is what the Storage holds, but between a commit of the document and its adoption.
Settled == \A j \in Jobs : pc[j] = "durable" => change[j] \notin OfDoc
Current == ~failed /\ Settled => mem.docs \subseteq {doc}

\* What a callback will change is as the Storage holds it.
Fresh == \A j \in Jobs : pc[j] \in {"ready", "backend"} /\ change[j] \in OfDoc => base[j] = doc

\* A job is in the log from the moment its batch is durable, and what a job got is final.
Told ==
    /\ \A j \in Jobs : pc[j] \notin {"durable", "done"} => \A i \in DOMAIN log : log[i] # j
    /\ \A j \in Jobs : pc[j] = "durable" => \E i \in DOMAIN log : log[i] = j
    /\ \A j \in Jobs : pc[j] # "done" => outcome[j] = "none"
    /\ \A j \in Jobs : pc[j] \in {"backend", "durable"} => kind[j] = "commit"
    /\ ToldTheTruth
    /\ \A j \in caught : failed /\ kind[j] = "commit"
                         /\ pc[j] \in {"ready", "done"} /\ outcome[j] # "ok"

\* A failure seals admission.
Sealed == failed => closing # "open"

Inv == Types /\ OneAtATime /\ CloseLast /\ Current /\ Fresh /\ Told /\ Sealed
       /\ ClosedEndsWatches /\ (closing = "closed" => reading = {})

-----------------------------------------------------------------------------
(* The document cache and failures.                                        *)

LEMMA TouchOps == ASSUME NEW m \in CacheType PROVE Touch(m) \in CacheType /\ Touch(m).docs = m.docs
  BY DEF Touch, CacheType

LEMMA DropOps == ASSUME NEW m \in CacheType PROVE Drop(m) \in CacheType /\ Drop(m).docs = {}
  BY DEF Drop, CacheType

LEMMA InstallOps ==
  ASSUME NEW m \in CacheType, NEW d \in DocType
  PROVE  Install(m, d) \in CacheType /\ Install(m, d).docs = {d}
<1>1. [m EXCEPT !.docs = {d}] \in CacheType /\ [m EXCEPT !.docs = {d}].docs = {d}
  BY DEF CacheType
<1> QED
  BY <1>1, TouchOps DEF Install

LEMMA PinOps ==
  ASSUME NEW m \in CacheType, NEW j \in Jobs, NEW n \in Nat
  PROVE  Pin(m, j, n) \in CacheType /\ Pin(m, j, n).docs = m.docs
<1> DEFINE pins == m.pins \cup {<<j, n>>}
<1>1. pins \in SUBSET (Jobs \X Nat)
  BY DEF CacheType
<1>2. Pin(m, j, n) = [m EXCEPT !.pins = pins, !.idle = FALSE]
  BY DEF Pin
<1> HIDE DEF pins
<1> QED
  BY <1>1, <1>2 DEF CacheType

LEMMA UnpinOps ==
  ASSUME NEW m \in CacheType, NEW js
  PROVE  Unpin(m, js) \in CacheType /\ Unpin(m, js).docs = m.docs
<1> DEFINE left == [m EXCEPT !.pins = {p \in @ : p[1] \notin js}]
<1>1. left \in CacheType /\ left.docs = m.docs
  BY DEF CacheType
<1> HIDE DEF left
<1>2. Touch(left) \in CacheType /\ Touch(left).docs = m.docs
  BY <1>1, TouchOps
<1>3. Unpin(m, js) = left \/ Unpin(m, js) = Touch(left)
  BY DEF Unpin, left
<1> QED
  BY <1>1, <1>2, <1>3

LEMMA SweptOps ==
  ASSUME NEW m \in CacheType, NEW s \in Swept(m)
  PROVE  s \in CacheType /\ s.docs \subseteq m.docs
  BY DropOps DEF Swept

\* A document that a commit leaves is one tracker at most.
LEMMA AdoptedDocs ==
  ASSUME NEW m \in CacheType, NEW d \in DocType
  PROVE  Adopted(m, d) \in CacheType /\ Adopted(m, d).docs \subseteq {d}
<1>1. Drop(m) \in CacheType /\ Drop(m).docs = {}
  BY DropOps
<1>2. Install(m, d) \in CacheType /\ Install(m, d).docs = {d}
  BY InstallOps
<1>3. Install(Drop(m), d) \in CacheType /\ Install(Drop(m), d).docs = {d}
  BY <1>1, InstallOps
<1> QED
  BY <1>1, <1>2, <1>3 DEF Adopted

\* Admission may be sealed by any step.
Seals == closing' = closing \/ (closing = "open" /\ closing' = "sealed")

LEMMA FailStep ==
  ASSUME closing \in {"open", "sealed", "queued", "closing", "closed"}, Sealed,
         NEW m \in CacheType, NEW ws \in [Jobs -> WatchType],
         closing # "open" => Live(ws) = {}, FailWith(m, ws)
  PROVE  /\ failed' = TRUE /\ mem' \in CacheType /\ watch' \in [Jobs -> WatchType]
         /\ Seals /\ closing' # "open" /\ Live(watch') = {}
<1>1. CASE failed \/ closing # "open"
  BY <1>1 DEF FailWith, Sealed, Seals
<1>2. CASE ~(failed \/ closing # "open")
  <2>1. /\ failed' = TRUE /\ closing' = "sealed" /\ mem' = Unpin(m, Live(ws))
        /\ watch' = [j \in Jobs |-> IF j \in Live(ws) THEN [ws[j] EXCEPT !.state = "failed"] ELSE ws[j]]
    BY <1>2 DEF FailWith
  <2>2. watch' \in [Jobs -> WatchType]
    BY <2>1 DEF WatchType
  <2>3. Live(watch') = {}
    BY <2>1 DEF Live, WatchType
  <2> QED
    BY <1>2, <2>1, <2>2, <2>3, UnpinOps DEF Seals
<1> QED
  BY <1>1, <1>2

-----------------------------------------------------------------------------
(* The line.                                                               *)

LEMMA TailFacts ==
  ASSUME NEW S, NEW s \in Seq(S), s # <<>>
  PROVE  /\ Tail(s) \in Seq(S) /\ Head(s) = s[1] /\ 1 \in DOMAIN s
         /\ DOMAIN s = 1 .. Len(s) /\ DOMAIN Tail(s) = 1 .. Len(s) - 1
         /\ \A i \in DOMAIN Tail(s) : i + 1 \in DOMAIN s /\ Tail(s)[i] = s[i + 1]
         /\ \A i \in DOMAIN s : i # 1 => i - 1 \in DOMAIN Tail(s) /\ Tail(s)[i - 1] = s[i]
  OBVIOUS

LEMMA AppendFacts ==
  ASSUME NEW S, NEW s \in Seq(S), NEW e \in S
  PROVE  /\ Append(s, e) \in Seq(S) /\ Append(s, e)[Len(s) + 1] = e
         /\ DOMAIN s = 1 .. Len(s) /\ DOMAIN Append(s, e) = 1 .. Len(s) + 1
         /\ \A i \in DOMAIN s : Append(s, e)[i] = s[i]
  OBVIOUS

\* The running job is the first, and no other has begun.
LEMMA Alone ==
  ASSUME Types, OneAtATime, NEW j \in Jobs, pc[j] \in Active \/ Running(j)
  PROVE  /\ line # <<>> /\ line[1] = j /\ pc[j] \in OnLine
         /\ \A i \in Jobs : i # j => pc[i] \notin Active
<1>1. ASSUME NEW i \in Jobs, pc[i] \in Active PROVE line # <<>> /\ line[1] = i
  <2>1. PICK k \in DOMAIN line : line[k] = i
    BY <1>1 DEF OneAtATime, OnLine
  <2>2. k = 1
    BY <1>1, <2>1 DEF OneAtATime, Active
  <2> QED
    BY <2>1, <2>2 DEF Types
<1>2. line # <<>> /\ line[1] = j
  BY <1>1, TailFacts DEF Types, Running
<1> QED
  BY <1>1, <1>2, TailFacts DEF Types, OneAtATime

\* The first job leaves.
LEMMA Leaves ==
  ASSUME Types, OneAtATime, CloseLast, NEW j \in Jobs, line # <<>>, line[1] = j, Seals,
         line' = Tail(line), pc' = [pc EXCEPT ![j] = "done"], kind' = kind
  PROVE  line' \in Seq(Jobs \cup {Close}) /\ OneAtATime' /\ CloseLast'
<1>1. /\ line' \in Seq(Jobs \cup {Close}) /\ DOMAIN line' = 1 .. Len(line) - 1 /\ DOMAIN line = 1 .. Len(line)
      /\ \A i \in DOMAIN line' : i + 1 \in DOMAIN line /\ line'[i] = line[i + 1]
      /\ \A i \in DOMAIN line : i # 1 => i - 1 \in DOMAIN line' /\ line'[i - 1] = line[i]
  BY TailFacts DEF Types
<1>2. \A i \in DOMAIN line' : line'[i] # j
  BY <1>1 DEF OneAtATime, Types
<1>3. \A i \in Jobs : i # j => pc'[i] = pc[i]
  BY DEF Types
<1>4. OneAtATime'
  <2>1. \A i, k \in DOMAIN line' : line'[i] = line'[k] => i = k
    BY <1>1 DEF OneAtATime
  <2>2. \A i \in DOMAIN line' : line'[i] \in Jobs => pc'[line'[i]] = "queued"
    BY <1>1, <1>2, <1>3 DEF OneAtATime
  <2>3. \A i \in Jobs : pc'[i] \in OnLine => i # j
    BY DEF Types, OnLine, Active
  <2>4. \A i \in Jobs : pc'[i] \in OnLine => \E k \in DOMAIN line' : line'[k] = i
    <3> TAKE i \in Jobs
    <3> HAVE pc'[i] \in OnLine
    <3>1. i # j /\ pc[i] \in OnLine
      BY <1>3, <2>3
    <3>2. PICK k \in DOMAIN line : line[k] = i
      BY <3>1 DEF OneAtATime
    <3>3. k # 1 /\ k - 1 \in DOMAIN line' /\ line'[k - 1] = i
      BY <1>1, <3>1, <3>2
    <3> QED
      BY <3>3
  <2> QED
    BY <2>1, <2>2, <2>4 DEF OneAtATime, OnLine
<1>5. closing' # "closing"
  BY CloseAssumption DEF CloseLast, Seals
<1>6. closing' \notin {"queued", "closing"} => \A i \in DOMAIN line' : line'[i] # Close
  BY <1>1 DEF CloseLast, Seals
<1>7. \A i, k \in DOMAIN line' : i < k /\ line'[i] = Close => kind'[line'[k]] = "unload"
  BY <1>1 DEF CloseLast
<1>8. closing' = "closed" => \A i \in DOMAIN line' : kind'[line'[i]] = "unload"
  BY <1>1 DEF CloseLast, Seals
<1> QED
  BY <1>1, <1>4, <1>5, <1>6, <1>7, <1>8 DEF CloseLast

\* The first job goes on.
LEMMA GoesOn ==
  ASSUME Types, OneAtATime, CloseLast, NEW j \in Jobs, line # <<>>, line[1] = j, Seals,
         line' = line, NEW p \in Active, pc' = [pc EXCEPT ![j] = p], kind' = kind
  PROVE  line' \in Seq(Jobs \cup {Close}) /\ OneAtATime' /\ CloseLast'
<1>1. line' \in Seq(Jobs \cup {Close}) /\ CloseLast'
  BY DEF Types, CloseLast, Seals
<1>2. \A i \in Jobs : pc'[i] = IF i = j THEN p ELSE pc[i]
  BY DEF Types
<1>3. 1 \in DOMAIN line
  BY TailFacts DEF Types
<1> QED
  BY <1>1, <1>2, <1>3 DEF OneAtATime, OnLine

\* Nothing of the line changes.
LEMMA Stays ==
  ASSUME Types, OneAtATime, CloseLast, Seals, line' = line,
         \A j \in Jobs : pc'[j] = pc[j] \/ (pc[j] \in OffLine /\ pc'[j] \in OffLine),
         \A j \in Jobs : kind'[j] = kind[j] \/ pc[j] = "idle"
  PROVE  line' \in Seq(Jobs \cup {Close}) /\ OneAtATime' /\ CloseLast'
<1>1. \A i \in DOMAIN line : line[i] \in Jobs => kind'[line[i]] = kind[line[i]] /\ pc'[line[i]] = pc[line[i]]
  BY DEF OneAtATime, OnLine, OffLine, Active
<1>2. \A i, k \in DOMAIN line : i < k /\ line[i] = Close => line[k] \in Jobs
  BY DEF OneAtATime, Types
<1>3. closing = "closed" => \A i \in DOMAIN line : line[i] \in Jobs
  BY DEF CloseLast, Types
<1>4. CloseLast'
  BY <1>1, <1>2, <1>3 DEF CloseLast, Seals
<1>5. OneAtATime'
  BY <1>1 DEF OneAtATime, OnLine, OffLine, Active
<1> QED
  BY <1>4, <1>5 DEF Types

-----------------------------------------------------------------------------
(* What a job is told.                                                     *)

\* A job that ends is told what its place says.
LEMMA EndsTold ==
  ASSUME Types, Told, NEW j \in Jobs, pc[j] \in OnLine, NEW w \in {"ok", "threw", "failed"},
         pc' = [pc EXCEPT ![j] = "done"], outcome' = [outcome EXCEPT ![j] = w],
         UNCHANGED <<kind, change, caught, log>>, \A i \in Jobs : i # j => base'[i] = base[i],
         failed => failed', failed' \in BOOLEAN,
         w = "failed" => failed', w = "threw" => pc[j] # "durable",
         w = "ok" => j \notin caught /\ (kind[j] = "commit" => pc[j] = "durable" \/ (~Writes(j) /\ UNCHANGED base))
  PROVE  Told'
<1>1. \A i \in Jobs : i # j => pc'[i] = pc[i] /\ outcome'[i] = outcome[i] /\ Writes(i)' = Writes(i)
  BY DEF Types, Writes
<1>2. pc'[j] = "done" /\ outcome'[j] = w
  BY DEF Types
<1>3. w # "ok" \/ kind[j] # "commit" \/ pc[j] = "durable" \/ ~Writes(j)'
  BY DEF Writes
<1>4. ToldTheTruth'
  <2> SUFFICES ASSUME NEW i \in Jobs
               PROVE  LET durable == \E k \in DOMAIN log : log[k] = i IN
                      /\ kind[i] = "commit" /\ outcome'[i] = "ok" /\ Writes(i)' => durable
                      /\ outcome'[i] \in {"refused", "threw"} => ~durable
                      /\ outcome'[i] = "failed" => failed'
    BY DEF ToldTheTruth
  <2>1. CASE i # j
    BY <1>1, <2>1 DEF Told, ToldTheTruth
  <2>2. CASE i = j
    BY <1>2, <1>3, <2>2 DEF Told, OnLine, Active
  <2> QED
    BY <2>1, <2>2
<1> QED
  BY <1>1, <1>2, <1>4 DEF Told, OnLine, Active

\* A job that goes on is told nothing yet.
LEMMA GoesOnTold ==
  ASSUME Types, Told, NEW j \in Jobs, NEW p \in OnLine, pc[j] \notin {"durable", "done"}, p # "durable",
         pc' = [pc EXCEPT ![j] = p], p = "backend" => kind'[j] = "commit",
         UNCHANGED <<outcome, log>>, failed' = failed,
         \A i \in Jobs : i # j => change'[i] = change[i] /\ base'[i] = base[i] /\ kind'[i] = kind[i],
         caught' = caught, j \notin caught
  PROVE  Told'
<1>1. \A i \in Jobs : i # j => pc'[i] = pc[i] /\ Writes(i)' = Writes(i)
  BY DEF Types, Writes
<1>2. pc'[j] = p /\ outcome'[j] = "none"
  BY DEF Types, Told
<1>3. ToldTheTruth'
  <2> SUFFICES ASSUME NEW i \in Jobs
               PROVE  LET durable == \E k \in DOMAIN log : log[k] = i IN
                      /\ kind'[i] = "commit" /\ outcome'[i] = "ok" /\ Writes(i)' => durable
                      /\ outcome'[i] \in {"refused", "threw"} => ~durable
                      /\ outcome'[i] = "failed" => failed'
    BY DEF ToldTheTruth
  <2>1. CASE i # j
    BY <1>1, <2>1 DEF Told, ToldTheTruth
  <2>2. CASE i = j
    BY <1>2, <2>2
  <2> QED
    BY <2>1, <2>2
<1>4. \A i \in caught : i \in Jobs /\ i # j
  BY DEF Types
<1>5. ASSUME NEW i \in Jobs
      PROVE  /\ pc'[i] \notin {"durable", "done"} => \A k \in DOMAIN log : log[k] # i
             /\ pc'[i] = "durable" => \E k \in DOMAIN log : log[k] = i
             /\ pc'[i] # "done" => outcome'[i] = "none"
             /\ pc'[i] \in {"backend", "durable"} => kind'[i] = "commit"
  <2>1. CASE i = j
    BY <1>2, <2>1 DEF Told
  <2>2. CASE i # j
    BY <1>1, <2>2 DEF Told
  <2> QED
    BY <2>1, <2>2
<1>6. \A i \in caught' : failed' /\ kind'[i] = "commit" /\ pc'[i] \in {"ready", "done"} /\ outcome'[i] # "ok"
  BY <1>1, <1>4 DEF Told
<1> QED
  BY <1>3, <1>5, <1>6 DEF Told

\* A step that no job's place changes with tells nobody anything.
LEMMA SameTold ==
  ASSUME Told, UNCHANGED <<pc, outcome, log, kind, change, base, caught>>, failed => failed', failed' \in BOOLEAN
  PROVE  Told'
<1>1. \A i \in Jobs : Writes(i)' = Writes(i)
  BY DEF Writes
<1>2. ToldTheTruth'
  BY <1>1 DEF Told, ToldTheTruth
<1> QED
  BY <1>2 DEF Told

-----------------------------------------------------------------------------
(* The calls.                                                              *)

\* A job joins the line; behind the close job only an unload does.
LEMMA Joins ==
  ASSUME Types, OneAtATime, CloseLast, NEW j \in Jobs, pc[j] = "idle", closing' = closing,
         NEW k, closing # "open" => k = "unload", kind' = [kind EXCEPT ![j] = k],
         line' = Append(line, j), pc' = [pc EXCEPT ![j] = "queued"]
  PROVE  line' \in Seq(Jobs \cup {Close}) /\ OneAtATime' /\ CloseLast'
<1>1. /\ line' \in Seq(Jobs \cup {Close}) /\ line'[Len(line) + 1] = j
      /\ DOMAIN line = 1 .. Len(line) /\ DOMAIN line' = 1 .. Len(line) + 1
      /\ \A i \in DOMAIN line : line'[i] = line[i]
  BY AppendFacts DEF Types
<1>2. \A i \in DOMAIN line : line[i] # j
  BY DEF OneAtATime, OnLine, Active
<1>3. \A i \in Jobs : i # j => pc'[i] = pc[i] /\ kind'[i] = kind[i]
  BY DEF Types
<1>4. pc'[j] = "queued" /\ kind'[j] = k
  BY DEF Types
<1>5. \A i \in DOMAIN line' : i \in DOMAIN line \/ (i = Len(line) + 1 /\ line'[i] = j)
  BY <1>1
<1>6. \A i \in DOMAIN line : line[i] \in Jobs => pc'[line[i]] = pc[line[i]] /\ kind'[line[i]] = kind[line[i]]
  BY <1>2, <1>3
<1>7. OneAtATime'
  <2>1. \A i, n \in DOMAIN line' : line'[i] = line'[n] => i = n
    BY <1>1, <1>2, <1>5 DEF OneAtATime
  <2>2. \A i \in DOMAIN line' : line'[i] \in Jobs => pc'[line'[i]] \in OnLine /\ (i # 1 => pc'[line'[i]] = "queued")
    BY <1>1, <1>4, <1>5, <1>6 DEF OneAtATime, OnLine
  <2>3. \A i \in Jobs : pc'[i] \in OnLine => \E n \in DOMAIN line' : line'[n] = i
    <3> SUFFICES ASSUME NEW i \in Jobs, pc'[i] \in OnLine PROVE \E n \in DOMAIN line' : line'[n] = i
      OBVIOUS
    <3>1. CASE i # j
      <4>1. PICK n \in DOMAIN line : line[n] = i
        BY <1>3, <3>1 DEF OneAtATime
      <4> QED
        BY <1>1, <4>1
    <3>2. Len(line) + 1 \in DOMAIN line'
      BY <1>1 DEF Types
    <3> QED
      BY <1>1, <3>1, <3>2
  <2> QED
    BY <2>1, <2>2, <2>3 DEF OneAtATime
<1>8. \A i \in DOMAIN line' : line'[i] = Close => i \in DOMAIN line /\ line[i] = Close
  BY <1>1, <1>5, CloseAssumption
<1>9. closing = "closing" => line' # <<>> /\ line'[1] = Close
  BY <1>1 DEF CloseLast, Types
<1>10. \A i, n \in DOMAIN line' : i < n /\ line'[i] = Close => kind'[line'[n]] = "unload"
  <2> SUFFICES ASSUME NEW i \in DOMAIN line', NEW n \in DOMAIN line', i < n, line'[i] = Close
               PROVE  kind'[line'[n]] = "unload"
    OBVIOUS
  <2>1. i \in DOMAIN line /\ line[i] = Close /\ closing # "open"
    BY <1>8 DEF CloseLast
  <2>2. CASE n \in DOMAIN line
    <3>1. line'[n] = line[n] /\ line[n] \in Jobs /\ kind[line[n]] = "unload"
      BY <1>1, <2>1, <2>2 DEF OneAtATime, CloseLast, Types
    <3> QED
      BY <1>6, <2>2, <3>1
  <2>3. CASE line'[n] = j
    BY <1>4, <2>1, <2>3
  <2> QED
    BY <1>5, <2>2, <2>3
<1>11. closing = "closed" => \A i \in DOMAIN line' : kind'[line'[i]] = "unload"
  <2> SUFFICES ASSUME closing = "closed", NEW i \in DOMAIN line' PROVE kind'[line'[i]] = "unload"
    OBVIOUS
  <2>1. CASE i \in DOMAIN line
    <3>1. line'[i] = line[i] /\ line[i] \in Jobs /\ kind[line[i]] = "unload"
      BY <1>1, <2>1 DEF CloseLast, Types
    <3> QED
      BY <1>6, <2>1, <3>1
  <2>2. CASE line'[i] = j
    BY <1>4, <2>2
  <2> QED
    BY <1>5, <2>1, <2>2
<1> QED
  BY <1>1, <1>7, <1>8, <1>9, <1>10, <1>11 DEF CloseLast

LEMMA CallKeeps == ASSUME Inv, NEW j \in Jobs, Call(j) PROVE Inv'
<1>1. /\ pc[j] = "idle" /\ outcome[j] = "none" /\ j \notin caught
      /\ UNCHANGED <<change, caught, acked, failed, closing, watch, reading, doc, log>>
  BY DEF Inv, Told, Call, storage
<1>2. PICK k \in Kinds \ {"close"} :
        LET refused == ~Usable /\ k # "unload"
            cached  == k = "snapshot" /\ mem.docs # {}
        IN  /\ kind' = [kind EXCEPT ![j] = k]
            /\ line' = IF refused \/ cached THEN line ELSE Append(line, j)
            /\ pc' = [pc EXCEPT ![j] = IF refused \/ cached THEN "done" ELSE "queued"]
            /\ outcome' = [outcome EXCEPT ![j] = IF refused THEN "refused" ELSE IF cached THEN "ok" ELSE @]
            /\ base' = IF cached /\ ~refused THEN [base EXCEPT ![j] = CHOOSE d \in mem.docs : TRUE] ELSE base
            /\ mem' = IF cached /\ ~refused THEN Touch(mem) ELSE mem
  BY DEF Call
<1> DEFINE off == (~Usable /\ k # "unload") \/ (k = "snapshot" /\ mem.docs # {})
<1>3. mem' \in CacheType /\ mem'.docs = mem.docs
  BY <1>2, TouchOps DEF Inv, Types
<1>4. base' \in [Jobs -> DocType] /\ \A i \in Jobs : i # j => base'[i] = base[i]
  <2>1. \A d \in mem.docs : d \in DocType
    BY DEF Inv, Types, CacheType
  <2>2. mem.docs # {} => (CHOOSE d \in mem.docs : TRUE) \in DocType
    BY <2>1
  <2> QED
    BY <1>2, <2>2 DEF Inv, Types
<1>5. kind' \in [Jobs -> {"commit", "snapshot", "watch", "unload", "close"}] /\ pc' \in [Jobs -> OnLine \cup OffLine]
      /\ outcome' \in [Jobs -> {"none", "ok", "refused", "threw", "failed", "closed"}]
  BY <1>2, KindsAssumption DEF Inv, Types, OnLine, OffLine
<1>6. \A i \in Jobs : i # j => pc'[i] = pc[i] /\ kind'[i] = kind[i] /\ outcome'[i] = outcome[i]
  BY <1>2 DEF Inv, Types
<1>7. pc'[j] = (IF off THEN "done" ELSE "queued") /\ kind'[j] = k
      /\ (off => outcome'[j] = "refused" \/ (outcome'[j] = "ok" /\ k = "snapshot"))
  BY <1>2 DEF Inv, Types
<1>8. line' \in Seq(Jobs \cup {Close}) /\ OneAtATime' /\ CloseLast'
  <2>1. CASE off
    BY <1>1, <1>2, <1>6, <1>7, <2>1, Stays DEF Inv, Seals, OffLine
  <2>2. CASE ~off
    <3>1. line' = Append(line, j) /\ pc' = [pc EXCEPT ![j] = "queued"] /\ (closing # "open" => k = "unload")
      BY <1>2, <2>2 DEF Usable
    <3> QED
      BY <1>1, <1>2, <3>1, Joins DEF Inv
  <2> QED
    BY <2>1, <2>2
<1>9. Current' /\ Fresh'
  <2>1. Settled' => Settled
    BY <1>1, <1>6 DEF Settled
  <2> QED
    BY <1>1, <1>3, <1>4, <1>6, <1>7, <2>1 DEF Inv, Current, Fresh
<1>10. Told'
  <2>1. CASE off
    <3>1. \A i \in Jobs : i # j => Writes(i)' = Writes(i)
      BY <1>1, <1>4 DEF Writes
    <3>2. \A i \in DOMAIN log : log[i] # j
      BY <1>1 DEF Inv, Told
    <3>3. pc'[j] = "done" /\ (outcome'[j] = "refused" \/ (outcome'[j] = "ok" /\ kind'[j] = "snapshot"))
      BY <1>7, <2>1
    <3>4. ToldTheTruth'
      <4> SUFFICES ASSUME NEW i \in Jobs
                   PROVE  LET durable == \E n \in DOMAIN log : log[n] = i IN
                          /\ kind'[i] = "commit" /\ outcome'[i] = "ok" /\ Writes(i)' => durable
                          /\ outcome'[i] \in {"refused", "threw"} => ~durable
                          /\ outcome'[i] = "failed" => failed'
        BY <1>1 DEF ToldTheTruth
      <4>1. CASE i # j
        BY <1>1, <1>6, <3>1, <4>1 DEF Inv, Told, ToldTheTruth
      <4>2. CASE i = j
        BY <3>2, <3>3, <4>2
      <4> QED
        BY <4>1, <4>2
    <3>5. \A i \in caught : i \in Jobs /\ i # j
      BY <1>1 DEF Inv, Types
    <3> QED
      BY <1>1, <1>6, <3>3, <3>4, <3>5 DEF Inv, Told
  <2>2. CASE ~off
    <3>1. pc' = [pc EXCEPT ![j] = "queued"] /\ outcome' = [outcome EXCEPT ![j] = @]
      BY <1>2, <2>2
    <3>2. outcome' = outcome
      BY <3>1 DEF Inv, Types
    <3> QED
      BY <1>1, <1>4, <1>6, <3>1, <3>2, GoesOnTold DEF Inv, OnLine
  <2> QED
    BY <2>1, <2>2
<1>11. Types'
  BY <1>1, <1>3, <1>4, <1>5, <1>8 DEF Inv, Types
<1> QED
  BY <1>1, <1>8, <1>9, <1>10, <1>11 DEF Inv, Sealed, ClosedEndsWatches, Live

LEMMA CallCloseKeeps == ASSUME Inv, NEW j \in Jobs, CallClose(j) PROVE Inv'
<1>1. /\ pc[j] = "idle" /\ outcome[j] = "none" /\ j \notin caught /\ pc' = [pc EXCEPT ![j] = "awaiting"]
      /\ kind' = [kind EXCEPT ![j] = "close"]
      /\ UNCHANGED <<line, change, base, caught, outcome, acked, floor, failed, reading, doc, log>>
  BY DEF Inv, Told, CallClose, storage
<1>2. \A i \in Jobs : i # j => pc'[i] = pc[i] /\ kind'[i] = kind[i]
  BY <1>1 DEF Inv, Types
<1>3. pc'[j] = "awaiting" /\ kind'[j] = "close"
  BY <1>1 DEF Inv, Types
<1>4. Seals /\ closing' # "open"
  BY DEF CallClose, Seals
<1>5. mem' \in CacheType /\ mem'.docs = mem.docs
  <2>1. mem' = mem \/ mem' = Unpin(mem, Live(watch))
    BY DEF CallClose
  <2>2. mem \in CacheType
    BY DEF Inv, Types
  <2> QED
    BY <2>1, <2>2, UnpinOps
<1>6. watch' \in [Jobs -> WatchType] /\ Live(watch') = {}
  <2>1. CASE closing = "open"
    <3>1. watch' = [i \in Jobs |-> IF i \in Live(watch) THEN [watch[i] EXCEPT !.state = "closed"] ELSE watch[i]]
      BY <2>1 DEF CallClose
    <3>2. watch' \in [Jobs -> WatchType]
      BY <3>1 DEF Inv, Types, WatchType
    <3> QED
      BY <3>1, <3>2 DEF Live, Inv, Types, WatchType
  <2>2. CASE closing # "open"
    BY <2>2 DEF CallClose, Inv, ClosedEndsWatches, Types
  <2> QED
    BY <2>1, <2>2
<1>7. line' \in Seq(Jobs \cup {Close}) /\ OneAtATime' /\ CloseLast'
  BY <1>1, <1>2, <1>3, <1>4, Stays DEF Inv, OffLine
<1>8. Current' /\ Fresh'
  <2>1. Settled' => Settled
    BY <1>1, <1>2 DEF Settled
  <2> QED
    BY <1>1, <1>2, <1>3, <1>5, <2>1 DEF Inv, Current, Fresh
<1>9. Told'
  <2>1. \A i \in Jobs : Writes(i)' = Writes(i)
    BY <1>1 DEF Writes
  <2>2. \A i \in caught : i \in Jobs /\ i # j
    BY <1>1 DEF Inv, Types
  <2>3. ToldTheTruth'
    BY <1>1, <1>2, <1>3, <2>1 DEF Inv, Told, ToldTheTruth
  <2> QED
    BY <1>1, <1>2, <1>3, <2>2, <2>3 DEF Inv, Told
<1>10. Types'
  BY <1>1, <1>4, <1>5, <1>6, <1>7 DEF Inv, Types, Seals, OffLine
<1> QED
  BY <1>1, <1>4, <1>6, <1>7, <1>8, <1>9, <1>10 DEF Inv, Sealed, ClosedEndsWatches, Live, Seals

\* The close job takes its place behind everything admitted.
LEMMA BeforeCloseKeeps == ASSUME Inv, BeforeClose PROVE Inv'
<1>1. /\ closing = "sealed" /\ closing' = "queued" /\ line' = Append(line, Close)
      /\ UNCHANGED <<pc, outcome, failed, mem, watch, reading, doc, log, kind, change, base, caught>>
  BY DEF BeforeClose, CloseEnqueued, storage, callVars
<1>2. /\ line' \in Seq(Jobs \cup {Close}) /\ line'[Len(line) + 1] = Close
      /\ DOMAIN line = 1 .. Len(line) /\ DOMAIN line' = 1 .. Len(line) + 1
      /\ \A i \in DOMAIN line : line'[i] = line[i]
  BY <1>1, AppendFacts DEF Inv, Types
<1>3. \A i \in DOMAIN line : line[i] # Close
  BY <1>1 DEF Inv, CloseLast
<1>4. OneAtATime' /\ CloseLast'
  <2>1. \A i \in DOMAIN line' : i \in DOMAIN line \/ (i = Len(line) + 1 /\ line'[i] = Close)
    BY <1>2
  <2>2. \A i, n \in DOMAIN line' : line'[i] = line'[n] => i = n
    BY <1>2, <1>3, <2>1 DEF Inv, OneAtATime
  <2>3. \A i, n \in DOMAIN line' : ~(i < n /\ line'[i] = Close)
    BY <1>2, <1>3, <2>1 DEF Inv, Types
  <2>4. OneAtATime'
    BY <1>1, <1>2, <2>1, <2>2, CloseAssumption DEF Inv, OneAtATime
  <2> QED
    BY <1>1, <2>3, <2>4 DEF CloseLast
<1>5. Told' /\ Current' /\ Fresh'
  BY <1>1, SameTold DEF Inv, Types, Current, Fresh, Settled
<1> QED
  BY <1>1, <1>2, <1>4, <1>5 DEF Inv, Types, Sealed, ClosedEndsWatches, Live

LEMMA CloseRunsKeeps == ASSUME Inv, CloseRuns PROVE Inv'
<1>1. /\ line # <<>> /\ line[1] = Close /\ closing = "queued" /\ closing' = "closing"
      /\ mem' = [docs |-> {}, idle |-> FALSE, pins |-> {}]
      /\ UNCHANGED <<line, pc, outcome, failed, watch, reading, doc, log, kind, change, base, caught>>
  BY TailFacts DEF Inv, Types, CloseRuns, Running, storage, callVars
<1>2. OneAtATime' /\ CloseLast'
  BY <1>1 DEF Inv, OneAtATime, CloseLast
<1>3. Told' /\ Current' /\ Fresh'
  BY <1>1, SameTold DEF Inv, Types, Current, Fresh, Settled
<1> QED
  BY <1>1, <1>2, <1>3 DEF Inv, Types, CacheType, Sealed, ClosedEndsWatches, Live

\* The close job was the last but for unloads, and no read is underway.
LEMMA CloseBackendKeeps == ASSUME Inv, CloseBackend PROVE Inv'
<1>1. /\ closing = "closing" /\ closing' = "closed" /\ reading = {} /\ failed' \in {failed, TRUE}
      /\ line' = Tail(line)
      /\ pc' = [j \in Jobs |-> IF pc[j] = "awaiting" THEN "done" ELSE pc[j]]
      /\ outcome' = [j \in Jobs |-> IF pc[j] = "awaiting" THEN "closed" ELSE outcome[j]]
      /\ UNCHANGED <<mem, watch, reading, doc, log, kind, change, base, caught>>
  BY DEF CloseBackend, Quiet, storage, callVars
<1>2. line # <<>> /\ line[1] = Close
  BY <1>1 DEF Inv, CloseLast
<1>3. /\ line' \in Seq(Jobs \cup {Close}) /\ 1 \in DOMAIN line
      /\ DOMAIN line = 1 .. Len(line) /\ DOMAIN line' = 1 .. Len(line) - 1
      /\ \A i \in DOMAIN line' : i + 1 \in DOMAIN line /\ line'[i] = line[i + 1]
      /\ \A i \in DOMAIN line : i # 1 => i - 1 \in DOMAIN line' /\ line'[i - 1] = line[i]
  BY <1>1, <1>2, TailFacts DEF Inv, Types
<1>4. \A j \in Jobs : pc[j] \in OnLine \/ pc'[j] \in OnLine => pc'[j] = pc[j]
  BY <1>1 DEF OnLine, Active
<1>5. OneAtATime'
  <2>1. \A i, k \in DOMAIN line' : line'[i] = line'[k] => i = k
    BY <1>3 DEF Inv, OneAtATime
  <2>2. \A i \in DOMAIN line' : line'[i] \in Jobs => pc'[line'[i]] = "queued"
    <3> SUFFICES ASSUME NEW i \in DOMAIN line', line'[i] \in Jobs PROVE pc'[line'[i]] = "queued"
      OBVIOUS
    <3>1. i + 1 \in DOMAIN line /\ line'[i] = line[i + 1] /\ i + 1 # 1
      BY <1>3
    <3>2. pc[line'[i]] = "queued"
      BY <3>1 DEF Inv, OneAtATime
    <3> QED
      BY <1>4, <3>2 DEF OnLine
  <2>3. ASSUME NEW j \in Jobs, pc'[j] \in OnLine PROVE \E i \in DOMAIN line' : line'[i] = j
    <3>1. PICK i \in DOMAIN line : line[i] = j
      BY <1>4, <2>3 DEF Inv, OneAtATime
    <3>2. i # 1
      BY <1>2, <3>1, CloseAssumption
    <3> QED
      BY <1>3, <3>1, <3>2
  <2> QED
    BY <2>1, <2>2, <2>3 DEF OneAtATime, OnLine
<1>6. CloseLast'
  <2>1. \A i \in DOMAIN line' : kind'[line'[i]] = "unload" /\ line'[i] # Close
    <3> SUFFICES ASSUME NEW i \in DOMAIN line' PROVE kind'[line'[i]] = "unload" /\ line'[i] # Close
      OBVIOUS
    <3>1. i + 1 \in DOMAIN line /\ line'[i] = line[i + 1] /\ 1 < i + 1
      BY <1>3
    <3> QED
      BY <1>1, <1>2, <1>3, <3>1 DEF Inv, CloseLast, OneAtATime
  <2> QED
    BY <1>1, <2>1 DEF CloseLast
<1>7. Current' /\ Fresh'
  BY <1>1 DEF Inv, Current, Fresh, Settled
<1>8. Told'
  <2>1. \A j \in Jobs : Writes(j)' = Writes(j)
    BY <1>1 DEF Writes
  <2>2. failed' \in BOOLEAN /\ (failed => failed')
    BY <1>1 DEF Inv, Types
  <2>3. \A j \in Jobs : pc[j] = "awaiting" => \A i \in DOMAIN log : log[i] # j
    BY DEF Inv, Told
  <2>4. ToldTheTruth'
    BY <1>1, <2>1, <2>2 DEF Inv, Told, ToldTheTruth
  <2>5. \A j \in caught : j \in Jobs /\ pc'[j] = pc[j] /\ outcome'[j] = outcome[j]
    BY <1>1 DEF Inv, Told, Types
  <2> QED
    BY <1>1, <2>2, <2>3, <2>4, <2>5 DEF Inv, Told
<1>9. Types'
  BY <1>1, <1>3 DEF Inv, Types, OffLine
<1> QED
  BY <1>1, <1>5, <1>6, <1>7, <1>8, <1>9 DEF Inv, Sealed, ClosedEndsWatches, Live

LEMMA CloseAgainKeeps == ASSUME Inv, NEW j \in Jobs, CloseAgain(j) PROVE Inv'
<1>1. /\ pc[j] = "awaiting" /\ pc' = [pc EXCEPT ![j] = "done"] /\ outcome' = [outcome EXCEPT ![j] = "closed"]
      /\ j \notin caught
      /\ UNCHANGED <<line, failed, closing, mem, watch, reading, doc, log, kind, change, base, caught>>
  BY DEF Inv, Told, CloseAgain, session, storage, callVars
<1>2. \A i \in Jobs : i # j => pc'[i] = pc[i] /\ outcome'[i] = outcome[i]
  BY <1>1 DEF Inv, Types
<1>3. pc'[j] = "done" /\ outcome'[j] = "closed"
  BY <1>1 DEF Inv, Types
<1>4. line' \in Seq(Jobs \cup {Close}) /\ OneAtATime' /\ CloseLast'
  BY <1>1, <1>2, <1>3, Stays DEF Inv, OffLine, Seals
<1>5. Current' /\ Fresh'
  <2>1. Settled' => Settled
    BY <1>1, <1>2 DEF Settled
  <2> QED
    BY <1>1, <1>2, <1>3, <2>1 DEF Inv, Current, Fresh
<1>6. Told'
  <2>1. \A i \in Jobs : Writes(i)' = Writes(i)
    BY <1>1 DEF Writes
  <2>2. \A i \in caught : i \in Jobs /\ i # j
    BY <1>1 DEF Inv, Types
  <2>3. ToldTheTruth'
    BY <1>1, <1>2, <1>3, <2>1 DEF Inv, Told, ToldTheTruth
  <2> QED
    BY <1>1, <1>2, <1>3, <2>2, <2>3 DEF Inv, Told
<1>7. Types'
  BY <1>1, <1>4 DEF Inv, Types, OffLine
<1> QED
  BY <1>1, <1>4, <1>5, <1>6, <1>7 DEF Inv, Sealed, ClosedEndsWatches, Live

-----------------------------------------------------------------------------
(* The running job.                                                        *)

Runs(j) == pc[j] \in Active \/ Starts(j)

\* Between commits, a healthy Session caches what the Storage holds.
LEMMA Known ==
  ASSUME Inv, NEW j \in Jobs, Runs(j), pc[j] # "durable", ~failed
  PROVE  mem.docs \subseteq {doc} /\ Settled
<1>1. \A i \in Jobs : pc[i] # "durable"
  BY Alone DEF Inv, Runs, Starts, Active
<1> QED
  BY <1>1 DEF Inv, Current, Settled

\* What a step of a job may do to the Session beside the job: fail it, or change what it
\* caches without putting it behind the Storage.
Beside ==
    /\ failed' \in BOOLEAN /\ (failed => failed')
    /\ (failed' => closing' # "open") /\ Seals
    /\ watch' \in [Jobs -> WatchType] /\ (closing' # "open" => Live(watch') = {})
    /\ mem' \in CacheType /\ (~failed' => mem'.docs \subseteq {doc})
    /\ UNCHANGED <<kind, reading, doc>>

LEMMA JobEnds ==
  ASSUME Inv, NEW j \in Jobs, Runs(j), Beside, NEW w \in {"ok", "threw", "failed"}, Settle(j, w),
         UNCHANGED <<change, caught, log>>,
         base' \in [Jobs -> DocType], \A i \in Jobs : i # j => base'[i] = base[i],
         w = "failed" => failed', w = "threw" => pc[j] # "durable",
         w = "ok" => j \notin caught /\ (kind[j] = "commit" => pc[j] = "durable" \/ (~Writes(j) /\ UNCHANGED base))
  PROVE  Inv'
<1>1. line # <<>> /\ line[1] = j /\ pc[j] \in OnLine
  BY Alone DEF Inv, Runs, Starts
<1>2. line' = Tail(line) /\ pc' = [pc EXCEPT ![j] = "done"] /\ outcome' = [outcome EXCEPT ![j] = w]
  BY DEF Settle
<1>3. line' \in Seq(Jobs \cup {Close}) /\ OneAtATime' /\ CloseLast'
  BY <1>1, <1>2, Leaves DEF Inv, Beside
<1>4. \A i \in Jobs : i # j => pc'[i] = pc[i]
  BY <1>2 DEF Inv, Types
<1>5. pc'[j] = "done"
  BY <1>2 DEF Inv, Types
<1>6. Current' /\ Fresh'
  BY <1>4, <1>5 DEF Inv, Beside, Current, Fresh
<1>7. Told'
  BY <1>1, <1>2, EndsTold DEF Inv, Beside
<1>8. Types'
  <2>1. pc' \in [Jobs -> OnLine \cup OffLine]
    BY <1>2 DEF Inv, Types, OffLine
  <2>2. outcome' \in [Jobs -> {"none", "ok", "refused", "threw", "failed", "closed"}]
    BY <1>2 DEF Inv, Types
  <2> QED
    BY <1>3, <2>1, <2>2 DEF Inv, Types, Beside, Seals
<1> QED
  BY <1>3, <1>6, <1>7, <1>8 DEF Inv, Beside, Sealed, ClosedEndsWatches, Live, Seals

LEMMA JobGoesOn ==
  ASSUME Inv, NEW j \in Jobs, Runs(j), pc[j] # "durable", Beside,
         NEW p \in Active, p # "durable", line' = line, pc' = [pc EXCEPT ![j] = p],
         p = "backend" => kind[j] = "commit",
         UNCHANGED <<outcome, log>>, failed' = failed, caught' = caught, j \notin caught,
         change' \in [Jobs -> Changes], base' \in [Jobs -> DocType],
         \A i \in Jobs : i # j => change'[i] = change[i] /\ base'[i] = base[i],
         p \in {"ready", "backend"} /\ change'[j] \in OfDoc => base'[j] = doc
  PROVE  Inv'
<1>1. line # <<>> /\ line[1] = j /\ pc[j] \in OnLine
  BY Alone DEF Inv, Runs, Starts
<1>2. line' \in Seq(Jobs \cup {Close}) /\ OneAtATime' /\ CloseLast'
  BY <1>1, GoesOn DEF Inv, Beside
<1>3. \A i \in Jobs : i # j => pc'[i] = pc[i]
  BY DEF Inv, Types
<1>4. pc'[j] = p
  BY DEF Inv, Types
<1>5. Current' /\ Fresh'
  BY <1>3, <1>4 DEF Inv, Beside, Current, Fresh
<1>6. Told'
  <2>1. pc[j] \notin {"durable", "done"} /\ p \in OnLine
    BY <1>1 DEF OnLine, Active
  <2>2. \A i \in Jobs : kind'[i] = kind[i]
    BY DEF Beside
  <2> QED
    BY <2>1, <2>2, GoesOnTold DEF Inv
<1>7. Types'
  <2>1. pc' \in [Jobs -> OnLine \cup OffLine]
    BY DEF Inv, Types, OnLine
  <2> QED
    BY <1>2, <2>1 DEF Inv, Types, Beside, Seals
<1> QED
  BY <1>2, <1>5, <1>6, <1>7 DEF Inv, Beside, Sealed, ClosedEndsWatches, Live, Seals

\* A step that fails the Session, or leaves it as it is.
LEMMA FailBeside ==
  ASSUME Inv, Fail, UNCHANGED <<kind, reading, doc>>
  PROVE  Beside /\ failed'
<1>1. mem \in CacheType /\ watch \in [Jobs -> WatchType] /\ closing \in {"open", "sealed", "queued", "closing", "closed"}
      /\ Sealed /\ (closing # "open" => Live(watch) = {}) /\ FailWith(mem, watch)
  BY DEF Inv, Types, ClosedEndsWatches, Fail
<1> QED
  BY <1>1, FailStep DEF Beside

LEMMA SameBeside ==
  ASSUME Inv, NEW j \in Jobs, Runs(j), pc[j] # "durable", UNCHANGED <<kind, reading, doc, failed, closing, watch>>,
         mem' \in CacheType, mem'.docs \subseteq mem.docs \/ mem'.docs \subseteq {doc}
  PROVE  Beside
<1>1. ~failed => mem.docs \subseteq {doc}
  BY Known
<1> QED
  BY <1>1 DEF Inv, Types, Beside, Seals, Sealed, ClosedEndsWatches, Live

\* The cache a job finds is typed, and what may be done to it keeps it so.
LEMMA CacheTyped == ASSUME Inv PROVE mem \in CacheType /\ doc \in DocType
  BY DEF Inv, Types

LEMMA StartFailedKeeps == ASSUME Inv, NEW j \in Jobs, StartFailed(j) PROVE Inv'
<1>1. /\ Runs(j) /\ pc[j] = "queued" /\ failed /\ Settle(j, "failed")
      /\ UNCHANGED <<failed, closing, mem, watch, reading, doc, log, kind, change, base, caught>>
  BY DEF StartFailed, Runs, Starts, session, storage, callVars
<1>2. Beside
  BY <1>1, SameBeside, CacheTyped
<1> QED
  BY <1>1, <1>2, JobEnds DEF Inv, Types

LEMMA StartAbortedKeeps == ASSUME Inv, NEW j \in Jobs, StartAborted(j) PROVE Inv'
<1>1. /\ Runs(j) /\ pc[j] = "queued" /\ Settle(j, "threw")
      /\ UNCHANGED <<failed, closing, mem, watch, reading, doc, log, kind, change, base, caught>>
  BY DEF StartAborted, Runs, Starts, session, storage, callVars
<1>2. Beside
  BY <1>1, SameBeside, CacheTyped
<1> QED
  BY <1>1, <1>2, JobEnds DEF Inv, Types

LEMMA UnloadKeeps == ASSUME Inv, NEW j \in Jobs, Unload(j) PROVE Inv'
<1>1. /\ Runs(j) /\ pc[j] = "queued" /\ kind[j] = "unload" /\ Settle(j, "ok") /\ mem' = Drop(mem)
      /\ UNCHANGED <<failed, closing, watch, reading, doc, log, kind, change, base, caught>>
  BY DEF Unload, Runs, Starts, storage, callVars
<1>2. Beside
  BY <1>1, SameBeside, CacheTyped, DropOps
<1>3. j \notin caught
  BY <1>1 DEF Inv, Told
<1> QED
  BY <1>1, <1>2, <1>3, JobEnds DEF Inv, Types

\* What a callback finds cached is what the Storage holds.
LEMMA StartKeeps == ASSUME Inv, NEW j \in Jobs, Start(j) PROVE Inv'
<1>1. /\ Runs(j) /\ pc[j] = "queued" /\ ~failed
      /\ UNCHANGED <<line, kind, caught, outcome, failed, closing, watch, reading, doc, log>>
  BY DEF Start, Runs, Starts, storage
<1>2. PICK do \in Changes :
        LET needs == do \in OfDoc \/ kind[j] # "commit"
        IN  /\ change' = [change EXCEPT ![j] = do]
            /\ pc' = [pc EXCEPT ![j] = IF needs /\ mem.docs = {} THEN "reading" ELSE "ready"]
            /\ base' = IF needs /\ mem.docs # {} THEN [base EXCEPT ![j] = CHOOSE d \in mem.docs : TRUE] ELSE base
            /\ mem' = IF needs THEN Touch(mem) ELSE mem
  BY DEF Start, Changes
<1> DEFINE p == IF (do \in OfDoc \/ kind[j] # "commit") /\ mem.docs = {} THEN "reading" ELSE "ready"
<1>3. mem.docs \subseteq {doc}
  BY <1>1, Known
<1>4. Beside
  BY <1>1, <1>2, SameBeside, CacheTyped, TouchOps
<1>5. change' \in [Jobs -> Changes] /\ change'[j] = do /\ \A i \in Jobs : i # j => change'[i] = change[i]
  BY <1>2 DEF Inv, Types
<1>6. mem.docs # {} => (CHOOSE d \in mem.docs : TRUE) = doc
  BY <1>3
<1>7. base' \in [Jobs -> DocType] /\ \A i \in Jobs : i # j => base'[i] = base[i]
  BY <1>2, <1>6, CacheTyped DEF Inv, Types
<1>8. p = "ready" /\ do \in OfDoc => base'[j] = doc
  BY <1>2, <1>6 DEF Inv, Types
<1>9. j \notin caught
  BY <1>1 DEF Inv, Told
<1>10. p \in Active /\ p # "durable" /\ p # "backend" /\ pc' = [pc EXCEPT ![j] = p]
  BY <1>2 DEF Active
<1> HIDE DEF p
<1> QED
  BY <1>1, <1>4, <1>5, <1>7, <1>8, <1>9, <1>10, JobGoesOn

LEMMA ReturnEarlyKeeps == ASSUME Inv, NEW j \in Jobs, ReturnEarly(j) PROVE Inv'
<1>1. /\ Runs(j) /\ pc[j] = "reading" /\ pc' = [pc EXCEPT ![j] = "early"]
      /\ UNCHANGED <<line, outcome, failed, closing, mem, watch, reading, doc, log, kind, change, base, caught>>
  BY DEF ReturnEarly, Runs, Active, session, storage, callVars
<1>2. Beside
  BY <1>1, SameBeside, CacheTyped
<1>3. j \notin caught
  BY <1>1 DEF Inv, Told
<1> QED
  BY <1>1, <1>2, <1>3, JobGoesOn DEF Inv, Types, Active

LEMMA ReadAnswersKeeps == ASSUME Inv, NEW j \in Jobs, ReadAnswers(j) PROVE Inv'
<1>1. /\ Runs(j) /\ pc[j] \in {"reading", "early"}
      /\ mem' = IF doc.live /\ change[j] \in {"none", "set"} THEN Install(mem, doc) ELSE mem
      /\ UNCHANGED <<kind, change, caught, failed, closing, watch, reading, doc, log>>
  BY DEF ReadAnswers, Runs, Active, storage
<1>2. Beside
  BY <1>1, SameBeside, CacheTyped, InstallOps
<1>3. j \notin caught
  BY <1>1 DEF Inv, Told
<1>4. CASE pc[j] = "reading" /\ pc' = [pc EXCEPT ![j] = "ready"] /\ base' = [base EXCEPT ![j] = doc] /\ UNCHANGED <<line, outcome>>
  <2>1. base' \in [Jobs -> DocType] /\ base'[j] = doc /\ \A i \in Jobs : i # j => base'[i] = base[i]
    BY <1>4 DEF Inv, Types
  <2>2. change' \in [Jobs -> Changes]
    BY <1>1 DEF Inv, Types
  <2> QED
    BY <1>1, <1>2, <1>3, <1>4, <2>1, <2>2, JobGoesOn DEF Active
<1>5. CASE pc[j] = "early" /\ Settle(j, "threw") /\ UNCHANGED base
  BY <1>1, <1>2, <1>5, JobEnds DEF Inv, Types
<1> QED
  BY <1>4, <1>5 DEF ReadAnswers

\* A callback that goes on without its document changes none.
LEMMA CatchesKeeps ==
  ASSUME Inv, NEW j \in Jobs, pc[j] \in {"reading", "early"}, Catches(j), Beside,
         UNCHANGED <<base, log>>, caught' = caught \/ (failed' /\ caught' = caught \cup {j})
  PROVE  Inv'
<1>1. /\ Runs(j) /\ pc[j] = "reading" /\ pc' = [pc EXCEPT ![j] = "ready"] /\ kind[j] = "commit"
      /\ change' = [change EXCEPT ![j] = "tables"] /\ UNCHANGED <<line, outcome, kind, reading, doc>>
  BY DEF Catches, Runs, Active, Beside
<1>2. line # <<>> /\ line[1] = j
  BY <1>1, Alone DEF Inv, Active
<1>3. line' \in Seq(Jobs \cup {Close}) /\ OneAtATime' /\ CloseLast'
  BY <1>1, <1>2, GoesOn DEF Inv, Beside, Active
<1>4. /\ pc' \in [Jobs -> OnLine \cup OffLine] /\ pc'[j] = "ready" /\ \A i \in Jobs : i # j => pc'[i] = pc[i]
      /\ change' \in [Jobs -> Changes] /\ change'[j] = "tables" /\ \A i \in Jobs : i # j => change'[i] = change[i]
  BY <1>1 DEF Inv, Types, OnLine, Active, Changes
<1>5. Current' /\ Fresh'
  BY <1>1, <1>4 DEF Inv, Beside, Current, Fresh, OfDoc
<1>6. Told'
  <2>1. \A i \in Jobs : i # j => Writes(i)' = Writes(i)
    BY <1>4 DEF Writes
  <2>2. outcome'[j] = "none" /\ failed' \in BOOLEAN /\ (failed => failed')
    BY <1>1 DEF Inv, Told, Beside
  <2>3. ToldTheTruth'
    <3> SUFFICES ASSUME NEW i \in Jobs
                 PROVE  LET durable == \E k \in DOMAIN log : log[k] = i IN
                        /\ kind[i] = "commit" /\ outcome'[i] = "ok" /\ Writes(i)' => durable
                        /\ outcome'[i] \in {"refused", "threw"} => ~durable
                        /\ outcome'[i] = "failed" => failed'
      BY <1>1 DEF ToldTheTruth
    <3> QED
      BY <1>1, <2>1, <2>2 DEF Inv, Told, ToldTheTruth
  <2>4. \A i \in caught' : i \in Jobs /\ failed' /\ kind'[i] = "commit" /\ pc'[i] \in {"ready", "done"} /\ outcome'[i] # "ok"
    BY <1>1, <1>4, <2>2 DEF Inv, Told, Types
  <2>5. ASSUME NEW i \in Jobs
        PROVE  /\ pc'[i] \notin {"durable", "done"} => \A k \in DOMAIN log : log[k] # i
               /\ pc'[i] = "durable" => \E k \in DOMAIN log : log[k] = i
               /\ pc'[i] # "done" => outcome'[i] = "none"
               /\ pc'[i] \in {"backend", "durable"} => kind'[i] = "commit"
    BY <1>1, <1>4 DEF Inv, Told
  <2> QED
    BY <2>3, <2>4, <2>5 DEF Told
<1>7. Types'
  BY <1>1, <1>3, <1>4 DEF Inv, Types, Beside, Seals
<1> QED
  BY <1>3, <1>5, <1>6, <1>7 DEF Inv, Beside, Sealed, ClosedEndsWatches, Live, Seals

LEMMA ReadFailsKeeps == ASSUME Inv, NEW j \in Jobs, ReadFails(j) PROVE Inv'
<1>1. /\ Runs(j) /\ pc[j] \in {"reading", "early"} /\ Fail
      /\ UNCHANGED <<kind, base, reading, doc, log>>
  BY DEF ReadFails, ReadFault, Runs, Active, storage
<1>2. Beside /\ failed'
  BY <1>1, FailBeside
<1>3. CASE Catches(j) /\ caught' = caught \cup {j}
  BY <1>1, <1>2, <1>3, CatchesKeeps
<1>4. CASE Settle(j, "failed") /\ UNCHANGED <<change, caught>>
  BY <1>1, <1>2, <1>4, JobEnds DEF Inv, Types
<1> QED
  BY <1>3, <1>4 DEF ReadFails

LEMMA ReadRefusedKeeps == ASSUME Inv, NEW j \in Jobs, ReadRefused(j) PROVE Inv'
<1>1. /\ Runs(j) /\ pc[j] \in {"reading", "early"}
      /\ UNCHANGED <<kind, base, caught, failed, closing, mem, watch, reading, doc, log>>
  BY DEF ReadRefused, Runs, Active, session, storage
<1>2. Beside
  BY <1>1, SameBeside, CacheTyped
<1>3. CASE Catches(j)
  BY <1>1, <1>2, <1>3, CatchesKeeps
<1>4. CASE Settle(j, "threw") /\ UNCHANGED change
  BY <1>1, <1>2, <1>4, JobEnds DEF Inv, Types
<1> QED
  BY <1>3, <1>4 DEF ReadRefused

LEMMA SnapshotKeeps == ASSUME Inv, NEW j \in Jobs, Snapshot(j) PROVE Inv'
<1>1. /\ Runs(j) /\ pc[j] = "ready" /\ kind[j] = "snapshot" /\ Settle(j, "ok")
      /\ UNCHANGED <<failed, closing, mem, watch, reading, doc, log, kind, change, base, caught>>
  BY DEF Snapshot, Runs, Active, session, storage, callVars
<1>2. Beside
  BY <1>1, SameBeside, CacheTyped
<1>3. j \notin caught
  BY <1>1 DEF Inv, Told
<1> QED
  BY <1>1, <1>2, <1>3, JobEnds DEF Inv, Types

\* A Session that began to close refuses the watch.
LEMMA AttachKeeps == ASSUME Inv, NEW j \in Jobs, Attach(j) PROVE Inv'
<1>1. /\ Runs(j) /\ pc[j] = "ready" /\ kind[j] = "watch"
      /\ mem' = IF base[j].live THEN Pin(mem, j, base[j].inc) ELSE mem
      /\ Settle(j, IF base[j].live /\ ~MayObserve THEN "threw" ELSE "ok")
      /\ UNCHANGED <<failed, closing, reading, doc, log, kind, change, base, caught>>
  BY DEF Attach, Runs, Active, storage, callVars
<1>2. j \notin caught /\ base[j] \in DocType
  BY <1>1 DEF Inv, Told, Types
<1>3. mem' \in CacheType /\ mem'.docs = mem.docs
  <2>1. base[j].inc \in Nat
    BY <1>2 DEF DocType
  <2>2. Pin(mem, j, base[j].inc) \in CacheType /\ Pin(mem, j, base[j].inc).docs = mem.docs
    BY <2>1, CacheTyped, PinOps
  <2> QED
    BY <1>1, <2>2, CacheTyped
<1>4. watch' \in [Jobs -> WatchType] /\ (closing # "open" => watch' = watch)
  <2>1. CASE base[j].live /\ MayObserve
    <3>1. watch' = [watch EXCEPT ![j] = [state |-> "live", inc |-> base[j].inc, last |-> base[j]]]
      BY <2>1 DEF Attach
    <3>2. [state |-> "live", inc |-> base[j].inc, last |-> base[j]] \in WatchType
      BY <1>2 DEF WatchType, DocType
    <3> QED
      BY <2>1, <3>1, <3>2 DEF Inv, Types, MayObserve, Usable
  <2>2. CASE ~(base[j].live /\ MayObserve)
    BY <2>2 DEF Attach, Inv, Types
  <2> QED
    BY <2>1, <2>2
<1>5. Beside
  <2>1. ~failed => mem.docs \subseteq {doc}
    BY <1>1, Known
  <2> QED
    BY <1>1, <1>3, <1>4, <2>1 DEF Beside, Inv, Types, Sealed, Seals, ClosedEndsWatches, Live
<1>6. PICK w \in {"ok", "threw"} : Settle(j, w)
  BY <1>1
<1> QED
  BY <1>1, <1>2, <1>5, <1>6, JobEnds DEF Inv, Types

-----------------------------------------------------------------------------
(* Commits.                                                                *)

LEMMA CallbackThrowsKeeps == ASSUME Inv, NEW j \in Jobs, CallbackThrows(j) PROVE Inv'
<1>1. /\ Runs(j) /\ pc[j] = "ready" /\ Settle(j, "threw") /\ mem' \in Swept(mem)
      /\ UNCHANGED <<failed, closing, watch, reading, doc, log, kind, change, base, caught>>
  BY DEF CallbackThrows, Runs, Active, storage, callVars
<1>2. Beside
  BY <1>1, SameBeside, CacheTyped, SweptOps
<1> QED
  BY <1>1, <1>2, JobEnds DEF Inv, Types

\* A batch goes to the Storage only from a healthy Session.
LEMMA CallbackReturnsKeeps == ASSUME Inv, NEW j \in Jobs, CallbackReturns(j) PROVE Inv'
<1>1. /\ Runs(j) /\ pc[j] = "ready" /\ kind[j] = "commit"
      /\ UNCHANGED <<failed, closing, watch, reading, doc, log, kind, change, base, caught>>
  BY DEF CallbackReturns, Runs, Active, storage, callVars
<1>2. j \in caught => failed
  BY DEF Inv, Told
<1>3. CASE StillHealthy /\ Writes(j)
  <2>1. pc' = [pc EXCEPT ![j] = "backend"] /\ UNCHANGED <<line, outcome, mem>>
    BY <1>3 DEF CallbackReturns
  <2>2. Beside
    BY <1>1, <2>1, SameBeside, CacheTyped
  <2>3. change[j] \in OfDoc => base[j] = doc
    BY <1>1 DEF Inv, Fresh
  <2>4. j \notin caught
    BY <1>2, <1>3 DEF StillHealthy
  <2> QED
    BY <1>1, <2>1, <2>2, <2>3, <2>4, JobGoesOn DEF Active, Inv, Types
<1>4. CASE ~(StillHealthy /\ Writes(j))
  <2>1. Settle(j, IF StillHealthy THEN "ok" ELSE "failed") /\ mem' \in Swept(mem)
    BY <1>4 DEF CallbackReturns
  <2>2. Beside
    BY <1>1, <2>1, SameBeside, CacheTyped, SweptOps
  <2>3. CASE StillHealthy
    <3>1. Settle(j, "ok") /\ j \notin caught /\ ~Writes(j)
      BY <1>2, <1>4, <2>1, <2>3 DEF StillHealthy
    <3> QED
      BY <1>1, <2>2, <3>1, JobEnds DEF Inv, Types
  <2>4. CASE ~StillHealthy
    <3>1. Settle(j, "failed") /\ failed'
      BY <1>1, <2>1, <2>4 DEF StillHealthy
    <3> QED
      BY <1>1, <2>2, <3>1, JobEnds DEF Inv, Types
  <2> QED
    BY <2>3, <2>4
<1> QED
  BY <1>3, <1>4

LEMMA AfterType == ASSUME NEW d \in DocType, NEW do, NEW n \in Nat PROVE After(d, do, n) \in DocType
<1>1. [d EXCEPT !.live = FALSE, !.ver = n] \in DocType
  BY DEF DocType
<1>2. [d EXCEPT !.ver = n] \in DocType
  BY DEF DocType
<1>3. [inc |-> d.inc + 1, ver |-> n, live |-> TRUE] \in DocType
  BY DEF DocType
<1>4. CASE do = "retire"
  BY <1>1, <1>4 DEF After
<1>5. CASE do = "set" /\ d.live
  BY <1>2, <1>5 DEF After
<1>6. CASE do # "retire" /\ ~(do = "set" /\ d.live)
  BY <1>3, <1>6 DEF After
<1> QED
  BY <1>4, <1>5, <1>6

\* Only the running job's batch becomes durable; no other job has read the document.
LEMMA BackendCommitsKeeps == ASSUME Inv, NEW j \in Jobs, BackendCommits(j) PROVE Inv'
<1>1. /\ Runs(j) /\ pc[j] = "backend" /\ pc' = [pc EXCEPT ![j] = "durable"]
      /\ log' = Append(log, j)
      /\ doc' = IF change[j] \in OfDoc THEN After(base[j], change[j], Len(log) + 1) ELSE doc
      /\ UNCHANGED <<line, outcome, failed, closing, mem, watch, reading, kind, change, base, caught>>
  BY DEF BackendCommits, Runs, Active, session, callVars
<1>2. line # <<>> /\ line[1] = j /\ \A i \in Jobs : i # j => pc[i] \notin Active
  BY <1>1, Alone DEF Inv, Active
<1>3. line' \in Seq(Jobs \cup {Close}) /\ OneAtATime' /\ CloseLast'
  BY <1>1, <1>2, GoesOn DEF Inv, Seals, Active
<1>4. pc' \in [Jobs -> OnLine \cup OffLine] /\ pc'[j] = "durable" /\ \A i \in Jobs : i # j => pc'[i] = pc[i]
  BY <1>1 DEF Inv, Types, OnLine, Active
<1>5. /\ log' \in Seq(Jobs) /\ Len(log) + 1 \in DOMAIN log' /\ log'[Len(log) + 1] = j
      /\ DOMAIN log' = DOMAIN log \cup {Len(log) + 1}
      /\ \A k \in DOMAIN log : log'[k] = log[k]
  BY <1>1, AppendFacts DEF Inv, Types
<1>6. doc' \in DocType
  <2>1. base[j] \in DocType /\ doc \in DocType /\ Len(log) + 1 \in Nat
    BY DEF Inv, Types
  <2> QED
    BY <1>1, <2>1, AfterType
<1>7. Current' /\ Fresh'
  <2>1. CASE change[j] \in OfDoc
    <3>1. ~Settled'
      BY <1>1, <1>4, <2>1 DEF Settled
    <3> QED
      BY <1>1, <1>2, <1>4, <3>1 DEF Inv, Current, Fresh, Active
  <2>2. CASE change[j] \notin OfDoc
    <3>1. ~failed => mem.docs \subseteq {doc}
      BY <1>1, Known
    <3> QED
      BY <1>1, <1>2, <1>4, <2>2, <3>1 DEF Inv, Current, Fresh, Active
  <2> QED
    BY <2>1, <2>2
<1>8. \A i \in Jobs : i # j => ((\E k \in DOMAIN log' : log'[k] = i) <=> (\E k \in DOMAIN log : log[k] = i))
  BY <1>5
<1>9. Told'
  <2>1. \A i \in Jobs : Writes(i)' = Writes(i)
    BY <1>1 DEF Writes
  <2>2. outcome[j] = "none" /\ kind[j] = "commit" /\ j \notin caught
    BY <1>1 DEF Inv, Told
  <2>3. ToldTheTruth'
    <3> SUFFICES ASSUME NEW i \in Jobs
                 PROVE  LET durable == \E k \in DOMAIN log' : log'[k] = i IN
                        /\ kind[i] = "commit" /\ outcome[i] = "ok" /\ Writes(i) => durable
                        /\ outcome[i] \in {"refused", "threw"} => ~durable
                        /\ outcome[i] = "failed" => failed
      BY <1>1, <2>1 DEF ToldTheTruth
    <3>1. CASE i = j
      BY <2>2, <3>1
    <3>2. CASE i # j
      BY <1>8, <3>2 DEF Inv, Told, ToldTheTruth
    <3> QED
      BY <3>1, <3>2
  <2>4. \A i \in caught : i \in Jobs /\ i # j
    BY <2>2 DEF Inv, Types
  <2>5. ASSUME NEW i \in Jobs
        PROVE  /\ pc'[i] \notin {"durable", "done"} => \A k \in DOMAIN log' : log'[k] # i
               /\ pc'[i] = "durable" => \E k \in DOMAIN log' : log'[k] = i
               /\ pc'[i] # "done" => outcome'[i] = "none"
               /\ pc'[i] \in {"backend", "durable"} => kind'[i] = "commit"
    <3>1. CASE i = j
      BY <1>1, <1>4, <1>5, <2>2, <3>1
    <3>2. CASE i # j
      BY <1>1, <1>4, <1>8, <3>2 DEF Inv, Told
    <3> QED
      BY <3>1, <3>2
  <2>6. \A i \in caught' : failed' /\ kind'[i] = "commit" /\ pc'[i] \in {"ready", "done"} /\ outcome'[i] # "ok"
    BY <1>1, <1>4, <2>4 DEF Inv, Told
  <2> QED
    BY <2>3, <2>5, <2>6 DEF Told
<1>10. Types'
  BY <1>1, <1>3, <1>4, <1>5, <1>6 DEF Inv, Types
<1> QED
  BY <1>1, <1>3, <1>7, <1>9, <1>10 DEF Inv, Sealed, ClosedEndsWatches, Live

\* What watches are given leaves them as live as they were.
LEMMA FedWatches ==
  ASSUME Inv, NEW j \in Jobs, NEW js
  PROVE  LET ws == [i \in Jobs |-> IF change[j] \in OfDoc /\ i \in js THEN Given(watch[i], doc) ELSE watch[i]]
         IN  ws \in [Jobs -> WatchType] /\ Live(ws) = Live(watch)
<1>1. ASSUME NEW i \in Jobs PROVE Given(watch[i], doc) \in WatchType /\ Given(watch[i], doc).state = watch[i].state
  <2>1. watch[i] \in WatchType /\ doc \in DocType
    BY DEF Inv, Types
  <2>2. [watch[i].last EXCEPT !.live = FALSE, !.ver = doc.ver] \in DocType
    BY <2>1 DEF WatchType, DocType
  <2> QED
    BY <2>1, <2>2 DEF Given, WatchType
<1> QED
  BY <1>1 DEF Inv, Types, Live

\* A commit that returns to a healthy Session leaves the cache as the Storage is.
LEMMA CommitReturnsKeeps == ASSUME Inv, NEW j \in Jobs, CommitReturns(j) PROVE Inv'
<1> DEFINE touched == change[j] \in OfDoc
           m == IF touched THEN Adopted(mem, doc) ELSE mem
           Fed(js) == [i \in Jobs |-> IF touched /\ i \in js THEN Given(watch[i], doc) ELSE watch[i]]
           Retired(ws) == {i \in Live(ws) : ~ws[i].last.live}
<1>1. /\ Runs(j) /\ pc[j] = "durable"
      /\ UNCHANGED <<kind, change, base, caught, reading, doc, log>>
  BY DEF CommitReturns, Runs, Active, storage
<1>2. /\ \/ Discarded /\ Settle(j, "failed") /\ UNCHANGED <<session, acked>>
         \/ /\ ~Discarded /\ Settle(j, "ok")
            /\ watch' = Fed(Live(watch)) /\ mem' \in Swept(Unpin(m, Retired(Fed(Live(watch)))))
            /\ UNCHANGED <<failed, closing>>
         \/ /\ ~Discarded /\ Settle(j, "ok")
            /\ \E js \in SUBSET Live(watch) : \E left \in Swept(Unpin(m, Live(watch))) : FailWith(left, Fed(js))
         \/ ~Discarded /\ Settle(j, "failed") /\ Fail
  BY DEF CommitReturns
<1>3. \A js : Fed(js) \in [Jobs -> WatchType] /\ Live(Fed(js)) = Live(watch)
  BY FedWatches
<1>4. m \in CacheType /\ (~failed => m.docs \subseteq {doc})
  <2>1. CASE touched
    BY <2>1, AdoptedDocs, CacheTyped
  <2>2. CASE ~touched
    <3>1. \A i \in Jobs : i # j => pc[i] # "durable"
      BY <1>1, Alone DEF Inv, Active
    <3> QED
      BY <2>2, <3>1, CacheTyped DEF Inv, Current, Settled
  <2> QED
    BY <2>1, <2>2
<1>5. j \notin caught /\ base \in [Jobs -> DocType]
  BY <1>1 DEF Inv, Told, Types
<1>6. Live(watch) \in SUBSET Jobs /\ (closing # "open" => Live(watch) = {}) /\ Sealed
      /\ closing \in {"open", "sealed", "queued", "closing", "closed"} /\ failed \in BOOLEAN
  BY DEF Inv, Types, ClosedEndsWatches, Live
<1> HIDE DEF touched, m, Fed, Retired
<1>7. CASE Discarded /\ Settle(j, "failed") /\ UNCHANGED <<session, acked>>
  <2>1. failed /\ UNCHANGED <<failed, closing, mem, watch>>
    BY <1>7 DEF Discarded, session
  <2>2. Beside
    BY <1>1, <1>6, <2>1, CacheTyped DEF Beside, Seals, Sealed, Inv, Types, Live
  <2> QED
    BY <1>1, <1>5, <1>7, <2>1, <2>2, JobEnds
<1>8. CASE /\ ~Discarded /\ Settle(j, "ok")
           /\ watch' = Fed(Live(watch)) /\ mem' \in Swept(Unpin(m, Retired(Fed(Live(watch)))))
           /\ UNCHANGED <<failed, closing>>
  <2>1. Unpin(m, Retired(Fed(Live(watch)))) \in CacheType /\ Unpin(m, Retired(Fed(Live(watch)))).docs = m.docs
    BY <1>4, UnpinOps
  <2>2. mem' \in CacheType /\ mem'.docs \subseteq m.docs
    BY <1>8, <2>1, SweptOps
  <2>3. Beside
    BY <1>1, <1>3, <1>4, <1>6, <1>8, <2>2 DEF Beside, Seals, Sealed
  <2> QED
    BY <1>1, <1>5, <1>8, <2>3, JobEnds
<1>9. CASE /\ ~Discarded /\ Settle(j, "ok")
           /\ \E js \in SUBSET Live(watch) : \E left \in Swept(Unpin(m, Live(watch))) : FailWith(left, Fed(js))
  <2>1. PICK js \in SUBSET Live(watch), left \in Swept(Unpin(m, Live(watch))) : FailWith(left, Fed(js))
    BY <1>9
  <2>l. left \in CacheType
    BY <1>4, UnpinOps, SweptOps
  <2>2. /\ failed' = TRUE /\ mem' \in CacheType /\ watch' \in [Jobs -> WatchType]
        /\ Seals /\ closing' # "open" /\ Live(watch') = {}
    BY <1>3, <1>6, <2>1, <2>l, FailStep
  <2>3. Beside
    BY <1>1, <2>2 DEF Beside
  <2> QED
    BY <1>1, <1>5, <1>9, <2>3, JobEnds
<1>10. CASE ~Discarded /\ Settle(j, "failed") /\ Fail
  BY <1>1, <1>5, <1>10, FailBeside, JobEnds
<1> QED
  BY <1>2, <1>7, <1>8, <1>9, <1>10

LEMMA CommitRejectedKeeps == ASSUME Inv, NEW j \in Jobs, CommitRejected(j) PROVE Inv'
<1>1. /\ Runs(j) /\ Fail /\ Settle(j, "failed")
      /\ UNCHANGED <<reading, doc, log, kind, change, base, caught>>
  BY DEF CommitRejected, CommitFault, Runs, Active, storage, callVars
<1> QED
  BY <1>1, FailBeside, JobEnds DEF Inv, Types

-----------------------------------------------------------------------------
(* Steps of no job.                                                        *)

LEMMA OffTheLine ==
  ASSUME Inv, UNCHANGED <<line, pc, outcome, doc, log, kind, change, base, caught>>,
         failed' \in BOOLEAN, failed => failed', failed' => closing' # "open", Seals,
         watch' \in [Jobs -> WatchType], closing' # "open" => Live(watch') = {},
         mem' \in CacheType, ~failed' => mem'.docs \subseteq mem.docs,
         closing' = "closed" => reading' = {}
  PROVE  Inv'
<1>1. line' \in Seq(Jobs \cup {Close}) /\ OneAtATime' /\ CloseLast'
  BY Stays DEF Inv
<1>2. Current' /\ Fresh' /\ Told'
  BY SameTold DEF Inv, Current, Fresh, Settled
<1>3. Types'
  BY DEF Inv, Types, Seals
<1> QED
  BY <1>1, <1>2, <1>3 DEF Inv, Sealed, ClosedEndsWatches, Live

LEMMA EndWatchKeeps == ASSUME Inv, NEW j \in Jobs, EndWatch(j) PROVE Inv'
<1>1. /\ watch' = [watch EXCEPT ![j].state = "stopped"] /\ mem' = Unpin(mem, {j})
      /\ UNCHANGED <<line, pc, outcome, failed, closing, reading, doc, log, kind, change, base, caught>>
  BY DEF EndWatch, storage, callVars
<1>2. mem' \in CacheType /\ mem'.docs = mem.docs
  BY <1>1, CacheTyped, UnpinOps
<1>3. watch' \in [Jobs -> WatchType] /\ Live(watch') \subseteq Live(watch)
  BY <1>1 DEF Inv, Types, WatchType, Live
<1> QED
  BY <1>1, <1>2, <1>3, OffTheLine DEF Inv, Types, Sealed, Seals, ClosedEndsWatches

LEMMA StartReadKeeps == ASSUME Inv, NEW r \in Readers, StartRead(r) PROVE Inv'
<1>1. /\ closing # "closed"
      /\ UNCHANGED <<line, pc, outcome, failed, closing, mem, watch, doc, log, kind, change, base, caught>>
  BY DEF StartRead, session, storage, callVars
<1> QED
  BY <1>1, OffTheLine, CacheTyped DEF Inv, Types, Sealed, Seals, ClosedEndsWatches, Live

LEMMA EndReadKeeps == ASSUME Inv, NEW r \in Readers, EndRead(r) PROVE Inv'
<1>1. /\ reading' = reading \ {r} /\ UNCHANGED <<line, pc, outcome, doc, log, kind, change, base, caught>>
      /\ closing = "closed" => reading' = {}
  BY DEF EndRead, storage, callVars, Inv
<1>2. CASE Fail
  <2>1. mem \in CacheType /\ watch \in [Jobs -> WatchType] /\ closing \in {"open", "sealed", "queued", "closing", "closed"}
        /\ Sealed /\ (closing # "open" => Live(watch) = {}) /\ FailWith(mem, watch)
    BY <1>2 DEF Inv, Types, ClosedEndsWatches, Fail
  <2>2. /\ failed' = TRUE /\ mem' \in CacheType /\ watch' \in [Jobs -> WatchType]
        /\ Seals /\ closing' # "open" /\ Live(watch') = {}
    BY <2>1, FailStep
  <2> QED
    BY <1>1, <2>2, OffTheLine DEF Seals
<1>3. CASE UNCHANGED session
  BY <1>1, <1>3, OffTheLine, CacheTyped DEF session, Inv, Types, Sealed, Seals, ClosedEndsWatches, Live
<1> QED
  BY <1>2, <1>3 DEF EndRead

LEMMA SweepJobKeeps == ASSUME Inv, SweepJob PROVE Inv'
<1>1. /\ mem' = Drop(mem)
      /\ UNCHANGED <<line, pc, outcome, failed, closing, watch, reading, doc, log, kind, change, base, caught>>
  BY DEF SweepJob, storage, callVars
<1>2. mem' \in CacheType /\ mem'.docs = {}
  BY <1>1, CacheTyped, DropOps
<1> QED
  BY <1>1, <1>2, OffTheLine DEF Inv, Types, Sealed, Seals, ClosedEndsWatches, Live

-----------------------------------------------------------------------------
(* The theorems.                                                           *)

LEMMA InitInv == ASSUME Init PROVE Inv
<1> USE DEF Init
<1>1. Types
  <2>1. NoDoc \in DocType
    BY DEF NoDoc, DocType
  <2>2. NoWatch \in WatchType
    BY <2>1 DEF NoWatch, WatchType
  <2>3. mem \in CacheType
    BY DEF CacheType
  <2>4. line \in Seq(Jobs \cup {Close}) /\ log \in Seq(Jobs)
    OBVIOUS
  <2> QED
    BY <2>1, <2>2, <2>3, <2>4 DEF Types, OffLine, Changes
<1>2. OneAtATime /\ CloseLast
  BY DEF OneAtATime, CloseLast, OnLine, Active
<1>3. Told
  BY DEF Told, ToldTheTruth
<1>4. Current /\ Fresh
  BY DEF Current, Fresh
<1>5. Sealed /\ ClosedEndsWatches /\ reading = {}
  BY DEF Sealed, ClosedEndsWatches
<1> QED
  BY <1>1, <1>2, <1>3, <1>4, <1>5 DEF Inv

LEMMA StutterKeeps == ASSUME Inv, UNCHANGED vars PROVE Inv'
<1>1. UNCHANGED <<line, pc, kind, change, base, caught, outcome, failed, closing, reading, doc, log, mem, watch>>
  BY DEF vars
<1> QED
  BY <1>1, OffTheLine, CacheTyped DEF Inv, Types, Sealed, Seals, ClosedEndsWatches, Live

LEMMA StepInv == ASSUME Inv, [Next]_vars PROVE Inv'
<1>1. ASSUME NEW j \in Jobs, Step(j) PROVE Inv'
  BY <1>1, StartFailedKeeps, StartAbortedKeeps, UnloadKeeps, StartKeeps, ReadAnswersKeeps, ReadFailsKeeps,
     ReadRefusedKeeps, SnapshotKeeps, AttachKeeps, CallbackThrowsKeeps, CallbackReturnsKeeps,
     BackendCommitsKeeps, CommitReturnsKeeps, CommitRejectedKeeps, CloseAgainKeeps DEF Step
<1>2. ASSUME NEW j \in Jobs, Call(j) \/ CallClose(j) \/ ReturnEarly(j) \/ EndWatch(j) PROVE Inv'
  BY <1>2, CallKeeps, CallCloseKeeps, ReturnEarlyKeeps, EndWatchKeeps
<1>3. CASE Closes
  BY <1>3, BeforeCloseKeeps, CloseRunsKeeps, CloseBackendKeeps DEF Closes
<1>4. ASSUME NEW r \in Readers, StartRead(r) \/ EndRead(r) PROVE Inv'
  BY <1>4, StartReadKeeps, EndReadKeeps
<1>5. CASE SweepJob
  BY <1>5, SweepJobKeeps
<1>6. CASE UNCHANGED vars
  BY <1>6, StutterKeeps
<1> QED
  BY <1>1, <1>2, <1>3, <1>4, <1>5, <1>6 DEF Next

\* The strengthening holds in every reachable state: one job at a time, the close last, and
\* a cache that is the Storage between commits (#mutationTail, #call, #documents).
THEOREM LineCorrect == Spec => []Inv
<1>1. Init => Inv
  BY InitInv
<1>2. Inv /\ [Next]_vars => Inv'
  BY StepInv
<1> QED
  BY <1>1, <1>2, PTL DEF Spec

\* A batch reaches the Storage with its document as the callback read it: #commitBatch
\* never overwrites a change the callback did not see.
THEOREM NothingLost == Spec => []NoLostUpdate
<1>1. Inv => NoLostUpdate
  BY DEF Inv, Fresh, NoLostUpdate
<1> QED
  BY <1>1, LineCorrect, PTL

\* Callers are told what became of their commit, and a callback that caught a failure of
\* the Storage does not commit past it (#commitAndPublish, #assertHealthy).
THEOREM Contained == Spec => []FailureContained
<1>1. Inv => FailureContained
  BY DEF Inv, Told, FailureContained, CaughtNeverCommits
<1> QED
  BY <1>1, LineCorrect, PTL

\* A close comes after everything admitted before it, waits for every call underway, and
\* leaves no watch (close(), #attachDocument).
THEOREM Closing == Spec => []CloseIsFinal
<1>1. ASSUME Inv, closing \in {"closing", "closed"}, NEW j \in Jobs
      PROVE  pc[j] \in OffLine \/ kind[j] = "unload"
  <2>1. CASE pc[j] \in OnLine
    <3>1. PICK i \in DOMAIN line : line[i] = j
      BY <1>1, <2>1 DEF Inv, OneAtATime
    <3>2. CASE closing = "closed"
      BY <1>1, <3>1, <3>2 DEF Inv, CloseLast
    <3>3. CASE closing = "closing"
      <4>1. line # <<>> /\ line[1] = Close /\ 1 \in DOMAIN line /\ i # 1
        BY <1>1, <3>1, <3>3, TailFacts, CloseAssumption DEF Inv, CloseLast, Types
      <4>2. 1 < i
        BY <1>1, <4>1 DEF Inv, Types
      <4> QED
        BY <1>1, <3>1, <4>1, <4>2 DEF Inv, CloseLast
    <3> QED
      BY <1>1, <3>2, <3>3
  <2>2. CASE pc[j] \notin OnLine
    BY <1>1, <2>2 DEF Inv, Types
  <2> QED
    BY <2>1, <2>2
<1>2. Inv => CloseIsFinal
  BY <1>1 DEF Inv, CloseIsFinal, CloseComesLast, OffLine
<1> QED
  BY <1>2, LineCorrect, PTL

\* Once the Session failed no batch is handed to the Storage (#assertHealthy).
THEOREM FailedIsSilent == Spec => FailedNeverWrites
<1> DEFINE Silent == failed => \A j \in Jobs : pc'[j] = "backend" => pc[j] = "backend"
<1>1. ASSUME Inv, Next PROVE Silent
  <2>1. ASSUME NEW i \in Jobs, NEW p, pc' = [pc EXCEPT ![i] = p], p # "backend" PROVE Silent
    BY <1>1, <2>1 DEF Inv, Types
  <2>2. ASSUME NEW i \in Jobs, Step(i), ~CallbackReturns(i) PROVE Silent
    BY <2>1, <2>2 DEF Step, StartFailed, StartAborted, Unload, Start, ReadAnswers, ReadFails, ReadRefused, Catches,
       Snapshot, Attach, CallbackThrows, BackendCommits, CommitReturns, CommitRejected, CloseAgain, Settle
  <2>3. ASSUME NEW i \in Jobs, CallbackReturns(i), failed PROVE Silent
    BY <2>1, <2>3 DEF CallbackReturns, StillHealthy, Settle
  <2>4. ASSUME NEW i \in Jobs, Call(i) \/ CallClose(i) \/ ReturnEarly(i) \/ EndWatch(i) PROVE Silent
    BY <2>1, <2>4 DEF Call, CallClose, ReturnEarly, EndWatch
  <2>5. CASE CloseBackend
    BY <2>5 DEF CloseBackend
  <2>6. CASE BeforeClose \/ CloseRuns \/ SweepJob \/ \E r \in Readers : StartRead(r) \/ EndRead(r)
    BY <2>6 DEF BeforeClose, CloseRuns, SweepJob, StartRead, EndRead
  <2>7. CASE ~failed
    BY <2>7
  <2> QED
    BY <1>1, <2>2, <2>3, <2>4, <2>5, <2>6, <2>7 DEF Next, Closes
<1>2. Inv /\ [Next]_vars => [Silent]_vars
  BY <1>1
<1> QED
  BY <1>2, LineCorrect, PTL DEF Spec, FailedNeverWrites

-----------------------------------------------------------------------------
(* The document cache and its readers: a tracker is what the Storage holds, *)
(* is idle or watched and never both, and neither a snapshot nor a watch is *)
(* behind what it was promised.                                             *)


\* A commit of the document is durable and not adopted: memory shows its base.
Changing(j) == pc[j] = "durable" /\ change[j] \in OfDoc

\* Versions and incarnations only grow, and nobody has seen a later one than the Storage's.
Numbered ==
    /\ acked \in Nat /\ acked <= doc.ver
    /\ floor \in [Jobs -> Nat] /\ \A j \in Jobs : floor[j] <= acked
    /\ doc.ver <= Len(log) /\ doc.inc <= Len(log)
    /\ \A j \in Jobs : base[j].ver <= doc.ver /\ base[j].inc <= doc.inc
    /\ \A d \in mem.docs : d.live /\ d.ver <= doc.ver /\ d.inc <= doc.inc
    /\ \A c, d \in mem.docs : c = d
    /\ mem.idle => mem.docs # {}

\* What is cached beside a change under way, and what the running job read.
Cached ==
    /\ \A j \in Jobs : Changing(j) => doc = After(base[j], change[j], Len(log))
    /\ ~failed => \A d \in mem.docs : acked <= d.ver
    /\ ~failed => \A j \in Jobs : Changing(j) => mem.docs \subseteq {base[j]}
    /\ \A j \in Jobs : pc[j] \in {"reading", "early"} => mem.docs = {}
    /\ \A j \in Jobs : pc[j] = "ready" /\ kind[j] # "commit" => base[j] = doc

\* A watch shows document d, or knows its incarnation retired.
Follows(w, d) ==
    /\ w.last.inc = w.inc /\ w.inc <= d.inc
    /\ w.last.live => w.last = d
    /\ ~w.last.live => d.inc > w.inc \/ ~d.live

\* A watch is of a call that returned, and follows what memory shows.
Watched ==
    ~failed => \A w \in Live(watch) :
        /\ pc[w] = "done"
        /\ Settled => Follows(watch[w], doc)
        /\ \A j \in Jobs : Changing(j) => Follows(watch[w], base[j])

\* A tracker is idle unless pinned, and the pins are those of the watches that are not retired.
Evictable(m) == m.idle <=> m.docs # {} /\ ~Attached(m)
Pinning(ws) == {j \in Live(ws) : ws[j].last.live}
PinsOf(ws) == {<<j, ws[j].inc>> : j \in Pinning(ws)}
Held(m, ws) == Evictable(m) /\ m.pins = PinsOf(ws)
Kept == closing = "open" => Held(mem, watch)

More == Numbered /\ Cached /\ Watched /\ Kept /\ SnapshotsAreCurrent

\* A job is in the log once.
Entries == {log[i] : i \in DOMAIN log}
Logged == Cardinality(Entries) = Len(log)

-----------------------------------------------------------------------------
(* What the cache operators keep.                                          *)

Single(m) == \A c, d \in m.docs : c = d

LEMMA TouchHeld ==
  ASSUME NEW m \in CacheType
  PROVE  /\ Touch(m).pins = m.pins /\ (Touch(m).idle => m.idle \/ m.docs # {})
         /\ Evictable(m) => Evictable(Touch(m))
<1>1. CASE m.docs = {} \/ Attached(m)
  BY <1>1 DEF Touch
<1>2. CASE ~(m.docs = {} \/ Attached(m))
  <2>1. Touch(m) = [m EXCEPT !.idle = TRUE]
    BY <1>2 DEF Touch
  <2>2. Touch(m).idle /\ Touch(m).docs = m.docs /\ Touch(m).pins = m.pins
    BY <2>1 DEF CacheType
  <2>3. ~Attached(Touch(m))
    BY <1>2, <2>2 DEF Attached
  <2> QED
    BY <1>2, <2>2, <2>3 DEF Evictable
<1> QED
  BY <1>1, <1>2

LEMMA DropHeld ==
  ASSUME NEW m \in CacheType
  PROVE  Drop(m).pins = m.pins /\ ~Drop(m).idle /\ Evictable(Drop(m))
<1>1. Drop(m).pins = m.pins /\ ~Drop(m).idle /\ Drop(m).docs = {}
  BY DEF Drop, CacheType
<1> QED
  BY <1>1 DEF Evictable

\* A tracker takes the place of none, or of one of its incarnation.
LEMMA InstallHeld ==
  ASSUME NEW m \in CacheType, NEW d \in DocType
  PROVE  /\ Install(m, d).pins = m.pins
         /\ Evictable(m) /\ (\A c \in m.docs : c.inc = d.inc) => Evictable(Install(m, d))
<1> DEFINE n == [m EXCEPT !.docs = {d}]
<1>1. n \in CacheType /\ n.docs = {d} /\ n.pins = m.pins /\ n.idle = m.idle
  BY DEF CacheType
<1>2. Install(m, d) = Touch(n)
  BY DEF Install
<1> HIDE DEF n
<1>3. Touch(n).pins = n.pins /\ (Evictable(n) => Evictable(Touch(n))) /\ Touch(n).docs = {d}
  BY <1>1, TouchHeld, TouchOps
<1>4. ASSUME Evictable(m), \A c \in m.docs : c.inc = d.inc PROVE Evictable(Touch(n))
  <2>1. CASE Evictable(n)
    BY <1>3, <2>1
  <2>2. CASE ~Evictable(n)
    <3>1. ~m.idle /\ ~Attached(n)
      <4>1. m.docs # {} => (Attached(m) <=> Attached(n))
        BY <1>1, <1>4 DEF Attached
      <4> QED
        BY <1>1, <1>4, <2>2, <4>1 DEF Evictable
    <3>2. Touch(n).idle
      BY <1>1, <3>1 DEF Touch, CacheType
    <3>3. ~Attached(Touch(n))
      BY <1>3, <1>1, <3>1 DEF Attached
    <3> QED
      BY <1>3, <3>2, <3>3 DEF Evictable
  <2> QED
    BY <2>1, <2>2
<1> QED
  BY <1>1, <1>2, <1>3, <1>4

\* A watch pins the cached incarnation.
LEMMA PinHeld ==
  ASSUME NEW m \in CacheType, NEW j \in Jobs, NEW n \in Nat
  PROVE  /\ Pin(m, j, n).pins = m.pins \cup {<<j, n>>} /\ ~Pin(m, j, n).idle
         /\ (\A d \in m.docs : d.inc = n) => Evictable(Pin(m, j, n))
<1> DEFINE pins == m.pins \cup {<<j, n>>}
<1>1. Pin(m, j, n) = [m EXCEPT !.pins = pins, !.idle = FALSE]
  BY DEF Pin
<1>2. <<j, n>> \in pins
  OBVIOUS
<1> HIDE DEF pins
<1>3. Pin(m, j, n).pins = pins /\ ~Pin(m, j, n).idle /\ Pin(m, j, n).docs = m.docs
  BY <1>1 DEF CacheType
<1>4. (\A d \in m.docs : d.inc = n) /\ m.docs # {} => Attached(Pin(m, j, n))
  BY <1>2, <1>3 DEF Attached
<1> QED
  BY <1>3, <1>4 DEF Evictable, pins

LEMMA UnpinHeld ==
  ASSUME NEW m \in CacheType, NEW js
  PROVE  /\ Unpin(m, js).pins = {p \in m.pins : p[1] \notin js}
         /\ Unpin(m, js).idle => m.idle \/ m.docs # {}
         /\ Evictable(m) => Evictable(Unpin(m, js))
<1> DEFINE pins == {p \in m.pins : p[1] \notin js}
           left == [m EXCEPT !.pins = pins]
<1>1. left \in CacheType /\ left.docs = m.docs /\ left.pins = pins /\ left.idle = m.idle /\ pins \subseteq m.pins
  BY DEF CacheType
<1>2. Unpin(m, js) = IF Attached(m) /\ ~Attached(left) THEN Touch(left) ELSE left
  BY DEF Unpin
<1> HIDE DEF left, pins
<1>3. Attached(left) => Attached(m)
  BY <1>1 DEF Attached
<1>4. CASE Attached(m) /\ ~Attached(left)
  <2>1. left.docs # {} /\ Touch(left) = [left EXCEPT !.idle = TRUE]
    BY <1>1, <1>4 DEF Attached, Touch
  <2>2. Touch(left).idle /\ Touch(left).docs = left.docs /\ Touch(left).pins = left.pins
    BY <1>1, <2>1 DEF CacheType
  <2>3. ~Attached(Touch(left))
    BY <1>4, <2>2 DEF Attached
  <2> QED
    BY <1>1, <1>2, <1>4, <2>1, <2>2, <2>3 DEF Evictable, pins
<1>5. CASE ~(Attached(m) /\ ~Attached(left))
  BY <1>1, <1>2, <1>3, <1>5 DEF Evictable, pins
<1> QED
  BY <1>4, <1>5

LEMMA SweptHeld ==
  ASSUME NEW m \in CacheType, NEW s \in Swept(m)
  PROVE  s.pins = m.pins /\ (s.idle => m.idle /\ s.docs = m.docs) /\ (Evictable(m) => Evictable(s))
  BY DropHeld DEF Swept

\* What a commit leaves is live, and the pins stay.
LEMMA AdoptedHeld ==
  ASSUME NEW m \in CacheType, NEW d \in DocType, Single(m), m.idle => m.docs # {}
  PROVE  LET a == Adopted(m, d) IN
         /\ a.pins = m.pins
         /\ a.docs # {} => d.live
         /\ a.idle => a.docs # {}
         /\ Evictable(m) => Evictable(a)
<1>1. Drop(m) \in CacheType /\ Drop(m).docs = {} /\ Drop(m).pins = m.pins /\ ~Drop(m).idle /\ Evictable(Drop(m))
  BY DropOps, DropHeld
<1>2. CASE ~d.live
  BY <1>1, <1>2 DEF Adopted
<1>3. CASE d.live /\ \E c \in m.docs : c.inc # d.inc
  <2>1. Adopted(m, d) = Install(Drop(m), d)
    BY <1>3 DEF Adopted
  <2> QED
    BY <1>1, <1>3, <2>1, InstallOps, InstallHeld
<1>4. CASE d.live /\ \A c \in m.docs : c.inc = d.inc
  <2>1. Adopted(m, d) = Install(m, d)
    BY <1>4 DEF Adopted
  <2> QED
    BY <1>4, <2>1, InstallOps, InstallHeld
<1> QED
  BY <1>2, <1>3, <1>4

-----------------------------------------------------------------------------
(* Steps that leave the document alone.                                    *)

\* A job stays as it is, or it goes on with what it may have read and is told.
OwnStep(i) ==
    \/ /\ UNCHANGED <<pc[i], kind[i], change[i], base[i], outcome[i], floor[i]>>
       /\ pc[i] \in {"reading", "early"} => mem'.docs \subseteq mem.docs
    \/ /\ pc[i] # "done" /\ pc'[i] # "durable" /\ (pc[i] = "durable" => failed')
       /\ base'[i] \in {base[i], doc} \cup mem.docs
       /\ pc'[i] \in {"reading", "early"} => mem'.docs = {}
       /\ pc'[i] = "ready" /\ kind'[i] # "commit" => base'[i] = doc
       /\ kind'[i] = "snapshot" /\ outcome'[i] = "ok" => floor'[i] <= base'[i].ver

NoCommit ==
    /\ UNCHANGED <<doc, log, acked>> /\ (failed => failed')
    /\ floor' \in [Jobs -> Nat] /\ \A i \in Jobs : floor'[i] <= acked
    /\ \A i \in Jobs : OwnStep(i)
    /\ mem'.docs \subseteq mem.docs \/ (mem'.docs \subseteq {doc} /\ doc.live /\ Settled)
    /\ mem'.idle => mem'.docs # {}
    /\ ~failed' => \A w \in Live(watch') :
            \/ w \in Live(watch) /\ watch'[w] = watch[w]
            \/ pc'[w] = "done" /\ Settled /\ Follows(watch'[w], doc)

LEMMA NoCommitKeeps ==
  ASSUME Inv, More, NoCommit
  PROVE  Numbered' /\ Cached' /\ Watched' /\ SnapshotsAreCurrent'
<1>1. /\ UNCHANGED <<doc, log, acked>> /\ (failed => failed')
      /\ doc \in DocType /\ Len(log) \in Nat /\ acked \in Nat /\ acked <= doc.ver
  BY DEF NoCommit, Inv, Types, More, Numbered
<1>2. \A i \in Jobs : Changing(i)' => Changing(i) /\ change'[i] = change[i] /\ base'[i] = base[i]
  BY DEF NoCommit, OwnStep, Changing
<1>3. ~failed' => \A i \in Jobs : Changing(i) => Changing(i)'
  BY DEF NoCommit, OwnStep, Changing
<1>4. ~failed' => (Settled' <=> Settled)
  BY <1>2, <1>3 DEF Settled, Changing
<1>5. Settled => \A i \in Jobs : ~Changing(i)
  BY DEF Settled, Changing
<1>6. Numbered'
  <2>1. ASSUME NEW i \in Jobs PROVE base'[i].ver <= doc.ver /\ base'[i].inc <= doc.inc
    <3>1. base'[i] \in {base[i], doc} \cup mem.docs
      BY DEF NoCommit, OwnStep
    <3> QED
      BY <1>1, <3>1 DEF DocType, More, Numbered
  <2>2. \A d \in mem'.docs : d.live /\ d.ver <= doc.ver /\ d.inc <= doc.inc
    BY <1>1 DEF NoCommit, DocType, More, Numbered
  <2>3. \A c, d \in mem'.docs : c = d
    BY DEF NoCommit, More, Numbered
  <2> QED
    BY <1>1, <2>1, <2>2, <2>3 DEF NoCommit, More, Numbered
<1>7. Cached'
  <2>1. \A i \in Jobs : Changing(i)' => doc = After(base[i], change[i], Len(log))
    BY <1>2 DEF More, Cached
  <2>2. \A i \in Jobs : Changing(i)' => doc' = After(base'[i], change'[i], Len(log'))
    BY <1>1, <1>2, <2>1
  <2>3. ~failed' => \A d \in mem'.docs : acked <= d.ver
    BY <1>1 DEF NoCommit, More, Cached
  <2>4. ~failed' => \A i \in Jobs : Changing(i)' => mem'.docs \subseteq {base'[i]}
    BY <1>1, <1>2, <1>5 DEF NoCommit, More, Cached
  <2>5. ASSUME NEW i \in Jobs
        PROVE  /\ pc'[i] \in {"reading", "early"} => mem'.docs = {}
               /\ pc'[i] = "ready" /\ kind'[i] # "commit" => base'[i] = doc
    BY DEF NoCommit, OwnStep, More, Cached
  <2> QED
    BY <1>1, <2>2, <2>3, <2>4, <2>5 DEF Cached
<1>8. Watched'
  <2> SUFFICES ASSUME ~failed', NEW w \in Live(watch')
               PROVE  /\ pc'[w] = "done"
                      /\ Settled' => Follows(watch'[w], doc)
                      /\ \A i \in Jobs : Changing(i)' => Follows(watch'[w], base[i])
    BY <1>1, <1>2 DEF Watched, Follows
  <2>1. CASE w \in Live(watch) /\ watch'[w] = watch[w]
    <3>1. w \in Jobs /\ pc[w] = "done" /\ ~failed
      BY <1>1, <2>1 DEF More, Watched, Live
    <3>2. pc'[w] = "done"
      BY <3>1 DEF NoCommit, OwnStep
    <3> QED
      BY <1>1, <1>2, <1>4, <2>1, <3>1, <3>2 DEF More, Watched
  <2>2. CASE pc'[w] = "done" /\ Settled /\ Follows(watch'[w], doc)
    BY <1>2, <1>5, <2>2
  <2> QED
    BY <2>1, <2>2 DEF NoCommit
<1>9. SnapshotsAreCurrent'
  BY DEF NoCommit, OwnStep, More, SnapshotsAreCurrent
<1> QED
  BY <1>6, <1>7, <1>8, <1>9

\* One job goes on or ends.
LEMMA JobQuiet ==
  ASSUME Inv, More, NEW j \in Jobs, NEW p, pc' = [pc EXCEPT ![j] = p], pc[j] # "done", p # "durable",
         pc[j] = "durable" => failed', UNCHANGED <<kind, floor, doc, log, acked>>, failed => failed',
         \A i \in Jobs : i # j => change'[i] = change[i] /\ base'[i] = base[i] /\ outcome'[i] = outcome[i],
         base'[j] \in {base[j], doc} \cup mem.docs,
         p \in {"reading", "early"} => mem'.docs = {},
         p = "ready" /\ kind[j] # "commit" => base'[j] = doc,
         kind[j] = "snapshot" /\ outcome'[j] = "ok" => floor[j] <= base'[j].ver,
         \/ mem'.docs \subseteq mem.docs
         \/ Runs(j) /\ pc[j] # "durable" /\ mem'.docs \subseteq {doc} /\ doc.live,
         mem'.idle => mem'.docs # {},
         ~failed' => \A w \in Live(watch') :
            \/ w \in Live(watch) /\ watch'[w] = watch[w]
            \/ w = j /\ p = "done" /\ Runs(j) /\ pc[j] # "durable" /\ Follows(watch'[w], doc)
  PROVE  Numbered' /\ Cached' /\ Watched' /\ SnapshotsAreCurrent'
<1>1. \A i \in Jobs : i # j => pc'[i] = pc[i]
  BY DEF Inv, Types
<1>2. pc'[j] = p
  BY DEF Inv, Types
<1>3. Runs(j) => \A i \in Jobs : i # j => pc[i] \notin Active
  BY Alone DEF Inv, Runs, Starts
<1>4. Runs(j) /\ pc[j] # "durable" => Settled
  BY <1>3 DEF Settled, Active
<1>5. OwnStep(j)
  BY <1>2 DEF OwnStep
<1>6. \A i \in Jobs : i # j => OwnStep(i)
  BY <1>1, <1>3 DEF OwnStep, Active
<1>7. NoCommit
  BY <1>2, <1>4, <1>5, <1>6 DEF NoCommit, More, Numbered
<1> QED
  BY <1>7, NoCommitKeeps

\* A step of no job.
LEMMA OthersQuiet ==
  ASSUME Inv, More, UNCHANGED <<kind, change, base, floor, doc, log, acked>>, failed => failed',
         \A i \in Jobs : \/ pc'[i] = pc[i] /\ outcome'[i] = outcome[i]
                         \/ pc[i] \in {"idle", "awaiting"} /\ pc'[i] \in {"awaiting", "done"} /\ outcome'[i] # "ok",
         mem'.docs \subseteq mem.docs, mem'.idle => mem'.docs # {},
         ~failed' => \A w \in Live(watch') : w \in Live(watch) /\ watch'[w] = watch[w]
  PROVE  Numbered' /\ Cached' /\ Watched' /\ SnapshotsAreCurrent'
<1>1. \A i \in Jobs : OwnStep(i)
  BY DEF OwnStep
<1>2. NoCommit
  BY <1>1 DEF NoCommit, More, Numbered
<1> QED
  BY <1>2, NoCommitKeeps

\* A failing step keeps the documents; admission is sealed.
LEMMA FailQuiet ==
  ASSUME Inv, More, Fail
  PROVE  failed' /\ closing' # "open" /\ Live(watch') = {} /\ mem'.docs = mem.docs /\ (mem'.idle => mem'.docs # {})
<1>1. /\ mem \in CacheType /\ watch \in [Jobs -> WatchType]
      /\ closing \in {"open", "sealed", "queued", "closing", "closed"}
      /\ Sealed /\ (closing # "open" => Live(watch) = {}) /\ FailWith(mem, watch) /\ (mem.idle => mem.docs # {})
  BY DEF Inv, Types, ClosedEndsWatches, Fail, More, Numbered
<1>2. failed' = TRUE /\ closing' # "open" /\ Live(watch') = {}
  BY <1>1, FailStep
<1>3. mem' = mem \/ mem' = Unpin(mem, Live(watch))
  BY <1>1 DEF FailWith
<1> QED
  BY <1>1, <1>2, <1>3, UnpinOps, UnpinHeld

-----------------------------------------------------------------------------
(* The running job.                                                        *)

LEMMA KeptStays == ASSUME More, UNCHANGED <<mem, watch, closing>> PROVE Kept'
  BY DEF More, Kept, Held, Evictable, Attached, PinsOf, Pinning, Live

\* A cache that the watches do not change under.
LEMMA KeptCache ==
  ASSUME Inv, More, UNCHANGED <<watch, closing>>, mem'.pins = mem.pins, Evictable(mem) => Evictable(mem')
  PROVE  Kept'
  BY DEF More, Kept, Held, PinsOf, Pinning, Live, Evictable, Attached

\* What the running job finds at the cache.
LEMMA CacheFacts ==
  ASSUME Inv, More
  PROVE  /\ mem \in CacheType /\ doc \in DocType /\ Single(mem) /\ (mem.idle => mem.docs # {})
         /\ \A d \in mem.docs : d.live
  BY CacheTyped DEF More, Numbered, Single

\* A step of the job on the line that leaves the Session as it is.
LEMMA SameSession ==
  ASSUME Inv, More, NEW j \in Jobs, NEW p, pc' = [pc EXCEPT ![j] = p], pc[j] \notin {"done", "durable"},
         p \in {"early", "ready", "backend", "done", "queued"}, p = "early" => pc[j] = "reading",
         p = "ready" => kind[j] = "commit",
         UNCHANGED <<kind, floor, doc, log, acked, base, session>>,
         \A i \in Jobs : i # j => change'[i] = change[i] /\ outcome'[i] = outcome[i],
         kind[j] = "snapshot" /\ outcome'[j] = "ok" => pc[j] = "ready"
  PROVE  More'
<1>1. UNCHANGED <<failed, closing, mem, watch>>
  BY DEF session
<1>2. pc[j] = "ready" /\ kind[j] = "snapshot" => floor[j] <= base[j].ver
  <2>1. floor[j] \in Nat /\ acked \in Nat /\ doc.ver \in Nat /\ floor[j] <= acked /\ acked <= doc.ver
    BY CacheTyped DEF More, Numbered, DocType
  <2> QED
    BY <2>1 DEF More, Cached
<1>3. p = "early" => mem.docs = {}
  BY DEF More, Cached
<1>4. /\ \A i \in Jobs : i # j => change'[i] = change[i] /\ base'[i] = base[i] /\ outcome'[i] = outcome[i]
      /\ base'[j] \in {base[j], doc} \cup mem.docs
      /\ p \in {"reading", "early"} => mem'.docs = {}
      /\ kind[j] = "snapshot" /\ outcome'[j] = "ok" => floor[j] <= base'[j].ver
      /\ mem'.docs \subseteq mem.docs /\ (mem'.idle => mem'.docs # {})
      /\ \A w \in Live(watch') : w \in Live(watch) /\ watch'[w] = watch[w]
  BY <1>1, <1>2, <1>3, CacheFacts DEF Live
<1>5. Numbered' /\ Cached' /\ Watched' /\ SnapshotsAreCurrent'
  BY <1>1, <1>4, JobQuiet
<1> QED
  BY <1>1, <1>5, KeptStays DEF More

LEMMA SettleFacts ==
  ASSUME Inv, NEW j \in Jobs, NEW w, Settle(j, w)
  PROVE  /\ pc' = [pc EXCEPT ![j] = "done"] /\ outcome'[j] = w
         /\ \A i \in Jobs : i # j => outcome'[i] = outcome[i]
  BY DEF Settle, Inv, Types

LEMMA StartFailedMore == ASSUME Inv, More, NEW j \in Jobs, StartFailed(j) PROVE More'
<1>1. pc[j] = "queued" /\ Settle(j, "failed") /\ UNCHANGED <<session, doc, log, kind, change, base, acked, floor>>
  BY DEF StartFailed, Starts, storage, callVars
<1> QED
  BY <1>1, SettleFacts, SameSession

LEMMA StartAbortedMore == ASSUME Inv, More, NEW j \in Jobs, StartAborted(j) PROVE More'
<1>1. pc[j] = "queued" /\ Settle(j, "threw") /\ UNCHANGED <<session, doc, log, kind, change, base, acked, floor>>
  BY DEF StartAborted, Starts, storage, callVars
<1> QED
  BY <1>1, SettleFacts, SameSession

LEMMA ReturnEarlyMore == ASSUME Inv, More, NEW j \in Jobs, ReturnEarly(j) PROVE More'
<1>1. /\ pc[j] = "reading" /\ pc' = [pc EXCEPT ![j] = "early"] /\ kind[j] = "commit"
      /\ UNCHANGED <<outcome, session, doc, log, kind, change, base, acked, floor>>
  BY DEF ReturnEarly, storage, callVars
<1> QED
  BY <1>1, SameSession

LEMMA ReadRefusedMore == ASSUME Inv, More, NEW j \in Jobs, ReadRefused(j) PROVE More'
<1>1. /\ pc[j] \in {"reading", "early"}
      /\ UNCHANGED <<session, doc, log, kind, base, acked, floor>>
  BY DEF ReadRefused, storage
<1>2. CASE Catches(j)
  <2>1. /\ pc' = [pc EXCEPT ![j] = "ready"] /\ kind[j] = "commit" /\ outcome' = outcome
        /\ \A i \in Jobs : i # j => change'[i] = change[i]
    BY <1>2 DEF Catches, Inv, Types
  <2> QED
    BY <1>1, <2>1, SameSession
<1>3. CASE Settle(j, "threw") /\ UNCHANGED change
  BY <1>1, <1>3, SettleFacts, SameSession
<1> QED
  BY <1>2, <1>3 DEF ReadRefused

LEMMA SnapshotMore == ASSUME Inv, More, NEW j \in Jobs, Snapshot(j) PROVE More'
<1>1. pc[j] = "ready" /\ Settle(j, "ok") /\ UNCHANGED <<session, doc, log, kind, change, base, acked, floor>>
  BY DEF Snapshot, storage, callVars
<1> QED
  BY <1>1, SettleFacts, SameSession

\* A step of the job that changes the cache only, and never under its watches.
LEMMA CacheStep ==
  ASSUME Inv, More, NEW j \in Jobs, NEW p, pc' = [pc EXCEPT ![j] = p], pc[j] \notin {"done", "durable"},
         p \in {"reading", "ready", "backend", "done"}, p = "reading" => mem'.docs = {},
         p = "ready" /\ kind[j] # "commit" => base'[j] = doc,
         UNCHANGED <<kind, floor, doc, log, acked, failed, closing, watch>>,
         \A i \in Jobs : i # j => change'[i] = change[i] /\ base'[i] = base[i] /\ outcome'[i] = outcome[i],
         base'[j] \in {base[j], doc} \cup mem.docs,
         kind[j] = "snapshot" => outcome'[j] # "ok",
         mem'.docs \subseteq mem.docs \/ (Runs(j) /\ mem'.docs \subseteq {doc} /\ doc.live),
         mem'.idle => mem'.docs # {}, mem'.pins = mem.pins, Evictable(mem) => Evictable(mem')
  PROVE  More'
<1>1. \A w \in Live(watch') : w \in Live(watch) /\ watch'[w] = watch[w]
  BY DEF Live
<1>2. Numbered' /\ Cached' /\ Watched' /\ SnapshotsAreCurrent'
  BY <1>1, JobQuiet
<1> QED
  BY <1>2, KeptCache DEF More

LEMMA UnloadMore == ASSUME Inv, More, NEW j \in Jobs, Unload(j) PROVE More'
<1>1. /\ pc[j] = "queued" /\ kind[j] = "unload" /\ Settle(j, "ok") /\ mem' = Drop(mem)
      /\ UNCHANGED <<failed, closing, watch, doc, log, kind, change, base, acked, floor>>
  BY DEF Unload, Starts, storage, callVars
<1> QED
  BY <1>1, SettleFacts, CacheFacts, DropOps, DropHeld, CacheStep

LEMMA CallbackThrowsMore == ASSUME Inv, More, NEW j \in Jobs, CallbackThrows(j) PROVE More'
<1>1. /\ pc[j] = "ready" /\ kind[j] = "commit" /\ Settle(j, "threw") /\ mem' \in Swept(mem)
      /\ UNCHANGED <<failed, closing, watch, doc, log, kind, change, base, acked, floor>>
  BY DEF CallbackThrows, storage, callVars
<1> QED
  BY <1>1, SettleFacts, CacheFacts, SweptOps, SweptHeld, CacheStep

LEMMA CallbackReturnsMore == ASSUME Inv, More, NEW j \in Jobs, CallbackReturns(j) PROVE More'
<1>1. /\ pc[j] = "ready" /\ kind[j] = "commit"
      /\ UNCHANGED <<failed, closing, watch, doc, log, kind, change, base, acked, floor>>
  BY DEF CallbackReturns, storage, callVars
<1>2. CASE StillHealthy /\ Writes(j)
  <2>1. pc' = [pc EXCEPT ![j] = "backend"] /\ UNCHANGED <<outcome, mem>>
    BY <1>2 DEF CallbackReturns
  <2> QED
    BY <1>1, <2>1, CacheFacts, CacheStep
<1>3. CASE ~(StillHealthy /\ Writes(j))
  <2>1. PICK w : Settle(j, w) /\ mem' \in Swept(mem)
    BY <1>3 DEF CallbackReturns
  <2> QED
    BY <1>1, <2>1, SettleFacts, CacheFacts, SweptOps, SweptHeld, CacheStep
<1> QED
  BY <1>2, <1>3

LEMMA StartMore == ASSUME Inv, More, NEW j \in Jobs, Start(j) PROVE More'
<1>1. /\ Runs(j) /\ pc[j] = "queued" /\ ~failed
      /\ UNCHANGED <<kind, outcome, acked, floor, failed, closing, watch, doc, log>>
  BY DEF Start, Runs, Starts, storage
<1>2. PICK do \in Changes :
        LET needs == do \in OfDoc \/ kind[j] # "commit"
        IN  /\ change' = [change EXCEPT ![j] = do]
            /\ pc' = [pc EXCEPT ![j] = IF needs /\ mem.docs = {} THEN "reading" ELSE "ready"]
            /\ base' = IF needs /\ mem.docs # {} THEN [base EXCEPT ![j] = CHOOSE d \in mem.docs : TRUE] ELSE base
            /\ mem' = IF needs THEN Touch(mem) ELSE mem
  BY DEF Start, Changes
<1> DEFINE needs == do \in OfDoc \/ kind[j] # "commit"
           p == IF needs /\ mem.docs = {} THEN "reading" ELSE "ready"
<1>3. mem.docs # {} => (CHOOSE d \in mem.docs : TRUE) = doc
  BY <1>1, Known
<1>4. /\ \A i \in Jobs : i # j => change'[i] = change[i] /\ base'[i] = base[i]
      /\ base'[j] = (IF needs /\ mem.docs # {} THEN doc ELSE base[j])
  BY <1>2, <1>3 DEF Inv, Types
<1>5. /\ mem'.docs = mem.docs /\ (mem'.idle => mem'.docs # {}) /\ mem'.pins = mem.pins
      /\ Evictable(mem) => Evictable(mem')
  BY <1>2, CacheFacts, TouchOps, TouchHeld
<1>6. /\ pc' = [pc EXCEPT ![j] = p] /\ p \in {"reading", "ready"} /\ (p = "reading" => mem'.docs = {})
      /\ (p = "ready" /\ kind[j] # "commit" => base'[j] = doc)
      /\ base'[j] \in {base[j], doc}
  BY <1>2, <1>4, <1>5
<1>7. outcome'[j] # "ok"
  BY <1>1 DEF Inv, Told
<1> HIDE DEF p, needs
<1> QED
  BY <1>1, <1>4, <1>5, <1>6, <1>7, CacheStep

LEMMA ReadAnswersMore == ASSUME Inv, More, NEW j \in Jobs, ReadAnswers(j) PROVE More'
<1>1. /\ Runs(j) /\ pc[j] \in {"reading", "early"}
      /\ mem' = IF doc.live /\ change[j] \in {"none", "set"} THEN Install(mem, doc) ELSE mem
      /\ UNCHANGED <<kind, change, acked, floor, failed, closing, watch, doc, log>>
  BY DEF ReadAnswers, Runs, Active, storage
<1>2. mem.docs = {}
  BY <1>1 DEF More, Cached
<1>3. /\ mem'.docs \subseteq mem.docs \/ (Runs(j) /\ mem'.docs \subseteq {doc} /\ doc.live)
      /\ mem'.idle => mem'.docs # {}
      /\ mem'.pins = mem.pins /\ (Evictable(mem) => Evictable(mem'))
  <2>1. CASE doc.live /\ change[j] \in {"none", "set"}
    BY <1>1, <1>2, <2>1, CacheFacts, InstallOps, InstallHeld
  <2>2. CASE ~(doc.live /\ change[j] \in {"none", "set"})
    BY <1>1, <2>2, CacheFacts
  <2> QED
    BY <2>1, <2>2
<1>4. CASE /\ pc[j] = "reading" /\ pc' = [pc EXCEPT ![j] = "ready"]
           /\ base' = [base EXCEPT ![j] = doc] /\ UNCHANGED <<line, outcome>>
  <2>1. base'[j] = doc /\ \A i \in Jobs : i # j => base'[i] = base[i]
    BY <1>4 DEF Inv, Types
  <2>2. outcome'[j] # "ok"
    BY <1>1, <1>4 DEF Inv, Told
  <2> QED
    BY <1>1, <1>3, <1>4, <2>1, <2>2, CacheStep
<1>5. CASE pc[j] = "early" /\ Settle(j, "threw") /\ UNCHANGED base
  BY <1>1, <1>3, <1>5, SettleFacts, CacheStep
<1> QED
  BY <1>4, <1>5 DEF ReadAnswers

\* A step of the job that fails the Session.
LEMMA FailStepMore ==
  ASSUME Inv, More, NEW j \in Jobs, Fail, NEW p \in {"ready", "done"}, pc' = [pc EXCEPT ![j] = p],
         pc[j] # "done", p = "ready" => kind[j] = "commit",
         UNCHANGED <<kind, floor, doc, log, acked, base>>, outcome'[j] # "ok",
         \A i \in Jobs : i # j => change'[i] = change[i] /\ outcome'[i] = outcome[i]
  PROVE  More'
<1>1. failed' /\ closing' # "open" /\ mem'.docs \subseteq mem.docs /\ (mem'.idle => mem'.docs # {})
  BY FailQuiet
<1>2. Numbered' /\ Cached' /\ Watched' /\ SnapshotsAreCurrent'
  BY <1>1, JobQuiet
<1> QED
  BY <1>1, <1>2 DEF More, Kept

LEMMA ReadFailsMore == ASSUME Inv, More, NEW j \in Jobs, ReadFails(j) PROVE More'
<1>1. /\ pc[j] \in {"reading", "early"} /\ Fail
      /\ UNCHANGED <<kind, base, acked, floor, doc, log>>
  BY DEF ReadFails, ReadFault, storage
<1>2. CASE Catches(j)
  <2>1. /\ pc' = [pc EXCEPT ![j] = "ready"] /\ kind[j] = "commit" /\ outcome' = outcome
        /\ \A i \in Jobs : i # j => change'[i] = change[i]
    BY <1>2 DEF Catches, Inv, Types
  <2>2. outcome'[j] # "ok"
    BY <1>1, <2>1 DEF Inv, Told
  <2> QED
    BY <1>1, <2>1, <2>2, FailStepMore
<1>3. CASE Settle(j, "failed") /\ UNCHANGED change
  BY <1>1, <1>3, SettleFacts, FailStepMore
<1> QED
  BY <1>2, <1>3 DEF ReadFails

LEMMA CommitRejectedMore == ASSUME Inv, More, NEW j \in Jobs, CommitRejected(j) PROVE More'
<1>1. /\ pc[j] \in {"backend", "durable"} /\ Fail /\ Settle(j, "failed")
      /\ UNCHANGED <<kind, change, base, acked, floor, doc, log>>
  BY DEF CommitRejected, CommitFault, storage, callVars
<1> QED
  BY <1>1, SettleFacts, FailStepMore

-----------------------------------------------------------------------------
(* Watches and commits.                                                    *)

\* The watch is given the document of the moment, and pins it.
LEMMA AttachMore == ASSUME Inv, More, NEW j \in Jobs, Attach(j) PROVE More'
<1>1. /\ Runs(j) /\ pc[j] = "ready" /\ kind[j] = "watch"
      /\ mem' = IF base[j].live THEN Pin(mem, j, base[j].inc) ELSE mem
      /\ Settle(j, IF base[j].live /\ ~MayObserve THEN "threw" ELSE "ok")
      /\ UNCHANGED <<failed, closing, doc, log, kind, change, base, acked, floor>>
  BY DEF Attach, Runs, Active, storage, callVars
<1>2. base[j] = doc /\ doc \in DocType /\ doc.inc \in Nat
  BY <1>1, CacheFacts DEF More, Cached, DocType
<1>3. mem'.docs = mem.docs /\ (mem'.idle => mem'.docs # {})
  BY <1>1, <1>2, CacheFacts, PinOps, PinHeld
<1>4. CASE doc.live /\ MayObserve
  <2> DEFINE new == [state |-> "live", inc |-> doc.inc, last |-> doc]
  <2>1. watch' = [watch EXCEPT ![j] = new] /\ watch \in [Jobs -> WatchType]
    BY <1>2, <1>4 DEF Attach, Inv, Types
  <2>2. watch'[j] = new /\ \A i \in Jobs : i # j => watch'[i] = watch[i]
    BY <2>1
  <2>3. Follows(new, doc)
    BY <1>2 DEF Follows
  <2>4. \A w \in Live(watch') : (w \in Live(watch) /\ watch'[w] = watch[w]) \/ (w = j /\ Follows(watch'[w], doc))
    BY <2>2, <2>3 DEF Live
  <2>5. Numbered' /\ Cached' /\ Watched' /\ SnapshotsAreCurrent'
    <3>1. pc' = [pc EXCEPT ![j] = "done"] /\ \A i \in Jobs : i # j => outcome'[i] = outcome[i]
      BY <1>1, SettleFacts
    <3> QED
      BY <1>1, <1>3, <2>4, <3>1, JobQuiet
  <2>6. ~failed /\ closing = "open" /\ mem.docs \subseteq {doc} /\ j \notin Live(watch)
    BY <1>1, <1>4, Known DEF MayObserve, Usable, More, Watched
  <2>7. mem'.pins = mem.pins \cup {<<j, doc.inc>>} /\ Evictable(mem')
    <3>1. \A d \in mem.docs : d.inc = doc.inc
      BY <2>6
    <3> QED
      BY <1>1, <1>2, <1>4, <3>1, CacheFacts, PinHeld
  <2>8. PinsOf(watch') = PinsOf(watch) \cup {<<j, doc.inc>>}
    <3>1. Live(watch') = Live(watch) \cup {j} /\ new.last.live /\ new.inc = doc.inc
      BY <1>4, <2>2 DEF Live
    <3> HIDE DEF new
    <3>2. Pinning(watch') = Pinning(watch) \cup {j} /\ j \notin Pinning(watch) /\ Pinning(watch) \subseteq Jobs
      BY <2>2, <2>6, <3>1 DEF Pinning, Live
    <3>3. watch'[j].inc = doc.inc /\ \A i \in Pinning(watch) : watch'[i].inc = watch[i].inc
      BY <2>2, <3>1, <3>2
    <3> QED
      BY <3>2, <3>3 DEF PinsOf
  <2>9. Kept'
    BY <2>6, <2>7, <2>8 DEF More, Kept, Held
  <2> QED
    BY <2>5, <2>9 DEF More
<1>5. CASE ~(doc.live /\ MayObserve)
  <2>1. watch' = watch /\ \A w \in Live(watch') : w \in Live(watch) /\ watch'[w] = watch[w]
    BY <1>2, <1>5 DEF Attach, Live
  <2>2. Numbered' /\ Cached' /\ Watched' /\ SnapshotsAreCurrent'
    <3>1. pc' = [pc EXCEPT ![j] = "done"] /\ \A i \in Jobs : i # j => outcome'[i] = outcome[i]
      BY <1>1, SettleFacts
    <3> QED
      BY <1>1, <1>3, <2>1, <3>1, JobQuiet
  <2>3. closing = "open" => MayObserve
    BY DEF Inv, Sealed, Types, MayObserve, Usable
  <2>4. Kept'
    <3>1. CASE closing = "open"
      BY <1>1, <1>2, <1>5, <2>1, <2>3, <3>1, KeptStays
    <3>2. CASE closing # "open"
      BY <1>1, <3>2 DEF Kept
    <3> QED
      BY <3>1, <3>2
  <2> QED
    BY <2>2, <2>4 DEF More
<1> QED
  BY <1>4, <1>5

\* What a commit makes of the document is later, and of the same incarnation or the next.
LEMMA AfterFacts ==
  ASSUME NEW d \in DocType, NEW do, NEW n \in Nat
  PROVE  LET a == After(d, do, n) IN
         /\ a \in DocType /\ a.ver = n /\ a.inc \in {d.inc, d.inc + 1}
         /\ d.live \/ ~a.live \/ a.inc = d.inc + 1
<1>1. LET a == [d EXCEPT !.live = FALSE, !.ver = n] IN a.inc = d.inc /\ a.ver = n /\ a.live = FALSE
  BY DEF DocType
<1>2. LET a == [d EXCEPT !.ver = n] IN a.inc = d.inc /\ a.ver = n
  BY DEF DocType
<1>3. CASE do = "retire"
  BY <1>1, <1>3, AfterType DEF After
<1>4. CASE do = "set" /\ d.live
  BY <1>2, <1>4, AfterType DEF After
<1>5. CASE do # "retire" /\ ~(do = "set" /\ d.live)
  BY <1>5, AfterType DEF After
<1> QED
  BY <1>3, <1>4, <1>5

\* Memory is left behind the Storage until the commit returns.
LEMMA BackendCommitsMore == ASSUME Inv, More, NEW j \in Jobs, BackendCommits(j) PROVE More'
<1>1. /\ Runs(j) /\ pc[j] = "backend" /\ pc' = [pc EXCEPT ![j] = "durable"]
      /\ log' = Append(log, j)
      /\ doc' = IF change[j] \in OfDoc THEN After(base[j], change[j], Len(log) + 1) ELSE doc
      /\ UNCHANGED <<outcome, failed, closing, mem, watch, kind, change, base, acked, floor>>
  BY DEF BackendCommits, Runs, Active, session, callVars
<1>2. /\ pc'[j] = "durable" /\ \A i \in Jobs : i # j => pc'[i] = pc[i] /\ pc[i] \notin Active
      /\ Len(log') = Len(log) + 1 /\ Len(log) \in Nat
  BY <1>1, Alone DEF Inv, Types, Active
<1>3. \A i \in Jobs : (Changing(i)' <=> i = j /\ change[j] \in OfDoc) /\ ~Changing(i)
  BY <1>1, <1>2 DEF Changing, Active
<1>4. ~failed => mem.docs \subseteq {doc} /\ Settled
  BY <1>1, Known
<1>5. change[j] \in OfDoc => base[j] = doc
  BY <1>1 DEF Inv, Fresh
<1>6. doc \in DocType /\ doc' \in DocType /\ doc.ver <= doc'.ver /\ doc.inc <= doc'.inc
      /\ doc'.ver <= Len(log') /\ doc'.inc <= Len(log')
  <2>1. CASE change[j] \in OfDoc
    <3>1. Len(log) + 1 \in Nat /\ doc \in DocType /\ doc.ver \in Nat /\ doc.inc \in Nat
          /\ doc.ver <= Len(log) /\ doc.inc <= Len(log)
      BY <1>2, CacheFacts DEF DocType, More, Numbered
    <3>2. doc' \in DocType /\ doc'.ver = Len(log) + 1 /\ doc'.inc \in {doc.inc, doc.inc + 1}
      BY <1>1, <1>5, <2>1, <3>1, AfterFacts
    <3> QED
      BY <1>2, <3>1, <3>2
  <2>2. CASE change[j] \notin OfDoc
    BY <1>1, <1>2, <2>2, CacheFacts DEF DocType, More, Numbered
  <2> QED
    BY <2>1, <2>2
<1>7. Numbered'
  <2>1. \A i \in Jobs : base[i] \in DocType
    BY DEF Inv, Types
  <2>2. \A d \in mem.docs : d \in DocType
    BY CacheFacts DEF CacheType
  <2>3. doc.ver \in Nat /\ doc.inc \in Nat /\ doc'.ver \in Nat /\ doc'.inc \in Nat
    BY <1>6 DEF DocType
  <2>4. \A i \in Jobs : base[i].ver <= doc'.ver /\ base[i].inc <= doc'.inc
    BY <1>6, <2>1, <2>3 DEF More, Numbered, DocType
  <2>5. \A d \in mem.docs : d.live /\ d.ver <= doc'.ver /\ d.inc <= doc'.inc
    BY <1>6, <2>2, <2>3 DEF More, Numbered, DocType
  <2>6. acked \in Nat /\ acked <= doc'.ver
    BY <1>6, <2>3 DEF More, Numbered
  <2> QED
    BY <1>1, <1>6, <2>4, <2>5, <2>6 DEF More, Numbered
<1>8. Cached'
  <2>1. \A i \in Jobs : Changing(i)' => doc' = After(base'[i], change'[i], Len(log'))
    BY <1>1, <1>2, <1>3
  <2>2. ~failed' => \A d \in mem'.docs : acked' <= d.ver
    BY <1>1 DEF More, Cached
  <2>3. ~failed' => \A i \in Jobs : Changing(i)' => mem'.docs \subseteq {base'[i]}
    BY <1>1, <1>3, <1>4, <1>5
  <2>4. \A i \in Jobs : pc'[i] \notin {"reading", "early", "ready"}
    BY <1>2 DEF Active
  <2> QED
    BY <2>1, <2>2, <2>3, <2>4 DEF Cached
<1>9. Watched'
  <2> SUFFICES ASSUME ~failed, NEW w \in Live(watch)
               PROVE  /\ pc'[w] = "done"
                      /\ Settled' => Follows(watch[w], doc')
                      /\ \A i \in Jobs : Changing(i)' => Follows(watch[w], base[i])
    BY <1>1 DEF Watched, Follows, Live
  <2>1. Follows(watch[w], doc) /\ pc[w] = "done" /\ w \in Jobs
    BY <1>4 DEF More, Watched, Live
  <2>2. Settled' => doc' = doc
    BY <1>1, <1>2 DEF Settled
  <2> QED
    BY <1>1, <1>2, <1>3, <1>5, <2>1, <2>2
<1>10. Kept' /\ SnapshotsAreCurrent'
  BY <1>1, KeptStays DEF More, SnapshotsAreCurrent
<1> QED
  BY <1>7, <1>8, <1>9, <1>10 DEF More

\* A watch that followed the document before a commit follows it once it is given.
LEMMA GivenFollows ==
  ASSUME NEW w \in WatchType, NEW b \in DocType, NEW do, NEW n \in Nat, Follows(w, b)
  PROVE  LET d == After(b, do, n) IN
         /\ Follows(Given(w, d), d) /\ Given(w, d).inc = w.inc
         /\ Given(w, d).last.live => w.last.live
<1> DEFINE d == After(b, do, n)
           gone == [w.last EXCEPT !.live = FALSE, !.ver = d.ver]
<1>1. /\ d \in DocType /\ d.inc \in {b.inc, b.inc + 1} /\ b.inc \in Nat /\ w.inc \in Nat /\ d.inc \in Nat
      /\ b.live \/ ~d.live \/ d.inc = b.inc + 1
      /\ w.last \in DocType
  BY AfterFacts DEF DocType, WatchType
<1> HIDE DEF d
<1>2. gone \in DocType /\ gone.inc = w.last.inc /\ gone.live = FALSE
  BY <1>1 DEF DocType
<1> HIDE DEF gone
<1>3. CASE ~w.last.live
  <2>1. Given(w, d) = w
    BY <1>3 DEF Given
  <2> QED
    BY <1>1, <1>3, <2>1 DEF Follows, d
<1>4. CASE w.last.live /\ d.inc = w.inc
  <2>1. Given(w, d).last = d /\ Given(w, d).inc = w.inc
    BY <1>4 DEF Given, WatchType
  <2> QED
    BY <1>1, <1>4, <2>1 DEF Follows, d
<1>5. CASE w.last.live /\ d.inc # w.inc
  <2>1. Given(w, d).last = gone /\ Given(w, d).inc = w.inc
    BY <1>5 DEF Given, WatchType, gone
  <2>2. w.inc = b.inc
    BY <1>5 DEF Follows
  <2> QED
    BY <1>1, <1>2, <1>5, <2>1, <2>2 DEF Follows, d
<1> QED
  BY <1>3, <1>4, <1>5

\* The adoption brings memory up to the Storage, unless the Session fails.
LEMMA CommitReturnsMore == ASSUME Inv, More, NEW j \in Jobs, CommitReturns(j) PROVE More'
<1> DEFINE touched == change[j] \in OfDoc
           m == IF touched THEN Adopted(mem, doc) ELSE mem
           Fed(js) == [i \in Jobs |-> IF touched /\ i \in js THEN Given(watch[i], doc) ELSE watch[i]]
           Retired(ws) == {i \in Live(ws) : ~ws[i].last.live}
           ws == Fed(Live(watch))
<1>1. /\ Runs(j) /\ pc[j] = "durable" /\ kind[j] = "commit"
      /\ UNCHANGED <<kind, change, base, floor, doc, log>>
  BY DEF CommitReturns, Runs, Active, storage, Inv, Told
<1>2. \/ failed /\ Settle(j, "failed") /\ UNCHANGED <<session, acked>>
      \/ /\ ~failed /\ Settle(j, "ok") /\ acked' = doc.ver
         /\ watch' = ws /\ mem' \in Swept(Unpin(m, Retired(ws)))
         /\ UNCHANGED <<failed, closing>>
      \/ /\ ~failed /\ Settle(j, "ok") /\ acked' = doc.ver
         /\ \E js \in SUBSET Live(watch) : \E left \in Swept(Unpin(m, Live(watch))) : FailWith(left, Fed(js))
      \/ ~failed /\ Settle(j, "failed") /\ Fail /\ UNCHANGED acked
  BY DEF CommitReturns, Discarded
<1>3. \A i \in Jobs : i # j => pc[i] \notin Active
  BY <1>1, Alone DEF Inv, Active
<1>4. \A i \in Jobs : Changing(i) <=> i = j /\ touched
  BY <1>1, <1>3 DEF Changing, Active
<1>5. CASE failed /\ Settle(j, "failed") /\ UNCHANGED <<session, acked>>
  <2>1. UNCHANGED <<failed, closing, mem, watch>>
    BY <1>5 DEF session
  <2>2. /\ pc' = [pc EXCEPT ![j] = "done"] /\ outcome'[j] = "failed"
        /\ \A i \in Jobs : i # j => outcome'[i] = outcome[i]
    BY <1>5, SettleFacts
  <2>3. Numbered' /\ Cached' /\ Watched' /\ SnapshotsAreCurrent'
    BY <1>1, <1>5, <2>1, <2>2, CacheFacts, JobQuiet DEF Live
  <2> QED
    BY <2>1, <2>3, KeptStays DEF More
<1>6. CASE Settle(j, "failed") /\ Fail /\ UNCHANGED acked
  BY <1>1, <1>6, SettleFacts, FailStepMore
<1>7. ASSUME acked' = doc.ver, Settle(j, "ok"), ~failed, mem'.docs \subseteq m.docs, mem'.idle => mem'.docs # {}
      PROVE  Numbered' /\ Cached' /\ SnapshotsAreCurrent'
             /\ (\A i \in Jobs : pc[i] = "done" => pc'[i] = "done") /\ Settled' /\ \A i \in Jobs : ~Changing(i)'
  <2>1. /\ pc'[j] = "done" /\ outcome'[j] = "ok"
        /\ \A i \in Jobs : i # j => pc'[i] = pc[i] /\ outcome'[i] = outcome[i]
    BY <1>7, SettleFacts DEF Inv, Types
  <2>2. mem'.docs \subseteq {doc} /\ \A d \in mem'.docs : d.live
    <3>1. CASE touched
      BY <1>7, <3>1, CacheFacts, AdoptedDocs, AdoptedHeld
    <3>2. CASE ~touched
      <4>1. Settled
        BY <1>4, <3>2 DEF Settled, Changing
      <4> QED
        BY <1>7, <3>2, <4>1, CacheFacts DEF Inv, Current
    <3> QED
      BY <3>1, <3>2
  <2>3. doc.ver \in Nat /\ doc.inc \in Nat /\ acked \in Nat /\ acked <= doc.ver /\ floor \in [Jobs -> Nat]
    BY CacheFacts DEF DocType, More, Numbered
  <2>4. \A i \in Jobs : floor[i] <= doc.ver
    <3> SUFFICES ASSUME NEW i \in Jobs PROVE floor[i] <= doc.ver
      OBVIOUS
    <3>1. floor[i] \in Nat /\ floor[i] <= acked
      BY DEF More, Numbered
    <3> QED
      BY <2>3, <3>1
  <2>5. Numbered'
    BY <1>1, <1>7, <2>2, <2>3, <2>4 DEF More, Numbered
  <2>6. \A i \in Jobs : pc'[i] \notin Active
    BY <1>3, <2>1 DEF Active
  <2>7. Cached' /\ Settled' /\ \A i \in Jobs : ~Changing(i)'
    BY <1>1, <1>7, <2>2, <2>3, <2>6 DEF Cached, Changing, Settled, Active
  <2>8. SnapshotsAreCurrent'
    BY <1>1, <2>1 DEF More, SnapshotsAreCurrent
  <2> QED
    BY <2>1, <2>5, <2>7, <2>8
<1>8. m \in CacheType /\ (m.idle => m.docs # {}) /\ m.pins = mem.pins /\ (Evictable(mem) => Evictable(m))
  BY CacheFacts, AdoptedDocs, AdoptedHeld
<1>9. \A js : Fed(js) \in [Jobs -> WatchType] /\ Live(Fed(js)) = Live(watch)
  BY FedWatches
<1>10. CASE /\ ~failed /\ Settle(j, "ok") /\ acked' = doc.ver
            /\ watch' = ws /\ mem' \in Swept(Unpin(m, Retired(ws)))
            /\ UNCHANGED <<failed, closing>>
  <2> DEFINE u == Unpin(m, Retired(ws))
  <2>1. /\ u \in CacheType /\ u.docs = m.docs /\ (u.idle => u.docs # {})
        /\ u.pins = {p \in m.pins : p[1] \notin Retired(ws)} /\ (Evictable(m) => Evictable(u))
    BY <1>8, UnpinOps, UnpinHeld
  <2> HIDE DEF u, m
  <2>2. /\ mem'.docs \subseteq m.docs /\ (mem'.idle => mem'.docs # {}) /\ mem'.pins = u.pins
        /\ Evictable(u) => Evictable(mem')
    BY <1>10, <2>1, SweptOps, SweptHeld DEF u
  <2>3. Numbered' /\ Cached' /\ SnapshotsAreCurrent' /\ (\A i \in Jobs : pc[i] = "done" => pc'[i] = "done")
        /\ Settled' /\ \A i \in Jobs : ~Changing(i)'
    BY <1>7, <1>10, <2>2
  <2>4. ASSUME NEW w \in Live(watch)
        PROVE  w \in Jobs /\ pc[w] = "done" /\ Follows(ws[w], doc) /\ ws[w].inc = watch[w].inc
               /\ (ws[w].last.live => watch[w].last.live)
    <3>1. w \in Jobs /\ watch[w] \in WatchType /\ pc[w] = "done"
      BY <1>10 DEF Live, Inv, Types, More, Watched
    <3>2. CASE touched
      <4>1. ws[w] = Given(watch[w], doc)
        BY <3>1, <3>2
      <4>2. doc = After(base[j], change[j], Len(log)) /\ Follows(watch[w], base[j])
            /\ base[j] \in DocType /\ Len(log) \in Nat
        BY <1>4, <1>10, <3>2 DEF More, Cached, Watched, Inv, Types
      <4> QED
        BY <3>1, <4>1, <4>2, GivenFollows
    <3>3. CASE ~touched
      <4>1. ws[w] = watch[w] /\ Settled
        BY <1>4, <3>1, <3>3 DEF Settled, Changing
      <4> QED
        BY <1>10, <3>1, <4>1 DEF More, Watched
    <3> QED
      BY <3>2, <3>3
  <2>5. Live(ws) = Live(watch)
    BY <1>9
  <2> HIDE DEF ws, touched, Fed
  <2>6. Watched'
    BY <1>1, <1>10, <2>3, <2>4, <2>5 DEF Watched, Follows
  <2>7. Kept'
    <3>1. closing = "open" => Evictable(mem')
      BY <1>8, <2>1, <2>2 DEF More, Kept, Held
    <3>2. Pinning(ws) = {i \in Pinning(watch) : i \notin Retired(ws)}
      BY <2>4, <2>5 DEF Pinning
    <3> HIDE DEF Retired
    <3>3. \A i \in Pinning(ws) : ws[i].inc = watch[i].inc
      BY <2>4, <2>5 DEF Pinning
    <3>4. {p \in PinsOf(watch) : p[1] \notin Retired(ws)} = PinsOf(ws)
      <4>1. ASSUME NEW p \in PinsOf(watch), p[1] \notin Retired(ws) PROVE p \in PinsOf(ws)
        <5>1. PICK i \in Pinning(watch) : p = <<i, watch[i].inc>>
          BY <4>1 DEF PinsOf
        <5>2. i \in Pinning(ws) /\ p = <<i, ws[i].inc>>
          BY <3>2, <3>3, <4>1, <5>1
        <5> QED
          BY <5>2 DEF PinsOf
      <4>2. ASSUME NEW p \in PinsOf(ws) PROVE p \in PinsOf(watch) /\ p[1] \notin Retired(ws)
        <5>1. PICK i \in Pinning(ws) : p = <<i, ws[i].inc>>
          BY <4>2 DEF PinsOf
        <5>2. i \in Pinning(watch) /\ i \notin Retired(ws) /\ p = <<i, watch[i].inc>>
          BY <3>2, <3>3, <5>1
        <5>3. p[1] = i
          BY <5>1
        <5> QED
          BY <5>2, <5>3 DEF PinsOf
      <4> QED
        BY <4>1, <4>2
    <3>5. closing = "open" => mem'.pins = PinsOf(ws)
      BY <1>8, <2>1, <2>2, <3>4 DEF More, Kept, Held
    <3> QED
      BY <1>10, <3>1, <3>5 DEF Kept, Held
  <2> QED
    BY <2>3, <2>6, <2>7 DEF More
<1>11. CASE /\ ~failed /\ Settle(j, "ok") /\ acked' = doc.ver
            /\ \E js \in SUBSET Live(watch) : \E left \in Swept(Unpin(m, Live(watch))) : FailWith(left, Fed(js))
  <2>1. PICK js \in SUBSET Live(watch), left \in Swept(Unpin(m, Live(watch))) : FailWith(left, Fed(js))
    BY <1>11
  <2>2. Live(Fed(js)) = Live(watch) /\ Fed(js) \in [Jobs -> WatchType]
    BY <1>9
  <2> HIDE DEF m, Fed
  <2>l. left \in CacheType /\ left.docs \subseteq m.docs /\ (left.idle => left.docs # {})
    <3>1. Unpin(m, Live(watch)) \in CacheType /\ Unpin(m, Live(watch)).docs = m.docs
          /\ (Unpin(m, Live(watch)).idle => m.docs # {})
      BY <1>8, UnpinOps, UnpinHeld
    <3> QED
      BY <3>1, SweptOps, SweptHeld
  <2>3. failed' = TRUE /\ closing' # "open" /\ Live(watch') = {}
    BY <2>1, <2>2, <2>l, FailStep DEF Inv, Types, ClosedEndsWatches
  <2>4. mem' = left \/ mem' = Unpin(left, Live(Fed(js)))
    BY <2>1 DEF FailWith
  <2>5. mem'.docs \subseteq m.docs /\ (mem'.idle => mem'.docs # {})
    BY <2>l, <2>4, UnpinOps, UnpinHeld
  <2>6. Numbered' /\ Cached' /\ SnapshotsAreCurrent'
    BY <1>7, <1>11, <2>5
  <2> QED
    BY <2>3, <2>6 DEF More, Watched, Kept
<1> QED
  BY <1>2, <1>5, <1>6, <1>10, <1>11

-----------------------------------------------------------------------------
(* The calls, and steps of no job.                                         *)

\* A snapshot from the cache shows the last commit acknowledged, even while the next is on
\* its way back.
LEMMA CallMore == ASSUME Inv, More, NEW j \in Jobs, Call(j) PROVE More'
<1>1. /\ pc[j] = "idle" /\ outcome[j] = "none" /\ floor' = [floor EXCEPT ![j] = acked]
      /\ UNCHANGED <<change, acked, failed, closing, watch, doc, log>>
  BY DEF Inv, Told, Call, storage
<1>2. PICK k \in Kinds \ {"close"} :
        LET refused == ~Usable /\ k # "unload"
            cached  == k = "snapshot" /\ mem.docs # {}
        IN  /\ kind' = [kind EXCEPT ![j] = k]
            /\ pc' = [pc EXCEPT ![j] = IF refused \/ cached THEN "done" ELSE "queued"]
            /\ outcome' = [outcome EXCEPT ![j] = IF refused THEN "refused" ELSE IF cached THEN "ok" ELSE @]
            /\ base' = IF cached /\ ~refused THEN [base EXCEPT ![j] = CHOOSE d \in mem.docs : TRUE] ELSE base
            /\ mem' = IF cached /\ ~refused THEN Touch(mem) ELSE mem
  BY DEF Call
<1> DEFINE refused == ~Usable /\ k # "unload"
           cached  == k = "snapshot" /\ mem.docs # {}
<1>3. /\ mem'.docs = mem.docs /\ (mem'.idle => mem'.docs # {}) /\ mem'.pins = mem.pins
      /\ Evictable(mem) => Evictable(mem')
  BY <1>2, CacheFacts, TouchOps, TouchHeld
<1>4. floor' \in [Jobs -> Nat] /\ floor'[j] = acked /\ acked \in Nat /\ (\A i \in Jobs : floor'[i] <= acked)
      /\ \A i \in Jobs : i # j => floor'[i] = floor[i]
  BY <1>1 DEF More, Numbered
<1>5. \A i \in Jobs : i # j => UNCHANGED <<pc[i], kind[i], change[i], base[i], outcome[i], floor[i]>>
  BY <1>1, <1>2, <1>4 DEF Inv, Types
<1>6. pc'[j] \in {"queued", "done"} /\ (outcome'[j] = "ok" => cached /\ ~refused)
  BY <1>1, <1>2 DEF Inv, Types
<1>7. base'[j] = IF cached /\ ~refused THEN CHOOSE d \in mem.docs : TRUE ELSE base[j]
  BY <1>2 DEF Inv, Types
<1>8. cached /\ ~refused => base'[j] \in mem.docs /\ ~failed
  BY <1>7 DEF Usable
<1>9. OwnStep(j)
  <2>1. outcome'[j] = "ok" => floor'[j] <= base'[j].ver
    BY <1>4, <1>6, <1>8 DEF More, Cached
  <2>2. base'[j] \in {base[j], doc} \cup mem.docs
    BY <1>7, <1>8
  <2> QED
    BY <1>1, <1>6, <2>1, <2>2 DEF OwnStep
<1>10. \A i \in Jobs : i # j => OwnStep(i)
  BY <1>3, <1>5 DEF OwnStep
<1>11. NoCommit
  BY <1>1, <1>3, <1>4, <1>9, <1>10 DEF NoCommit, Live
<1> QED
  BY <1>1, <1>3, <1>11, NoCommitKeeps, KeptCache DEF More

LEMMA CallCloseMore == ASSUME Inv, More, NEW j \in Jobs, CallClose(j) PROVE More'
<1>1. /\ pc[j] = "idle" /\ pc' = [pc EXCEPT ![j] = "awaiting"] /\ kind' = [kind EXCEPT ![j] = "close"]
      /\ UNCHANGED <<change, base, outcome, acked, floor, failed, doc, log>>
  BY DEF CallClose, storage
<1>2. closing' # "open" /\ mem'.docs = mem.docs /\ (mem'.idle => mem'.docs # {})
  BY CacheFacts, UnpinOps, UnpinHeld DEF CallClose
<1>3. \A w \in Live(watch') : w \in Live(watch) /\ watch'[w] = watch[w]
  BY DEF CallClose, Live, Inv, Types, WatchType
<1>4. OwnStep(j)
  BY <1>1 DEF OwnStep, Inv, Types
<1>5. \A i \in Jobs : i # j => OwnStep(i)
  BY <1>1, <1>2 DEF OwnStep, Inv, Types
<1>6. NoCommit
  BY <1>1, <1>2, <1>3, <1>4, <1>5 DEF NoCommit, More, Numbered
<1> QED
  BY <1>2, <1>6, NoCommitKeeps DEF More, Kept

LEMMA ClosesMore == ASSUME Inv, More, Closes PROVE More'
<1>1. CASE BeforeClose
  BY <1>1, OthersQuiet, CacheFacts DEF BeforeClose, storage, callVars, More, Kept, Live
<1>2. CASE CloseRuns
  BY <1>2, OthersQuiet DEF CloseRuns, storage, callVars, More, Kept, Live
<1>3. CASE CloseBackend
  <2>1. /\ failed' \in {failed, TRUE} /\ closing' = "closed"
        /\ \A i \in Jobs : \/ pc'[i] = pc[i] /\ outcome'[i] = outcome[i]
                           \/ pc[i] = "awaiting" /\ pc'[i] = "done" /\ outcome'[i] = "closed"
        /\ UNCHANGED <<mem, watch, doc, log, kind, change, base, acked, floor>>
    BY <1>3 DEF CloseBackend, storage, callVars
  <2>2. \A i \in Jobs : \/ pc'[i] = pc[i] /\ outcome'[i] = outcome[i]
                        \/ pc[i] \in {"idle", "awaiting"} /\ pc'[i] \in {"awaiting", "done"} /\ outcome'[i] # "ok"
    BY <2>1
  <2>3. failed => failed'
    BY <2>1 DEF Inv, Types
  <2>4. Numbered' /\ Cached' /\ Watched' /\ SnapshotsAreCurrent'
    BY <2>1, <2>2, <2>3, OthersQuiet, CacheFacts DEF Live
  <2> QED
    BY <2>1, <2>4 DEF More, Kept
<1> QED
  BY <1>1, <1>2, <1>3 DEF Closes

LEMMA CloseAgainMore == ASSUME Inv, More, NEW j \in Jobs, CloseAgain(j) PROVE More'
<1>1. /\ pc[j] = "awaiting"
      /\ UNCHANGED <<failed, closing, mem, watch, doc, log, kind, change, base, acked, floor>>
      /\ \A i \in Jobs : \/ pc'[i] = pc[i] /\ outcome'[i] = outcome[i]
                         \/ pc[i] = "awaiting" /\ pc'[i] = "done" /\ outcome'[i] = "closed"
  BY DEF CloseAgain, session, storage, callVars, Inv, Types
<1>2. \A i \in Jobs : \/ pc'[i] = pc[i] /\ outcome'[i] = outcome[i]
                      \/ pc[i] \in {"idle", "awaiting"} /\ pc'[i] \in {"awaiting", "done"} /\ outcome'[i] # "ok"
  BY <1>1
<1> QED
  BY <1>1, <1>2, OthersQuiet, KeptStays, CacheFacts DEF More, Live

\* The last pin of an incarnation makes its tracker idle.
LEMMA EndWatchMore == ASSUME Inv, More, NEW j \in Jobs, EndWatch(j) PROVE More'
<1>1. /\ watch' = [watch EXCEPT ![j].state = "stopped"] /\ mem' = Unpin(mem, {j})
      /\ UNCHANGED <<pc, outcome, failed, closing, doc, log, kind, change, base, acked, floor>>
  BY DEF EndWatch, storage, callVars
<1>2. /\ mem'.docs = mem.docs /\ (mem'.idle => mem'.docs # {})
      /\ mem'.pins = {p \in mem.pins : p[1] \notin {j}} /\ (Evictable(mem) => Evictable(mem'))
  BY <1>1, CacheFacts, UnpinOps, UnpinHeld
<1>3. Live(watch') = Live(watch) \ {j} /\ \A i \in Jobs : i # j => watch'[i] = watch[i]
  BY <1>1 DEF Inv, Types, WatchType, Live
<1>4. Numbered' /\ Cached' /\ Watched' /\ SnapshotsAreCurrent'
  BY <1>1, <1>2, <1>3, OthersQuiet DEF Live
<1>5. {p \in PinsOf(watch) : p[1] \notin {j}} = PinsOf(watch')
  <2>1. Pinning(watch') = Pinning(watch) \ {j} /\ Pinning(watch) \subseteq Jobs
    BY <1>3 DEF Pinning, Live
  <2>2. ASSUME NEW p \in PinsOf(watch), p[1] \notin {j} PROVE p \in PinsOf(watch')
    <3>1. PICK i \in Pinning(watch) : p = <<i, watch[i].inc>>
      BY <2>2 DEF PinsOf
    <3>2. i \in Pinning(watch') /\ p = <<i, watch'[i].inc>>
      BY <1>3, <2>1, <2>2, <3>1
    <3> QED
      BY <3>2 DEF PinsOf
  <2>3. ASSUME NEW p \in PinsOf(watch') PROVE p \in PinsOf(watch) /\ p[1] \notin {j}
    <3>1. PICK i \in Pinning(watch') : p = <<i, watch'[i].inc>>
      BY <2>3 DEF PinsOf
    <3>2. i \in Pinning(watch) /\ p = <<i, watch[i].inc>> /\ p[1] # j
      BY <1>3, <2>1, <3>1
    <3> QED
      BY <3>2 DEF PinsOf
  <2> QED
    BY <2>2, <2>3
<1> QED
  BY <1>1, <1>2, <1>4, <1>5 DEF More, Kept, Held

LEMMA ReadersMore == ASSUME Inv, More, NEW r \in Readers, StartRead(r) \/ EndRead(r) PROVE More'
<1>1. UNCHANGED <<pc, outcome, doc, log, kind, change, base, acked, floor>>
  BY DEF StartRead, EndRead, storage, callVars
<1>2. CASE UNCHANGED <<failed, closing, mem, watch>>
  BY <1>1, <1>2, OthersQuiet, KeptStays, CacheFacts DEF More, Live
<1>3. CASE Fail
  <2>1. failed' /\ closing' # "open" /\ mem'.docs = mem.docs /\ (mem'.idle => mem'.docs # {})
    BY <1>3, FailQuiet
  <2> QED
    BY <1>1, <2>1, OthersQuiet DEF More, Kept
<1> QED
  BY <1>2, <1>3 DEF StartRead, EndRead, session

LEMMA SweepJobMore == ASSUME Inv, More, SweepJob PROVE More'
<1>1. /\ mem' = Drop(mem)
      /\ UNCHANGED <<pc, outcome, failed, closing, watch, doc, log, kind, change, base, acked, floor>>
  BY DEF SweepJob, storage, callVars
<1>2. mem'.docs = {} /\ ~mem'.idle /\ mem'.pins = mem.pins /\ Evictable(mem')
  BY <1>1, CacheFacts, DropOps, DropHeld
<1> QED
  BY <1>1, <1>2, OthersQuiet, KeptCache DEF More, Live

-----------------------------------------------------------------------------
(* The theorems.                                                           *)

LEMMA InitMore == ASSUME Init PROVE More
<1> USE DEF Init
<1>1. doc = NoDoc /\ NoDoc.ver = 0 /\ NoDoc.inc = 0 /\ acked = 0 /\ Len(log) = 0
  BY DEF NoDoc
<1>2. Numbered
  BY <1>1 DEF Numbered
<1>3. Cached
  BY DEF Cached, Changing
<1>4. Live(watch) = {}
  BY DEF Live, NoWatch
<1>5. Watched /\ Kept
  BY <1>4 DEF Watched, Kept, Held, Evictable, PinsOf, Pinning
<1> QED
  BY <1>2, <1>3, <1>5 DEF More, SnapshotsAreCurrent

LEMMA StepMore == ASSUME Inv, More, [Next]_vars PROVE More'
<1>1. ASSUME NEW j \in Jobs, Step(j) PROVE More'
  BY <1>1, StartFailedMore, StartAbortedMore, UnloadMore, StartMore, ReadAnswersMore, ReadFailsMore,
     ReadRefusedMore, SnapshotMore, AttachMore, CallbackThrowsMore, CallbackReturnsMore,
     BackendCommitsMore, CommitReturnsMore, CommitRejectedMore, CloseAgainMore DEF Step
<1>2. ASSUME NEW j \in Jobs, Call(j) \/ CallClose(j) \/ ReturnEarly(j) \/ EndWatch(j) PROVE More'
  BY <1>2, CallMore, CallCloseMore, ReturnEarlyMore, EndWatchMore
<1>3. CASE Closes
  BY <1>3, ClosesMore
<1>4. ASSUME NEW r \in Readers, StartRead(r) \/ EndRead(r) PROVE More'
  BY <1>4, ReadersMore
<1>5. CASE SweepJob
  BY <1>5, SweepJobMore
<1>6. CASE UNCHANGED vars
  <2>1. UNCHANGED <<pc, outcome, failed, closing, mem, watch, doc, log, kind, change, base, acked, floor>>
    BY <1>6 DEF vars
  <2> QED
    BY <2>1, OthersQuiet, KeptStays, CacheFacts DEF More, Live
<1> QED
  BY <1>1, <1>2, <1>3, <1>4, <1>5, <1>6 DEF Next

\* The second strengthening holds in every reachable state.
LEMMA CacheCorrect == Spec => [](Inv /\ More)
<1>1. Init => Inv /\ More
  BY InitInv, InitMore
<1>2. Inv /\ More /\ [Next]_vars => (Inv /\ More)'
  BY StepInv, StepMore
<1> QED
  BY <1>1, <1>2, PTL DEF Spec

\* No reader is behind what it was promised: a snapshot is no older than the commits
\* acknowledged when it was asked for, though the cache answers it at once, and a watch shows
\* its incarnation as the Storage holds it between commits (snapshot, #publish).
THEOREM ReadersKeepUp == Spec => []ReadersAreCurrent
<1>1. ASSUME Inv, More PROVE WatchesAreCurrent
  <2> SUFFICES ASSUME ~failed, ~Answering, NEW w \in Live(watch)
               PROVE  /\ watch[w].last.inc = watch[w].inc
                      /\ IF watch[w].last.live THEN watch[w].last = doc ELSE doc.inc > watch[w].inc \/ ~doc.live
    BY DEF WatchesAreCurrent
  <2>1. Settled
    BY DEF Answering, Settled
  <2> QED
    BY <1>1, <2>1 DEF More, Watched, Follows
<1>2. Inv /\ More => ReadersAreCurrent
  BY <1>1 DEF More, ReadersAreCurrent
<1> QED
  BY <1>2, CacheCorrect, PTL

\* Every batch is of another job, so that finitely many jobs bound the versions.
LEMMA LogCounts == ASSUME IsFiniteSet(Jobs) PROVE Spec => []Logged
<1>1. Inv => IsFiniteSet(Entries)
  <2>1. Inv => Entries \in SUBSET Jobs
    BY DEF Inv, Types, Entries
  <2> QED
    BY <2>1, FS_Subset
<1>2. Init => Logged
  <2> SUFFICES ASSUME Init PROVE Logged
    OBVIOUS
  <2>1. Entries = {} /\ Len(log) = 0
    BY DEF Init, Entries
  <2> QED
    BY <2>1, FS_EmptySet DEF Logged
<1>3. ASSUME Inv, Logged, [Next]_vars PROVE Logged'
  <2>1. ASSUME NEW j \in Jobs, BackendCommits(j) PROVE Logged'
    <3>1. log' = Append(log, j) /\ log \in Seq(Jobs) /\ \A i \in DOMAIN log : log[i] # j
      BY <1>3, <2>1 DEF BackendCommits, Inv, Types, Told
    <3>2. Entries' = Entries \cup {j} /\ j \notin Entries /\ Len(log') = Len(log) + 1
      BY <3>1 DEF Entries
    <3> QED
      BY <1>1, <1>3, <3>2, FS_AddElement DEF Logged
  <2>2. ASSUME log' = log PROVE Logged'
    BY <1>3, <2>2 DEF Logged, Entries
  <2>3. ASSUME NEW j \in Jobs, Step(j) PROVE Logged'
    BY <2>1, <2>2, <2>3 DEF Step, StartFailed, StartAborted, Unload, Start, ReadAnswers, ReadFails, ReadRefused,
       Snapshot, Attach, CallbackThrows, CallbackReturns, CommitReturns, CommitRejected, CloseAgain, storage
  <2>4. ASSUME NEW j \in Jobs, Call(j) \/ CallClose(j) \/ ReturnEarly(j) \/ EndWatch(j) PROVE Logged'
    BY <2>2, <2>4 DEF Call, CallClose, ReturnEarly, EndWatch, storage
  <2>5. CASE Closes \/ SweepJob \/ (\E r \in Readers : StartRead(r) \/ EndRead(r)) \/ UNCHANGED vars
    BY <2>2, <2>5 DEF Closes, BeforeClose, CloseRuns, CloseBackend, SweepJob, StartRead, EndRead, storage, vars
  <2> QED
    BY <1>3, <2>3, <2>4, <2>5 DEF Next
<1> QED
  BY <1>2, <1>3, LineCorrect, PTL DEF Spec

\* The cache is right: well formed, what the Storage holds while the Session is healthy and
\* no commit is on its way back, never ahead of it, and every tracker idle or watched, never
\* both (#documents, #idleDocuments, #attachedDocuments).
THEOREM CacheHolds == ASSUME IsFiniteSet(Jobs) PROVE Spec => []CacheIsRight
<1>1. ASSUME Inv, More, Logged PROVE TypeOK
  <2> DEFINE N == Cardinality(Jobs)
  <2>1. N \in Nat /\ Len(log) <= N /\ Len(log) \in Nat
    <3>1. Entries \in SUBSET Jobs
      BY <1>1 DEF Inv, Types, Entries
    <3>2. Cardinality(Entries) <= N
      BY <3>1, FS_Subset
    <3> QED
      BY <1>1, <3>2, FS_CardinalityType DEF Logged, Inv, Types
  <2> HIDE DEF N
  <2>2. ASSUME NEW d \in DocType, d.ver <= doc.ver, d.inc <= doc.inc
        PROVE  d \in [inc : 0..N, ver : 0..N, live : BOOLEAN]
    <3>1. d.ver \in Nat /\ d.inc \in Nat /\ doc.ver \in Nat /\ doc.inc \in Nat
          /\ doc.ver <= Len(log) /\ doc.inc <= Len(log)
      BY <1>1, <2>2, CacheFacts DEF DocType, More, Numbered
    <3>2. d.ver \in 0..N /\ d.inc \in 0..N
      BY <2>1, <2>2, <3>1
    <3> QED
      BY <2>2, <3>2 DEF DocType
  <2>3. doc \in Docs
    <3>1. doc \in DocType /\ doc.ver <= doc.ver /\ doc.inc <= doc.inc
      BY <1>1, CacheFacts DEF DocType
    <3> QED
      BY <2>2, <3>1 DEF Docs, N
  <2>4. base \in [Jobs -> Docs]
    <3>1. \A j \in Jobs : base[j] \in Docs
      BY <1>1, <2>2 DEF Docs, N, Inv, Types, More, Numbered
    <3> QED
      BY <1>1, <3>1 DEF Inv, Types
  <2>5. mem.docs \subseteq {d \in Docs : d.live}
    BY <1>1, <2>2 DEF Docs, N, Inv, Types, CacheType, More, Numbered
  <2>6. Cardinality(mem.docs) <= 1
    <3>1. CASE mem.docs = {}
      BY <3>1, FS_EmptySet
    <3>2. CASE mem.docs # {}
      <4>1. PICK d : mem.docs = {d}
        BY <1>1, <3>2 DEF More, Numbered
      <4> QED
        BY <4>1, FS_Singleton
    <3> QED
      BY <3>1, <3>2
  <2>7. \A j \in Jobs : j \in {line[i] : i \in DOMAIN line} <=> pc[j] \notin {"idle", "awaiting", "done"}
    BY <1>1 DEF Inv, Types, OneAtATime, OnLine, OffLine, Active
  <2>8. pc \in [Jobs -> {"idle", "queued", "reading", "early", "ready", "backend", "durable", "awaiting", "done"}]
    BY <1>1 DEF Inv, Types, OnLine, OffLine, Active
  <2> QED
    BY <1>1, <2>3, <2>4, <2>5, <2>6, <2>7, <2>8 DEF TypeOK, Inv, Types, More, Numbered
<1>2. ASSUME Inv, More PROVE CacheIsStorage
  <2>1. ~Answering => Settled
    BY DEF Answering, Settled
  <2> QED
    BY <1>2, <2>1 DEF CacheIsStorage, Inv, Current, More, Numbered
<1>3. ASSUME Inv, More PROVE EvictableOrWatched
  <2> SUFFICES ASSUME closing = "open", NEW d \in mem.docs
               PROVE  mem.idle <=> ~\E j \in Live(watch) : watch[j].inc = d.inc /\ watch[j].last.live
    BY DEF EvictableOrWatched
  <2>1. mem.docs = {d} /\ Evictable(mem) /\ mem.pins = PinsOf(watch)
    BY <1>3 DEF More, Numbered, Kept, Held
  <2>2. Attached(mem) <=> \E p \in PinsOf(watch) : p[2] = d.inc
    BY <2>1 DEF Attached
  <2>3. ASSUME NEW p \in PinsOf(watch), p[2] = d.inc PROVE \E j \in Pinning(watch) : watch[j].inc = d.inc
    <3>1. PICK j \in Pinning(watch) : p = <<j, watch[j].inc>>
      BY DEF PinsOf
    <3> QED
      BY <2>3, <3>1
  <2>4. ASSUME NEW j \in Pinning(watch), watch[j].inc = d.inc PROVE \E p \in PinsOf(watch) : p[2] = d.inc
    <3>1. <<j, watch[j].inc>> \in PinsOf(watch) /\ <<j, watch[j].inc>>[2] = d.inc
      BY <2>4 DEF PinsOf
    <3> QED
      BY <3>1
  <2> QED
    BY <2>1, <2>2, <2>3, <2>4 DEF Evictable, Pinning
<1>4. Inv /\ More /\ Logged => CacheIsRight
  BY <1>1, <1>2, <1>3 DEF CacheIsRight
<1> QED
  BY <1>4, CacheCorrect, LogCounts, PTL
=============================================================================
