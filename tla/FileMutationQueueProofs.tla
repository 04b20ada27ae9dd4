----------------------- MODULE FileMutationQueueProofs -----------------------
(***************************************************************************)
(* The queue excludes and forgets as it should for any number of calls,    *)
(* paths and files, whatever other processes do to the files, as long as   *)
(* no call goes through a link.                                            *)
(***************************************************************************)
EXTENDS FileMutationQueue, TLAPS

\* A path that is no link keeps its key, whether or not its file exists.
KeyIsTarget == \A c \in Calls : key[c] = Target(c)

\* Of two queued calls with one key, one waits for the other.
Chained ==
    \A c, d \in Queued : c # d /\ key[c] = key[d] => c \in ahead[d] \/ d \in ahead[c]

\* The tail of a key is queued on it, and every other call queued on it is ahead of the
\* tail.
TailIsLast ==
    \A k \in Keys :
        /\ queues[k] = None => \A c \in Queued : key[c] # k
        /\ queues[k] # None => /\ queues[k] \in Queued /\ key[queues[k]] = k
                               /\ \A c \in Queued : key[c] = k => c = queues[k] \/ c \in ahead[queues[k]]

\* Who mutates has nobody left ahead.
NobodyAhead == \A c \in Mutating : \A d \in ahead[c] : pc[d] = "done"

\* Of two slots of one file, the earlier call is done or ahead of the later.
SlotsChained ==
    /\ slots \in Seq(Calls)
    /\ \A i \in DOMAIN slots : pc[slots[i]] \in {"waiting", "running", "writing", "done"}
    /\ \A i, j \in DOMAIN slots :
        i < j /\ Target(slots[i]) = Target(slots[j]) =>
            pc[slots[i]] = "done" \/ slots[i] \in ahead[slots[j]]

Inv ==
    /\ pc \in [Calls -> {"idle", "resolved", "waiting", "running", "writing", "done"}]
    /\ key \in [Calls -> Keys]
    /\ ahead \in [Calls -> SUBSET Calls]
    /\ queues \in [Keys -> Calls \cup {None}]
    /\ KeyIsTarget /\ Chained /\ TailIsLast /\ NobodyAhead

LEMMA TargetType == ASSUME NEW c \in Calls PROVE Target(c) \in Files /\ Target(c) \in Keys /\ PathOf[c] \in Paths
  BY PathsAssumption DEF Target, Keys

LEMMA KeyOfPath ==
  ASSUME Links = {}, NEW c \in Calls
  PROVE  KeyNow(PathOf[c]) = Target(c)
  BY TargetType DEF KeyNow, Target

\* No call is queued at first.
LEMMA InitInv == ASSUME Links = {}, Init PROVE Inv
  BY TargetType DEF Init, Inv, KeyIsTarget, Chained, TailIsLast, NobodyAhead, Queued, Mutating

\* Every step keeps the chains: a slot is taken behind the tail, and left by a call that
\* nobody is ahead of.
LEMMA StepInv == ASSUME Links = {}, Inv, [Next]_vars PROVE Inv'
<1> USE DEF Inv, KeyIsTarget, Chained, TailIsLast, NobodyAhead, Queued, Mutating
<1>1. ASSUME NEW c \in Calls, Resolve(c) PROVE Inv'
  BY <1>1, KeyOfPath, TargetType DEF Resolve, Target
<1>2. ASSUME NEW c \in Calls, ResolveFails(c) PROVE Inv'
  BY <1>2 DEF ResolveFails, Target
<1>3. ASSUME NEW c \in Calls, TakeSlot(c) PROVE Inv'
  <2> DEFINE k == key[c]
  <2>1. /\ pc[c] = "resolved" /\ k \in Keys
        /\ pc' = [pc EXCEPT ![c] = "waiting"] /\ key' = key
        /\ ahead' = [ahead EXCEPT ![c] = Behind(k)] /\ queues' = [queues EXCEPT ![k] = c]
    BY <1>3 DEF TakeSlot
  <2>2. Behind(k) \in SUBSET Calls
    BY <2>1 DEF Behind
  <2>3. \A d \in Queued : key[d] = k => d \in Behind(k)
    BY <2>1 DEF Behind
  <2>4. Queued' = Queued \cup {c} /\ Mutating' = Mutating /\ c \notin Queued
    BY <2>1
  <2>5. \A d \in Queued : ahead'[d] = ahead[d]
    BY <2>1, <2>4
  <2>6. Chained'
    BY <2>1, <2>2, <2>3, <2>4, <2>5
  <2>7. TailIsLast'
    BY <2>1, <2>2, <2>3, <2>4, <2>5, NoneAssumption
  <2>8. NobodyAhead'
    BY <2>1, <2>4, <2>5
  <2> QED
    BY <2>1, <2>2, <2>6, <2>7, <2>8 DEF Target
<1>4. ASSUME NEW c \in Calls, Enter(c) PROVE Inv'
  BY <1>4 DEF Enter, PreviousDone, Target
<1>5. ASSUME NEW c \in Calls, Write(c) PROVE Inv'
  BY <1>5 DEF Write, Target
<1>6. ASSUME NEW c \in Calls, Finish(c) PROVE Inv'
  <2> DEFINE k == key[c]
  <2>1. /\ c \in Mutating /\ k \in Keys
        /\ pc' = [pc EXCEPT ![c] = "done"] /\ key' = key /\ ahead' = ahead /\ queues' = Dropped(c)
    BY <1>6 DEF Finish
  <2>2. Queued' = Queued \ {c} /\ Mutating' = Mutating \ {c}
    BY <2>1
  <2>3. \A d \in Queued : d \notin ahead[c]
    BY <2>1
  <2>4. CASE queues[k] = c
    <3>1. queues' = [queues EXCEPT ![k] = None]
      BY <2>1, <2>4 DEF Dropped
    <3>2. TailIsLast'
      BY <2>1, <2>2, <2>3, <2>4, <3>1, NoneAssumption
    <3> QED
      BY <2>1, <2>2, <3>1, <3>2 DEF Target
  <2>5. CASE queues[k] # c
    <3>1. queues' = queues
      BY <2>1, <2>5 DEF Dropped
    <3>2. TailIsLast'
      BY <2>1, <2>2, <2>5, <3>1, NoneAssumption
    <3> QED
      BY <2>1, <2>2, <3>1, <3>2 DEF Target
  <2> QED
    BY <2>4, <2>5
<1>7. CASE Other
  BY <1>7 DEF Other, Target
<1>8. CASE UNCHANGED vars
  BY <1>8 DEF vars, Target
<1> QED
  BY <1>1, <1>2, <1>3, <1>4, <1>5, <1>6, <1>7, <1>8 DEF Next, Step

\* The strengthening holds in every reachable state.
THEOREM Strengthened == ASSUME Links = {} PROVE Spec => []Inv
<1>1. Init => Inv
  BY InitInv
<1>2. Inv /\ [Next]_vars => Inv'
  BY StepInv
<1> QED
  BY <1>1, <1>2, PTL DEF Spec

\* When no path ends in a link (with one the key may move, see the run file_mutation_link),
\* mutations of one file never overlap: the later of two would have the other, which is not
\* done, ahead of it.
THEOREM Exclusion == ASSUME Links = {} PROVE Spec => []MutualExclusion
<1>1. Inv => MutualExclusion
  BY DEF Inv, MutualExclusion, KeyIsTarget, Chained, NobodyAhead, Queued, Mutating
<1> QED
  BY <1>1, Strengthened, PTL

\* A slot is taken behind every queued call of its file, and no step undoes that.
LEMMA StepSlots ==
  ASSUME Links = {}, Inv, OwnFileOnly, SlotsChained, [Next]_vars
  PROVE  OwnFileOnly' /\ SlotsChained'
<1> USE DEF Inv, OwnFileOnly, SlotsChained, Queued
<1> DEFINE Taken == {"waiting", "running", "writing", "done"}
<1>0. ASSUME slots' = slots, ahead' = ahead, Queued' \subseteq Queued,
             \A d \in Calls : (pc[d] \in Taken => pc'[d] \in Taken) /\ (pc[d] = "done" => pc'[d] = "done")
      PROVE  OwnFileOnly' /\ SlotsChained'
  <2>1. \A i \in DOMAIN slots : slots[i] \in Calls
    OBVIOUS
  <2> QED
    BY <1>0, <2>1 DEF Target
<1>1. ASSUME NEW c \in Calls, Resolve(c) \/ ResolveFails(c) PROVE OwnFileOnly' /\ SlotsChained'
  <2>1. slots' = slots /\ ahead' = ahead /\ pc[c] = "idle" /\ pc' \in [Calls -> {"idle", "resolved", "waiting", "running", "writing", "done"}]
    BY <1>1 DEF Resolve, ResolveFails
  <2>2. /\ \A d \in Calls \ {c} : pc'[d] = pc[d]
        /\ pc'[c] \in {"resolved", "done"}
    BY <1>1 DEF Resolve, ResolveFails
  <2> QED
    BY <1>0, <2>1, <2>2
<1>2. ASSUME NEW c \in Calls, TakeSlot(c) PROVE OwnFileOnly' /\ SlotsChained'
  <2> DEFINE k == key[c]
  <2>1. /\ pc[c] = "resolved" /\ k \in Keys /\ k = Target(c)
        /\ pc' = [pc EXCEPT ![c] = "waiting"]
        /\ ahead' = [ahead EXCEPT ![c] = Behind(k)] /\ slots' = Append(slots, c)
    BY <1>2 DEF TakeSlot, KeyIsTarget
  <2>2. \A d \in Calls : Target(d)' = Target(d)
    BY DEF Target
  <2>3. \A d \in Queued : Target(d) = k => d \in Behind(k)
    BY <2>1 DEF Behind, TailIsLast, KeyIsTarget
  <2>4. Behind(k) \in SUBSET Calls /\ \A d \in Behind(k) : Target(d) = k
    BY <2>1, NoneAssumption DEF Behind, TailIsLast, KeyIsTarget
  <2>5. OwnFileOnly'
    BY <2>1, <2>2, <2>4
  <2>6. /\ slots' \in Seq(Calls) /\ DOMAIN slots' = 1 .. Len(slots) + 1 /\ DOMAIN slots = 1 .. Len(slots)
        /\ slots'[Len(slots) + 1] = c
        /\ \A i \in DOMAIN slots : slots'[i] = slots[i] /\ slots[i] \in Calls /\ slots[i] # c
    BY <2>1
  <2>7. \A i \in DOMAIN slots' : pc'[slots'[i]] \in {"waiting", "running", "writing", "done"}
    BY <2>1, <2>6
  <2>8. ASSUME NEW i \in DOMAIN slots', NEW j \in DOMAIN slots', i < j,
               Target(slots'[i]) = Target(slots'[j])
        PROVE  pc'[slots'[i]] = "done" \/ slots'[i] \in ahead'[slots'[j]]
    <3>1. i \in DOMAIN slots
      BY <2>6, <2>8
    <3>2. CASE j \in DOMAIN slots
      BY <2>1, <2>6, <2>8, <3>1, <3>2
    <3>3. CASE j = Len(slots) + 1
      BY <2>1, <2>3, <2>4, <2>6, <2>8, <3>1, <3>3
    <3> QED
      BY <2>6, <2>8, <3>2, <3>3
  <2> QED
    BY <2>2, <2>5, <2>6, <2>7, <2>8
<1>3. ASSUME NEW c \in Calls, Enter(c) \/ Write(c) \/ Finish(c) PROVE OwnFileOnly' /\ SlotsChained'
  <2>1. slots' = slots /\ ahead' = ahead /\ pc[c] \in {"waiting", "running", "writing"}
    BY <1>3 DEF Enter, Write, Finish
  <2>2. /\ \A d \in Calls \ {c} : pc'[d] = pc[d]
        /\ pc'[c] \in {"running", "writing", "done"}
    BY <1>3 DEF Enter, Write, Finish
  <2> QED
    BY <1>0, <2>1, <2>2
<1>4. CASE Other
  BY <1>4 DEF Other, Target
<1>5. CASE UNCHANGED vars
  BY <1>5 DEF vars, Target
<1> QED
  BY <1>1, <1>2, <1>3, <1>4, <1>5 DEF Next, Step

\* Calls on one file run in slot order, wait for no other file's calls, and leave no
\* chain behind once they are done.
THEOREM Orderly == ASSUME Links = {} PROVE Spec => []QueueOrder
<1>1. Init => Inv /\ OwnFileOnly /\ SlotsChained
  BY InitInv DEF Init, OwnFileOnly, SlotsChained, Queued
<1>2. Inv /\ OwnFileOnly /\ SlotsChained /\ [Next]_vars => (Inv /\ OwnFileOnly /\ SlotsChained)'
  BY StepInv, StepSlots
<1>3. Inv /\ OwnFileOnly /\ SlotsChained => QueueOrder
  <2>1. ASSUME Inv, OwnFileOnly, SlotsChained PROVE SlotOrder
    BY <2>1 DEF Inv, SlotsChained, SlotOrder, NobodyAhead
  <2>2. ASSUME Inv PROVE ChainIffQueued
    BY <2>2 DEF Inv, ChainIffQueued, TailIsLast
  <2> QED
    BY <2>1, <2>2 DEF QueueOrder
<1> QED
  BY <1>1, <1>2, <1>3, PTL DEF Spec
=============================================================================
