------------------------- MODULE ConversationSteps --------------------------
(*****************************************************************************)
(* What one transaction does to the records of a conversation, and what one  *)
(* commit may do to its tasks, for any number of entries, submissions, tasks *)
(* and queued items.                                                         *)
(*                                                                           *)
(* TxInv holds of the records before and after every operation of a          *)
(* transaction, also between two of them, when some items of the inbox are   *)
(* placed already (W are the positions that still stand) and no run holds them*)
(* yet (U are the inputs without one).  A boundary places its items one by one*)
(* (PlaceItemKeeps), so what it leaves is shown by induction over the items  *)
(* (BoundaryKeeps).  A head is safe to place because it was taken when nothing*)
(* before it was cut off (Stands), or is refused as stale.                   *)
(*                                                                           *)
(* Every commit is a move of one task, or of none (Moves): it changes no     *)
(* other task but for marks, adds tasks of its own only, and appends nothing *)
(* to a context somebody else is about to use.  That the other tasks, their  *)
(* summaries, questions and calls stay right then is shown once, in          *)
(* CommitKeeps; of the calls of the host and of marks it is shown here that  *)
(* they are such moves.                                                      *)
(*****************************************************************************)
EXTENDS ConversationInvariant, SequenceTheorems, FiniteSetTheorems, WellFoundedInduction, TLAPS

-----------------------------------------------------------------------------
(* Numbers and ascending sequences.                                        *)

(* Numbers.                                                                  *)

(* A set of numbers that is not empty has a least one.                        *)
LEMMA LeastNumber ==
    ASSUME NEW S \in SUBSET Nat, S # {}
    PROVE  \E x \in S : \A y \in S : x <= y
<1> DEFINE Less == OpToRel(<, Nat)
<1>1. IsWellFoundedOn(Less, Nat)
  BY NatLessThanWellFounded
<1>2. PICK x \in S : \A y \in S : ~ (<<y, x>> \in Less)
  <2> HIDE DEF Less
  <2> QED
    BY <1>1, WFMin
<1>3. \A y \in S : ~ (y < x)
  <2> TAKE y \in S
  <2>1. y < x => <<y, x>> \in Less
    BY DEF OpToRel
  <2> HIDE DEF Less
  <2> QED
    BY <1>2, <2>1
<1> HIDE DEF Less
<1> QED
  BY <1>3

(* Induction over the numbers up to `n`, for a set.                           *)
LEMMA UpTo ==
    ASSUME NEW n \in Nat, NEW S, 0 \in S, \A k \in 0 .. n - 1 : k \in S => k + 1 \in S
    PROVE  0 .. n \subseteq S
<1> DEFINE Bad == {k \in 0 .. n : k \notin S}
<1> SUFFICES ASSUME Bad # {} PROVE FALSE
  OBVIOUS
<1>1. PICK x \in Bad : \A y \in Bad : x <= y
  <2>1. Bad \in SUBSET Nat
    OBVIOUS
  <2> HIDE DEF Bad
  <2> QED
    BY <2>1, LeastNumber
<1>2. x # 0 /\ x - 1 \in 0 .. n - 1 /\ x - 1 \notin Bad
  BY <1>1
<1> QED
  BY <1>2

(* A finite set of numbers that is not empty has a greatest one.              *)
LEMMA GreatestNumber ==
    ASSUME NEW S \in SUBSET Nat, NEW n \in Nat, \A i \in S : i <= n, S # {}
    PROVE  NewestOf(S) \in S /\ \A j \in S : j <= NewestOf(S)
<1> DEFINE T == {n - i : i \in S}
<1>1. T \in SUBSET Nat /\ T # {}
  <2>1. \A i \in S : i \in Nat /\ i <= n
    OBVIOUS
  <2>2. \A i \in S : n - i \in Nat
    BY <2>1
  <2> QED
    BY <2>2
<1>2. PICK x \in T : \A y \in T : x <= y
  <2> HIDE DEF T
  <2> QED
    BY <1>1, LeastNumber
<1>3. PICK i \in S : x = n - i
  OBVIOUS
<1>4. \A j \in S : j <= i
  <2> TAKE j \in S
  <2>1. n - j \in T
    OBVIOUS
  <2>2. n - i <= n - j
    BY <1>2, <1>3, <2>1
  <2> QED
    BY <2>2
<1>5. \E m \in S : \A j \in S : j <= m
  BY <1>4
<1> QED
  BY <1>5 DEF NewestOf

(* The newest of nothing is none.                                             *)
LEMMA NewestOfEmpty == NewestOf({}) = 0
BY DEF NewestOf

(* The greatest number is the one that has no other above it.                 *)
LEMMA NewestIs ==
    ASSUME NEW S \in SUBSET Nat, NEW m \in S, \A j \in S : j <= m
    PROVE  NewestOf(S) = m
<1>1. m \in Nat /\ S # {}
  OBVIOUS
<1>2. NewestOf(S) \in S /\ \A j \in S : j <= NewestOf(S)
  BY <1>1, GreatestNumber
<1>3. NewestOf(S) <= m /\ m <= NewestOf(S) /\ NewestOf(S) \in Nat
  BY <1>2
<1> QED
  BY <1>1, <1>3

-----------------------------------------------------------------------------
(* Subsequences.                                                             *)

Finite(S) == S \in SUBSET Nat /\ IsFiniteSet(S)

(* The rank of a number in a set that has it grows with the number.           *)
LEMMA RankType ==
    ASSUME NEW S, Finite(S), NEW i \in Nat
    PROVE  Rank(S, i) \in 0 .. Cardinality(S)
<1>1. {j \in S : j <= i} \in SUBSET S
  OBVIOUS
<1> QED
  BY <1>1, FS_Subset, FS_CardinalityType DEF Finite, Rank

(* A member of a set ranks higher than any smaller number.                    *)
LEMMA RankGrows ==
    ASSUME NEW S, Finite(S), NEW i \in S, NEW k \in Nat, k < i
    PROVE  Rank(S, k) < Rank(S, i)
<1> DEFINE A == {j \in S : j <= k}
           B == {j \in S : j <= i}
<1>1. A \cup {i} \subseteq B /\ i \notin A /\ B \in SUBSET S /\ A \in SUBSET S
  <2>1. S \subseteq Nat
    BY DEF Finite
  <2>2. \A j \in S : j \in Nat
    BY <2>1
  <2> QED
    BY <2>2
<1>2. IsFiniteSet(A) /\ IsFiniteSet(B)
  BY <1>1, FS_Subset DEF Finite
<1> HIDE DEF A, B
<1>3. IsFiniteSet(A \cup {i}) /\ Cardinality(A \cup {i}) = Cardinality(A) + 1
  BY <1>1, <1>2, FS_AddElement
<1>4. Cardinality(A \cup {i}) <= Cardinality(B)
  BY <1>1, <1>2, FS_Subset
<1>5. Cardinality(A) \in Nat /\ Cardinality(B) \in Nat
  BY <1>2, FS_CardinalityType
<1>6. Cardinality(A) < Cardinality(B)
  BY <1>3, <1>4, <1>5
<1> QED
  BY <1>6 DEF Rank, A, B

(* The ranks of the members of a set are its positions.                       *)
LEMMA RankPositive ==
    ASSUME NEW S, Finite(S), NEW i \in S
    PROVE  Rank(S, i) \in 1 .. Cardinality(S)
<1>1. {i} \subseteq {j \in S : j <= i} /\ {j \in S : j <= i} \in SUBSET S
  BY DEF Finite
<1>2. IsFiniteSet({j \in S : j <= i})
  BY <1>1, FS_Subset DEF Finite
<1>3. Cardinality({i}) <= Cardinality({j \in S : j <= i}) /\ Cardinality({i}) = 1
  BY <1>1, <1>2, FS_Subset, FS_Singleton
<1>4. i \in Nat
  BY DEF Finite
<1>5. Rank(S, i) \in 0 .. Cardinality(S)
  BY <1>4, RankType
<1> QED
  BY <1>3, <1>5, FS_CardinalityType DEF Rank, Finite

(* Every position up to the size of the set is the rank of one member.        *)
LEMMA RankReached ==
    ASSUME NEW S, Finite(S), NEW n \in 1 .. Cardinality(S)
    PROVE  \E i \in S : Rank(S, i) = n
<1> DEFINE f == [i \in S |-> Rank(S, i)]
           T == 1 .. Cardinality(S)
<1>1. Cardinality(S) \in Nat
  BY FS_CardinalityType DEF Finite
<1>2. f \in [S -> T]
  BY RankPositive
<1>3. \A i, j \in S : f[i] = f[j] => i = j
  <2> TAKE i, j \in S
  <2>1. i < j => f[i] < f[j]
    BY RankGrows DEF Finite
  <2>2. j < i => f[j] < f[i]
    BY RankGrows DEF Finite
  <2> QED
    BY <1>1, <1>2, <2>1, <2>2 DEF Finite
<1>4. f \in Injection(S, T)
  <2> HIDE DEF f
  <2> QED
    BY <1>2, <1>3 DEF Injection, IsInjective
<1>5. IsFiniteSet(T) /\ Cardinality(T) = Cardinality(S)
  BY <1>1, FS_Interval
<1>6. f \in Surjection(S, T)
  <2> HIDE DEF f, T
  <2> QED
    BY <1>4, <1>5, FS_Injection DEF Finite
<1>7. \E i \in S : f[i] = n
  <2> HIDE DEF f
  <2> QED
    BY <1>6 DEF Surjection
<1> QED
  BY <1>7

(* The ascending sequence of a set has exactly its members, in order.         *)
Increasing(s) == \A i, j \in DOMAIN s : i < j => s[i] < s[j]

(* The ascending sequence of a set: increasing, each member once, at its rank.*)
LEMMA AscendingIs ==
    ASSUME NEW S, Finite(S)
    PROVE  /\ Cardinality(S) \in Nat
           /\ Ascending(S) \in Seq(S) /\ Ascending(S) \in Seq(Nat)
           /\ Len(Ascending(S)) = Cardinality(S)
           /\ DOMAIN Ascending(S) = 1 .. Cardinality(S)
           /\ \A n \in 1 .. Cardinality(S) : Ascending(S)[n] \in S /\ Rank(S, Ascending(S)[n]) = n
           /\ \A i \in S : Ascending(S)[Rank(S, i)] = i
           /\ Increasing(Ascending(S))
           /\ Range(Ascending(S)) = S
<1> DEFINE a == Ascending(S)
           N == Cardinality(S)
<1>1. N \in Nat
  BY FS_CardinalityType DEF Finite
<1>2. \A n \in 1 .. N : a[n] \in S /\ Rank(S, a[n]) = n
  <2> TAKE n \in 1 .. N
  <2>1. \E i \in S : Rank(S, i) = n
    BY RankReached
  <2>2. a[n] = CHOOSE i \in S : Rank(S, i) = n
    BY DEF Ascending
  <2> HIDE DEF a
  <2> QED
    BY <2>1, <2>2
<1>3. a = [n \in 1 .. N |-> a[n]] /\ DOMAIN a = 1 .. N
  BY DEF Ascending
<1> HIDE DEF a, N
<1>4. a \in [1 .. N -> S]
  BY <1>2, <1>3
<1>5. a \in Seq(S) /\ Len(a) = N
  BY <1>1, <1>4, SeqDef
<1>6. a \in Seq(Nat)
  BY <1>5, SeqMonotonic DEF Finite
<1>7. \A i, j \in S : Rank(S, i) = Rank(S, j) => i = j
  <2> TAKE i, j \in S
  <2>1. i < j => Rank(S, i) < Rank(S, j)
    BY RankGrows DEF Finite
  <2>2. j < i => Rank(S, j) < Rank(S, i)
    BY RankGrows DEF Finite
  <2>3. Rank(S, i) \in Nat /\ Rank(S, j) \in Nat
    BY <1>1, RankPositive DEF N
  <2> QED
    BY <2>1, <2>2, <2>3 DEF Finite
<1>8. \A i \in S : a[Rank(S, i)] = i
  BY <1>2, <1>7, RankPositive DEF N
<1>9. Increasing(a)
  <2> SUFFICES ASSUME NEW i \in 1 .. N, NEW j \in 1 .. N, i < j PROVE a[i] < a[j]
    BY <1>3 DEF Increasing
  <2>1. a[i] \in S /\ a[j] \in S /\ a[i] \in Nat /\ a[j] \in Nat
    BY <1>2 DEF Finite
  <2>2. Rank(S, a[i]) = i /\ Rank(S, a[j]) = j
    BY <1>2
  <2>3. a[j] < a[i] => Rank(S, a[j]) < Rank(S, a[i])
    BY <2>1, RankGrows
  <2> QED
    BY <2>1, <2>2, <2>3
<1>10. Range(a) = S
  <2>1. \A i \in S : Rank(S, i) \in 1 .. N
    BY RankPositive DEF N
  <2> QED
    BY <1>2, <1>3, <1>8, <2>1 DEF Range
<1> QED
  BY <1>1, <1>2, <1>3, <1>5, <1>6, <1>8, <1>9, <1>10 DEF a, N

(* ... and is the only increasing sequence that does.                         *)
LEMMA AscendingOnly ==
    ASSUME NEW s \in Seq(Nat), Increasing(s)
    PROVE  Finite(Range(s)) /\ s = Ascending(Range(s))
<1> DEFINE S == Range(s)
           N == Len(s)
<1>1. N \in Nat /\ DOMAIN s = 1 .. N /\ \A i \in 1 .. N : s[i] \in S /\ s[i] \in Nat
  BY LenProperties DEF Range
<1>2. S \in SUBSET Nat /\ \A x \in S : \E i \in 1 .. N : s[i] = x
  BY <1>1 DEF Range
<1>3. \A i, j \in 1 .. N : (s[i] <= s[j] <=> i <= j) /\ (s[i] = s[j] => i = j)
  BY <1>1 DEF Increasing
<1>4. s \in Bijection(1 .. N, S)
  <2>1. s \in [1 .. N -> S]
    BY <1>1, LenProperties
  <2> HIDE DEF S, N
  <2> QED
    BY <1>2, <1>3, <2>1 DEF Bijection, Injection, Surjection, IsInjective
<1> HIDE DEF S, N
<1>5. IsFiniteSet(1 .. N) /\ Cardinality(1 .. N) = N
  <2>1. N \in Int /\ 1 \in Int /\ N >= 0
    BY <1>1
  <2>2. IsFiniteSet(1 .. N) /\ Cardinality(1 .. N) = IF 1 > N THEN 0 ELSE N - 1 + 1
    BY <2>1, FS_Interval
  <2> QED
    BY <2>1, <2>2
<1>6. IsFiniteSet(S) /\ Cardinality(S) = N
  BY <1>4, <1>5, FS_Bijection DEF ExistsBijection
<1>7. Finite(S)
  BY <1>2, <1>6 DEF Finite
<1>8. \A n \in 1 .. N : Rank(S, s[n]) = n
  <2> TAKE n \in 1 .. N
  <2> DEFINE T == {j \in S : j <= s[n]}
             f == [i \in 1 .. n |-> s[i]]
  <2>1. \A i \in 1 .. n : s[i] \in T
    BY <1>1, <1>3
  <2>2. \A x \in T : \E i \in 1 .. n : s[i] = x
    <3> SUFFICES ASSUME NEW x \in T PROVE \E i \in 1 .. n : s[i] = x
      OBVIOUS
    <3>1. PICK i \in 1 .. N : s[i] = x
      BY <1>2
    <3> QED
      BY <1>1, <1>3, <3>1
  <2> HIDE DEF T
  <2>3. f \in [1 .. n -> T] /\ \A i \in 1 .. n : f[i] = s[i]
    BY <2>1
  <2>4. \A i, j \in 1 .. n : f[i] = f[j] => i = j
    BY <1>1, <1>3, <2>3
  <2>5. \A x \in T : \E i \in 1 .. n : f[i] = x
    BY <2>2, <2>3
  <2> HIDE DEF f
  <2>6. f \in Bijection(1 .. n, T)
    BY <2>3, <2>4, <2>5 DEF Bijection, Injection, Surjection, IsInjective
  <2>7. IsFiniteSet(1 .. n) /\ Cardinality(1 .. n) = n
    BY <1>1, FS_Interval
  <2>8. Cardinality(T) = n
    BY <2>6, <2>7, FS_Bijection DEF ExistsBijection
  <2> QED
    BY <2>8 DEF Rank, T
<1>9. /\ Ascending(S) \in Seq(Nat) /\ Len(Ascending(S)) = N
      /\ \A i \in S : Ascending(S)[Rank(S, i)] = i
  BY <1>6, <1>7, AscendingIs
<1>10. \A n \in 1 .. N : Ascending(S)[n] = s[n]
  BY <1>1, <1>8, <1>9
<1>11. s = Ascending(S)
  BY <1>9, <1>10, SeqEqual DEF N
<1> QED
  BY <1>7, <1>11 DEF S

(* What is kept of a sequence at the positions `S`: an increasing choice of    *)
(* positions, all of them.                                                   *)
Picks(f, s, S, r) ==
    /\ Len(f) = Len(r) /\ f \in Seq(S) /\ f \in Seq(Nat) /\ Increasing(f) /\ Range(f) = S
    /\ \A n \in 1 .. Len(r) : f[n] \in S /\ r[n] = s[f[n]]
    /\ \A i \in S : Rank(S, i) \in 1 .. Len(r) /\ f[Rank(S, i)] = i /\ r[Rank(S, i)] = s[i]

(* What is kept of a sequence is what it has at the kept positions, in its    *)
(* order.                                                                     *)
LEMMA KeepIs ==
    ASSUME NEW T, NEW s \in Seq(T), NEW S, S \subseteq DOMAIN s
    PROVE  /\ Keep(s, S) \in Seq(T)
           /\ Finite(S) /\ Cardinality(S) \in Nat
           /\ Len(Keep(s, S)) = Cardinality(S) /\ DOMAIN Keep(s, S) = 1 .. Cardinality(S)
           /\ Picks(Ascending(S), s, S, Keep(s, S))
<1> DEFINE k == Keep(s, S)
           N == Cardinality(S)
           a == Ascending(S)
<1>1. Len(s) \in Nat /\ DOMAIN s = 1 .. Len(s) /\ \A i \in 1 .. Len(s) : s[i] \in T
  BY LenProperties, ElementOfSeq
<1>2. Finite(S)
  <2>1. IsFiniteSet(1 .. Len(s)) /\ S \in SUBSET (1 .. Len(s)) /\ S \subseteq Nat
    BY <1>1, FS_Interval
  <2> QED
    BY <2>1, FS_Subset DEF Finite
<1>3. /\ N \in Nat /\ a \in Seq(S) /\ a \in Seq(Nat) /\ Len(a) = N /\ Increasing(a) /\ Range(a) = S
      /\ \A n \in 1 .. N : a[n] \in S /\ Rank(S, a[n]) = n
      /\ \A i \in S : a[Rank(S, i)] = i
  BY <1>2, AscendingIs
<1>4. /\ k = [n \in 1 .. N |-> k[n]] /\ DOMAIN k = 1 .. N
      /\ \A n \in 1 .. N : k[n] = s[a[n]]
  BY DEF Keep
<1>5. \A i \in S : Rank(S, i) \in 1 .. N
  BY <1>2, RankPositive
<1> HIDE DEF k, a, N
<1>6. k \in [1 .. N -> T]
  BY <1>1, <1>3, <1>4
<1>7. k \in Seq(T) /\ Len(k) = N
  BY <1>3, <1>6, SeqDef
<1>8. Picks(a, s, S, k)
  BY <1>3, <1>4, <1>5, <1>7 DEF Picks
<1> QED
  BY <1>2, <1>3, <1>4, <1>7, <1>8 DEF k, N, a

-----------------------------------------------------------------------------
(* The records and their fields.                                           *)

(* The fields of a conversation's records, and of one with a field replaced.   *)
LEMMA TxFields ==
    ASSUME NEW tx \in TxRec
    PROVE  /\ tx.entries \in Seq(EntryRec) /\ tx.subs \in Seq(SubmissionRec) /\ tx.inbox \in Seq(ItemRec)
           /\ tx.live \in LiveRec /\ tx.tasks \in Seq(TaskRec)
           /\ Len(tx.entries) \in Nat /\ DOMAIN tx.entries = 1 .. Len(tx.entries)
           /\ Len(tx.subs) \in Nat /\ DOMAIN tx.subs = 1 .. Len(tx.subs)
           /\ Len(tx.inbox) \in Nat /\ DOMAIN tx.inbox = 1 .. Len(tx.inbox)
           /\ Len(tx.tasks) \in Nat /\ DOMAIN tx.tasks = 1 .. Len(tx.tasks)
           /\ \A i \in 1 .. Len(tx.entries) : tx.entries[i] \in EntryRec
           /\ \A s \in 1 .. Len(tx.subs) : tx.subs[s] \in SubmissionRec
           /\ \A i \in 1 .. Len(tx.inbox) : tx.inbox[i] \in ItemRec
           /\ \A t \in 1 .. Len(tx.tasks) : tx.tasks[t] \in TaskRec
           /\ tx.live.run \in RunRec /\ tx.live.run.task \in Nat /\ tx.live.run.inputs \in Seq(Nat)
           /\ tx.live.slots \in Seq(SlotRec) /\ tx.live.compactions \in Seq(Nat)
<1>1. /\ tx.entries \in Seq(EntryRec) /\ tx.subs \in Seq(SubmissionRec) /\ tx.inbox \in Seq(ItemRec)
      /\ tx.live \in LiveRec /\ tx.tasks \in Seq(TaskRec)
  BY DEF TxRec
<1>2. /\ tx.live.run \in RunRec /\ tx.live.slots \in Seq(SlotRec) /\ tx.live.compactions \in Seq(Nat)
  BY <1>1 DEF LiveRec
<1>3. tx.live.run.task \in Nat /\ tx.live.run.inputs \in Seq(Nat)
  BY <1>2 DEF RunRec
<1>4. \A S : \A s \in Seq(S) : Len(s) \in Nat /\ DOMAIN s = 1 .. Len(s) /\ \A i \in 1 .. Len(s) : s[i] \in S
  BY LenProperties, ElementOfSeq
<1> QED
  BY <1>1, <1>2, <1>3, <1>4

(* Records with other entries differ in nothing else.                         *)
LEMMA WithEntries ==
    ASSUME NEW tx \in TxRec, NEW entries \in Seq(EntryRec), NEW new, new = [tx EXCEPT !.entries = entries]
    PROVE  /\ new \in TxRec /\ new.entries = entries
           /\ new.subs = tx.subs /\ new.inbox = tx.inbox /\ new.live = tx.live /\ new.tasks = tx.tasks
BY DEF TxRec

(* Records with other submissions differ in nothing else.                     *)
LEMMA WithSubs ==
    ASSUME NEW tx \in TxRec, NEW subs \in Seq(SubmissionRec), NEW new, new = [tx EXCEPT !.subs = subs]
    PROVE  /\ new \in TxRec /\ new.subs = subs
           /\ new.entries = tx.entries /\ new.inbox = tx.inbox /\ new.live = tx.live /\ new.tasks = tx.tasks
BY DEF TxRec

(* Records with another inbox differ in nothing else.                         *)
LEMMA WithInbox ==
    ASSUME NEW tx \in TxRec, NEW inbox \in Seq(ItemRec), NEW new, new = [tx EXCEPT !.inbox = inbox]
    PROVE  /\ new \in TxRec /\ new.inbox = inbox
           /\ new.entries = tx.entries /\ new.subs = tx.subs /\ new.live = tx.live /\ new.tasks = tx.tasks
BY DEF TxRec

(* Records with another live document differ in nothing else.                 *)
LEMMA WithLive ==
    ASSUME NEW tx \in TxRec, NEW live \in LiveRec, NEW new, new = [tx EXCEPT !.live = live]
    PROVE  /\ new \in TxRec /\ new.live = live
           /\ new.entries = tx.entries /\ new.subs = tx.subs /\ new.inbox = tx.inbox /\ new.tasks = tx.tasks
BY DEF TxRec

(* Records with other tasks differ in nothing else.                           *)
LEMMA WithTasks ==
    ASSUME NEW tx \in TxRec, NEW tasks \in Seq(TaskRec), NEW new, new = [tx EXCEPT !.tasks = tasks]
    PROVE  /\ new \in TxRec /\ new.tasks = tasks
           /\ new.entries = tx.entries /\ new.subs = tx.subs /\ new.inbox = tx.inbox /\ new.live = tx.live
BY DEF TxRec

(* A sequence with one more element, and with one replaced.                   *)
LEMMA Appended ==
    ASSUME NEW S, NEW s \in Seq(S), NEW e \in S
    PROVE  /\ Append(s, e) \in Seq(S) /\ Len(Append(s, e)) = Len(s) + 1
           /\ DOMAIN Append(s, e) = 1 .. Len(s) + 1
           /\ \A i \in 1 .. Len(s) : Append(s, e)[i] = s[i]
           /\ Append(s, e)[Len(s) + 1] = e
BY AppendProperties, LenProperties

(* A sequence with one element replaced.                                      *)
LEMMA Replaced ==
    ASSUME NEW S, NEW s \in Seq(S), NEW i \in 1 .. Len(s), NEW e \in S
    PROVE  /\ [s EXCEPT ![i] = e] \in Seq(S) /\ Len([s EXCEPT ![i] = e]) = Len(s)
           /\ DOMAIN [s EXCEPT ![i] = e] = 1 .. Len(s)
           /\ [s EXCEPT ![i] = e][i] = e
           /\ \A j \in 1 .. Len(s) : j # i => [s EXCEPT ![i] = e][j] = s[j]
BY ExceptSeq, LenProperties

-----------------------------------------------------------------------------
(* What each call of a commit does.                                           *)
Numbered(e, id) == IF e.kind = "reset" THEN [e EXCEPT !.head = id] ELSE e

(* The collections of a transaction are numbered from one.                    *)
LEMMA TxLengths ==
    ASSUME NEW tx \in TxRec
    PROVE  /\ Len(tx.entries) \in Nat /\ DOMAIN tx.entries = 1 .. Len(tx.entries)
           /\ Len(tx.subs) \in Nat /\ DOMAIN tx.subs = 1 .. Len(tx.subs)
           /\ Len(tx.inbox) \in Nat /\ DOMAIN tx.inbox = 1 .. Len(tx.inbox)
           /\ Len(tx.tasks) \in Nat /\ DOMAIN tx.tasks = 1 .. Len(tx.tasks)
BY TxFields

(* An entry as it is appended: a reset heads itself.                          *)
LEMMA NumberedType ==
    ASSUME NEW e \in EntryRec, NEW id \in Nat
    PROVE  /\ Numbered(e, id) \in EntryRec
           /\ Numbered(e, id).kind = e.kind /\ Numbered(e, id).by = e.by /\ Numbered(e, id).cover = e.cover
           /\ Numbered(e, id).ref = e.ref /\ Numbered(e, id).call = e.call /\ Numbered(e, id).calls = e.calls
           /\ Numbered(e, id).head = IF e.kind = "reset" THEN id ELSE e.head
BY DEF Numbered, EntryRec

(* appendEntry adds one entry and changes nothing else.                       *)
LEMMA AppendEntryIs ==
    ASSUME NEW tx \in TxRec, NEW e \in EntryRec
    PROVE  LET new == AppendEntry(tx, e)
               id == Len(tx.entries) + 1
           IN /\ new \in TxRec
              /\ new.subs = tx.subs /\ new.inbox = tx.inbox /\ new.live = tx.live /\ new.tasks = tx.tasks
              /\ new.entries = Append(tx.entries, Numbered(e, id))
              /\ Len(new.entries) = id
              /\ DOMAIN new.entries = 1 .. id
              /\ \A i \in 1 .. Len(tx.entries) : new.entries[i] = tx.entries[i]
              /\ new.entries[id] = Numbered(e, id)
<1> DEFINE id == Len(tx.entries) + 1
           entries == Append(tx.entries, Numbered(e, id))
<1>1. tx.entries \in Seq(EntryRec) /\ id \in Nat
  BY TxFields
<1>2. Numbered(e, id) \in EntryRec
  BY <1>1, NumberedType
<1>3. /\ entries \in Seq(EntryRec) /\ Len(entries) = id /\ DOMAIN entries = 1 .. id
      /\ \A i \in 1 .. Len(tx.entries) : entries[i] = tx.entries[i]
      /\ entries[id] = Numbered(e, id)
  BY <1>1, <1>2, Appended
<1>4. AppendEntry(tx, e) = [tx EXCEPT !.entries = entries]
  BY DEF AppendEntry, Numbered, TxRec
<1> HIDE DEF entries
<1>5. /\ AppendEntry(tx, e) \in TxRec /\ AppendEntry(tx, e).entries = entries
      /\ AppendEntry(tx, e).subs = tx.subs /\ AppendEntry(tx, e).inbox = tx.inbox
      /\ AppendEntry(tx, e).live = tx.live /\ AppendEntry(tx, e).tasks = tx.tasks
  BY <1>3, <1>4, WithEntries
<1> QED
  BY <1>3, <1>5 DEF entries

Submitted(req, type, status, entry, why) ==
    [req |-> req, type |-> type, status |-> status, entry |-> entry, answer |-> 0, why |-> why]

(* createSubmission adds one submission and changes nothing else.             *)
LEMMA CreateSubmissionIs ==
    ASSUME NEW tx \in TxRec, NEW req, NEW type, NEW status, NEW entry, NEW why,
           Submitted(req, type, status, entry, why) \in SubmissionRec
    PROVE  LET new == CreateSubmission(tx, req, type, status, entry, why)
               s == Len(tx.subs) + 1
           IN /\ new \in TxRec
              /\ new.entries = tx.entries /\ new.inbox = tx.inbox /\ new.live = tx.live /\ new.tasks = tx.tasks
              /\ Len(new.subs) = s /\ DOMAIN new.subs = 1 .. s
              /\ \A i \in 1 .. Len(tx.subs) : new.subs[i] = tx.subs[i]
              /\ new.subs[s] = Submitted(req, type, status, entry, why)
<1> DEFINE subs == Append(tx.subs, Submitted(req, type, status, entry, why))
<1>1. tx.subs \in Seq(SubmissionRec)
  BY TxFields
<1>2. /\ subs \in Seq(SubmissionRec) /\ Len(subs) = Len(tx.subs) + 1 /\ DOMAIN subs = 1 .. Len(tx.subs) + 1
      /\ \A i \in 1 .. Len(tx.subs) : subs[i] = tx.subs[i]
      /\ subs[Len(tx.subs) + 1] = Submitted(req, type, status, entry, why)
  BY <1>1, Appended
<1>3. CreateSubmission(tx, req, type, status, entry, why) = [tx EXCEPT !.subs = subs]
  BY DEF CreateSubmission, Submitted, TxRec
<1> HIDE DEF subs
<1> QED
  BY <1>2, <1>3, WithSubs

(* The submission `s` is replaced by `new` in `tx`.                            *)
LEMMA ReplaceSubmission ==
    ASSUME NEW tx \in TxRec, NEW s \in DOMAIN tx.subs, NEW sub \in SubmissionRec,
           NEW new, new = [tx EXCEPT !.subs = [tx.subs EXCEPT ![s] = sub]]
    PROVE  /\ new \in TxRec
           /\ new.entries = tx.entries /\ new.inbox = tx.inbox /\ new.live = tx.live /\ new.tasks = tx.tasks
           /\ Len(new.subs) = Len(tx.subs) /\ DOMAIN new.subs = DOMAIN tx.subs
           /\ new.subs[s] = sub
           /\ \A i \in DOMAIN tx.subs : i # s => new.subs[i] = tx.subs[i]
<1> DEFINE subs == [tx.subs EXCEPT ![s] = sub]
<1>1. tx.subs \in Seq(SubmissionRec) /\ DOMAIN tx.subs = 1 .. Len(tx.subs)
  BY TxFields
<1>2. /\ subs \in Seq(SubmissionRec) /\ Len(subs) = Len(tx.subs) /\ DOMAIN subs = 1 .. Len(tx.subs)
      /\ subs[s] = sub /\ \A i \in 1 .. Len(tx.subs) : i # s => subs[i] = tx.subs[i]
  BY <1>1, Replaced
<1> HIDE DEF subs
<1>3. new = [tx EXCEPT !.subs = subs]
  BY DEF subs
<1> QED
  BY <1>1, <1>2, <1>3, WithSubs

SettledAs(sub, status, answer, why) ==
    IF sub.status \in Settled THEN sub
    ELSE [sub EXCEPT !.status = status, !.answer = answer, !.why = why]

(* A submission as it is settled; one that is settled stays as it is.         *)
LEMMA SettledAsType ==
    ASSUME NEW sub \in SubmissionRec, NEW status \in Settled, NEW answer \in Nat,
           NEW why \in {"none", "aborted", "stale", "no_model", "model_error", "reset", "faulted"}
    PROVE  /\ SettledAs(sub, status, answer, why) \in SubmissionRec
           /\ SettledAs(sub, status, answer, why).req = sub.req
           /\ SettledAs(sub, status, answer, why).type = sub.type
           /\ SettledAs(sub, status, answer, why).entry = sub.entry
           /\ SettledAs(sub, status, answer, why).status \in Settled
           /\ sub.status \in Settled => SettledAs(sub, status, answer, why) = sub
           /\ sub.status \notin Settled =>
                /\ SettledAs(sub, status, answer, why).status = status
                /\ SettledAs(sub, status, answer, why).answer = answer
BY DEF SettledAs, SubmissionRec, Settled

(* settleSubmission changes one submission and nothing else.                  *)
LEMMA SettleSubmissionIs ==
    ASSUME NEW tx \in TxRec, NEW s \in DOMAIN tx.subs, NEW status \in Settled, NEW answer \in Nat,
           NEW why \in {"none", "aborted", "stale", "no_model", "model_error", "reset", "faulted"}
    PROVE  LET new == SettleSubmission(tx, s, status, answer, why)
           IN /\ new \in TxRec
              /\ new.entries = tx.entries /\ new.inbox = tx.inbox /\ new.live = tx.live /\ new.tasks = tx.tasks
              /\ Len(new.subs) = Len(tx.subs) /\ DOMAIN new.subs = DOMAIN tx.subs
              /\ new.subs[s] = SettledAs(tx.subs[s], status, answer, why)
              /\ \A i \in DOMAIN tx.subs : i # s => new.subs[i] = tx.subs[i]
<1>1. tx.subs[s] \in SubmissionRec
  BY TxFields
<1>2. CASE tx.subs[s].status \in Settled
  BY <1>2 DEF SettleSubmission, SettledAs
<1>3. CASE tx.subs[s].status \notin Settled
  <2> DEFINE sub == [tx.subs[s] EXCEPT !.status = status, !.answer = answer, !.why = why]
  <2>1. sub \in SubmissionRec
    BY <1>1 DEF SubmissionRec, Settled
  <2>2. SettleSubmission(tx, s, status, answer, why) = [tx EXCEPT !.subs = [tx.subs EXCEPT ![s] = sub]]
    BY <1>3 DEF SettleSubmission, TxRec
  <2>3. SettledAs(tx.subs[s], status, answer, why) = sub
    BY <1>3 DEF SettledAs
  <2> HIDE DEF sub
  <2> QED
    BY <2>1, <2>2, <2>3, ReplaceSubmission
<1> QED
  BY <1>2, <1>3

PlacedAs(sub, entry) ==
    [sub EXCEPT !.entry = entry, !.status = IF sub.type = "input" THEN "placed" ELSE "done"]

(* placeSubmission changes one submission and nothing else: an input is       *)
(* placed, a write is done.                                                   *)
LEMMA PlaceSubmissionIs ==
    ASSUME NEW tx \in TxRec, NEW s \in DOMAIN tx.subs, NEW entry \in Nat
    PROVE  LET new == PlaceSubmission(tx, s, entry)
           IN /\ new \in TxRec
              /\ new.entries = tx.entries /\ new.inbox = tx.inbox /\ new.live = tx.live /\ new.tasks = tx.tasks
              /\ Len(new.subs) = Len(tx.subs) /\ DOMAIN new.subs = DOMAIN tx.subs
              /\ new.subs[s] = PlacedAs(tx.subs[s], entry)
              /\ \A i \in DOMAIN tx.subs : i # s => new.subs[i] = tx.subs[i]
              /\ new.subs[s].req = tx.subs[s].req /\ new.subs[s].type = tx.subs[s].type
              /\ new.subs[s].entry = entry
              /\ new.subs[s].status = IF tx.subs[s].type = "input" THEN "placed" ELSE "done"
<1>1. tx.subs[s] \in SubmissionRec
  BY TxFields
<1>2. PlacedAs(tx.subs[s], entry) \in SubmissionRec
  BY <1>1 DEF PlacedAs, SubmissionRec
<1>3. PlaceSubmission(tx, s, entry) = [tx EXCEPT !.subs = [tx.subs EXCEPT ![s] = PlacedAs(tx.subs[s], entry)]]
  BY DEF PlaceSubmission, PlacedAs, TxRec
<1>4. /\ PlacedAs(tx.subs[s], entry).req = tx.subs[s].req /\ PlacedAs(tx.subs[s], entry).type = tx.subs[s].type
      /\ PlacedAs(tx.subs[s], entry).entry = entry
      /\ PlacedAs(tx.subs[s], entry).status = IF tx.subs[s].type = "input" THEN "placed" ELSE "done"
  BY <1>1 DEF PlacedAs, SubmissionRec
<1> QED
  BY <1>2, <1>3, <1>4, ReplaceSubmission

(* createTask adds one task and changes nothing else.                         *)
LEMMA CreateTaskIs ==
    ASSUME NEW tx \in TxRec, NEW task \in TaskRec
    PROVE  LET new == CreateTask(tx, task)
               t == Len(tx.tasks) + 1
           IN /\ new \in TxRec
              /\ new.entries = tx.entries /\ new.subs = tx.subs /\ new.inbox = tx.inbox /\ new.live = tx.live
              /\ Len(new.tasks) = t /\ DOMAIN new.tasks = 1 .. t
              /\ \A i \in 1 .. Len(tx.tasks) : new.tasks[i] = tx.tasks[i]
              /\ new.tasks[t] = task
<1> DEFINE tasks == Append(tx.tasks, task)
<1>1. tx.tasks \in Seq(TaskRec)
  BY TxFields
<1>2. /\ tasks \in Seq(TaskRec) /\ Len(tasks) = Len(tx.tasks) + 1 /\ DOMAIN tasks = 1 .. Len(tx.tasks) + 1
      /\ \A i \in 1 .. Len(tx.tasks) : tasks[i] = tx.tasks[i]
      /\ tasks[Len(tx.tasks) + 1] = task
  BY <1>1, Appended
<1>3. CreateTask(tx, task) = [tx EXCEPT !.tasks = tasks]
  BY DEF CreateTask, TxRec
<1> HIDE DEF tasks
<1> QED
  BY <1>2, <1>3, WithTasks

(* A task record is replaced and nothing else changes.                        *)
LEMMA SetTaskIs ==
    ASSUME NEW tx \in TxRec, NEW t \in DOMAIN tx.tasks, NEW task \in TaskRec
    PROVE  LET new == SetTask(tx, t, task)
           IN /\ new \in TxRec
              /\ new.entries = tx.entries /\ new.subs = tx.subs /\ new.inbox = tx.inbox /\ new.live = tx.live
              /\ Len(new.tasks) = Len(tx.tasks) /\ DOMAIN new.tasks = DOMAIN tx.tasks
              /\ new.tasks[t] = task
              /\ \A i \in DOMAIN tx.tasks : i # t => new.tasks[i] = tx.tasks[i]
<1> DEFINE tasks == [tx.tasks EXCEPT ![t] = task]
<1>1. tx.tasks \in Seq(TaskRec) /\ DOMAIN tx.tasks = 1 .. Len(tx.tasks)
  BY TxFields
<1>2. /\ tasks \in Seq(TaskRec) /\ Len(tasks) = Len(tx.tasks) /\ DOMAIN tasks = 1 .. Len(tx.tasks)
      /\ tasks[t] = task /\ \A i \in 1 .. Len(tx.tasks) : i # t => tasks[i] = tx.tasks[i]
  BY <1>1, Replaced
<1>3. SetTask(tx, t, task) = [tx EXCEPT !.tasks = tasks]
  BY DEF SetTask, TxRec
<1> HIDE DEF tasks
<1> QED
  BY <1>1, <1>2, <1>3, WithTasks

-----------------------------------------------------------------------------
(* Transcripts: heads, what is active, what a context remembers.           *)

(* The transcript of `tx2` continues that of `tx`.                            *)
Continues(tx, tx2) ==
    /\ Len(tx.entries) <= Len(tx2.entries)
    /\ \A i \in DOMAIN tx.entries : tx2.entries[i] = tx.entries[i]

ActiveSet(tx) ==
    {i \in DOMAIN tx.entries : i = LatestHeadMarker(tx) \/ (tx.entries[i].head = 0 /\ i >= ActiveStart(tx))}

(* The newest of a set of positions is one of them, and none is newer; it is 0   *)
(* when there is none.                                                       *)
LEMMA NewestAmong ==
    ASSUME NEW n \in Nat, NEW S \in SUBSET (1 .. n)
    PROVE  /\ NewestOf(S) \in 0 .. n
           /\ NewestOf(S) > 0 => NewestOf(S) \in S
           /\ \A j \in S : j <= NewestOf(S)
<1>1. S \in SUBSET Nat /\ \A i \in S : i <= n /\ i \in 1 .. n
  OBVIOUS
<1>2. CASE S = {}
  BY <1>2, NewestOfEmpty
<1>3. CASE S # {}
  <2>1. NewestOf(S) \in S /\ \A j \in S : j <= NewestOf(S)
    BY <1>1, <1>3, GreatestNumber
  <2>2. NewestOf(S) \in 1 .. n
    BY <1>1, <2>1
  <2> HIDE DEF NewestOf
  <2> QED
    BY <2>1, <2>2
<1> QED
  BY <1>2, <1>3

(* The newest head is the one that reaches furthest, and no reset is newer      *)
(* than the start of the active range.                                       *)
LEMMA HeadsAre ==
    ASSUME NEW tx \in TxRec, Transcript(tx)
    PROVE  /\ LatestHeadMarker(tx) \in 0 .. Len(tx.entries)
           /\ LatestHeadMarker(tx) > 0 => tx.entries[LatestHeadMarker(tx)].head = ActiveStart(tx)
           /\ LatestHeadMarker(tx) = 0 <=> ActiveStart(tx) = 0
           /\ ActiveStart(tx) \in 0 .. LatestHeadMarker(tx)
           /\ \A i \in DOMAIN tx.entries : tx.entries[i].head > 0 =>
                i <= LatestHeadMarker(tx) /\ tx.entries[i].head <= ActiveStart(tx)
           /\ NewestReset(tx) \in 0 .. ActiveStart(tx)
           /\ NewestReset(tx) > 0 => tx.entries[NewestReset(tx)].kind = "reset"
           /\ \A i \in DOMAIN tx.entries : tx.entries[i].kind = "reset" => i <= NewestReset(tx)
<1> DEFINE n == Len(tx.entries)
           h == LatestHeadMarker(tx)
           r == NewestReset(tx)
           a == ActiveStart(tx)
<1>1. /\ n \in Nat /\ DOMAIN tx.entries = 1 .. n
      /\ \A i \in 1 .. n : tx.entries[i].head \in Nat
  BY TxFields DEF EntryRec
<1>3. /\ \A i \in 1 .. n : tx.entries[i].head \in 0 .. i
      /\ \A i \in 1 .. n : tx.entries[i].kind = "reset" => tx.entries[i].head = i
      /\ \A i, j \in 1 .. n :
           i < j /\ tx.entries[i].head > 0 /\ tx.entries[j].head > 0 => tx.entries[i].head <= tx.entries[j].head
  BY <1>1 DEF Transcript
<1>5. a = IF h = 0 THEN 0 ELSE tx.entries[h].head
  BY DEF ActiveStart
<1>6. /\ h \in 0 .. n /\ (h > 0 => tx.entries[h].head > 0)
      /\ \A j \in 1 .. n : tx.entries[j].head > 0 => j <= h
  <2> DEFINE H == {i \in DOMAIN tx.entries : tx.entries[i].head > 0}
  <2>1. H \in SUBSET (1 .. n)
    BY <1>1
  <2>2. h = NewestOf(H)
    BY DEF LatestHeadMarker
  <2>3. \A i \in 1 .. n : tx.entries[i].head > 0 => i \in H
    BY <1>1
  <2>4. \A i \in H : tx.entries[i].head > 0
    OBVIOUS
  <2> HIDE DEF H
  <2> QED
    BY <1>1, <2>1, <2>2, <2>3, <2>4, NewestAmong
<1>7. /\ r \in 0 .. n /\ (r > 0 => tx.entries[r].kind = "reset")
      /\ \A j \in 1 .. n : tx.entries[j].kind = "reset" => j <= r
  <2> DEFINE R == {i \in DOMAIN tx.entries : tx.entries[i].kind = "reset"}
  <2>1. R \in SUBSET (1 .. n)
    BY <1>1
  <2>2. r = NewestOf(R)
    BY DEF NewestReset
  <2>3. \A i \in 1 .. n : tx.entries[i].kind = "reset" => i \in R
    BY <1>1
  <2>4. \A i \in R : tx.entries[i].kind = "reset"
    OBVIOUS
  <2> HIDE DEF R
  <2> QED
    BY <1>1, <2>1, <2>2, <2>3, <2>4, NewestAmong
<1> HIDE DEF h, r, a, n
<1>8. h # 0 => h \in 1 .. n /\ tx.entries[h].head \in 1 .. h
  BY <1>1, <1>3, <1>6
<1>9. (h > 0 => tx.entries[h].head = a) /\ (h = 0 <=> a = 0) /\ a \in 0 .. h
  BY <1>1, <1>5, <1>6, <1>8
<1>10. \A i \in 1 .. n : tx.entries[i].head > 0 => i <= h /\ tx.entries[i].head <= a
  <2> TAKE i \in 1 .. n
  <2> HAVE tx.entries[i].head > 0
  <2>1. i <= h /\ i \in Nat /\ h \in Nat /\ h \in 1 .. n
    BY <1>1, <1>6
  <2>2. i < h => tx.entries[i].head <= tx.entries[h].head
    BY <1>3, <1>6, <2>1
  <2>3. a = tx.entries[h].head /\ a \in Nat
    BY <1>1, <1>5, <2>1
  <2> QED
    BY <2>1, <2>2, <2>3
<1>11. r \in 0 .. a
  <2>1. CASE r = 0
    BY <1>9, <1>6, <2>1
  <2>2. CASE r # 0
    <3>1. r \in 1 .. n /\ tx.entries[r].kind = "reset"
      BY <1>1, <1>7, <2>2
    <3>2. tx.entries[r].head = r
      BY <1>3, <3>1
    <3>3. r <= a
      BY <1>10, <3>1, <3>2
    <3> QED
      BY <1>6, <1>9, <3>1, <3>3
  <2> QED
    BY <2>1, <2>2
<1> QED
  BY <1>1, <1>6, <1>7, <1>9, <1>10, <1>11 DEF h, r, a, n

(* The active entries, as a set.                                              *)
LEMMA ActiveIs ==
    ASSUME NEW tx \in TxRec, Transcript(tx)
    PROVE  Range(ActiveEntries(tx)) = ActiveSet(tx)
<1> DEFINE n == Len(tx.entries)
           h == LatestHeadMarker(tx)
           a == ActiveStart(tx)
           inRange(i) == i >= a /\ (h = 0 \/ tx.entries[i].head = 0)
           A == {i \in DOMAIN tx.entries : inRange(i)}
<1>1. n \in Nat /\ DOMAIN tx.entries = 1 .. n
  BY TxFields
<1>2. IsFiniteSet(1 .. n) /\ A \in SUBSET (1 .. n) /\ A \subseteq Nat
  BY <1>1, FS_Interval
<1>3. Finite(A)
  BY <1>2, FS_Subset DEF Finite
<1>4. Range(Ascending(A)) = A /\ Ascending(A) \in Seq(Nat)
  <2> HIDE DEF A
  <2> QED
    BY <1>3, AscendingIs
<1>5. ActiveEntries(tx) = IF h = 0 THEN Ascending(A) ELSE <<h>> \o Ascending(A)
  BY DEF ActiveEntries
<1>6. /\ h \in 0 .. n /\ a \in 0 .. h /\ (h = 0 <=> a = 0)
      /\ \A i \in 1 .. n : tx.entries[i].head > 0 => i <= h
      /\ \A i \in 1 .. n : tx.entries[i].head \in Nat
  <2>1. \A i \in 1 .. n : tx.entries[i].head \in Nat
    BY TxFields DEF EntryRec
  <2> QED
    BY <1>1, <2>1, HeadsAre
<1>7. CASE h = 0
  <2>1. A = ActiveSet(tx)
    BY <1>1, <1>6, <1>7 DEF ActiveSet
  <2> QED
    BY <1>4, <1>5, <1>7, <2>1
<1>8. CASE h # 0
  <2> DEFINE s == Ascending(A)
  <2>1. s \in Seq(Nat) /\ Range(s) = A
    BY <1>4
  <2> HIDE DEF s, A
  <2>2. Range(<<h>> \o s) = {h} \cup A
    <3>1. <<h>> \o s \in Seq(Nat) /\ Len(<<h>> \o s) = 1 + Len(s)
      BY <1>6, <2>1, <1>1, LenProperties
    <3>2. DOMAIN (<<h>> \o s) = 1 .. 1 + Len(s) /\ DOMAIN s = 1 .. Len(s) /\ Len(s) \in Nat
      BY <2>1, <3>1, LenProperties
    <3>3. (<<h>> \o s)[1] = h /\ \A i \in 1 .. Len(s) : (<<h>> \o s)[i + 1] = s[i]
      BY <2>1, <1>6, LenProperties
    <3>4. \A k \in 1 .. 1 + Len(s) : k = 1 \/ k - 1 \in 1 .. Len(s)
      BY <3>2
    <3>5. \A k \in 1 .. 1 + Len(s) : (<<h>> \o s)[k] \in {h} \cup A
      <4> TAKE k \in 1 .. 1 + Len(s)
      <4>1. CASE k = 1
        BY <3>3, <4>1
      <4>2. CASE k # 1
        <5>1. k - 1 \in 1 .. Len(s) /\ (<<h>> \o s)[(k - 1) + 1] = s[k - 1] /\ (k - 1) + 1 = k
          BY <4>2, <3>2, <3>3, <3>4
        <5> QED
          BY <5>1, <2>1, <3>2 DEF Range
      <4> QED
        BY <4>1, <4>2
    <3>6. \A x \in {h} \cup A : \E k \in 1 .. 1 + Len(s) : (<<h>> \o s)[k] = x
      <4> TAKE x \in {h} \cup A
      <4>1. CASE x = h
        BY <3>2, <3>3, <4>1
      <4>2. CASE x \in A
        <5>1. PICK i \in 1 .. Len(s) : s[i] = x
          BY <2>1, <3>2, <4>2 DEF Range
        <5> QED
          BY <5>1, <3>2, <3>3
      <4> QED
        BY <4>1, <4>2
    <3> QED
      BY <3>2, <3>5, <3>6 DEF Range
  <2>3. {h} \cup A = ActiveSet(tx)
    BY <1>1, <1>6, <1>8 DEF ActiveSet, A
  <2> QED
    BY <1>5, <1>8, <2>2, <2>3 DEF s
<1> QED
  BY <1>7, <1>8

(* A transcript that continues another keeps its heads: no head brings back     *)
(* what an earlier one cut.                                                  *)
LEMMA StartGrows ==
    ASSUME NEW tx \in TxRec, NEW tx2 \in TxRec, Continues(tx, tx2), Transcript(tx), Transcript(tx2)
    PROVE  ActiveStart(tx) <= ActiveStart(tx2) /\ NewestReset(tx) <= NewestReset(tx2)
<1>1. /\ Len(tx.entries) \in Nat /\ DOMAIN tx.entries = 1 .. Len(tx.entries)
      /\ Len(tx2.entries) \in Nat /\ DOMAIN tx2.entries = 1 .. Len(tx2.entries)
  BY TxFields
<1>2. LatestHeadMarker(tx) > 0 =>
        /\ LatestHeadMarker(tx) \in DOMAIN tx2.entries
        /\ tx2.entries[LatestHeadMarker(tx)].head = ActiveStart(tx)
        /\ ActiveStart(tx) > 0
  BY <1>1, HeadsAre DEF Continues
<1>3. NewestReset(tx) > 0 =>
        NewestReset(tx) \in DOMAIN tx2.entries /\ tx2.entries[NewestReset(tx)].kind = "reset"
  BY <1>1, HeadsAre DEF Continues
<1>4. ActiveStart(tx2) \in Nat /\ NewestReset(tx2) \in Nat /\ ActiveStart(tx) \in Nat /\ NewestReset(tx) \in Nat
      /\ LatestHeadMarker(tx) \in Nat
  BY HeadsAre, <1>1
<1> QED
  BY <1>2, <1>3, <1>4, HeadsAre

(* What a summary may stand for goes on to stand for it.                      *)
LEMMA StandsStable ==
    ASSUME NEW tx \in TxRec, NEW tx2 \in TxRec, Continues(tx, tx2), Transcript(tx), Transcript(tx2),
           NEW cut \in Nat, NEW cover \in SUBSET Nat, Stands(tx, cut, cover)
    PROVE  Stands(tx2, cut, cover)
<1>1. /\ Len(tx.entries) \in Nat /\ DOMAIN tx.entries = 1 .. Len(tx.entries)
      /\ Len(tx2.entries) \in Nat /\ DOMAIN tx2.entries = 1 .. Len(tx2.entries)
  BY TxFields
<1>2. cut \in DOMAIN tx.entries /\ cut \in DOMAIN tx2.entries
  BY <1>1 DEF Stands, Continues
<1>3. ActiveStart(tx2) \in Nat /\ NewestReset(tx2) \in Nat /\ ActiveStart(tx) \in Nat /\ NewestReset(tx) \in Nat
      /\ LatestHeadMarker(tx) \in Nat
  BY HeadsAre, <1>1
<1>4. SUFFICES ASSUME cut >= ActiveStart(tx2)
               PROVE  /\ cut > NewestReset(tx2)
                      /\ \A i \in cover : i >= NewestReset(tx2)
                      /\ ~HostCut(tx2) => \A i \in DOMAIN tx2.entries :
                           /\ i >= NewestReset(tx2) /\ i < cut
                           /\ Contributes(tx2.entries[i]) /\ tx2.entries[i].kind # "summary"
                           => i \in cover
  BY <1>2 DEF Stands
<1>5. cut >= ActiveStart(tx)
  BY <1>2, <1>3, <1>4, StartGrows
<1>6. /\ cut > NewestReset(tx)
      /\ \A i \in cover : i >= NewestReset(tx)
      /\ ~HostCut(tx) => \A i \in DOMAIN tx.entries :
           /\ i >= NewestReset(tx) /\ i < cut
           /\ Contributes(tx.entries[i]) /\ tx.entries[i].kind # "summary"
           => i \in cover
  BY <1>5 DEF Stands
<1>7. NewestReset(tx2) <= cut
  BY <1>3, <1>4, HeadsAre
<1>8. NewestReset(tx2) = NewestReset(tx)
  <2>1. NewestReset(tx2) > 0 => tx2.entries[NewestReset(tx2)] = tx.entries[NewestReset(tx2)]
                                 /\ NewestReset(tx2) \in DOMAIN tx.entries
    BY <1>1, <1>2, <1>3, <1>7 DEF Continues
  <2>2. NewestReset(tx2) > 0 => NewestReset(tx2) <= NewestReset(tx)
    BY <2>1, HeadsAre
  <2> QED
    BY <1>3, <2>2, StartGrows
<1>9. ~HostCut(tx2) => ~HostCut(tx)
  BY <1>1 DEF HostCut, Continues
<1>10. \A i \in DOMAIN tx2.entries : i < cut => i \in DOMAIN tx.entries /\ tx2.entries[i] = tx.entries[i]
  BY <1>1, <1>2 DEF Continues
<1> QED
  BY <1>6, <1>8, <1>9, <1>10

PlainEntry(e) == e.head = 0 /\ e.kind \notin HeadKinds /\ e.cover = {}

(* The transcript of `tx2` adds entries without a head to that of `tx`.        *)
Extends(tx, tx2) ==
    /\ Continues(tx, tx2)
    /\ \A i \in DOMAIN tx2.entries : i > Len(tx.entries) => PlainEntry(tx2.entries[i])

(* What is new of the numbers of a transcript without new heads: nothing.      *)
LEMMA PlainHeads ==
    ASSUME NEW tx \in TxRec, NEW tx2 \in TxRec, Transcript(tx), Extends(tx, tx2)
    PROVE  /\ Transcript(tx2)
           /\ LatestHeadMarker(tx2) = LatestHeadMarker(tx)
           /\ ActiveStart(tx2) = ActiveStart(tx)
           /\ NewestReset(tx2) = NewestReset(tx)
           /\ HostCut(tx2) <=> HostCut(tx)
           /\ \A i \in DOMAIN tx.entries : i \in ActiveSet(tx2) <=> i \in ActiveSet(tx)
           /\ \A i \in DOMAIN tx2.entries : i > Len(tx.entries) => i \in ActiveSet(tx2)
<1> DEFINE n == Len(tx.entries)
           m == Len(tx2.entries)
<1>1. /\ n \in Nat /\ DOMAIN tx.entries = 1 .. n /\ m \in Nat /\ DOMAIN tx2.entries = 1 .. m /\ n <= m
      /\ \A i \in 1 .. n : tx2.entries[i] = tx.entries[i]
      /\ \A i \in 1 .. m : i > n => PlainEntry(tx2.entries[i])
  BY TxFields DEF Continues, Extends
<1>2. \A i \in 1 .. m : i \in 1 .. n \/ (i > n /\ tx2.entries[i].head = 0 /\ tx2.entries[i].kind \notin HeadKinds
                                          /\ tx2.entries[i].cover = {})
  BY <1>1 DEF PlainEntry
<1>3. /\ \A i \in 1 .. n : tx.entries[i].head \in Nat
      /\ \A i \in 1 .. n : tx.entries[i].head \in 0 .. i
      /\ \A i \in 1 .. n : tx.entries[i].head > 0 <=> tx.entries[i].kind \in HeadKinds
      /\ \A i \in 1 .. n : tx.entries[i].kind = "reset" => tx.entries[i].head = i
      /\ \A i \in 1 .. n : tx.entries[i].kind # "summary" => tx.entries[i].cover = {}
      /\ \A i, j \in 1 .. n :
           i < j /\ tx.entries[i].head > 0 /\ tx.entries[j].head > 0 => tx.entries[i].head <= tx.entries[j].head
  <2>1. \A i \in 1 .. n : tx.entries[i].head \in Nat
    BY <1>1, TxFields DEF EntryRec
  <2> QED
    BY <1>1, <2>1 DEF Transcript
<1>4. Transcript(tx2)
  <2>1. ASSUME NEW i \in 1 .. m
        PROVE  /\ tx2.entries[i].head \in 0 .. i
               /\ tx2.entries[i].head > 0 <=> tx2.entries[i].kind \in HeadKinds
               /\ tx2.entries[i].kind = "reset" => tx2.entries[i].head = i
               /\ tx2.entries[i].kind # "summary" => tx2.entries[i].cover = {}
    <3>1. CASE i \in 1 .. n
      BY <1>1, <1>3, <3>1
    <3>2. CASE i \notin 1 .. n
      BY <1>1, <1>2, <2>1, <3>2 DEF HeadKinds
    <3> QED
      BY <3>1, <3>2
  <2>2. ASSUME NEW i \in 1 .. m, NEW j \in 1 .. m, i < j, tx2.entries[i].head > 0, tx2.entries[j].head > 0
        PROVE  tx2.entries[i].head <= tx2.entries[j].head
    <3>1. i \in 1 .. n /\ j \in 1 .. n
      BY <1>2, <2>2
    <3> QED
      BY <1>1, <1>3, <2>2, <3>1
  <2> QED
    BY <1>1, <2>1, <2>2 DEF Transcript
<1>5. {i \in DOMAIN tx2.entries : tx2.entries[i].head > 0} = {i \in DOMAIN tx.entries : tx.entries[i].head > 0}
  BY <1>1, <1>2
<1>6. {i \in DOMAIN tx2.entries : tx2.entries[i].kind = "reset"} = {i \in DOMAIN tx.entries : tx.entries[i].kind = "reset"}
  BY <1>1, <1>2 DEF HeadKinds
<1>7. LatestHeadMarker(tx2) = LatestHeadMarker(tx) /\ NewestReset(tx2) = NewestReset(tx)
  BY <1>5, <1>6 DEF LatestHeadMarker, NewestReset
<1>8. ActiveStart(tx2) = ActiveStart(tx)
  <2>1. LatestHeadMarker(tx) \in 0 .. n
    BY HeadsAre
  <2> QED
    BY <1>1, <1>7, <2>1 DEF ActiveStart
<1>9. HostCut(tx2) <=> HostCut(tx)
  BY <1>1, <1>2 DEF HostCut, HeadKinds
<1>10. ActiveStart(tx) \in 0 .. n /\ LatestHeadMarker(tx) \in 0 .. n
  BY <1>1, HeadsAre
<1>11. /\ \A i \in DOMAIN tx.entries : i \in ActiveSet(tx2) <=> i \in ActiveSet(tx)
       /\ \A i \in DOMAIN tx2.entries : i > n => i \in ActiveSet(tx2)
  BY <1>1, <1>2, <1>7, <1>8, <1>10 DEF ActiveSet
<1> QED
  BY <1>4, <1>7, <1>8, <1>9, <1>11

(* What the context remembers.                                                *)
LEMMA RememberedIs ==
    ASSUME NEW tx \in TxRec, Transcript(tx)
    PROVE  Remembered(tx) = ActiveSet(tx)
             \cup (IF LatestHeadMarker(tx) = 0 THEN {} ELSE tx.entries[LatestHeadMarker(tx)].cover)
BY ActiveIs DEF Remembered

(* A context that gains entries without a head is still whole.                *)
LEMMA PlainContext ==
    ASSUME NEW tx \in TxRec, NEW tx2 \in TxRec, Transcript(tx), Extends(tx, tx2), Context(tx)
    PROVE  Context(tx2)
<1> DEFINE n == Len(tx.entries)
           m == Len(tx2.entries)
           h == LatestHeadMarker(tx)
<1>1. /\ n \in Nat /\ DOMAIN tx.entries = 1 .. n /\ m \in Nat /\ DOMAIN tx2.entries = 1 .. m /\ n <= m
      /\ \A i \in 1 .. n : tx2.entries[i] = tx.entries[i]
  BY TxFields DEF Continues, Extends
<1>2. /\ Transcript(tx2) /\ LatestHeadMarker(tx2) = h /\ NewestReset(tx2) = NewestReset(tx)
      /\ HostCut(tx2) <=> HostCut(tx)
      /\ \A i \in 1 .. n : i \in ActiveSet(tx2) <=> i \in ActiveSet(tx)
      /\ \A i \in 1 .. m : i > n => i \in ActiveSet(tx2)
      /\ h \in 0 .. n /\ NewestReset(tx) \in 0 .. n
  <2>1. h \in 0 .. n /\ ActiveStart(tx) \in 0 .. h /\ NewestReset(tx) \in 0 .. ActiveStart(tx)
    BY HeadsAre
  <2> QED
    BY <1>1, <2>1, PlainHeads
<1> DEFINE C == IF h = 0 THEN {} ELSE tx.entries[h].cover
<1>3. Remembered(tx) = ActiveSet(tx) \cup C /\ Remembered(tx2) = ActiveSet(tx2) \cup C
  <2>1. h # 0 => tx2.entries[h] = tx.entries[h]
    BY <1>1, <1>2
  <2> QED
    BY <1>2, <2>1, RememberedIs
<1>4. ActiveSet(tx) \subseteq 1 .. n /\ ActiveSet(tx2) \subseteq 1 .. m
  BY <1>1 DEF ActiveSet
<1> HIDE DEF n, m, h, C
<1>5. ContextComplete(tx2)
  <2> SUFFICES ASSUME ~HostCut(tx2), NEW i \in 1 .. m, i >= NewestReset(tx2),
                      Contributes(tx2.entries[i]), tx2.entries[i].kind # "summary"
               PROVE  i \in Remembered(tx2)
    BY <1>1 DEF ContextComplete
  <2>1. CASE i \in 1 .. n
    <3>1. i \in Remembered(tx)
      BY <1>1, <1>2, <2>1 DEF Context, ContextComplete
    <3> QED
      BY <1>2, <1>3, <2>1, <3>1
  <2>2. CASE i \notin 1 .. n
    BY <1>1, <1>2, <1>3, <2>2
  <2> QED
    BY <2>1, <2>2
<1>6. ResetForgets(tx2)
  <2> SUFFICES ASSUME NEW i \in Remembered(tx2) PROVE i >= NewestReset(tx)
    BY <1>2 DEF ResetForgets
  <2>1. CASE i \in C
    BY <1>3, <2>1 DEF Context, ResetForgets
  <2>2. CASE i \notin C
    <3>1. i \in ActiveSet(tx2) /\ i \in 1 .. m
      BY <1>3, <1>4, <2>2
    <3>2. CASE i \in 1 .. n
      BY <1>2, <1>3, <3>1, <3>2 DEF Context, ResetForgets
    <3>3. CASE i \notin 1 .. n
      BY <1>1, <1>2, <3>1, <3>3
    <3> QED
      BY <3>2, <3>3
  <2> QED
    BY <2>1, <2>2
<1> QED
  BY <1>5, <1>6 DEF Context

(* A head that may be appended to `tx`.                                       *)
GoodHead(tx, e) ==
    /\ e.head > 0 /\ e.kind \in HeadKinds /\ e.head >= ActiveStart(tx)
    /\ IF e.kind = "reset" THEN e.head = Len(tx.entries) + 1 ELSE e.head \in DOMAIN tx.entries
    /\ e.kind # "summary" => e.cover = {}
    /\ e.kind = "summary" => Stands(tx, e.head, e.cover)

(* An appended head is where the active range now starts, and a summary stands  *)
(* for what it cuts.                                                         *)
LEMMA HeadExtends ==
    ASSUME NEW tx \in TxRec, NEW tx2 \in TxRec, Transcript(tx), Continues(tx, tx2),
           Len(tx2.entries) = Len(tx.entries) + 1, GoodHead(tx, tx2.entries[Len(tx.entries) + 1])
    PROVE  /\ Transcript(tx2)
           /\ LatestHeadMarker(tx2) = Len(tx.entries) + 1
           /\ ActiveStart(tx2) = tx2.entries[Len(tx.entries) + 1].head
           /\ Context(tx) => Context(tx2)
<1> DEFINE n == Len(tx.entries)
           id == n + 1
           e == tx2.entries[id]
<1>1. /\ n \in Nat /\ DOMAIN tx.entries = 1 .. n /\ DOMAIN tx2.entries = 1 .. id /\ id \in Nat
      /\ \A i \in 1 .. n : tx2.entries[i] = tx.entries[i]
      /\ \A i \in 1 .. id : i = id \/ i \in 1 .. n
      /\ e \in EntryRec /\ e.head \in Nat
      /\ \A i \in 1 .. n : tx.entries[i].head \in Nat
  <2>1. /\ n \in Nat /\ DOMAIN tx.entries = 1 .. n /\ DOMAIN tx2.entries = 1 .. id /\ id \in Nat
        /\ \A i \in 1 .. id : tx2.entries[i] \in EntryRec
        /\ \A i \in 1 .. n : tx.entries[i] \in EntryRec
    BY TxFields
  <2>2. e \in EntryRec
    BY <2>1
  <2>3. \A i \in 1 .. n : tx.entries[i].head \in Nat
    BY <2>1 DEF EntryRec
  <2>4. e.head \in Nat
    BY <2>2 DEF EntryRec
  <2>5. \A i \in 1 .. id : i = id \/ i \in 1 .. n
    BY <2>1
  <2> QED
    BY <2>1, <2>2, <2>3, <2>4, <2>5 DEF Continues
<1>2. /\ e.head > 0 /\ e.kind \in HeadKinds /\ e.head >= ActiveStart(tx)
      /\ (e.kind = "reset" => e.head = id) /\ e.head \in 1 .. id
      /\ (e.kind # "reset" => e.head \in 1 .. n)
      /\ (e.kind # "summary" => e.cover = {})
      /\ (e.kind = "summary" => Stands(tx, e.head, e.cover))
  <2>1. GoodHead(tx, e) /\ id = n + 1 /\ DOMAIN tx.entries = 1 .. n
    BY <1>1
  <2>2. /\ e.head > 0 /\ e.kind \in HeadKinds /\ e.head >= ActiveStart(tx)
        /\ (e.kind = "reset" => e.head = n + 1)
        /\ (e.kind # "reset" => e.head \in DOMAIN tx.entries)
        /\ (e.kind # "summary" => e.cover = {})
        /\ (e.kind = "summary" => Stands(tx, e.head, e.cover))
    <3> HIDE DEF e
    <3> QED
      BY <2>1 DEF GoodHead
  <2> HIDE DEF e, n
  <2> QED
    BY <1>1, <2>1, <2>2
<1> HIDE DEF e, n
<1>3. /\ \A i \in 1 .. n : tx.entries[i].head \in 0 .. i
      /\ \A i \in 1 .. n : tx.entries[i].head > 0 <=> tx.entries[i].kind \in HeadKinds
      /\ \A i \in 1 .. n : tx.entries[i].kind = "reset" => tx.entries[i].head = i
      /\ \A i \in 1 .. n : tx.entries[i].kind # "summary" => tx.entries[i].cover = {}
      /\ \A i, j \in 1 .. n :
           i < j /\ tx.entries[i].head > 0 /\ tx.entries[j].head > 0 => tx.entries[i].head <= tx.entries[j].head
  BY <1>1 DEF Transcript
<1>4. /\ \A i \in 1 .. n : tx.entries[i].head <= ActiveStart(tx)
      /\ ActiveStart(tx) \in 0 .. n /\ NewestReset(tx) \in 0 .. ActiveStart(tx)
      /\ \A i \in 1 .. n : tx.entries[i].kind = "reset" => i <= NewestReset(tx)
  <2>1. LatestHeadMarker(tx) \in 0 .. n
    BY HeadsAre DEF n
  <2>2. ActiveStart(tx) \in 0 .. n
    BY <1>1, <2>1, HeadsAre
  <2>3. \A i \in 1 .. n : tx.entries[i].head > 0 => tx.entries[i].head <= ActiveStart(tx)
    BY <1>1, HeadsAre
  <2>4. \A i \in 1 .. n : tx.entries[i].head <= ActiveStart(tx)
    BY <1>1, <2>2, <2>3
  <2> QED
    BY <1>1, <2>2, <2>4, HeadsAre
<1>5. Transcript(tx2)
  <2>1. ASSUME NEW i \in 1 .. id
        PROVE  /\ tx2.entries[i].head \in 0 .. i
               /\ tx2.entries[i].head > 0 <=> tx2.entries[i].kind \in HeadKinds
               /\ tx2.entries[i].kind = "reset" => tx2.entries[i].head = i
               /\ tx2.entries[i].kind # "summary" => tx2.entries[i].cover = {}
    <3>1. CASE i \in 1 .. n
      BY <1>1, <1>3, <3>1
    <3>2. CASE i = id
      BY <1>1, <1>2, <3>2 DEF e
    <3> QED
      BY <1>1, <2>1, <3>1, <3>2
  <2>2. ASSUME NEW i \in 1 .. id, NEW j \in 1 .. id, i < j, tx2.entries[i].head > 0, tx2.entries[j].head > 0
        PROVE  tx2.entries[i].head <= tx2.entries[j].head
    <3>1. i \in 1 .. n
      BY <1>1, <2>2
    <3>2. CASE j \in 1 .. n
      BY <1>1, <1>3, <2>2, <3>1, <3>2
    <3>3. CASE j = id
      <4>1. tx.entries[i].head <= ActiveStart(tx) /\ tx.entries[i].head \in Nat /\ ActiveStart(tx) \in Nat
        BY <1>1, <1>4, <3>1
      <4> QED
        BY <1>1, <1>2, <3>1, <3>3, <4>1 DEF e
    <3> QED
      BY <1>1, <3>2, <3>3
  <2> QED
    BY <1>1, <2>1, <2>2 DEF Transcript
<1>6. LatestHeadMarker(tx2) = id
  <2>1. id \in {i \in DOMAIN tx2.entries : tx2.entries[i].head > 0}
    BY <1>1, <1>2 DEF e
  <2>2. \A j \in {i \in DOMAIN tx2.entries : tx2.entries[i].head > 0} : j <= id
    BY <1>1
  <2>3. {i \in DOMAIN tx2.entries : tx2.entries[i].head > 0} \in SUBSET Nat
    BY <1>1
  <2> QED
    BY <2>1, <2>2, <2>3, NewestIs DEF LatestHeadMarker
<1>7. ActiveStart(tx2) = e.head
  BY <1>1, <1>6 DEF ActiveStart, e
<1>8. Remembered(tx2) = ActiveSet(tx2) \cup e.cover
  BY <1>1, <1>5, <1>6, RememberedIs DEF e
<1>9. \A i \in 1 .. n : i \in ActiveSet(tx2) <=> tx.entries[i].head = 0 /\ i >= e.head
  <2>1. \A i \in 1 .. n : i # id /\ i \in 1 .. id
    BY <1>1
  <2> QED
    BY <1>1, <1>6, <1>7, <2>1 DEF ActiveSet
<1>10. id \in ActiveSet(tx2) /\ ActiveSet(tx2) \subseteq 1 .. id
  BY <1>1, <1>6 DEF ActiveSet
<1>11. NewestReset(tx2) = IF e.kind = "reset" THEN id ELSE NewestReset(tx)
  <2>1. CASE e.kind = "reset"
    <3>1. id \in {i \in DOMAIN tx2.entries : tx2.entries[i].kind = "reset"}
      BY <1>1, <2>1 DEF e
    <3>2. \A j \in {i \in DOMAIN tx2.entries : tx2.entries[i].kind = "reset"} : j <= id
      BY <1>1
    <3>3. {i \in DOMAIN tx2.entries : tx2.entries[i].kind = "reset"} \in SUBSET Nat
      BY <1>1
    <3> QED
      BY <2>1, <3>1, <3>2, <3>3, NewestIs DEF NewestReset
  <2>2. CASE e.kind # "reset"
    <3>1. {i \in DOMAIN tx2.entries : tx2.entries[i].kind = "reset"} = {i \in DOMAIN tx.entries : tx.entries[i].kind = "reset"}
      BY <1>1, <2>2 DEF e
    <3> QED
      BY <2>2, <3>1 DEF NewestReset
  <2> QED
    BY <2>1, <2>2
<1>12. ASSUME Context(tx) PROVE ContextComplete(tx2)
  <2> SUFFICES ASSUME ~HostCut(tx2), NEW i \in 1 .. id, i >= NewestReset(tx2),
                      Contributes(tx2.entries[i]), tx2.entries[i].kind # "summary"
               PROVE  i \in Remembered(tx2)
    BY <1>1 DEF ContextComplete
  <2>1. CASE i = id
    BY <1>8, <1>10, <2>1
  <2>2. CASE i \in 1 .. n
    <3>1. e.kind # "cut" /\ \A j \in 1 .. n : tx.entries[j].kind # "cut"
      <4>1. \A j \in 1 .. id : tx2.entries[j].kind # "cut"
        BY <1>1 DEF HostCut
      <4>2. id \in 1 .. id /\ \A j \in 1 .. n : j \in 1 .. id
        BY <1>1
      <4> QED
        BY <1>1, <4>1, <4>2 DEF e
    <3>2. e.kind # "reset"
      BY <1>1, <1>11, <2>2
    <3>3. e.kind = "summary" /\ Stands(tx, e.head, e.cover)
      BY <1>2, <3>1, <3>2 DEF HeadKinds
    <3>4. ~HostCut(tx)
      BY <1>1, <3>1 DEF HostCut
    <3>5. /\ e.head > NewestReset(tx)
          /\ \A j \in 1 .. n : /\ j >= NewestReset(tx) /\ j < e.head
                               /\ Contributes(tx.entries[j]) /\ tx.entries[j].kind # "summary"
                               => j \in e.cover
      BY <1>1, <1>2, <3>3, <3>4 DEF Stands
    <3>6. CASE i < e.head
      BY <1>1, <1>8, <1>11, <2>2, <3>2, <3>5, <3>6
    <3>7. CASE i >= e.head
      <4>1. i > NewestReset(tx) /\ i \in Nat
        BY <1>1, <1>4, <2>2, <3>5, <3>7
      <4>2. tx.entries[i].kind # "reset"
        BY <1>1, <1>4, <2>2, <4>1
      <4>3. tx.entries[i].kind \notin HeadKinds
        BY <1>1, <2>2, <3>1, <4>2 DEF HeadKinds
      <4>4. tx.entries[i].head = 0
        BY <1>1, <1>3, <2>2, <4>3
      <4> QED
        BY <1>8, <1>9, <2>2, <3>7, <4>4
    <3> QED
      BY <1>1, <2>2, <3>6, <3>7
  <2> QED
    BY <1>1, <2>1, <2>2
<1>13. ResetForgets(tx2)
  <2> SUFFICES ASSUME NEW i \in Remembered(tx2) PROVE i >= NewestReset(tx2)
    BY DEF ResetForgets
  <2>1. NewestReset(tx2) <= e.head /\ NewestReset(tx2) \in Nat
    BY <1>1, <1>2, <1>4, <1>11
  <2>2. CASE i = id
    BY <1>1, <1>2, <2>1, <2>2
  <2>3. CASE i # id /\ i \in ActiveSet(tx2)
    <3>1. i \in 1 .. n
      BY <1>1, <1>10, <2>3
    <3>2. i >= e.head
      BY <1>9, <2>3, <3>1
    <3> QED
      BY <1>1, <2>1, <3>1, <3>2
  <2>4. CASE i \notin ActiveSet(tx2)
    <3>1. i \in e.cover
      BY <1>8, <2>4
    <3>2. e.kind = "summary"
      BY <1>2, <3>1
    <3>3. i >= NewestReset(tx)
      BY <1>2, <3>1, <3>2 DEF Stands
    <3> QED
      BY <1>11, <3>2, <3>3
  <2> QED
    BY <2>2, <2>3, <2>4
<1> QED
  BY <1>5, <1>6, <1>7, <1>12, <1>13 DEF Context, e, n

-----------------------------------------------------------------------------
(* Submissions, the inbox and who owns what was placed.                    *)

(* The types of the fields of a submission.                                   *)
LEMMA SubFields ==
    ASSUME NEW tx \in TxRec
    PROVE  \A s \in DOMAIN tx.subs :
             /\ s \in 1 .. Len(tx.subs) /\ s \in Nat
             /\ tx.subs[s] \in SubmissionRec
             /\ tx.subs[s].entry \in Nat /\ tx.subs[s].answer \in Nat
             /\ tx.subs[s].type \in {"input", "write"}
             /\ tx.subs[s].status \in {"queued", "placed", "done", "unanswered"}
BY TxFields DEF SubmissionRec

(* The types of the fields of an inbox item.                                  *)
LEMMA ItemFields ==
    ASSUME NEW tx \in TxRec
    PROVE  \A i \in DOMAIN tx.inbox :
             /\ i \in 1 .. Len(tx.inbox) /\ i \in Nat
             /\ tx.inbox[i] \in ItemRec
             /\ tx.inbox[i].sub \in Nat
             /\ tx.inbox[i].mode \in {"steer", "followUp", "write"}
             /\ tx.inbox[i].entry \in EntryRec
             /\ tx.inbox[i].entry.head \in Nat /\ tx.inbox[i].entry.cover \in SUBSET Nat
             /\ tx.inbox[i].entry.kind \in EntryKinds
<1> SUFFICES ASSUME NEW i \in DOMAIN tx.inbox
             PROVE  /\ i \in 1 .. Len(tx.inbox) /\ i \in Nat
                    /\ tx.inbox[i] \in ItemRec
                    /\ tx.inbox[i].sub \in Nat
                    /\ tx.inbox[i].mode \in {"steer", "followUp", "write"}
                    /\ tx.inbox[i].entry \in EntryRec
                    /\ tx.inbox[i].entry.head \in Nat /\ tx.inbox[i].entry.cover \in SUBSET Nat
                    /\ tx.inbox[i].entry.kind \in EntryKinds
  OBVIOUS
<1>1. i \in 1 .. Len(tx.inbox) /\ i \in Nat /\ tx.inbox[i] \in ItemRec
  BY TxFields
<1>2. /\ tx.inbox[i].sub \in Nat /\ tx.inbox[i].mode \in {"steer", "followUp", "write"}
      /\ tx.inbox[i].entry \in EntryRec
  BY <1>1 DEF ItemRec
<1>3. tx.inbox[i].entry.head \in Nat /\ tx.inbox[i].entry.cover \in SUBSET Nat /\ tx.inbox[i].entry.kind \in EntryKinds
  BY <1>2 DEF EntryRec
<1> QED
  BY <1>1, <1>2, <1>3

(* The types of the fields of an entry.                                       *)
LEMMA EntryFields ==
    ASSUME NEW tx \in TxRec
    PROVE  /\ Len(tx.entries) \in Nat /\ DOMAIN tx.entries = 1 .. Len(tx.entries)
           /\ \A i \in DOMAIN tx.entries :
             /\ i \in 1 .. Len(tx.entries) /\ i \in Nat
             /\ tx.entries[i] \in EntryRec
             /\ tx.entries[i].head \in Nat /\ tx.entries[i].cover \in SUBSET Nat
             /\ tx.entries[i].by \in Nat
             /\ tx.entries[i].ref \in Nat
             /\ tx.entries[i].kind \in EntryKinds
<1>1. /\ Len(tx.entries) \in Nat /\ DOMAIN tx.entries = 1 .. Len(tx.entries)
      /\ \A i \in 1 .. Len(tx.entries) : tx.entries[i] \in EntryRec
  BY TxFields
<1>2. \A e \in EntryRec : /\ e.head \in Nat /\ e.cover \in SUBSET Nat /\ e.by \in Nat
                         /\ e.ref \in Nat /\ e.kind \in EntryKinds
  BY DEF EntryRec
<1> QED
  BY <1>1, <1>2

(* A transcript that grows by entries of no submission keeps the records in     *)
(* agreement, if the new transcript is one and its context is whole.          *)
LEMMA GrowKeeps ==
    ASSUME NEW tx \in TxRec, NEW tx2 \in TxRec, NEW W, NEW U, NEW U2, TxInv(tx, W, U),
           Continues(tx, tx2), Transcript(tx2), Context(tx2),
           \A i \in DOMAIN tx2.entries : i > Len(tx.entries) => tx2.entries[i].by = 0,
           tx2.subs = tx.subs, tx2.inbox = tx.inbox, Owns(tx2, U2)
    PROVE  TxInv(tx2, W, U2)
<1> DEFINE n == Len(tx.entries)
           m == Len(tx2.entries)
<1>1. /\ n \in Nat /\ DOMAIN tx.entries = 1 .. n /\ m \in Nat /\ DOMAIN tx2.entries = 1 .. m /\ n <= m
      /\ \A i \in 1 .. n : tx2.entries[i] = tx.entries[i]
      /\ \A i \in 1 .. m : i \in 1 .. n \/ i > n
  BY TxFields DEF Continues
<1>2. /\ Transcript(tx) /\ Queue(tx, W) /\ Placement(tx) /\ Order(tx, W) /\ Owns(tx, U)
      /\ Answered(tx) /\ HeldItems(tx, W)
  BY DEF TxInv
<1>3. /\ \A s \in DOMAIN tx.subs : tx.subs[s].entry \in 0 .. n
      /\ \A s \in DOMAIN tx.subs : tx.subs[s].entry # 0 => tx.subs[s].entry \in 1 .. n
  BY <1>1, <1>2 DEF Placement
<1>4. Queue(tx2, W)
  <2>1. \A i \in DOMAIN tx.inbox : tx.inbox[i].entry.head <= n => tx.inbox[i].entry.head <= m
    BY <1>1, ItemFields
  <2> QED
    BY <1>2, <2>1 DEF Queue, ItemFits
<1>5. Placement(tx2)
  <2>1. \A s \in DOMAIN tx.subs : tx.subs[s].entry \in 0 .. m
    BY <1>1, <1>3
  <2>2. \A i \in DOMAIN tx2.entries : tx2.entries[i].by # 0 => i \in DOMAIN tx.entries
    BY <1>1
  <2>3. ASSUME NEW s \in DOMAIN tx.subs, tx.subs[s].entry # 0
        PROVE  tx2.entries[tx.subs[s].entry].by = s
    <3>1. tx2.entries[tx.subs[s].entry] = tx.entries[tx.subs[s].entry]
      BY <1>1, <1>3, <2>3
    <3> QED
      BY <1>2, <2>3, <3>1 DEF Placement
  <2>4. ASSUME NEW i \in DOMAIN tx2.entries, tx2.entries[i].by # 0
        PROVE  tx2.entries[i].by \in DOMAIN tx.subs /\ tx.subs[tx2.entries[i].by].entry = i
    <3>1. i \in DOMAIN tx.entries /\ tx2.entries[i] = tx.entries[i]
      BY <1>1, <2>2, <2>4
    <3> QED
      BY <1>2, <2>4, <3>1 DEF Placement
  <2> QED
    BY <1>2, <2>1, <2>3, <2>4 DEF Placement
<1>6. Order(tx2, W)
  <2>1. LandsInOrder(tx2)
    <3>1. \A s \in DOMAIN tx.subs : tx.subs[s].entry # 0 => tx2.entries[tx.subs[s].entry] = tx.entries[tx.subs[s].entry]
      BY <1>1, <1>3
    <3> QED
      BY <1>2, <3>1 DEF Order, LandsInOrder, Landed
  <2>2. ResetFirst(tx2, W)
    BY <1>2 DEF Order, ResetFirst, Landed
  <2> QED
    BY <2>1, <2>2 DEF Order
<1>8. Answered(tx2)
  <2>1. ASSUME NEW s \in DOMAIN tx.subs, tx.subs[s].type = "input", tx.subs[s].status = "done"
        PROVE  AnsweredBy(tx2.entries, tx.subs[s].entry, tx.subs[s].answer)
    <3>1. /\ tx.subs[s].answer \in 1 .. n
          /\ tx.entries[tx.subs[s].answer].kind = "assistant"
          /\ tx.subs[s].entry <= tx.entries[tx.subs[s].answer].ref
          /\ \A i \in tx.subs[s].entry .. tx.subs[s].answer : tx.entries[i].kind # "reset"
      BY <1>1, <1>2, <2>1 DEF Answered, AnsweredBy
    <3>2. tx2.entries[tx.subs[s].answer] = tx.entries[tx.subs[s].answer] /\ tx.subs[s].answer \in 1 .. m
      BY <1>1, <3>1
    <3>3. ASSUME NEW i \in tx.subs[s].entry .. tx.subs[s].answer PROVE tx2.entries[i].kind # "reset"
      <4>1. tx.subs[s].entry \in 1 .. n
        BY <1>2, <1>3, <2>1 DEF Placement
      <4>2. i \in 1 .. n
        BY <1>1, <3>1, <3>3, <4>1
      <4> QED
        BY <1>1, <3>1, <3>3, <4>2
    <3> QED
      BY <1>1, <3>1, <3>2, <3>3 DEF AnsweredBy
  <2> QED
    BY <2>1 DEF Answered
<1>9. HeldItems(tx2, W)
  <2> SUFFICES ASSUME NEW i \in W, tx.inbox[i].entry.kind = "summary"
               PROVE  Stands(tx2, tx.inbox[i].entry.head, tx.inbox[i].entry.cover)
    BY DEF HeldItems
  <2>1. i \in DOMAIN tx.inbox /\ Stands(tx, tx.inbox[i].entry.head, tx.inbox[i].entry.cover)
    BY <1>2 DEF HeldItems, Queue
  <2> QED
    BY <1>2, <2>1, ItemFields, StandsStable
<1> QED
  BY <1>4, <1>5, <1>6, <1>8, <1>9 DEF TxInv

(* Who owns the placed inputs depends on the submissions and on the inputs of *)
(* the run.                                                                   *)
LEMMA OwnsSame ==
    ASSUME NEW tx, NEW tx2, NEW U, Owns(tx, U), tx2.subs = tx.subs, tx2.live.run.inputs = tx.live.run.inputs
    PROVE  Owns(tx2, U)
BY DEF Owns

(* Records that keep transcript, submissions and inbox agree if the run does.   *)
LEMMA SameRecords ==
    ASSUME NEW tx \in TxRec, NEW tx2 \in TxRec, NEW W, NEW U, NEW U2, TxInv(tx, W, U),
           tx2.entries = tx.entries, tx2.subs = tx.subs, tx2.inbox = tx.inbox, Owns(tx2, U2)
    PROVE  TxInv(tx2, W, U2)
<1>1. Len(tx.entries) \in Nat /\ DOMAIN tx.entries = 1 .. Len(tx.entries)
  BY TxFields
<1>2. Extends(tx, tx2) /\ Continues(tx, tx2)
  BY <1>1 DEF Extends, Continues
<1>3. Transcript(tx) /\ Context(tx)
  BY DEF TxInv
<1>4. Transcript(tx2) /\ Context(tx2)
  BY <1>2, <1>3, PlainHeads, PlainContext
<1> QED
  BY <1>1, <1>2, <1>4, GrowKeeps

(* Entries without a head, of no submission, keep the records in agreement.     *)
LEMMA PlainKeeps ==
    ASSUME NEW tx \in TxRec, NEW tx2 \in TxRec, NEW W, NEW U, TxInv(tx, W, U), Extends(tx, tx2),
           \A i \in DOMAIN tx2.entries : i > Len(tx.entries) => tx2.entries[i].by = 0,
           tx2.subs = tx.subs, tx2.inbox = tx.inbox, tx2.live.run.inputs = tx.live.run.inputs
    PROVE  TxInv(tx2, W, U)
<1>1. Transcript(tx) /\ Context(tx) /\ Owns(tx, U)
  BY DEF TxInv
<1>2. Transcript(tx2) /\ Context(tx2) /\ Continues(tx, tx2) /\ Owns(tx2, U)
  BY <1>1, PlainHeads, PlainContext, OwnsSame DEF Extends
<1> QED
  BY <1>2, GrowKeeps

(* So does a head that may be appended.                                       *)
LEMMA HeadKeeps ==
    ASSUME NEW tx \in TxRec, NEW tx2 \in TxRec, NEW W, NEW U, TxInv(tx, W, U), Continues(tx, tx2),
           Len(tx2.entries) = Len(tx.entries) + 1, GoodHead(tx, tx2.entries[Len(tx.entries) + 1]),
           tx2.entries[Len(tx.entries) + 1].by = 0,
           tx2.subs = tx.subs, tx2.inbox = tx.inbox, tx2.live.run.inputs = tx.live.run.inputs
    PROVE  TxInv(tx2, W, U)
<1>1. Transcript(tx) /\ Context(tx) /\ Owns(tx, U)
  BY DEF TxInv
<1>2. Transcript(tx2) /\ Context(tx2) /\ Owns(tx2, U)
  BY <1>1, HeadExtends, OwnsSame
<1>3. \A i \in DOMAIN tx2.entries : i > Len(tx.entries) => i = Len(tx.entries) + 1
  <2> DEFINE n == Len(tx.entries)
  <2>1. n \in Nat /\ DOMAIN tx2.entries = 1 .. n + 1
    BY TxLengths
  <2> HIDE DEF n
  <2>2. \A i \in 1 .. n + 1 : i > n => i = n + 1
    BY <2>1
  <2> QED
    BY <2>1, <2>2 DEF n
<1> QED
  BY <1>2, <1>3, GrowKeeps

(* Settling submissions keeps the records in agreement, if whoever held them     *)
(* lets them go, and inputs are done only with an answer that saw them.       *)
LEMMA SettleKeeps ==
    ASSUME NEW tx \in TxRec, NEW tx2 \in TxRec, NEW W, NEW U, NEW U2, TxInv(tx, W, U),
           NEW X \in SUBSET DOMAIN tx.subs,
           tx2.entries = tx.entries, tx2.inbox = tx.inbox, DOMAIN tx2.subs = DOMAIN tx.subs,
           \A s \in DOMAIN tx.subs : s \notin X => tx2.subs[s] = tx.subs[s],
           \A s \in X :
             /\ tx2.subs[s].req = tx.subs[s].req /\ tx2.subs[s].type = tx.subs[s].type
             /\ tx2.subs[s].entry = tx.subs[s].entry /\ tx2.subs[s].status \in Settled
             /\ tx2.subs[s].status = "done" =>
                  /\ tx.subs[s].type = "input" /\ tx.subs[s].entry # 0
                  /\ AnsweredBy(tx.entries, tx.subs[s].entry, tx2.subs[s].answer),
           Owns(tx2, U2)
    PROVE  TxInv(tx2, {i \in W : tx.inbox[i].sub \notin X}, U2)
<1> DEFINE W2 == {i \in W : tx.inbox[i].sub \notin X}
<1>1. /\ Transcript(tx) /\ Queue(tx, W) /\ Placement(tx) /\ Order(tx, W) /\ Context(tx)
      /\ Answered(tx) /\ HeldItems(tx, W)
  BY DEF TxInv
<1>2. /\ \A s \in DOMAIN tx.subs :
           /\ tx2.subs[s].req = tx.subs[s].req /\ tx2.subs[s].type = tx.subs[s].type
           /\ tx2.subs[s].entry = tx.subs[s].entry
           /\ tx2.subs[s].status = tx.subs[s].status \/ (s \in X /\ tx2.subs[s].status \in {"done", "unanswered"})
      /\ \A s \in X : tx2.subs[s].status \in {"done", "unanswered"}
  BY DEF Settled
<1>3. Extends(tx, tx2)
  BY TxFields DEF Extends, Continues
<1>4. Transcript(tx2) /\ Context(tx2) /\ Continues(tx, tx2)
  BY <1>1, <1>3, PlainHeads, PlainContext DEF Extends
<1>5. Queue(tx2, W2)
  <2>1. \A i \in DOMAIN tx.inbox : ItemFits(tx2, tx.inbox[i])
    BY <1>1, <1>2 DEF Queue, ItemFits
  <2>2. \A s \in DOMAIN tx.subs : tx.subs[s].status = "queued" <=> \E i \in W : tx.inbox[i].sub = s
    BY <1>1 DEF Queue
  <2>3. \A s \in DOMAIN tx.subs : tx2.subs[s].status = "queued" <=> tx.subs[s].status = "queued" /\ s \notin X
    BY <1>2
  <2>4. \A s \in DOMAIN tx.subs : tx2.subs[s].status = "queued" <=> \E i \in W2 : tx.inbox[i].sub = s
    BY <2>2, <2>3
  <2>5. W2 \subseteq DOMAIN tx.inbox
    BY <1>1 DEF Queue
  <2> HIDE DEF W2
  <2> QED
    BY <1>1, <2>1, <2>4, <2>5 DEF Queue
<1>6. Placement(tx2)
  <2>1. \A s \in DOMAIN tx.subs :
           /\ tx2.subs[s].status = "queued" => tx.subs[s].status = "queued"
           /\ tx2.subs[s].status = "placed" => tx.subs[s].status = "placed"
           /\ tx2.subs[s].status = "done" => tx.subs[s].entry # 0
    BY <1>1, <1>2 DEF Placement
  <2> QED
    BY <1>1, <1>2, <2>1 DEF Placement
<1>7. Order(tx2, W2)
  <2>1. LandsInOrder(tx2)
    BY <1>1, <1>2 DEF Order, LandsInOrder, Landed
  <2>2. ResetFirst(tx2, W2)
    BY <1>1, <1>2 DEF Order, ResetFirst, Landed
  <2> QED
    BY <2>1, <2>2 DEF Order
<1>8. Answered(tx2)
  <2> SUFFICES ASSUME NEW s \in DOMAIN tx.subs, tx2.subs[s].type = "input", tx2.subs[s].status = "done"
               PROVE  AnsweredBy(tx.entries, tx2.subs[s].entry, tx2.subs[s].answer)
    BY DEF Answered
  <2>1. CASE s \in X
    BY <1>2, <2>1
  <2>2. CASE s \notin X
    BY <1>1, <2>2 DEF Answered
  <2> QED
    BY <2>1, <2>2
<1>9. HeldItems(tx2, W2)
  <2> SUFFICES ASSUME NEW i \in W2, tx.inbox[i].entry.kind = "summary"
               PROVE  Stands(tx2, tx.inbox[i].entry.head, tx.inbox[i].entry.cover)
    BY DEF HeldItems
  <2>1. i \in DOMAIN tx.inbox /\ Stands(tx, tx.inbox[i].entry.head, tx.inbox[i].entry.cover)
    BY <1>1 DEF HeldItems, Queue
  <2> QED
    BY <1>1, <1>4, <2>1, ItemFields, StandsStable
<1> QED
  BY <1>4, <1>5, <1>6, <1>7, <1>8, <1>9 DEF TxInv

(* `tx2` is `tx` with the submissions `X` settled.                             *)
SettlesAll(tx, tx2, X) ==
    /\ X \in SUBSET DOMAIN tx.subs
    /\ tx2.entries = tx.entries /\ tx2.inbox = tx.inbox /\ DOMAIN tx2.subs = DOMAIN tx.subs
    /\ \A s \in DOMAIN tx.subs : s \notin X => tx2.subs[s] = tx.subs[s]
    /\ \A s \in X :
         /\ tx2.subs[s].req = tx.subs[s].req /\ tx2.subs[s].type = tx.subs[s].type
         /\ tx2.subs[s].entry = tx.subs[s].entry /\ tx2.subs[s].status \in Settled
         /\ tx2.subs[s].status = "done" =>
              /\ tx.subs[s].type = "input" /\ tx.subs[s].entry # 0
              /\ AnsweredBy(tx.entries, tx.subs[s].entry, tx2.subs[s].answer)

(* Such a change keeps the records in agreement.                              *)
LEMMA SettlesAllKeeps ==
    ASSUME NEW tx \in TxRec, NEW tx2 \in TxRec, NEW W, NEW U, NEW U2, TxInv(tx, W, U), NEW X,
           SettlesAll(tx, tx2, X), Owns(tx2, U2)
    PROVE  TxInv(tx2, {i \in W : tx.inbox[i].sub \notin X}, U2)
<1>1. X \in SUBSET DOMAIN tx.subs
  BY DEF SettlesAll
<1>2. tx2.entries = tx.entries /\ tx2.inbox = tx.inbox /\ DOMAIN tx2.subs = DOMAIN tx.subs
  BY DEF SettlesAll
<1>3. \A s \in DOMAIN tx.subs : s \notin X => tx2.subs[s] = tx.subs[s]
  BY DEF SettlesAll
<1>4. \A s \in X :
         /\ tx2.subs[s].req = tx.subs[s].req /\ tx2.subs[s].type = tx.subs[s].type
         /\ tx2.subs[s].entry = tx.subs[s].entry /\ tx2.subs[s].status \in Settled
         /\ tx2.subs[s].status = "done" =>
              /\ tx.subs[s].type = "input" /\ tx.subs[s].entry # 0
              /\ AnsweredBy(tx.entries, tx.subs[s].entry, tx2.subs[s].answer)
  BY DEF SettlesAll
<1> QED
  BY <1>1, <1>2, <1>3, <1>4, SettleKeeps

(* A submission that is queued at the end of the inbox.                       *)
LEMMA EnqueueKeeps ==
    ASSUME NEW tx \in TxRec, NEW tx2 \in TxRec, NEW W, NEW U, TxInv(tx, W, U), NEW item,
           tx2.entries = tx.entries, Owns(tx2, U),
           LET s == Len(tx.subs) + 1 IN
             /\ Len(tx2.subs) = s
             /\ \A x \in DOMAIN tx.subs : tx2.subs[x] = tx.subs[x] /\ tx.subs[x].req # tx2.subs[s].req
             /\ tx2.subs[s].status = "queued" /\ tx2.subs[s].entry = 0
             /\ tx2.inbox = Append(tx.inbox, item)
             /\ item.sub = s /\ item \in ItemRec /\ ItemFits(tx2, item)
             /\ item.entry.kind = "summary" => Stands(tx, item.entry.head, item.entry.cover)
    PROVE  TxInv(tx2, W \cup {Len(tx.inbox) + 1}, U)
<1> DEFINE s == Len(tx.subs) + 1
           k == Len(tx.inbox) + 1
           W2 == W \cup {k}
<1>1. /\ Transcript(tx) /\ Queue(tx, W) /\ Placement(tx) /\ Order(tx, W) /\ Context(tx)
      /\ Answered(tx) /\ HeldItems(tx, W)
  BY DEF TxInv
<1>2. Extends(tx, tx2)
  BY TxFields DEF Extends, Continues
<1>3. Transcript(tx2) /\ Context(tx2) /\ Continues(tx, tx2)
  BY <1>1, <1>2, PlainHeads, PlainContext DEF Extends
<1>4. /\ s \in Nat /\ k \in Nat /\ DOMAIN tx.subs = 1 .. s - 1 /\ DOMAIN tx2.subs = 1 .. s
      /\ DOMAIN tx.inbox = 1 .. k - 1 /\ DOMAIN tx2.inbox = 1 .. k
      /\ \A i \in 1 .. k - 1 : tx2.inbox[i] = tx.inbox[i]
      /\ tx2.inbox[k] = item
  <2>1. /\ s \in Nat /\ k \in Nat /\ DOMAIN tx.subs = 1 .. s - 1 /\ DOMAIN tx2.subs = 1 .. s
        /\ DOMAIN tx.inbox = 1 .. k - 1 /\ tx.inbox \in Seq(ItemRec) /\ Len(tx.inbox) = k - 1
    BY TxFields
  <2>2. tx2.inbox = Append(tx.inbox, item) /\ item \in ItemRec
    OBVIOUS
  <2> HIDE DEF k, s
  <2> QED
    BY <2>1, <2>2, Appended
<1>5. /\ \A x \in 1 .. s - 1 : tx2.subs[x] = tx.subs[x] /\ tx.subs[x].req # tx2.subs[s].req
      /\ tx2.subs[s].status = "queued" /\ tx2.subs[s].entry = 0
      /\ item.sub = s /\ ItemFits(tx2, item)
      /\ item.entry.kind = "summary" => Stands(tx, item.entry.head, item.entry.cover)
  BY <1>4
<1>6. /\ \A x \in 1 .. s : x = s \/ x \in 1 .. s - 1
      /\ \A i \in 1 .. k : i = k \/ i \in 1 .. k - 1
      /\ s \notin 1 .. s - 1 /\ k \notin 1 .. k - 1 /\ s \in 1 .. s /\ k \in 1 .. k /\ s # 0
      /\ \A x \in 1 .. s - 1 : x \in 1 .. s /\ x < s /\ x \in Nat
      /\ \A i \in 1 .. k - 1 : i \in 1 .. k /\ i < k /\ i \in Nat
  BY <1>4
<1> HIDE DEF s, k
<1>7. W \subseteq 1 .. k - 1 /\ W2 \subseteq 1 .. k
  BY <1>1, <1>4, <1>6 DEF Queue
<1>8. Queue(tx2, W2)
  <2>1. \A i \in 1 .. k : ItemFits(tx2, tx2.inbox[i])
    <3> SUFFICES ASSUME NEW i \in 1 .. k - 1 PROVE ItemFits(tx2, tx.inbox[i])
      BY <1>4, <1>5, <1>6
    <3>1. ItemFits(tx, tx.inbox[i])
      BY <1>1, <1>4 DEF Queue
    <3>2. tx.inbox[i].sub \in 1 .. s - 1
      BY <1>4, <3>1 DEF ItemFits
    <3> QED
      BY <1>4, <1>5, <1>6, <3>1, <3>2 DEF ItemFits
  <2>2. \A i \in 1 .. k - 1 : tx.inbox[i].sub \in 1 .. s - 1
    BY <1>1, <1>4 DEF Queue, ItemFits
  <2>3. ASSUME NEW i \in 1 .. k, NEW j \in 1 .. k, i < j PROVE tx2.inbox[i].sub < tx2.inbox[j].sub
    <3>1. i \in 1 .. k - 1
      BY <1>4, <2>3
    <3>2. CASE j = k
      BY <1>4, <1>5, <1>6, <2>2, <3>1, <3>2
    <3>3. CASE j # k
      BY <1>1, <1>4, <1>6, <2>3, <3>1, <3>3 DEF Queue
    <3> QED
      BY <3>2, <3>3
  <2>4. ASSUME NEW x \in 1 .. s
        PROVE  tx2.subs[x].status = "queued" <=> \E i \in W2 : tx2.inbox[i].sub = x
    <3>1. CASE x = s
      BY <1>4, <1>5, <3>1
    <3>2. CASE x # s
      <4>1. x \in 1 .. s - 1 /\ tx2.subs[x] = tx.subs[x]
        BY <1>5, <1>6, <2>4, <3>2
      <4>2. tx.subs[x].status = "queued" <=> \E i \in W : tx.inbox[i].sub = x
        BY <1>1, <1>4, <4>1 DEF Queue
      <4>3. \A i \in W : tx2.inbox[i] = tx.inbox[i]
        BY <1>4, <1>7
      <4>4. (\A i \in W2 : i \in W \/ tx2.inbox[i].sub = s) /\ W \subseteq W2
        BY <1>4, <1>5
      <4> HIDE DEF W2
      <4>5. (\E i \in W2 : tx2.inbox[i].sub = x) <=> \E i \in W : tx.inbox[i].sub = x
        BY <3>2, <4>3, <4>4
      <4> QED
        BY <4>1, <4>2, <4>5
    <3> QED
      BY <3>1, <3>2
  <2> HIDE DEF W2
  <2> QED
    BY <1>4, <1>7, <2>1, <2>3, <2>4 DEF Queue
<1>9. Placement(tx2)
  <2>1. ASSUME NEW x \in 1 .. s, NEW y \in 1 .. s, tx2.subs[x].req = tx2.subs[y].req PROVE x = y
    <3>1. CASE x = s \/ y = s
      <4>1. x = s \/ x \in 1 .. s - 1
        BY <1>6
      <4>2. y = s \/ y \in 1 .. s - 1
        BY <1>6
      <4>3. \A z \in 1 .. s - 1 : tx2.subs[z].req # tx2.subs[s].req
        BY <1>5
      <4> HIDE DEF s
      <4> QED
        BY <2>1, <3>1, <4>1, <4>2, <4>3
    <3>2. CASE x # s /\ y # s
      <4>1. x \in 1 .. s - 1 /\ y \in 1 .. s - 1
        BY <1>6, <2>1, <3>2
      <4>2. tx.subs[x].req = tx.subs[y].req
        BY <1>5, <2>1, <4>1
      <4> QED
        BY <1>1, <1>4, <4>1, <4>2 DEF Placement
    <3> QED
      BY <3>1, <3>2
  <2>2. ASSUME NEW x \in 1 .. s
        PROVE /\ tx2.subs[x].entry \in 0 .. Len(tx2.entries)
              /\ tx2.subs[x].entry # 0 => tx2.entries[tx2.subs[x].entry].by = x
              /\ tx2.subs[x].status = "queued" => tx2.subs[x].entry = 0
              /\ tx2.subs[x].status = "done" => tx2.subs[x].entry # 0
              /\ tx2.subs[x].status = "placed" => tx2.subs[x].entry # 0 /\ tx2.subs[x].type = "input"
    <3>1. CASE x \in 1 .. s - 1
      <4>1. tx2.subs[x] = tx.subs[x] /\ x \in DOMAIN tx.subs
        BY <1>4, <1>5, <3>1
      <4> HIDE DEF s
      <4> QED
        BY <1>1, <4>1 DEF Placement
    <3>2. CASE x = s
      <4>1. Len(tx2.entries) \in Nat
        BY TxFields
      <4> QED
        BY <1>5, <3>2, <4>1
    <3> QED
      BY <1>6, <3>1, <3>2
  <2>3. ASSUME NEW i \in DOMAIN tx2.entries, tx2.entries[i].by # 0
        PROVE  tx2.entries[i].by \in 1 .. s /\ tx2.subs[tx2.entries[i].by].entry = i
    <3>1. tx.entries[i].by \in 1 .. s - 1 /\ tx.subs[tx.entries[i].by].entry = i
      BY <1>1, <1>4, <2>3 DEF Placement
    <3> QED
      BY <1>5, <1>6, <3>1
  <2> QED
    BY <1>4, <2>1, <2>2, <2>3 DEF Placement
<1>10. Order(tx2, W2)
  <2>1. LandsInOrder(tx2)
    <3> SUFFICES ASSUME NEW x \in 1 .. s, NEW y \in 1 .. s, x < y, tx2.subs[y].entry # 0,
                        tx2.subs[x].type = "write", tx2.subs[y].type = "write",
                        \/ ~IsDisplayOnly(tx2.entries[tx2.subs[y].entry])
                        \/ tx2.subs[x].entry # 0 /\ tx2.entries[tx2.subs[x].entry].kind = "reset"
                 PROVE  /\ tx2.subs[x].status # "queued"
                        /\ tx2.subs[x].entry # 0 => tx2.subs[x].entry < tx2.subs[y].entry
      BY <1>4 DEF LandsInOrder, Landed
    <3>1. y \in 1 .. s - 1 /\ x \in 1 .. s - 1
      BY <1>4, <1>5, <1>6
    <3>2. tx2.subs[x] = tx.subs[x] /\ tx2.subs[y] = tx.subs[y] /\ x \in DOMAIN tx.subs /\ y \in DOMAIN tx.subs
      BY <1>4, <1>5, <3>1
    <3>3. LandsInOrder(tx)
      BY <1>1 DEF Order
    <3> QED
      BY <3>2, <3>3 DEF LandsInOrder, Landed
  <2>2. ResetFirst(tx2, W2)
    <3> SUFFICES ASSUME NEW i \in W2, tx2.inbox[i].entry.kind = "reset",
                        NEW x \in 1 .. s, x > tx2.inbox[i].sub, tx2.subs[x].type = "write"
                 PROVE  tx2.subs[x].entry = 0
      BY <1>4 DEF ResetFirst, Landed
    <3>1. CASE x = s
      BY <1>5, <3>1
    <3>2. CASE x # s
      <4>1. x \in 1 .. s - 1 /\ i # k
        BY <1>4, <1>5, <1>6, <3>2
      <4>2. i \in W /\ i \in 1 .. k - 1
        BY <1>7, <4>1
      <4>3. tx2.subs[x] = tx.subs[x] /\ x \in DOMAIN tx.subs /\ tx2.inbox[i] = tx.inbox[i]
        BY <1>4, <1>5, <4>1, <4>2
      <4>4. ResetFirst(tx, W)
        BY <1>1 DEF Order
      <4> QED
        BY <4>2, <4>3, <4>4 DEF ResetFirst, Landed
    <3> QED
      BY <3>1, <3>2
  <2> QED
    BY <2>1, <2>2 DEF Order
<1>11. Answered(tx2)
  <2>1. \A x \in 1 .. s : tx2.subs[x].status = "done" => x \in 1 .. s - 1
    BY <1>5, <1>6
  <2>2. \A x \in 1 .. s : tx2.subs[x].status = "done" => x \in DOMAIN tx.subs /\ tx2.subs[x] = tx.subs[x]
    BY <1>4, <1>5, <2>1
  <2> QED
    BY <1>1, <1>4, <2>2 DEF Answered
<1>12. HeldItems(tx2, W2)
  <2> SUFFICES ASSUME NEW i \in W2, tx2.inbox[i].entry.kind = "summary"
               PROVE  Stands(tx2, tx2.inbox[i].entry.head, tx2.inbox[i].entry.cover)
    BY DEF HeldItems
  <2>1. Stands(tx, tx2.inbox[i].entry.head, tx2.inbox[i].entry.cover)
    <3>1. CASE i = k
      BY <1>4, <1>5, <3>1
    <3>2. CASE i # k
      <4>1. i \in W /\ i \in 1 .. k - 1
        BY <1>7, <3>2
      <4> QED
        BY <1>1, <1>4, <4>1 DEF HeldItems
    <3> QED
      BY <3>1, <3>2
  <2>2. i \in DOMAIN tx2.inbox
    BY <1>4, <1>7
  <2> QED
    BY <1>1, <1>3, <2>1, <2>2, ItemFields, StandsStable
<1> QED
  BY <1>3, <1>8, <1>9, <1>10, <1>11, <1>12 DEF TxInv, k

Shrunk(tx, W) == [tx EXCEPT !.inbox = Keep(tx.inbox, W)]

(* What the boundary made of the inbox: only the positions that still stand     *)
(* for queued submissions stay.                                              *)
LEMMA ShrinkKeeps ==
    ASSUME NEW tx \in TxRec, NEW W, NEW U, TxInv(tx, W, U)
    PROVE  LET tx2 == Shrunk(tx, W) IN
           /\ tx2 \in TxRec /\ TxInv(tx2, DOMAIN tx2.inbox, U)
           /\ tx2.inbox = Keep(tx.inbox, W)
           /\ tx2.entries = tx.entries /\ tx2.subs = tx.subs /\ tx2.live = tx.live /\ tx2.tasks = tx.tasks
<1> DEFINE tx2 == Shrunk(tx, W)
           f == Ascending(W)
           r == Keep(tx.inbox, W)
           m == Cardinality(W)
<1>1. /\ Transcript(tx) /\ Queue(tx, W) /\ Placement(tx) /\ Order(tx, W) /\ Context(tx)
      /\ Answered(tx) /\ HeldItems(tx, W) /\ Owns(tx, U)
  BY DEF TxInv
<1>2. W \subseteq DOMAIN tx.inbox /\ tx.inbox \in Seq(ItemRec)
  BY <1>1, TxFields DEF Queue
<1>3. /\ r \in Seq(ItemRec) /\ m \in Nat /\ DOMAIN r = 1 .. m /\ Len(r) = m
      /\ f \in Seq(W) /\ Len(f) = m /\ Increasing(f)
      /\ \A n \in 1 .. m : f[n] \in W /\ r[n] = tx.inbox[f[n]]
      /\ \A i \in W : Rank(W, i) \in 1 .. m /\ f[Rank(W, i)] = i /\ r[Rank(W, i)] = tx.inbox[i]
  <2>1. /\ r \in Seq(ItemRec) /\ m \in Nat /\ DOMAIN r = 1 .. m /\ Len(r) = m
        /\ Picks(f, tx.inbox, W, r)
    BY <1>2, KeepIs
  <2> HIDE DEF f, r, m
  <2> QED
    BY <2>1 DEF Picks
<1>4. DOMAIN f = 1 .. m
  BY <1>3, LenProperties
<1>5. /\ tx2 \in TxRec /\ tx2.inbox = r
      /\ tx2.entries = tx.entries /\ tx2.subs = tx.subs /\ tx2.live = tx.live /\ tx2.tasks = tx.tasks
  <2> HIDE DEF r
  <2>1. tx2 = [tx EXCEPT !.inbox = r]
    BY DEF r, Shrunk
  <2>2. r \in Seq(ItemRec)
    BY <1>3
  <2> QED
    BY <2>1, <2>2 DEF TxRec
<1> HIDE DEF f, r, m, tx2
<1>6. Transcript(tx2) /\ Context(tx2)
  <2>1. Extends(tx, tx2)
    BY <1>5, TxFields DEF Extends, Continues
  <2> QED
    BY <1>1, <1>5, <2>1, PlainHeads, PlainContext
<1>7. Queue(tx2, 1 .. m)
  <2>1. \A i \in 1 .. m : ItemFits(tx2, r[i])
    BY <1>1, <1>2, <1>3, <1>5 DEF Queue, ItemFits
  <2>2. \A i, j \in 1 .. m : i < j => r[i].sub < r[j].sub
    <3> TAKE i, j \in 1 .. m
    <3> HAVE i < j
    <3>1. f[i] < f[j] /\ f[i] \in DOMAIN tx.inbox /\ f[j] \in DOMAIN tx.inbox
      BY <1>2, <1>3, <1>4 DEF Increasing
    <3> QED
      BY <1>1, <1>3, <3>1 DEF Queue
  <2>3. \A x : (\E i \in 1 .. m : r[i].sub = x) <=> (\E i \in W : tx.inbox[i].sub = x)
    BY <1>3
  <2>4. \A x \in DOMAIN tx2.subs : tx2.subs[x].status = "queued" <=> \E i \in 1 .. m : tx2.inbox[i].sub = x
    BY <1>1, <1>5, <2>3 DEF Queue
  <2> QED
    BY <1>3, <1>5, <2>1, <2>2, <2>4 DEF Queue
<1>8. Placement(tx2) /\ Owns(tx2, U) /\ Answered(tx2)
  BY <1>1, <1>5 DEF Placement, Owns, Answered
<1>9. Order(tx2, 1 .. m)
  <2>1. LandsInOrder(tx2)
    BY <1>1, <1>5 DEF Order, LandsInOrder, Landed
  <2>2. ResetFirst(tx2, 1 .. m)
    BY <1>1, <1>3, <1>5 DEF Order, ResetFirst, Landed
  <2> QED
    BY <2>1, <2>2 DEF Order
<1>10. HeldItems(tx2, 1 .. m)
  <2> SUFFICES ASSUME NEW i \in 1 .. m, r[i].entry.kind = "summary"
               PROVE  Stands(tx2, r[i].entry.head, r[i].entry.cover)
    BY <1>5 DEF HeldItems
  <2>1. f[i] \in W /\ r[i] = tx.inbox[f[i]] /\ f[i] \in DOMAIN tx.inbox
    BY <1>2, <1>3
  <2>2. Stands(tx, tx.inbox[f[i]].entry.head, tx.inbox[f[i]].entry.cover)
    BY <1>1, <2>1 DEF HeldItems
  <2>3. Continues(tx, tx2)
    BY <1>5, TxFields DEF Continues
  <2>4. tx.inbox[f[i]].entry.head \in Nat /\ tx.inbox[f[i]].entry.cover \in SUBSET Nat
    BY <2>1, ItemFields
  <2> QED
    BY <1>1, <1>5, <1>6, <2>1, <2>2, <2>3, <2>4, StandsStable
<1> QED
  BY <1>2, <1>3, <1>5, <1>6, <1>7, <1>8, <1>9, <1>10 DEF TxInv, tx2, r

-----------------------------------------------------------------------------
(* Placing the items of the inbox.                                         *)

(* The item at `p` may be placed next: what is queued before it need not land    *)
(* first.                                                                    *)
Turn(tx, W, p) ==
    tx.inbox[p].mode = "write" =>
        \A j \in W : j < p /\ tx.inbox[j].mode = "write" =>
            tx.inbox[p].entry.kind = "display" /\ tx.inbox[j].entry.kind # "reset"

(* `tx2` is `tx` with the item at `p` of its inbox placed.                      *)
Places(tx, tx2, p) ==
    LET item == tx.inbox[p]
        s == item.sub
        id == Len(tx.entries) + 1
    IN /\ Continues(tx, tx2) /\ Len(tx2.entries) = id
       /\ tx2.entries[id].by = s /\ tx2.entries[id].kind = item.entry.kind
       /\ DOMAIN tx2.subs = DOMAIN tx.subs
       /\ \A x \in DOMAIN tx.subs : x # s => tx2.subs[x] = tx.subs[x]
       /\ tx2.subs[s].req = tx.subs[s].req /\ tx2.subs[s].type = tx.subs[s].type
       /\ tx2.subs[s].entry = id
       /\ tx2.subs[s].status = IF tx.subs[s].type = "input" THEN "placed" ELSE "done"
       /\ tx2.inbox = tx.inbox /\ tx2.live.run.inputs = tx.live.run.inputs

(* Who holds the inputs of a run that placed the item at `p`.                   *)
Holding(tx, U, p) == U \cup (IF tx.inbox[p].mode = "write" THEN {} ELSE {tx.inbox[p].sub})

(* Placing an item whose turn it is keeps the records in agreement.            *)
LEMMA PlaceKeeps ==
    ASSUME NEW tx \in TxRec, NEW tx2 \in TxRec, NEW W, NEW U, TxInv(tx, W, U), NEW p \in W, Turn(tx, W, p),
           Places(tx, tx2, p), Transcript(tx2), Context(tx2)
    PROVE  TxInv(tx2, W \ {p}, Holding(tx, U, p))
<1> DEFINE s == tx.inbox[p].sub
           id == Len(tx.entries) + 1
           U2 == Holding(tx, U, p)
<1>a. /\ Continues(tx, tx2) /\ Len(tx2.entries) = id
      /\ tx2.entries[id].by = s /\ tx2.entries[id].kind = tx.inbox[p].entry.kind
      /\ id = Len(tx.entries) + 1
  BY DEF Places
<1>b. /\ DOMAIN tx2.subs = DOMAIN tx.subs
      /\ \A x \in DOMAIN tx.subs : x # s => tx2.subs[x] = tx.subs[x]
      /\ tx2.subs[s].req = tx.subs[s].req /\ tx2.subs[s].type = tx.subs[s].type
      /\ tx2.subs[s].entry = id
      /\ tx2.subs[s].status = IF tx.subs[s].type = "input" THEN "placed" ELSE "done"
  BY DEF Places
<1>c. /\ tx2.inbox = tx.inbox /\ tx2.live.run.inputs = tx.live.run.inputs
      /\ s = tx.inbox[p].sub
  BY DEF Places
<1> HIDE DEF s, id
<1> DEFINE W2 == W \ {p}
           n == Len(tx.entries)
<1>1. /\ Transcript(tx) /\ Queue(tx, W) /\ Placement(tx) /\ Order(tx, W) /\ Context(tx)
      /\ Answered(tx) /\ HeldItems(tx, W) /\ Owns(tx, U)
  BY DEF TxInv
<1>2. /\ n \in Nat /\ id \in Nat /\ DOMAIN tx.entries = 1 .. n /\ DOMAIN tx2.entries = 1 .. id
      /\ \A i \in 1 .. n : tx2.entries[i] = tx.entries[i] /\ i # id /\ i < id
      /\ \A i \in 1 .. id : i = id \/ i \in 1 .. n
      /\ id = n + 1 /\ id # 0
  BY <1>a, TxFields DEF Continues
<1>3. p \in DOMAIN tx.inbox /\ ItemFits(tx, tx.inbox[p]) /\ W \subseteq DOMAIN tx.inbox
  BY <1>1 DEF Queue
<1>4. /\ s \in DOMAIN tx.subs /\ tx.subs[s].status = "queued" /\ tx.subs[s].entry = 0
      /\ tx.inbox[p].mode = "write" <=> tx.subs[s].type = "write"
      /\ tx.subs[s].type \in {"input", "write"}
  <2>1. s \in DOMAIN tx.subs /\ tx.subs[s].type \in {"input", "write"}
    BY <1>c, <1>3, SubFields DEF ItemFits
  <2>2. tx.subs[s].status = "queued"
    BY <1>c, <1>1, <2>1 DEF Queue
  <2>3. tx.subs[s].entry = 0
    BY <1>1, <2>1, <2>2 DEF Placement
  <2>4. tx.inbox[p].mode = "write" <=> tx.subs[s].type = "write"
    BY <1>c, <1>3 DEF ItemFits
  <2> QED
    BY <2>1, <2>2, <2>3, <2>4
<1>5. \A i \in DOMAIN tx.inbox : tx.inbox[i].sub = s => i = p
  <2>1. \A i \in DOMAIN tx.inbox : i \in Nat /\ tx.inbox[i].sub \in Nat
    BY ItemFields
  <2> QED
    BY <1>c, <1>1, <1>3, <2>1 DEF Queue
<1>6. \A x \in DOMAIN tx.subs :
        /\ tx.subs[x].entry \in 0 .. n /\ tx.subs[x].entry \in Nat
        /\ tx.subs[x].entry # 0 => tx.subs[x].entry \in 1 .. n
  <2>1. \A x \in DOMAIN tx.subs : tx.subs[x].entry \in 0 .. n
    BY <1>1 DEF Placement
  <2> QED
    BY <1>2, <2>1
<1> HIDE DEF n
<1>7. /\ \A x \in DOMAIN tx.subs : tx2.subs[x].type = tx.subs[x].type /\ tx2.subs[x].req = tx.subs[x].req
      /\ \A x \in DOMAIN tx.subs : tx2.subs[x].status = "queued" <=> tx.subs[x].status = "queued" /\ x # s
      /\ \A x \in DOMAIN tx.subs : tx2.subs[x].entry = IF x = s THEN id ELSE tx.subs[x].entry
  BY <1>a, <1>b, <1>c, <1>4
<1>8. Queue(tx2, W2)
  <2>1. \A i \in DOMAIN tx.inbox : ItemFits(tx2, tx.inbox[i])
    <3>1. n <= id /\ Len(tx2.entries) = id /\ Len(tx.entries) = n
      BY <1>a, <1>b, <1>c, <1>2 DEF n
    <3>2. \A i \in DOMAIN tx.inbox : tx.inbox[i].entry.head <= n => tx.inbox[i].entry.head <= id
      BY <1>a, <1>b, <1>c, <1>2, <3>1, ItemFields
    <3> SUFFICES ASSUME NEW i \in DOMAIN tx.inbox PROVE ItemFits(tx2, tx.inbox[i])
      OBVIOUS
    <3>3. ItemFits(tx, tx.inbox[i]) /\ (tx.inbox[i].entry.head <= n => tx.inbox[i].entry.head <= id)
      BY <1>1, <3>2 DEF Queue
    <3> QED
      BY <1>a, <1>b, <1>c, <1>7, <3>1, <3>3 DEF ItemFits
  <2>2. ASSUME NEW x \in DOMAIN tx.subs
        PROVE  tx2.subs[x].status = "queued" <=> \E i \in W2 : tx.inbox[i].sub = x
    <3>1. CASE x = s
      BY <1>a, <1>b, <1>c, <1>3, <1>5, <1>7, <3>1
    <3>2. CASE x # s
      <4>1. tx.subs[x].status = "queued" <=> \E i \in W : tx.inbox[i].sub = x
        BY <1>1 DEF Queue
      <4>2. (\E i \in W : tx.inbox[i].sub = x) <=> (\E i \in W2 : tx.inbox[i].sub = x)
        BY <1>c, <3>2
      <4> QED
        BY <1>a, <1>b, <1>c, <1>7, <3>2, <4>1, <4>2
    <3> QED
      BY <3>1, <3>2
  <2>3. W2 \subseteq DOMAIN tx.inbox
    BY <1>3
  <2> HIDE DEF W2
  <2> QED
    BY <1>b, <1>c, <1>1, <2>1, <2>2, <2>3 DEF Queue
<1>9. Placement(tx2)
  <2>1. \A x, y \in DOMAIN tx.subs : tx2.subs[x].req = tx2.subs[y].req => x = y
    BY <1>1, <1>7 DEF Placement
  <2>2. ASSUME NEW x \in DOMAIN tx.subs
        PROVE /\ tx2.subs[x].entry \in 0 .. Len(tx2.entries)
              /\ tx2.subs[x].entry # 0 => tx2.entries[tx2.subs[x].entry].by = x
              /\ tx2.subs[x].status = "queued" => tx2.subs[x].entry = 0
              /\ tx2.subs[x].status = "done" => tx2.subs[x].entry # 0
              /\ tx2.subs[x].status = "placed" => tx2.subs[x].entry # 0 /\ tx2.subs[x].type = "input"
    <3>1. CASE x = s
      <4>1. tx2.subs[x].entry = id /\ tx2.subs[x].status = (IF tx.subs[s].type = "input" THEN "placed" ELSE "done")
            /\ tx2.subs[x].type = tx.subs[s].type
        BY <1>b, <3>1
      <4>2. id \in Nat /\ id # 0 /\ Len(tx2.entries) = id /\ id \in 0 .. id
        BY <1>a, <1>2
      <4>3. tx2.entries[id].by = x
        BY <1>a, <3>1
      <4> QED
        BY <4>1, <4>2, <4>3
    <3>2. CASE x # s
      <4>1. tx2.subs[x] = tx.subs[x] /\ tx.subs[x].entry \in 0 .. id
        BY <1>a, <1>b, <1>c, <1>2, <1>6, <3>2
      <4>2. tx.subs[x].entry # 0 => tx2.entries[tx.subs[x].entry].by = x
        <5>1. tx.subs[x].entry # 0 => tx.entries[tx.subs[x].entry].by = x
          BY <1>1 DEF Placement
        <5>2. tx.subs[x].entry # 0 => tx2.entries[tx.subs[x].entry] = tx.entries[tx.subs[x].entry]
          BY <1>2, <1>6
        <5> QED
          BY <5>1, <5>2
      <4>3. /\ tx.subs[x].status = "queued" => tx.subs[x].entry = 0
            /\ tx.subs[x].status = "done" => tx.subs[x].entry # 0
            /\ tx.subs[x].status = "placed" => tx.subs[x].entry # 0 /\ tx.subs[x].type = "input"
        BY <1>1 DEF Placement
      <4> QED
        BY <1>a, <4>1, <4>2, <4>3
    <3> QED
      BY <3>1, <3>2
  <2>3. ASSUME NEW i \in 1 .. id, tx2.entries[i].by # 0
        PROVE  tx2.entries[i].by \in DOMAIN tx.subs /\ tx2.subs[tx2.entries[i].by].entry = i
    <3>1. CASE i = id
      BY <1>a, <1>b, <1>c, <1>4, <3>1
    <3>2. CASE i # id
      <4>1. i \in 1 .. n /\ tx2.entries[i] = tx.entries[i]
        BY <1>a, <1>b, <1>c, <1>2, <3>2
      <4>2. tx.entries[i].by \in DOMAIN tx.subs /\ tx.subs[tx.entries[i].by].entry = i
        BY <1>1, <1>2, <2>3, <4>1 DEF Placement
      <4>3. tx.entries[i].by # s
        BY <1>a, <1>b, <1>c, <1>2, <1>4, <4>1, <4>2
      <4> QED
        BY <1>a, <1>b, <1>c, <1>7, <4>1, <4>2, <4>3
    <3> QED
      BY <3>1, <3>2
  <2> QED
    BY <1>2, <1>b, <2>1, <2>2, <2>3 DEF Placement
<1>10. LandsInOrder(tx2)
  <2> SUFFICES ASSUME NEW x \in DOMAIN tx.subs, NEW y \in DOMAIN tx.subs, x < y, tx2.subs[y].entry # 0,
                      tx.subs[x].type = "write", tx.subs[y].type = "write",
                      \/ ~IsDisplayOnly(tx2.entries[tx2.subs[y].entry])
                      \/ tx2.subs[x].entry # 0 /\ tx2.entries[tx2.subs[x].entry].kind = "reset"
               PROVE  /\ tx2.subs[x].status # "queued"
                      /\ tx2.subs[x].entry # 0 => tx2.subs[x].entry < tx2.subs[y].entry
    BY <1>a, <1>b, <1>c, <1>7 DEF LandsInOrder, Landed
  <2>1. CASE x # s /\ y # s
    <3>1. tx2.subs[x] = tx.subs[x] /\ tx2.subs[y] = tx.subs[y]
      BY <1>a, <1>b, <1>c, <2>1
    <3>2. /\ tx2.entries[tx.subs[y].entry] = tx.entries[tx.subs[y].entry]
          /\ tx.subs[x].entry # 0 => tx2.entries[tx.subs[x].entry] = tx.entries[tx.subs[x].entry]
      BY <1>a, <1>b, <1>c, <1>2, <1>6, <3>1
    <3> QED
      BY <1>1, <3>1, <3>2 DEF Order, LandsInOrder, Landed
  <2>2. CASE y = s
    <3>1. x # s /\ tx2.subs[x] = tx.subs[x] /\ tx2.subs[y].entry = id /\ tx.inbox[p].mode = "write"
      <4>1. x # y
        BY SubFields
      <4> HIDE DEF s
      <4>2. x # s
        BY <2>2, <4>1
      <4>3. tx2.subs[x] = tx.subs[x] /\ tx2.subs[s].entry = id
        BY <1>a, <1>b, <1>c, <4>2
      <4>4. tx.inbox[p].mode = "write"
        BY <1>4, <2>2
      <4> QED
        BY <2>2, <4>2, <4>3, <4>4
    <3>2. tx.subs[x].entry # 0 => tx.subs[x].entry < id
      BY <1>a, <1>b, <1>c, <1>2, <1>6
    <3>3. ASSUME tx.subs[x].status = "queued" PROVE FALSE
      <4>1. PICK j \in W : tx.inbox[j].sub = x
        BY <1>1, <3>3 DEF Queue
      <4>2. j \in DOMAIN tx.inbox /\ tx.inbox[j].mode = "write"
        BY <1>1, <1>3, <4>1 DEF Queue, ItemFits
      <4>3. j < p
        <5>1. j \in Nat /\ p \in Nat /\ x \in Nat /\ y \in Nat
          BY <1>3, <4>2, ItemFields, SubFields
        <5>2. p < j => tx.inbox[p].sub < tx.inbox[j].sub
          BY <1>1, <1>3, <4>2 DEF Queue
        <5>3. p # j
          BY <1>c, <2>2, <3>1, <4>1
        <5> QED
          BY <1>c, <2>2, <4>1, <5>1, <5>2, <5>3
      <4>4. tx.inbox[p].entry.kind = "display"
        BY <1>a, <1>b, <1>c, <3>1, <4>2, <4>3 DEF Turn
      <4>5. IsDisplayOnly(tx2.entries[tx2.subs[y].entry])
        BY <1>a, <3>1, <4>4 DEF IsDisplayOnly
      <4>6. tx.subs[x].entry = 0
        BY <1>1, <3>3 DEF Placement
      <4> QED
        BY <3>1, <4>5, <4>6
    <3> QED
      BY <3>1, <3>2, <3>3
  <2>3. CASE x = s /\ y # s
    <3>1. tx2.subs[y] = tx.subs[y] /\ tx.subs[y].entry \in 1 .. n /\ tx2.subs[x].entry = id
      BY <1>b, <1>6, <2>3
    <3>2. tx2.entries[tx.subs[y].entry] = tx.entries[tx.subs[y].entry]
      BY <1>a, <1>b, <1>c, <1>2, <3>1
    <3>3. IsDisplayOnly(tx.entries[tx.subs[y].entry])
      BY <1>a, <1>b, <1>c, <1>1, <1>4, <2>3, <3>1 DEF Order, LandsInOrder, Landed
    <3>4. tx.inbox[p].entry.kind = "reset"
      BY <1>a, <2>3, <3>1, <3>2, <3>3
    <3>5. tx.subs[y].entry = 0
      BY <1>c, <1>1, <2>3, <3>4 DEF Order, ResetFirst, Landed
    <3> QED
      BY <3>1, <3>5
  <2> QED
    BY <2>1, <2>2, <2>3
<1>11. ResetFirst(tx2, W2)
  <2> SUFFICES ASSUME NEW i \in W2, tx.inbox[i].entry.kind = "reset",
                      NEW x \in DOMAIN tx.subs, x > tx.inbox[i].sub, tx.subs[x].type = "write"
               PROVE  tx2.subs[x].entry = 0
    BY <1>a, <1>b, <1>c, <1>7 DEF ResetFirst, Landed
  <2>1. tx.subs[x].entry = 0
    BY <1>1 DEF Order, ResetFirst, Landed
  <2>2. x # s
    <3> SUFFICES ASSUME x = s PROVE FALSE
      OBVIOUS
    <3>1. tx.inbox[p].mode = "write" /\ i \in DOMAIN tx.inbox
      BY <1>a, <1>b, <1>c, <1>3, <1>4
    <3>2. i \in Nat /\ p \in Nat /\ tx.inbox[i].sub \in Nat /\ tx.inbox[p].sub \in Nat
      BY <1>3, <3>1, ItemFields
    <3>3. p < i => tx.inbox[p].sub < tx.inbox[i].sub
      BY <1>1, <1>3, <3>1 DEF Queue
    <3>4. i < p
      BY <1>c, <3>2, <3>3
    <3>5. ItemFits(tx, tx.inbox[i])
      BY <1>1, <3>1 DEF Queue
    <3>6. tx.inbox[i].mode = "write"
      BY <3>5 DEF ItemFits
    <3> QED
      BY <1>a, <1>b, <1>c, <3>1, <3>4, <3>6 DEF Turn
  <2> QED
    BY <1>a, <1>b, <1>c, <1>7, <2>1, <2>2
<1>12. Owns(tx2, U2)
  <2>u. U2 = U \cup (IF tx.inbox[p].mode = "write" THEN {} ELSE {s})
    BY <1>c DEF Holding
  <2>1. \A x \in DOMAIN tx.subs : tx2.subs[x].status = "placed" <=> (tx.subs[x].status = "placed" /\ x # s) \/ (x = s /\ tx.inbox[p].mode # "write")
    BY <1>a, <1>b, <1>c, <1>4
  <2>2. /\ Range(tx.live.run.inputs) \cup U \subseteq DOMAIN tx.subs
        /\ \A x \in DOMAIN tx.subs : tx.subs[x].status = "placed" <=> x \in Range(tx.live.run.inputs) \cup U
        /\ Range(tx.live.run.inputs) \cap U = {}
    BY <1>1 DEF Owns
  <2>3. s \notin Range(tx.live.run.inputs) \cup U
    BY <1>a, <1>b, <1>c, <1>4, <2>2
  <2>4. \A x \in DOMAIN tx.subs : tx2.subs[x].status = "placed" <=> x \in Range(tx.live.run.inputs) \cup U2
    BY <1>4, <2>1, <2>2, <2>3, <2>u
  <2>5. Range(tx.live.run.inputs) \cup U2 \subseteq DOMAIN tx.subs /\ Range(tx.live.run.inputs) \cap U2 = {}
    BY <1>4, <2>2, <2>3, <2>u
  <2> HIDE DEF U2
  <2> QED
    BY <1>b, <1>c, <1>1, <2>4, <2>5 DEF Owns
<1>13. Answered(tx2)
  <2> SUFFICES ASSUME NEW x \in DOMAIN tx.subs, tx.subs[x].type = "input", tx2.subs[x].status = "done"
               PROVE  AnsweredBy(tx2.entries, tx2.subs[x].entry, tx2.subs[x].answer)
    BY <1>a, <1>b, <1>c, <1>7 DEF Answered
  <2>1. x # s /\ tx2.subs[x] = tx.subs[x]
    BY <1>a, <1>b, <1>c, <1>4
  <2>2. AnsweredBy(tx.entries, tx.subs[x].entry, tx.subs[x].answer)
    BY <1>1, <2>1 DEF Answered
  <2>3. tx.subs[x].entry \in 1 .. n /\ tx.subs[x].answer \in 1 .. n
    <3>1. tx.subs[x].answer \in 1 .. n
      BY <1>2, <2>2 DEF AnsweredBy
    <3>2. tx.subs[x].entry # 0
      BY <1>1, <2>1 DEF Placement
    <3> QED
      BY <1>6, <3>1, <3>2
  <2>4. \A i \in tx.subs[x].entry .. tx.subs[x].answer : i \in 1 .. n /\ tx2.entries[i] = tx.entries[i]
    BY <1>a, <1>b, <1>c, <1>2, <2>3
  <2>5. tx2.entries[tx.subs[x].answer] = tx.entries[tx.subs[x].answer] /\ tx.subs[x].answer \in DOMAIN tx2.entries
    BY <1>a, <1>b, <1>c, <1>2, <2>3
  <2> QED
    BY <2>1, <2>2, <2>4, <2>5 DEF AnsweredBy
<1>14. HeldItems(tx2, W2)
  <2> SUFFICES ASSUME NEW i \in W2, tx.inbox[i].entry.kind = "summary"
               PROVE  Stands(tx2, tx.inbox[i].entry.head, tx.inbox[i].entry.cover)
    BY <1>c DEF HeldItems
  <2>1. i \in DOMAIN tx.inbox /\ Stands(tx, tx.inbox[i].entry.head, tx.inbox[i].entry.cover)
    BY <1>1, <1>3 DEF HeldItems
  <2> QED
    BY <1>a, <1>1, <2>1, ItemFields, StandsStable
<1>15. Order(tx2, W2)
  BY <1>10, <1>11 DEF Order
<1> QED
  BY <1>8, <1>9, <1>12, <1>13, <1>14, <1>15 DEF TxInv

(* The items of a boundary are placed one after the other.                    *)
LEMMA PlaceAllSteps ==
    ASSUME NEW b, NEW order, NEW n \in Nat, n = Len(order)
    PROVE  \E after : /\ after = [k \in 0 .. n |-> IF k = 0 THEN b ELSE PlaceItem(after[k - 1], order[k])]
                      /\ PlaceAll(b, order) = after[n]
<1> DEFINE Steps(f, m) == f = [k \in 0 .. m |-> IF k = 0 THEN b ELSE PlaceItem(f[k - 1], order[k])]
           S == {m \in Nat : \E f : Steps(f, m)}
<1>1. 0 \in S
  <2>1. Steps([k \in 0 .. 0 |-> b], 0)
    OBVIOUS
  <2> QED
    BY <2>1
<1>2. \A m \in 0 .. n - 1 : m \in S => m + 1 \in S
  <2> SUFFICES ASSUME NEW m \in 0 .. n - 1, m \in S PROVE m + 1 \in S
    OBVIOUS
  <2>1. PICK f : Steps(f, m)
    OBVIOUS
  <2> DEFINE g == [k \in 0 .. m + 1 |-> IF k = m + 1 THEN PlaceItem(f[m], order[m + 1]) ELSE f[k]]
  <2>2. ASSUME NEW k \in 0 .. m + 1
        PROVE  g[k] = IF k = 0 THEN b ELSE PlaceItem(g[k - 1], order[k])
    <3>1. CASE k = 0
      BY <2>1, <3>1
    <3>2. CASE k = m + 1
      BY <3>2
    <3>3. CASE k # 0 /\ k # m + 1
      BY <2>1, <3>3
    <3> QED
      BY <3>1, <3>2, <3>3
  <2>3. Steps(g, m + 1)
    <3>1. g = [k \in 0 .. m + 1 |-> g[k]]
      OBVIOUS
    <3> HIDE DEF g
    <3> QED
      BY <2>2, <3>1
  <2> HIDE DEF Steps
  <2> QED
    BY <2>3
<1>3. 0 .. n \subseteq S
  <2> HIDE DEF S
  <2> QED
    BY <1>1, <1>2, UpTo
<1>4. \E f : Steps(f, n)
  BY <1>3
<1> DEFINE a == CHOOSE f : Steps(f, n)
<1>5. Steps(a, n)
  <2> HIDE DEF Steps
  <2> QED
    BY <1>4
<1>6. PlaceAll(b, order) = a[n]
  BY DEF PlaceAll
<1> HIDE DEF a
<1> QED
  BY <1>5, <1>6

(* What no commit takes back of the records it finds.                         *)
Forward(tx, tx2) ==
    /\ Continues(tx, tx2)
    /\ Len(tx.subs) <= Len(tx2.subs)
    /\ \A s \in DOMAIN tx.subs :
         /\ tx.subs[s].status \in Settled => tx2.subs[s] = tx.subs[s]
         /\ tx.subs[s].status = "placed" => tx2.subs[s].entry = tx.subs[s].entry /\ tx2.subs[s].status # "queued"

(* Entries may be added without anything being taken back.                    *)
LEMMA ForwardSame ==
    ASSUME NEW tx \in TxRec, NEW tx2 \in TxRec, Continues(tx, tx2), tx2.subs = tx.subs
    PROVE  Forward(tx, tx2)
<1>1. Len(tx.subs) \in Nat
  BY TxFields
<1> QED
  BY <1>1 DEF Forward

(* Two steps that take nothing back take nothing back together.               *)
LEMMA ForwardTwice ==
    ASSUME NEW tx \in TxRec, NEW tx2 \in TxRec, NEW tx3 \in TxRec, Forward(tx, tx2), Forward(tx2, tx3)
    PROVE  Forward(tx, tx3)
<1>1. /\ Len(tx.entries) \in Nat /\ Len(tx2.entries) \in Nat /\ Len(tx3.entries) \in Nat
      /\ Len(tx.subs) \in Nat /\ Len(tx2.subs) \in Nat /\ Len(tx3.subs) \in Nat
      /\ DOMAIN tx.entries = 1 .. Len(tx.entries) /\ DOMAIN tx2.entries = 1 .. Len(tx2.entries)
      /\ DOMAIN tx.subs = 1 .. Len(tx.subs) /\ DOMAIN tx2.subs = 1 .. Len(tx2.subs)
  BY TxFields
<1>2. Continues(tx, tx3)
  BY <1>1 DEF Forward, Continues
<1>3. ASSUME NEW s \in DOMAIN tx.subs
      PROVE  /\ tx.subs[s].status \in Settled => tx3.subs[s] = tx.subs[s]
             /\ tx.subs[s].status = "placed" => tx3.subs[s].entry = tx.subs[s].entry /\ tx3.subs[s].status # "queued"
  <2>1. s \in DOMAIN tx2.subs
    BY <1>1 DEF Forward
  <2>2. tx2.subs[s].status \in {"queued", "placed"} \cup Settled
    BY <2>1, SubFields DEF Settled
  <2>3. tx.subs[s].status \in Settled => tx2.subs[s] = tx.subs[s] /\ tx3.subs[s] = tx2.subs[s]
    BY <2>1 DEF Forward
  <2>4. tx.subs[s].status = "placed" => tx2.subs[s].entry = tx.subs[s].entry /\ tx2.subs[s].status # "queued"
    BY DEF Forward
  <2>5. tx2.subs[s].status = "placed" => tx3.subs[s].entry = tx2.subs[s].entry /\ tx3.subs[s].status # "queued"
    BY <2>1 DEF Forward
  <2>6. tx2.subs[s].status \in Settled => tx3.subs[s] = tx2.subs[s]
    BY <2>1 DEF Forward
  <2> QED
    BY <2>2, <2>3, <2>4, <2>5, <2>6 DEF Settled
<1> QED
  BY <1>1, <1>2, <1>3 DEF Forward

(* What placing one item of the inbox does to a boundary.                     *)
Placed(tx, start, p, new) ==
    LET item == tx.inbox[p] IN
    /\ new = [tx |-> new.tx, start |-> new.start]
    /\ new.tx \in TxRec /\ new.start = ActiveStart(new.tx)
    /\ new.tx.inbox = tx.inbox /\ new.tx.live = tx.live /\ new.tx.tasks = tx.tasks
    /\ Forward(tx, new.tx) /\ DOMAIN new.tx.subs = DOMAIN tx.subs
    /\ \A i \in DOMAIN new.tx.entries : i > Len(tx.entries) =>
         new.tx.entries[i].kind = item.entry.kind /\ new.tx.entries[i].calls = item.entry.calls
    /\ item.mode # "write" => new.tx.subs[item.sub].entry = Len(tx.entries) + 1 /\ item.entry.kind = "user"
    /\ \A s \in DOMAIN tx.subs : s # item.sub => new.tx.subs[s] = tx.subs[s]

(* A write whose head reaches before the active range is settled, not placed.   *)
LEMMA StaleIs ==
    ASSUME NEW tx \in TxRec, NEW W, NEW U, TxInv(tx, W, U), NEW p \in W, NEW start,
           start = ActiveStart(tx), tx.inbox[p].mode = "write", IsStale(start, tx.inbox[p].entry),
           NEW b, b = [tx |-> tx, start |-> start]
    PROVE  LET new == PlaceItem(b, tx.inbox[p]) IN
             TxInv(new.tx, W \ {p}, Holding(tx, U, p)) /\ Placed(tx, start, p, new)
<1> DEFINE s == tx.inbox[p].sub
           tx2 == SettleSubmission(tx, s, "unanswered", 0, "stale")
           new == PlaceItem(b, tx.inbox[p])
<1>1. /\ Transcript(tx) /\ Queue(tx, W) /\ Placement(tx) /\ Owns(tx, U)
  BY DEF TxInv
<1>2. p \in DOMAIN tx.inbox /\ ItemFits(tx, tx.inbox[p]) /\ W \subseteq DOMAIN tx.inbox
  BY <1>1 DEF Queue
<1>3. s \in DOMAIN tx.subs /\ tx.subs[s].status = "queued" /\ tx.subs[s] \in SubmissionRec
  <2>1. s \in DOMAIN tx.subs /\ tx.subs[s] \in SubmissionRec
    BY <1>2, SubFields DEF ItemFits
  <2> QED
    BY <1>1, <2>1 DEF Queue
<1>4. /\ tx2 \in TxRec
      /\ tx2.entries = tx.entries /\ tx2.inbox = tx.inbox /\ tx2.live = tx.live /\ tx2.tasks = tx.tasks
      /\ DOMAIN tx2.subs = DOMAIN tx.subs /\ Len(tx2.subs) = Len(tx.subs)
      /\ tx2.subs[s] = SettledAs(tx.subs[s], "unanswered", 0, "stale")
      /\ \A i \in DOMAIN tx.subs : i # s => tx2.subs[i] = tx.subs[i]
  BY <1>3, SettleSubmissionIs DEF Settled
<1>6. new = [tx |-> tx2, start |-> start] /\ new.tx = tx2 /\ new.start = start
  BY DEF PlaceItem, PlaceWrite
<1> HIDE DEF tx2, new, s
<1>5. /\ tx2.subs[s].req = tx.subs[s].req /\ tx2.subs[s].type = tx.subs[s].type
      /\ tx2.subs[s].entry = tx.subs[s].entry /\ tx2.subs[s].status = "unanswered"
  <2> DEFINE sub == tx.subs[s]
             after == SettledAs(sub, "unanswered", 0, "stale")
  <2>1. sub \in SubmissionRec /\ sub.status = "queued" /\ tx2.subs[s] = after
    BY <1>3, <1>4
  <2> HIDE DEF sub, after
  <2>2. after.req = sub.req /\ after.type = sub.type /\ after.entry = sub.entry /\ after.status = "unanswered"
    BY <2>1, SettledAsType DEF Settled, after
  <2> QED
    BY <2>1, <2>2 DEF sub
<1>7. Continues(tx, tx2)
  BY <1>4, TxFields DEF Continues
<1>8. Holding(tx, U, p) = U
  BY DEF Holding
<1>9. Owns(tx2, U)
  <2>1. \A x \in DOMAIN tx.subs : tx2.subs[x].status = "placed" <=> tx.subs[x].status = "placed"
    BY <1>3, <1>4, <1>5
  <2> QED
    BY <1>1, <1>4, <2>1 DEF Owns
<1>10. {i \in W : tx.inbox[i].sub \notin {s}} = W \ {p}
  <2>1. \A i \in DOMAIN tx.inbox : i \in Nat /\ tx.inbox[i].sub \in Nat
    BY ItemFields
  <2>2. \A i \in W : tx.inbox[i].sub = s => i = p
    BY <1>1, <1>2, <2>1 DEF Queue, s
  <2> QED
    BY <2>2 DEF s
<1>11. TxInv(tx2, W \ {p}, U)
  <2> DEFINE X == {s}
  <2>1. \A i \in DOMAIN tx.subs : i \notin X => tx2.subs[i] = tx.subs[i]
    BY <1>4
  <2>2. \A i \in X : /\ tx2.subs[i].req = tx.subs[i].req /\ tx2.subs[i].type = tx.subs[i].type
                     /\ tx2.subs[i].entry = tx.subs[i].entry /\ tx2.subs[i].status \in Settled
                     /\ tx2.subs[i].status = "done" =>
                          /\ tx.subs[i].type = "input" /\ tx.subs[i].entry # 0
                          /\ AnsweredBy(tx.entries, tx.subs[i].entry, tx2.subs[i].answer)
    BY <1>5 DEF Settled
  <2>3. X \in SUBSET DOMAIN tx.subs
    BY <1>3
  <2>4. {i \in W : tx.inbox[i].sub \notin X} = W \ {p}
    BY <1>10
  <2>5. tx2 \in TxRec /\ tx2.entries = tx.entries /\ tx2.inbox = tx.inbox /\ DOMAIN tx2.subs = DOMAIN tx.subs
    BY <1>4
  <2> HIDE DEF X
  <2> QED
    BY <2>5, <1>9, <2>1, <2>2, <2>3, <2>4, SettleKeeps
<1>12. ActiveStart(tx2) = start
  <2>1. Extends(tx, tx2)
    BY <1>4, <1>7, TxFields DEF Extends
  <2> QED
    BY <1>1, <1>4, <2>1, PlainHeads
<1>13. Forward(tx, tx2)
  <2>1. Len(tx.subs) <= Len(tx2.subs)
    BY <1>4, TxFields
  <2> QED
    BY <1>3, <1>4, <1>7, <2>1 DEF Forward, Settled
<1>14. \A i \in DOMAIN tx2.entries : ~ (i > Len(tx.entries))
  BY <1>4, TxFields
<1>15. Placed(tx, start, p, new)
  BY <1>4, <1>6, <1>12, <1>13, <1>14 DEF Placed, s
<1> QED
  BY <1>6, <1>8, <1>11, <1>15 DEF new

(* An item of the inbox and its submission, as they are before it is placed.    *)
LEMMA ItemIs ==
    ASSUME NEW tx \in TxRec, NEW W, NEW U, TxInv(tx, W, U), NEW p \in W
    PROVE  LET item == tx.inbox[p] IN
             /\ p \in DOMAIN tx.inbox /\ item \in ItemRec /\ item.entry \in EntryRec /\ ItemFits(tx, item)
             /\ item.sub \in DOMAIN tx.subs /\ item.sub \in Nat
             /\ tx.subs[item.sub] \in SubmissionRec /\ tx.subs[item.sub].status = "queued"
<1>1. Queue(tx, W)
  BY DEF TxInv
<1>2. p \in DOMAIN tx.inbox /\ ItemFits(tx, tx.inbox[p])
  BY <1>1 DEF Queue
<1>3. tx.inbox[p].sub \in DOMAIN tx.subs
  BY <1>2 DEF ItemFits
<1>4. tx.subs[tx.inbox[p].sub].status = "queued"
  BY <1>1, <1>3 DEF Queue
<1> QED
  BY <1>2, <1>3, <1>4, ItemFields, SubFields

(* What placing an item's entry leaves.                                       *)
LEMMA PlacedTx ==
    ASSUME NEW tx \in TxRec, NEW W, NEW U, TxInv(tx, W, U), NEW p \in W,
           NEW e, e = [tx.inbox[p].entry EXCEPT !.by = tx.inbox[p].sub],
           NEW id, id = Len(tx.entries) + 1,
           NEW tx2, tx2 = PlaceSubmission(AppendEntry(tx, e), tx.inbox[p].sub, id)
    PROVE  /\ tx2 \in TxRec /\ Places(tx, tx2, p) /\ Forward(tx, tx2)
           /\ tx2.inbox = tx.inbox /\ tx2.live = tx.live /\ tx2.tasks = tx.tasks
           /\ id \in Nat /\ DOMAIN tx2.entries = 1 .. id
           /\ tx2.entries[id].kind = tx.inbox[p].entry.kind /\ tx2.entries[id].calls = tx.inbox[p].entry.calls
           /\ tx2.entries[id].cover = tx.inbox[p].entry.cover
           /\ tx2.entries[id].head = IF tx.inbox[p].entry.kind = "reset" THEN id ELSE tx.inbox[p].entry.head
<1> DEFINE s == tx.inbox[p].sub
           mid == AppendEntry(tx, e)
<1>1. /\ tx.inbox[p].entry \in EntryRec /\ s \in DOMAIN tx.subs /\ s \in Nat
      /\ tx.subs[s] \in SubmissionRec /\ tx.subs[s].status = "queued"
  BY ItemIs
<1>2. id \in Nat /\ id = Len(tx.entries) + 1 /\ DOMAIN tx.entries = 1 .. Len(tx.entries) /\ Len(tx.entries) \in Nat
  BY TxFields
<1>3. /\ e \in EntryRec /\ e.by = s /\ e.kind = tx.inbox[p].entry.kind /\ e.calls = tx.inbox[p].entry.calls
      /\ e.cover = tx.inbox[p].entry.cover /\ e.head = tx.inbox[p].entry.head
  BY <1>1 DEF EntryRec
<1>4. /\ Numbered(e, id).by = s /\ Numbered(e, id).kind = e.kind /\ Numbered(e, id).cover = e.cover
      /\ Numbered(e, id).calls = e.calls
      /\ Numbered(e, id).head = IF e.kind = "reset" THEN id ELSE e.head
  BY <1>2, <1>3, NumberedType
<1>5. /\ mid \in TxRec
      /\ mid.subs = tx.subs /\ mid.inbox = tx.inbox /\ mid.live = tx.live /\ mid.tasks = tx.tasks
      /\ Len(mid.entries) = id /\ DOMAIN mid.entries = 1 .. id
      /\ \A i \in 1 .. Len(tx.entries) : mid.entries[i] = tx.entries[i]
      /\ mid.entries[id] = Numbered(e, id)
  BY <1>3, AppendEntryIs
<1>6. tx2 = PlaceSubmission(mid, s, id)
  OBVIOUS
<1> HIDE DEF s, mid
<1>7. /\ tx2 \in TxRec
      /\ tx2.entries = mid.entries /\ tx2.inbox = mid.inbox /\ tx2.live = mid.live /\ tx2.tasks = mid.tasks
      /\ Len(tx2.subs) = Len(mid.subs) /\ DOMAIN tx2.subs = DOMAIN mid.subs
      /\ \A i \in DOMAIN mid.subs : i # s => tx2.subs[i] = mid.subs[i]
      /\ tx2.subs[s].req = mid.subs[s].req /\ tx2.subs[s].type = mid.subs[s].type
      /\ tx2.subs[s].entry = id
      /\ tx2.subs[s].status = IF mid.subs[s].type = "input" THEN "placed" ELSE "done"
  <2>1. mid \in TxRec /\ s \in DOMAIN mid.subs /\ id \in Nat
    BY <1>1, <1>2, <1>5
  <2> QED
    BY <1>6, <2>1, PlaceSubmissionIs
<1>8. Continues(tx, tx2) /\ Len(tx2.entries) = id
  <2>1. tx2.entries = mid.entries
    BY <1>7
  <2>2. Len(mid.entries) = id /\ \A i \in 1 .. Len(tx.entries) : mid.entries[i] = tx.entries[i]
    BY <1>5
  <2>3. id = Len(tx.entries) + 1 /\ Len(tx.entries) \in Nat /\ DOMAIN tx.entries = 1 .. Len(tx.entries)
    BY <1>2
  <2> QED
    BY <2>1, <2>2, <2>3 DEF Continues
<1>9. Places(tx, tx2, p)
  <2>1. /\ tx2.entries[id].by = s /\ tx2.entries[id].kind = tx.inbox[p].entry.kind
    BY <1>3, <1>4, <1>5, <1>7
  <2>2. tx2.live.run.inputs = tx.live.run.inputs
    BY <1>5, <1>7
  <2> QED
    BY <1>2, <1>5, <1>7, <1>8, <2>1, <2>2 DEF Places, s
<1>10. Forward(tx, tx2)
  <2>1. Len(tx.subs) <= Len(tx2.subs)
    <3>1. Len(tx2.subs) = Len(tx.subs)
      BY <1>5, <1>7, Zenon
    <3>2. Len(tx.subs) \in Nat
      BY TxLengths
    <3> HIDE DEF s, mid
    <3> QED
      BY <3>1, <3>2
  <2>2. \A i \in DOMAIN tx.subs : i # s => tx2.subs[i] = tx.subs[i]
    <3>1. mid.subs = tx.subs
      BY <1>5
    <3>2. \A i \in DOMAIN mid.subs : i # s => tx2.subs[i] = mid.subs[i]
      BY <1>7
    <3> QED
      BY <3>1, <3>2
  <2>3. tx.subs[s].status = "queued"
    BY <1>1
  <2>4. ASSUME NEW i \in DOMAIN tx.subs
        PROVE  /\ tx.subs[i].status \in Settled => tx2.subs[i] = tx.subs[i]
               /\ tx.subs[i].status = "placed" => tx2.subs[i].entry = tx.subs[i].entry /\ tx2.subs[i].status # "queued"
    BY <2>2, <2>3 DEF Settled
  <2>5. Continues(tx, tx2)
    BY <1>8
  <2> QED
    BY <2>1, <2>4, <2>5 DEF Forward
<1>11. /\ tx2.entries[id].kind = tx.inbox[p].entry.kind /\ tx2.entries[id].calls = tx.inbox[p].entry.calls
       /\ tx2.entries[id].cover = tx.inbox[p].entry.cover
       /\ tx2.entries[id].head = IF tx.inbox[p].entry.kind = "reset" THEN id ELSE tx.inbox[p].entry.head
  <2>1. tx2.entries[id] = Numbered(e, id)
    BY <1>5, <1>7
  <2> QED
    BY <1>3, <1>4, <2>1
<1>12. tx2.inbox = tx.inbox /\ tx2.live = tx.live /\ tx2.tasks = tx.tasks /\ DOMAIN tx2.entries = 1 .. id
  BY <1>5, <1>7
<1>13. tx2 \in TxRec /\ id \in Nat
  BY <1>2, <1>7
<1> QED
  BY <1>9, <1>10, <1>11, <1>12, <1>13

(* A write or an input whose turn it is, placed.                              *)
LEMMA PlaceItemKeeps ==
    ASSUME NEW tx \in TxRec, NEW W, NEW U, TxInv(tx, W, U), NEW p \in W, Turn(tx, W, p),
           NEW b, b = [tx |-> tx, start |-> ActiveStart(tx)]
    PROVE  LET new == PlaceItem(b, tx.inbox[p]) IN
             TxInv(new.tx, W \ {p}, Holding(tx, U, p)) /\ Placed(tx, ActiveStart(tx), p, new)
<1> DEFINE item == tx.inbox[p]
           id == Len(tx.entries) + 1
           e == [item.entry EXCEPT !.by = item.sub]
           tx2 == PlaceSubmission(AppendEntry(tx, e), item.sub, id)
           new == PlaceItem(b, item)
           start == ActiveStart(tx)
<1>1. CASE item.mode = "write" /\ IsStale(start, item.entry)
  <2> HIDE DEF start
  <2>1. start = ActiveStart(tx) /\ b = [tx |-> tx, start |-> start]
    BY DEF start
  <2> HIDE DEF new
  <2>2. TxInv(new.tx, W \ {p}, Holding(tx, U, p)) /\ Placed(tx, start, p, new)
    BY <1>1, <2>1, StaleIs DEF new
  <2> QED
    BY <2>1, <2>2 DEF new
<1>2. CASE ~(item.mode = "write" /\ IsStale(start, item.entry))
  <2>1. /\ p \in DOMAIN tx.inbox /\ item \in ItemRec /\ item.entry \in EntryRec /\ ItemFits(tx, item)
        /\ item.sub \in DOMAIN tx.subs
    BY ItemIs
  <2>2. /\ tx2 \in TxRec /\ Places(tx, tx2, p) /\ Forward(tx, tx2)
        /\ tx2.inbox = tx.inbox /\ tx2.live = tx.live /\ tx2.tasks = tx.tasks
        /\ id \in Nat /\ DOMAIN tx2.entries = 1 .. id
        /\ tx2.entries[id].kind = item.entry.kind /\ tx2.entries[id].calls = item.entry.calls
        /\ tx2.entries[id].cover = item.entry.cover
        /\ tx2.entries[id].head = IF item.entry.kind = "reset" THEN id ELSE item.entry.head
    BY PlacedTx
  <2>3. /\ item.mode = "write" =>
             new = [tx |-> tx2, start |-> IF item.entry.kind = "reset" THEN id
                                          ELSE IF item.entry.head > 0 THEN item.entry.head ELSE start]
        /\ item.mode # "write" => new = [tx |-> tx2, start |-> start]
    BY <1>2 DEF PlaceItem, PlaceWrite, PlaceInput
  <2>4. Continues(tx, tx2) /\ Len(tx2.entries) = id /\ Len(tx.entries) \in Nat /\ id = Len(tx.entries) + 1
    <3> HIDE DEF tx2
    <3> QED
      BY <2>2, TxFields DEF Forward, Places
  <2>5. Transcript(tx) /\ Context(tx) /\ HeldItems(tx, W)
    BY DEF TxInv
  <2>6. ActiveStart(tx) \in Nat
    BY <2>4, <2>5, HeadsAre
  <2> HIDE DEF tx2, new
  <2>7. Transcript(tx2) /\ Context(tx2) /\ new = [tx |-> tx2, start |-> ActiveStart(tx2)]
    <3>1. CASE item.entry.kind \in HeadKinds
      <4>1. item.mode = "write" /\ item.entry.kind \in {"reset", "cut", "summary"}
        BY <2>1, <3>1 DEF ItemFits, HeadKinds
      <4>2. GoodHead(tx, tx2.entries[id])
        <5>1. CASE item.entry.kind = "reset"
          <6>1. ActiveStart(tx) <= Len(tx.entries)
            BY <2>4, <2>5, HeadsAre
          <6>2. item.entry.cover = {}
            BY <2>1, <5>1 DEF ItemFits
          <6> QED
            BY <2>2, <2>4, <2>6, <5>1, <6>1, <6>2 DEF GoodHead, HeadKinds
        <5>2. CASE item.entry.kind # "reset"
          <6>1. item.entry.head > 0 /\ item.entry.head <= Len(tx.entries) /\ item.entry.head \in Nat
            BY <2>1, <4>1, <5>2, ItemFields DEF ItemFits
          <6>2. item.entry.head >= ActiveStart(tx)
            BY <1>2, <2>6, <4>1, <6>1 DEF IsStale
          <6>3. item.entry.head \in DOMAIN tx.entries
            BY <2>4, <6>1, TxFields
          <6>4. item.entry.kind # "summary" => item.entry.cover = {}
            BY <2>1 DEF ItemFits
          <6>5. item.entry.kind = "summary" => Stands(tx, item.entry.head, item.entry.cover)
            BY <2>5 DEF HeldItems
          <6> QED
            BY <2>2, <3>1, <5>2, <6>1, <6>2, <6>3, <6>4, <6>5 DEF GoodHead
        <5> QED
          BY <5>1, <5>2
      <4>3. Transcript(tx2) /\ ActiveStart(tx2) = tx2.entries[id].head /\ Context(tx2)
        BY <2>2, <2>4, <2>5, <4>2, HeadExtends
      <4>4. tx2.entries[id].head > 0
        BY <4>2 DEF GoodHead
      <4> QED
        BY <2>2, <2>3, <4>1, <4>3, <4>4
    <3>2. CASE item.entry.kind \notin HeadKinds
      <4>1. item.entry.head = 0 /\ item.entry.cover = {} /\ item.entry.kind # "reset"
        BY <2>1, <3>2, ItemFields DEF ItemFits, HeadKinds
      <4>2. Extends(tx, tx2)
        <5>1. PlainEntry(tx2.entries[id])
          BY <2>2, <3>2, <4>1 DEF PlainEntry
        <5>2. \A i \in DOMAIN tx2.entries : i > Len(tx.entries) => i = id
          BY <2>2, <2>4
        <5> QED
          BY <2>4, <5>1, <5>2 DEF Extends
      <4>3. Transcript(tx2) /\ ActiveStart(tx2) = ActiveStart(tx) /\ Context(tx2)
        BY <2>2, <2>5, <4>2, PlainHeads, PlainContext
      <4> QED
        BY <2>3, <4>1, <4>3
    <3> QED
      BY <3>1, <3>2
  <2>8. TxInv(tx2, W \ {p}, Holding(tx, U, p))
    BY <2>2, <2>7, PlaceKeeps
  <2>9. Placed(tx, ActiveStart(tx), p, new)
    <3>1. new.tx = tx2 /\ new.start = ActiveStart(tx2) /\ new = [tx |-> new.tx, start |-> new.start]
      BY <2>7
    <3>2. \A i \in DOMAIN tx2.entries : i > Len(tx.entries) => i = id
      BY <2>2, <2>4
    <3>3. item.mode # "write" => tx2.subs[item.sub].entry = id /\ item.entry.kind = "user"
      BY <2>1, <2>2 DEF Places, ItemFits
    <3>4. DOMAIN tx2.subs = DOMAIN tx.subs /\ \A s \in DOMAIN tx.subs : s # item.sub => tx2.subs[s] = tx.subs[s]
      BY Zenon, <2>2 DEF Places
    <3> QED
      BY <2>2, <3>1, <3>2, <3>3, <3>4 DEF Placed
  <2> QED
    BY <2>7, <2>8, <2>9 DEF new
<1> QED
  BY <1>1, <1>2

-----------------------------------------------------------------------------
(* Boundaries.                                                             *)

(* The items of the inbox at `pos`: the `m` writes in their order, then inputs.  *)
Scheduled(tx, pos, m) ==
    /\ pos \in Seq(DOMAIN tx.inbox) /\ m \in 0 .. Len(pos)
    /\ \A i, j \in 1 .. Len(pos) : pos[i] = pos[j] => i = j
    /\ \A j \in 1 .. Len(pos) : tx.inbox[pos[j]].mode = "write" <=> j <= m
    /\ \A i \in 1 .. m : \A p \in DOMAIN tx.inbox :
         p < pos[i] /\ tx.inbox[p].mode = "write" => \E j \in 1 .. m : j < i /\ pos[j] = p

Gone(pos, k) == {pos[j] : j \in 1 .. k}
Inputs(tx, S) == {tx.inbox[i].sub : i \in {j \in S : tx.inbox[j].mode # "write"}}

(* An entry that neither answers nor calls, and is no reset unless one was queued. *)
Quiet(e) == e.kind \notin {"assistant", "failed", "result"} /\ e.calls = {}
Added(tx, e) == Quiet(e) /\ (e.kind = "reset" => HasQueuedReset(tx))

(* A boundary of `tx` once the first `k` items of `pos` are placed.             *)
Reached(tx, pos, k, b) ==
    /\ b = [tx |-> b.tx, start |-> b.start] /\ b.tx \in TxRec /\ b.start = ActiveStart(b.tx)
    /\ TxInv(b.tx, DOMAIN tx.inbox \ Gone(pos, k), Inputs(tx, Gone(pos, k)))
    /\ b.tx.inbox = tx.inbox /\ b.tx.live = tx.live /\ b.tx.tasks = tx.tasks
    /\ Forward(tx, b.tx) /\ DOMAIN b.tx.subs = DOMAIN tx.subs
    /\ \A i \in DOMAIN b.tx.entries : i > Len(tx.entries) => Added(tx, b.tx.entries[i])
    /\ \A s \in Inputs(tx, Gone(pos, k)) : b.tx.subs[s].entry > Len(tx.entries)
    /\ Fresh(b.tx, Inputs(tx, Gone(pos, k)))

(* The placement of one more item of a boundary keeps what the placement of a *)
(* boundary promises.                                                         *)
LEMMA PlaceNext ==
    ASSUME NEW tx \in TxRec, NEW pos, NEW m, Scheduled(tx, pos, m), NEW k \in 0 .. Len(pos) - 1,
           NEW b, Reached(tx, pos, k, b), NEW p, p = pos[k + 1]
    PROVE  Reached(tx, pos, k + 1, PlaceItem(b, tx.inbox[p]))
<1> DEFINE W == DOMAIN tx.inbox \ Gone(pos, k)
           U == Inputs(tx, Gone(pos, k))
           W2 == DOMAIN tx.inbox \ Gone(pos, k + 1)
           U2 == Inputs(tx, Gone(pos, k + 1))
           item == tx.inbox[p]
           new == PlaceItem(b, item)
<1>1. /\ Len(pos) \in Nat /\ k \in Nat /\ k + 1 \in 1 .. Len(pos) /\ p \in DOMAIN tx.inbox
      /\ \A j \in 1 .. k : j \in 1 .. Len(pos) /\ j # k + 1 /\ pos[j] \in DOMAIN tx.inbox
      /\ \A j \in 1 .. k + 1 : j \in 1 .. k \/ j = k + 1
      /\ \A j \in 1 .. k : j \in 1 .. k + 1
      /\ k + 1 \in 1 .. k + 1
  BY LenProperties, ElementOfSeq DEF Scheduled
<1>2. /\ b = [tx |-> b.tx, start |-> b.start] /\ b.tx \in TxRec /\ b.start = ActiveStart(b.tx)
      /\ TxInv(b.tx, W, U)
      /\ b.tx.inbox = tx.inbox /\ b.tx.live = tx.live /\ b.tx.tasks = tx.tasks
      /\ Forward(tx, b.tx) /\ DOMAIN b.tx.subs = DOMAIN tx.subs
  BY DEF Reached
<1>3. /\ \A i \in DOMAIN b.tx.entries : i > Len(tx.entries) => Added(tx, b.tx.entries[i])
      /\ \A s \in U : b.tx.subs[s].entry > Len(tx.entries)
      /\ Fresh(b.tx, U)
  BY DEF Reached
<1>4. Gone(pos, k + 1) = Gone(pos, k) \cup {p} /\ p \notin Gone(pos, k)
  <2>1. \A j \in 1 .. k : pos[j] # p
    BY <1>1 DEF Scheduled
  <2> QED
    BY <1>1, <2>1 DEF Gone
<1>5. p \in W /\ W2 = W \ {p}
  BY <1>1, <1>4
<1>6. U2 = Holding(b.tx, U, p)
  <2>1. U2 = U \cup Inputs(tx, {p})
    BY <1>4 DEF Inputs
  <2>2. Inputs(tx, {p}) = IF tx.inbox[p].mode = "write" THEN {} ELSE {tx.inbox[p].sub}
    BY DEF Inputs
  <2> QED
    BY <1>2, <2>1, <2>2 DEF Holding
<1>7. Turn(b.tx, W, p)
  <2> SUFFICES ASSUME tx.inbox[p].mode = "write", NEW j \in W, j < p, tx.inbox[j].mode = "write" PROVE FALSE
    BY <1>2 DEF Turn
  <2>1. k + 1 \in 1 .. m
    BY <1>1 DEF Scheduled
  <2>2. PICK i \in 1 .. m : i < k + 1 /\ pos[i] = j
    BY <2>1, <1>1 DEF Scheduled
  <2>3. i \in 1 .. k
    BY <1>1, <2>2 DEF Scheduled
  <2> QED
    BY <2>2, <2>3 DEF Gone
<1>8. TxInv(new.tx, W2, U2) /\ Placed(b.tx, ActiveStart(b.tx), p, new)
  <2> HIDE DEF W, U, W2, U2, new, item
  <2> DEFINE c == PlaceItem(b, b.tx.inbox[p])
  <2>1. TxInv(c.tx, W \ {p}, Holding(b.tx, U, p)) /\ Placed(b.tx, ActiveStart(b.tx), p, c)
    <3> HIDE DEF c
    <3>1. b = [tx |-> b.tx, start |-> ActiveStart(b.tx)]
      BY <1>2
    <3> QED
      BY <1>2, <1>5, <1>7, <3>1, PlaceItemKeeps DEF c
  <2>2. c = new
    BY <1>2 DEF new, item
  <2> QED
    BY <1>5, <1>6, <2>1, <2>2
<1> HIDE DEF new, W, U, W2, U2
<1>9. /\ new = [tx |-> new.tx, start |-> new.start]
      /\ new.tx \in TxRec /\ new.start = ActiveStart(new.tx)
      /\ new.tx.inbox = tx.inbox /\ new.tx.live = tx.live /\ new.tx.tasks = tx.tasks
      /\ Forward(b.tx, new.tx) /\ DOMAIN new.tx.subs = DOMAIN tx.subs
      /\ \A i \in DOMAIN new.tx.entries : i > Len(b.tx.entries) =>
           new.tx.entries[i].kind = item.entry.kind /\ new.tx.entries[i].calls = item.entry.calls
      /\ item.mode # "write" => new.tx.subs[item.sub].entry = Len(b.tx.entries) + 1 /\ item.entry.kind = "user"
      /\ \A s \in DOMAIN tx.subs : s # item.sub => new.tx.subs[s] = b.tx.subs[s]
  BY <1>2, <1>8 DEF Placed
<1>10. Forward(tx, new.tx)
  BY <1>2, <1>9, ForwardTwice
<1>11. /\ Len(tx.entries) \in Nat /\ Len(b.tx.entries) \in Nat /\ Len(new.tx.entries) \in Nat
       /\ DOMAIN b.tx.entries = 1 .. Len(b.tx.entries) /\ DOMAIN new.tx.entries = 1 .. Len(new.tx.entries)
       /\ Len(tx.entries) <= Len(b.tx.entries)
       /\ \A i \in 1 .. Len(b.tx.entries) : new.tx.entries[i] = b.tx.entries[i]
       /\ \A i \in DOMAIN new.tx.entries : i \in DOMAIN b.tx.entries \/ i > Len(b.tx.entries)
  <2>1. /\ Len(tx.entries) \in Nat /\ Len(b.tx.entries) \in Nat /\ Len(new.tx.entries) \in Nat
        /\ DOMAIN b.tx.entries = 1 .. Len(b.tx.entries) /\ DOMAIN new.tx.entries = 1 .. Len(new.tx.entries)
    BY <1>2, <1>9, TxFields
  <2> QED
    BY <1>2, <1>9, <2>1 DEF Forward, Continues
<1>12. \A i \in DOMAIN new.tx.entries : i > Len(tx.entries) => Added(tx, new.tx.entries[i])
  <2> SUFFICES ASSUME NEW i \in DOMAIN new.tx.entries, i > Len(tx.entries)
               PROVE  Added(tx, new.tx.entries[i])
    OBVIOUS
  <2>1. CASE i \in DOMAIN b.tx.entries
    BY <1>3, <1>11, <2>1
  <2>2. CASE i > Len(b.tx.entries)
    <3>1. new.tx.entries[i].kind = item.entry.kind /\ new.tx.entries[i].calls = item.entry.calls
      BY <1>9, <2>2
    <3>2. ItemFits(b.tx, item) /\ item \in ItemRec
      BY <1>2, <1>5, ItemIs
    <3>3. item.mode \in {"steer", "followUp", "write"}
      BY <3>2 DEF ItemRec
    <3>4. item.entry.calls = {} /\ item.entry.kind \notin {"assistant", "failed", "result"}
      BY <3>2, <3>3 DEF ItemFits
    <3>5. item.entry.kind = "reset" => HasQueuedReset(tx)
      BY <1>1 DEF HasQueuedReset
    <3> QED
      BY <3>1, <3>4, <3>5 DEF Added, Quiet
  <2> QED
    BY <1>11, <2>1, <2>2
<1>13. \A s \in U : s \in DOMAIN tx.subs /\ s # item.sub /\ new.tx.subs[s] = b.tx.subs[s]
  <2>1. Owns(b.tx, U) /\ U \subseteq DOMAIN tx.subs
    BY <1>2 DEF TxInv, Owns
  <2>2. b.tx.subs[item.sub].status = "queued"
    BY <1>2, <1>5, ItemIs
  <2>3. \A s \in U : b.tx.subs[s].status = "placed"
    BY <1>2, <2>1 DEF Owns
  <2> QED
    BY <1>9, <2>1, <2>2, <2>3
<1>14. U2 = IF item.mode = "write" THEN U ELSE U \cup {item.sub}
  BY <1>2, <1>6 DEF Holding
<1>15. \A s \in U2 : new.tx.subs[s].entry > Len(tx.entries)
  <2>1. \A s \in U : new.tx.subs[s].entry > Len(tx.entries)
    BY <1>3, <1>13
  <2>2. item.mode # "write" => new.tx.subs[item.sub].entry > Len(tx.entries)
    BY <1>9, <1>11
  <2> QED
    BY <1>14, <2>1, <2>2
<1>16. Fresh(new.tx, U2)
  <2>1. CASE item.mode = "write"
    <3>1. k + 1 <= m /\ m \in Nat
      BY <2>1, <1>1 DEF Scheduled
    <3>2. \A j \in 1 .. k : tx.inbox[pos[j]].mode = "write"
      BY <3>1, <1>1 DEF Scheduled
    <3>3. U = {}
      BY <3>2 DEF U, Inputs, Gone
    <3> QED
      BY <2>1, <3>3, <1>14 DEF Fresh
  <2>2. CASE item.mode # "write"
    <3>1. \A i \in DOMAIN new.tx.entries : i > Len(b.tx.entries) => new.tx.entries[i].kind # "reset"
      BY <1>9, <2>2
    <3>2. ASSUME NEW s \in U, NEW i \in DOMAIN new.tx.entries, i >= new.tx.subs[s].entry
          PROVE  new.tx.entries[i].kind # "reset"
      <4>1. CASE i > Len(b.tx.entries)
        BY <3>1, <4>1
      <4>2. CASE i \in DOMAIN b.tx.entries
        BY <1>3, <1>11, <1>13, <3>2, <4>2 DEF Fresh
      <4> QED
        BY <1>11, <4>1, <4>2
    <3>3. ASSUME NEW i \in DOMAIN new.tx.entries, i >= new.tx.subs[item.sub].entry
          PROVE  new.tx.entries[i].kind # "reset"
      <4>1. new.tx.subs[item.sub].entry = Len(b.tx.entries) + 1
        BY <1>9, <2>2
      <4>2. i \in 1 .. Len(new.tx.entries) /\ Len(b.tx.entries) \in Nat /\ Len(new.tx.entries) \in Nat
        BY <1>11, <3>3
      <4>3. i > Len(b.tx.entries)
        BY <3>3, <4>1, <4>2
      <4> QED
        BY <3>1, <3>3, <4>3
    <3> QED
      BY <1>14, <2>2, <3>2, <3>3 DEF Fresh
  <2> QED
    BY <2>1, <2>2
<1> QED
  BY <1>8, <1>9, <1>10, <1>12, <1>15, <1>16 DEF Reached, W2, U2, new

(* Placing everything a boundary schedules.                                   *)
LEMMA PlaceMany ==
    ASSUME NEW tx \in TxRec, TxInv(tx, DOMAIN tx.inbox, {}), NEW pos, NEW m, Scheduled(tx, pos, m),
           NEW order, Len(order) = Len(pos), \A k \in 1 .. Len(pos) : order[k] = tx.inbox[pos[k]],
           NEW b, b = [tx |-> tx, start |-> ActiveStart(tx)]
    PROVE  Reached(tx, pos, Len(pos), PlaceAll(b, order))
<1> DEFINE n == Len(pos)
<1>1. n \in Nat
  BY LenProperties DEF Scheduled
<1>2. PICK after : /\ after = [k \in 0 .. n |-> IF k = 0 THEN b ELSE PlaceItem(after[k - 1], order[k])]
                   /\ PlaceAll(b, order) = after[n]
  BY <1>1, PlaceAllSteps
<1> DEFINE S == {k \in 0 .. n : Reached(tx, pos, k, after[k])}
<1>3. 0 \in S
  <2>1. after[0] = b /\ b.tx = tx /\ b.start = ActiveStart(tx)
    BY <1>1, <1>2
  <2>2. Gone(pos, 0) = {} /\ Inputs(tx, Gone(pos, 0)) = {}
    BY DEF Gone, Inputs
  <2>3. Forward(tx, tx)
    <3>1. Len(tx.entries) \in Nat
      BY TxFields
    <3>2. Continues(tx, tx)
      BY <3>1 DEF Continues
    <3> QED
      BY <3>2, ForwardSame
  <2>4. \A i \in DOMAIN tx.entries : ~ (i > Len(tx.entries))
    BY TxFields
  <2>5. Reached(tx, pos, 0, b)
    BY <2>1, <2>2, <2>3, <2>4 DEF Reached, Fresh
  <2> QED
    BY <1>1, <2>1, <2>5
<1>4. \A k \in 0 .. n - 1 : k \in S => k + 1 \in S
  <2> SUFFICES ASSUME NEW k \in 0 .. n - 1, Reached(tx, pos, k, after[k])
               PROVE  Reached(tx, pos, k + 1, after[k + 1]) /\ k + 1 \in 0 .. n
    OBVIOUS
  <2>1. k + 1 \in 0 .. n /\ k + 1 # 0 /\ (k + 1) - 1 = k /\ k + 1 \in 1 .. Len(pos)
    BY <1>1
  <2>2. after[k + 1] = PlaceItem(after[k], tx.inbox[pos[k + 1]])
    BY <1>2, <2>1
  <2>3. Reached(tx, pos, k + 1, PlaceItem(after[k], tx.inbox[pos[k + 1]]))
    BY PlaceNext
  <2> QED
    BY <2>1, <2>2, <2>3
<1>5. 0 .. n \subseteq S
  <2> HIDE DEF S
  <2> QED
    BY <1>1, <1>3, <1>4, UpTo
<1> QED
  BY <1>1, <1>2, <1>5

(* What a boundary leaves, the inputs it placed among it.                      *)
Crossed(tx, at) ==
    /\ at.tx \in TxRec /\ at.users \in Seq(Nat) /\ (at.reset <=> HasQueuedReset(tx))
    /\ TxInv(at.tx, DOMAIN at.tx.inbox, Range(at.users))
    /\ \A i, j \in DOMAIN at.users : at.users[i] = at.users[j] => i = j
    /\ at.tx.live = tx.live /\ at.tx.tasks = tx.tasks
    /\ Forward(tx, at.tx) /\ DOMAIN at.tx.subs = DOMAIN tx.subs
    /\ \A i \in DOMAIN at.tx.entries : i > Len(tx.entries) => Added(tx, at.tx.entries[i])
    /\ \A s \in Range(at.users) : at.tx.subs[s].entry > Len(tx.entries)
    /\ Fresh(at.tx, Range(at.users))

(* Two sequences, one after the other.                                        *)
Joins(f, g, v, u, r) ==
    /\ Len(r) = v + u /\ DOMAIN r = 1 .. v + u
    /\ \A n \in 1 .. v : n \in 1 .. v + u /\ r[n] = f[n]
    /\ \A n \in 1 .. u : v + n \in 1 .. v + u /\ r[v + n] = g[n]
    /\ \A n \in 1 .. v + u : n \in 1 .. v \/ (n - v \in 1 .. u /\ n > v /\ r[n] = g[n - v])

(* A concatenation, element by element.                                       *)
LEMMA Joined ==
    ASSUME NEW T, NEW f \in Seq(T), NEW g \in Seq(T)
    PROVE  f \o g \in Seq(T) /\ Joins(f, g, Len(f), Len(g), f \o g)
<1> DEFINE r == f \o g
           v == Len(f)
           u == Len(g)
<1>1. v \in Nat /\ u \in Nat
  BY LenProperties
<1>2. r \in Seq(T) /\ Len(r) = v + u /\ \A n \in 1 .. v + u : r[n] = IF n <= v THEN f[n] ELSE g[n - v]
  BY ConcatProperties
<1> HIDE DEF r, v, u
<1>3. DOMAIN r = 1 .. v + u
  BY <1>2, LenProperties
<1>4. \A n \in 1 .. v : n \in 1 .. v + u /\ r[n] = f[n]
  BY <1>1, <1>2
<1>5. \A n \in 1 .. u : v + n \in 1 .. v + u /\ ~(v + n <= v) /\ (v + n) - v = n
  BY <1>1
<1>6. \A n \in 1 .. u : v + n \in 1 .. v + u /\ r[v + n] = g[n]
  BY <1>2, <1>5
<1>7. \A n \in 1 .. v + u : n \in 1 .. v \/ (n - v \in 1 .. u /\ n > v /\ ~(n <= v))
  BY <1>1
<1>8. Joins(f, g, v, u, r)
  BY <1>2, <1>3, <1>4, <1>6, <1>7 DEF Joins
<1> QED
  BY <1>2, <1>8 DEF r, v, u

(* A sequence whose elements are in a set is a sequence over it.              *)
LEMMA SequenceIn ==
    ASSUME NEW T, NEW S, NEW s \in Seq(T), \A n \in DOMAIN s : s[n] \in S
    PROVE  s \in Seq(S)
<1>1. Len(s) \in Nat /\ s \in [1 .. Len(s) -> T] /\ DOMAIN s = 1 .. Len(s)
  BY LenProperties
<1>2. s \in [1 .. Len(s) -> S]
  BY <1>1
<1> QED
  BY <1>1, <1>2, SeqDef

(* An increasing sequence has each number once.                               *)
LEMMA Distinct ==
    ASSUME NEW f, NEW n \in Nat, DOMAIN f = 1 .. n, Increasing(f), \A i \in 1 .. n : f[i] \in Nat
    PROVE  \A i, j \in 1 .. n : (f[i] = f[j] => i = j) /\ (f[i] < f[j] => i < j)
<1> SUFFICES ASSUME NEW i \in 1 .. n, NEW j \in 1 .. n
             PROVE  (f[i] = f[j] => i = j) /\ (f[i] < f[j] => i < j)
  OBVIOUS
<1>1. (i < j => f[i] < f[j]) /\ (j < i => f[j] < f[i])
  BY DEF Increasing
<1>2. i \in Nat /\ j \in Nat /\ f[i] \in Nat /\ f[j] \in Nat
  OBVIOUS
<1> QED
  BY <1>1, <1>2

Selected(tx, V, S) ==
    /\ V \subseteq DOMAIN tx.inbox /\ \A i \in DOMAIN tx.inbox : i \in V <=> tx.inbox[i].mode = "write"
    /\ S \subseteq DOMAIN tx.inbox /\ \A i \in S : tx.inbox[i].mode # "write"
Planned(tx, V, S, pos, order) ==
    /\ Scheduled(tx, pos, Cardinality(V))
    /\ Len(order) = Len(pos) /\ \A k \in 1 .. Len(pos) : order[k] = tx.inbox[pos[k]]
    /\ Gone(pos, Len(pos)) = V \cup S

(* The positions of two sets of items, one after the other.                    *)
LEMMA Schedules ==
    ASSUME NEW tx \in TxRec, NEW V, NEW S, Selected(tx, V, S)
    PROVE  Planned(tx, V, S, Ascending(V) \o Ascending(S), Keep(tx.inbox, V) \o Keep(tx.inbox, S))
<1> DEFINE f == Ascending(V)
           g == Ascending(S)
           a == Keep(tx.inbox, V)
           c == Keep(tx.inbox, S)
           v == Cardinality(V)
           u == Cardinality(S)
           pos == f \o g
           order == a \o c
<1>0. /\ V \subseteq DOMAIN tx.inbox /\ S \subseteq DOMAIN tx.inbox
      /\ \A i \in DOMAIN tx.inbox : i \in V <=> tx.inbox[i].mode = "write"
      /\ \A i \in S : tx.inbox[i].mode # "write" /\ i \notin V
      /\ \A i \in V : tx.inbox[i].mode = "write"
  BY DEF Selected
<1>1. tx.inbox \in Seq(ItemRec) /\ DOMAIN tx.inbox = 1 .. Len(tx.inbox) /\ Len(tx.inbox) \in Nat
  BY TxFields
<1>2. /\ a \in Seq(ItemRec) /\ Finite(V) /\ v \in Nat /\ Len(a) = v /\ DOMAIN a = 1 .. v /\ Picks(f, tx.inbox, V, a)
      /\ c \in Seq(ItemRec) /\ Finite(S) /\ u \in Nat /\ Len(c) = u /\ DOMAIN c = 1 .. u /\ Picks(g, tx.inbox, S, c)
  BY <1>0, <1>1, KeepIs
<1> HIDE DEF f, g, a, c, v, u, pos, order
<1>3. /\ Len(f) = v /\ f \in Seq(Nat) /\ Increasing(f) /\ DOMAIN f = 1 .. v
      /\ \A n \in 1 .. v : f[n] \in V /\ f[n] \in Nat /\ a[n] = tx.inbox[f[n]]
      /\ \A i \in V : Rank(V, i) \in 1 .. v /\ f[Rank(V, i)] = i
  BY <1>2, LenProperties, ElementOfSeq DEF Picks
<1>4. /\ Len(g) = u /\ g \in Seq(Nat) /\ Increasing(g) /\ DOMAIN g = 1 .. u
      /\ \A n \in 1 .. u : g[n] \in S /\ g[n] \in Nat /\ c[n] = tx.inbox[g[n]]
      /\ \A i \in S : Rank(S, i) \in 1 .. u /\ g[Rank(S, i)] = i
  BY <1>2, LenProperties, ElementOfSeq DEF Picks
<1>n. v \in Nat /\ u \in Nat
  BY <1>2
<1>5. /\ pos \in Seq(Nat) /\ Len(pos) = v + u /\ DOMAIN pos = 1 .. v + u
      /\ \A n \in 1 .. v : n \in 1 .. v + u /\ pos[n] = f[n]
      /\ \A n \in 1 .. u : v + n \in 1 .. v + u /\ pos[v + n] = g[n]
      /\ \A n \in 1 .. v + u : n \in 1 .. v \/ (n - v \in 1 .. u /\ n > v /\ pos[n] = g[n - v])
  <2>1. pos = f \o g
    BY DEF pos
  <2>2. f \in Seq(Nat) /\ g \in Seq(Nat) /\ Len(f) = v /\ Len(g) = u
    BY <1>3, <1>4
  <2>3. f \o g \in Seq(Nat) /\ Joins(f, g, Len(f), Len(g), f \o g)
    BY <2>2, Joined
  <2>4. pos \in Seq(Nat) /\ Joins(f, g, v, u, pos)
    BY <2>1, <2>2, <2>3
  <2> QED
    BY <2>4 DEF Joins
<1>6. /\ Len(order) = v + u
      /\ \A n \in 1 .. v : order[n] = a[n]
      /\ \A n \in 1 .. v + u : n \in 1 .. v \/ (n - v \in 1 .. u /\ n > v /\ order[n] = c[n - v])
  <2>1. order = a \o c
    BY DEF order
  <2>2. a \in Seq(ItemRec) /\ c \in Seq(ItemRec) /\ Len(a) = v /\ Len(c) = u
    BY <1>2
  <2>3. Joins(a, c, Len(a), Len(c), a \o c)
    BY <2>2, Joined
  <2>4. Joins(a, c, v, u, order)
    BY <2>1, <2>2, <2>3
  <2> QED
    BY <2>4 DEF Joins
<1>7. \A n \in 1 .. v + u :
        \/ n \in 1 .. v /\ pos[n] = f[n] /\ pos[n] \in V /\ order[n] = a[n]
        \/ n - v \in 1 .. u /\ n > v /\ pos[n] = g[n - v] /\ pos[n] \in S /\ order[n] = c[n - v]
  <2> SUFFICES ASSUME NEW n \in 1 .. v + u
               PROVE  \/ n \in 1 .. v /\ pos[n] = f[n] /\ pos[n] \in V /\ order[n] = a[n]
                      \/ n - v \in 1 .. u /\ n > v /\ pos[n] = g[n - v] /\ pos[n] \in S /\ order[n] = c[n - v]
    OBVIOUS
  <2>1. CASE n \in 1 .. v
    BY <1>3, <1>5, <1>6, <2>1
  <2>2. CASE n \notin 1 .. v
    BY <1>4, <1>5, <1>6, <2>2
  <2> QED
    BY <2>1, <2>2
<1>8. \A k \in 1 .. v + u : order[k] = tx.inbox[pos[k]]
  <2>1. \A n \in 1 .. v : a[n] = tx.inbox[f[n]]
    BY <1>3
  <2>2. \A n \in 1 .. u : c[n] = tx.inbox[g[n]]
    BY <1>4
  <2> QED
    BY <1>7, <2>1, <2>2
<1>9. \A i, j \in 1 .. v + u : pos[i] = pos[j] => i = j
  <2>f. Increasing(f) /\ DOMAIN f = 1 .. v /\ \A i \in 1 .. v : f[i] \in Nat
    BY <1>3
  <2>g. Increasing(g) /\ DOMAIN g = 1 .. u /\ \A i \in 1 .. u : g[i] \in Nat
    BY <1>4
  <2>1. \A i, j \in 1 .. v : f[i] = f[j] => i = j
    BY <1>n, <2>f, Distinct
  <2>2. \A i, j \in 1 .. u : g[i] = g[j] => i = j
    BY <1>n, <2>g, Distinct
  <2> SUFFICES ASSUME NEW i \in 1 .. v + u, NEW j \in 1 .. v + u, pos[i] = pos[j] PROVE i = j
    OBVIOUS
  <2>3. CASE i \in 1 .. v /\ pos[i] = f[i] /\ pos[i] \in V
    <3>1. j \in 1 .. v /\ pos[j] = f[j]
      BY <1>0, <1>7, <2>3
    <3> QED
      BY <2>1, <2>3, <3>1
  <2>4. CASE i - v \in 1 .. u /\ i > v /\ pos[i] = g[i - v] /\ pos[i] \in S
    <3>1. j - v \in 1 .. u /\ pos[j] = g[j - v]
      BY <1>0, <1>7, <2>4
    <3>2. i - v = j - v
      BY <2>2, <2>4, <3>1
    <3>3. i \in Int /\ j \in Int
      BY <1>n
    <3> QED
      BY <1>n, <3>2, <3>3
  <2> QED
    BY <1>7, <2>3, <2>4
<1>10. \A j \in 1 .. v + u : tx.inbox[pos[j]].mode = "write" <=> j <= v
  <2>1. \A j \in 1 .. v + u : (pos[j] \in V /\ j <= v) \/ (pos[j] \in S /\ ~(j <= v))
    <3> SUFFICES ASSUME NEW j \in 1 .. v + u PROVE (pos[j] \in V /\ j <= v) \/ (pos[j] \in S /\ ~(j <= v))
      OBVIOUS
    <3>1. CASE j \in 1 .. v /\ pos[j] \in V
      BY <1>n, <3>1
    <3>2. CASE j > v /\ pos[j] \in S
      <4>1. ~(j <= v)
        BY <1>n, <3>2
      <4> QED
        BY <3>2, <4>1
    <3> QED
      BY <1>7, <3>1, <3>2
  <2> QED
    BY <1>0, <2>1
<1>11. ASSUME NEW i \in 1 .. v, NEW p \in DOMAIN tx.inbox, p < pos[i], tx.inbox[p].mode = "write"
       PROVE  \E j \in 1 .. v : j < i /\ pos[j] = p
  <2>1. p \in V
    BY <1>0, <1>11
  <2> DEFINE j == Rank(V, p)
  <2>2. j \in 1 .. v /\ f[j] = p
    BY <1>3, <2>1
  <2> HIDE DEF j
  <2>3. pos[i] = f[i] /\ pos[j] = f[j]
    BY <1>5, <1>11, <2>2
  <2>4. j < i
    <3>1. \A x, y \in 1 .. v : f[x] < f[y] => x < y
      BY <1>n, <1>3, Distinct
    <3> QED
      BY <1>11, <2>2, <2>3, <3>1
  <2> QED
    BY <2>2, <2>3, <2>4
<1>12. Scheduled(tx, pos, v)
  <2>1. pos \in Seq(DOMAIN tx.inbox)
    <3>1. \A n \in 1 .. v + u : pos[n] \in DOMAIN tx.inbox
      BY <1>0, <1>7
    <3> QED
      BY <1>5, <3>1, SequenceIn
  <2>2. v \in 0 .. Len(pos)
    BY <1>n, <1>5
  <2> QED
    BY <1>5, <1>9, <1>10, <1>11, <2>1, <2>2 DEF Scheduled
<1>13. Gone(pos, Len(pos)) = V \cup S
  <2>1. \A i \in V : \E n \in 1 .. v + u : pos[n] = i
    <3> SUFFICES ASSUME NEW i \in V PROVE \E n \in 1 .. v + u : pos[n] = i
      OBVIOUS
    <3> DEFINE n == Rank(V, i)
    <3>1. n \in 1 .. v /\ f[n] = i
      BY <1>3
    <3> HIDE DEF n
    <3>2. n \in 1 .. v + u /\ pos[n] = i
      BY <1>5, <3>1
    <3> QED
      BY <3>2
  <2>2. \A i \in S : \E n \in 1 .. v + u : pos[n] = i
    <3> SUFFICES ASSUME NEW i \in S PROVE \E n \in 1 .. v + u : pos[n] = i
      OBVIOUS
    <3> DEFINE n == Rank(S, i)
    <3>1. n \in 1 .. u /\ g[n] = i
      BY <1>4
    <3> HIDE DEF n
    <3>2. v + n \in 1 .. v + u /\ pos[v + n] = i
      BY <1>5, <3>1
    <3> QED
      BY <3>2
  <2>3. \A n \in 1 .. v + u : pos[n] \in V \cup S
    BY <1>7
  <2> QED
    <3>1. Gone(pos, Len(pos)) = {pos[n] : n \in 1 .. v + u}
      BY <1>5 DEF Gone
    <3>2. \A i \in V \cup S : i \in Gone(pos, Len(pos))
      BY <2>1, <2>2, <3>1
    <3>3. \A i \in Gone(pos, Len(pos)) : i \in V \cup S
      BY <2>3, <3>1
    <3> QED
      BY <3>2, <3>3
<1> QED
  BY <1>5, <1>6, <1>8, <1>12, <1>13 DEF Planned, pos, order, f, g, a, c, v

(* A boundary places what it selects and keeps the records in agreement.       *)
LEMMA BoundaryKeeps ==
    ASSUME NEW tx \in TxRec, TxInv(tx, DOMAIN tx.inbox, {}), NEW start, start = ActiveStart(tx), NEW where, NEW modes
    PROVE  Crossed(tx, ApplyBoundary(tx, start, where, modes))
<1> DEFINE items == tx.inbox
           of(mode) == {i \in DOMAIN items : items[i].mode = mode}
           pick(mode, queueMode) == IF queueMode = "all" THEN of(mode) ELSE {i \in of(mode) : \A j \in of(mode) : i <= j}
           V == of("write")
           S == pick("steer", modes.steer)
                  \cup (IF where = "final" \/ HasQueuedReset(tx) THEN pick("followUp", modes.followUp) ELSE {})
           pos == Ascending(V) \o Ascending(S)
           order == Keep(items, V) \o Keep(items, S)
           b == PlaceAll([tx |-> tx, start |-> start], order)
           placed == b.tx
           W == DOMAIN items \ (V \cup S)
           users == [k \in 1 .. Cardinality(S) |-> Keep(items, S)[k].sub]
           at == ApplyBoundary(tx, start, where, modes)
<1>1. at = [tx |-> [placed EXCEPT !.inbox = Keep(items, W)], users |-> users, reset |-> HasQueuedReset(tx)]
  BY DEF ApplyBoundary
<1>2. /\ S \subseteq DOMAIN items /\ S \cap V = {} /\ V = {i \in DOMAIN tx.inbox : tx.inbox[i].mode = "write"}
      /\ \A i \in S : items[i].mode # "write"
  OBVIOUS
<1> HIDE DEF S, V, pos, order, at, users, b, W
<1>3. /\ Scheduled(tx, pos, Cardinality(V))
      /\ Len(order) = Len(pos) /\ \A k \in 1 .. Len(pos) : order[k] = tx.inbox[pos[k]]
      /\ Gone(pos, Len(pos)) = V \cup S
  <2>1. Selected(tx, V, S)
    BY <1>2 DEF Selected
  <2>2. Planned(tx, V, S, pos, order)
    BY <2>1, Schedules DEF pos, order
  <2> QED
    BY <2>2 DEF Planned
<1>4. Reached(tx, pos, Len(pos), b)
  BY <1>3, PlaceMany DEF b
<1>5. Inputs(tx, V \cup S) = {items[i].sub : i \in S}
  <2>1. {j \in V \cup S : items[j].mode # "write"} = S
    BY <1>2
  <2> QED
    BY <2>1 DEF Inputs
<1>6. /\ users \in Seq(Nat) /\ Range(users) = {items[i].sub : i \in S}
      /\ \A i, j \in DOMAIN users : users[i] = users[j] => i = j
  <2> DEFINE c == Keep(items, S)
             u == Cardinality(S)
             g == Ascending(S)
  <2>1. items \in Seq(ItemRec) /\ DOMAIN items = 1 .. Len(items) /\ Len(items) \in Nat
    BY TxFields
  <2>2. c \in Seq(ItemRec) /\ u \in Nat /\ Len(c) = u /\ DOMAIN c = 1 .. u /\ Picks(g, items, S, c)
    BY <1>2, <2>1, KeepIs
  <2>3. users = [k \in 1 .. u |-> c[k].sub]
    BY DEF users
  <2> HIDE DEF c, u, g
  <2>4. /\ \A n \in 1 .. u : g[n] \in S /\ c[n] = items[g[n]] /\ g[n] \in DOMAIN items
        /\ \A i \in S : Rank(S, i) \in 1 .. u /\ c[Rank(S, i)] = items[i]
    BY <1>2, <2>2 DEF Picks
  <2>5. \A i, j \in 1 .. u : i < j => g[i] < g[j]
    <3>1. g \in Seq(Nat) /\ Len(g) = u /\ Increasing(g)
      BY <2>2 DEF Picks
    <3>2. DOMAIN g = 1 .. u
      BY <3>1, LenProperties
    <3> QED
      BY <3>1, <3>2 DEF Increasing
  <2>6. \A i \in DOMAIN items : i \in Nat /\ items[i].sub \in Nat
    BY ItemFields
  <2>7. Queue(tx, DOMAIN items)
    BY DEF TxInv
  <2>8. \A i, j \in 1 .. u : i < j => c[i].sub < c[j].sub
    BY <2>4, <2>5, <2>7 DEF Queue
  <2>9. \A n \in 1 .. u : c[n].sub \in Nat
    BY <2>4, <2>6
  <2>10. users \in Seq(Nat) /\ DOMAIN users = 1 .. u
    BY <2>2, <2>3, <2>9, SeqDef
  <2>11. Range(users) = {items[i].sub : i \in S}
    <3>1. \A n \in 1 .. u : users[n] \in {items[i].sub : i \in S}
      BY <2>3, <2>4
    <3>2. \A i \in S : Rank(S, i) \in 1 .. u /\ users[Rank(S, i)] = items[i].sub
      BY <2>3, <2>4
    <3>3. \A i \in S : items[i].sub \in Range(users)
      BY <2>10, <3>2 DEF Range
    <3> QED
      BY <2>10, <3>1, <3>3 DEF Range
  <2>12. \A i, j \in 1 .. u : users[i] = users[j] => i = j
    BY <2>2, <2>3, <2>8, <2>9
  <2> QED
    BY <2>10, <2>11, <2>12
<1>7. /\ placed \in TxRec
      /\ TxInv(placed, W, Range(users))
      /\ placed.inbox = items /\ placed.live = tx.live /\ placed.tasks = tx.tasks
      /\ Forward(tx, placed) /\ DOMAIN placed.subs = DOMAIN tx.subs
      /\ \A i \in DOMAIN placed.entries : i > Len(tx.entries) => Added(tx, placed.entries[i])
      /\ \A s \in Range(users) : placed.subs[s].entry > Len(tx.entries)
      /\ Fresh(placed, Range(users))
  BY <1>3, <1>4, <1>5, <1>6 DEF Reached, W
<1> DEFINE end == Shrunk(placed, W)
<1>8. /\ end \in TxRec /\ TxInv(end, DOMAIN end.inbox, Range(users))
      /\ end.entries = placed.entries /\ end.subs = placed.subs /\ end.live = placed.live /\ end.tasks = placed.tasks
  BY <1>7, ShrinkKeeps
<1>9. at.tx = end /\ at.users = users /\ at.reset = HasQueuedReset(tx)
  BY <1>1, <1>7 DEF Shrunk
<1> HIDE DEF end
<1>10. Forward(tx, end)
  BY <1>7, <1>8 DEF Forward, Continues
<1>11. Fresh(end, Range(users))
  BY <1>7, <1>8 DEF Fresh
<1> QED
  BY <1>6, <1>7, <1>8, <1>9, <1>10, <1>11 DEF Crossed, at

-----------------------------------------------------------------------------
(* Equal records.                                                          *)

(* Sequences and records are equal when their parts are.                      *)
LEMMA SequenceEqual ==
    ASSUME NEW T, NEW s \in Seq(T), NEW r \in Seq(T), Len(s) = Len(r), \A i \in 1 .. Len(s) : s[i] = r[i]
    PROVE  s = r
BY LenProperties

(* Records that agree in every field are the same.                            *)
LEMMA TxEqual ==
    ASSUME NEW tx \in TxRec, NEW tx2 \in TxRec, tx.entries = tx2.entries, tx.subs = tx2.subs,
           tx.inbox = tx2.inbox, tx.live = tx2.live, tx.tasks = tx2.tasks
    PROVE  tx = tx2
BY DEF TxRec

(* The inbox before an item was added to it.                                  *)
LEMMA KeepOld ==
    ASSUME NEW T, NEW s \in Seq(T), NEW e \in T
    PROVE  Keep(Append(s, e), DOMAIN s) = s
<1> DEFINE r == Append(s, e)
           n == Len(s)
           id == [i \in 1 .. n |-> i]
           k == Keep(r, DOMAIN s)
<1>1. n \in Nat /\ DOMAIN s = 1 .. n
  BY LenProperties
<1>2. r \in Seq(T) /\ DOMAIN r = 1 .. n + 1 /\ \A i \in 1 .. n : r[i] = s[i]
  BY Appended
<1>3. 1 .. n = Range(id) /\ Increasing(id) /\ id \in Seq(Nat)
  <2>1. id \in [1 .. n -> Nat]
    BY <1>1
  <2> QED
    BY <1>1, <2>1, SeqDef DEF Range, Increasing
<1>4. id = Ascending(1 .. n)
  <2> HIDE DEF id
  <2> QED
    BY <1>3, AscendingOnly
<1>5. 1 .. n \subseteq DOMAIN r
  BY <1>1, <1>2
<1>6. /\ k \in Seq(T) /\ Len(k) = Cardinality(1 .. n) /\ Picks(id, r, 1 .. n, k)
  <2> HIDE DEF r, id
  <2> QED
    BY <1>1, <1>2, <1>4, <1>5, KeepIs
<1>7. Len(k) = n
  <2>1. Len(id) = Len(k)
    BY <1>6 DEF Picks
  <2> QED
    BY <1>1, <2>1
<1>8. \A i \in 1 .. n : k[i] = s[i]
  <2>1. \A i \in 1 .. n : k[i] = r[id[i]]
    <3> HIDE DEF k, r, id
    <3> QED
      BY <1>6, <1>7 DEF Picks
  <2> QED
    BY <1>2, <2>1
<1> HIDE DEF k, n
<1> QED
  BY <1>6, <1>7, <1>8, SequenceEqual DEF k, r, n

-----------------------------------------------------------------------------
(* What may be admitted.                                                     *)
GoodDraft(tx, draft) ==
    /\ draft.entry \in EntryRec /\ draft.entry.by = 0 /\ draft.entry.calls = {}
    /\ draft.type \in {"input", "write"} /\ draft.busy \in {"steer", "followUp", "reject"}
    /\ draft.type = "input" => draft.entry.kind = "user"
    /\ draft.type = "write" => draft.entry.kind \in {"note", "display", "reset", "cut", "summary"}
    /\ draft.entry.head > 0 <=> draft.entry.kind \in {"cut", "summary"}
    /\ draft.entry.head <= Len(tx.entries)
    /\ draft.entry.kind # "summary" => draft.entry.cover = {}
    /\ draft.entry.kind = "summary" => Stands(tx, draft.entry.head, draft.entry.cover)

ItemOf(tx, draft) ==
    [sub |-> Len(tx.subs) + 1,
     mode |-> IF draft.type = "write" THEN "write" ELSE IF draft.busy = "steer" THEN "steer" ELSE "followUp",
     entry |-> draft.entry]
Enqueued(tx, req, draft) ==
    [CreateSubmission(tx, req, draft.type, "queued", 0, "none") EXCEPT !.inbox = Append(@, ItemOf(tx, draft))]

(* A submission added to the inbox.                                           *)
LEMMA EnqueuedIs ==
    ASSUME NEW tx \in TxRec, TxInv(tx, DOMAIN tx.inbox, {}), NEW req \in RequestNames, ~ExistingSubmission(tx, req),
           NEW draft, GoodDraft(tx, draft)
    PROVE  LET new == Enqueued(tx, req, draft)
               s == Len(tx.subs) + 1
           IN /\ new \in TxRec /\ TxInv(new, DOMAIN new.inbox, {}) /\ Forward(tx, new)
              /\ new.entries = tx.entries /\ new.live = tx.live /\ new.tasks = tx.tasks
              /\ new.inbox = Append(tx.inbox, ItemOf(tx, draft)) /\ ItemOf(tx, draft) \in ItemRec
              /\ Len(new.subs) = s /\ DOMAIN new.subs = 1 .. s
              /\ \A i \in 1 .. Len(tx.subs) : new.subs[i] = tx.subs[i]
              /\ new.subs[s] = Submitted(req, draft.type, "queued", 0, "none")
              /\ ActiveStart(new) = ActiveStart(tx)
<1> DEFINE s == Len(tx.subs) + 1
           item == ItemOf(tx, draft)
           mid == CreateSubmission(tx, req, draft.type, "queued", 0, "none")
           new == Enqueued(tx, req, draft)
           sub == Submitted(req, draft.type, "queued", 0, "none")
<1>1. /\ draft.entry \in EntryRec /\ draft.entry.by = 0 /\ draft.entry.calls = {}
      /\ draft.type \in {"input", "write"}
      /\ draft.type = "input" => draft.entry.kind = "user"
      /\ draft.type = "write" => draft.entry.kind \in {"note", "display", "reset", "cut", "summary"}
      /\ draft.entry.head > 0 <=> draft.entry.kind \in {"cut", "summary"}
      /\ draft.entry.head <= Len(tx.entries)
      /\ draft.entry.kind # "summary" => draft.entry.cover = {}
      /\ draft.entry.kind = "summary" => Stands(tx, draft.entry.head, draft.entry.cover)
  BY DEF GoodDraft
<1>2. /\ Len(tx.subs) \in Nat /\ DOMAIN tx.subs = 1 .. Len(tx.subs) /\ tx.inbox \in Seq(ItemRec)
      /\ Len(tx.inbox) \in Nat /\ DOMAIN tx.inbox = 1 .. Len(tx.inbox) /\ Len(tx.entries) \in Nat
  BY TxFields
<1>3. sub \in SubmissionRec /\ sub.type = draft.type /\ sub.status = "queued" /\ sub.entry = 0 /\ sub.req = req
  BY <1>1 DEF Submitted, SubmissionRec
<1>4. item \in ItemRec /\ item.sub = s /\ item.entry = draft.entry
      /\ (item.mode = "write" <=> draft.type = "write")
  BY <1>1, <1>2 DEF ItemOf, ItemRec
<1>5. /\ mid \in TxRec
      /\ mid.entries = tx.entries /\ mid.inbox = tx.inbox /\ mid.live = tx.live /\ mid.tasks = tx.tasks
      /\ Len(mid.subs) = s /\ DOMAIN mid.subs = 1 .. s
      /\ \A i \in 1 .. Len(tx.subs) : mid.subs[i] = tx.subs[i]
      /\ mid.subs[s] = sub
  BY <1>3, CreateSubmissionIs
<1> HIDE DEF mid, sub, item
<1>6. /\ new \in TxRec /\ new.inbox = Append(tx.inbox, item)
      /\ new.entries = mid.entries /\ new.subs = mid.subs /\ new.live = mid.live /\ new.tasks = mid.tasks
  <2>1. Append(tx.inbox, item) \in Seq(ItemRec)
    BY <1>2, <1>4, Appended
  <2>2. new = [mid EXCEPT !.inbox = Append(tx.inbox, item)]
    <3>1. new = [mid EXCEPT !.inbox = Append(mid.inbox, item)]
      BY <1>5 DEF Enqueued, mid, item, TxRec
    <3> QED
      BY <1>5, <3>1
  <2>3. mid \in TxRec
    BY <1>5
  <2> HIDE DEF new
  <2> QED
    BY <2>1, <2>2, <2>3 DEF TxRec
<1> HIDE DEF new
<1>7. /\ \A x \in DOMAIN tx.subs : new.subs[x] = tx.subs[x] /\ x # s /\ tx.subs[x].req # req
  BY <1>2, <1>5, <1>6 DEF ExistingSubmission
<1>8. ItemFits(new, item)
  <2>1. item.sub \in DOMAIN new.subs /\ new.subs[item.sub].type = draft.type
    BY <1>2, <1>3, <1>4, <1>5, <1>6
  <2> QED
    BY <1>1, <1>4, <1>5, <1>6, <2>1 DEF ItemFits
<1>9. Owns(new, {})
  <2>1. Owns(tx, {})
    BY DEF TxInv
  <2>2. new.live.run.inputs = tx.live.run.inputs
    BY <1>5, <1>6
  <2>3. Range(tx.live.run.inputs) \subseteq DOMAIN tx.subs
    BY <2>1 DEF Owns
  <2>4. s \notin Range(tx.live.run.inputs)
    BY <1>2, <2>3
  <2>5. \A x \in DOMAIN new.subs : x = s \/ x \in DOMAIN tx.subs
    BY <1>2, <1>5, <1>6
  <2>6. \A x \in DOMAIN new.subs : new.subs[x].status = "placed" <=> x \in Range(tx.live.run.inputs)
    <3>1. new.subs[s].status = "queued"
      BY <1>3, <1>5, <1>6
    <3>2. \A x \in DOMAIN tx.subs : new.subs[x].status = "placed" <=> x \in Range(tx.live.run.inputs)
      BY <1>7, <2>1 DEF Owns
    <3> QED
      BY <2>4, <2>5, <3>1, <3>2
  <2>7. Range(tx.live.run.inputs) \subseteq DOMAIN new.subs
    BY <1>2, <1>5, <1>6, <2>3
  <2>8. \A i, j \in DOMAIN tx.live.run.inputs : tx.live.run.inputs[i] = tx.live.run.inputs[j] => i = j
    BY <2>1 DEF Owns
  <2> QED
    BY <2>2, <2>6, <2>7, <2>8 DEF Owns
<1>10. TxInv(new, DOMAIN tx.inbox \cup {Len(tx.inbox) + 1}, {})
  <2>1. /\ Len(new.subs) = s
        /\ \A x \in DOMAIN tx.subs : new.subs[x] = tx.subs[x] /\ tx.subs[x].req # new.subs[s].req
        /\ new.subs[s].status = "queued" /\ new.subs[s].entry = 0
        /\ new.inbox = Append(tx.inbox, item)
        /\ item.sub = s /\ item \in ItemRec /\ ItemFits(new, item)
        /\ item.entry.kind = "summary" => Stands(tx, item.entry.head, item.entry.cover)
    BY <1>1, <1>3, <1>4, <1>5, <1>6, <1>7, <1>8
  <2> QED
    BY <1>5, <1>6, <1>9, <2>1, EnqueueKeeps
<1>11. DOMAIN new.inbox = DOMAIN tx.inbox \cup {Len(tx.inbox) + 1}
  <2>1. DOMAIN new.inbox = 1 .. Len(tx.inbox) + 1
    BY <1>2, <1>4, <1>6, Appended
  <2> QED
    BY <1>2, <2>1
<1>12. Continues(tx, new)
  BY <1>2, <1>5, <1>6 DEF Continues
<1>13. Forward(tx, new)
  <2>1. Len(tx.subs) <= Len(new.subs)
    BY <1>2, <1>5, <1>6
  <2> QED
    BY <1>7, <1>12, <2>1 DEF Forward
<1>14. ActiveStart(new) = ActiveStart(tx)
  BY <1>5, <1>6 DEF ActiveStart, LatestHeadMarker
<1> QED
  BY <1>4, <1>5, <1>6, <1>10, <1>11, <1>13, <1>14 DEF item, sub, new

-----------------------------------------------------------------------------
(* Admission.                                                              *)

(* A draft that lands at once: as if it had been queued and placed.            *)
Lands(tx, req, draft) == PlaceItem([tx |-> Enqueued(tx, req, draft), start |-> ActiveStart(tx)], ItemOf(tx, draft)).tx
Direct(tx, req, draft) == Shrunk(Lands(tx, req, draft), DOMAIN tx.inbox)

(* Submissions that agree in every field are the same.                        *)
LEMMA SubEqual ==
    ASSUME NEW a \in SubmissionRec, NEW b \in SubmissionRec, a.req = b.req, a.type = b.type, a.status = b.status,
           a.entry = b.entry, a.answer = b.answer, a.why = b.why
    PROVE  a = b
BY DEF SubmissionRec

(* A submission created queued and placed or settled at once is one created   *)
(* that way.                                                                  *)
LEMMA PlacedNew ==
    ASSUME NEW req \in RequestNames, NEW type \in {"input", "write"}, NEW id \in Nat
    PROVE  /\ PlacedAs(Submitted(req, type, "queued", 0, "none"), id)
                = Submitted(req, type, IF type = "input" THEN "placed" ELSE "done", id, "none")
           /\ SettledAs(Submitted(req, type, "queued", 0, "none"), "unanswered", 0, "stale")
                = Submitted(req, type, "unanswered", 0, "stale")
<1> DEFINE r == Submitted(req, type, "queued", 0, "none")
           x == Submitted(req, type, IF type = "input" THEN "placed" ELSE "done", id, "none")
           y == Submitted(req, type, "unanswered", 0, "stale")
<1>1. /\ r.req = req /\ r.type = type /\ r.status = "queued" /\ r.entry = 0 /\ r.answer = 0 /\ r.why = "none"
      /\ x.req = req /\ x.type = type /\ x.status = (IF type = "input" THEN "placed" ELSE "done")
      /\ x.entry = id /\ x.answer = 0 /\ x.why = "none"
      /\ y.req = req /\ y.type = type /\ y.status = "unanswered" /\ y.entry = 0 /\ y.answer = 0 /\ y.why = "stale"
  BY DEF Submitted
<1>2. r \in SubmissionRec /\ x \in SubmissionRec /\ y \in SubmissionRec
  BY DEF Submitted, SubmissionRec
<1> HIDE DEF r, x, y
<1>3. PlacedAs(r, id) = x
  <2> DEFINE a == PlacedAs(r, id)
  <2>1. a \in SubmissionRec /\ a.req = r.req /\ a.type = r.type /\ a.entry = id /\ a.answer = r.answer /\ a.why = r.why
        /\ a.status = IF r.type = "input" THEN "placed" ELSE "done"
    BY <1>2 DEF PlacedAs, SubmissionRec
  <2> HIDE DEF a
  <2>2. a = x
    BY <1>1, <1>2, <2>1, SubEqual
  <2> QED
    BY <2>2 DEF a
<1>4. SettledAs(r, "unanswered", 0, "stale") = y
  <2> DEFINE a == SettledAs(r, "unanswered", 0, "stale")
  <2>1. a \in SubmissionRec /\ a.req = r.req /\ a.type = r.type /\ a.entry = r.entry /\ a.answer = 0 /\ a.why = "stale"
        /\ a.status = "unanswered"
    BY <1>1, <1>2 DEF SettledAs, SubmissionRec, Settled
  <2> HIDE DEF a
  <2>2. a = y
    BY <1>1, <1>2, <2>1, SubEqual
  <2> QED
    BY <2>2 DEF a
<1> QED
  BY <1>3, <1>4 DEF r, x, y

(* A draft that goes straight to the transcript is placed, or settled when its*)
(* head is stale, and keeps the order of what landed.                         *)
LEMMA DirectKeeps ==
    ASSUME NEW tx \in TxRec, TxInv(tx, DOMAIN tx.inbox, {}), NEW req \in RequestNames, ~ExistingSubmission(tx, req),
           NEW draft, GoodDraft(tx, draft),
           draft.type = "write" => tx.inbox = <<>> \/ (IsDisplayOnly(draft.entry) /\ ~HasQueuedReset(tx))
    PROVE  LET new == Direct(tx, req, draft)
               s == Len(tx.subs) + 1
           IN /\ new \in TxRec /\ TxInv(new, DOMAIN new.inbox, IF draft.type = "write" THEN {} ELSE {s})
              /\ new.inbox = tx.inbox /\ new.live = tx.live /\ new.tasks = tx.tasks
              /\ Forward(tx, new)
              /\ \A i \in DOMAIN new.entries : i > Len(tx.entries) =>
                   new.entries[i].kind = draft.entry.kind /\ new.entries[i].calls = {}
              /\ draft.type = "input" => new.subs[s].entry = Len(tx.entries) + 1
<1> DEFINE s == Len(tx.subs) + 1
           q == Enqueued(tx, req, draft)
           item == ItemOf(tx, draft)
           p == Len(tx.inbox) + 1
           b == [tx |-> q, start |-> ActiveStart(q)]
           W == DOMAIN q.inbox
           U == IF draft.type = "write" THEN {} ELSE {s}
           c == PlaceItem(b, q.inbox[p])
           new == Direct(tx, req, draft)
<1>1. /\ q \in TxRec /\ TxInv(q, W, {}) /\ Forward(tx, q)
      /\ q.entries = tx.entries /\ q.live = tx.live /\ q.tasks = tx.tasks
      /\ q.inbox = Append(tx.inbox, item) /\ item \in ItemRec
      /\ ActiveStart(q) = ActiveStart(tx)
  BY EnqueuedIs
<1>2. /\ tx.inbox \in Seq(ItemRec) /\ Len(tx.inbox) \in Nat /\ DOMAIN tx.inbox = 1 .. Len(tx.inbox)
  BY TxFields
<1>3. /\ W = 1 .. p /\ p \in W /\ q.inbox[p] = item
      /\ \A i \in DOMAIN tx.inbox : q.inbox[i] = tx.inbox[i]
      /\ W \ {p} = DOMAIN tx.inbox
  BY <1>1, <1>2, Appended
<1>4. item.sub = s /\ item.entry = draft.entry /\ (item.mode = "write" <=> draft.type = "write")
  BY DEF ItemOf
<1>5. draft.type \in {"input", "write"} /\ draft.entry.calls = {}
  BY DEF GoodDraft
<1>6. Lands(tx, req, draft) = c.tx
  BY <1>1, <1>3 DEF Lands
<1> HIDE DEF q, item, c
<1>7. Turn(q, W, p)
  <2> SUFFICES ASSUME item.mode = "write", NEW j \in W, j < p, q.inbox[j].mode = "write"
               PROVE  item.entry.kind = "display" /\ q.inbox[j].entry.kind # "reset"
    BY <1>3 DEF Turn
  <2>1. j \in DOMAIN tx.inbox /\ q.inbox[j] = tx.inbox[j]
    BY <1>2, <1>3
  <2>2. tx.inbox # <<>>
    BY <2>1
  <2>3. IsDisplayOnly(draft.entry) /\ ~HasQueuedReset(tx)
    BY <1>4, <2>2
  <2> QED
    BY <1>4, <2>1, <2>3 DEF IsDisplayOnly, HasQueuedReset
<1>8. TxInv(c.tx, W \ {p}, Holding(q, {}, p)) /\ Placed(q, ActiveStart(q), p, c)
  <2> HIDE DEF W, p
  <2> QED
    BY <1>1, <1>3, <1>7, PlaceItemKeeps DEF c
<1>9. Holding(q, {}, p) = U
  BY <1>3, <1>4 DEF Holding
<1>10. /\ c.tx \in TxRec
       /\ c.tx.inbox = q.inbox /\ c.tx.live = tx.live /\ c.tx.tasks = tx.tasks
       /\ Forward(q, c.tx)
       /\ \A i \in DOMAIN c.tx.entries : i > Len(tx.entries) =>
            c.tx.entries[i].kind = draft.entry.kind /\ c.tx.entries[i].calls = draft.entry.calls
       /\ draft.type = "input" => c.tx.subs[s].entry = Len(tx.entries) + 1
  BY <1>1, <1>3, <1>4, <1>5, <1>8 DEF Placed
<1>11. TxInv(c.tx, DOMAIN tx.inbox, U)
  BY <1>3, <1>8, <1>9
<1> HIDE DEF W, p, U
<1>12. /\ new \in TxRec /\ TxInv(new, DOMAIN new.inbox, U)
       /\ new.inbox = Keep(c.tx.inbox, DOMAIN tx.inbox)
       /\ new.entries = c.tx.entries /\ new.subs = c.tx.subs /\ new.live = c.tx.live /\ new.tasks = c.tx.tasks
  BY <1>6, <1>10, <1>11, ShrinkKeeps DEF Direct
<1>13. new.inbox = tx.inbox
  BY <1>1, <1>2, <1>10, <1>12, KeepOld
<1> HIDE DEF new
<1>14. Forward(tx, new)
  <2>1. Forward(q, new)
    BY <1>10, <1>12 DEF Forward, Continues
  <2> QED
    BY <1>1, <1>12, <2>1, ForwardTwice
<1> QED
  BY <1>5, <1>10, <1>12, <1>13, <1>14 DEF new, U

(* What lands is what the code writes at once.                                *)
LEMMA LandedIs ==
    ASSUME NEW tx \in TxRec, TxInv(tx, DOMAIN tx.inbox, {}), NEW req \in RequestNames, ~ExistingSubmission(tx, req),
           NEW draft, GoodDraft(tx, draft), ~(draft.type = "write" /\ IsStale(ActiveStart(tx), draft.entry)),
           NEW status, status = IF draft.type = "input" THEN "placed" ELSE "done",
           NEW e, e = [draft.entry EXCEPT !.by = Len(tx.subs) + 1]
    PROVE  CreateSubmission(AppendEntry(tx, e), req, draft.type, status, Len(tx.entries) + 1, "none")
             = Direct(tx, req, draft)
<1> DEFINE s == Len(tx.subs) + 1
           id == Len(tx.entries) + 1
           q == Enqueued(tx, req, draft)
           item == ItemOf(tx, draft)
           app == AppendEntry(tx, e)
           sub == Submitted(req, draft.type, status, id, "none")
           one == CreateSubmission(app, req, draft.type, status, id, "none")
           qapp == AppendEntry(q, e)
           c == PlaceSubmission(qapp, s, id)
           two == Direct(tx, req, draft)
<1>1. /\ q \in TxRec /\ q.entries = tx.entries /\ q.live = tx.live /\ q.tasks = tx.tasks
      /\ q.inbox = Append(tx.inbox, item) /\ item \in ItemRec
      /\ Len(q.subs) = s /\ DOMAIN q.subs = 1 .. s
      /\ \A i \in 1 .. Len(tx.subs) : q.subs[i] = tx.subs[i]
      /\ q.subs[s] = Submitted(req, draft.type, "queued", 0, "none")
      /\ TxInv(q, DOMAIN q.inbox, {})
  BY EnqueuedIs
<1>2. /\ Len(tx.subs) \in Nat /\ Len(tx.entries) \in Nat /\ s \in Nat /\ id \in Nat /\ s \in 1 .. s
      /\ \A i \in 1 .. s : i = s \/ i \in 1 .. Len(tx.subs)
      /\ \A i \in 1 .. Len(tx.subs) : i \in 1 .. s /\ i # s
  BY TxFields
<1>3. /\ draft.entry \in EntryRec /\ draft.type \in {"input", "write"}
  BY DEF GoodDraft
<1>4. e \in EntryRec
  BY <1>2, <1>3 DEF EntryRec
<1>5. Lands(tx, req, draft) = c
  <2>1. item.sub = s /\ item.entry = draft.entry /\ (item.mode = "write" <=> draft.type = "write")
    BY DEF ItemOf
  <2>2. Len(q.entries) + 1 = id
    BY <1>1
  <2> HIDE DEF q, item
  <2> DEFINE b == [tx |-> q, start |-> ActiveStart(tx)]
  <2>3. PlaceItem(b, item).tx = c
    BY <2>1, <2>2 DEF PlaceItem, PlaceWrite, PlaceInput
  <2> QED
    BY <2>3 DEF Lands, q, item
<1>6. sub \in SubmissionRec
  BY <1>2, <1>3 DEF Submitted, SubmissionRec
<1>7. /\ app \in TxRec /\ app.subs = tx.subs /\ app.inbox = tx.inbox /\ app.live = tx.live /\ app.tasks = tx.tasks
      /\ app.entries = Append(tx.entries, Numbered(e, id))
  BY <1>4, AppendEntryIs
<1>8. /\ qapp \in TxRec /\ qapp.subs = q.subs /\ qapp.inbox = q.inbox /\ qapp.live = tx.live /\ qapp.tasks = tx.tasks
      /\ qapp.entries = Append(tx.entries, Numbered(e, id))
  <2>1. q \in TxRec /\ q.entries = tx.entries /\ q.live = tx.live /\ q.tasks = tx.tasks
    BY <1>1
  <2> HIDE DEF q
  <2>2. /\ qapp \in TxRec /\ qapp.subs = q.subs /\ qapp.inbox = q.inbox /\ qapp.live = q.live /\ qapp.tasks = q.tasks
        /\ qapp.entries = Append(q.entries, Numbered(e, Len(q.entries) + 1))
    BY <1>4, <2>1, AppendEntryIs
  <2> QED
    BY <2>1, <2>2
<1> HIDE DEF app, qapp, q, sub, item
<1>9. /\ one \in TxRec
      /\ one.entries = app.entries /\ one.inbox = app.inbox /\ one.live = app.live /\ one.tasks = app.tasks
      /\ Len(one.subs) = s /\ DOMAIN one.subs = 1 .. s
      /\ \A i \in 1 .. Len(tx.subs) : one.subs[i] = tx.subs[i]
      /\ one.subs[s] = sub
  <2>1. Submitted(req, draft.type, status, id, "none") \in SubmissionRec
    BY <1>6 DEF sub
  <2> QED
    BY <1>7, <2>1, CreateSubmissionIs DEF sub
<1>10. /\ c \in TxRec
       /\ c.entries = qapp.entries /\ c.inbox = q.inbox /\ c.live = tx.live /\ c.tasks = tx.tasks
       /\ Len(c.subs) = s /\ DOMAIN c.subs = 1 .. s
       /\ \A i \in 1 .. Len(tx.subs) : c.subs[i] = tx.subs[i]
       /\ c.subs[s] = PlacedAs(q.subs[s], id)
  <2>1. s \in DOMAIN qapp.subs
    BY <1>1, <1>2, <1>8
  <2>2. /\ c \in TxRec
        /\ c.entries = qapp.entries /\ c.inbox = qapp.inbox /\ c.live = qapp.live /\ c.tasks = qapp.tasks
        /\ Len(c.subs) = Len(qapp.subs) /\ DOMAIN c.subs = DOMAIN qapp.subs
        /\ c.subs[s] = PlacedAs(qapp.subs[s], id)
        /\ \A i \in DOMAIN qapp.subs : i # s => c.subs[i] = qapp.subs[i]
    BY SMTT(30), <1>2, <1>8, <2>1, PlaceSubmissionIs
  <2> QED
    BY <1>1, <1>2, <1>8, <2>2
<1>11. PlacedAs(q.subs[s], id) = sub
  <2>1. q.subs[s] = Submitted(req, draft.type, "queued", 0, "none")
    BY <1>1
  <2> QED
    BY <1>2, <1>3, <2>1, PlacedNew DEF sub
<1> HIDE DEF one, c
<1>12. /\ two = [c EXCEPT !.inbox = tx.inbox]
  <2>1. Keep(c.inbox, DOMAIN tx.inbox) = tx.inbox
    BY <1>1, <1>10, TxFields, KeepOld
  <2> QED
    BY <1>5, <2>1 DEF Direct, Shrunk
<1>13. /\ two \in TxRec /\ two.inbox = tx.inbox
       /\ two.entries = c.entries /\ two.subs = c.subs /\ two.live = c.live /\ two.tasks = c.tasks
  <2>1. tx.inbox \in Seq(ItemRec) /\ c \in TxRec
    BY <1>10, TxFields
  <2> HIDE DEF two
  <2> QED
    BY <1>12, <2>1 DEF TxRec
<1> HIDE DEF two
<1>14. one.subs = two.subs
  <2>1. \A i \in 1 .. s : one.subs[i] = c.subs[i]
    BY <1>2, <1>9, <1>10, <1>11
  <2>2. one.subs \in Seq(SubmissionRec) /\ c.subs \in Seq(SubmissionRec)
    BY <1>9, <1>10, TxFields
  <2>3. one.subs = c.subs
    BY <1>9, <1>10, <2>1, <2>2, SequenceEqual
  <2> QED
    BY <1>13, <2>3
<1>15. one = two
  <2>1. one.entries = two.entries /\ one.inbox = two.inbox /\ one.live = two.live /\ one.tasks = two.tasks
    BY <1>7, <1>8, <1>9, <1>10, <1>13
  <2> QED
    BY <1>9, <1>13, <1>14, <2>1, TxEqual
<1> QED
  BY <1>15 DEF one, two, app

(* A stale write is settled without landing.                                  *)
LEMMA StaleWriteIs ==
    ASSUME NEW tx \in TxRec, TxInv(tx, DOMAIN tx.inbox, {}), NEW req \in RequestNames, ~ExistingSubmission(tx, req),
           NEW draft, GoodDraft(tx, draft), draft.type = "write", IsStale(ActiveStart(tx), draft.entry)
    PROVE  CreateSubmission(tx, req, "write", "unanswered", 0, "stale") = Direct(tx, req, draft)
<1> DEFINE s == Len(tx.subs) + 1
           q == Enqueued(tx, req, draft)
           item == ItemOf(tx, draft)
           sub == Submitted(req, "write", "unanswered", 0, "stale")
           one == CreateSubmission(tx, req, "write", "unanswered", 0, "stale")
           c == SettleSubmission(q, s, "unanswered", 0, "stale")
           two == Direct(tx, req, draft)
<1>1. /\ q \in TxRec /\ q.entries = tx.entries /\ q.live = tx.live /\ q.tasks = tx.tasks
      /\ q.inbox = Append(tx.inbox, item) /\ item \in ItemRec
      /\ Len(q.subs) = s /\ DOMAIN q.subs = 1 .. s
      /\ \A i \in 1 .. Len(tx.subs) : q.subs[i] = tx.subs[i]
      /\ q.subs[s] = Submitted(req, "write", "queued", 0, "none")
  BY EnqueuedIs
<1>2. /\ Len(tx.subs) \in Nat /\ s \in Nat /\ s \in 1 .. s
      /\ \A i \in 1 .. s : i = s \/ i \in 1 .. Len(tx.subs)
      /\ \A i \in 1 .. Len(tx.subs) : i \in 1 .. s /\ i # s
  BY TxFields
<1>3. Lands(tx, req, draft) = c
  <2>1. item.sub = s /\ item.entry = draft.entry /\ item.mode = "write"
    BY DEF ItemOf
  <2> HIDE DEF q, item
  <2> DEFINE b == [tx |-> q, start |-> ActiveStart(tx)]
  <2>2. PlaceItem(b, item).tx = c
    BY <2>1 DEF PlaceItem, PlaceWrite
  <2> QED
    BY <2>2 DEF Lands, q, item
<1>4. sub \in SubmissionRec
  BY DEF Submitted, SubmissionRec
<1> HIDE DEF q, item
<1>5. /\ one \in TxRec
      /\ one.entries = tx.entries /\ one.inbox = tx.inbox /\ one.live = tx.live /\ one.tasks = tx.tasks
      /\ Len(one.subs) = s /\ DOMAIN one.subs = 1 .. s
      /\ \A i \in 1 .. Len(tx.subs) : one.subs[i] = tx.subs[i]
      /\ one.subs[s] = sub
  BY <1>4, CreateSubmissionIs
<1>6. /\ c \in TxRec
      /\ c.entries = q.entries /\ c.inbox = q.inbox /\ c.live = q.live /\ c.tasks = q.tasks
      /\ Len(c.subs) = Len(q.subs) /\ DOMAIN c.subs = DOMAIN q.subs
      /\ c.subs[s] = SettledAs(q.subs[s], "unanswered", 0, "stale")
      /\ \A i \in DOMAIN q.subs : i # s => c.subs[i] = q.subs[i]
  <2>1. s \in DOMAIN q.subs /\ "unanswered" \in Settled
    BY <1>1, <1>2 DEF Settled
  <2> QED
    BY <1>1, <2>1, SettleSubmissionIs
<1>7. SettledAs(q.subs[s], "unanswered", 0, "stale") = sub
  <2>1. q.subs[s] = Submitted(req, "write", "queued", 0, "none")
    BY <1>1
  <2> QED
    BY <2>1, PlacedNew DEF sub
<1> HIDE DEF one, c, sub
<1>8. /\ two = [c EXCEPT !.inbox = tx.inbox]
  <2>1. Keep(c.inbox, DOMAIN tx.inbox) = tx.inbox
    BY <1>1, <1>6, TxFields, KeepOld
  <2> QED
    BY <1>3, <2>1 DEF Direct, Shrunk
<1>9. /\ two \in TxRec /\ two.inbox = tx.inbox
      /\ two.entries = c.entries /\ two.subs = c.subs /\ two.live = c.live /\ two.tasks = c.tasks
  <2>1. tx.inbox \in Seq(ItemRec) /\ c \in TxRec
    BY <1>6, TxFields
  <2> HIDE DEF two
  <2> QED
    BY <1>8, <2>1 DEF TxRec
<1> HIDE DEF two
<1>10. one.subs = two.subs
  <2>1. \A i \in 1 .. s : one.subs[i] = c.subs[i]
    BY <1>1, <1>2, <1>5, <1>6, <1>7
  <2>2. one.subs \in Seq(SubmissionRec) /\ c.subs \in Seq(SubmissionRec) /\ Len(c.subs) = s
    BY <1>1, <1>5, <1>6, TxFields
  <2>3. one.subs = c.subs
    BY <1>5, <2>1, <2>2, SequenceEqual
  <2> QED
    BY <1>9, <2>3
<1>11. one = two
  BY <1>1, <1>5, <1>6, <1>9, <1>10, TxEqual
<1> QED
  BY <1>11 DEF one, two

-----------------------------------------------------------------------------
(* Runs.                                                                   *)

(* The task of a run is a task.                                               *)
LEMMA NewTaskType == NewTask \in TaskRec
BY DEF NewTask, TaskRec

(* A run and its first task.                                                  *)
RunStarted(tx, new) ==
    /\ ~Busy(tx)
    /\ Len(new.tasks) = Len(tx.tasks) + 1
    /\ \A t \in DOMAIN tx.tasks : new.tasks[t] = tx.tasks[t]
    /\ new.tasks[Len(tx.tasks) + 1] = NewTask
    /\ new.live.run.task = Len(tx.tasks) + 1
    /\ new.live.gen = tx.live.gen /\ new.live.slots = tx.live.slots /\ new.live.compactions = tx.live.compactions

(* startRun gives the placed inputs of a conversation at rest the run and the *)
(* task that will settle them.                                                *)
LEMMA StartRunKeeps ==
    ASSUME NEW tx \in TxRec, NEW inputs \in Seq(Nat), TxInv(tx, DOMAIN tx.inbox, Range(inputs)), ~Busy(tx),
           \A i, j \in DOMAIN inputs : inputs[i] = inputs[j] => i = j, Fresh(tx, Range(inputs))
    PROVE  LET new == StartRun(tx, inputs) IN
             /\ new \in TxRec /\ TxInv(new, DOMAIN new.inbox, {}) /\ RunStarted(tx, new)
             /\ Fresh(new, Range(new.live.run.inputs))
             /\ new.entries = tx.entries /\ new.subs = tx.subs /\ new.inbox = tx.inbox
             /\ new.live.run.inputs = inputs
<1> DEFINE mid == CreateTask(tx, NewTask)
           run == [task |-> Len(tx.tasks) + 1, inputs |-> inputs]
           live == [tx.live EXCEPT !.run = run]
           new == StartRun(tx, inputs)
<1>1. /\ mid \in TxRec
      /\ mid.entries = tx.entries /\ mid.subs = tx.subs /\ mid.inbox = tx.inbox /\ mid.live = tx.live
      /\ Len(mid.tasks) = Len(tx.tasks) + 1 /\ DOMAIN mid.tasks = 1 .. Len(tx.tasks) + 1
      /\ \A i \in 1 .. Len(tx.tasks) : mid.tasks[i] = tx.tasks[i]
      /\ mid.tasks[Len(tx.tasks) + 1] = NewTask
  BY NewTaskType, CreateTaskIs
<1>2. tx.live \in LiveRec /\ Len(tx.tasks) \in Nat /\ DOMAIN tx.tasks = 1 .. Len(tx.tasks)
  BY TxFields
<1>3. run \in RunRec /\ run.inputs = inputs /\ run.task = Len(tx.tasks) + 1
  BY <1>2 DEF RunRec
<1> HIDE DEF run, mid
<1>4. /\ live \in LiveRec /\ live.run = run
      /\ live.gen = tx.live.gen /\ live.slots = tx.live.slots /\ live.compactions = tx.live.compactions
  BY <1>2, <1>3 DEF LiveRec
<1>5. new = [mid EXCEPT !.live = live]
  <2>1. new = [mid EXCEPT !.live.run = run]
    BY DEF StartRun, mid, run
  <2> QED
    BY <1>1, <2>1 DEF TxRec
<1> HIDE DEF live, new
<1>6. /\ new \in TxRec /\ new.live = live
      /\ new.entries = mid.entries /\ new.subs = mid.subs /\ new.inbox = mid.inbox /\ new.tasks = mid.tasks
  <2>1. mid \in TxRec
    BY <1>1
  <2> QED
    BY <1>4, <1>5, <2>1 DEF TxRec
<1>7. new.live.run.inputs = inputs
  BY <1>3, <1>4, <1>6
<1>8. tx.live.run.inputs = <<>> 
  BY DEF Busy, NoRun
<1>9. Range(tx.live.run.inputs) = {}
  BY <1>8 DEF Range
<1>10. Owns(new, {})
  <2>1. Owns(tx, Range(inputs))
    BY DEF TxInv
  <2>2. /\ Range(inputs) \subseteq DOMAIN tx.subs
        /\ \A s \in DOMAIN tx.subs : tx.subs[s].status = "placed" <=> s \in Range(inputs)
    BY <1>9, <2>1 DEF Owns
  <2> QED
    BY <1>1, <1>6, <1>7, <2>2 DEF Owns
<1>11. TxInv(new, DOMAIN new.inbox, {})
  <2>1. new.entries = tx.entries /\ new.subs = tx.subs /\ new.inbox = tx.inbox
    BY <1>1, <1>6
  <2> QED
    BY <1>6, <1>10, <2>1, SameRecords
<1>12. Fresh(new, Range(new.live.run.inputs))
  BY <1>1, <1>6, <1>7 DEF Fresh
<1>13. RunStarted(tx, new)
  BY <1>1, <1>2, <1>3, <1>4, <1>6 DEF RunStarted
<1> QED
  BY <1>1, <1>6, <1>7, <1>11, <1>12, <1>13 DEF new

(* What admission leaves.                                                     *)
Admitted(tx, new) ==
    /\ new \in TxRec /\ TxInv(new, DOMAIN new.inbox, {}) /\ Forward(tx, new)
    /\ Fresh(new, Range(new.live.run.inputs))
    /\ \A i \in DOMAIN new.entries : i > Len(tx.entries) => Quiet(new.entries[i])
    /\ Busy(tx) => \A i \in DOMAIN new.entries : i > Len(tx.entries) => new.entries[i].kind = "display"
    /\ (new.live = tx.live /\ new.tasks = tx.tasks) \/ RunStarted(tx, new)

(* Entries that are no resets leave the inputs of a run after the newest      *)
(* reset.                                                                     *)
LEMMA FreshSame ==
    ASSUME NEW tx \in TxRec, NEW tx2 \in TxRec, NEW I, Fresh(tx, I), Forward(tx, tx2), I \subseteq DOMAIN tx.subs,
           \A s \in I : tx.subs[s].status = "placed",
           \A i \in DOMAIN tx2.entries : i > Len(tx.entries) => tx2.entries[i].kind # "reset"
    PROVE  Fresh(tx2, I)
<1> SUFFICES ASSUME NEW s \in I, NEW i \in DOMAIN tx2.entries, i >= tx2.subs[s].entry
             PROVE  tx2.entries[i].kind # "reset"
  BY DEF Fresh
<1>1. tx2.subs[s].entry = tx.subs[s].entry
  BY DEF Forward
<1>2. i \in Nat /\ Len(tx.entries) \in Nat /\ i \in 1 .. Len(tx2.entries) /\ DOMAIN tx.entries = 1 .. Len(tx.entries)
  BY TxFields
<1>3. CASE i > Len(tx.entries)
  BY <1>3
<1>4. CASE ~ (i > Len(tx.entries))
  <2>1. i \in DOMAIN tx.entries
    BY <1>2, <1>4
  <2>2. tx2.entries[i] = tx.entries[i]
    BY <2>1 DEF Forward, Continues
  <2> QED
    BY <1>1, <2>1, <2>2 DEF Fresh
<1> QED
  BY <1>3, <1>4

(* The inputs of the run are placed.                                          *)
LEMMA InputsPlaced ==
    ASSUME NEW tx \in TxRec, NEW W, NEW U, TxInv(tx, W, U)
    PROVE  /\ Range(tx.live.run.inputs) \subseteq DOMAIN tx.subs
           /\ \A s \in Range(tx.live.run.inputs) : tx.subs[s].status = "placed"
BY DEF TxInv, Owns

(* Admission into a conversation that stays as it is but for the submission.    *)
LEMMA AdmittedQuietly ==
    ASSUME NEW tx \in TxRec, TxInv(tx, DOMAIN tx.inbox, {}), Fresh(tx, Range(tx.live.run.inputs)),
           NEW new \in TxRec, TxInv(new, DOMAIN new.inbox, {}), Forward(tx, new),
           new.live = tx.live, new.tasks = tx.tasks,
           \A i \in DOMAIN new.entries : i > Len(tx.entries) =>
             /\ Quiet(new.entries[i])
             /\ Busy(tx) => new.entries[i].kind = "display"
    PROVE  Admitted(tx, new)
<1>1. Fresh(new, Range(tx.live.run.inputs))
  <2>1. CASE Busy(tx)
    <3>1. \A i \in DOMAIN new.entries : i > Len(tx.entries) => new.entries[i].kind # "reset"
      BY <2>1
    <3> QED
      BY <3>1, FreshSame, InputsPlaced
  <2>2. CASE ~Busy(tx)
    <3>1. Range(tx.live.run.inputs) = {}
      BY <2>2 DEF Busy, NoRun, Range
    <3> QED
      BY <3>1 DEF Fresh
  <2> QED
    BY <2>1, <2>2
<1> QED
  BY <1>1 DEF Admitted

(* A boundary, and the run of what it placed.                                 *)
LEMMA CrossedStarts ==
    ASSUME NEW tx \in TxRec, NEW at, Crossed(tx, at), ~Busy(tx)
    PROVE  Admitted(tx, StartRunOf(at))
<1> DEFINE new == StartRunOf(at)
<1>1. /\ at.tx \in TxRec /\ at.users \in Seq(Nat)
      /\ TxInv(at.tx, DOMAIN at.tx.inbox, Range(at.users))
      /\ \A i, j \in DOMAIN at.users : at.users[i] = at.users[j] => i = j
      /\ at.tx.live = tx.live /\ at.tx.tasks = tx.tasks
      /\ Forward(tx, at.tx)
      /\ \A i \in DOMAIN at.tx.entries : i > Len(tx.entries) => Added(tx, at.tx.entries[i])
      /\ Fresh(at.tx, Range(at.users))
  BY DEF Crossed
<1>2. ~Busy(at.tx)
  BY <1>1 DEF Busy
<1>3. CASE at.users = <<>>
  <2>1. new = at.tx
    BY <1>3 DEF StartRunOf
  <2>2. Range(at.users) = {} /\ Range(at.tx.live.run.inputs) = {}
    BY <1>2, <1>3 DEF Busy, NoRun, Range
  <2>3. Fresh(at.tx, Range(at.tx.live.run.inputs)) /\ TxInv(at.tx, DOMAIN at.tx.inbox, {})
    BY <1>1, <2>2 DEF Fresh
  <2> QED
    BY <1>1, <2>1, <2>3 DEF Admitted, Added
<1>4. CASE at.users # <<>>
  <2>1. new = StartRun(at.tx, at.users)
    BY <1>4 DEF StartRunOf
  <2>2. /\ new \in TxRec /\ TxInv(new, DOMAIN new.inbox, {}) /\ RunStarted(at.tx, new)
        /\ Fresh(new, Range(new.live.run.inputs))
        /\ new.entries = at.tx.entries /\ new.subs = at.tx.subs
    BY <1>1, <1>2, <2>1, StartRunKeeps
  <2> HIDE DEF new
  <2>3. RunStarted(tx, new)
    BY <1>1, <2>2 DEF RunStarted, Busy
  <2>4. Forward(tx, new)
    BY <1>1, <2>2 DEF Forward, Continues
  <2>5. \A i \in DOMAIN new.entries : i > Len(tx.entries) => Quiet(new.entries[i])
    BY <1>1, <2>2 DEF Added
  <2> QED
    BY <2>2, <2>3, <2>4, <2>5 DEF Admitted, new
<1> QED
  BY <1>3, <1>4

(* Admission keeps the records in agreement.                                  *)
LEMMA AdmitKeeps ==
    ASSUME NEW tx \in TxRec, TxInv(tx, DOMAIN tx.inbox, {}), Fresh(tx, Range(tx.live.run.inputs)),
           NEW req \in RequestNames, NEW draft, GoodDraft(tx, draft), NEW modes
    PROVE  Admitted(tx, AdmitSubmission(tx, req, draft, modes))
<1> DEFINE s == Len(tx.subs) + 1
           id == Len(tx.entries) + 1
           entry == [draft.entry EXCEPT !.by = s]
           direct == Direct(tx, req, draft)
           q == Enqueued(tx, req, draft)
           new == AdmitSubmission(tx, req, draft, modes)
<1>0. /\ draft.type \in {"input", "write"} /\ draft.entry.calls = {}
      /\ draft.entry.kind \notin {"assistant", "failed", "result"}
      /\ IsDisplayOnly(draft.entry) => draft.entry.head = 0
  <2>1. draft.entry \in EntryRec => draft.entry.head \in Nat
    BY DEF EntryRec
  <2> QED
    BY <2>1 DEF GoodDraft, IsDisplayOnly
<1>1. CASE ExistingSubmission(tx, req) \/ RejectsBusy(tx, draft)
  <2>1. new = tx
    BY <1>1 DEF AdmitSubmission
  <2>2. Forward(tx, tx)
    <3>1. Continues(tx, tx)
      BY TxFields DEF Continues
    <3> QED
      BY <3>1, ForwardSame
  <2>3. \A i \in DOMAIN tx.entries : ~(i > Len(tx.entries))
    BY TxFields
  <2> QED
    BY <2>1, <2>2, <2>3 DEF Admitted
<1>2. ASSUME ~ExistingSubmission(tx, req), draft.type = "write" => tx.inbox = <<>> \/ (IsDisplayOnly(draft.entry) /\ ~HasQueuedReset(tx)),
             Busy(tx) => IsDisplayOnly(draft.entry), draft.type = "write"
      PROVE  Admitted(tx, direct)
  <2>1. /\ direct \in TxRec /\ TxInv(direct, DOMAIN direct.inbox, {})
        /\ direct.inbox = tx.inbox /\ direct.live = tx.live /\ direct.tasks = tx.tasks
        /\ Forward(tx, direct)
        /\ \A i \in DOMAIN direct.entries : i > Len(tx.entries) =>
             direct.entries[i].kind = draft.entry.kind /\ direct.entries[i].calls = {}
    <3>1. /\ TxInv(tx, DOMAIN tx.inbox, {}) /\ ~ExistingSubmission(tx, req) /\ GoodDraft(tx, draft)
          /\ draft.type = "write" => tx.inbox = <<>> \/ (IsDisplayOnly(draft.entry) /\ ~HasQueuedReset(tx))
          /\ draft.type = "write"
      BY <1>2
    <3> QED
      BY ZenonT(60), <3>1, DirectKeeps
  <2> HIDE DEF direct
  <2>2. \A i \in DOMAIN direct.entries : i > Len(tx.entries) =>
          Quiet(direct.entries[i]) /\ (Busy(tx) => direct.entries[i].kind = "display")
    BY <1>0, <1>2, <2>1 DEF Quiet, IsDisplayOnly
  <2> QED
    BY <2>1, <2>2, AdmittedQuietly
<1>3. CASE ~ExistingSubmission(tx, req) /\ draft.type = "write" /\ IsDisplayOnly(draft.entry) /\ ~HasQueuedReset(tx)
  <2>1. ~(draft.type = "write" /\ IsStale(ActiveStart(tx), draft.entry))
    BY <1>0, <1>3 DEF IsStale
  <2>2. CreateSubmission(AppendEntry(tx, entry), req, draft.type, "done", id, "none") = direct
    BY <1>3, <2>1, LandedIs
  <2>3. ~RejectsBusy(tx, draft)
    BY <1>3 DEF RejectsBusy
  <2>4. new = direct
    BY <1>3, <2>2, <2>3 DEF AdmitSubmission
  <2> QED
    BY <1>2, <1>3, <2>4
<1>4. CASE /\ ~(ExistingSubmission(tx, req) \/ RejectsBusy(tx, draft))
           /\ ~(draft.type = "write" /\ IsDisplayOnly(draft.entry) /\ ~HasQueuedReset(tx))
  <2>1. /\ q \in TxRec /\ TxInv(q, DOMAIN q.inbox, {}) /\ Forward(tx, q)
        /\ q.entries = tx.entries /\ q.live = tx.live /\ q.tasks = tx.tasks
        /\ ActiveStart(q) = ActiveStart(tx)
    BY <1>4, EnqueuedIs
  <2>2. q = [CreateSubmission(tx, req, draft.type, "queued", 0, "none") EXCEPT !.inbox = Append(@, ItemOf(tx, draft))]
    BY DEF Enqueued
  <2>3. CASE Busy(tx)
    <3>1. new = q
      BY <1>4, <2>3, <2>2 DEF AdmitSubmission, ItemOf
    <3> HIDE DEF q
    <3>2. \A i \in DOMAIN q.entries : ~(i > Len(tx.entries))
      BY <2>1, TxFields
    <3> QED
      BY <2>1, <3>1, <3>2, AdmittedQuietly
  <2>4. CASE ~Busy(tx) /\ tx.inbox # <<>>
    <3> DEFINE at == ApplyBoundary(q, ActiveStart(tx), "final", modes)
    <3>1. new = StartRunOf(at)
      BY <1>4, <2>4, <2>2 DEF AdmitSubmission, ItemOf
    <3>2. Crossed(q, at)
      <4> HIDE DEF q
      <4> QED
        BY <2>1, BoundaryKeeps
    <3> HIDE DEF q, at
    <3>3. ~Busy(q)
      BY <2>1, <2>4 DEF Busy
    <3>4. Admitted(q, new)
      BY <2>1, <3>1, <3>2, <3>3, CrossedStarts
    <3>5. new \in TxRec /\ Forward(q, new)
      BY <3>4 DEF Admitted
    <3>6. Forward(tx, new)
      BY <2>1, <3>5, ForwardTwice
    <3>7. (new.live = tx.live /\ new.tasks = tx.tasks) \/ RunStarted(tx, new)
      BY <2>1, <3>4 DEF Admitted, RunStarted, Busy
    <3> HIDE DEF new
    <3> QED
      BY <2>1, <2>4, <3>4, <3>6, <3>7 DEF Admitted, new
  <2>5. CASE ~Busy(tx) /\ tx.inbox = <<>> /\ draft.type = "input"
    <3>1. ~(draft.type = "write" /\ IsStale(ActiveStart(tx), draft.entry))
      BY <2>5
    <3>2. CreateSubmission(AppendEntry(tx, entry), req, draft.type, "placed", id, "none") = direct
      BY <1>4, <2>5, <3>1, LandedIs
    <3>3. new = StartRun(direct, <<s>>)
      BY <1>4, <2>5, <3>2 DEF AdmitSubmission
    <3>4. /\ direct \in TxRec /\ TxInv(direct, DOMAIN direct.inbox, {s})
          /\ direct.inbox = tx.inbox /\ direct.live = tx.live /\ direct.tasks = tx.tasks
          /\ Forward(tx, direct)
          /\ \A i \in DOMAIN direct.entries : i > Len(tx.entries) =>
               direct.entries[i].kind = draft.entry.kind /\ direct.entries[i].calls = {}
          /\ direct.subs[s].entry = Len(tx.entries) + 1
      <4>1. /\ TxInv(tx, DOMAIN tx.inbox, {}) /\ ~ExistingSubmission(tx, req) /\ GoodDraft(tx, draft)
            /\ draft.type = "write" => tx.inbox = <<>> \/ (IsDisplayOnly(draft.entry) /\ ~HasQueuedReset(tx))
            /\ draft.type = "input" /\ draft.type # "write"
        BY <1>4, <2>5
      <4> QED
        BY ZenonT(60), <4>1, DirectKeeps
    <3> HIDE DEF direct
    <3>5. s \in Nat /\ <<s>> \in Seq(Nat) /\ Range(<<s>>) = {s} /\ \A i, j \in DOMAIN <<s>> : i = j
      <4>1. s \in Nat
        BY TxFields
      <4>2. DOMAIN <<s>> = {1}
        OBVIOUS
      <4>3. Range(<<s>>) = {s}
        BY <4>2 DEF Range
      <4> QED
        BY <4>1, <4>2, <4>3
    <3>6. Fresh(direct, {s})
      <4> SUFFICES ASSUME NEW i \in DOMAIN direct.entries, i >= direct.subs[s].entry
                   PROVE  direct.entries[i].kind # "reset"
        BY DEF Fresh
      <4>1. i \in Nat /\ Len(tx.entries) \in Nat
        BY <3>4, TxFields
      <4>2. i > Len(tx.entries)
        BY <3>4, <4>1
      <4>3. draft.entry.kind = "user"
        BY <2>5 DEF GoodDraft
      <4> QED
        BY <3>4, <4>2, <4>3
    <3>7. ~Busy(direct)
      BY <2>5, <3>4 DEF Busy
    <3> HIDE DEF s
    <3>8. /\ new \in TxRec /\ TxInv(new, DOMAIN new.inbox, {}) /\ RunStarted(direct, new)
          /\ Fresh(new, Range(new.live.run.inputs))
          /\ new.entries = direct.entries /\ new.subs = direct.subs
      <4> DEFINE inputs == <<s>>
      <4>1. inputs \in Seq(Nat) /\ Range(inputs) = {s} /\ \A i, j \in DOMAIN inputs : i = j
        BY <3>5
      <4>2. TxInv(direct, DOMAIN direct.inbox, Range(inputs)) /\ Fresh(direct, Range(inputs)) /\ new = StartRun(direct, inputs)
        BY <3>3, <3>4, <3>6, <4>1
      <4>3. direct \in TxRec
        BY <3>4
      <4> HIDE DEF inputs, new
      <4> QED
        BY <3>7, <4>1, <4>2, <4>3, StartRunKeeps
    <3> HIDE DEF new
    <3>9. RunStarted(tx, new)
      BY <3>4, <3>8 DEF RunStarted, Busy
    <3>10. Forward(tx, new)
      BY <3>4, <3>8 DEF Forward, Continues
    <3>11. \A i \in DOMAIN new.entries : i > Len(tx.entries) => Quiet(new.entries[i])
      BY <1>0, <3>4, <3>8 DEF Quiet
    <3> QED
      BY <2>5, <3>8, <3>9, <3>10, <3>11 DEF Admitted, new
  <2>6. CASE ~Busy(tx) /\ tx.inbox = <<>> /\ draft.type # "input"
    <3>1. draft.type = "write"
      BY <1>0, <2>6
    <3>2. new = direct
      <4>1. CASE IsStale(ActiveStart(tx), draft.entry)
        <5>1. CreateSubmission(tx, req, "write", "unanswered", 0, "stale") = direct
          BY <1>4, <3>1, <4>1, StaleWriteIs
        <5> QED
          BY <1>4, <2>6, <3>1, <4>1, <5>1 DEF AdmitSubmission
      <4>2. CASE ~IsStale(ActiveStart(tx), draft.entry)
        <5>1. CreateSubmission(AppendEntry(tx, entry), req, draft.type, "done", id, "none") = direct
          BY <1>4, <3>1, <4>2, LandedIs
        <5> QED
          BY <1>4, <2>6, <3>1, <4>2, <5>1 DEF AdmitSubmission
      <4> QED
        BY <4>1, <4>2
    <3> QED
      BY <1>2, <1>4, <2>6, <3>1, <3>2
  <2> QED
    BY <2>3, <2>4, <2>5, <2>6
<1> QED
  BY <1>1, <1>3, <1>4

-----------------------------------------------------------------------------
(* What one task may do to the records of the others.                      *)

(* What a step by task `t` (0: nobody's) does to the records.                  *)
Recorded(tx, tx2) ==
    /\ tx2 \in TxRec /\ TxInv(tx2, DOMAIN tx2.inbox, {}) /\ Forward(tx, tx2)
    /\ Fresh(tx2, Range(tx2.live.run.inputs))

Alike(a, b) ==
    /\ b.kind = a.kind /\ b.owner = a.owner /\ b.status = a.status /\ b.phase = a.phase /\ b.on = a.on
    /\ b.compacted = a.compacted /\ b.cutoff = a.cutoff /\ b.pending = a.pending /\ b.ref = a.ref
    /\ b.call = a.call /\ b.cut = a.cut /\ b.cover = a.cover /\ b.outcome = a.outcome
    /\ a.marked => b.marked

Created(tx2, c, t) ==
    LET task == tx2.tasks[c] IN
    /\ task.status = "live" /\ task.outcome = "none" /\ task.on = {}
    /\ task.kind = "gen" => task.phase = "prepare" /\ task.owner = 0
    /\ task.kind = "comp" =>
         /\ task.phase = "select"
         /\ task.owner # 0 => task.owner = t /\ Hosts(tx2, t, c, "prepare") /\ tx2.tasks[t].compacted = c
    /\ task.kind = "tool" => task.owner = t /\ Hosts(tx2, t, c, "tools") /\ task.ref = tx2.tasks[t].ref

OwnsDone(tx, t) == \A c \in DOMAIN tx.tasks : tx.tasks[c].owner = t => tx.tasks[c].status = "done"

Acts(tx, tx2, t) ==
    LET task == tx.tasks[t] new == tx2.tasks[t] IN
    t \in DOMAIN tx.tasks =>
      /\ task.status = "live" /\ new.kind = task.kind
      /\ task.kind = "gen" => OwnsDone(tx, t)
      /\ new.on \subseteq DOMAIN tx2.tasks
      /\ new.status = "live" => new.owner = task.owner /\ new.outcome = "none" /\ (task.kind = "tool" => new.ref = task.ref)

Stirs(tx, t) ==
    t \in LiveOf(tx, "gen") \cup LiveOf(tx, "tool") \/ (t \in LiveOf(tx, "comp") /\ tx.tasks[t].owner # 0)

Calm(tx, tx2, t) ==
    /\ Busy(tx) /\ ~Stirs(tx, t) => \A i \in DOMAIN tx2.entries : i > Len(tx.entries) => tx2.entries[i].kind = "display"
    /\ Busy(tx) /\ t \notin LiveOf(tx, "gen") => tx2.live.run = tx.live.run

Moves(tx, tx2, t) ==
    /\ Recorded(tx, tx2) /\ Calm(tx, tx2, t) /\ Acts(tx, tx2, t)
    /\ Len(tx.tasks) <= Len(tx2.tasks)
    /\ \A c \in DOMAIN tx.tasks : c # t => Alike(tx.tasks[c], tx2.tasks[c])
    /\ \A c \in DOMAIN tx2.tasks : c > Len(tx.tasks) => Created(tx2, c, t)
    /\ t \in 0 .. Len(tx.tasks)
    /\ RunAgrees(tx2) /\ ListAgrees(tx2)

(* The types of the fields of a task.                                         *)
LEMMA TaskFields ==
    ASSUME NEW tx \in TxRec
    PROVE  /\ Len(tx.tasks) \in Nat /\ DOMAIN tx.tasks = 1 .. Len(tx.tasks)
           /\ \A t \in DOMAIN tx.tasks :
                /\ t \in Nat /\ tx.tasks[t] \in TaskRec
                /\ tx.tasks[t].status \in {"live", "done"} /\ tx.tasks[t].kind \in {"gen", "tool", "comp"}
                /\ tx.tasks[t].owner \in Nat /\ tx.tasks[t].cutoff \in Nat /\ tx.tasks[t].ref \in Nat
                /\ tx.tasks[t].cut \in Nat /\ tx.tasks[t].cover \in SUBSET Nat
                /\ tx.tasks[t].pending \in Seq(Nat) /\ tx.tasks[t].marked \in BOOLEAN
<1>1. Len(tx.tasks) \in Nat /\ DOMAIN tx.tasks = 1 .. Len(tx.tasks) /\ \A t \in 1 .. Len(tx.tasks) : tx.tasks[t] \in TaskRec
  BY TxFields
<1> SUFFICES ASSUME NEW t \in DOMAIN tx.tasks
             PROVE  /\ t \in Nat /\ tx.tasks[t] \in TaskRec
                    /\ tx.tasks[t].status \in {"live", "done"} /\ tx.tasks[t].kind \in {"gen", "tool", "comp"}
                    /\ tx.tasks[t].owner \in Nat /\ tx.tasks[t].cutoff \in Nat /\ tx.tasks[t].ref \in Nat
                    /\ tx.tasks[t].cut \in Nat /\ tx.tasks[t].cover \in SUBSET Nat
                    /\ tx.tasks[t].pending \in Seq(Nat) /\ tx.tasks[t].marked \in BOOLEAN
  BY <1>1
<1>2. t \in Nat /\ tx.tasks[t] \in TaskRec
  BY <1>1
<1>3. \A task \in TaskRec :
        /\ task.status \in {"live", "done"} /\ task.kind \in {"gen", "tool", "comp"}
        /\ task.owner \in Nat /\ task.cutoff \in Nat /\ task.ref \in Nat
        /\ task.cut \in Nat /\ task.cover \in SUBSET Nat
        /\ task.pending \in Seq(Nat) /\ task.marked \in BOOLEAN
  BY DEF TaskRec
<1> QED
  BY <1>2, <1>3

(* Tasks a generation has waited for have ended before it acts.               *)
LEMMA WaitedFor ==
    ASSUME NEW tx \in TxRec, TasksAgree(tx), NEW t \in LiveOf(tx, "gen"),
           \A c \in tx.tasks[t].on : tx.tasks[c].status = "done"
    PROVE  OwnsDone(tx, t)
<1> SUFFICES ASSUME NEW c \in DOMAIN tx.tasks, tx.tasks[c].owner = t, tx.tasks[c].status = "live"
             PROVE  FALSE
  BY TaskFields DEF OwnsDone
<1>1. t \in Nat /\ t # 0
  BY TaskFields DEF LiveOf
<1>2. TaskFits(tx, c) /\ tx.tasks[c].kind \in {"gen", "tool", "comp"}
  BY TaskFields DEF TasksAgree
<1>3. c \in tx.tasks[t].on
  BY <1>1, <1>2 DEF TaskFits, Hosts
<1> QED
  BY <1>3

(* The run has the only live generation.                                      *)
LEMMA OneGen ==
    ASSUME NEW tx \in TxRec, TasksAgree(tx), NEW t \in LiveOf(tx, "gen")
    PROVE  Busy(tx) /\ tx.live.run.task = t /\ \A g \in LiveOf(tx, "gen") : g = t
BY DEF TasksAgree, RunAgrees

(* Each task still fits its owner.                                            *)
LEMMA TasksKeep ==
    ASSUME NEW tx \in TxRec, NEW tx2, TasksAgree(tx), NEW t, Moves(tx, tx2, t)
    PROVE  TasksAgree(tx2)
<1>1. tx2 \in TxRec /\ RunAgrees(tx2) /\ ListAgrees(tx2)
  BY DEF Moves, Recorded
<1>2. /\ Len(tx.tasks) \in Nat /\ DOMAIN tx.tasks = 1 .. Len(tx.tasks)
      /\ Len(tx2.tasks) \in Nat /\ DOMAIN tx2.tasks = 1 .. Len(tx2.tasks)
  BY <1>1, TxFields
<1>3. DOMAIN tx.tasks \subseteq DOMAIN tx2.tasks /\ Len(tx.tasks) <= Len(tx2.tasks)
  BY <1>2 DEF Moves
<1> SUFFICES ASSUME NEW c \in DOMAIN tx2.tasks
             PROVE  TaskFits(tx2, c)
  BY <1>1 DEF TasksAgree
<1>h. ASSUME NEW g, NEW phase, c \in DOMAIN tx.tasks, tx.tasks[c].status = "live", tx.tasks[c].owner = g, Hosts(tx, g, c, phase)
      PROVE  Hosts(tx2, g, c, phase) /\ tx2.tasks[g].ref = tx.tasks[g].ref /\ tx2.tasks[g].compacted = tx.tasks[g].compacted
  <2>1. g \in DOMAIN tx.tasks /\ tx.tasks[g].kind = "gen" /\ tx.tasks[g].status = "live"
    BY <1>h DEF Hosts, LiveOf
  <2>2. g # t
    <3> SUFFICES ASSUME g = t
                 PROVE  FALSE
      OBVIOUS
    <3>1. OwnsDone(tx, t)
      BY <2>1 DEF Moves, Acts
    <3> QED
      BY <1>h, <3>1 DEF OwnsDone
  <2>3. Alike(tx.tasks[g], tx2.tasks[g])
    BY <2>1, <2>2 DEF Moves
  <2> QED
    BY <1>h, <1>3, <2>1, <2>3 DEF Hosts, LiveOf, Alike
<1>4. CASE c \notin DOMAIN tx.tasks
  <2>1. Created(tx2, c, t)
    BY <1>2, <1>4 DEF Moves
  <2> QED
    BY <2>1 DEF Created, TaskFits
<1>5. CASE c \in DOMAIN tx.tasks /\ c # t
  <2>1. TaskFits(tx, c) /\ Alike(tx.tasks[c], tx2.tasks[c])
    BY <1>5 DEF TasksAgree, Moves
  <2>2. tx2.tasks[c].on \subseteq DOMAIN tx2.tasks
    BY <1>3, <2>1 DEF TaskFits, Alike
  <2> QED
    BY <1>5, <1>h, <2>1, <2>2 DEF TaskFits, Alike
<1>6. CASE c \in DOMAIN tx.tasks /\ c = t
  <2>1. TaskFits(tx, c) /\ Acts(tx, tx2, t)
    BY <1>6 DEF TasksAgree, Moves
  <2>2. tx2.tasks[c].on \subseteq DOMAIN tx2.tasks /\ tx.tasks[c].status = "live" /\ tx2.tasks[c].kind = tx.tasks[c].kind
    BY <1>6, <2>1 DEF Acts
  <2>3. tx2.tasks[c].status = "live" => /\ tx2.tasks[c].owner = tx.tasks[c].owner /\ tx2.tasks[c].outcome = "none"
                                        /\ (tx.tasks[c].kind = "tool" => tx2.tasks[c].ref = tx.tasks[c].ref)
    BY <1>6, <2>1 DEF Acts
  <2> QED
    BY <1>6, <1>h, <2>1, <2>2, <2>3 DEF TaskFits
<1> QED
  BY <1>4, <1>5, <1>6

(* Entries that only display something leave the context as it is.             *)
LEMMA DisplayOnly ==
    ASSUME NEW tx \in TxRec, NEW tx2 \in TxRec, Transcript(tx), Transcript(tx2), Continues(tx, tx2),
           \A i \in DOMAIN tx2.entries : i > Len(tx.entries) => tx2.entries[i].kind = "display"
    PROVE  ModelContext(tx2) = ModelContext(tx) /\ ActiveStart(tx2) = ActiveStart(tx)
<1>1. /\ DOMAIN tx.entries = 1 .. Len(tx.entries) /\ Len(tx.entries) \in Nat
      /\ DOMAIN tx2.entries = 1 .. Len(tx2.entries) /\ Len(tx2.entries) \in Nat
  BY TxFields
<1>2. Extends(tx, tx2)
  <2> SUFFICES ASSUME NEW i \in DOMAIN tx2.entries, i > Len(tx.entries)
               PROVE  PlainEntry(tx2.entries[i])
    BY DEF Extends
  <2>1. tx2.entries[i].kind = "display" /\ tx2.entries[i].kind \notin HeadKinds /\ tx2.entries[i].head \in Nat
    BY EntryFields DEF HeadKinds
  <2>2. tx2.entries[i].cover = {} /\ ~(tx2.entries[i].head > 0)
    BY <2>1 DEF Transcript
  <2> QED
    BY <2>1, <2>2 DEF PlainEntry
<1>3. /\ ActiveStart(tx2) = ActiveStart(tx)
      /\ \A i \in DOMAIN tx.entries : i \in ActiveSet(tx2) <=> i \in ActiveSet(tx)
  BY <1>2, PlainHeads
<1>4. Range(ActiveEntries(tx)) = ActiveSet(tx) /\ Range(ActiveEntries(tx2)) = ActiveSet(tx2)
  BY ActiveIs
<1>5. ActiveSet(tx) \subseteq DOMAIN tx.entries /\ ActiveSet(tx2) \subseteq DOMAIN tx2.entries
  BY DEF ActiveSet
<1>6. DOMAIN tx.entries \subseteq DOMAIN tx2.entries /\ \A i \in DOMAIN tx.entries : tx2.entries[i] = tx.entries[i]
  BY <1>1 DEF Continues
<1>7. \A i : i \in ModelContext(tx2) <=> i \in ModelContext(tx)
  <2> TAKE i
  <2>1. CASE i \in DOMAIN tx.entries
    BY <1>3, <1>4, <1>6, <2>1 DEF ModelContext
  <2>2. CASE i \notin DOMAIN tx.entries
    <3>1. i \notin ModelContext(tx)
      BY <1>4, <1>5, <2>2 DEF ModelContext
    <3>2. i \in DOMAIN tx2.entries => tx2.entries[i].kind = "display"
      BY <1>1, <2>2
    <3> QED
      BY <1>4, <1>5, <3>1, <3>2 DEF ModelContext, Contributes
  <2> QED
    BY <2>1, <2>2
<1> QED
  BY <1>3, <1>7

(* While a generation prepares, nobody else writes to its context.            *)
LEMMA NobodyStirs ==
    ASSUME NEW tx \in TxRec, TasksAgree(tx), NEW g \in LiveOf(tx, "gen"), tx.tasks[g].phase = "prepare",
           NEW t, t # g, \A c \in tx.tasks[g].on : tx.tasks[c].status = "live" => c # t
    PROVE  Busy(tx) /\ ~Stirs(tx, t)
<1>1. Busy(tx) /\ \A h \in LiveOf(tx, "gen") : h = g
  BY OneGen
<1>2. t \notin LiveOf(tx, "gen")
  BY <1>1
<1>3. ASSUME t \in LiveOf(tx, "tool")
      PROVE  FALSE
  <2>1. TaskFits(tx, t) /\ tx.tasks[t].status = "live" /\ tx.tasks[t].kind = "tool"
    BY <1>3 DEF TasksAgree, LiveOf
  <2>2. Hosts(tx, tx.tasks[t].owner, t, "tools")
    BY <2>1 DEF TaskFits
  <2> QED
    BY <1>1, <2>2 DEF Hosts
<1>4. ASSUME t \in LiveOf(tx, "comp"), tx.tasks[t].owner # 0
      PROVE  FALSE
  <2>1. TaskFits(tx, t) /\ tx.tasks[t].status = "live" /\ tx.tasks[t].kind = "comp"
    BY <1>4 DEF TasksAgree, LiveOf
  <2>2. Hosts(tx, tx.tasks[t].owner, t, "prepare")
    BY <1>4, <2>1 DEF TaskFits
  <2>3. t \in tx.tasks[g].on
    BY <1>1, <2>2 DEF Hosts
  <2> QED
    BY <2>1, <2>3
<1> QED
  BY <1>1, <1>2, <1>3, <1>4 DEF Stirs

(* A summary under way can still be placed after a step of another task:      *)
(* nobody else moves the start of the context under a generation that waits   *)
(* for it.                                                                    *)
LEMMA StillPlaceable ==
    ASSUME NEW tx \in TxRec, NEW tx2, TxInv(tx, DOMAIN tx.inbox, {}), TasksAgree(tx), NEW t, Moves(tx, tx2, t),
           NEW c \in LiveOf(tx, "comp"), c # t, NEW cut, NEW cover, Placeable(tx, c, cut, cover)
    PROVE  Placeable(tx2, c, cut, cover)
<1>1. tx2 \in TxRec /\ Transcript(tx2) /\ Continues(tx, tx2) /\ Transcript(tx)
  BY DEF Moves, Recorded, Forward, TxInv
<1>2. cut \in Nat /\ cover \in SUBSET Nat /\ Stands(tx, cut, cover)
  BY TxFields DEF Placeable, Stands
<1>3. Stands(tx2, cut, cover)
  BY <1>1, <1>2, StandsStable
<1>4. c \in DOMAIN tx.tasks /\ tx.tasks[c].kind = "comp" /\ tx.tasks[c].status = "live"
  BY DEF LiveOf
<1>5. tx2.tasks[c].owner = tx.tasks[c].owner
  BY <1>4 DEF Moves, Alike
<1>6. ASSUME tx.tasks[c].owner # 0
      PROVE  ActiveStart(tx2) = ActiveStart(tx)
  <2> DEFINE g == tx.tasks[c].owner
  <2>1. TaskFits(tx, c)
    BY <1>4 DEF TasksAgree
  <2>2. Hosts(tx, g, c, "prepare") /\ tx.tasks[g].compacted = c
    BY <1>4, <1>6, <2>1 DEF TaskFits
  <2>3. g \in LiveOf(tx, "gen") /\ tx.tasks[g].phase = "prepare" /\ c \in tx.tasks[g].on
    BY <2>2 DEF Hosts
  <2>4. t # g
    <3> SUFFICES ASSUME t = g
                 PROVE  FALSE
      OBVIOUS
    <3>1. OwnsDone(tx, t)
      BY <2>3 DEF Moves, Acts, LiveOf
    <3> QED
      BY <1>4, <3>1 DEF OwnsDone
  <2>5. ASSUME t \in tx.tasks[g].on, tx.tasks[t].status = "live"
        PROVE  ~Stirs(tx, t)
    <3>1. t \in DOMAIN tx.tasks /\ TaskFits(tx, t)
      <4>1. TaskFits(tx, g)
        BY <2>3 DEF LiveOf, TasksAgree
      <4> QED
        BY <2>5, <4>1 DEF TaskFits, TasksAgree
    <3>2. \A h \in LiveOf(tx, "gen") : h = g
      BY <2>3, OneGen
    <3>3. ASSUME t \in LiveOf(tx, "tool")
          PROVE  FALSE
      <4>1. tx.tasks[t].status = "live" /\ tx.tasks[t].kind = "tool"
        BY <3>3 DEF LiveOf
      <4>2. Hosts(tx, tx.tasks[t].owner, t, "tools")
        BY <3>1, <4>1 DEF TaskFits
      <4> QED
        BY <2>3, <3>2, <4>2 DEF Hosts
    <3>4. ASSUME t \in LiveOf(tx, "comp"), tx.tasks[t].owner # 0
          PROVE  FALSE
      <4>1. tx.tasks[t].status = "live" /\ tx.tasks[t].kind = "comp"
        BY <3>4 DEF LiveOf
      <4>2. Hosts(tx, tx.tasks[t].owner, t, "prepare") /\ tx.tasks[tx.tasks[t].owner].compacted = t
        BY <3>1, <3>4, <4>1 DEF TaskFits
      <4>3. tx.tasks[t].owner = g
        BY <3>2, <4>2 DEF Hosts
      <4> QED
        BY <2>2, <4>2, <4>3
    <3> QED
      BY <2>4, <3>2, <3>3, <3>4 DEF Stirs
  <2>6. ~Stirs(tx, t) /\ Busy(tx)
    <3>1. CASE \E x \in tx.tasks[g].on : x = t /\ tx.tasks[x].status = "live"
      BY <2>3, <2>5, <3>1, OneGen
    <3>2. CASE ~ \E x \in tx.tasks[g].on : x = t /\ tx.tasks[x].status = "live"
      <4> HIDE DEF g
      <4> QED
        BY <2>3, <2>4, <3>2, NobodyStirs
    <3> QED
      BY <3>1, <3>2
  <2>7. \A i \in DOMAIN tx2.entries : i > Len(tx.entries) => tx2.entries[i].kind = "display"
    BY <2>6 DEF Moves, Calm
  <2> QED
    BY <1>1, <2>7, DisplayOnly
<1> QED
  BY <1>2, <1>3, <1>5, <1>6 DEF Placeable

(* The summaries of the other tasks can still be placed.                      *)
LEMMA SummariesKeep ==
    ASSUME NEW tx \in TxRec, NEW tx2, TxInv(tx, DOMAIN tx.inbox, {}), TasksAgree(tx), NEW t, Moves(tx, tx2, t),
           \A c \in DOMAIN tx.tasks : SummaryFits(tx, c), NEW c \in DOMAIN tx2.tasks, c # t
    PROVE  SummaryFits(tx2, c)
<1> SUFFICES ASSUME c \in LiveOf(tx2, "comp"), tx2.tasks[c].phase \in {"summarize", "retry"}
             PROVE  Placeable(tx2, c, tx2.tasks[c].cut, tx2.tasks[c].cover)
  BY DEF SummaryFits
<1>1. c \in DOMAIN tx.tasks
  <2> SUFFICES ASSUME c \notin DOMAIN tx.tasks
               PROVE  FALSE
    OBVIOUS
  <2>1. tx2 \in TxRec
    BY DEF Moves, Recorded
  <2>2. c > Len(tx.tasks)
    BY <2>1, TxFields
  <2>3. Created(tx2, c, t)
    BY <2>2 DEF Moves
  <2> QED
    BY <2>3 DEF Created, LiveOf
<1>2. Alike(tx.tasks[c], tx2.tasks[c])
  BY <1>1 DEF Moves
<1>3. c \in LiveOf(tx, "comp") /\ tx.tasks[c].phase \in {"summarize", "retry"}
  BY <1>1, <1>2 DEF LiveOf, Alike
<1>4. Placeable(tx, c, tx.tasks[c].cut, tx.tasks[c].cover)
  BY <1>1, <1>3 DEF SummaryFits
<1>5. Placeable(tx2, c, tx.tasks[c].cut, tx.tasks[c].cover)
  BY <1>3, <1>4, StillPlaceable
<1> QED
  BY <1>2, <1>5 DEF Alike

(* A request of a generation that did not move saw what the run still holds.   *)
LEMMA AskedKeeps ==
    ASSUME NEW tx \in TxRec, NEW tx2, TxInv(tx, DOMAIN tx.inbox, {}), TasksAgree(tx), NEW t, Moves(tx, tx2, t),
           \A c \in DOMAIN tx.tasks : AskedFits(tx, c), NEW c \in DOMAIN tx2.tasks, c # t
    PROVE  AskedFits(tx2, c)
<1> SUFFICES ASSUME c \in LiveOf(tx2, "gen"), tx2.tasks[c].phase # "prepare"
             PROVE  AskedFits(tx2, c)
  BY DEF AskedFits
<1>0. tx2 \in TxRec /\ Forward(tx, tx2)
  BY DEF Moves, Recorded
<1>1. c \in DOMAIN tx.tasks
  <2> SUFFICES ASSUME c \notin DOMAIN tx.tasks
               PROVE  FALSE
    OBVIOUS
  <2>1. c > Len(tx.tasks)
    BY <1>0, TxFields
  <2>2. Created(tx2, c, t)
    BY <2>1 DEF Moves
  <2> QED
    BY <2>2 DEF Created, LiveOf
<1>2. Alike(tx.tasks[c], tx2.tasks[c])
  BY <1>1 DEF Moves
<1>3. c \in LiveOf(tx, "gen") /\ AskedFits(tx, c)
  BY <1>1, <1>2 DEF LiveOf, Alike
<1>4. Busy(tx) /\ t \notin LiveOf(tx, "gen")
  BY <1>3, OneGen
<1>5. tx2.live.run = tx.live.run
  BY <1>4 DEF Moves, Calm
<1>6. \A newest : Saw(tx, newest) => Saw(tx2, newest)
  <2> SUFFICES ASSUME NEW newest, Saw(tx, newest), NEW s \in Range(tx.live.run.inputs)
               PROVE  tx2.subs[s].entry <= newest
    BY <1>5 DEF Saw
  <2>1. s \in DOMAIN tx.subs /\ tx.subs[s].status = "placed"
    BY InputsPlaced
  <2> QED
    BY <1>0, <2>1 DEF Saw, Forward
<1>7. ASSUME NEW i \in DOMAIN tx.entries
      PROVE  i \in DOMAIN tx2.entries /\ tx2.entries[i] = tx.entries[i]
  BY <1>0, <1>7, TxFields DEF Forward, Continues
<1> QED
  BY <1>2, <1>3, <1>6, <1>7 DEF AskedFits, Alike, LiveOf

(* What the handlers of the other tasks hold still fits.                       *)
LEMMA LocalsKeep ==
    ASSUME NEW tx \in TxRec, NEW tx2, TxInv(tx, DOMAIN tx.inbox, {}), TasksAgree(tx), NEW t, Moves(tx, tx2, t),
           NEW l, LocalFits(tx, l), l.task # t, tx2.tasks[l.task].status = "live", ~tx2.tasks[l.task].marked
    PROVE  LocalFits(tx2, l)
<1> DEFINE c == l.task
<1>1. /\ c \in DOMAIN tx.tasks /\ tx.tasks[c].status = "live"
      /\ tx2 \in TxRec /\ Transcript(tx2) /\ Continues(tx, tx2) /\ Transcript(tx)
  BY DEF LocalFits, Moves, Recorded, Forward, TxInv
<1>2. Alike(tx.tasks[c], tx2.tasks[c])
  BY <1>1 DEF Moves
<1>3. c \in DOMAIN tx2.tasks
  <2>1. Len(tx.tasks) <= Len(tx2.tasks)
    BY DEF Moves
  <2> QED
    BY <1>1, <2>1, TxFields
<1>4. l.step \in {"prepared", "streaming", "executing", "cut"}
  BY DEF LocalFits
<1>5. CASE l.step = "prepared"
  <2>1. /\ tx.tasks[c].kind = "gen" /\ tx.tasks[c].phase = "prepare" /\ \A x \in tx.tasks[c].on : tx.tasks[x].status = "done"
        /\ l.view = ModelContext(tx)
    BY <1>5 DEF LocalFits
  <2>2. c \in LiveOf(tx, "gen") /\ TaskFits(tx, c)
    BY <1>1, <2>1 DEF LiveOf, TasksAgree
  <2>3. Busy(tx) /\ ~Stirs(tx, t)
    <3> HIDE DEF c
    <3> QED
      BY <2>1, <2>2, NobodyStirs DEF c
  <2>4. \A i \in DOMAIN tx2.entries : i > Len(tx.entries) => tx2.entries[i].kind = "display"
    BY <2>3 DEF Moves, Calm
  <2>5. ModelContext(tx2) = ModelContext(tx)
    BY <1>1, <2>4, DisplayOnly
  <2>6. ASSUME NEW x \in tx.tasks[c].on
        PROVE  tx2.tasks[x].status = "done"
    <3>1. x \in DOMAIN tx.tasks /\ tx.tasks[x].status = "done"
      BY <2>1, <2>2, <2>6 DEF TaskFits
    <3>2. x # t
      BY <3>1 DEF Moves, Acts
    <3> QED
      BY <3>1, <3>2 DEF Moves, Alike
  <2> QED
    BY <1>2, <1>3, <1>5, <2>1, <2>5, <2>6 DEF LocalFits, Alike
<1>6. CASE l.step = "cut"
  <2>1. tx.tasks[c].kind = "comp" /\ tx.tasks[c].phase = "select" /\ Placeable(tx, c, l.cut, l.cover)
    BY <1>6 DEF LocalFits
  <2>2. Placeable(tx2, c, l.cut, l.cover)
    <3>1. c \in LiveOf(tx, "comp")
      BY <1>1, <2>1 DEF LiveOf
    <3> HIDE DEF c
    <3> QED
      BY <2>1, <3>1, StillPlaceable DEF c
  <2> QED
    BY <1>2, <1>3, <1>6, <2>1, <2>2 DEF LocalFits, Alike
<1>7. CASE l.step \in {"streaming", "executing"}
  BY <1>2, <1>3, <1>7 DEF LocalFits, Alike
<1> QED
  BY <1>4, <1>5, <1>6, <1>7

-----------------------------------------------------------------------------
(* Calls and their results.                                                *)

InTools(tx, g) == g \in LiveOf(tx, "gen") /\ tx.tasks[g].phase = "tools"

(* Results of calls stay, and what threw has thrown.                          *)
LEMMA ResultsGrow ==
    ASSUME NEW tx \in TxRec, NEW tx2, NEW t, Moves(tx, tx2, t), NEW answer, NEW call
    PROVE  /\ HasResult(tx, answer, call) => HasResult(tx2, answer, call)
           /\ Gave(tx, answer, call) => Gave(tx2, answer, call)
           /\ HasResult(tx2, answer, call) =>
                \/ HasResult(tx, answer, call)
                \/ \E i \in DOMAIN tx2.entries : i > Len(tx.entries) /\ IsResult(tx2, i, answer, call)
<1>1. /\ tx2 \in TxRec /\ Len(tx.entries) <= Len(tx2.entries)
      /\ \A i \in DOMAIN tx.entries : tx2.entries[i] = tx.entries[i]
  BY DEF Moves, Recorded, Forward, Continues
<1>2. /\ DOMAIN tx.entries = 1 .. Len(tx.entries) /\ Len(tx.entries) \in Nat
      /\ DOMAIN tx2.entries = 1 .. Len(tx2.entries) /\ Len(tx2.entries) \in Nat
  BY <1>1, TxFields
<1>3. \A i \in DOMAIN tx.entries : i \in DOMAIN tx2.entries /\ (IsResult(tx2, i, answer, call) <=> IsResult(tx, i, answer, call))
  BY <1>1, <1>2 DEF IsResult
<1>4. \A i \in DOMAIN tx2.entries : i \notin DOMAIN tx.entries => i > Len(tx.entries)
  BY <1>2
<1>5. ASSUME NEW c \in DOMAIN tx.tasks, tx.tasks[c].status = "done"
      PROVE  c \in DOMAIN tx2.tasks /\ Alike(tx.tasks[c], tx2.tasks[c])
  <2>1. c # t
    BY <1>5 DEF Moves, Acts
  <2>2. Len(tx.tasks) <= Len(tx2.tasks)
    BY DEF Moves
  <2>3. c \in DOMAIN tx2.tasks
    BY <1>1, <1>5, <2>2, TxFields
  <2> QED
    BY <1>5, <2>1, <2>3 DEF Moves
<1>6. Gave(tx, answer, call) => Gave(tx2, answer, call)
  BY <1>5 DEF Gave, Alike
<1> QED
  BY <1>3, <1>4, <1>6 DEF HasResult

(* The calls under way are the same ones, and no call is new or newly answered. *)
SameHands(tx, tx2) ==
    /\ LiveOf(tx2, "tool") = LiveOf(tx, "tool")
    /\ \A c \in LiveOf(tx, "tool") : tx2.tasks[c].ref = tx.tasks[c].ref /\ tx2.tasks[c].call = tx.tasks[c].call
    /\ \A g : InTools(tx2, g) <=> InTools(tx, g)
    /\ \A g : InTools(tx, g) => tx2.tasks[g].ref = tx.tasks[g].ref /\ tx2.tasks[g].pending = tx.tasks[g].pending
    /\ \A i \in DOMAIN tx2.entries : i > Len(tx.entries) => tx2.entries[i].kind # "result" /\ tx2.entries[i].calls = {}

(* A step outside of a tool round leaves the calls in the hands they are in.  *)
LEMMA HandsSame ==
    ASSUME NEW tx \in TxRec, NEW tx2, NEW t, Moves(tx, tx2, t),
           t \in LiveOf(tx, "tool") => tx2.tasks[t].status = "live" /\ tx2.tasks[t].call = tx.tasks[t].call,
           t \in LiveOf(tx, "gen") => tx.tasks[t].phase # "tools" /\ (tx2.tasks[t].status = "live" => tx2.tasks[t].phase # "tools"),
           \A c \in DOMAIN tx2.tasks : c > Len(tx.tasks) => tx2.tasks[c].kind # "tool",
           \A i \in DOMAIN tx2.entries : i > Len(tx.entries) => tx2.entries[i].kind # "result" /\ tx2.entries[i].calls = {}
    PROVE  SameHands(tx, tx2)
<1>1. tx2 \in TxRec /\ Len(tx.tasks) <= Len(tx2.tasks)
  BY DEF Moves, Recorded
<1>2. DOMAIN tx.tasks \subseteq DOMAIN tx2.tasks /\ \A c \in DOMAIN tx2.tasks : c \notin DOMAIN tx.tasks => c > Len(tx.tasks)
  BY <1>1, TxFields
<1>3. \A c \in DOMAIN tx.tasks : c # t => Alike(tx.tasks[c], tx2.tasks[c])
  BY DEF Moves
<1>4. \A c \in DOMAIN tx2.tasks : c > Len(tx.tasks) => Created(tx2, c, t)
  BY DEF Moves
<1>5. t \in DOMAIN tx.tasks => tx.tasks[t].status = "live" /\ tx2.tasks[t].kind = tx.tasks[t].kind
                               /\ (tx.tasks[t].kind = "tool" /\ tx2.tasks[t].status = "live" => tx2.tasks[t].ref = tx.tasks[t].ref)
  BY DEF Moves, Acts
<1>6. ASSUME NEW c
      PROVE  c \in LiveOf(tx2, "tool") <=> c \in LiveOf(tx, "tool")
  <2>1. CASE c \in DOMAIN tx.tasks
    BY <1>2, <1>3, <1>5, <2>1 DEF LiveOf, Alike
  <2>2. CASE c \notin DOMAIN tx.tasks
    BY <1>2, <2>2 DEF LiveOf
  <2> QED
    BY <2>1, <2>2
<1>7. ASSUME NEW c \in LiveOf(tx, "tool")
      PROVE  tx2.tasks[c].ref = tx.tasks[c].ref /\ tx2.tasks[c].call = tx.tasks[c].call
  BY <1>3, <1>5, <1>7 DEF LiveOf, Alike
<1>8. ASSUME NEW g
      PROVE  InTools(tx2, g) <=> InTools(tx, g)
  <2>1. CASE g \in DOMAIN tx.tasks
    BY <1>2, <1>3, <1>5, <2>1 DEF LiveOf, Alike, InTools
  <2>2. CASE g \notin DOMAIN tx.tasks
    BY <1>2, <1>4, <2>2 DEF LiveOf, InTools, Created
  <2> QED
    BY <2>1, <2>2
<1>9. ASSUME NEW g, InTools(tx, g)
      PROVE  tx2.tasks[g].ref = tx.tasks[g].ref /\ tx2.tasks[g].pending = tx.tasks[g].pending
  BY <1>3, <1>9 DEF LiveOf, Alike, InTools
<1> QED
  BY <1>6, <1>7, <1>8, <1>9 DEF SameHands

(* Where no call changes hands, the calls and their results still agree.      *)
LEMMA CallsQuiet ==
    ASSUME NEW tx \in TxRec, NEW tx2, NEW t, Moves(tx, tx2, t), CallsAgree(tx), SameHands(tx, tx2)
    PROVE  CallsAgree(tx2)
<1>1. /\ tx2 \in TxRec /\ Len(tx.entries) <= Len(tx2.entries)
      /\ \A i \in DOMAIN tx.entries : tx2.entries[i] = tx.entries[i]
  BY DEF Moves, Recorded, Forward, Continues
<1>2. /\ DOMAIN tx.entries = 1 .. Len(tx.entries) /\ Len(tx.entries) \in Nat
      /\ DOMAIN tx2.entries = 1 .. Len(tx2.entries) /\ Len(tx2.entries) \in Nat
  BY <1>1, TxFields
<1>3. \A answer, call : HasResult(tx2, answer, call) <=> HasResult(tx, answer, call)
  BY ResultsGrow DEF SameHands, IsResult
<1>4. \A i \in DOMAIN tx2.entries : tx2.entries[i].kind = "result" \/ tx2.entries[i].calls # {} =>
        i \in DOMAIN tx.entries /\ tx2.entries[i] = tx.entries[i]
  BY <1>1, <1>2 DEF SameHands
<1>5. ResultsOnce(tx2)
  BY <1>4 DEF CallsAgree, ResultsOnce, IsResult
<1>6. ToolsApart(tx2)
  BY <1>3 DEF CallsAgree, ToolsApart, SameHands
<1>7. PendingApart(tx2)
  <2> SUFFICES ASSUME NEW g, InTools(tx2, g)
               PROVE  RoundApart(tx2, tx2.tasks[g].ref, tx2.tasks[g].pending)
    BY DEF PendingApart, InTools
  <2>1. InTools(tx, g) /\ tx2.tasks[g].ref = tx.tasks[g].ref /\ tx2.tasks[g].pending = tx.tasks[g].pending
    BY DEF SameHands
  <2>2. RoundApart(tx, tx.tasks[g].ref, tx.tasks[g].pending)
    BY <2>1 DEF CallsAgree, PendingApart, InTools
  <2>3. \A d \in LiveOf(tx2, "tool") : d \in LiveOf(tx, "tool") /\ tx2.tasks[d].ref = tx.tasks[d].ref /\ tx2.tasks[d].call = tx.tasks[d].call
    BY DEF SameHands
  <2> QED
    BY <1>3, <2>1, <2>2, <2>3 DEF RoundApart
<1>8. CallsKept(tx2)
  <2> SUFFICES ASSUME NEW answer \in DOMAIN tx2.entries, NEW call \in tx2.entries[answer].calls
               PROVE  HasResult(tx2, answer, call) \/ Gave(tx2, answer, call) \/ InHand(tx2, answer, call)
    BY DEF CallsKept
  <2>1. answer \in DOMAIN tx.entries /\ call \in tx.entries[answer].calls
    BY <1>4
  <2>2. HasResult(tx, answer, call) \/ Gave(tx, answer, call) \/ InHand(tx, answer, call)
    BY <2>1 DEF CallsAgree, CallsKept
  <2>3. InHand(tx, answer, call) => InHand(tx2, answer, call)
    BY DEF InHand, SameHands, InTools
  <2> QED
    BY <2>2, <2>3, ResultsGrow
<1> QED
  BY <1>5, <1>6, <1>7, <1>8 DEF CallsAgree

(* A tool task ends with the result of its call, or has thrown.               *)
CallEnds(tx, tx2, c) ==
    /\ c \in LiveOf(tx, "tool") /\ tx2.tasks[c].status = "done"
    /\ Len(tx2.tasks) = Len(tx.tasks)
    /\ \A i \in DOMAIN tx2.entries : i > Len(tx.entries) =>
         /\ i = Len(tx.entries) + 1 /\ tx2.entries[i].calls = {}
         /\ IsResult(tx2, i, tx.tasks[c].ref, tx.tasks[c].call)
    /\ HasResult(tx2, tx.tasks[c].ref, tx.tasks[c].call) \/ Gave(tx2, tx.tasks[c].ref, tx.tasks[c].call)

(* A tool task that ends leaves its call exactly one result.                  *)
LEMMA CallEndsOnce ==
    ASSUME NEW tx \in TxRec, NEW tx2, NEW c, Moves(tx, tx2, c), TasksAgree(tx), CallsAgree(tx), CallEnds(tx, tx2, c),
           tx.tasks[c].ref \in DOMAIN tx.entries
    PROVE  CallsAgree(tx2)
<1> DEFINE ref == tx.tasks[c].ref
           own == tx.tasks[c].call
<1>1. /\ tx2 \in TxRec /\ Len(tx.entries) <= Len(tx2.entries)
      /\ \A i \in DOMAIN tx.entries : tx2.entries[i] = tx.entries[i]
  BY DEF Moves, Recorded, Forward, Continues
<1>2. /\ DOMAIN tx.entries = 1 .. Len(tx.entries) /\ Len(tx.entries) \in Nat
      /\ DOMAIN tx2.entries = 1 .. Len(tx2.entries) /\ Len(tx2.entries) \in Nat
  BY <1>1, TxFields
<1>3. DOMAIN tx2.tasks = DOMAIN tx.tasks /\ \A d \in DOMAIN tx.tasks : d # c => Alike(tx.tasks[d], tx2.tasks[d])
  BY <1>1, TxFields DEF CallEnds, Moves
<1>4. c \in LiveOf(tx, "tool") /\ c \in DOMAIN tx.tasks /\ tx.tasks[c].status = "live" /\ tx.tasks[c].kind = "tool"
  BY DEF CallEnds, LiveOf
<1>5. \A d : d \in LiveOf(tx2, "tool") <=> d \in LiveOf(tx, "tool") /\ d # c
  BY <1>3, <1>4 DEF LiveOf, Alike, CallEnds
<1>6. \A g : InTools(tx2, g) <=> InTools(tx, g)
  <2> TAKE g
  <2>1. g = c => ~InTools(tx2, g) /\ ~InTools(tx, g)
    BY <1>4 DEF InTools, LiveOf, CallEnds
  <2>2. g # c => (InTools(tx2, g) <=> InTools(tx, g))
    BY <1>3 DEF InTools, LiveOf, Alike
  <2> QED
    BY <2>1, <2>2
<1>7. \A i \in DOMAIN tx2.entries : i \notin DOMAIN tx.entries =>
        i = Len(tx.entries) + 1 /\ tx2.entries[i].calls = {} /\ IsResult(tx2, i, ref, own)
  BY <1>2 DEF CallEnds
<1>8. ~HasResult(tx, ref, own)
  BY <1>4 DEF CallsAgree, ToolsApart
<1>9. \A answer, call : HasResult(tx2, answer, call) => HasResult(tx, answer, call) \/ (answer = ref /\ call = own)
  <2> TAKE answer, call
  <2> SUFFICES ASSUME NEW i \in DOMAIN tx2.entries, i > Len(tx.entries), IsResult(tx2, i, answer, call)
               PROVE  answer = ref /\ call = own
    BY ResultsGrow
  <2> QED
    BY DEF CallEnds, IsResult
<1>10. ResultsOnce(tx2)
  <2>1. ASSUME NEW i \in DOMAIN tx2.entries, tx2.entries[i].kind = "result"
        PROVE  tx2.entries[i].ref < i
    <3>1. CASE i \in DOMAIN tx.entries
      BY <1>1, <2>1, <3>1 DEF CallsAgree, ResultsOnce
    <3>2. CASE i \notin DOMAIN tx.entries
      <4>1. i = Len(tx.entries) + 1 /\ tx2.entries[i].ref = ref
        BY <1>7, <3>2 DEF IsResult
      <4> QED
        BY <1>2, <4>1
    <3> QED
      BY <3>1, <3>2
  <2>2. ASSUME NEW i \in DOMAIN tx2.entries, NEW j \in DOMAIN tx2.entries, tx2.entries[i].kind = "result",
               IsResult(tx2, j, tx2.entries[i].ref, tx2.entries[i].call)
        PROVE  i = j
    <3>1. CASE i \in DOMAIN tx.entries /\ j \in DOMAIN tx.entries
      BY <1>1, <2>2, <3>1 DEF CallsAgree, ResultsOnce, IsResult
    <3>2. CASE i \notin DOMAIN tx.entries /\ j \notin DOMAIN tx.entries
      BY <1>7, <3>2
    <3>3. CASE i \in DOMAIN tx.entries /\ j \notin DOMAIN tx.entries
      <4>1. IsResult(tx, i, ref, own)
        BY <1>1, <1>7, <2>2, <3>3 DEF IsResult
      <4> QED
        BY <1>8, <3>3, <4>1 DEF HasResult
    <3>4. CASE i \notin DOMAIN tx.entries /\ j \in DOMAIN tx.entries
      <4>1. IsResult(tx, j, ref, own)
        BY <1>1, <1>7, <2>2, <3>4 DEF IsResult
      <4> QED
        BY <1>8, <3>4, <4>1 DEF HasResult
    <3> QED
      BY <3>1, <3>2, <3>3, <3>4
  <2> QED
    BY <2>1, <2>2 DEF ResultsOnce
<1>11. \A d \in LiveOf(tx2, "tool") : tx2.tasks[d].ref = tx.tasks[d].ref /\ tx2.tasks[d].call = tx.tasks[d].call
                                      /\ (tx.tasks[d].ref # ref \/ tx.tasks[d].call # own)
  <2> SUFFICES ASSUME NEW d \in LiveOf(tx2, "tool")
               PROVE  tx2.tasks[d].ref = tx.tasks[d].ref /\ tx2.tasks[d].call = tx.tasks[d].call
                                      /\ (tx.tasks[d].ref # ref \/ tx.tasks[d].call # own)
    OBVIOUS
  <2>1. d \in LiveOf(tx, "tool") /\ d # c /\ d \in DOMAIN tx.tasks
    BY <1>5 DEF LiveOf
  <2> QED
    BY <1>3, <1>4, <2>1 DEF Alike, CallsAgree, ToolsApart
<1>12. ToolsApart(tx2)
  BY <1>5, <1>9, <1>11 DEF CallsAgree, ToolsApart
<1>13. \A g : InTools(tx, g) => tx2.tasks[g].ref = tx.tasks[g].ref /\ tx2.tasks[g].pending = tx.tasks[g].pending
  BY <1>3, <1>4 DEF InTools, LiveOf, Alike
<1>14. PendingApart(tx2)
  <2> SUFFICES ASSUME NEW g, InTools(tx2, g)
               PROVE  RoundApart(tx2, tx2.tasks[g].ref, tx2.tasks[g].pending)
    BY DEF PendingApart, InTools
  <2>1. InTools(tx, g) /\ tx2.tasks[g].ref = tx.tasks[g].ref /\ tx2.tasks[g].pending = tx.tasks[g].pending
    BY <1>6, <1>13
  <2>2. RoundApart(tx, tx.tasks[g].ref, tx.tasks[g].pending)
    BY <2>1 DEF CallsAgree, PendingApart, InTools
  <2>3. ASSUME NEW call \in Range(tx.tasks[g].pending)
        PROVE  ~HasResult(tx2, tx.tasks[g].ref, call)
    <3>1. tx.tasks[g].ref # ref \/ own # call
      BY <1>4, <2>2, <2>3 DEF RoundApart
    <3> QED
      BY <1>9, <2>2, <2>3, <3>1 DEF RoundApart
  <2>4. ASSUME NEW call \in Range(tx.tasks[g].pending), NEW d \in LiveOf(tx2, "tool")
        PROVE  tx2.tasks[d].ref # tx.tasks[g].ref \/ tx2.tasks[d].call # call
    <3>1. d \in LiveOf(tx, "tool") /\ tx2.tasks[d].ref = tx.tasks[d].ref /\ tx2.tasks[d].call = tx.tasks[d].call
      BY <1>5, <1>11, <2>4
    <3> QED
      BY <2>2, <2>4, <3>1 DEF RoundApart
  <2> QED
    BY <2>1, <2>2, <2>3, <2>4 DEF RoundApart
<1>15. CallsKept(tx2)
  <2> SUFFICES ASSUME NEW answer \in DOMAIN tx2.entries, NEW call \in tx2.entries[answer].calls
               PROVE  HasResult(tx2, answer, call) \/ Gave(tx2, answer, call) \/ InHand(tx2, answer, call)
    BY DEF CallsKept
  <2>1. answer \in DOMAIN tx.entries /\ call \in tx.entries[answer].calls
    BY <1>1, <1>7
  <2>2. HasResult(tx, answer, call) \/ Gave(tx, answer, call) \/ InHand(tx, answer, call)
    BY <2>1 DEF CallsAgree, CallsKept
  <2>3. ASSUME InHand(tx, answer, call), answer # ref \/ call # own
        PROVE  InHand(tx2, answer, call)
    <3>1. CASE \E d \in LiveOf(tx, "tool") : tx.tasks[d].ref = answer /\ tx.tasks[d].call = call
      <4>1. PICK d \in LiveOf(tx, "tool") : tx.tasks[d].ref = answer /\ tx.tasks[d].call = call
        BY <3>1
      <4>2. d \in LiveOf(tx2, "tool")
        BY <1>5, <2>3, <4>1
      <4> QED
        BY <1>11, <4>1, <4>2 DEF InHand
    <3>2. CASE \E g : InTools(tx, g) /\ tx.tasks[g].ref = answer /\ call \in Range(tx.tasks[g].pending)
      BY <1>6, <1>13, <3>2 DEF InHand, InTools
    <3> QED
      BY <2>3, <3>1, <3>2 DEF InHand, InTools
  <2> QED
    BY <2>2, <2>3, ResultsGrow DEF CallEnds
<1> QED
  BY <1>10, <1>12, <1>14, <1>15 DEF CallsAgree

(* A generation acts when no call of its round is under way.                   *)
LEMMA NoTools ==
    ASSUME NEW tx \in TxRec, TasksAgree(tx), NEW g \in LiveOf(tx, "gen"), OwnsDone(tx, g)
    PROVE  LiveOf(tx, "tool") = {} /\ \A c \in LiveOf(tx, "comp") : tx.tasks[c].owner = 0
<1>1. \A h \in LiveOf(tx, "gen") : h = g
  BY OneGen
<1>2. ASSUME NEW c \in LiveOf(tx, "tool")
      PROVE  FALSE
  <2>1. TaskFits(tx, c) /\ tx.tasks[c].status = "live" /\ tx.tasks[c].kind = "tool" /\ c \in DOMAIN tx.tasks
    BY DEF TasksAgree, LiveOf
  <2>2. tx.tasks[c].owner = g
    BY <1>1, <2>1 DEF TaskFits, Hosts
  <2> QED
    BY <2>1, <2>2 DEF OwnsDone
<1>3. ASSUME NEW c \in LiveOf(tx, "comp"), tx.tasks[c].owner # 0
      PROVE  FALSE
  <2>1. TaskFits(tx, c) /\ tx.tasks[c].status = "live" /\ tx.tasks[c].kind = "comp" /\ c \in DOMAIN tx.tasks
    BY <1>3 DEF TasksAgree, LiveOf
  <2>2. tx.tasks[c].owner = g
    BY <1>1, <1>3, <2>1 DEF TaskFits, Hosts
  <2> QED
    BY <2>1, <2>2 DEF OwnsDone
<1> QED
  BY <1>2, <1>3

(* After a step of a generation, the tools and the rounds are its own new ones. *)
LEMMA OwnNow ==
    ASSUME NEW tx \in TxRec, NEW tx2, NEW g \in LiveOf(tx, "gen"), Moves(tx, tx2, g), TasksAgree(tx)
    PROVE  /\ \A c \in LiveOf(tx2, "tool") : c > Len(tx.tasks) /\ c \in DOMAIN tx2.tasks
           /\ \A h : InTools(tx2, h) => h = g
           /\ \A i \in DOMAIN tx.entries : i \in DOMAIN tx2.entries /\ tx2.entries[i] = tx.entries[i]
           /\ \A i \in DOMAIN tx2.entries : i \in DOMAIN tx.entries \/ i > Len(tx.entries)
<1>1. tx2 \in TxRec /\ Continues(tx, tx2) /\ Len(tx.tasks) <= Len(tx2.tasks)
  BY DEF Moves, Recorded, Forward
<1>2. \A c \in DOMAIN tx2.tasks : c \in DOMAIN tx.tasks \/ c > Len(tx.tasks)
  BY <1>1, TxFields
<1>3. OwnsDone(tx, g)
  BY DEF Moves, Acts, LiveOf
<1>4. LiveOf(tx, "tool") = {} /\ \A h \in LiveOf(tx, "gen") : h = g
  BY <1>3, NoTools, OneGen
<1>5. \A c \in DOMAIN tx.tasks : c # g => Alike(tx.tasks[c], tx2.tasks[c])
  BY DEF Moves
<1>6. tx2.tasks[g].kind = "gen"
  BY DEF Moves, Acts, LiveOf
<1>7. ASSUME NEW c \in LiveOf(tx2, "tool")
      PROVE  c > Len(tx.tasks) /\ c \in DOMAIN tx2.tasks
  <2>1. c # g
    BY <1>6 DEF LiveOf
  <2>2. c \in DOMAIN tx.tasks => c \in LiveOf(tx, "tool")
    BY <1>5, <2>1 DEF LiveOf, Alike
  <2> QED
    BY <1>2, <1>4, <2>2 DEF LiveOf
<1>8. ASSUME NEW h, InTools(tx2, h), h # g
      PROVE  FALSE
  <2>1. h \in DOMAIN tx2.tasks
    BY <1>8 DEF InTools, LiveOf
  <2>2. CASE h \in DOMAIN tx.tasks
    <3>1. h \in LiveOf(tx, "gen")
      BY <1>5, <1>8, <2>2 DEF InTools, LiveOf, Alike
    <3> QED
      BY <1>4, <1>8, <3>1
  <2>3. CASE h > Len(tx.tasks)
    <3>1. Created(tx2, h, g)
      BY <2>1, <2>3 DEF Moves
    <3> QED
      BY <1>8, <3>1 DEF Created, InTools, LiveOf
  <2> QED
    BY <1>2, <2>1, <2>2, <2>3
<1>9. /\ \A i \in DOMAIN tx.entries : i \in DOMAIN tx2.entries /\ tx2.entries[i] = tx.entries[i]
      /\ \A i \in DOMAIN tx2.entries : i \in DOMAIN tx.entries \/ i > Len(tx.entries)
  BY <1>1, TxFields DEF Continues
<1> QED
  BY <1>7, <1>8, <1>9

(* A generation ends: the calls of its round that were never started have a    *)
(* result, unless it threw.                                                   *)
RoundEnds(tx, tx2, g) ==
    LET task == tx.tasks[g] IN
    /\ g \in LiveOf(tx, "gen") /\ tx2.tasks[g].status = "done"
    /\ \A c \in DOMAIN tx2.tasks : c > Len(tx.tasks) => tx2.tasks[c].kind # "tool"
    /\ \A i \in DOMAIN tx2.entries : i > Len(tx.entries) =>
         /\ tx2.entries[i].calls = {}
         /\ tx2.entries[i].kind = "result" =>
              task.phase = "tools" /\ tx2.entries[i].ref = task.ref /\ tx2.entries[i].call \in Range(task.pending)
    /\ \A i, j \in DOMAIN tx2.entries : i > Len(tx.entries) /\ j > Len(tx.entries) =>
         (tx2.entries[i].kind = "result" /\ tx2.entries[j].kind = "result" /\ tx2.entries[i].call = tx2.entries[j].call => i = j)
    /\ task.phase = "tools" => \A call \in Range(task.pending) : HasResult(tx2, task.ref, call) \/ Gave(tx2, task.ref, call)

(* A generation that ends in its tool round leaves each call of the round one *)
(* result, or threw.                                                          *)
LEMMA RoundEndsOnce ==
    ASSUME NEW tx \in TxRec, NEW tx2, NEW g, Moves(tx, tx2, g), TasksAgree(tx), CallsAgree(tx), RoundEnds(tx, tx2, g),
           AskedFits(tx, g)
    PROVE  CallsAgree(tx2)
<1>0. g \in LiveOf(tx, "gen") /\ tx2 \in TxRec
  BY DEF RoundEnds, Moves, Recorded
<1>1. /\ \A c \in LiveOf(tx2, "tool") : c > Len(tx.tasks) /\ c \in DOMAIN tx2.tasks
      /\ \A h : InTools(tx2, h) => h = g
      /\ \A i \in DOMAIN tx.entries : i \in DOMAIN tx2.entries /\ tx2.entries[i] = tx.entries[i]
      /\ \A i \in DOMAIN tx2.entries : i \in DOMAIN tx.entries \/ i > Len(tx.entries)
  BY <1>0, OwnNow
<1>2. LiveOf(tx2, "tool") = {} /\ \A h : ~InTools(tx2, h)
  BY <1>1 DEF RoundEnds, LiveOf, InTools
<1>3. ToolsApart(tx2) /\ PendingApart(tx2)
  BY <1>2 DEF ToolsApart, PendingApart, InTools
<1>4. LiveOf(tx, "tool") = {} /\ \A h \in LiveOf(tx, "gen") : h = g
  <2>1. OwnsDone(tx, g)
    BY <1>0 DEF Moves, Acts, LiveOf
  <2> QED
    BY <1>0, <2>1, NoTools, OneGen
<1>5. /\ DOMAIN tx.entries = 1 .. Len(tx.entries) /\ Len(tx.entries) \in Nat
      /\ DOMAIN tx2.entries = 1 .. Len(tx2.entries) /\ Len(tx2.entries) \in Nat
  BY <1>0, TxFields
<1>6. tx.tasks[g].phase = "tools" => tx.tasks[g].ref \in DOMAIN tx.entries /\ RoundApart(tx, tx.tasks[g].ref, tx.tasks[g].pending)
  BY <1>0 DEF AskedFits, CallsAgree, PendingApart
<1>7. ResultsOnce(tx2)
  <2>1. ASSUME NEW i \in DOMAIN tx2.entries, tx2.entries[i].kind = "result"
        PROVE  tx2.entries[i].ref < i
    <3>1. CASE i \in DOMAIN tx.entries
      BY <1>1, <2>1, <3>1 DEF CallsAgree, ResultsOnce
    <3>2. CASE i > Len(tx.entries)
      <4>1. tx2.entries[i].ref \in DOMAIN tx.entries
        BY <1>6, <2>1, <3>2 DEF RoundEnds
      <4> QED
        BY <1>5, <3>2, <4>1
    <3> QED
      BY <1>1, <3>1, <3>2
  <2>2. ASSUME NEW i \in DOMAIN tx2.entries, NEW j \in DOMAIN tx2.entries, i \in DOMAIN tx.entries, j > Len(tx.entries),
               tx2.entries[i].kind = "result", tx2.entries[j].kind = "result", tx2.entries[i].ref = tx2.entries[j].ref,
               tx2.entries[i].call = tx2.entries[j].call
        PROVE  FALSE
    <3>1. tx.tasks[g].phase = "tools" /\ tx2.entries[j].ref = tx.tasks[g].ref /\ tx2.entries[j].call \in Range(tx.tasks[g].pending)
      BY <2>2 DEF RoundEnds
    <3>2. ~HasResult(tx, tx.tasks[g].ref, tx2.entries[j].call)
      BY <1>6, <3>1 DEF RoundApart
    <3>3. IsResult(tx, i, tx.tasks[g].ref, tx2.entries[j].call)
      BY <1>1, <2>2, <3>1 DEF IsResult
    <3> QED
      BY <2>2, <3>2, <3>3 DEF HasResult
  <2>3. ASSUME NEW i \in DOMAIN tx2.entries, NEW j \in DOMAIN tx2.entries, tx2.entries[i].kind = "result",
               IsResult(tx2, j, tx2.entries[i].ref, tx2.entries[i].call)
        PROVE  i = j
    <3>0. tx2.entries[j].kind = "result" /\ tx2.entries[i].ref = tx2.entries[j].ref /\ tx2.entries[i].call = tx2.entries[j].call
      BY <2>3 DEF IsResult
    <3>1. CASE i \in DOMAIN tx.entries /\ j \in DOMAIN tx.entries
      BY <1>1, <2>3, <3>1 DEF CallsAgree, ResultsOnce, IsResult
    <3>2. CASE i > Len(tx.entries) /\ j > Len(tx.entries)
      BY <2>3, <3>0, <3>2 DEF RoundEnds
    <3> QED
      BY <1>1, <2>2, <2>3, <3>0, <3>1, <3>2
  <2> QED
    BY <2>1, <2>3 DEF ResultsOnce
<1>8. CallsKept(tx2)
  <2> SUFFICES ASSUME NEW answer \in DOMAIN tx2.entries, NEW call \in tx2.entries[answer].calls
               PROVE  HasResult(tx2, answer, call) \/ Gave(tx2, answer, call)
    BY DEF CallsKept
  <2>1. answer \in DOMAIN tx.entries /\ call \in tx.entries[answer].calls
    BY <1>1 DEF RoundEnds
  <2>2. HasResult(tx, answer, call) \/ Gave(tx, answer, call) \/ InHand(tx, answer, call)
    BY <2>1 DEF CallsAgree, CallsKept
  <2>3. ASSUME InHand(tx, answer, call)
        PROVE  HasResult(tx2, answer, call) \/ Gave(tx2, answer, call)
    <3>1. tx.tasks[g].phase = "tools" /\ tx.tasks[g].ref = answer /\ call \in Range(tx.tasks[g].pending)
      BY <1>4, <2>3 DEF InHand
    <3> QED
      BY <3>1 DEF RoundEnds
  <2> QED
    BY <2>2, <2>3, ResultsGrow
<1> QED
  BY <1>3, <1>7, <1>8 DEF CallsAgree

(* The next call of a round starts.                                           *)
StartsNext(tx, tx2, g) ==
    LET task == tx.tasks[g] n == Len(tx.tasks) + 1 IN
    /\ InTools(tx, g) /\ InTools(tx2, g) /\ task.pending # <<>>
    /\ tx2.tasks[g].ref = task.ref /\ tx2.tasks[g].pending = Tail(task.pending)
    /\ Len(tx2.tasks) = n
    /\ tx2.tasks[n].kind = "tool" /\ tx2.tasks[n].ref = task.ref /\ tx2.tasks[n].call = Head(task.pending)
    /\ tx2.entries = tx.entries

(* A sequence is its head and its tail.                                       *)
LEMMA HeadTail ==
    ASSUME NEW T, NEW s \in Seq(T), s # <<>>
    PROVE  /\ Head(s) = s[1] /\ 1 \in DOMAIN s /\ Tail(s) \in Seq(T)
           /\ \A k \in DOMAIN Tail(s) : k \in Nat /\ k + 1 \in DOMAIN s /\ Tail(s)[k] = s[k + 1] /\ k + 1 # 1
           /\ \A k \in DOMAIN s : k = 1 \/ (k - 1 \in DOMAIN Tail(s) /\ s[k] = Tail(s)[k - 1])
<1>1. Len(s) \in Nat \ {0} /\ DOMAIN s = 1 .. Len(s)
  OBVIOUS
<1>2. Tail(s) \in Seq(T) /\ Len(Tail(s)) = Len(s) - 1 /\ \A k \in 1 .. Len(s) - 1 : Tail(s)[k] = s[k + 1]
  BY HeadTailProperties
<1>3. DOMAIN Tail(s) = 1 .. Len(s) - 1
  BY <1>2
<1>4. Head(s) = s[1]
  OBVIOUS
<1>5. \A k \in 1 .. Len(s) - 1 : k \in Nat /\ k + 1 \in 1 .. Len(s) /\ k + 1 # 1
  BY <1>1
<1>6. \A k \in 1 .. Len(s) : k = 1 \/ (k - 1 \in 1 .. Len(s) - 1 /\ k - 1 + 1 = k)
  BY <1>1
<1> QED
  BY <1>1, <1>2, <1>3, <1>4, <1>5, <1>6

(* The next call of a sequential round passes from the round to its tool task.*)
LEMMA NextStarts ==
    ASSUME NEW tx \in TxRec, NEW tx2, NEW g, Moves(tx, tx2, g), TasksAgree(tx), CallsAgree(tx), StartsNext(tx, tx2, g)
    PROVE  CallsAgree(tx2)
<1> DEFINE n == Len(tx.tasks) + 1
           pending == tx.tasks[g].pending
           ref == tx.tasks[g].ref
<1>0. g \in LiveOf(tx, "gen") /\ tx2 \in TxRec /\ tx2.entries = tx.entries
  BY DEF StartsNext, InTools, Moves, Recorded
<1>1. /\ \A c \in LiveOf(tx2, "tool") : c > Len(tx.tasks) /\ c \in DOMAIN tx2.tasks
      /\ \A h : InTools(tx2, h) => h = g
  BY <1>0, OwnNow
<1>2. \A c \in LiveOf(tx2, "tool") : c = n
  <2> SUFFICES ASSUME NEW c \in LiveOf(tx2, "tool")
               PROVE  c = n
    OBVIOUS
  <2>1. c > Len(tx.tasks) /\ c \in DOMAIN tx2.tasks /\ Len(tx2.tasks) = Len(tx.tasks) + 1
    BY <1>1 DEF StartsNext
  <2> QED
    BY <1>0, <2>1, TxFields
<1>3. n \in LiveOf(tx2, "tool")
  <2>1. n \in DOMAIN tx2.tasks /\ n > Len(tx.tasks)
    BY <1>0, TxFields DEF StartsNext
  <2>2. Created(tx2, n, g)
    BY <2>1 DEF Moves
  <2> QED
    BY <2>1, <2>2 DEF StartsNext, Created, LiveOf
<1>4. \A answer, call : HasResult(tx2, answer, call) <=> HasResult(tx, answer, call)
  BY <1>0 DEF HasResult, IsResult
<1>5. RoundApart(tx, ref, pending)
  BY DEF StartsNext, InTools, CallsAgree, PendingApart
<1>6. pending \in Seq(Nat) /\ pending # <<>>
  BY <1>0, TaskFields DEF StartsNext, LiveOf
<1>7. /\ Head(pending) = pending[1] /\ 1 \in DOMAIN pending
      /\ \A k \in DOMAIN Tail(pending) : k \in Nat /\ k + 1 \in DOMAIN pending /\ Tail(pending)[k] = pending[k + 1] /\ k + 1 # 1
      /\ \A k \in DOMAIN pending : k = 1 \/ (k - 1 \in DOMAIN Tail(pending) /\ pending[k] = Tail(pending)[k - 1])
  BY <1>6, HeadTail
<1>8. /\ tx2.tasks[n].ref = ref /\ tx2.tasks[n].call = pending[1] /\ tx2.tasks[g].ref = ref /\ tx2.tasks[g].pending = Tail(pending)
      /\ InTools(tx2, g)
  BY <1>7 DEF StartsNext
<1>9. \A call : call \in Range(pending) <=> call = pending[1] \/ call \in Range(Tail(pending))
  <2> DEFINE rest == Tail(pending)
  <2> HIDE DEF pending, rest
  <2>1. \A call : call \in Range(pending) => call = pending[1] \/ call \in Range(rest)
    <3> SUFFICES ASSUME NEW call, call \in Range(pending), call # pending[1]
                 PROVE  call \in Range(rest)
      OBVIOUS
    <3>1. PICK k \in DOMAIN pending : pending[k] = call
      BY DEF Range
    <3>2. k - 1 \in DOMAIN rest /\ call = rest[k - 1]
      BY <1>7, <3>1 DEF rest
    <3> QED
      BY <3>2 DEF Range
  <2>2. \A call : call = pending[1] \/ call \in Range(rest) => call \in Range(pending)
    <3>1. pending[1] \in Range(pending)
      BY <1>7 DEF Range
    <3>2. ASSUME NEW call, call \in Range(rest)
          PROVE  call \in Range(pending)
      <4>1. PICK k \in DOMAIN rest : rest[k] = call
        BY <3>2 DEF Range
      <4>2. k + 1 \in DOMAIN pending /\ call = pending[k + 1]
        BY <1>7, <4>1 DEF rest
      <4> QED
        BY <4>2 DEF Range
    <3> QED
      BY <3>1, <3>2
  <2> QED
    BY <2>1, <2>2 DEF rest
<1> HIDE DEF n, pending, ref
<1>10. ResultsOnce(tx2)
  BY <1>0 DEF CallsAgree, ResultsOnce, IsResult
<1>11. ToolsApart(tx2)
  BY <1>2, <1>4, <1>5, <1>8, <1>9 DEF ToolsApart, RoundApart
<1>12. PendingApart(tx2)
  <2> SUFFICES RoundApart(tx2, ref, Tail(pending))
    BY <1>1, <1>8 DEF PendingApart, InTools
  <2>1. \A k \in DOMAIN Tail(pending) : Tail(pending)[k] # pending[1]
    BY <1>5, <1>7 DEF RoundApart
  <2>2. \A j, k \in DOMAIN Tail(pending) : Tail(pending)[j] = Tail(pending)[k] => j = k
    <3> SUFFICES ASSUME NEW j \in DOMAIN Tail(pending), NEW k \in DOMAIN Tail(pending), Tail(pending)[j] = Tail(pending)[k]
                 PROVE  j = k
      OBVIOUS
    <3>1. j + 1 = k + 1 /\ j \in Nat /\ k \in Nat
      BY <1>5, <1>7 DEF RoundApart
    <3> QED
      BY <3>1
  <2>3. \A call \in Range(Tail(pending)) : call # pending[1] /\ call \in Range(pending)
    BY <1>9, <2>1 DEF Range
  <2> QED
    BY <1>2, <1>4, <1>5, <1>8, <2>2, <2>3 DEF RoundApart
<1>13. CallsKept(tx2)
  <2> SUFFICES ASSUME NEW answer \in DOMAIN tx.entries, NEW call \in tx.entries[answer].calls
               PROVE  HasResult(tx2, answer, call) \/ Gave(tx2, answer, call) \/ InHand(tx2, answer, call)
    BY <1>0 DEF CallsKept
  <2>2. HasResult(tx, answer, call) \/ Gave(tx, answer, call) \/ InHand(tx, answer, call)
    BY DEF CallsAgree, CallsKept
  <2>3. ASSUME InHand(tx, answer, call)
        PROVE  InHand(tx2, answer, call)
    <3>1. LiveOf(tx, "tool") = {} /\ \A h \in LiveOf(tx, "gen") : h = g
      <4>1. OwnsDone(tx, g)
        BY <1>0 DEF Moves, Acts, LiveOf
      <4> QED
        BY <1>0, <4>1, NoTools, OneGen
    <3>2. ref = answer /\ call \in Range(pending)
      BY <2>3, <3>1 DEF InHand, ref, pending
    <3> QED
      BY <1>3, <1>8, <1>9, <3>2 DEF InHand, InTools
  <2> QED
    BY <2>2, <2>3, ResultsGrow
<1> QED
  BY <1>10, <1>11, <1>12, <1>13 DEF CallsAgree

(* A round starts: each call has a result, a tool task or a place in the queue. *)
RoundStarts(tx, tx2, g) ==
    LET answer == Len(tx.entries) + 1
        later == tx2.tasks[g].pending
    IN
    /\ g \in LiveOf(tx, "gen") /\ tx.tasks[g].phase # "tools"
    /\ InTools(tx2, g) /\ tx2.tasks[g].ref = answer
    /\ answer \in DOMAIN tx2.entries /\ tx2.entries[answer].kind = "assistant"
    /\ \A i \in DOMAIN tx2.entries : i > answer => tx2.entries[i].kind = "result" /\ tx2.entries[i].ref = answer /\ tx2.entries[i].calls = {}
    /\ \A i, j \in DOMAIN tx2.entries : i > answer /\ j > answer /\ tx2.entries[i].call = tx2.entries[j].call => i = j
    /\ \A c \in LiveOf(tx2, "tool") : /\ tx2.tasks[c].call \notin Range(later)
                                      /\ \A i \in DOMAIN tx2.entries : i > answer => tx2.entries[i].call # tx2.tasks[c].call
    /\ \A c, d \in LiveOf(tx2, "tool") : tx2.tasks[c].call = tx2.tasks[d].call => c = d
    /\ \A j, k \in DOMAIN later : later[j] = later[k] => j = k
    /\ \A k \in DOMAIN later : \A i \in DOMAIN tx2.entries : i > answer => tx2.entries[i].call # later[k]
    /\ \A call \in tx2.entries[answer].calls :
         \/ \E i \in DOMAIN tx2.entries : i > answer /\ tx2.entries[i].call = call
         \/ \E c \in LiveOf(tx2, "tool") : tx2.tasks[c].call = call
         \/ call \in Range(later)

(* A new round gives each of its calls one result, one tool task, or a place  *)
(* among the pending ones.                                                    *)
LEMMA RoundStartsApart ==
    ASSUME NEW tx \in TxRec, NEW tx2, NEW g, Moves(tx, tx2, g), TasksAgree(tx), CallsAgree(tx), RoundStarts(tx, tx2, g)
    PROVE  CallsAgree(tx2)
<1> DEFINE answer == Len(tx.entries) + 1
           later == tx2.tasks[g].pending
<1>0. g \in LiveOf(tx, "gen") /\ tx2 \in TxRec
  BY DEF RoundStarts, Moves, Recorded
<1>1. /\ \A c \in LiveOf(tx2, "tool") : c > Len(tx.tasks) /\ c \in DOMAIN tx2.tasks
      /\ \A h : InTools(tx2, h) => h = g
      /\ \A i \in DOMAIN tx.entries : i \in DOMAIN tx2.entries /\ tx2.entries[i] = tx.entries[i]
      /\ \A i \in DOMAIN tx2.entries : i \in DOMAIN tx.entries \/ i > Len(tx.entries)
  BY <1>0, OwnNow
<1>2. \A c \in LiveOf(tx2, "tool") : tx2.tasks[c].ref = answer
  <2> SUFFICES ASSUME NEW c \in LiveOf(tx2, "tool")
               PROVE  tx2.tasks[c].ref = answer
    OBVIOUS
  <2>1. Created(tx2, c, g) /\ tx2.tasks[c].kind = "tool"
    BY <1>1 DEF Moves, LiveOf
  <2> QED
    BY <2>1 DEF Created, RoundStarts
<1>3. LiveOf(tx, "tool") = {} /\ \A h \in LiveOf(tx, "gen") : h = g
  <2>1. OwnsDone(tx, g)
    BY <1>0 DEF Moves, Acts, LiveOf
  <2> QED
    BY <1>0, <2>1, NoTools, OneGen
<1>4. /\ DOMAIN tx.entries = 1 .. Len(tx.entries) /\ Len(tx.entries) \in Nat
      /\ DOMAIN tx2.entries = 1 .. Len(tx2.entries) /\ Len(tx2.entries) \in Nat
  BY <1>0, TxFields
<1>5. \A i \in DOMAIN tx2.entries : i \in DOMAIN tx.entries \/ i = answer \/ i > answer
  BY <1>4
<1>6. \A i \in DOMAIN tx.entries : i # answer /\ ~(i > answer)
  BY <1>4
<1>7. \A i \in DOMAIN tx.entries : tx.entries[i].kind = "result" => tx.entries[i].ref # answer /\ tx.entries[i].ref < i
  <2> SUFFICES ASSUME NEW i \in DOMAIN tx.entries, tx.entries[i].kind = "result"
               PROVE  tx.entries[i].ref # answer /\ tx.entries[i].ref < i
    OBVIOUS
  <2>1. tx.entries[i].ref < i /\ tx.entries[i].ref \in Nat
    BY EntryFields DEF CallsAgree, ResultsOnce
  <2> QED
    BY <1>4, <2>1
<1>8. \A call : HasResult(tx2, answer, call) => \E i \in DOMAIN tx2.entries : i > answer /\ tx2.entries[i].call = call
  <2> SUFFICES ASSUME NEW call, NEW i \in DOMAIN tx2.entries, IsResult(tx2, i, answer, call)
               PROVE  i > answer /\ tx2.entries[i].call = call
    BY DEF HasResult
  <2>1. i \notin DOMAIN tx.entries
    BY <1>1, <1>7 DEF IsResult
  <2>2. i # answer
    BY DEF IsResult, RoundStarts
  <2> QED
    BY <1>5, <2>1, <2>2 DEF IsResult
<1>9. ResultsOnce(tx2)
  <2>1. ASSUME NEW i \in DOMAIN tx2.entries, tx2.entries[i].kind = "result"
        PROVE  /\ tx2.entries[i].ref < i
               /\ i \in DOMAIN tx.entries => tx2.entries[i].ref # answer
               /\ i \notin DOMAIN tx.entries => i > answer /\ tx2.entries[i].ref = answer
    <3>1. CASE i \in DOMAIN tx.entries
      BY <1>1, <1>7, <2>1, <3>1
    <3>2. CASE i \notin DOMAIN tx.entries
      <4>1. i # answer
        BY <2>1 DEF RoundStarts
      <4>2. i > answer /\ tx2.entries[i].ref = answer
        BY <1>5, <3>2, <4>1 DEF RoundStarts
      <4> QED
        BY <1>4, <3>2, <4>2
    <3> QED
      BY <3>1, <3>2
  <2>2. ASSUME NEW i \in DOMAIN tx2.entries, NEW j \in DOMAIN tx2.entries, tx2.entries[i].kind = "result",
               IsResult(tx2, j, tx2.entries[i].ref, tx2.entries[i].call)
        PROVE  i = j
    <3>0. tx2.entries[j].kind = "result" /\ tx2.entries[i].ref = tx2.entries[j].ref /\ tx2.entries[i].call = tx2.entries[j].call
      BY <2>2 DEF IsResult
    <3>1. CASE i \in DOMAIN tx.entries /\ j \in DOMAIN tx.entries
      BY <1>1, <2>2, <3>1 DEF CallsAgree, ResultsOnce, IsResult
    <3>2. CASE i \notin DOMAIN tx.entries /\ j \notin DOMAIN tx.entries
      BY <2>1, <2>2, <3>0, <3>2 DEF RoundStarts
    <3> HIDE DEF answer
    <3> QED
      BY <2>1, <2>2, <3>0, <3>1, <3>2
  <2> QED
    BY <2>1, <2>2 DEF ResultsOnce
<1>10. ToolsApart(tx2)
  BY <1>2, <1>8 DEF ToolsApart, RoundStarts
<1>11. PendingApart(tx2)
  <2> SUFFICES RoundApart(tx2, answer, later)
    BY <1>1 DEF PendingApart, InTools, RoundStarts
  <2>1. \A call \in Range(later) : ~HasResult(tx2, answer, call)
    <3> SUFFICES ASSUME NEW call \in Range(later), HasResult(tx2, answer, call)
                 PROVE  FALSE
      OBVIOUS
    <3>1. PICK k \in DOMAIN later : call = later[k]
      BY DEF Range
    <3>2. PICK i \in DOMAIN tx2.entries : i > answer /\ tx2.entries[i].call = call
      BY <1>8
    <3> QED
      BY <3>1, <3>2 DEF RoundStarts
  <2>2. \A c \in LiveOf(tx2, "tool") : tx2.tasks[c].call \notin Range(later)
    BY DEF RoundStarts
  <2>3. \A j, k \in DOMAIN later : later[j] = later[k] => j = k
    BY DEF RoundStarts
  <2> HIDE DEF later, answer
  <2> QED
    BY <2>1, <2>2, <2>3 DEF RoundApart
<1>12. CallsKept(tx2)
  <2> SUFFICES ASSUME NEW a \in DOMAIN tx2.entries, NEW call \in tx2.entries[a].calls
               PROVE  HasResult(tx2, a, call) \/ Gave(tx2, a, call) \/ InHand(tx2, a, call)
    BY DEF CallsKept
  <2>1. CASE a \in DOMAIN tx.entries
    <3>1. call \in tx.entries[a].calls
      BY <1>1, <2>1
    <3>2. HasResult(tx, a, call) \/ Gave(tx, a, call) \/ InHand(tx, a, call)
      BY <2>1, <3>1 DEF CallsAgree, CallsKept
    <3>3. ~InHand(tx, a, call)
      BY <1>3 DEF InHand, RoundStarts
    <3> QED
      BY <3>2, <3>3, ResultsGrow
  <2>2. CASE a = answer
    <3>1. CASE \E i \in DOMAIN tx2.entries : i > answer /\ tx2.entries[i].call = call
      BY <2>2, <3>1 DEF RoundStarts, HasResult, IsResult
    <3>2. CASE \E c \in LiveOf(tx2, "tool") : tx2.tasks[c].call = call
      BY <1>2, <2>2, <3>2 DEF InHand
    <3>3. CASE call \in Range(later)
      BY <2>2, <3>3 DEF InHand, RoundStarts, InTools
    <3> QED
      BY <2>2, <3>1, <3>2, <3>3 DEF RoundStarts
  <2>3. CASE a > answer
    BY <2>3 DEF RoundStarts
  <2> QED
    BY <1>5, <2>1, <2>2, <2>3
<1> QED
  BY <1>9, <1>10, <1>11, <1>12 DEF CallsAgree

-----------------------------------------------------------------------------
(* The tasks after a step.                                                 *)

(* The tasks after a step.                                                    *)
Changed(tx, tx2, t) ==
    /\ tx2 \in TxRec /\ Len(tx.tasks) <= Len(tx2.tasks) /\ t \in 0 .. Len(tx.tasks)
    /\ \A c \in DOMAIN tx.tasks : c # t => Alike(tx.tasks[c], tx2.tasks[c])
    /\ t \in DOMAIN tx.tasks => tx2.tasks[t].kind = tx.tasks[t].kind /\ tx.tasks[t].status = "live"

(* The new tasks of a kind.                                                   *)
NewOf(tx, tx2, kind) ==
    {c \in DOMAIN tx2.tasks : c > Len(tx.tasks) /\ tx2.tasks[c].kind = kind /\ tx2.tasks[c].status = "live"}

(* The live tasks after a step of one task.                                   *)
LEMMA LiveAfter ==
    ASSUME NEW tx \in TxRec, NEW tx2, NEW t, Changed(tx, tx2, t), NEW kind
    PROVE  /\ \A c : c \in LiveOf(tx2, kind) <=>
                \/ c \in LiveOf(tx, kind) /\ (c = t => tx2.tasks[c].status = "live")
                \/ c \in NewOf(tx, tx2, kind)
           /\ \A c \in LiveOf(tx, kind) : c \in Nat /\ c # 0 /\ c <= Len(tx.tasks)
<1>1. /\ DOMAIN tx.tasks = 1 .. Len(tx.tasks) /\ Len(tx.tasks) \in Nat
      /\ DOMAIN tx2.tasks = 1 .. Len(tx2.tasks) /\ Len(tx2.tasks) \in Nat
  BY TxFields DEF Changed
<1>2. Len(tx.tasks) <= Len(tx2.tasks)
  BY DEF Changed
<1>3. DOMAIN tx.tasks \subseteq DOMAIN tx2.tasks /\ \A c \in DOMAIN tx2.tasks : c \notin DOMAIN tx.tasks <=> c > Len(tx.tasks)
  BY <1>1, <1>2
<1>4. ASSUME NEW c
      PROVE  c \in LiveOf(tx2, kind) <=>
                \/ c \in LiveOf(tx, kind) /\ (c = t => tx2.tasks[c].status = "live")
                \/ c \in NewOf(tx, tx2, kind)
  <2>1. CASE c \in DOMAIN tx.tasks /\ c # t
    BY <1>3, <2>1 DEF Changed, LiveOf, NewOf, Alike
  <2>2. CASE c \in DOMAIN tx.tasks /\ c = t
    BY <1>3, <2>2 DEF Changed, LiveOf, NewOf
  <2>3. CASE c \notin DOMAIN tx.tasks
    BY <1>3, <2>3 DEF LiveOf, NewOf
  <2> QED
    BY <2>1, <2>2, <2>3
<1> QED
  BY <1>1, <1>4 DEF LiveOf

(* A step that starts and ends no generation leaves the run with its task.    *)
LEMMA RunStays ==
    ASSUME NEW tx \in TxRec, NEW tx2, NEW t, Changed(tx, tx2, t), RunAgrees(tx), NewOf(tx, tx2, "gen") = {},
           t \in LiveOf(tx, "gen") => tx2.tasks[t].status = "live",
           tx2.live.run.task = tx.live.run.task, Busy(tx2) <=> Busy(tx)
    PROVE  RunAgrees(tx2)
<1>1. \A c : c \in LiveOf(tx2, "gen") <=> c \in LiveOf(tx, "gen")
  BY LiveAfter
<1>2. LiveOf(tx2, "gen") = LiveOf(tx, "gen")
  BY <1>1
<1> QED
  BY <1>2 DEF RunAgrees

(* A generation that ends its run leaves no live generation.                  *)
LEMMA RunOver ==
    ASSUME NEW tx \in TxRec, NEW tx2, NEW t \in LiveOf(tx, "gen"), Changed(tx, tx2, t), RunAgrees(tx),
           NewOf(tx, tx2, "gen") = {}, tx2.tasks[t].status = "done", ~Busy(tx2)
    PROVE  RunAgrees(tx2)
<1>1. \A c : ~(c \in LiveOf(tx2, "gen"))
  BY LiveAfter DEF RunAgrees
<1>2. LiveOf(tx2, "gen") = {}
  BY <1>1
<1> QED
  BY <1>2 DEF RunAgrees

(* A generation that ends and hands its run on leaves one live generation, the*)
(* new one.                                                                   *)
LEMMA RunPasses ==
    ASSUME NEW tx \in TxRec, NEW tx2, NEW t, Changed(tx, tx2, t), RunAgrees(tx),
           Busy(tx) => t \in LiveOf(tx, "gen") /\ tx2.tasks[t].status = "done",
           NEW n, NewOf(tx, tx2, "gen") = {n}, tx2.live.run.task = n
    PROVE  RunAgrees(tx2)
<1>1. \A c : c \in LiveOf(tx2, "gen") <=> c \in NewOf(tx, tx2, "gen")
  BY LiveAfter DEF RunAgrees
<1>2. LiveOf(tx2, "gen") = {n}
  BY <1>1
<1>3. n # 0
  <2>1. n \in DOMAIN tx2.tasks
    BY <1>2 DEF LiveOf
  <2> QED
    BY <2>1, TxFields DEF Changed
<1>4. Busy(tx2)
  BY <1>3 DEF Busy, NoRun
<1> QED
  BY <1>2, <1>4 DEF RunAgrees

(* A step that starts and ends no compaction leaves the list of compactions.  *)
LEMMA ListStays ==
    ASSUME NEW tx \in TxRec, NEW tx2, NEW t, Changed(tx, tx2, t), ListAgrees(tx), NewOf(tx, tx2, "comp") = {},
           t \in LiveOf(tx, "comp") => tx2.tasks[t].status = "live",
           tx2.live.compactions = tx.live.compactions
    PROVE  ListAgrees(tx2)
<1>1. \A c : c \in LiveOf(tx2, "comp") <=> c \in LiveOf(tx, "comp")
  BY LiveAfter
<1>2. LiveOf(tx2, "comp") = LiveOf(tx, "comp")
  BY <1>1
<1> QED
  BY <1>2 DEF ListAgrees

(* The listed compactions.                                                    *)
LEMMA LiveFinite ==
    ASSUME NEW tx \in TxRec, NEW kind
    PROVE  Finite(LiveOf(tx, kind))
<1>1. LiveOf(tx, kind) \subseteq 1 .. Len(tx.tasks) /\ Len(tx.tasks) \in Nat
  BY TxFields DEF LiveOf
<1>2. IsFiniteSet(1 .. Len(tx.tasks))
  BY <1>1, FS_Interval
<1>3. IsFiniteSet(LiveOf(tx, kind))
  BY <1>1, <1>2, FS_Subset
<1> QED
  BY <1>1, <1>3 DEF Finite

(* A new compaction is the last one of the list.                              *)
LEMMA ListGrows ==
    ASSUME NEW tx \in TxRec, NEW tx2, NEW t, Changed(tx, tx2, t), ListAgrees(tx),
           t \in LiveOf(tx, "comp") => tx2.tasks[t].status = "live",
           NEW n, NewOf(tx, tx2, "comp") = {n},
           tx2.live.compactions = Append(tx.live.compactions, n)
    PROVE  ListAgrees(tx2)
<1> DEFINE S == LiveOf(tx, "comp")
           s == tx.live.compactions
           r == Append(s, n)
<1>1. \A c : c \in LiveOf(tx2, "comp") <=> c \in S \/ c = n
  BY LiveAfter
<1>2. n \in Nat /\ \A c \in S : c \in Nat /\ c < n
  <2>1. n \in DOMAIN tx2.tasks /\ n > Len(tx.tasks) /\ tx2 \in TxRec
    BY DEF NewOf, Changed
  <2>2. n \in Nat /\ Len(tx.tasks) \in Nat
    BY <2>1, TxFields
  <2>3. \A c \in S : c \in Nat /\ c <= Len(tx.tasks)
    BY LiveAfter
  <2> QED
    BY <2>1, <2>2, <2>3
<1>3. s = Ascending(S) /\ Finite(S)
  BY LiveFinite DEF ListAgrees
<1> HIDE DEF S, s
<1>4. s \in Seq(Nat) /\ Len(s) \in Nat /\ DOMAIN s = 1 .. Len(s) /\ Increasing(s) /\ Range(s) = S
  BY <1>3, AscendingIs
<1>5. /\ r \in Seq(Nat) /\ DOMAIN r = 1 .. Len(s) + 1
      /\ \A i \in 1 .. Len(s) : r[i] = s[i]
      /\ r[Len(s) + 1] = n
  BY <1>2, <1>4, Appended
<1> HIDE DEF r
<1>6. \A i \in 1 .. Len(s) : s[i] \in S
  BY <1>4 DEF Range
<1>7. Increasing(r)
  <2> SUFFICES ASSUME NEW i \in DOMAIN r, NEW j \in DOMAIN r, i < j
               PROVE  r[i] < r[j]
    BY DEF Increasing
  <2>1. i \in 1 .. Len(s) /\ i \in Nat /\ j \in Nat
    BY <1>4, <1>5
  <2>2. CASE j \in 1 .. Len(s)
    BY <1>4, <1>5, <2>1, <2>2 DEF Increasing
  <2>3. CASE j \notin 1 .. Len(s)
    <3>1. j = Len(s) + 1
      BY <1>4, <1>5, <2>3
    <3> QED
      BY <1>2, <1>5, <1>6, <2>1, <3>1
  <2> QED
    BY <2>2, <2>3
<1>8. Range(r) = LiveOf(tx2, "comp")
  <2>1. \A c : c \in Range(r) <=> \E i \in 1 .. Len(s) + 1 : r[i] = c
    BY <1>5 DEF Range
  <2>2. \A c : c \in S <=> \E i \in 1 .. Len(s) : s[i] = c
    BY <1>4 DEF Range
  <2>3. \A i \in 1 .. Len(s) + 1 : i \in 1 .. Len(s) \/ i = Len(s) + 1
    BY <1>4
  <2>4. Len(s) + 1 \in 1 .. Len(s) + 1 /\ \A i \in 1 .. Len(s) : i \in 1 .. Len(s) + 1
    BY <1>4
  <2>5. \A c : c \in Range(r) <=> c \in S \/ c = n
    BY <1>5, <2>1, <2>2, <2>3, <2>4
  <2> QED
    BY <1>1, <2>5
<1>9. r = Ascending(LiveOf(tx2, "comp"))
  BY <1>5, <1>7, <1>8, AscendingOnly
<1> QED
  BY <1>9 DEF ListAgrees, r, s

(* A compaction that ends is dropped from the list.                           *)
LEMMA ListShrinks ==
    ASSUME NEW tx \in TxRec, NEW tx2, NEW t \in LiveOf(tx, "comp"), Changed(tx, tx2, t), ListAgrees(tx),
           NewOf(tx, tx2, "comp") = {}, tx2.tasks[t].status = "done",
           tx2.live.compactions = RemoveCompactionStatus(tx, t).live.compactions
    PROVE  ListAgrees(tx2)
<1> DEFINE S == LiveOf(tx, "comp")
           s == tx.live.compactions
           P == {i \in DOMAIN s : s[i] # t}
           r == Keep(s, P)
<1>1. \A c : c \in LiveOf(tx2, "comp") <=> c \in S /\ c # t
  BY LiveAfter
<1>2. tx2.live.compactions = r
  <2>1. RemoveCompactionStatus(tx, t).live.compactions = r
    <3>1. RemoveCompactionStatus(tx, t) = [tx EXCEPT !.live = [tx.live EXCEPT !.compactions = r]]
      BY DEF RemoveCompactionStatus
    <3>2. [tx.live EXCEPT !.compactions = r].compactions = r
      <4>1. tx.live \in LiveRec
        BY TxFields
      <4> QED
        BY <4>1 DEF LiveRec
    <3> QED
      BY <3>1, <3>2 DEF TxRec
  <2> QED
    BY <2>1
<1>3. s = Ascending(S) /\ Finite(S)
  BY LiveFinite DEF ListAgrees
<1>4. s \in Seq(Nat) /\ DOMAIN s = 1 .. Len(s) /\ Increasing(s) /\ Range(s) = S
  <2> HIDE DEF S, s
  <2> QED
    BY <1>3, AscendingIs
<1>5. /\ r \in Seq(Nat) /\ Len(r) \in Nat /\ DOMAIN r = 1 .. Len(r)
      /\ Picks(Ascending(P), s, P, r)
  <2>1. P \subseteq DOMAIN s
    OBVIOUS
  <2> HIDE DEF S, s, P
  <2> QED
    BY <1>4, <2>1, KeepIs
<1> DEFINE f == Ascending(P)
<1>6. /\ Increasing(f) /\ DOMAIN f = DOMAIN r
      /\ \A n \in DOMAIN r : f[n] \in DOMAIN s /\ s[f[n]] # t /\ r[n] = s[f[n]]
      /\ \A i \in DOMAIN s : s[i] # t => \E n \in DOMAIN r : r[n] = s[i]
  <2> HIDE DEF s, f, r
  <2>1. Len(f) = Len(r) /\ f \in Seq(Nat) /\ Increasing(f) /\ \A n \in 1 .. Len(r) : f[n] \in P /\ r[n] = s[f[n]]
    BY <1>5 DEF Picks, f
  <2>2. \A i \in P : Rank(P, i) \in 1 .. Len(r) /\ r[Rank(P, i)] = s[i]
    BY <1>5 DEF Picks
  <2>3. DOMAIN f = DOMAIN r
    BY <1>5, <2>1
  <2> QED
    BY <1>5, <2>1, <2>2, <2>3
<1> HIDE DEF S, s, r, f
<1>7. Increasing(r)
  BY <1>4, <1>6 DEF Increasing
<1>8. Range(r) = LiveOf(tx2, "comp")
  <2>1. \A c : c \in Range(r) <=> c \in Range(s) /\ c # t
    BY <1>6 DEF Range
  <2> QED
    BY <1>1, <1>4, <2>1
<1>9. r = Ascending(LiveOf(tx2, "comp"))
  BY <1>5, <1>7, <1>8, AscendingOnly
<1> QED
  BY <1>2, <1>9 DEF ListAgrees

-----------------------------------------------------------------------------
(* Records on the way from one commit to the next.                         *)

(* Records on the way from one commit to the next, when the inputs `U` have    *)
(* been placed for a run that is not there yet.                               *)
Carries(tx, tx2, U) == tx2 \in TxRec /\ TxInv(tx2, DOMAIN tx2.inbox, U) /\ Forward(tx, tx2)

(* Records carry themselves.                                                  *)
LEMMA CarriesSelf ==
    ASSUME NEW tx \in TxRec, NEW U, TxInv(tx, DOMAIN tx.inbox, U)
    PROVE  Carries(tx, tx, U)
<1>1. Continues(tx, tx)
  BY TxFields DEF Continues
<1>2. Forward(tx, tx)
  BY <1>1, ForwardSame
<1> QED
  BY <1>2 DEF Carries

(* What a commit has staged so far depends on the entries, the submissions,   *)
(* the inbox and the run.                                                     *)
LEMMA CarriesSame ==
    ASSUME NEW tx \in TxRec, NEW mid, NEW U, Carries(tx, mid, U), NEW tx2 \in TxRec,
           tx2.entries = mid.entries, tx2.subs = mid.subs, tx2.inbox = mid.inbox,
           tx2.live.run.inputs = mid.live.run.inputs
    PROVE  Carries(tx, tx2, U)
<1>1. mid \in TxRec /\ TxInv(mid, DOMAIN mid.inbox, U) /\ Forward(tx, mid)
  BY DEF Carries
<1>2. Owns(tx2, U)
  BY <1>1, OwnsSame DEF TxInv
<1>3. TxInv(tx2, DOMAIN tx2.inbox, U)
  BY <1>1, <1>2, SameRecords
<1>4. Forward(tx, tx2)
  BY <1>1 DEF Forward, Continues
<1> QED
  BY <1>3, <1>4 DEF Carries

(* Entries that belong to no submission may be staged.                        *)
LEMMA CarriesPlain ==
    ASSUME NEW tx \in TxRec, NEW mid, NEW U, Carries(tx, mid, U), NEW tx2 \in TxRec,
           Extends(mid, tx2), \A i \in DOMAIN tx2.entries : i > Len(mid.entries) => tx2.entries[i].by = 0,
           tx2.subs = mid.subs, tx2.inbox = mid.inbox, tx2.live.run.inputs = mid.live.run.inputs
    PROVE  Carries(tx, tx2, U)
<1>1. mid \in TxRec /\ TxInv(mid, DOMAIN mid.inbox, U) /\ Forward(tx, mid)
  BY DEF Carries
<1>2. TxInv(tx2, DOMAIN tx2.inbox, U)
  BY <1>1, PlainKeeps
<1>3. Forward(mid, tx2)
  BY <1>1, ForwardSame DEF Extends
<1> QED
  BY <1>1, <1>2, <1>3, ForwardTwice DEF Carries

(* One more entry without a head.                                             *)
LEMMA AppendedPlain ==
    ASSUME NEW tx \in TxRec, NEW mid, NEW U, Carries(tx, mid, U),
           NEW e \in EntryRec, PlainEntry(e), e.by = 0, NEW tx2, tx2 = AppendEntry(mid, e)
    PROVE  /\ Carries(tx, tx2, U)
           /\ tx2.subs = mid.subs /\ tx2.inbox = mid.inbox /\ tx2.live = mid.live /\ tx2.tasks = mid.tasks
           /\ Len(tx2.entries) = Len(mid.entries) + 1 /\ DOMAIN tx2.entries = 1 .. Len(mid.entries) + 1
           /\ \A i \in 1 .. Len(mid.entries) : tx2.entries[i] = mid.entries[i]
           /\ tx2.entries[Len(mid.entries) + 1] = e
<1> DEFINE id == Len(mid.entries) + 1
<1>1. mid \in TxRec /\ Len(mid.entries) \in Nat /\ DOMAIN mid.entries = 1 .. Len(mid.entries)
  BY TxFields DEF Carries
<1>2. Numbered(e, id) = e
  BY DEF Numbered, PlainEntry, HeadKinds
<1>3. /\ tx2 \in TxRec
      /\ tx2.subs = mid.subs /\ tx2.inbox = mid.inbox /\ tx2.live = mid.live /\ tx2.tasks = mid.tasks
      /\ Len(tx2.entries) = id /\ DOMAIN tx2.entries = 1 .. id
      /\ \A i \in 1 .. Len(mid.entries) : tx2.entries[i] = mid.entries[i]
      /\ tx2.entries[id] = e
  BY <1>1, <1>2, AppendEntryIs
<1>4. \A i \in DOMAIN tx2.entries : i > Len(mid.entries) => i = id
  BY <1>1, <1>3
<1>5. Extends(mid, tx2)
  BY <1>1, <1>3, <1>4 DEF Extends, Continues
<1>6. Carries(tx, tx2, U)
  BY <1>3, <1>4, <1>5, CarriesPlain
<1> QED
  BY <1>3, <1>6

-----------------------------------------------------------------------------
(* The end of a run.                                                          *)
Reasons == {"none", "aborted", "stale", "no_model", "model_error", "reset", "faulted"}

(* endRun settles the inputs of the run the task owns and clears the run.     *)
LEMMA EndRunIs ==
    ASSUME NEW tx \in TxRec, NEW t, tx.live.run.task = t, Range(tx.live.run.inputs) \subseteq DOMAIN tx.subs,
           NEW status \in Settled, NEW answer \in Nat, NEW why \in Reasons
    PROVE  LET new == EndRun(tx, t, status, answer, why)
           IN /\ new \in TxRec
              /\ new.entries = tx.entries /\ new.inbox = tx.inbox /\ new.tasks = tx.tasks
              /\ new.live.run = NoRun /\ new.live.compactions = tx.live.compactions
              /\ DOMAIN new.subs = DOMAIN tx.subs /\ Len(new.subs) = Len(tx.subs)
              /\ \A s \in DOMAIN tx.subs :
                   new.subs[s] = IF s \in Range(tx.live.run.inputs)
                                 THEN SettledAs(tx.subs[s], status, answer, why) ELSE tx.subs[s]
<1> DEFINE inputs == Range(tx.live.run.inputs)
           settled(s) == IF s \in inputs THEN SettleSubmission(tx, s, status, answer, why).subs[s] ELSE tx.subs[s]
           subs == [s \in DOMAIN tx.subs |-> settled(s)]
           live == [tx.live EXCEPT !.run = NoRun, !.gen = "none", !.slots = <<>>]
           new == EndRun(tx, t, status, answer, why)
<1>1. tx.live \in LiveRec /\ Len(tx.subs) \in Nat /\ DOMAIN tx.subs = 1 .. Len(tx.subs)
      /\ \A s \in DOMAIN tx.subs : tx.subs[s] \in SubmissionRec
  BY TxFields
<1>2. \A s \in DOMAIN tx.subs : settled(s) = IF s \in inputs THEN SettledAs(tx.subs[s], status, answer, why) ELSE tx.subs[s]
  BY SettleSubmissionIs DEF Reasons
<1>3. \A s \in DOMAIN tx.subs : settled(s) \in SubmissionRec
  BY <1>1, <1>2, SettledAsType DEF Reasons
<1> HIDE DEF settled
<1>4. subs \in Seq(SubmissionRec) /\ DOMAIN subs = DOMAIN tx.subs /\ Len(subs) = Len(tx.subs)
  BY <1>1, <1>3
<1>5. live \in LiveRec /\ live.run = NoRun /\ live.compactions = tx.live.compactions
  <2>1. NoRun \in RunRec /\ <<>> \in Seq(SlotRec)
    BY DEF NoRun, RunRec
  <2> DEFINE none == NoRun
             empty == <<>>
  <2>2. live = [tx.live EXCEPT !.run = none, !.gen = "none", !.slots = empty]
    OBVIOUS
  <2>3. none \in RunRec /\ empty \in Seq(SlotRec)
    BY <2>1
  <2> HIDE DEF none, empty, live
  <2>4. live \in LiveRec /\ live.run = none /\ live.compactions = tx.live.compactions
    BY <1>1, <2>2, <2>3 DEF LiveRec
  <2> QED
    BY <2>4 DEF none
<1>6. new = [tx EXCEPT !.subs = subs, !.live = live]
  BY DEF EndRun, settled
<1> HIDE DEF subs, live, new
<1>7. /\ new \in TxRec /\ new.subs = subs /\ new.live = live
      /\ new.entries = tx.entries /\ new.inbox = tx.inbox /\ new.tasks = tx.tasks
  BY <1>4, <1>5, <1>6 DEF TxRec
<1> QED
  BY <1>2, <1>4, <1>5, <1>7 DEF subs, new

(* The end of a run keeps what a commit has staged: its inputs are settled,   *)
(* and `done` only by an answer that saw them.                                *)
LEMMA EndRunKeeps ==
    ASSUME NEW tx \in TxRec, NEW mid, NEW U, Carries(tx, mid, U), NEW t, mid.live.run.task = t,
           NEW status \in Settled, NEW answer \in Nat, NEW why \in Reasons,
           status = "done" => \A s \in Range(mid.live.run.inputs) : AnsweredBy(mid.entries, mid.subs[s].entry, answer)
    PROVE  LET new == EndRun(mid, t, status, answer, why) IN
           /\ Carries(tx, new, U) /\ ~Busy(new)
           /\ new.entries = mid.entries /\ new.inbox = mid.inbox /\ new.tasks = mid.tasks
           /\ new.live.run = NoRun /\ new.live.compactions = mid.live.compactions
           /\ \A s \in U : s \in DOMAIN mid.subs /\ new.subs[s] = mid.subs[s]
<1> DEFINE new == EndRun(mid, t, status, answer, why)
           X == Range(mid.live.run.inputs)
           D == DOMAIN mid.inbox
<1>1. /\ mid \in TxRec /\ TxInv(mid, DOMAIN mid.inbox, U) /\ Forward(tx, mid)
      /\ Owns(mid, U) /\ Queue(mid, DOMAIN mid.inbox) /\ Placement(mid)
  BY DEF Carries, TxInv
<1>2. X \subseteq DOMAIN mid.subs /\ U \subseteq DOMAIN mid.subs /\ X \cap U = {}
      /\ \A s \in DOMAIN mid.subs : mid.subs[s].status = "placed" <=> s \in X \cup U
  BY <1>1 DEF Owns
<1>3. /\ new \in TxRec
      /\ new.entries = mid.entries /\ new.inbox = mid.inbox /\ new.tasks = mid.tasks
      /\ new.live.run = NoRun /\ new.live.compactions = mid.live.compactions
      /\ DOMAIN new.subs = DOMAIN mid.subs /\ Len(new.subs) = Len(mid.subs)
      /\ \A s \in DOMAIN mid.subs : new.subs[s] = IF s \in X THEN SettledAs(mid.subs[s], status, answer, why) ELSE mid.subs[s]
  <2>1. mid \in TxRec /\ Range(mid.live.run.inputs) \subseteq DOMAIN mid.subs
    BY <1>1, <1>2
  <2> QED
    BY <2>1, EndRunIs
<1> HIDE DEF new, X
<1>4. ASSUME NEW s \in X
      PROVE  /\ new.subs[s].req = mid.subs[s].req /\ new.subs[s].type = mid.subs[s].type
             /\ new.subs[s].entry = mid.subs[s].entry /\ new.subs[s].status \in Settled
             /\ new.subs[s].status = status /\ new.subs[s].answer = answer
             /\ mid.subs[s].type = "input" /\ mid.subs[s].entry # 0 /\ mid.subs[s].status = "placed"
  <2>1. s \in DOMAIN mid.subs /\ mid.subs[s].status = "placed" /\ mid.subs[s] \in SubmissionRec
    BY <1>1, <1>2, SubFields
  <2>2. mid.subs[s].type = "input" /\ mid.subs[s].entry # 0
    BY <1>1, <2>1 DEF Placement
  <2>3. new.subs[s] = SettledAs(mid.subs[s], status, answer, why)
    BY <1>3, <2>1
  <2>4. mid.subs[s].status \notin Settled
    BY <2>1 DEF Settled
  <2>5. why \in {"none", "aborted", "stale", "no_model", "model_error", "reset", "faulted"}
    BY DEF Reasons
  <2> DEFINE sub == mid.subs[s]
             r == SettledAs(sub, status, answer, why)
  <2>6. /\ r.req = sub.req /\ r.type = sub.type /\ r.entry = sub.entry /\ r.status \in Settled
        /\ r.status = status /\ r.answer = answer
    <3>1. sub \in SubmissionRec /\ sub.status \notin Settled
      BY <2>1, <2>4
    <3> HIDE DEF sub
    <3> QED
      BY <2>5, <3>1, SettledAsType
  <2> HIDE DEF r
  <2> QED
    BY <2>1, <2>2, <2>3, <2>6 DEF r
<1>5. Owns(new, U)
  <2>1. Range(new.live.run.inputs) = {} /\ DOMAIN new.live.run.inputs = {}
    BY <1>3 DEF NoRun, Range
  <2>2. \A s \in DOMAIN new.subs : new.subs[s].status = "placed" <=> s \in U
    <3> SUFFICES ASSUME NEW s \in DOMAIN mid.subs
                 PROVE  new.subs[s].status = "placed" <=> s \in U
      BY <1>3
    <3>1. CASE s \in X
      BY <1>2, <1>4, <3>1 DEF Settled
    <3>2. CASE s \notin X
      BY <1>2, <1>3, <3>2
    <3> QED
      BY <3>1, <3>2
  <2> QED
    BY <1>2, <1>3, <2>1, <2>2 DEF Owns
<1>6. \A s \in DOMAIN mid.subs : s \notin X => new.subs[s] = mid.subs[s]
  BY <1>3
<1>7. \A s \in X : new.subs[s].status = "done" => AnsweredBy(mid.entries, mid.subs[s].entry, new.subs[s].answer)
  BY <1>4 DEF X
<1>8. TxInv(new, {i \in D : mid.inbox[i].sub \notin X}, U)
  <2>1. X \in SUBSET DOMAIN mid.subs /\ DOMAIN new.subs = DOMAIN mid.subs /\ new.entries = mid.entries /\ new.inbox = mid.inbox /\ new \in TxRec
    BY <1>2, <1>3
  <2>2. \A s \in X : /\ new.subs[s].req = mid.subs[s].req /\ new.subs[s].type = mid.subs[s].type
                     /\ new.subs[s].entry = mid.subs[s].entry /\ new.subs[s].status \in Settled
                     /\ new.subs[s].status = "done" =>
                          /\ mid.subs[s].type = "input" /\ mid.subs[s].entry # 0
                          /\ AnsweredBy(mid.entries, mid.subs[s].entry, new.subs[s].answer)
    BY <1>4, <1>7
  <2>3. mid \in TxRec /\ TxInv(mid, D, U)
    BY <1>1
  <2>4. SettlesAll(mid, new, X)
    BY <1>6, <2>1, <2>2 DEF SettlesAll
  <2> HIDE DEF D, X, new
  <2> QED
    BY <1>5, <2>1, <2>3, <2>4, SettlesAllKeeps
<1>9. {i \in D : mid.inbox[i].sub \notin X} = D
  <2> SUFFICES ASSUME NEW i \in D, mid.inbox[i].sub \in X
               PROVE  FALSE
    OBVIOUS
  <2>1. mid.subs[mid.inbox[i].sub].status = "queued"
    BY <1>1, <1>2 DEF Queue
  <2> QED
    BY <1>4, <2>1
<1>10. Forward(mid, new)
  <2>1. Continues(mid, new)
    BY <1>1, <1>3, TxFields DEF Continues
  <2>2. Len(mid.subs) <= Len(new.subs)
    BY <1>1, <1>3, TxFields
  <2>3. \A s \in DOMAIN mid.subs : mid.subs[s].status \in Settled => new.subs[s] = mid.subs[s]
    BY <1>4, <1>6 DEF Settled
  <2>4. \A s \in DOMAIN mid.subs : mid.subs[s].status = "placed" => new.subs[s].entry = mid.subs[s].entry /\ new.subs[s].status # "queued"
    BY <1>4, <1>6 DEF Settled
  <2> QED
    BY <2>1, <2>2, <2>3, <2>4 DEF Forward
<1>11. Forward(tx, new)
  BY <1>1, <1>3, <1>10, ForwardTwice
<1>12. Carries(tx, new, U)
  BY <1>3, <1>8, <1>9, <1>11 DEF Carries
<1>13. \A s \in U : s \in DOMAIN mid.subs /\ new.subs[s] = mid.subs[s]
  BY <1>2, <1>6
<1> QED
  BY <1>3, <1>12, <1>13 DEF new, Busy

(* A field of a record with three of them, replaced.                          *)
LEMMA Retold ==
    ASSUME NEW a, NEW b, NEW c, NEW mid, NEW at, at = [tx |-> a, users |-> b, reset |-> c],
           NEW at2, at2 = [at EXCEPT !.tx = mid]
    PROVE  at2.tx = mid /\ at2.users = at.users
OBVIOUS

(* The users a boundary placed do not depend on what is staged after it.      *)
LEMMA BoundaryShape ==
    ASSUME NEW tx, NEW start, NEW where, NEW modes, NEW at, at = ApplyBoundary(tx, start, where, modes),
           NEW mid, NEW at2, at2 = [at EXCEPT !.tx = mid]
    PROVE  at2.tx = mid /\ at2.users = at.users
<1>1. \E a, b, c : at = [tx |-> a, users |-> b, reset |-> c]
  BY ZenonT(60) DEF ApplyBoundary
<1> QED
  BY <1>1, Retold

(* The records after a run was started, or none was.                          *)
Rerun(mid, new) ==
    /\ new \in TxRec
    /\ new.entries = mid.entries /\ new.subs = mid.subs /\ new.inbox = mid.inbox
    /\ new.live.compactions = mid.live.compactions
    /\ \/ new.tasks = mid.tasks /\ ~Busy(new)
       \/ /\ Len(new.tasks) = Len(mid.tasks) + 1
          /\ \A c \in DOMAIN mid.tasks : new.tasks[c] = mid.tasks[c]
          /\ new.tasks[Len(mid.tasks) + 1] = NewTask
          /\ new.live.run.task = Len(mid.tasks) + 1

(* The users a final boundary placed start the next run.                      *)
LEMMA StartsAfter ==
    ASSUME NEW tx \in TxRec, NEW at, NEW mid, at.tx = mid, at.users \in Seq(Nat),
           \A i, j \in DOMAIN at.users : at.users[i] = at.users[j] => i = j,
           Carries(tx, mid, Range(at.users)), ~Busy(mid), Fresh(mid, Range(at.users))
    PROVE  Recorded(tx, StartRunOf(at)) /\ Rerun(mid, StartRunOf(at))
<1> DEFINE new == StartRunOf(at)
<1>1. mid \in TxRec /\ TxInv(mid, DOMAIN mid.inbox, Range(at.users)) /\ Forward(tx, mid)
  BY DEF Carries
<1>2. CASE at.users = <<>>
  <2>1. new = mid
    BY <1>2 DEF StartRunOf
  <2>2. Range(at.users) = {} /\ Range(mid.live.run.inputs) = {}
    BY <1>2 DEF Busy, NoRun, Range
  <2>3. Fresh(mid, Range(mid.live.run.inputs)) /\ TxInv(mid, DOMAIN mid.inbox, {})
    BY <1>1, <2>2 DEF Fresh
  <2> QED
    BY <1>1, <2>1, <2>3 DEF Recorded, Rerun
<1>3. CASE at.users # <<>>
  <2>1. new = StartRun(mid, at.users)
    BY <1>3 DEF StartRunOf
  <2>2. /\ new \in TxRec /\ TxInv(new, DOMAIN new.inbox, {}) /\ RunStarted(mid, new)
        /\ Fresh(new, Range(new.live.run.inputs))
        /\ new.entries = mid.entries /\ new.subs = mid.subs /\ new.inbox = mid.inbox
    BY <1>1, <2>1, StartRunKeeps
  <2> HIDE DEF new
  <2>3. Forward(tx, new)
    BY <1>1, <2>2 DEF Forward, Continues
  <2>4. Rerun(mid, new)
    BY <2>2 DEF Rerun, RunStarted
  <2> QED
    BY <2>2, <2>3, <2>4 DEF Recorded, new
<1> QED
  BY <1>2, <1>3

(* The records of a step are those of another with the same transcript,       *)
(* submissions, inbox and inputs.                                             *)
LEMMA RecordedSame ==
    ASSUME NEW tx \in TxRec, NEW mid, Recorded(tx, mid), NEW tx2 \in TxRec,
           tx2.entries = mid.entries, tx2.subs = mid.subs, tx2.inbox = mid.inbox,
           tx2.live.run.inputs = mid.live.run.inputs
    PROVE  Recorded(tx, tx2)
<1>1. Carries(tx, mid, {}) /\ Fresh(mid, Range(mid.live.run.inputs))
  BY DEF Recorded, Carries
<1>2. Carries(tx, tx2, {})
  BY <1>1, CarriesSame
<1>3. Fresh(tx2, Range(tx2.live.run.inputs))
  BY <1>1 DEF Fresh
<1> QED
  BY <1>2, <1>3 DEF Recorded, Carries

(* The record of a task that ended.                                           *)
Outcomes == {"none", "completed", "failed", "aborted", "faulted", "terminate", "handoff", "summary", "empty"}

AsEnded(a, old, outcome) ==
    [a EXCEPT !.kind = old.kind, !.owner = old.owner, !.background = old.background,
              !.call = old.call, !.ref = old.ref, !.status = "done", !.phase = "end", !.outcome = outcome]

(* A task record as the end of its task leaves it.                            *)
LEMMA AsEndedIs ==
    ASSUME NEW a \in TaskRec, NEW old \in TaskRec, NEW outcome \in Outcomes
    PROVE  LET b == AsEnded(a, old, outcome) IN
           /\ b \in TaskRec
           /\ b.status = "done" /\ b.outcome = outcome /\ b.kind = old.kind /\ b.ref = old.ref
           /\ b.call = old.call /\ b.on = a.on
<1> DEFINE kind == old.kind
           owner == old.owner
           background == old.background
           call == old.call
           ref == old.ref
           b == AsEnded(a, old, outcome)
<1>1. /\ kind \in {"gen", "tool", "comp"} /\ owner \in Nat /\ background \in BOOLEAN
      /\ call \in Nat /\ ref \in Nat
  BY DEF TaskRec
<1>2. b = [a EXCEPT !.kind = kind, !.owner = owner, !.background = background,
              !.call = call, !.ref = ref, !.status = "done", !.phase = "end", !.outcome = outcome]
  BY DEF AsEnded
<1> HIDE DEF kind, owner, background, call, ref, b
<1>3. /\ b \in TaskRec
      /\ b.status = "done" /\ b.outcome = outcome /\ b.kind = kind /\ b.ref = ref
      /\ b.call = call /\ b.on = a.on
  <2>1. outcome \in {"none", "completed", "failed", "aborted", "faulted", "terminate", "handoff", "summary", "empty"}
    BY DEF Outcomes
  <2> DEFINE first == [a EXCEPT !.kind = kind, !.owner = owner, !.background = background]
             second == [first EXCEPT !.call = call, !.ref = ref]
  <2>2. first \in TaskRec /\ first.kind = kind /\ first.on = a.on
    BY <1>1 DEF TaskRec
  <2> HIDE DEF first
  <2>3. second \in TaskRec /\ second.kind = first.kind /\ second.on = first.on /\ second.call = call /\ second.ref = ref
    BY <1>1, <2>2 DEF TaskRec
  <2> HIDE DEF second
  <2> DEFINE third == [second EXCEPT !.status = "done", !.phase = "end"]
  <2>4. third \in TaskRec /\ third.kind = second.kind /\ third.on = second.on /\ third.call = second.call
        /\ third.ref = second.ref /\ third.status = "done"
    <3>1. /\ third.kind = second.kind /\ third.on = second.on /\ third.call = second.call
          /\ third.ref = second.ref /\ third.status = "done"
      BY <2>3 DEF TaskRec
    <3>2. third \in TaskRec
      <4> DEFINE over == [second EXCEPT !.status = "done"]
      <4>1. over \in TaskRec
        BY <2>3 DEF TaskRec
      <4> HIDE DEF third
      <4>2. third = [over EXCEPT !.phase = "end"]
        BY Zenon DEF over, third
      <4> HIDE DEF over
      <4>3. [over EXCEPT !.phase = "end"] \in TaskRec
        BY <4>1 DEF TaskRec
      <4> QED
        BY <4>2, <4>3
    <3> QED
      BY <3>1, <3>2
  <2>5. b = [third EXCEPT !.outcome = outcome]
    BY Zenon, <1>2 DEF first, second
  <2> HIDE DEF third
  <2>6. /\ b \in TaskRec /\ b.kind = third.kind /\ b.on = third.on /\ b.call = third.call /\ b.ref = third.ref
        /\ b.status = third.status /\ b.outcome = outcome
    <3>1. /\ b.kind = third.kind /\ b.on = third.on /\ b.call = third.call /\ b.ref = third.ref
          /\ b.status = third.status /\ b.outcome = outcome
      BY <2>4, <2>5 DEF TaskRec
    <3> QED
      BY ZenonT(60), <2>1, <2>4, <2>5, <3>1 DEF TaskRec
  <2> QED
    BY <2>2, <2>3, <2>4, <2>6
<1> QED
  BY <1>3 DEF kind, call, ref, b

(* The end of a task changes its record and nothing else.                     *)
LEMMA EndedIs ==
    ASSUME NEW tx \in TxRec, NEW t \in DOMAIN tx.tasks, NEW outcome \in Outcomes
    PROVE  LET new == Ended(tx, t, outcome) IN
           /\ new \in TxRec
           /\ new.entries = tx.entries /\ new.subs = tx.subs /\ new.inbox = tx.inbox /\ new.live = tx.live
           /\ Len(new.tasks) = Len(tx.tasks) /\ DOMAIN new.tasks = DOMAIN tx.tasks
           /\ \A i \in DOMAIN tx.tasks : i # t => new.tasks[i] = tx.tasks[i]
           /\ new.tasks[t].status = "done" /\ new.tasks[t].outcome = outcome /\ new.tasks[t].on = {}
           /\ new.tasks[t].kind = tx.tasks[t].kind /\ new.tasks[t].ref = tx.tasks[t].ref
           /\ new.tasks[t].call = tx.tasks[t].call
<1> DEFINE old == tx.tasks[t]
           task == AsEnded(NewTask, old, outcome)
<1>1. old \in TaskRec
  BY TxFields
<1>2. Ended(tx, t, outcome) = SetTask(tx, t, task)
  BY DEF Ended, AsEnded
<1> HIDE DEF old
<1> DEFINE base == NewTask
<1>3. base \in TaskRec /\ base.on = {}
  BY NewTaskType DEF NewTask
<1> HIDE DEF base
<1>a. task = AsEnded(base, old, outcome)
  BY DEF base
<1> HIDE DEF task
<1>b. /\ task \in TaskRec
      /\ task.status = "done" /\ task.outcome = outcome /\ task.kind = old.kind /\ task.ref = old.ref
      /\ task.call = old.call /\ task.on = base.on
  <2>1. LET b == AsEnded(base, old, outcome) IN
          /\ b \in TaskRec
          /\ b.status = "done" /\ b.outcome = outcome /\ b.kind = old.kind /\ b.ref = old.ref
          /\ b.call = old.call /\ b.on = base.on
    BY <1>1, <1>3, AsEndedIs
  <2> QED
    BY <1>a, <2>1, Zenon
<1>4. /\ task \in TaskRec
      /\ task.status = "done" /\ task.outcome = outcome /\ task.kind = old.kind /\ task.ref = old.ref
      /\ task.call = old.call /\ task.on = {}
  BY <1>3, <1>b
<1> DEFINE new == SetTask(tx, t, task)
<1> HIDE DEF task
<1>5. /\ new \in TxRec
      /\ new.entries = tx.entries /\ new.subs = tx.subs /\ new.inbox = tx.inbox /\ new.live = tx.live
      /\ Len(new.tasks) = Len(tx.tasks) /\ DOMAIN new.tasks = DOMAIN tx.tasks
      /\ new.tasks[t] = task
      /\ \A i \in DOMAIN tx.tasks : i # t => new.tasks[i] = tx.tasks[i]
  BY <1>4, SetTaskIs
<1>6. Ended(tx, t, outcome) = new
  BY <1>2
<1> HIDE DEF new
<1>7. /\ new.tasks[t].status = "done" /\ new.tasks[t].outcome = outcome /\ new.tasks[t].on = {}
      /\ new.tasks[t].kind = tx.tasks[t].kind /\ new.tasks[t].ref = tx.tasks[t].ref
      /\ new.tasks[t].call = tx.tasks[t].call
  BY <1>4, <1>5 DEF old
<1> QED
  BY <1>5, <1>6, <1>7

(* A generation ends: the conversation rests, or the run has a new task.       *)
LEMMA GenEnds ==
    ASSUME NEW tx \in TxRec, TasksAgree(tx), NEW t \in LiveOf(tx, "gen"), OwnsDone(tx, t),
           NEW mid, Recorded(tx, mid), mid.live.compactions = tx.live.compactions,
           \/ mid.tasks = tx.tasks /\ ~Busy(mid)
           \/ /\ Len(mid.tasks) = Len(tx.tasks) + 1
              /\ \A c \in DOMAIN tx.tasks : mid.tasks[c] = tx.tasks[c]
              /\ mid.tasks[Len(tx.tasks) + 1] = NewTask
              /\ mid.live.run.task = Len(tx.tasks) + 1,
           NEW outcome \in Outcomes
    PROVE  LET new == Ended(mid, t, outcome) IN
           /\ Moves(tx, new, t) /\ new.entries = mid.entries
           /\ new.tasks[t].status = "done" /\ new.tasks[t].outcome = outcome
           /\ new.tasks[t].kind = "gen" /\ new.tasks[t].ref = tx.tasks[t].ref
           /\ \A c \in DOMAIN new.tasks : c > Len(tx.tasks) => new.tasks[c].kind # "tool"
<1> DEFINE new == Ended(mid, t, outcome)
           n == Len(tx.tasks) + 1
<1>1. mid \in TxRec /\ t \in DOMAIN tx.tasks /\ tx.tasks[t].kind = "gen" /\ tx.tasks[t].status = "live"
  BY DEF Recorded, LiveOf
<1>2. /\ DOMAIN tx.tasks = 1 .. Len(tx.tasks) /\ Len(tx.tasks) \in Nat
      /\ DOMAIN mid.tasks = 1 .. Len(mid.tasks) /\ Len(mid.tasks) \in Nat
  BY <1>1, TxFields
<1>3. /\ Len(tx.tasks) <= Len(mid.tasks) /\ DOMAIN tx.tasks \subseteq DOMAIN mid.tasks
      /\ \A c \in DOMAIN tx.tasks : mid.tasks[c] = tx.tasks[c]
  BY <1>2
<1>4. /\ new \in TxRec
      /\ new.entries = mid.entries /\ new.subs = mid.subs /\ new.inbox = mid.inbox /\ new.live = mid.live
      /\ Len(new.tasks) = Len(mid.tasks) /\ DOMAIN new.tasks = DOMAIN mid.tasks
      /\ \A i \in DOMAIN mid.tasks : i # t => new.tasks[i] = mid.tasks[i]
      /\ new.tasks[t].status = "done" /\ new.tasks[t].outcome = outcome /\ new.tasks[t].on = {}
      /\ new.tasks[t].kind = "gen" /\ new.tasks[t].ref = tx.tasks[t].ref
  <2>1. t \in DOMAIN mid.tasks /\ mid.tasks[t] = tx.tasks[t]
    BY <1>1, <1>3
  <2> QED
    BY <1>1, <2>1, EndedIs
<1> HIDE DEF new
<1>5. \A c \in DOMAIN tx.tasks : c # t => Alike(tx.tasks[c], new.tasks[c])
  BY <1>3, <1>4 DEF Alike
<1>6. Changed(tx, new, t)
  BY <1>1, <1>2, <1>3, <1>4, <1>5 DEF Changed
<1>7. ASSUME NEW c \in DOMAIN new.tasks, c > Len(tx.tasks)
      PROVE  c = n /\ new.tasks[c] = NewTask /\ new.live.run.task = n
  <2>1. c \notin DOMAIN tx.tasks /\ c # t
    BY <1>1, <1>2, <1>7
  <2>2. mid.tasks # tx.tasks
    BY <1>4, <1>7, <2>1
  <2>3. Len(mid.tasks) = n /\ mid.tasks[n] = NewTask /\ mid.live.run.task = n
    BY <2>2
  <2>4. c = n
    BY <1>2, <1>4, <1>7, <2>3
  <2> QED
    BY <1>4, <1>7, <2>1, <2>3, <2>4
<1>8. \A c \in DOMAIN new.tasks : c > Len(tx.tasks) => Created(new, c, t) /\ new.tasks[c].kind = "gen" /\ new.tasks[c].status = "live"
  BY <1>7 DEF Created, NewTask
<1>9. NewOf(tx, new, "comp") = {}
  BY <1>8 DEF NewOf
<1>10. ListAgrees(new)
  <2>1. t \notin LiveOf(tx, "comp") /\ ListAgrees(tx)
    BY <1>1 DEF LiveOf, TasksAgree
  <2> QED
    BY <1>4, <1>6, <1>9, <2>1, ListStays
<1>11. RunAgrees(new)
  <2>0. RunAgrees(tx)
    BY DEF TasksAgree
  <2>1. CASE mid.tasks = tx.tasks /\ ~Busy(mid)
    <3>1. NewOf(tx, new, "gen") = {}
      BY <1>2, <1>4, <2>1 DEF NewOf
    <3>2. ~Busy(new)
      BY <1>4, <2>1 DEF Busy
    <3> QED
      BY <1>4, <1>6, <2>0, <3>1, <3>2, RunOver
  <2>2. CASE /\ Len(mid.tasks) = Len(tx.tasks) + 1
              /\ mid.live.run.task = Len(tx.tasks) + 1
    <3>1. n \in DOMAIN new.tasks /\ n > Len(tx.tasks)
      BY <1>2, <1>4, <2>2
    <3>2. NewOf(tx, new, "gen") = {n}
      BY <1>7, <1>8, <3>1 DEF NewOf
    <3>3. new.live.run.task = n
      BY <1>4, <2>2
    <3> QED
      BY <1>4, <1>6, <2>0, <3>2, <3>3, RunPasses
  <2> QED
    BY <2>1, <2>2
<1>12. Recorded(tx, new)
  BY <1>4, RecordedSame
<1>13. Calm(tx, new, t)
  BY DEF Calm, Stirs
<1>14. Acts(tx, new, t)
  BY <1>1, <1>4 DEF Acts
<1>15. Moves(tx, new, t)
  BY <1>2, <1>3, <1>4, <1>5, <1>6, <1>8, <1>10, <1>11, <1>12, <1>13, <1>14 DEF Moves, Changed
<1> QED
  BY <1>4, <1>8, <1>15 DEF new

(* A step of `t` after which it goes on.                                      *)
Continued(tx, tx2, t) ==
    /\ Recorded(tx, tx2) /\ t \in DOMAIN tx.tasks /\ tx.tasks[t].status = "live"
    /\ tx.tasks[t].kind = "gen" => OwnsDone(tx, t)
    /\ Len(tx.tasks) <= Len(tx2.tasks)
    /\ \A c \in DOMAIN tx.tasks : c # t => Alike(tx.tasks[c], tx2.tasks[c])
    /\ tx2.tasks[t].kind = tx.tasks[t].kind /\ tx2.tasks[t].owner = tx.tasks[t].owner
    /\ tx2.tasks[t].status = "live" /\ tx2.tasks[t].outcome = "none"
    /\ tx2.tasks[t].on \subseteq DOMAIN tx2.tasks
    /\ tx.tasks[t].kind = "tool" => tx2.tasks[t].ref = tx.tasks[t].ref
    /\ \A c \in DOMAIN tx2.tasks : c > Len(tx.tasks) => Created(tx2, c, t) /\ tx2.tasks[c].kind # "gen"
    /\ tx2.live.run = tx.live.run
    /\ \/ /\ tx2.live.compactions = tx.live.compactions
          /\ \A c \in DOMAIN tx2.tasks : c > Len(tx.tasks) => tx2.tasks[c].kind # "comp"
       \/ /\ tx2.live.compactions = Append(tx.live.compactions, Len(tx.tasks) + 1)
          /\ Len(tx2.tasks) = Len(tx.tasks) + 1 /\ tx2.tasks[Len(tx.tasks) + 1].kind = "comp"
    /\ tx.tasks[t].kind = "comp" => tx2.entries = tx.entries

(* The new compaction a step created is the one it lists.                      *)
LEMMA OneNew ==
    ASSUME NEW tx \in TxRec, NEW tx2 \in TxRec, Len(tx2.tasks) = Len(tx.tasks) + 1, NEW kind,
           tx2.tasks[Len(tx.tasks) + 1].kind = kind, tx2.tasks[Len(tx.tasks) + 1].status = "live"
    PROVE  NewOf(tx, tx2, kind) = {Len(tx.tasks) + 1}
<1> DEFINE n == Len(tx.tasks) + 1
<1>1. /\ Len(tx.tasks) \in Nat /\ DOMAIN tx2.tasks = 1 .. n
  BY TxFields
<1>2. n \in DOMAIN tx2.tasks /\ n > Len(tx.tasks) /\ \A c \in DOMAIN tx2.tasks : c > Len(tx.tasks) => c = n
  BY <1>1
<1> HIDE DEF n
<1>3. tx2.tasks[n].kind = kind /\ tx2.tasks[n].status = "live"
  BY DEF n
<1>4. \A c : c \in NewOf(tx, tx2, kind) <=> c = n
  BY <1>2, <1>3 DEF NewOf
<1> QED
  BY <1>4 DEF n

(* A task that goes on to its next phase leaves the other tasks, the run and  *)
(* the list of compactions as they agree.                                     *)
LEMMA GoesOn ==
    ASSUME NEW tx \in TxRec, TasksAgree(tx), NEW tx2, NEW t, Continued(tx, tx2, t)
    PROVE  Moves(tx, tx2, t)
<1>1. tx2 \in TxRec /\ Recorded(tx, tx2) /\ t \in DOMAIN tx.tasks /\ tx.tasks[t].status = "live"
  BY DEF Continued, Recorded
<1>2. /\ DOMAIN tx.tasks = 1 .. Len(tx.tasks) /\ Len(tx.tasks) \in Nat
      /\ DOMAIN tx2.tasks = 1 .. Len(tx2.tasks) /\ Len(tx2.tasks) \in Nat
  BY <1>1, TxFields
<1>3. t \in 0 .. Len(tx.tasks) /\ t \in 1 .. Len(tx.tasks)
  BY <1>1, <1>2
<1>4. Changed(tx, tx2, t)
  BY <1>1, <1>3 DEF Continued, Changed
<1>5. Acts(tx, tx2, t)
  BY <1>1 DEF Continued, Acts
<1>6. Calm(tx, tx2, t)
  <2>1. tx.tasks[t].kind \in {"gen", "tool", "comp"}
    BY <1>1, TaskFields
  <2>2. tx2.entries = tx.entries => \A i \in DOMAIN tx2.entries : ~(i > Len(tx.entries))
    BY TxFields
  <2>3. Stirs(tx, t) \/ tx.tasks[t].kind = "comp"
    BY <1>1, <2>1 DEF Stirs, LiveOf
  <2> QED
    BY <2>2, <2>3 DEF Continued, Calm
<1>7. RunAgrees(tx2)
  <2>1. NewOf(tx, tx2, "gen") = {}
    BY DEF Continued, NewOf
  <2>2. tx2.live.run.task = tx.live.run.task /\ (Busy(tx2) <=> Busy(tx)) /\ tx2.tasks[t].status = "live" /\ RunAgrees(tx)
    BY DEF Continued, Busy, TasksAgree
  <2> QED
    BY <1>4, <2>1, <2>2, RunStays
<1>8. ListAgrees(tx2)
  <2>1. ListAgrees(tx) /\ tx2.tasks[t].status = "live"
    BY DEF TasksAgree, Continued
  <2>2. CASE /\ tx2.live.compactions = tx.live.compactions
             /\ \A c \in DOMAIN tx2.tasks : c > Len(tx.tasks) => tx2.tasks[c].kind # "comp"
    <3>1. NewOf(tx, tx2, "comp") = {}
      BY <2>2 DEF NewOf
    <3> QED
      BY <1>4, <2>1, <2>2, <3>1, ListStays
  <2>3. CASE /\ tx2.live.compactions = Append(tx.live.compactions, Len(tx.tasks) + 1)
             /\ Len(tx2.tasks) = Len(tx.tasks) + 1 /\ tx2.tasks[Len(tx.tasks) + 1].kind = "comp"
    <3>1. Len(tx.tasks) + 1 \in DOMAIN tx2.tasks /\ Len(tx.tasks) + 1 > Len(tx.tasks)
      BY <1>2, <2>3
    <3>2. tx2.tasks[Len(tx.tasks) + 1].status = "live"
      BY <3>1 DEF Continued, Created
    <3>3. NewOf(tx, tx2, "comp") = {Len(tx.tasks) + 1}
      BY <1>1, <2>3, <3>2, OneNew
    <3> QED
      BY <1>4, <2>1, <2>3, <3>3, ListGrows
  <2> QED
    BY <2>2, <2>3 DEF Continued
<1> QED
  BY <1>1, <1>3, <1>5, <1>6, <1>7, <1>8 DEF Continued, Moves

-----------------------------------------------------------------------------
(* A tool or a compaction ends.                                               *)
Concluded(tx, mid, t) ==
    /\ Recorded(tx, mid) /\ t \in DOMAIN tx.tasks /\ tx.tasks[t].status = "live"
    /\ tx.tasks[t].kind \in {"tool", "comp"}
    /\ \/ mid.tasks = tx.tasks /\ mid.live.run = tx.live.run
       \/ /\ ~Busy(tx) /\ Len(mid.tasks) = Len(tx.tasks) + 1
          /\ \A c \in DOMAIN tx.tasks : mid.tasks[c] = tx.tasks[c]
          /\ mid.tasks[Len(tx.tasks) + 1] = NewTask
          /\ mid.live.run.task = Len(tx.tasks) + 1
    /\ mid.live.compactions = IF tx.tasks[t].kind = "tool" THEN tx.live.compactions
                              ELSE RemoveCompactionStatus(tx, t).live.compactions
    /\ Busy(tx) /\ tx.tasks[t].kind = "comp" /\ tx.tasks[t].owner = 0 =>
         \A i \in DOMAIN mid.entries : i > Len(tx.entries) => mid.entries[i].kind = "display"

(* A task that ends leaves the other tasks, the run and the list of           *)
(* compactions as they agree.                                                 *)
LEMMA Concludes ==
    ASSUME NEW tx \in TxRec, TasksAgree(tx), NEW t, NEW mid, Concluded(tx, mid, t), NEW outcome \in Outcomes
    PROVE  LET new == Ended(mid, t, outcome) IN
           /\ Moves(tx, new, t) /\ new.entries = mid.entries
           /\ new.tasks[t].status = "done" /\ new.tasks[t].outcome = outcome
           /\ new.tasks[t].kind = tx.tasks[t].kind /\ new.tasks[t].ref = tx.tasks[t].ref
           /\ new.tasks[t].call = tx.tasks[t].call
           /\ Len(new.tasks) = Len(mid.tasks)
           /\ \A c \in DOMAIN new.tasks : c > Len(tx.tasks) => new.tasks[c].kind # "tool"
<1> DEFINE new == Ended(mid, t, outcome)
           n == Len(tx.tasks) + 1
<1>1. mid \in TxRec /\ Recorded(tx, mid) /\ t \in DOMAIN tx.tasks /\ tx.tasks[t].status = "live" /\ tx.tasks[t].kind \in {"tool", "comp"}
  BY DEF Concluded, Recorded
<1>2. /\ DOMAIN tx.tasks = 1 .. Len(tx.tasks) /\ Len(tx.tasks) \in Nat
      /\ DOMAIN mid.tasks = 1 .. Len(mid.tasks) /\ Len(mid.tasks) \in Nat
  BY <1>1, TxFields
<1>3. /\ Len(tx.tasks) <= Len(mid.tasks) /\ DOMAIN tx.tasks \subseteq DOMAIN mid.tasks
      /\ \A c \in DOMAIN tx.tasks : mid.tasks[c] = tx.tasks[c]
  BY <1>2 DEF Concluded
<1>4. /\ new \in TxRec
      /\ new.entries = mid.entries /\ new.subs = mid.subs /\ new.inbox = mid.inbox /\ new.live = mid.live
      /\ Len(new.tasks) = Len(mid.tasks) /\ DOMAIN new.tasks = DOMAIN mid.tasks
      /\ \A i \in DOMAIN mid.tasks : i # t => new.tasks[i] = mid.tasks[i]
      /\ new.tasks[t].status = "done" /\ new.tasks[t].outcome = outcome /\ new.tasks[t].on = {}
      /\ new.tasks[t].kind = tx.tasks[t].kind /\ new.tasks[t].ref = tx.tasks[t].ref
      /\ new.tasks[t].call = tx.tasks[t].call
  <2>1. t \in DOMAIN mid.tasks /\ mid.tasks[t] = tx.tasks[t]
    BY <1>1, <1>3
  <2> QED
    BY <1>1, <2>1, EndedIs
<1> HIDE DEF new
<1>5. \A c \in DOMAIN tx.tasks : c # t => Alike(tx.tasks[c], new.tasks[c])
  BY <1>3, <1>4 DEF Alike
<1>6. Changed(tx, new, t)
  BY <1>1, <1>2, <1>3, <1>4, <1>5 DEF Changed
<1>7. ASSUME NEW c \in DOMAIN new.tasks, c > Len(tx.tasks)
      PROVE  c = n /\ new.tasks[c] = NewTask /\ ~Busy(tx)
  <2>1. c \notin DOMAIN tx.tasks /\ c # t
    BY <1>1, <1>2, <1>7
  <2>2. mid.tasks # tx.tasks
    BY <1>4, <1>7, <2>1
  <2>3. Len(mid.tasks) = n /\ mid.tasks[n] = NewTask /\ ~Busy(tx)
    BY <2>2 DEF Concluded
  <2>4. c = n
    BY <1>2, <1>4, <1>7, <2>3
  <2> QED
    BY <1>4, <1>7, <2>1, <2>3, <2>4
<1>8. \A c \in DOMAIN new.tasks : c > Len(tx.tasks) => Created(new, c, t) /\ new.tasks[c].kind = "gen" /\ new.tasks[c].status = "live"
  BY <1>7 DEF Created, NewTask
<1>9. NewOf(tx, new, "comp") = {}
  BY <1>8 DEF NewOf
<1>10. ListAgrees(new)
  <2>1. ListAgrees(tx)
    BY DEF TasksAgree
  <2>2. CASE tx.tasks[t].kind = "tool"
    <3>1. t \notin LiveOf(tx, "comp") /\ new.live.compactions = tx.live.compactions
      BY <1>4, <2>2 DEF LiveOf, Concluded
    <3> QED
      BY <1>6, <1>9, <2>1, <3>1, ListStays
  <2>3. CASE tx.tasks[t].kind = "comp"
    <3>1. t \in LiveOf(tx, "comp") /\ new.live.compactions = RemoveCompactionStatus(tx, t).live.compactions
      BY <1>1, <1>4, <2>3 DEF LiveOf, Concluded
    <3> QED
      BY <1>4, <1>6, <1>9, <2>1, <3>1, ListShrinks
  <2> QED
    BY <1>1, <2>2, <2>3
<1>11. RunAgrees(new)
  <2>0. RunAgrees(tx) /\ t \notin LiveOf(tx, "gen")
    BY <1>1 DEF TasksAgree, LiveOf
  <2>1. CASE mid.tasks = tx.tasks /\ mid.live.run = tx.live.run
    <3>1. NewOf(tx, new, "gen") = {}
      BY <1>2, <1>4, <2>1 DEF NewOf
    <3>2. new.live.run.task = tx.live.run.task /\ (Busy(new) <=> Busy(tx))
      BY <1>4, <2>1 DEF Busy
    <3> QED
      BY <1>6, <2>0, <3>1, <3>2, RunStays
  <2>2. CASE ~(mid.tasks = tx.tasks /\ mid.live.run = tx.live.run)
    <3>1. ~Busy(tx) /\ Len(mid.tasks) = n /\ mid.live.run.task = n
      BY <2>2 DEF Concluded
    <3>2. n \in DOMAIN new.tasks /\ n > Len(tx.tasks)
      BY <1>2, <1>4, <3>1
    <3>3. NewOf(tx, new, "gen") = {n}
      BY <1>7, <1>8, <3>2 DEF NewOf
    <3>4. new.live.run.task = n
      BY <1>4, <3>1
    <3> QED
      BY <1>6, <2>0, <3>1, <3>3, <3>4, RunPasses
  <2> QED
    BY <2>1, <2>2
<1>12. Recorded(tx, new)
  BY <1>1, <1>4, RecordedSame
<1>13. Calm(tx, new, t)
  <2>1. Busy(tx) => new.live.run = tx.live.run
    BY <1>4 DEF Concluded
  <2>2. Stirs(tx, t) \/ (tx.tasks[t].kind = "comp" /\ tx.tasks[t].owner = 0)
    BY <1>1 DEF Stirs, LiveOf
  <2>3. Busy(tx) /\ ~Stirs(tx, t) => \A i \in DOMAIN new.entries : i > Len(tx.entries) => new.entries[i].kind = "display"
    BY <1>4, <2>2 DEF Concluded
  <2> QED
    BY <2>1, <2>3 DEF Calm
<1>14. Acts(tx, new, t)
  BY <1>1, <1>4 DEF Acts
<1>15. Moves(tx, new, t)
  BY <1>3, <1>4, <1>5, <1>6, <1>8, <1>10, <1>11, <1>12, <1>13, <1>14 DEF Moves, Changed
<1> QED
  BY <1>4, <1>8, <1>15 DEF new

-----------------------------------------------------------------------------
(* Calls of the host, aborts and marks.                                    *)

(* A step nobody's task takes: the host's, or the scheduler's marks.           *)
Attended(tx, tx2) ==
    LET n == Len(tx.tasks) + 1 IN
    /\ Recorded(tx, tx2) /\ Len(tx.tasks) <= Len(tx2.tasks)
    /\ \A c \in DOMAIN tx.tasks : Alike(tx.tasks[c], tx2.tasks[c])
    /\ Busy(tx) => \A i \in DOMAIN tx2.entries : i > Len(tx.entries) => tx2.entries[i].kind = "display"
    /\ \/ Len(tx2.tasks) = Len(tx.tasks) /\ tx2.live.run = tx.live.run /\ tx2.live.compactions = tx.live.compactions
       \/ /\ ~Busy(tx) /\ Len(tx2.tasks) = n /\ tx2.tasks[n] = NewTask
          /\ tx2.live.run.task = n /\ tx2.live.compactions = tx.live.compactions
       \/ /\ Len(tx2.tasks) = n /\ tx2.tasks[n].kind = "comp" /\ Created(tx2, n, 0)
          /\ tx2.live.run = tx.live.run /\ tx2.live.compactions = Append(tx.live.compactions, n)

(* A host call marks tasks, starts a run or adds a compaction, and no task    *)
(* acts in it.                                                                *)
LEMMA Attends ==
    ASSUME NEW tx \in TxRec, TasksAgree(tx), NEW tx2, Attended(tx, tx2)
    PROVE  /\ Moves(tx, tx2, 0)
           /\ \A c \in DOMAIN tx2.tasks : c > Len(tx.tasks) => tx2.tasks[c].kind # "tool"
<1> DEFINE n == Len(tx.tasks) + 1
           zero == 0
<1>1. tx2 \in TxRec /\ Recorded(tx, tx2) /\ Len(tx.tasks) <= Len(tx2.tasks)
  BY DEF Attended, Recorded
<1>2. /\ DOMAIN tx.tasks = 1 .. Len(tx.tasks) /\ Len(tx.tasks) \in Nat
      /\ DOMAIN tx2.tasks = 1 .. Len(tx2.tasks) /\ Len(tx2.tasks) \in Nat
  BY <1>1, TxFields
<1>3. zero \notin DOMAIN tx.tasks /\ zero \in 0 .. Len(tx.tasks)
  BY <1>2
<1> HIDE DEF zero
<1>4. \A c \in DOMAIN tx.tasks : c # zero => Alike(tx.tasks[c], tx2.tasks[c])
  BY DEF Attended
<1>5. Changed(tx, tx2, zero)
  BY <1>1, <1>3, <1>4 DEF Changed
<1>6. Acts(tx, tx2, zero)
  BY <1>3 DEF Acts
<1>7. \A kind : zero \notin LiveOf(tx, kind)
  BY <1>3 DEF LiveOf
<1>8. RunAgrees(tx) /\ ListAgrees(tx)
  BY DEF TasksAgree
<1>9. CASE Len(tx2.tasks) = Len(tx.tasks) /\ tx2.live.run = tx.live.run /\ tx2.live.compactions = tx.live.compactions
  <2>1. \A c \in DOMAIN tx2.tasks : ~(c > Len(tx.tasks))
    BY <1>2, <1>9
  <2>2. NewOf(tx, tx2, "gen") = {} /\ NewOf(tx, tx2, "comp") = {}
    BY <2>1 DEF NewOf
  <2>3. Busy(tx2) <=> Busy(tx)
    BY <1>9 DEF Busy
  <2>4. RunAgrees(tx2)
    BY <1>5, <1>7, <1>8, <1>9, <2>2, <2>3, RunStays
  <2>5. ListAgrees(tx2)
    BY <1>5, <1>7, <1>8, <1>9, <2>2, ListStays
  <2>6. Calm(tx, tx2, zero)
    BY <1>9 DEF Attended, Calm
  <2>7. Moves(tx, tx2, zero)
    BY <1>1, <1>3, <1>4, <1>6, <2>1, <2>4, <2>5, <2>6 DEF Moves
  <2> QED
    BY <2>1, <2>7 DEF zero
<1>10. CASE /\ ~Busy(tx) /\ Len(tx2.tasks) = n /\ tx2.tasks[n] = NewTask
            /\ tx2.live.run.task = n /\ tx2.live.compactions = tx.live.compactions
  <2>1. \A c \in DOMAIN tx2.tasks : c > Len(tx.tasks) => tx2.tasks[c] = NewTask
    BY <1>2, <1>10
  <2>2. \A c \in DOMAIN tx2.tasks : c > Len(tx.tasks) => Created(tx2, c, zero) /\ tx2.tasks[c].kind = "gen"
    BY <2>1 DEF Created, NewTask
  <2>3. NewOf(tx, tx2, "comp") = {}
    BY <2>2 DEF NewOf
  <2>4. tx2.tasks[n].kind = "gen" /\ tx2.tasks[n].status = "live"
    BY <1>10 DEF NewTask
  <2>5. NewOf(tx, tx2, "gen") = {n}
    BY <1>1, <1>10, <2>4, OneNew
  <2>6. RunAgrees(tx2)
    BY <1>5, <1>8, <1>10, <2>5, RunPasses
  <2>7. ListAgrees(tx2)
    BY <1>5, <1>7, <1>8, <1>10, <2>3, ListStays
  <2>8. Calm(tx, tx2, zero)
    BY <1>10 DEF Attended, Calm
  <2>9. Moves(tx, tx2, zero)
    BY <1>1, <1>3, <1>4, <1>6, <2>2, <2>6, <2>7, <2>8 DEF Moves
  <2> QED
    BY <2>2, <2>9 DEF zero
<1>11. CASE /\ Len(tx2.tasks) = n /\ tx2.tasks[n].kind = "comp" /\ Created(tx2, n, 0)
            /\ tx2.live.run = tx.live.run /\ tx2.live.compactions = Append(tx.live.compactions, n)
  <2>1. \A c \in DOMAIN tx2.tasks : c > Len(tx.tasks) => c = n
    BY <1>2, <1>11
  <2>2. \A c \in DOMAIN tx2.tasks : c > Len(tx.tasks) => Created(tx2, c, zero) /\ tx2.tasks[c].kind = "comp"
    BY <1>11, <2>1 DEF zero
  <2>3. NewOf(tx, tx2, "gen") = {}
    BY <2>2 DEF NewOf
  <2>4. tx2.tasks[n].status = "live"
    BY <1>11 DEF Created
  <2>5. NewOf(tx, tx2, "comp") = {n}
    BY <1>1, <1>11, <2>4, OneNew
  <2>6. Busy(tx2) <=> Busy(tx)
    BY <1>11 DEF Busy
  <2>7. RunAgrees(tx2)
    BY <1>5, <1>7, <1>8, <1>11, <2>3, <2>6, RunStays
  <2>8. ListAgrees(tx2)
    BY <1>5, <1>7, <1>8, <1>11, <2>5, ListGrows
  <2>9. Calm(tx, tx2, zero)
    BY <1>11 DEF Attended, Calm
  <2>10. Moves(tx, tx2, zero)
    BY <1>1, <1>3, <1>4, <1>6, <2>2, <2>7, <2>8, <2>9 DEF Moves
  <2> QED
    BY <2>2, <2>10 DEF zero
<1> QED
  BY <1>9, <1>10, <1>11 DEF Attended

-----------------------------------------------------------------------------
(* A step of a task keeps the records in agreement if its own part does, and   *)
(* the calls do.                                                             *)
LEMMA StepKeeps ==
    ASSUME NEW tx, Sound(tx), NEW tx2, NEW t, Moves(tx, tx2, t), CallsAgree(tx2),
           t \in DOMAIN tx.tasks => SummaryFits(tx2, t) /\ AskedFits(tx2, t)
    PROVE  Sound(tx2)
<1>1. /\ tx \in TxRec /\ TxInv(tx, DOMAIN tx.inbox, {}) /\ TasksAgree(tx)
      /\ \A c \in DOMAIN tx.tasks : SummaryFits(tx, c) /\ AskedFits(tx, c)
  BY DEF Sound
<1>2. tx2 \in TxRec /\ TxInv(tx2, DOMAIN tx2.inbox, {}) /\ Fresh(tx2, Range(tx2.live.run.inputs))
      /\ t \in 0 .. Len(tx.tasks)
  BY DEF Moves, Recorded
<1>3. TasksAgree(tx2)
  BY <1>1, TasksKeep
<1>4. ASSUME NEW c \in DOMAIN tx2.tasks
      PROVE  SummaryFits(tx2, c) /\ AskedFits(tx2, c)
  <2>1. CASE c # t
    BY <1>1, <1>4, <2>1, SummariesKeep, AskedKeeps
  <2>2. CASE c = t
    <3>1. c \in 1 .. Len(tx2.tasks)
      BY <1>2, <1>4, TxFields
    <3>2. t \in DOMAIN tx.tasks
      BY <1>1, <1>2, <2>2, <3>1, TxFields
    <3> QED
      BY <2>2, <3>2
  <2> QED
    BY <2>1, <2>2
<1> QED
  BY <1>2, <1>3, <1>4 DEF Sound

(* A step keeps the invariant, and takes nothing back.                        *)
Onward == IInv' /\ Forward(db, db')

(* A commit after which the records agree and every handler that is left fits *)
(* its task keeps the invariant.                                              *)
LEMMA CommitKeeps ==
    ASSUME IInv, env' = env, NEW t, Moves(db, db', t), CallsAgree(db'),
           t \in DOMAIN db.tasks => SummaryFits(db', t) /\ AskedFits(db', t),
           \A l \in local' :
             \/ l \in local /\ l.task # t /\ db'.tasks[l.task].status = "live" /\ ~db'.tasks[l.task].marked
             \/ LocalFits(db', l)
    PROVE  Onward
<1>1. env \in Stories /\ Sound(db) /\ \A l \in local : LocalFits(db, l)
  BY DEF IInv
<1>2. Sound(db')
  BY <1>1, StepKeeps
<1>3. db \in TxRec /\ TxInv(db, DOMAIN db.inbox, {}) /\ TasksAgree(db)
  BY <1>1 DEF Sound
<1>4. \A l \in local' : LocalFits(db', l)
  BY <1>1, <1>3, LocalsKeep
<1>5. Forward(db, db')
  BY DEF Moves, Recorded
<1>6. IInv'
  BY <1>1, <1>2, <1>4 DEF IInv
<1> QED
  BY <1>5, <1>6 DEF Onward

(* The parts of the invariant.                                                *)
LEMMA SoundParts ==
    ASSUME NEW tx, Sound(tx)
    PROVE  /\ tx \in TxRec /\ TxInv(tx, DOMAIN tx.inbox, {}) /\ Fresh(tx, Range(tx.live.run.inputs))
           /\ TasksAgree(tx) /\ CallsAgree(tx) /\ Recorded(tx, tx) /\ Carries(tx, tx, {})
           /\ \A t \in DOMAIN tx.tasks : SummaryFits(tx, t) /\ AskedFits(tx, t)
<1>1. /\ tx \in TxRec /\ TxInv(tx, DOMAIN tx.inbox, {}) /\ Fresh(tx, Range(tx.live.run.inputs))
      /\ TasksAgree(tx) /\ CallsAgree(tx)
      /\ \A t \in DOMAIN tx.tasks : SummaryFits(tx, t) /\ AskedFits(tx, t)
  BY DEF Sound
<1>2. Carries(tx, tx, {})
  BY <1>1, CarriesSelf
<1>3. Recorded(tx, tx)
  BY <1>1, <1>2 DEF Carries, Recorded
<1> QED
  BY <1>1, <1>2, <1>3

(* A step of the host or the scheduler.                                       *)
LEMMA HostKeeps ==
    ASSUME IInv, env' = env, Attended(db, db'), local' = Kept(db'),
           \A i \in DOMAIN db'.entries : i > Len(db.entries) => db'.entries[i].kind # "result" /\ db'.entries[i].calls = {}
    PROVE  Onward
<1>1. Sound(db) /\ \A l \in local : LocalFits(db, l)
  BY DEF IInv
<1>2. db \in TxRec /\ TasksAgree(db) /\ CallsAgree(db)
  BY <1>1, SoundParts
<1>3. /\ Moves(db, db', 0)
      /\ \A c \in DOMAIN db'.tasks : c > Len(db.tasks) => db'.tasks[c].kind # "tool"
  BY <1>2, Attends
<1> DEFINE zero == 0
<1>4. zero \notin DOMAIN db.tasks /\ Moves(db, db', zero)
  BY <1>2, <1>3, TxFields
<1> HIDE DEF zero
<1>5. zero \notin LiveOf(db, "tool") /\ zero \notin LiveOf(db, "gen")
  BY <1>4 DEF LiveOf
<1>6. SameHands(db, db')
  BY <1>2, <1>3, <1>4, <1>5, HandsSame
<1>7. CallsAgree(db')
  BY <1>2, <1>4, <1>6, CallsQuiet
<1>8. \A l \in local' : l \in local /\ l.task # zero /\ db'.tasks[l.task].status = "live" /\ ~db'.tasks[l.task].marked
  <2> SUFFICES ASSUME NEW l \in local'
               PROVE  l \in local /\ l.task # zero /\ db'.tasks[l.task].status = "live" /\ ~db'.tasks[l.task].marked
    OBVIOUS
  <2>1. l \in local /\ db'.tasks[l.task].status = "live" /\ ~db'.tasks[l.task].marked
    BY DEF Kept
  <2>2. l.task \in DOMAIN db.tasks
    BY <1>1, <2>1 DEF LocalFits
  <2> QED
    BY <1>4, <2>1, <2>2
<1> QED
  BY <1>4, <1>7, <1>8, CommitKeeps

-----------------------------------------------------------------------------
(* What a story may submit can be admitted.                                   *)
LEMMA BlankType ==
    /\ Blank \in EntryRec /\ Blank.kind = "user" /\ Blank.head = 0 /\ Blank.by = 0 /\ Blank.cover = {}
    /\ Blank.ref = 0 /\ Blank.call = 0 /\ Blank.calls = {}
BY DEF Blank, EntryRec, EntryKinds

(* The drafts a host may submit.                                              *)
LEMMA DraftIs ==
    ASSUME NEW draft \in Drafts
    PROVE  /\ draft.entry \in EntryRec /\ draft.entry.by = 0 /\ draft.entry.calls = {}
           /\ draft.entry.cover = {} /\ draft.entry.head = 0
           /\ draft.type \in {"input", "write"} /\ draft.busy \in {"steer", "followUp", "reject"}
           /\ draft.type = "input" => draft.entry.kind = "user"
           /\ draft.type = "write" => draft.entry.kind \in {"note", "display", "reset", "cut"}
<1> DEFINE written == {[Blank EXCEPT !.kind = kind] : kind \in {"note", "display", "reset", "cut"}}
           busy == {"steer", "followUp", "reject"}
<1>1. draft \in [type : {"input"}, busy : busy, entry : {Blank}] \/ draft \in [type : {"write"}, busy : busy, entry : written]
  BY DEF Drafts
<1>2. ASSUME NEW e \in written
      PROVE  /\ e \in EntryRec /\ e.by = 0 /\ e.calls = {} /\ e.cover = {} /\ e.head = 0
             /\ e.kind \in {"note", "display", "reset", "cut"}
  BY <1>2 DEF Blank, EntryRec, EntryKinds
<1> HIDE DEF written
<1>3. CASE draft \in [type : {"input"}, busy : busy, entry : {Blank}]
  <2>1. draft.type = "input" /\ draft.busy \in busy /\ draft.entry = Blank
    BY <1>3
  <2> QED
    BY <2>1, BlankType
<1>4. CASE draft \in [type : {"write"}, busy : busy, entry : written]
  <2>1. draft.type = "write" /\ draft.busy \in busy /\ draft.entry \in written
    BY <1>4
  <2> QED
    BY <1>2, <2>1
<1> QED
  BY <1>1, <1>3, <1>4

(* The draft of a submission is good, and so is a cut at an entry there is.   *)
LEMMA DraftsAreGood ==
    ASSUME NEW tx \in TxRec, NEW draft \in Drafts
    PROVE  /\ draft.entry.kind # "cut" => GoodDraft(tx, draft)
           /\ draft.entry.kind = "cut" => \A n \in DOMAIN tx.entries : GoodDraft(tx, [draft EXCEPT !.entry.head = n])
<1>1. /\ draft.entry \in EntryRec /\ draft.entry.by = 0 /\ draft.entry.calls = {}
      /\ draft.entry.cover = {} /\ draft.entry.head = 0
      /\ draft.type \in {"input", "write"} /\ draft.busy \in {"steer", "followUp", "reject"}
      /\ draft.type = "input" => draft.entry.kind = "user"
      /\ draft.type = "write" => draft.entry.kind \in {"note", "display", "reset", "cut"}
  BY DraftIs
<1>2. Len(tx.entries) \in Nat /\ DOMAIN tx.entries = 1 .. Len(tx.entries)
  BY TxFields
<1>3. draft.entry.kind # "cut" => GoodDraft(tx, draft)
  BY <1>1, <1>2 DEF GoodDraft
<1>4. ASSUME draft.entry.kind = "cut", NEW n \in DOMAIN tx.entries
      PROVE  GoodDraft(tx, [draft EXCEPT !.entry.head = n])
  <2> DEFINE e == [draft.entry EXCEPT !.head = n]
             d == [draft EXCEPT !.entry.head = n]
  <2>1. n \in Nat /\ n > 0 /\ n <= Len(tx.entries)
    BY <1>2, <1>4
  <2>2. e \in EntryRec /\ e.by = 0 /\ e.calls = {} /\ e.cover = {} /\ e.head = n /\ e.kind = "cut"
    BY <1>1, <1>4, <2>1 DEF EntryRec
  <2>3. d.entry = e /\ d.type = draft.type /\ d.busy = draft.busy
    BY DEF Drafts
  <2> HIDE DEF e, d
  <2>4. GoodDraft(tx, d)
    BY <1>1, <1>4, <2>1, <2>2, <2>3 DEF GoodDraft
  <2> QED
    BY <2>4 DEF d
<1> QED
  BY <1>3, <1>4

(* What the admission of a good draft leaves.                                 *)
LEMMA AdmissionAttends ==
    ASSUME NEW tx, Sound(tx), NEW new, Admitted(tx, new)
    PROVE  /\ Attended(tx, new)
           /\ \A i \in DOMAIN new.entries : i > Len(tx.entries) => new.entries[i].kind # "result" /\ new.entries[i].calls = {}
<1>1. tx \in TxRec /\ Len(tx.tasks) \in Nat /\ DOMAIN tx.tasks = 1 .. Len(tx.tasks)
  BY SoundParts, TxFields
<1>2. Recorded(tx, new)
  BY DEF Admitted, Recorded
<1>3. \A i \in DOMAIN new.entries : i > Len(tx.entries) => new.entries[i].kind # "result" /\ new.entries[i].calls = {}
  BY DEF Admitted, Quiet
<1>4. CASE new.live = tx.live /\ new.tasks = tx.tasks
  <2>1. \A c \in DOMAIN tx.tasks : Alike(tx.tasks[c], new.tasks[c])
    BY <1>4 DEF Alike
  <2> QED
    BY <1>1, <1>2, <1>3, <1>4, <2>1 DEF Attended, Admitted
<1>5. CASE RunStarted(tx, new)
  <2>1. \A c \in DOMAIN tx.tasks : Alike(tx.tasks[c], new.tasks[c])
    BY <1>5 DEF Alike, RunStarted
  <2> QED
    BY <1>1, <1>2, <1>3, <1>5, <2>1 DEF Attended, RunStarted
<1> QED
  BY <1>4, <1>5 DEF Admitted

(* submit(): an idempotent request, a write or an input, placed at once or    *)
(* queued, keeps the invariant.                                               *)
LEMMA SubmitKeeps ==
    ASSUME IInv, NEW r \in Requests, Submit(r)
    PROVE  Onward
<1>1. env \in Stories /\ Sound(db)
  BY DEF IInv
<1>2. db \in TxRec /\ TxInv(db, DOMAIN db.inbox, {}) /\ Fresh(db, Range(db.live.run.inputs))
  BY <1>1, SoundParts
<1>3. r \in RequestNames /\ Draft[r] \in Drafts
  BY <1>1, StoriesAssumption DEF Requests, Draft, RequestNames
<1>4. PICK draft, modes : GoodDraft(db, draft) /\ Commit(AdmitSubmission(db, r, draft, modes))
  <2>1. CASE Draft[r].entry.kind = "cut"
    BY <1>2, <1>3, <2>1, DraftsAreGood DEF Submit
  <2>2. CASE Draft[r].entry.kind # "cut"
    BY <1>2, <1>3, <2>2, DraftsAreGood DEF Submit
  <2> QED
    BY <2>1, <2>2
<1>5. Admitted(db, db') /\ local' = Kept(db') /\ env' = env
  BY <1>2, <1>3, <1>4, AdmitKeeps DEF Commit, Submit, Free
<1> QED
  BY <1>1, <1>5, AdmissionAttends, HostKeeps

(* Submissions that are settled without an answer.                             *)
SettledOnly(tx, tx2, X) ==
    /\ X \in SUBSET DOMAIN tx.subs /\ DOMAIN tx2.subs = DOMAIN tx.subs /\ tx2.entries = tx.entries
    /\ tx2.inbox = tx.inbox /\ tx2 \in TxRec
    /\ \A s \in DOMAIN tx.subs : s \notin X => tx2.subs[s] = tx.subs[s]
    /\ \A s \in X :
          /\ tx2.subs[s].req = tx.subs[s].req /\ tx2.subs[s].type = tx.subs[s].type
          /\ tx2.subs[s].entry = tx.subs[s].entry /\ tx2.subs[s].status = "unanswered"

(* Submissions that are settled and leave the inbox disturb nothing else.     *)
LEMMA SettleOnlyKeeps ==
    ASSUME NEW tx \in TxRec, NEW tx2 \in TxRec, NEW W, NEW U, NEW U2, TxInv(tx, W, U), NEW X \in SUBSET DOMAIN tx.subs,
           SettledOnly(tx, tx2, X), Owns(tx2, U2)
    PROVE  TxInv(tx2, {i \in W : tx.inbox[i].sub \notin X}, U2)
<1>1. \A s \in X :
             /\ tx2.subs[s].req = tx.subs[s].req /\ tx2.subs[s].type = tx.subs[s].type
             /\ tx2.subs[s].entry = tx.subs[s].entry /\ tx2.subs[s].status \in Settled
             /\ tx2.subs[s].status = "done" =>
                  /\ tx.subs[s].type = "input" /\ tx.subs[s].entry # 0
                  /\ AnsweredBy(tx.entries, tx.subs[s].entry, tx2.subs[s].answer)
  BY DEF SettledOnly, Settled
<1>2. /\ tx2.entries = tx.entries /\ tx2.inbox = tx.inbox /\ DOMAIN tx2.subs = DOMAIN tx.subs
      /\ \A s \in DOMAIN tx.subs : s \notin X => tx2.subs[s] = tx.subs[s]
  BY DEF SettledOnly
<1> QED
  BY <1>1, <1>2, SettleKeeps

(* Queued submissions that are withdrawn leave the inbox unanswered.           *)
Withdrawn(tx, mid, X) ==
    /\ X \in SUBSET DOMAIN tx.subs /\ \A s \in X : tx.subs[s].status = "queued"
    /\ mid \in TxRec /\ mid.entries = tx.entries /\ mid.inbox = tx.inbox /\ mid.live = tx.live /\ mid.tasks = tx.tasks
    /\ Len(mid.subs) = Len(tx.subs) /\ \A s \in DOMAIN tx.subs : s \notin X => mid.subs[s] = tx.subs[s]
    /\ \A s \in X : /\ mid.subs[s].req = tx.subs[s].req /\ mid.subs[s].type = tx.subs[s].type
                      /\ mid.subs[s].entry = tx.subs[s].entry /\ mid.subs[s].status = "unanswered"

(* Queued submissions can be withdrawn.                                       *)
LEMMA WithdrawKeeps ==
    ASSUME NEW tx, Sound(tx), NEW X, NEW mid, Withdrawn(tx, mid, X),
           NEW W, \A i : i \in W <=> i \in DOMAIN tx.inbox /\ tx.inbox[i].sub \notin X
    PROVE  LET new == Shrunk(mid, W) IN
           Recorded(tx, new) /\ new.entries = tx.entries /\ new.live = tx.live /\ new.tasks = tx.tasks
<1>0. /\ X \in SUBSET DOMAIN tx.subs /\ \A s \in X : tx.subs[s].status = "queued"
      /\ mid \in TxRec /\ mid.entries = tx.entries /\ mid.inbox = tx.inbox /\ mid.live = tx.live /\ mid.tasks = tx.tasks
      /\ Len(mid.subs) = Len(tx.subs) /\ \A s \in DOMAIN tx.subs : s \notin X => mid.subs[s] = tx.subs[s]
      /\ \A s \in X : /\ mid.subs[s].req = tx.subs[s].req /\ mid.subs[s].type = tx.subs[s].type
                        /\ mid.subs[s].entry = tx.subs[s].entry /\ mid.subs[s].status = "unanswered"
  BY DEF Withdrawn
<1> DEFINE new == Shrunk(mid, W)
<1>1. tx \in TxRec /\ TxInv(tx, DOMAIN tx.inbox, {}) /\ Fresh(tx, Range(tx.live.run.inputs)) /\ Owns(tx, {})
  BY SoundParts DEF TxInv
<1>2. DOMAIN mid.subs = DOMAIN tx.subs
  BY <1>0, <1>1, TxFields
<1>3. Owns(mid, {})
  <2>1. \A s \in DOMAIN tx.subs : mid.subs[s].status = "placed" <=> tx.subs[s].status = "placed"
    BY <1>0
  <2> QED
    BY <1>0, <1>1, <1>2, <2>1 DEF Owns
<1>4. TxInv(mid, {i \in DOMAIN tx.inbox : tx.inbox[i].sub \notin X}, {})
  <2> DEFINE D == DOMAIN tx.inbox
             none == {}
  <2>1. SettledOnly(tx, mid, X)
    BY <1>0, <1>2 DEF SettledOnly
  <2>2. tx \in TxRec /\ mid \in TxRec /\ TxInv(tx, D, none) /\ X \in SUBSET DOMAIN tx.subs /\ Owns(mid, none)
    BY <1>0, <1>1, <1>3
  <2> HIDE DEF D, none
  <2>3. TxInv(mid, {i \in D : tx.inbox[i].sub \notin X}, none)
    BY <2>1, <2>2, SettleOnlyKeeps
  <2> QED
    BY <2>3 DEF D, none
<1>5. TxInv(mid, W, {})
  <2>1. W = {i \in DOMAIN tx.inbox : tx.inbox[i].sub \notin X}
    OBVIOUS
  <2> QED
    BY <1>4, <2>1
<1>6. /\ new \in TxRec /\ TxInv(new, DOMAIN new.inbox, {})
      /\ new.entries = mid.entries /\ new.subs = mid.subs /\ new.live = mid.live /\ new.tasks = mid.tasks
  BY <1>0, <1>5, ShrinkKeeps
<1> HIDE DEF new
<1>7. Forward(tx, new)
  <2>1. Continues(tx, new)
    BY <1>0, <1>1, <1>6, TxFields DEF Continues
  <2>2. Len(tx.subs) <= Len(new.subs)
    BY <1>0, <1>1, <1>6, TxFields
  <2>3. \A s \in DOMAIN tx.subs : tx.subs[s].status \in Settled \/ tx.subs[s].status = "placed" => new.subs[s] = tx.subs[s]
    BY <1>0, <1>6 DEF Settled
  <2> QED
    BY <2>1, <2>2, <2>3 DEF Forward
<1>8. Fresh(new, Range(new.live.run.inputs))
  <2>1. \A s \in Range(tx.live.run.inputs) : new.subs[s].entry = tx.subs[s].entry
    <3>1. Range(tx.live.run.inputs) \subseteq DOMAIN tx.subs
      BY <1>1 DEF Owns
    <3> QED
      BY <1>0, <1>6, <3>1
  <2> QED
    BY <1>0, <1>1, <1>6, <2>1 DEF Fresh
<1>9. Recorded(tx, new)
  BY <1>6, <1>7, <1>8 DEF Recorded
<1> QED
  BY <1>0, <1>6, <1>9 DEF new

(* Records that keep everything but the marks of tasks, and part of what shows. *)
LEMMA SameAttends ==
    ASSUME NEW tx, Sound(tx), NEW new, Recorded(tx, new), new.entries = tx.entries,
           Len(new.tasks) = Len(tx.tasks), \A c \in DOMAIN tx.tasks : Alike(tx.tasks[c], new.tasks[c]),
           new.live.run = tx.live.run, new.live.compactions = tx.live.compactions
    PROVE  /\ Attended(tx, new)
           /\ \A i \in DOMAIN new.entries : i > Len(tx.entries) => new.entries[i].kind # "result" /\ new.entries[i].calls = {}
<1>1. tx \in TxRec /\ Len(tx.tasks) \in Nat
  BY SoundParts, TxFields
<1>2. \A i \in DOMAIN new.entries : ~(i > Len(tx.entries))
  BY <1>1, TxFields
<1> QED
  BY <1>1, <1>2 DEF Attended

(* A task is like itself.                                                     *)
LEMMA AlikeSelf == \A task : Alike(task, task)
BY DEF Alike

(* submission.abort(): a queued one is withdrawn, a placed one has its run    *)
(* marked.                                                                    *)
LEMMA AbortSubmissionKeeps ==
    ASSUME IInv, NEW s \in DOMAIN db.subs, AbortSubmission(s)
    PROVE  Onward
<1> DEFINE mid == SettleSubmission(db, s, "unanswered", 0, "aborted")
           W == {i \in DOMAIN mid.inbox : mid.inbox[i].sub # s}
<1>1. Sound(db) /\ db \in TxRec
  BY SoundParts DEF IInv
<1>2. db.subs[s].status = "queued" /\ db' = RemoveInboxItem(mid, s) /\ local' = Kept(db') /\ env' = env
  BY DEF AbortSubmission, Commit, Spend
<1>3. /\ mid \in TxRec
      /\ mid.entries = db.entries /\ mid.inbox = db.inbox /\ mid.live = db.live /\ mid.tasks = db.tasks
      /\ Len(mid.subs) = Len(db.subs)
      /\ mid.subs[s] = SettledAs(db.subs[s], "unanswered", 0, "aborted")
      /\ \A i \in DOMAIN db.subs : i # s => mid.subs[i] = db.subs[i]
  BY <1>1, SettleSubmissionIs DEF Settled
<1>4. db' = Shrunk(mid, W)
  BY <1>2 DEF RemoveInboxItem, Shrunk
<1> HIDE DEF mid
<1>5. /\ mid.subs[s].req = db.subs[s].req /\ mid.subs[s].type = db.subs[s].type
      /\ mid.subs[s].entry = db.subs[s].entry /\ mid.subs[s].status = "unanswered"
  <2>1. db.subs[s] \in SubmissionRec /\ db.subs[s].status \notin Settled
    BY <1>1, <1>2, SubFields DEF Settled
  <2> DEFINE sub == db.subs[s]
  <2>2. sub \in SubmissionRec /\ sub.status \notin Settled
    BY <2>1
  <2> HIDE DEF sub
  <2>3. LET r == SettledAs(sub, "unanswered", 0, "aborted") IN
          r.req = sub.req /\ r.type = sub.type /\ r.entry = sub.entry /\ r.status = "unanswered"
    BY <2>2, SettledAsType DEF Settled
  <2> QED
    BY <1>3, <2>3 DEF sub
<1> DEFINE X == {s}
<1>6. Withdrawn(db, mid, X) /\ \A i : i \in W <=> i \in DOMAIN db.inbox /\ db.inbox[i].sub \notin X
  BY <1>2, <1>3, <1>5 DEF Withdrawn
<1> HIDE DEF X, W
<1>7. Recorded(db, db') /\ db'.entries = db.entries /\ db'.live = db.live /\ db'.tasks = db.tasks
  BY <1>1, <1>4, <1>6, WithdrawKeeps
<1>8. /\ Attended(db, db')
      /\ \A i \in DOMAIN db'.entries : i > Len(db.entries) => db'.entries[i].kind # "result" /\ db'.entries[i].calls = {}
  BY <1>1, <1>7, AlikeSelf, SameAttends
<1> QED
  BY <1>2, <1>8, HostKeeps

-----------------------------------------------------------------------------
(* Marked tasks are as they were otherwise.                                   *)
LEMMA MarkIs ==
    ASSUME NEW tx \in TxRec, NEW S
    PROVE  LET new == Mark(tx, S) IN
           /\ new \in TxRec
           /\ new.entries = tx.entries /\ new.subs = tx.subs /\ new.inbox = tx.inbox /\ new.live = tx.live
           /\ Len(new.tasks) = Len(tx.tasks)
           /\ \A c \in DOMAIN tx.tasks : Alike(tx.tasks[c], new.tasks[c])
<1> DEFINE marked(c) == IF c \in S /\ tx.tasks[c].status = "live" THEN [tx.tasks[c] EXCEPT !.marked = TRUE] ELSE tx.tasks[c]
           tasks == [c \in DOMAIN tx.tasks |-> marked(c)]
           new == Mark(tx, S)
<1>1. Len(tx.tasks) \in Nat /\ DOMAIN tx.tasks = 1 .. Len(tx.tasks) /\ \A c \in DOMAIN tx.tasks : tx.tasks[c] \in TaskRec
  BY TxFields
<1>2. ASSUME NEW task \in TaskRec
      PROVE  [task EXCEPT !.marked = TRUE] \in TaskRec /\ Alike(task, [task EXCEPT !.marked = TRUE])
  <2> DEFINE a == [task EXCEPT !.marked = TRUE]
  <2>1. a \in TaskRec /\ a.marked = TRUE
    BY <1>2 DEF TaskRec
  <2>2. /\ a.kind = task.kind /\ a.owner = task.owner /\ a.status = task.status /\ a.phase = task.phase /\ a.on = task.on
        /\ a.compacted = task.compacted /\ a.cutoff = task.cutoff
    BY <1>2 DEF TaskRec
  <2>3. /\ a.pending = task.pending /\ a.ref = task.ref
        /\ a.call = task.call /\ a.cut = task.cut /\ a.cover = task.cover /\ a.outcome = task.outcome
    BY <1>2 DEF TaskRec
  <2> HIDE DEF a
  <2>4. a \in TaskRec /\ Alike(task, a)
    BY <2>1, <2>2, <2>3 DEF Alike
  <2> QED
    BY <2>4 DEF a
<1>3. \A c \in DOMAIN tx.tasks : marked(c) \in TaskRec /\ Alike(tx.tasks[c], marked(c))
  BY <1>1, <1>2, AlikeSelf
<1> HIDE DEF marked
<1>4. tasks \in Seq(TaskRec) /\ Len(tasks) = Len(tx.tasks) /\ \A c \in DOMAIN tx.tasks : tasks[c] = marked(c)
  BY <1>1, <1>3
<1>5. new = [tx EXCEPT !.tasks = tasks]
  BY DEF Mark, marked
<1> HIDE DEF tasks, new
<1>6. /\ new \in TxRec /\ new.tasks = tasks
      /\ new.entries = tx.entries /\ new.subs = tx.subs /\ new.inbox = tx.inbox /\ new.live = tx.live
  BY <1>4, <1>5, WithTasks
<1> QED
  BY <1>3, <1>4, <1>6 DEF new

(* Abort marks change no record but the tasks'.                               *)
LEMMA MarksAttend ==
    ASSUME NEW tx, Sound(tx), NEW mid, Recorded(tx, mid), mid.entries = tx.entries, mid.live = tx.live,
           mid.tasks = tx.tasks, NEW S, NEW new, new = Mark(mid, S)
    PROVE  /\ Attended(tx, new)
           /\ \A i \in DOMAIN new.entries : i > Len(tx.entries) => new.entries[i].kind # "result" /\ new.entries[i].calls = {}
<1>1. mid \in TxRec /\ tx \in TxRec
  BY SoundParts DEF Recorded
<1>2. /\ new \in TxRec
      /\ new.entries = mid.entries /\ new.subs = mid.subs /\ new.inbox = mid.inbox /\ new.live = mid.live
      /\ Len(new.tasks) = Len(mid.tasks)
      /\ \A c \in DOMAIN mid.tasks : Alike(mid.tasks[c], new.tasks[c])
  BY <1>1, MarkIs
<1>3. Recorded(tx, new)
  BY <1>1, <1>2, RecordedSame
<1> QED
  BY <1>2, <1>3, SameAttends

(* Withdrawing what is queued as an input.                                    *)
LEMMA WithdrawnIs ==
    ASSUME NEW tx, Sound(tx)
    PROVE  LET new == WithdrawQueuedInputs(tx) IN
           Recorded(tx, new) /\ new.entries = tx.entries /\ new.live = tx.live /\ new.tasks = tx.tasks
<1> DEFINE writes == {i \in DOMAIN tx.inbox : tx.inbox[i].mode = "write"}
           X == {tx.inbox[i].sub : i \in DOMAIN tx.inbox \ writes}
           settled(s) == IF s \in X /\ tx.subs[s].status \notin Settled
                         THEN [tx.subs[s] EXCEPT !.status = "unanswered", !.why = "aborted"] ELSE tx.subs[s]
           subs == [s \in DOMAIN tx.subs |-> settled(s)]
           mid == [tx EXCEPT !.subs = subs]
           new == WithdrawQueuedInputs(tx)
<1>1. /\ tx \in TxRec /\ Queue(tx, DOMAIN tx.inbox)
      /\ Len(tx.subs) \in Nat /\ DOMAIN tx.subs = 1 .. Len(tx.subs)
      /\ \A s \in DOMAIN tx.subs : tx.subs[s] \in SubmissionRec
  BY SoundParts, TxFields, SubFields DEF TxInv
<1>2. \A i \in DOMAIN tx.inbox : tx.inbox[i].sub \in DOMAIN tx.subs /\ tx.subs[tx.inbox[i].sub].status = "queued"
  BY <1>1 DEF Queue, ItemFits
<1>3. X \in SUBSET DOMAIN tx.subs /\ \A s \in X : tx.subs[s].status = "queued"
  BY <1>2
<1>4. \A i, j \in DOMAIN tx.inbox : tx.inbox[i].sub = tx.inbox[j].sub => i = j
  <2> SUFFICES ASSUME NEW i \in DOMAIN tx.inbox, NEW j \in DOMAIN tx.inbox, tx.inbox[i].sub = tx.inbox[j].sub, i # j
               PROVE  FALSE
    OBVIOUS
  <2>1. i \in Nat /\ j \in Nat /\ tx.inbox[i].sub \in Nat /\ tx.inbox[j].sub \in Nat
    BY <1>1, ItemFields
  <2>2. i < j \/ j < i
    BY <2>1
  <2> QED
    BY <1>1, <2>1, <2>2 DEF Queue
<1>5. \A i : i \in writes <=> i \in DOMAIN tx.inbox /\ tx.inbox[i].sub \notin X
  BY <1>4
<1>6. \A s \in X : settled(s) = [tx.subs[s] EXCEPT !.status = "unanswered", !.why = "aborted"]
  BY <1>3 DEF Settled
<1>7. ASSUME NEW sub \in SubmissionRec
      PROVE  LET r == [sub EXCEPT !.status = "unanswered", !.why = "aborted"] IN
             /\ r \in SubmissionRec /\ r.req = sub.req /\ r.type = sub.type /\ r.entry = sub.entry /\ r.status = "unanswered"
  BY <1>7 DEF SubmissionRec
<1>8. \A s \in DOMAIN tx.subs : s \notin X => settled(s) = tx.subs[s]
  OBVIOUS
<1>9. /\ \A s \in DOMAIN tx.subs : settled(s) \in SubmissionRec
      /\ \A s \in X : /\ settled(s).req = tx.subs[s].req /\ settled(s).type = tx.subs[s].type
                      /\ settled(s).entry = tx.subs[s].entry /\ settled(s).status = "unanswered"
  <2> HIDE DEF X, settled
  <2>1. ASSUME NEW s \in X
        PROVE  /\ settled(s) \in SubmissionRec /\ settled(s).req = tx.subs[s].req /\ settled(s).type = tx.subs[s].type
               /\ settled(s).entry = tx.subs[s].entry /\ settled(s).status = "unanswered"
    <3>1. s \in DOMAIN tx.subs
      BY <1>3, <2>1
    <3>2. tx.subs[s] \in SubmissionRec
      BY <1>1, <3>1
    <3> QED
      BY <1>6, <1>7, <2>1, <3>2
  <2> QED
    BY <1>1, <1>8, <2>1
<1>11. new = [tx EXCEPT !.inbox = Keep(tx.inbox, writes), !.subs = subs]
  BY DEF WithdrawQueuedInputs
<1> HIDE DEF settled, X, writes
<1>10. subs \in Seq(SubmissionRec) /\ Len(subs) = Len(tx.subs) /\ \A s \in DOMAIN tx.subs : subs[s] = settled(s)
  BY <1>1, <1>9
<1> HIDE DEF subs
<1>12. /\ mid \in TxRec /\ mid.subs = subs
       /\ mid.entries = tx.entries /\ mid.inbox = tx.inbox /\ mid.live = tx.live /\ mid.tasks = tx.tasks
  BY <1>1, <1>10, WithSubs
<1>13. new = Shrunk(mid, writes)
  <2>1. Shrunk(mid, writes) = [mid EXCEPT !.inbox = Keep(tx.inbox, writes)]
    BY <1>12 DEF Shrunk
  <2> DEFINE kept == Keep(tx.inbox, writes)
  <2> HIDE DEF kept
  <2>2. [[tx EXCEPT !.subs = subs] EXCEPT !.inbox = kept] = [tx EXCEPT !.inbox = kept, !.subs = subs]
    BY <1>1 DEF TxRec
  <2> QED
    BY <1>11, <2>1, <2>2 DEF kept
<1> HIDE DEF mid, new
<1>14. LET n == Shrunk(mid, writes) IN
         Recorded(tx, n) /\ n.entries = tx.entries /\ n.live = tx.live /\ n.tasks = tx.tasks
  <2>1. \A s \in DOMAIN tx.subs : s \notin X => mid.subs[s] = tx.subs[s]
    BY <1>8, <1>10, <1>12
  <2>2. \A s \in X : /\ mid.subs[s].req = tx.subs[s].req /\ mid.subs[s].type = tx.subs[s].type
                     /\ mid.subs[s].entry = tx.subs[s].entry /\ mid.subs[s].status = "unanswered"
    BY <1>3, <1>9, <1>10, <1>12
  <2>3. Len(mid.subs) = Len(tx.subs)
    BY <1>10, <1>12
  <2>4. Withdrawn(tx, mid, X)
    BY <1>3, <1>12, <2>1, <2>2, <2>3 DEF Withdrawn
  <2> QED
    BY <1>5, <2>4, WithdrawKeeps
<1> QED
  BY <1>13, <1>14 DEF new

(* abort(): the queue is withdrawn, the run and, where asked, the background  *)
(* tasks are marked.                                                          *)
LEMMA AbortConversationKeeps ==
    ASSUME IInv, NEW background \in BOOLEAN, AbortConversation(background)
    PROVE  Onward
<1> DEFINE mid == WithdrawQueuedInputs(db)
           S == {t \in Tasks : background \/ ~Task(t).background}
<1>1. Sound(db)
  BY DEF IInv
<1>2. db' = Mark(mid, S) /\ local' = Kept(db') /\ env' = env
  BY DEF AbortConversation, Commit, Spend
<1>3. Recorded(db, mid) /\ mid.entries = db.entries /\ mid.live = db.live /\ mid.tasks = db.tasks
  BY <1>1, WithdrawnIs
<1> HIDE DEF mid, S
<1> QED
  BY <1>1, <1>2, <1>3, MarksAttend, HostKeeps

(* A commit that only marks tasks keeps the invariant.                        *)
LEMMA OnlyMarks ==
    ASSUME IInv, env' = env, NEW S, Commit(Mark(db, S))
    PROVE  Onward
<1>1. Sound(db)
  BY DEF IInv
<1>2. db' = Mark(db, S) /\ local' = Kept(db')
  BY DEF Commit
<1>3. Recorded(db, db)
  BY <1>1, SoundParts
<1> QED
  BY <1>1, <1>2, <1>3, MarksAttend, HostKeeps

(* An abort of one task.                                                      *)
LEMMA AbortTaskKeeps ==
    ASSUME IInv, NEW t \in Tasks, AbortTask(t)
    PROVE  Onward
<1>1. env' = env /\ Commit(Mark(db, {t}))
  BY DEF AbortTask, Spend
<1> QED
  BY <1>1, OnlyMarks

(* The scheduler hands an abort mark down to what a marked task owns.         *)
LEMMA CascadeKeeps ==
    ASSUME IInv, Cascade
    PROVE  Onward
<1>1. PICK S : Commit(Mark(db, S))
  BY DEF Cascade
<1>2. env' = env
  BY DEF Cascade, Free
<1> QED
  BY <1>1, <1>2, OnlyMarks

-----------------------------------------------------------------------------
(* A new compaction, listed.                                                  *)
LEMMA WithCompactions ==
    ASSUME NEW live \in LiveRec, NEW s \in Seq(Nat)
    PROVE  LET new == [live EXCEPT !.compactions = s] IN
           new \in LiveRec /\ new.run = live.run /\ new.compactions = s
BY DEF LiveRec

NewCompaction(owner, background) ==
    [NewTask EXCEPT !.kind = "comp", !.phase = "select", !.owner = owner, !.background = background]

(* The record of a compaction task.                                           *)
LEMMA NewCompactionIs ==
    ASSUME NEW owner \in Nat, NEW background \in BOOLEAN
    PROVE  LET task == NewCompaction(owner, background) IN
           /\ task \in TaskRec /\ task.kind = "comp" /\ task.phase = "select" /\ task.owner = owner
           /\ task.status = "live" /\ task.outcome = "none" /\ task.on = {}
<1> DEFINE base == NewTask
           first == [base EXCEPT !.kind = "comp", !.phase = "select"]
           task == [first EXCEPT !.owner = owner, !.background = background]
<1>1. base \in TaskRec /\ base.status = "live" /\ base.outcome = "none" /\ base.on = {}
  BY NewTaskType DEF NewTask
<1>2. NewCompaction(owner, background) = task
  BY DEF NewCompaction
<1> HIDE DEF base
<1>3. /\ first \in TaskRec /\ first.kind = "comp" /\ first.phase = "select"
      /\ first.status = base.status /\ first.outcome = base.outcome /\ first.on = base.on
  BY <1>1 DEF TaskRec
<1> HIDE DEF first
<1>4. /\ task \in TaskRec /\ task.kind = first.kind /\ task.phase = first.phase /\ task.owner = owner
      /\ task.status = first.status /\ task.outcome = first.outcome /\ task.on = first.on
  BY <1>3 DEF TaskRec
<1> HIDE DEF task
<1> QED
  BY <1>1, <1>2, <1>3, <1>4

(* createCompaction adds one task and lists it.                               *)
LEMMA CompactionIs ==
    ASSUME NEW tx \in TxRec, NEW owner \in Nat, NEW background \in BOOLEAN
    PROVE  LET new == CreateCompaction(tx, owner, background)
               n == Len(tx.tasks) + 1
           IN /\ new \in TxRec
              /\ new.entries = tx.entries /\ new.subs = tx.subs /\ new.inbox = tx.inbox
              /\ new.live.run = tx.live.run /\ new.live.compactions = Append(tx.live.compactions, n)
              /\ Len(new.tasks) = n /\ DOMAIN new.tasks = 1 .. n
              /\ \A i \in 1 .. Len(tx.tasks) : new.tasks[i] = tx.tasks[i]
              /\ new.tasks[n] = NewCompaction(owner, background)
<1> DEFINE n == Len(tx.tasks) + 1
           task == NewCompaction(owner, background)
           mid == CreateTask(tx, task)
           list == Append(tx.live.compactions, n)
           new == CreateCompaction(tx, owner, background)
<1>1. task \in TaskRec
  BY NewCompactionIs
<1>2. /\ mid \in TxRec
      /\ mid.entries = tx.entries /\ mid.subs = tx.subs /\ mid.inbox = tx.inbox /\ mid.live = tx.live
      /\ Len(mid.tasks) = n /\ DOMAIN mid.tasks = 1 .. n
      /\ \A i \in 1 .. Len(tx.tasks) : mid.tasks[i] = tx.tasks[i]
      /\ mid.tasks[n] = task
  <2> HIDE DEF task
  <2> QED
    BY <1>1, CreateTaskIs
<1>3. new = [mid EXCEPT !.live.compactions = Append(@, n)]
  BY DEF CreateCompaction, AddCompactionStatus, NewCompaction
<1> HIDE DEF task, mid
<1>4. tx.live \in LiveRec /\ list \in Seq(Nat)
  <2>1. tx.live \in LiveRec /\ tx.live.compactions \in Seq(Nat) /\ Len(tx.tasks) \in Nat
    BY TxFields
  <2> QED
    BY <2>1, Appended
<1> DEFINE live == [tx.live EXCEPT !.compactions = list]
<1>5. new = [mid EXCEPT !.live = live]
  BY <1>2, <1>3
<1> HIDE DEF list
<1>6. live \in LiveRec /\ live.run = tx.live.run /\ live.compactions = list
  BY <1>4, WithCompactions
<1> HIDE DEF live, new
<1>7. /\ new \in TxRec /\ new.live = live
      /\ new.entries = mid.entries /\ new.subs = mid.subs /\ new.inbox = mid.inbox /\ new.tasks = mid.tasks
  BY <1>2, <1>5, <1>6, WithLive
<1> QED
  BY <1>2, <1>6, <1>7 DEF new, list, task

(* compact(): a compaction no generation waits for.                           *)
LEMMA CompactKeeps ==
    ASSUME IInv, Compact
    PROVE  Onward
<1> DEFINE n == Len(db.tasks) + 1
<1>1. Sound(db) /\ db \in TxRec /\ Recorded(db, db) /\ Len(db.tasks) \in Nat /\ DOMAIN db.tasks = 1 .. Len(db.tasks)
  BY SoundParts, TxFields DEF IInv
<1>2. PICK owner \in Nat, background \in BOOLEAN :
        owner = 0 /\ db' = CreateCompaction(db, owner, background) /\ local' = Kept(db') /\ env' = env
  <2>1. db' = CreateCompaction(db, 0, FALSE) /\ local' = Kept(db') /\ env' = env
    BY DEF Compact, Spend, Commit
  <2>2. 0 \in Nat /\ FALSE \in BOOLEAN
    OBVIOUS
  <2> QED
    BY <2>1, <2>2, Zenon
<1> DEFINE new == CreateCompaction(db, owner, background)
<1>3. /\ new \in TxRec
      /\ new.entries = db.entries /\ new.subs = db.subs /\ new.inbox = db.inbox
      /\ new.live.run = db.live.run /\ new.live.compactions = Append(db.live.compactions, n)
      /\ Len(new.tasks) = n
      /\ \A i \in 1 .. Len(db.tasks) : new.tasks[i] = db.tasks[i]
      /\ new.tasks[n] = NewCompaction(owner, background)
  <2>1. db \in TxRec
    BY <1>1
  <2> QED
    BY <2>1, CompactionIs
<1> HIDE DEF new
<1>4. Recorded(db, new)
  BY <1>1, <1>3, RecordedSame
<1>5. LET task == NewCompaction(owner, background) IN
        /\ task.kind = "comp" /\ task.phase = "select" /\ task.owner = 0
        /\ task.status = "live" /\ task.outcome = "none" /\ task.on = {}
  BY <1>2, NewCompactionIs
<1>6. new.tasks[n].kind = "comp" /\ Created(new, n, 0)
  BY <1>3, <1>5 DEF Created
<1>7. \A c \in DOMAIN db.tasks : Alike(db.tasks[c], new.tasks[c])
  BY <1>1, <1>3, AlikeSelf
<1>8. \A i \in DOMAIN new.entries : ~(i > Len(db.entries))
  BY <1>1, <1>3, TxFields
<1>9. Len(db.tasks) <= Len(new.tasks)
  BY <1>1, <1>3
<1>10. Attended(db, new)
  BY <1>3, <1>4, <1>6, <1>7, <1>8, <1>9 DEF Attended
<1>11. db' = new
  BY <1>2 DEF new
<1> QED
  BY <1>2, <1>8, <1>10, <1>11, HostKeeps

-----------------------------------------------------------------------------
(* The phase of the generation that shows.                                    *)
Gens == {"none", "attempt", "partial", "retry", "deferred"}

(* The state of the generation in the live document is nobody else's.         *)
LEMMA WithGen ==
    ASSUME NEW tx \in TxRec, NEW gen \in Gens
    PROVE  LET new == [tx EXCEPT !.live.gen = gen] IN
           /\ new \in TxRec
           /\ new.entries = tx.entries /\ new.subs = tx.subs /\ new.inbox = tx.inbox /\ new.tasks = tx.tasks
           /\ new.live.run = tx.live.run /\ new.live.compactions = tx.live.compactions
<1> DEFINE live == [tx.live EXCEPT !.gen = gen]
           new == [tx EXCEPT !.live = live]
<1>1. [tx EXCEPT !.live.gen = gen] = new
  OBVIOUS
<1>2. tx.live \in LiveRec
  BY TxFields
<1>3. live \in LiveRec /\ live.run = tx.live.run /\ live.compactions = tx.live.compactions
  BY <1>2 DEF LiveRec, Gens
<1> HIDE DEF live
<1>4. /\ new \in TxRec /\ new.live = live
      /\ new.entries = tx.entries /\ new.subs = tx.subs /\ new.inbox = tx.inbox /\ new.tasks = tx.tasks
  BY <1>3, WithLive
<1> HIDE DEF new
<1> QED
  BY <1>1, <1>3, <1>4

(* A partial answer is shown in the live document.                            *)
LEMMA StreamPartialKeeps ==
    ASSUME IInv, NEW t, StreamPartial(t)
    PROVE  Onward
<1>1. Sound(db) /\ db \in TxRec /\ Recorded(db, db)
  BY SoundParts DEF IInv
<1>2. env' = env /\ db' = [db EXCEPT !.live.gen = "partial"] /\ local' = Kept(db')
  BY DEF StreamPartial, Spend, Commit
<1>3. /\ db' \in TxRec
      /\ db'.entries = db.entries /\ db'.subs = db.subs /\ db'.inbox = db.inbox /\ db'.tasks = db.tasks
      /\ db'.live.run = db.live.run /\ db'.live.compactions = db.live.compactions
  BY <1>1, <1>2, WithGen DEF Gens
<1>4. Recorded(db, db')
  BY <1>1, <1>3, RecordedSame
<1>5. \A c \in DOMAIN db.tasks : Alike(db.tasks[c], db'.tasks[c])
  BY <1>3, AlikeSelf
<1>6. /\ Attended(db, db')
      /\ \A i \in DOMAIN db'.entries : i > Len(db.entries) => db'.entries[i].kind # "result" /\ db'.entries[i].calls = {}
  BY <1>1, <1>3, <1>4, <1>5, SameAttends
<1> QED
  BY <1>2, <1>6, HostKeeps

(* Records that stay as they are are not taken back.                          *)
LEMMA StaysForward ==
    ASSUME IInv, db' = db
    PROVE  Forward(db, db')
<1>1. Forward(db, db)
  BY SoundParts DEF IInv, Carries
<1> QED
  BY <1>1

(* A crash ends the handlers and leaves what is committed.                    *)
LEMMA CrashKeeps ==
    ASSUME IInv, Crash
    PROVE  Onward
<1>1. Forward(db, db')
  BY StaysForward DEF Crash
<1>2. IInv'
  BY DEF IInv, Crash, Spend
<1> QED
  BY <1>1, <1>2 DEF Onward
=============================================================================
