------------------------- MODULE ContextRangeProofs -------------------------
(*****************************************************************************)
(* The context of a conversation, for any number of entries and reads, and   *)
(* any transcript: a read returns what deriving the context from scratch     *)
(* gives, and every request is well formed.                                  *)
(*                                                                           *)
(* A kept range stays right because the entries up to its tail never change  *)
(* (FitsKept).  RangeFits says what a range is: the scan of its bounds, what *)
(* is active in it, and messages that are split at an assistant message, the *)
(* first part in order already (Splits).  Extending a range gives the order  *)
(* of everything, since ordering a sequence is ordering its parts when the   *)
(* later part starts with an assistant message (OrderConcat), and since      *)
(* entries that no edit names and that edit nothing add to the end           *)
(* (ContributionsMore).                                                      *)
(*****************************************************************************)
EXTENDS ContextRange, SequenceTheorems, WellFoundedInduction, TLAPS

-----------------------------------------------------------------------------
(* Numbers and concatenations.                                               *)

(* A set of numbers that is not empty has a least one.                       *)
LEMMA LeastNumber ==
    ASSUME NEW S \in SUBSET Nat, S # {}
    PROVE  \E x \in S : \A y \in S : x <= y
<1> DEFINE Less == OpToRel(<, Nat)
<1>1. IsWellFoundedOn(Less, Nat)
  BY NatLessThanWellFounded
<1>2. PICK x \in S : \A y \in S : ~ (<<y, x>> \in Less)
  <2> HIDE DEF Less
  <2> QED
    BY <1>1, WFMin
<1>3. \A y \in S : ~ (y < x)
  <2> TAKE y \in S
  <2>1. y < x => <<y, x>> \in Less
    BY DEF OpToRel
  <2> HIDE DEF Less
  <2> QED
    BY <1>2, <2>1
<1> HIDE DEF Less
<1> QED
  BY <1>3

(* Induction over the numbers up to `n`, for a set.                          *)
LEMMA UpTo ==
    ASSUME NEW n \in Nat, NEW S, 0 \in S, \A k \in 0 .. n - 1 : k \in S => k + 1 \in S
    PROVE  0 .. n \subseteq S
<1> DEFINE Bad == {k \in 0 .. n : k \notin S}
<1> SUFFICES ASSUME Bad # {} PROVE FALSE
  OBVIOUS
<1>1. PICK x \in Bad : \A y \in Bad : x <= y
  <2>1. Bad \in SUBSET Nat
    OBVIOUS
  <2> HIDE DEF Bad
  <2> QED
    BY <2>1, LeastNumber
<1>2. x # 0 /\ x - 1 \in 0 .. n - 1 /\ x - 1 \notin Bad
  BY <1>1
<1> QED
  BY <1>2

(* The least number of a set that is not empty, and of none.                 *)
LEMMA OldestIs ==
    ASSUME NEW S \in SUBSET Nat
    PROVE  /\ S = {} => Oldest(S) = 0
           /\ S # {} => Oldest(S) \in S /\ \A j \in S : Oldest(S) <= j
<1>1. S # {} => \E x \in S : \A y \in S : x <= y
  BY LeastNumber
<1> QED
  BY <1>1 DEF Oldest

(* The greatest number of a bounded set that is not empty, and of none.      *)
LEMMA NewestIs ==
    ASSUME NEW S \in SUBSET Nat, NEW n \in Nat, \A i \in S : i <= n
    PROVE  /\ S = {} => Newest(S) = 0
           /\ S # {} => Newest(S) \in S /\ \A j \in S : j <= Newest(S)
<1> DEFINE T == {n - i : i \in S}
<1>1. ASSUME S # {} PROVE \E m \in S : \A j \in S : j <= m
  <2>1. T \in SUBSET Nat /\ T # {}
    <3>1. \A i \in S : n - i \in Nat
      OBVIOUS
    <3> QED
      BY <1>1, <3>1
  <2>2. PICK x \in T : \A y \in T : x <= y
    <3> HIDE DEF T
    <3> QED
      BY <2>1, LeastNumber
  <2>3. PICK i \in S : x = n - i
    OBVIOUS
  <2>4. \A j \in S : j <= i
    <3> TAKE j \in S
    <3>1. n - j \in T
      OBVIOUS
    <3>2. n - i <= n - j
      BY <2>2, <2>3, <3>1
    <3> QED
      BY <3>2
  <2> QED
    BY <2>4
<1> HIDE DEF T
<1> QED
  BY <1>1 DEF Newest

-----------------------------------------------------------------------------
(* Concatenations of sequences.                                              *)

(* Concatenation, by a name of its own.                                      *)
Join(u, v) == u \o v

(* What a concatenation is.                                                  *)
LEMMA JoinIs ==
    ASSUME NEW T, NEW u \in Seq(T), NEW v \in Seq(T)
    PROVE  /\ Join(u, v) \in Seq(T)
           /\ Join(<<>>, u) = u /\ Join(u, <<>>) = u
BY ConcatProperties, ConcatEmptySeq DEF Join

(* It is associative.                                                        *)
LEMMA JoinAssociative ==
    ASSUME NEW T, NEW u \in Seq(T), NEW v \in Seq(T), NEW w \in Seq(T)
    PROVE  Join(u, Join(v, w)) = Join(Join(u, v), w)
<1>1. u \o (v \o w) = (u \o v) \o w
  BY ConcatAssociative, SMTT(20)
<1> QED
  BY <1>1, Zenon DEF Join

(* What FlattenSeq computes, by the parts of the first `n` sequences.        *)
Sums(T, s, n, f) ==
    /\ f \in [0 .. n -> Seq(T)]
    /\ f[0] = <<>>
    /\ \A i \in 1 .. n : f[i] = Join(f[i - 1], s[i])

(* One more part.                                                            *)
LEMMA OneMoreSum ==
    ASSUME NEW T, NEW n \in Nat, NEW s, s[n + 1] \in Seq(T), NEW f, Sums(T, s, n, f)
    PROVE  \E g : Sums(T, s, n + 1, g)
<1> DEFINE g == [k \in 0 .. n + 1 |-> IF k = n + 1 THEN Join(f[n], s[n + 1]) ELSE f[k]]
<1>1. f \in [0 .. n -> Seq(T)] /\ f[0] = <<>> /\ \A i \in 1 .. n : f[i] = Join(f[i - 1], s[i])
  BY DEF Sums
<1>2. Join(f[n], s[n + 1]) \in Seq(T)
  BY <1>1, JoinIs
<1>3. g \in [0 .. n + 1 -> Seq(T)]
  BY <1>1, <1>2
<1>4. g[0] = <<>>
  BY <1>1
<1>5. \A i \in 1 .. n + 1 : g[i] = Join(g[i - 1], s[i])
  <2> TAKE i \in 1 .. n + 1
  <2>1. CASE i = n + 1
    <3>1. g[i] = Join(f[n], s[n + 1])
      BY <2>1
    <3>2. g[i - 1] = f[n]
      BY <2>1
    <3> HIDE DEF g
    <3> QED
      BY <2>1, <3>1, <3>2
  <2>2. CASE i # n + 1
    <3>1. i \in 1 .. n
      BY <2>2
    <3>2. g[i] = f[i] /\ g[i - 1] = f[i - 1]
      BY <3>1
    <3> HIDE DEF g
    <3> QED
      BY <1>1, <3>1, <3>2
  <2> QED
    BY <2>1, <2>2
<1> HIDE DEF g
<1> QED
  BY <1>3, <1>4, <1>5 DEF Sums

(* There are such parts for every sequence of sequences.                     *)
LEMMA SumsExist ==
    ASSUME NEW T, NEW s \in Seq(Seq(T)), NEW n \in Nat, n = Len(s)
    PROVE  \E f : Sums(T, s, n, f)
<1> DEFINE S == {m \in Nat : \E f : Sums(T, s, m, f)}
<1>1. 0 \in S
  <2>1. Sums(T, s, 0, [k \in 0 .. 0 |-> <<>>])
    BY EmptySeq DEF Sums
  <2> QED
    BY <2>1
<1>2. \A m \in 0 .. n - 1 : m \in S => m + 1 \in S
  <2> SUFFICES ASSUME NEW m \in 0 .. n - 1, m \in S PROVE m + 1 \in S
    OBVIOUS
  <2>1. PICK f : Sums(T, s, m, f)
    OBVIOUS
  <2>2. m \in Nat /\ s[m + 1] \in Seq(T)
    BY ElementOfSeq
  <2>3. \E g : Sums(T, s, m + 1, g)
    BY <2>1, <2>2, OneMoreSum
  <2> QED
    BY <2>2, <2>3
<1>3. 0 .. n \subseteq S
  <2> HIDE DEF S
  <2> QED
    BY <1>1, <1>2, UpTo
<1> QED
  BY <1>3

(* Parts of the same sequences are the same.                                 *)
Joins(s, n, c) == \A i \in 1 .. n : c[i] = IF i = 1 THEN s[i] ELSE Join(c[i - 1], s[i])

(* One way to compute parts gives what another does.                         *)
LEMMA SumsAgree ==
    ASSUME NEW T, NEW s, NEW n \in Nat, n > 0, NEW f, Sums(T, s, n, f), s[1] \in Seq(T), NEW c,
           Joins(s, n, c)
    PROVE  c[n] = f[n]
<1> DEFINE S == {k \in Nat : k = 0 \/ c[k] = f[k]}
<1>1. f \in [0 .. n -> Seq(T)] /\ f[0] = <<>> /\ \A i \in 1 .. n : f[i] = Join(f[i - 1], s[i])
  BY DEF Sums
<1>3. 0 \in S
  OBVIOUS
<1>4. \A k \in 0 .. n - 1 : k \in S => k + 1 \in S
  <2> SUFFICES ASSUME NEW k \in 0 .. n - 1, k \in S PROVE c[k + 1] = f[k + 1]
    OBVIOUS
  <2>1. k + 1 \in 1 .. n /\ (k + 1) - 1 = k
    OBVIOUS
  <2>2. f[k + 1] = Join(f[k], s[k + 1])
    BY <1>1, <2>1
  <2>3. CASE k = 0
    <3>1. c[1] = s[1]
      BY <2>1, <2>3 DEF Joins
    <3>2. f[1] = s[1]
      BY <1>1, <2>2, <2>3, JoinIs
    <3> QED
      BY <2>3, <3>1, <3>2
  <2>4. CASE k # 0
    <3>1. c[k + 1] = Join(c[k], s[k + 1])
      BY <2>1, <2>4 DEF Joins
    <3> QED
      BY <2>2, <2>4, <3>1
  <2> QED
    BY <2>3, <2>4
<1>5. 0 .. n \subseteq S
  <2> HIDE DEF S
  <2> QED
    BY <1>3, <1>4, UpTo
<1> QED
  BY <1>5

(* FlattenSeq is the last of the parts.                                      *)
LEMMA FlattenIs ==
    ASSUME NEW T, NEW s \in Seq(Seq(T)), NEW n \in Nat, n = Len(s), NEW f, Sums(T, s, n, f)
    PROVE  FlattenSeq(s) = f[n] /\ FlattenSeq(s) \in Seq(T)
<1>0. f[n] \in Seq(T) /\ f[0] = <<>>
  BY DEF Sums
<1>1. CASE n = 0
  <2>1. s = <<>>
    BY <1>1, EmptySeq
  <2> QED
    BY <1>0, <1>1, <2>1 DEF FlattenSeq
<1>2. CASE n # 0
  <2> DEFINE Is(h) == h = [i \in 1 .. n |-> IF i = 1 THEN s[i] ELSE Join(h[i - 1], s[i])]
             g == [i \in 1 .. n |-> f[i]]
             c == CHOOSE h : Is(h)
  <2>1. s[1] \in Seq(T)
    BY <1>2, ElementOfSeq
  <2>2. \A i \in 1 .. n : g[i] = IF i = 1 THEN s[i] ELSE Join(g[i - 1], s[i])
    <3> TAKE i \in 1 .. n
    <3>1. f[i] = Join(f[i - 1], s[i])
      BY DEF Sums
    <3>2. CASE i = 1
      <4>1. f[1] = Join(<<>>, s[1])
        BY <1>0, <3>1, <3>2
      <4>2. Join(<<>>, s[1]) = s[1]
        BY <2>1, JoinIs
      <4> QED
        BY <3>2, <4>1, <4>2
    <3>3. CASE i # 1
      <4>1. g[i] = f[i] /\ g[i - 1] = f[i - 1]
        BY <3>3
      <4> HIDE DEF g
      <4> QED
        BY <3>1, <3>3, <4>1
    <3> QED
      BY <3>2, <3>3
  <2>3. Is(g)
    <3>1. g = [i \in 1 .. n |-> g[i]]
      OBVIOUS
    <3> HIDE DEF g
    <3> QED
      BY <2>2, <3>1
  <2>4. Is(c)
    <3> HIDE DEF Is, g
    <3> QED
      BY <2>3
  <2>5. FlattenSeq(s) = c[n]
    BY <1>2 DEF FlattenSeq, Join
  <2> HIDE DEF c
  <2>6. \A i \in 1 .. n : c[i] = IF i = 1 THEN s[i] ELSE Join(c[i - 1], s[i])
    BY <2>4
  <2>7. c[n] = f[n]
    <3>1. n > 0
      BY <1>2
    <3>2. Joins(s, n, c)
      BY <2>6, Zenon DEF Joins
    <3> HIDE DEF Is
    <3> QED
      BY <2>1, <3>1, <3>2, SumsAgree
  <2> QED
    BY <1>0, <2>5, <2>7
<1> QED
  BY <1>1, <1>2

(* Flattening nothing.                                                       *)
LEMMA FlattenNothing == FlattenSeq(<<>>) = <<>>
BY DEF FlattenSeq

(* The parts of a sequence `c` of the `n` elements of `a` and the `m` of `b`.*)
Follows(a, n, b, m, c) ==
    /\ \A i \in 1 .. n : c[i] = a[i]
    /\ \A i \in 1 .. m : c[n + i] = b[i]

(* Its parts are those of `a`, and then those of `b` behind all of `a`.      *)
LEMMA SumsConcat ==
    ASSUME NEW T, NEW a, NEW b \in Seq(Seq(T)), NEW c, NEW n \in Nat, NEW m \in Nat,
           m = Len(b), Follows(a, n, b, m, c),
           NEW f, Sums(T, a, n, f), NEW g, Sums(T, b, m, g)
    PROVE  \E h : Sums(T, c, n + m, h) /\ h[n + m] = Join(f[n], g[m])
<1> DEFINE h == [i \in 0 .. n + m |-> IF i <= n THEN f[i] ELSE Join(f[n], g[i - n])]
<1>1. f \in [0 .. n -> Seq(T)] /\ f[0] = <<>> /\ \A i \in 1 .. n : f[i] = Join(f[i - 1], a[i])
  BY DEF Sums
<1>2. g \in [0 .. m -> Seq(T)] /\ g[0] = <<>> /\ \A i \in 1 .. m : g[i] = Join(g[i - 1], b[i])
  BY DEF Sums
<1>3. \A i \in 0 .. n : h[i] = f[i]
  OBVIOUS
<1>4. \A i \in 0 .. m : h[n + i] = Join(f[n], g[i])
  <2> TAKE i \in 0 .. m
  <2>1. CASE i = 0
    <3>1. Join(f[n], g[0]) = f[n]
      BY <1>1, <1>2, JoinIs
    <3> QED
      BY <1>3, <2>1, <3>1
  <2>2. CASE i # 0
    <3>1. n + i \in 0 .. n + m /\ ~ (n + i <= n) /\ (n + i) - n = i
      BY <2>2
    <3> QED
      BY <3>1
  <2> QED
    BY <2>1, <2>2
<1>5. DOMAIN h = 0 .. n + m /\ h = [i \in 0 .. n + m |-> h[i]]
  OBVIOUS
<1> HIDE DEF h
<1>6. \A i \in 0 .. m : Join(f[n], g[i]) \in Seq(T)
  <2> TAKE i \in 0 .. m
  <2>1. f[n] \in Seq(T)
    BY <1>1
  <2>2. g[i] \in Seq(T)
    BY <1>2
  <2> QED
    BY <2>1, <2>2, JoinIs
<1>7. \A i \in 0 .. n + m : i \in 0 .. n \/ \E j \in 1 .. m : i = n + j
  <2> TAKE i \in 0 .. n + m
  <2>1. i \notin 0 .. n => i - n \in 1 .. m /\ i = n + (i - n)
    OBVIOUS
  <2> QED
    BY <2>1
<1>8. \A i \in 0 .. n + m : h[i] \in Seq(T)
  <2> TAKE i \in 0 .. n + m
  <2>1. CASE i \in 0 .. n
    BY <1>1, <1>3, <2>1
  <2>2. ASSUME NEW j \in 1 .. m, i = n + j PROVE h[i] \in Seq(T)
    <3>1. j \in 0 .. m
      OBVIOUS
    <3>2. h[i] = Join(f[n], g[j])
      BY <1>4, <2>2, <3>1
    <3> QED
      BY <1>6, <3>1, <3>2
  <2> QED
    BY <1>7, <2>1, <2>2
<1>9. \A i \in 1 .. n + m : h[i] = Join(h[i - 1], c[i])
  <2> TAKE i \in 1 .. n + m
  <2>1. CASE i \in 0 .. n
    <3>1. i \in 1 .. n /\ i - 1 \in 0 .. n
      BY <2>1
    <3> QED
      BY <1>1, <1>3, <3>1 DEF Follows
  <2>2. ASSUME NEW j \in 1 .. m, i = n + j PROVE h[i] = Join(h[i - 1], c[i])
    <3>1. j - 1 \in 0 .. m /\ j \in 0 .. m /\ i - 1 = n + (j - 1)
      BY <2>2
    <3>2. h[i] = Join(f[n], g[j]) /\ h[i - 1] = Join(f[n], g[j - 1])
      BY <1>4, <2>2, <3>1
    <3>3. g[j] = Join(g[j - 1], b[j]) /\ c[i] = b[j] /\ b[j] \in Seq(T)
      <4>1. g[j] = Join(g[j - 1], b[j])
        BY <1>2
      <4>2. c[i] = b[j]
        BY <2>2 DEF Follows
      <4>3. b[j] \in Seq(T)
        BY ElementOfSeq
      <4> QED
        BY <4>1, <4>2, <4>3
    <3>4. f[n] \in Seq(T) /\ g[j - 1] \in Seq(T)
      <4>1. f \in [0 .. n -> Seq(T)] /\ g \in [0 .. m -> Seq(T)]
        BY <1>1, <1>2
      <4>2. f[n] \in Seq(T)
        BY <4>1
      <4> QED
        BY <3>1, <4>1, <4>2
    <3>5. Join(f[n], Join(g[j - 1], b[j])) = Join(Join(f[n], g[j - 1]), b[j])
      BY <3>3, <3>4, JoinAssociative
    <3> QED
      BY <3>2, <3>3, <3>5
  <2>3. i \in 0 .. n + m
    OBVIOUS
  <2> QED
    BY <1>7, <2>1, <2>2, <2>3
<1>10. h \in [0 .. n + m -> Seq(T)]
  BY <1>5, <1>8
<1>11. h[0] = <<>> /\ h[n + m] = Join(f[n], g[m])
  BY <1>1, <1>3, <1>4
<1> QED
  BY <1>9, <1>10, <1>11 DEF Sums

(* A concatenation flattens to the concatenation of what its parts flatten to.*)
LEMMA FlattenConcat ==
    ASSUME NEW T, NEW a \in Seq(Seq(T)), NEW b \in Seq(Seq(T))
    PROVE  /\ FlattenSeq(Join(a, b)) = Join(FlattenSeq(a), FlattenSeq(b))
           /\ FlattenSeq(a) \in Seq(T)
<1> DEFINE n == Len(a)
           m == Len(b)
           c == a \o b
<1>1. n \in Nat /\ m \in Nat
  BY LenProperties
<1>2. c \in Seq(Seq(T)) /\ Len(c) = n + m /\ (\A i \in 1 .. n : c[i] = a[i])
  BY <1>1, ConcatProperties
<1>3. \A i \in 1 .. m : c[n + i] = b[i]
  <2> TAKE i \in 1 .. m
  <2>1. n + i \in 1 .. n + m /\ ~ (n + i <= n) /\ (n + i) - n = i
    BY <1>1
  <2> QED
    BY <1>1, <2>1, ConcatProperties
<1>n. n = Len(a) /\ m = Len(b)
  OBVIOUS
<1>f. Follows(a, n, b, m, c)
  <2> HIDE DEF n, m, c
  <2> QED
    BY <1>2, <1>3 DEF Follows
<1> HIDE DEF n, m, c
<1>4. PICK f : Sums(T, a, n, f)
  BY <1>1, <1>n, SumsExist
<1>5. PICK g : Sums(T, b, m, g)
  BY <1>1, <1>n, SumsExist
<1>6. PICK h : Sums(T, c, n + m, h) /\ h[n + m] = Join(f[n], g[m])
  BY <1>1, <1>n, <1>f, <1>4, <1>5, SumsConcat
<1>7. n + m \in Nat /\ n + m = Len(c)
  BY <1>1, <1>2
<1>8. FlattenSeq(c) = h[n + m]
  BY <1>2, <1>6, <1>7, FlattenIs
<1>9. FlattenSeq(a) = f[n] /\ FlattenSeq(b) = g[m] /\ FlattenSeq(a) \in Seq(T)
  BY <1>1, <1>n, <1>4, <1>5, FlattenIs
<1> QED
  BY <1>6, <1>8, <1>9 DEF Join, c

(* Whatever holds of nothing and of a concatenation of two for which it holds,*)
(* holds of what flattens to a concatenation of them (W are those).          *)
LEMMA FlattenClosed ==
    ASSUME NEW T, NEW W \in SUBSET Seq(T), <<>> \in W, \A u, v \in W : Join(u, v) \in W,
           NEW s \in Seq(Seq(T)), \A i \in 1 .. Len(s) : s[i] \in W
    PROVE  FlattenSeq(s) \in W
<1> DEFINE n == Len(s)
<1>n. n \in Nat /\ n = Len(s)
  BY LenProperties
<1>1. \A i \in 1 .. n : s[i] \in W
  OBVIOUS
<1> HIDE DEF n
<1>2. PICK f : Sums(T, s, n, f)
  BY <1>n, SumsExist
<1>3. f[0] = <<>> /\ \A i \in 1 .. n : f[i] = Join(f[i - 1], s[i])
  BY <1>2 DEF Sums
<1> DEFINE S == {m \in Nat : f[m] \in W}
<1>4. 0 \in S
  BY <1>3
<1>5. \A m \in 0 .. n - 1 : m \in S => m + 1 \in S
  <2> SUFFICES ASSUME NEW m \in 0 .. n - 1, f[m] \in W PROVE m + 1 \in Nat /\ f[m + 1] \in W
    OBVIOUS
  <2>1. m + 1 \in 1 .. n /\ (m + 1) - 1 = m
    BY <1>n
  <2>2. f[m + 1] = Join(f[m], s[m + 1]) /\ s[m + 1] \in W
    BY <1>1, <1>3, <2>1
  <2> QED
    BY <1>n, <2>1, <2>2
<1>6. 0 .. n \subseteq S
  <2> HIDE DEF S
  <2> QED
    BY <1>n, <1>4, <1>5, UpTo
<1>7. FlattenSeq(s) = f[n]
  BY <1>n, <1>2, FlattenIs
<1> QED
  BY <1>n, <1>6, <1>7

(* Sequences of one element each flatten to the sequence of the elements.    *)
LEMMA FlattenSingles ==
    ASSUME NEW T, NEW s \in Seq(T), NEW n \in Nat, n = Len(s)
    PROVE  FlattenSeq([k \in 1 .. n |-> <<s[k]>>]) = s
<1> DEFINE f == [i \in 0 .. n |-> SubSeq(s, 1, i)]
           p == [k \in 1 .. n |-> <<s[k]>>]
<1>1. f[0] = <<>>
  BY SubSeqEmpty
<1>2. ASSUME NEW i \in 1 .. n PROVE f[i] = Join(f[i - 1], p[i])
  <2>1. SubSeq(s, 1, i) = SubSeq(s, 1, i - 1) \o <<s[i]>>
    <3>1. 1 \in 1 .. Len(s) /\ i \in 1 .. Len(s)
      BY <1>2
    <3> QED
      BY <3>1, SubSeqRecursiveSecond
  <2>2. f[i] = SubSeq(s, 1, i) /\ f[i - 1] = SubSeq(s, 1, i - 1) /\ p[i] = <<s[i]>>
    BY <1>2
  <2> HIDE DEF f, p
  <2> QED
    BY <2>1, <2>2 DEF Join
<1>3. f \in [0 .. n -> Seq(T)]
  <2> SUFFICES ASSUME NEW i \in 0 .. n PROVE SubSeq(s, 1, i) \in Seq(T)
    OBVIOUS
  <2>1. \A k \in 1 .. i : s[k] \in T
    <3>1. \A k \in 1 .. i : k \in 1 .. Len(s)
      OBVIOUS
    <3> QED
      BY <3>1, ElementOfSeq
  <2> QED
    BY <2>1, SubSeqProperties
<1>4. p \in Seq(Seq(T)) /\ n = Len(p)
  <2>1. \A k \in 1 .. n : <<s[k]>> \in Seq(T)
    BY ElementOfSeq
  <2> QED
    BY <2>1
<1>5. f[n] = s
  BY SubSeqFull
<1> HIDE DEF f, p
<1>6. Sums(T, p, n, f)
  BY <1>1, <1>2, <1>3 DEF Sums
<1>7. FlattenSeq(p) = f[n]
  BY <1>4, <1>6, FlattenIs
<1> QED
  BY <1>5, <1>7 DEF p

(* Empty sequences flatten to nothing.                                       *)
LEMMA FlattenEmpties ==
    ASSUME NEW n \in Nat
    PROVE  FlattenSeq([k \in 1 .. n |-> <<>>]) = <<>>
<1> DEFINE p == [k \in 1 .. n |-> <<>>]
<1>1. p \in Seq(Seq({})) /\ Len(p) = n /\ \A i \in 1 .. n : p[i] = <<>>
  BY EmptySeq
<1> HIDE DEF p
<1>2. {<<>>} \in SUBSET Seq({}) /\ Join(<<>>, <<>>) = <<>>
  BY EmptySeq, JoinIs
<1>3. FlattenSeq(p) \in {<<>>}
  BY <1>1, <1>2, FlattenClosed
<1> QED
  BY <1>3 DEF p

(* A sequence whose elements are those of `a` and then those of `b`.         *)
LEMMA ConcatIs ==
    ASSUME NEW T, NEW a \in Seq(T), NEW b \in Seq(T), NEW n \in Nat, n = Len(a),
           NEW m \in Nat, m = Len(b), NEW c \in Seq(T), Len(c) = n + m, Follows(a, n, b, m, c)
    PROVE  c = Join(a, b)
<1>1. a \o b \in Seq(T) /\ Len(a \o b) = n + m
  BY ConcatProperties
<1>2. \A i \in 1 .. n + m : c[i] = (a \o b)[i]
  <2> TAKE i \in 1 .. n + m
  <2>0. (a \o b)[i] = IF i <= n THEN a[i] ELSE b[i - n]
    BY ConcatProperties
  <2>1. CASE i <= n
    <3>1. i \in 1 .. n
      BY <2>1
    <3> QED
      BY <2>0, <2>1, <3>1 DEF Follows
  <2>2. CASE ~ (i <= n)
    <3>1. i - n \in 1 .. m /\ n + (i - n) = i
      BY <2>2
    <3>2. c[n + (i - n)] = b[i - n]
      BY <3>1 DEF Follows
    <3> QED
      BY <2>0, <2>2, <3>1, <3>2
  <2> QED
    BY <2>1, <2>2
<1> QED
  BY <1>1, <1>2, SeqEqual DEF Join

(* What a sequence of sequences flattens to, by two parts of it.             *)
Parts(T, a, b, c) ==
    /\ a \in Seq(Seq(T)) /\ b \in Seq(Seq(T)) /\ c \in Seq(Seq(T))
    /\ Len(c) = Len(a) + Len(b) /\ Follows(a, Len(a), b, Len(b), c)

(* A sequence in two parts flattens to their concatenation.                  *)
LEMMA FlattenParts ==
    ASSUME NEW T, NEW a, NEW b, NEW c, Parts(T, a, b, c)
    PROVE  FlattenSeq(c) = Join(FlattenSeq(a), FlattenSeq(b))
<1>1. /\ a \in Seq(Seq(T)) /\ b \in Seq(Seq(T)) /\ c \in Seq(Seq(T))
      /\ Len(c) = Len(a) + Len(b) /\ Follows(a, Len(a), b, Len(b), c)
  BY DEF Parts
<1>2. Len(a) \in Nat /\ Len(b) \in Nat
  BY <1>1, LenProperties
<1>3. c = Join(a, b)
  BY <1>1, <1>2, ConcatIs
<1> QED
  BY <1>1, <1>3, FlattenConcat

-----------------------------------------------------------------------------
(* Entries that are kept.                                                    *)

(* What Keep flattens.                                                       *)
Picks(ids, S) == [k \in DOMAIN ids |-> IF ids[k] \in S THEN <<ids[k]>> ELSE <<>>]

(* It takes one entry, or none, for each.                                    *)
LEMMA PicksType ==
    ASSUME NEW T, NEW ids \in Seq(T), NEW S
    PROVE  /\ Picks(ids, S) \in Seq(Seq(T)) /\ Len(Picks(ids, S)) = Len(ids)
           /\ \A k \in 1 .. Len(ids) : Picks(ids, S)[k] = IF ids[k] \in S THEN <<ids[k]>> ELSE <<>>
           /\ Keep(ids, S) = FlattenSeq(Picks(ids, S))
<1>1. Len(ids) \in Nat /\ DOMAIN ids = 1 .. Len(ids)
  BY LenProperties
<1>2. \A k \in 1 .. Len(ids) : (IF ids[k] \in S THEN <<ids[k]>> ELSE <<>>) \in Seq(T)
  <2> TAKE k \in 1 .. Len(ids)
  <2>1. ids[k] \in T
    BY ElementOfSeq
  <2> QED
    BY <2>1, EmptySeq
<1>3. Picks(ids, S) \in Seq(Seq(T)) /\ Len(Picks(ids, S)) = Len(ids)
  BY <1>1, <1>2 DEF Picks
<1> QED
  BY <1>1, <1>3 DEF Picks, Keep

(* What is kept of a sequence is a sequence of its kind.                     *)
LEMMA KeepType ==
    ASSUME NEW T, NEW ids \in Seq(T), NEW S
    PROVE  Keep(ids, S) \in Seq(T)
<1>1. FlattenSeq(Picks(ids, S)) \in Seq(T)
  BY PicksType, FlattenConcat
<1> QED
  BY <1>1, PicksType

(* The elements of a concatenation.                                          *)
LEMMA ElementsOfJoin ==
    ASSUME NEW T, NEW a \in Seq(T), NEW b \in Seq(T)
    PROVE  /\ Len(a) \in Nat /\ Len(b) \in Nat
           /\ Join(a, b) \in Seq(T) /\ Len(Join(a, b)) = Len(a) + Len(b)
           /\ Follows(a, Len(a), b, Len(b), Join(a, b))
<1>1. Len(a) \in Nat /\ Len(b) \in Nat
  BY LenProperties
<1>2. Join(a, b) \in Seq(T) /\ Len(Join(a, b)) = Len(a) + Len(b)
  BY ConcatProperties DEF Join
<1>3. \A i \in 1 .. Len(a) : Join(a, b)[i] = a[i]
  BY <1>1, ConcatProperties DEF Join
<1>4. \A i \in 1 .. Len(b) : Join(a, b)[Len(a) + i] = b[i]
  <2> TAKE i \in 1 .. Len(b)
  <2>1. Len(a) + i \in 1 .. Len(a) + Len(b) /\ ~ (Len(a) + i <= Len(a)) /\ (Len(a) + i) - Len(a) = i
    BY <1>1
  <2> QED
    BY <1>1, <2>1, ConcatProperties DEF Join
<1> QED
  BY <1>1, <1>2, <1>3, <1>4 DEF Follows

(* It is kept part by part.                                                  *)
LEMMA KeepConcat ==
    ASSUME NEW T, NEW a \in Seq(T), NEW b \in Seq(T), NEW S
    PROVE  Keep(Join(a, b), S) = Join(Keep(a, S), Keep(b, S))
<1> DEFINE n == Len(a)
           m == Len(b)
           c == Join(a, b)
<1>1. n \in Nat /\ m \in Nat /\ c \in Seq(T) /\ Len(c) = n + m /\ Follows(a, n, b, m, c)
  BY ElementsOfJoin
<1>n. n = Len(a) /\ m = Len(b)
  OBVIOUS
<1> HIDE DEF n, m, c
<1>p. \A i \in 1 .. n + m : Picks(c, S)[i] = IF c[i] \in S THEN <<c[i]>> ELSE <<>>
  <2>1. \A i \in 1 .. Len(c) : Picks(c, S)[i] = IF c[i] \in S THEN <<c[i]>> ELSE <<>>
    <3>1. c \in Seq(T)
      BY <1>1
    <3> QED
      BY <3>1, PicksType
  <2> QED
    BY <1>1, <2>1
<1>4. \A i \in 1 .. n : Picks(c, S)[i] = Picks(a, S)[i]
  <2> TAKE i \in 1 .. n
  <2>1. i \in 1 .. n + m /\ c[i] = a[i]
    BY <1>1 DEF Follows
  <2>2. Picks(c, S)[i] = IF c[i] \in S THEN <<c[i]>> ELSE <<>>
    BY <1>p, <2>1
  <2>3. Picks(a, S)[i] = IF a[i] \in S THEN <<a[i]>> ELSE <<>>
    BY <1>n, PicksType
  <2> QED
    BY <2>1, <2>2, <2>3
<1>5. \A i \in 1 .. m : Picks(c, S)[n + i] = Picks(b, S)[i]
  <2> TAKE i \in 1 .. m
  <2>1. n + i \in 1 .. n + m /\ c[n + i] = b[i]
    BY <1>1 DEF Follows
  <2>2. Picks(c, S)[n + i] = IF c[n + i] \in S THEN <<c[n + i]>> ELSE <<>>
    BY <1>p, <2>1
  <2>3. Picks(b, S)[i] = IF b[i] \in S THEN <<b[i]>> ELSE <<>>
    BY <1>n, PicksType
  <2> QED
    BY <2>1, <2>2, <2>3
<1>f. Follows(Picks(a, S), n, Picks(b, S), m, Picks(c, S))
  BY <1>4, <1>5 DEF Follows
<1>6. /\ Picks(a, S) \in Seq(Seq(T)) /\ n = Len(Picks(a, S)) /\ Keep(a, S) = FlattenSeq(Picks(a, S))
      /\ Picks(b, S) \in Seq(Seq(T)) /\ m = Len(Picks(b, S)) /\ Keep(b, S) = FlattenSeq(Picks(b, S))
      /\ Picks(c, S) \in Seq(Seq(T)) /\ Len(Picks(c, S)) = n + m /\ Keep(c, S) = FlattenSeq(Picks(c, S))
  BY <1>1, <1>n, PicksType
<1>7. Parts(T, Picks(a, S), Picks(b, S), Picks(c, S))
  BY <1>f, <1>6 DEF Parts
<1>8. FlattenSeq(Picks(c, S)) = Join(FlattenSeq(Picks(a, S)), FlattenSeq(Picks(b, S)))
  BY <1>7, FlattenParts
<1> QED
  BY <1>6, <1>8 DEF c

(* A sequence all of which is kept, and one none of which is.                *)
LEMMA KeepAllOrNone ==
    ASSUME NEW T, NEW ids \in Seq(T), NEW S
    PROVE  /\ (\A k \in 1 .. Len(ids) : ids[k] \in S) => Keep(ids, S) = ids
           /\ (\A k \in 1 .. Len(ids) : ids[k] \notin S) => Keep(ids, S) = <<>>
<1>1. Len(ids) \in Nat /\ DOMAIN ids = 1 .. Len(ids)
  BY LenProperties
<1>2. ASSUME \A k \in 1 .. Len(ids) : ids[k] \in S PROVE Keep(ids, S) = ids
  <2>1. Picks(ids, S) = [k \in 1 .. Len(ids) |-> <<ids[k]>>]
    BY <1>1, <1>2 DEF Picks
  <2> QED
    BY <1>1, <2>1, FlattenSingles, PicksType
<1>3. ASSUME \A k \in 1 .. Len(ids) : ids[k] \notin S PROVE Keep(ids, S) = <<>>
  <2>1. Picks(ids, S) = [k \in 1 .. Len(ids) |-> <<>>]
    BY <1>1, <1>3 DEF Picks
  <2> QED
    BY <1>1, <2>1, FlattenEmpties, PicksType
<1> QED
  BY <1>2, <1>3

(* Sets that agree on a sequence keep the same of it.                        *)
LEMMA KeepSame ==
    ASSUME NEW T, NEW ids \in Seq(T), NEW S, NEW R,
           \A k \in 1 .. Len(ids) : ids[k] \in S <=> ids[k] \in R
    PROVE  Keep(ids, S) = Keep(ids, R)
<1>1. DOMAIN ids = 1 .. Len(ids)
  BY LenProperties
<1>2. Picks(ids, S) = Picks(ids, R)
  BY <1>1 DEF Picks
<1> QED
  BY <1>2, PicksType

(* The entries from one to another, by a cut between them.                   *)
LEMMA ScanSplit ==
    ASSUME NEW from \in Nat, NEW mid \in Nat, NEW to \in Nat, from <= mid + 1, mid <= to
    PROVE  Scan(from, to) = Join(Scan(from, mid), Scan(mid + 1, to))
<1> DEFINE a == Scan(from, mid)
           b == Scan(mid + 1, to)
           c == Scan(from, to)
           n == mid + 1 - from
           m == to - mid
<1>1. n \in Nat /\ m \in Nat /\ n + m = to + 1 - from /\ m = to + 1 - (mid + 1)
  OBVIOUS
<1>2. a = [k \in 1 .. n |-> from + k - 1]
  BY DEF Scan
<1>3. b = [k \in 1 .. m |-> (mid + 1) + k - 1]
  BY <1>1 DEF Scan
<1>4. c = [k \in 1 .. n + m |-> from + k - 1]
  BY <1>1 DEF Scan
<1> HIDE DEF a, b, c, n, m
<1>5. a \in Seq(Int) /\ Len(a) = n
  BY <1>1, <1>2
<1>6. b \in Seq(Int) /\ Len(b) = m
  BY <1>1, <1>3
<1>7. c \in Seq(Int) /\ Len(c) = n + m
  BY <1>1, <1>4
<1>8. \A i \in 1 .. n : c[i] = a[i]
  BY <1>1, <1>2, <1>4
<1>9. \A i \in 1 .. m : c[n + i] = b[i]
  <2> TAKE i \in 1 .. m
  <2>1. c[n + i] = from + (n + i) - 1
    BY <1>1, <1>4
  <2>2. b[i] = (mid + 1) + i - 1
    BY <1>3
  <2> QED
    BY <2>1, <2>2 DEF n
<1>f. Follows(a, n, b, m, c)
  BY <1>8, <1>9 DEF Follows
<1>10. c = Join(a, b)
  BY <1>1, <1>5, <1>6, <1>7, <1>f, ConcatIs
<1> QED
  BY <1>10 DEF a, b, c

(* What is scanned.                                                          *)
LEMMA ScanType ==
    ASSUME NEW from \in Nat, NEW to \in Nat, from <= to + 1
    PROVE  /\ Scan(from, to) \in Seq(from .. to)
           /\ \A k \in 1 .. Len(Scan(from, to)) : Scan(from, to)[k] \in from .. to
           /\ \A i \in from .. to : \E k \in 1 .. Len(Scan(from, to)) : Scan(from, to)[k] = i
<1>1. to + 1 - from \in Nat
  OBVIOUS
<1>2. \A k \in 1 .. to + 1 - from : from + k - 1 \in from .. to
  OBVIOUS
<1>3. Scan(from, to) \in Seq(from .. to) /\ Len(Scan(from, to)) = to + 1 - from
  BY <1>1, <1>2 DEF Scan
<1>4. \A i \in from .. to : i - from + 1 \in 1 .. to + 1 - from /\ from + (i - from + 1) - 1 = i
  OBVIOUS
<1>5. \A i \in from .. to : \E k \in 1 .. to + 1 - from : Scan(from, to)[k] = i
  BY <1>4 DEF Scan
<1> QED
  BY <1>2, <1>3, <1>5, ElementOfSeq

-----------------------------------------------------------------------------
(* Messages, and what answers a call.                                        *)

(* Messages of entries: only an assistant message has calls.                 *)
Fields(roles) == {m \in [id : Nat, role : roles, calls : Seq(Nat), call : Nat] :
                    m.role # "assistant" => m.calls = <<>>}
Messages == Fields({"user", "system", "assistant", "result"})

(* Messages of a request: those of entries and results that were missing.    *)
Outputs == Fields({"user", "system", "assistant", "result", "missing"})

(* Messages that another round, or nothing, starts with.                     *)
StartsRound(messages) == messages = <<>> \/ messages[1].role = "assistant"

(* What follows the messages a round ends with does not answer it.           *)
LEMMA AnswersLeft ==
    ASSUME NEW a \in Seq(Messages), NEW b \in Seq(Messages), StartsRound(b),
           NEW i \in 1 .. Len(a), NEW call
    PROVE  Answers(Join(a, b), i, call) = Answers(a, i, call)
<1> DEFINE n == Len(a)
           m == Len(b)
           c == Join(a, b)
<1>1. n \in Nat /\ m \in Nat /\ c \in Seq(Messages) /\ Len(c) = n + m /\ Follows(a, n, b, m, c)
  BY ElementsOfJoin
<1>2. DOMAIN c = 1 .. n + m /\ DOMAIN a = 1 .. n /\ i \in 1 .. n
  BY <1>1
<1>3. m # 0 => b[1].role = "assistant"
  BY EmptySeq DEF StartsRound
<1> HIDE DEF n, m, c
<1>4. \A j \in 1 .. n : c[j] = a[j]
  BY <1>1 DEF Follows
<1>5. m # 0 => c[n + 1].role = "assistant"
  <2> SUFFICES ASSUME m # 0 PROVE c[n + 1].role = "assistant"
    OBVIOUS
  <2>1. 1 \in 1 .. m
    BY <1>1
  <2>2. c[n + 1] = b[1]
    BY <1>1, <2>1 DEF Follows
  <2> QED
    BY <1>3, <2>2
<1>6. ASSUME NEW j \in Answers(c, i, call) PROVE j \in Answers(a, i, call)
  <2>1. /\ j \in 1 .. n + m /\ j > i /\ c[j].role = "result" /\ c[j].call = call
        /\ \A k \in (i + 1) .. j : c[k].role # "assistant"
    BY <1>2, <1>6 DEF Answers
  <2>2. j <= n
    <3> SUFFICES ASSUME ~ (j <= n) PROVE FALSE
      OBVIOUS
    <3>1. n + 1 \in (i + 1) .. j /\ m # 0
      BY <1>1, <1>2, <2>1
    <3> QED
      BY <1>5, <2>1, <3>1
  <2>3. j \in 1 .. n
    BY <2>1, <2>2
  <2>4. \A k \in (i + 1) .. j : a[k].role # "assistant"
    <3> TAKE k \in (i + 1) .. j
    <3>1. k \in 1 .. n
      BY <1>1, <1>2, <2>3
    <3>2. c[k] = a[k]
      BY <1>4, <3>1
    <3>3. c[k].role # "assistant"
      BY <2>1
    <3> QED
      BY <3>2, <3>3
  <2> QED
    BY <1>2, <1>4, <2>1, <2>3, <2>4 DEF Answers
<1>7. ASSUME NEW j \in Answers(a, i, call) PROVE j \in Answers(c, i, call)
  <2>1. /\ j \in 1 .. n /\ j > i /\ a[j].role = "result" /\ a[j].call = call
        /\ \A k \in (i + 1) .. j : a[k].role # "assistant"
    BY <1>2, <1>7 DEF Answers
  <2>2. \A k \in (i + 1) .. j : c[k].role # "assistant"
    <3> TAKE k \in (i + 1) .. j
    <3>1. k \in 1 .. n
      BY <1>1, <1>2, <2>1
    <3>2. c[k] = a[k]
      BY <1>4, <3>1
    <3>3. a[k].role # "assistant"
      BY <2>1
    <3> QED
      BY <3>2, <3>3
  <2>3. j \in 1 .. n + m
    BY <1>1, <2>1
  <2> QED
    BY <1>2, <1>4, <2>1, <2>2, <2>3 DEF Answers
<1>8. Answers(c, i, call) = Answers(a, i, call)
  BY <1>6, <1>7
<1> QED
  BY <1>8 DEF c

(* The answers among the messages after some others.                         *)
LEMMA AnswersRight ==
    ASSUME NEW a \in Seq(Messages), NEW b \in Seq(Messages), NEW i \in 1 .. Len(b), NEW call
    PROVE  Answers(Join(a, b), Len(a) + i, call) = {Len(a) + j : j \in Answers(b, i, call)}
<1> DEFINE n == Len(a)
           m == Len(b)
           c == Join(a, b)
<1>1. n \in Nat /\ m \in Nat /\ c \in Seq(Messages) /\ Len(c) = n + m /\ Follows(a, n, b, m, c)
  BY ElementsOfJoin
<1>2. DOMAIN c = 1 .. n + m /\ DOMAIN b = 1 .. m /\ i \in 1 .. m
  BY <1>1
<1> HIDE DEF n, m, c
<1>4. \A j \in 1 .. m : c[n + j] = b[j]
  BY <1>1 DEF Follows
<1>6. ASSUME NEW x \in Answers(c, n + i, call) PROVE x \in {n + j : j \in Answers(b, i, call)}
  <2>1. /\ x \in 1 .. n + m /\ x > n + i /\ c[x].role = "result" /\ c[x].call = call
        /\ \A k \in (n + i + 1) .. x : c[k].role # "assistant"
    BY <1>2, <1>6 DEF Answers
  <2> DEFINE j == x - n
  <2>2. j \in 1 .. m /\ x = n + j /\ j > i
    BY <1>1, <1>2, <2>1
  <2> HIDE DEF j
  <2>3. \A k \in (i + 1) .. j : b[k].role # "assistant"
    <3> TAKE k \in (i + 1) .. j
    <3>1. k \in 1 .. m /\ n + k \in (n + i + 1) .. x
      BY <1>1, <1>2, <2>2
    <3> QED
      BY <1>4, <2>1, <3>1
  <2>4. c[x] = b[j]
    BY <1>4, <2>2
  <2>5. j \in Answers(b, i, call)
    BY <1>2, <2>1, <2>2, <2>3, <2>4 DEF Answers
  <2> QED
    BY <2>2, <2>5
<1>7. ASSUME NEW j \in Answers(b, i, call) PROVE n + j \in Answers(c, n + i, call)
  <2>1. /\ j \in 1 .. m /\ j > i /\ b[j].role = "result" /\ b[j].call = call
        /\ \A k \in (i + 1) .. j : b[k].role # "assistant"
    BY <1>2, <1>7 DEF Answers
  <2>2. \A k \in (n + i + 1) .. (n + j) : c[k].role # "assistant"
    <3> TAKE k \in (n + i + 1) .. (n + j)
    <3>1. k - n \in (i + 1) .. j /\ k - n \in 1 .. m /\ n + (k - n) = k
      BY <1>1, <1>2, <2>1
    <3>2. c[n + (k - n)] = b[k - n]
      BY <1>4, <3>1
    <3> QED
      BY <2>1, <3>1, <3>2
  <2>3. n + j \in 1 .. n + m /\ n + j > n + i
    BY <1>1, <1>2, <2>1
  <2>4. c[n + j] = b[j]
    BY <1>4, <2>1
  <2> QED
    BY <1>2, <2>1, <2>2, <2>3, <2>4 DEF Answers
<1>8. Answers(c, n + i, call) = {n + j : j \in Answers(b, i, call)}
  BY <1>6, <1>7
<1> QED
  BY <1>8 DEF c, n

(* Where the answer to a call is, if there is one.                           *)
LEMMA AnswerIs ==
    ASSUME NEW m \in Seq(Messages), NEW i \in 1 .. Len(m), NEW call
    PROVE  LET S == Answers(m, i, call) IN
           /\ S \in SUBSET (1 .. Len(m))
           /\ S = {} => ResultOf(m, i, call) = MissingResult(m[i], call)
           /\ S # {} => /\ Oldest(S) \in S /\ \A j \in S : Oldest(S) <= j
                        /\ ResultOf(m, i, call) = m[Oldest(S)]
<1> DEFINE S == Answers(m, i, call)
<1>1. Len(m) \in Nat /\ DOMAIN m = 1 .. Len(m)
  BY LenProperties
<1>2. S \in SUBSET (1 .. Len(m)) /\ S \in SUBSET Nat
  BY <1>1 DEF Answers
<1>3. ResultOf(m, i, call) = IF Oldest(S) = 0 THEN MissingResult(m[i], call) ELSE m[Oldest(S)]
  BY DEF ResultOf
<1> HIDE DEF S
<1>4. /\ S = {} => Oldest(S) = 0
      /\ S # {} => Oldest(S) \in S /\ \A j \in S : Oldest(S) <= j
  BY <1>2, OldestIs
<1>5. S # {} => Oldest(S) # 0
  BY <1>2, <1>4
<1>6. /\ S \in SUBSET (1 .. Len(m))
      /\ S = {} => ResultOf(m, i, call) = MissingResult(m[i], call)
      /\ S # {} => /\ Oldest(S) \in S /\ \A j \in S : Oldest(S) <= j
                   /\ ResultOf(m, i, call) = m[Oldest(S)]
  BY <1>2, <1>3, <1>4, <1>5
<1> QED
  BY <1>6 DEF S

(* The result of a call stays what it is when another round follows.         *)
LEMMA ResultLeft ==
    ASSUME NEW a \in Seq(Messages), NEW b \in Seq(Messages), StartsRound(b),
           NEW i \in 1 .. Len(a), NEW call
    PROVE  ResultOf(Join(a, b), i, call) = ResultOf(a, i, call)
<1> DEFINE c == Join(a, b)
           S == Answers(a, i, call)
<1>1. /\ Len(a) \in Nat /\ Len(b) \in Nat /\ c \in Seq(Messages) /\ Len(c) = Len(a) + Len(b)
      /\ Follows(a, Len(a), b, Len(b), c)
  BY ElementsOfJoin
<1>2. i \in 1 .. Len(c) /\ \A j \in 1 .. Len(a) : c[j] = a[j]
  BY <1>1 DEF Follows
<1>3. Answers(c, i, call) = S
  BY AnswersLeft
<1> HIDE DEF c
<1>a. /\ S \in SUBSET (1 .. Len(a))
      /\ S = {} => ResultOf(a, i, call) = MissingResult(a[i], call)
      /\ S # {} => Oldest(S) \in S /\ ResultOf(a, i, call) = a[Oldest(S)]
  BY AnswerIs
<1>c. /\ Answers(c, i, call) = {} => ResultOf(c, i, call) = MissingResult(c[i], call)
      /\ Answers(c, i, call) # {} => ResultOf(c, i, call) = c[Oldest(Answers(c, i, call))]
  BY <1>1, <1>2, AnswerIs
<1> HIDE DEF S
<1>4. S = {} => ResultOf(c, i, call) = ResultOf(a, i, call)
  BY <1>2, <1>3, <1>a, <1>c
<1>5. S # {} => ResultOf(c, i, call) = c[Oldest(S)] /\ ResultOf(a, i, call) = a[Oldest(S)] /\ Oldest(S) \in 1 .. Len(a)
  BY <1>3, <1>a, <1>c
<1>6. S # {} => ResultOf(c, i, call) = ResultOf(a, i, call)
  BY <1>2, <1>5
<1> QED
  BY <1>4, <1>6 DEF c

(* It is what it was without the messages before.                            *)
LEMMA ResultRight ==
    ASSUME NEW a \in Seq(Messages), NEW b \in Seq(Messages), NEW i \in 1 .. Len(b), NEW call
    PROVE  ResultOf(Join(a, b), Len(a) + i, call) = ResultOf(b, i, call)
<1> DEFINE c == Join(a, b)
           n == Len(a)
           S == Answers(b, i, call)
           R == Answers(c, n + i, call)
<1>1. /\ n \in Nat /\ Len(b) \in Nat /\ c \in Seq(Messages) /\ Len(c) = n + Len(b)
      /\ Follows(a, n, b, Len(b), c)
  BY ElementsOfJoin
<1>2. n + i \in 1 .. Len(c) /\ \A j \in 1 .. Len(b) : c[n + j] = b[j]
  BY <1>1 DEF Follows
<1>3. R = {n + j : j \in S}
  BY AnswersRight
<1> HIDE DEF c, n
<1>4. /\ S \in SUBSET (1 .. Len(b))
      /\ S = {} => ResultOf(b, i, call) = MissingResult(b[i], call)
      /\ S # {} => /\ Oldest(S) \in S /\ \A j \in S : Oldest(S) <= j
                   /\ ResultOf(b, i, call) = b[Oldest(S)]
  BY AnswerIs
<1>5. /\ R = {} => ResultOf(c, n + i, call) = MissingResult(c[n + i], call)
      /\ R # {} => /\ Oldest(R) \in R /\ \A j \in R : Oldest(R) <= j
                   /\ ResultOf(c, n + i, call) = c[Oldest(R)]
  BY <1>1, <1>2, AnswerIs
<1> HIDE DEF S, R
<1>6. CASE S = {}
  <2>1. R = {}
    BY <1>3, <1>6
  <2>2. c[n + i] = b[i]
    BY <1>2
  <2>3. ResultOf(c, n + i, call) = MissingResult(c[n + i], call)
    BY <1>5, <2>1
  <2>4. ResultOf(b, i, call) = MissingResult(b[i], call)
    BY <1>4, <1>6
  <2> QED
    BY <2>2, <2>3, <2>4 DEF c, n
<1>7. CASE S # {}
  <2>1. R # {} /\ n + Oldest(S) \in R
    BY <1>3, <1>4, <1>7
  <2>2. PICK j \in S : Oldest(R) = n + j
    BY <1>3, <1>5, <2>1
  <2>3. Oldest(S) \in 1 .. Len(b) /\ j \in 1 .. Len(b)
    BY <1>4, <1>7
  <2>4. Oldest(S) <= j /\ n + j <= n + Oldest(S)
    <3>1. \A x \in R : Oldest(R) <= x
      BY <1>5, <2>1
    <3>2. Oldest(R) <= n + Oldest(S)
      BY <2>1, <3>1
    <3>3. \A x \in S : Oldest(S) <= x
      BY <1>4, <1>7
    <3> QED
      BY <2>2, <3>2, <3>3
  <2>5. Oldest(R) = n + Oldest(S)
    <3>1. j \in Nat /\ Oldest(S) \in Nat
      BY <1>1, <2>3
    <3>2. j = Oldest(S)
      BY <1>1, <2>4, <3>1
    <3> QED
      BY <2>2, <3>2
  <2>6. c[n + Oldest(S)] = b[Oldest(S)]
    BY <1>2, <2>3
  <2>7. ResultOf(c, n + i, call) = c[Oldest(R)]
    BY <1>5, <2>1
  <2>8. ResultOf(b, i, call) = b[Oldest(S)]
    BY <1>4, <1>7
  <2> QED
    BY <2>5, <2>6, <2>7, <2>8 DEF c, n
<1> QED
  BY <1>6, <1>7

-----------------------------------------------------------------------------
(* Rounds: a message and what answers its calls.                             *)

(* What answers a call: a result of it, or one made up.                      *)
LEMMA ResultType ==
    ASSUME NEW m \in Seq(Messages), NEW i \in 1 .. Len(m), NEW call \in Nat
    PROVE  LET r == ResultOf(m, i, call)
           IN r \in Outputs /\ r.role \in {"result", "missing"} /\ r.call = call /\ r.calls = <<>>
<1> DEFINE S == Answers(m, i, call)
           r == ResultOf(m, i, call)
<1>1. /\ S \in SUBSET (1 .. Len(m))
      /\ S = {} => r = MissingResult(m[i], call)
      /\ S # {} => Oldest(S) \in S /\ r = m[Oldest(S)]
  BY AnswerIs
<1>2. \A j \in S : m[j].role = "result" /\ m[j].call = call
  BY DEF Answers
<1>3. m[i] \in Messages /\ \A j \in S : m[j] \in Messages
  BY <1>1, ElementOfSeq
<1> HIDE DEF S, r
<1>4. CASE S = {}
  <2>1. r = [id |-> m[i].id, role |-> "missing", calls |-> <<>>, call |-> call]
    BY <1>1, <1>4 DEF MissingResult, Message
  <2>2. m[i].id \in Nat /\ <<>> \in Seq(Nat)
    BY <1>3, EmptySeq DEF Messages, Fields
  <2>3. r \in Outputs
    BY <2>1, <2>2 DEF Outputs, Fields
  <2> QED
    BY <2>1, <2>3 DEF r
<1>5. CASE S # {}
  <2>1. r \in Messages /\ r.role = "result" /\ r.call = call
    BY <1>1, <1>2, <1>3, <1>5
  <2>2. r \in Outputs /\ r.calls = <<>>
    BY <2>1 DEF Messages, Outputs, Fields
  <2> QED
    BY <2>1, <2>2 DEF r
<1> QED
  BY <1>4, <1>5

(* The calls of a message.                                                   *)
LEMMA CallsOf ==
    ASSUME NEW m \in Seq(Messages), NEW i \in 1 .. Len(m)
    PROVE  /\ m[i] \in Outputs /\ m[i].role # "missing" /\ m[i].calls \in Seq(Nat)
           /\ Len(m[i].calls) \in Nat /\ DOMAIN m[i].calls = 1 .. Len(m[i].calls)
           /\ \A k \in 1 .. Len(m[i].calls) : m[i].calls[k] \in Nat
<1>1. m[i] \in Messages
  BY ElementOfSeq
<1>2. m[i] \in Outputs /\ m[i].role # "missing" /\ m[i].calls \in Seq(Nat)
  BY <1>1 DEF Messages, Outputs, Fields
<1> QED
  BY <1>2, LenProperties, ElementOfSeq

(* A round: a message, and what answers its calls.                           *)
Results(m, i) == [k \in DOMAIN m[i].calls |-> ResultOf(m, i, m[i].calls[k])]

(* It starts with the message, and is nothing for a result.                  *)
LEMMA BlockIs ==
    ASSUME NEW m \in Seq(Messages), NEW i \in 1 .. Len(m)
    PROVE  /\ BlockOf(m, i) = IF m[i].role = "result" THEN <<>> ELSE Join(<<m[i]>>, Results(m, i))
           /\ Results(m, i) \in Seq(Outputs) /\ Len(Results(m, i)) = Len(m[i].calls)
           /\ <<m[i]>> \in Seq(Outputs) /\ BlockOf(m, i) \in Seq(Outputs)
<1>1. BlockOf(m, i) = IF m[i].role = "result" THEN <<>> ELSE Join(<<m[i]>>, Results(m, i))
  BY DEF BlockOf, Results, Join
<1>2. \A k \in 1 .. Len(m[i].calls) : ResultOf(m, i, m[i].calls[k]) \in Outputs
  <2> TAKE k \in 1 .. Len(m[i].calls)
  <2>1. m[i].calls[k] \in Nat
    BY CallsOf
  <2> QED
    BY <2>1, ResultType
<1>3. Results(m, i) \in Seq(Outputs) /\ Len(Results(m, i)) = Len(m[i].calls)
  <2> DEFINE n == Len(m[i].calls)
  <2>1. n \in Nat /\ DOMAIN m[i].calls = 1 .. n
    BY CallsOf
  <2>2. Results(m, i) = [k \in 1 .. n |-> ResultOf(m, i, m[i].calls[k])]
    BY <2>1 DEF Results
  <2>3. \A k \in 1 .. n : ResultOf(m, i, m[i].calls[k]) \in Outputs
    BY <1>2
  <2>n. n = Len(m[i].calls)
    OBVIOUS
  <2> HIDE DEF n
  <2>4. Results(m, i) \in Seq(Outputs) /\ Len(Results(m, i)) = n
    BY <2>1, <2>2, <2>3
  <2> QED
    BY <2>4, <2>n
<1>4. <<m[i]>> \in Seq(Outputs)
  BY CallsOf
<1>5. Join(<<m[i]>>, Results(m, i)) \in Seq(Outputs)
  BY <1>3, <1>4, JoinIs
<1>6. BlockOf(m, i) \in Seq(Outputs)
  BY <1>1, <1>5, EmptySeq
<1> QED
  BY <1>1, <1>3, <1>4, <1>6

(* Rounds stay what they are when another follows, and without those before. *)
LEMMA BlockLeft ==
    ASSUME NEW a \in Seq(Messages), NEW b \in Seq(Messages), StartsRound(b), NEW i \in 1 .. Len(a)
    PROVE  BlockOf(Join(a, b), i) = BlockOf(a, i)
<1>1. Join(a, b)[i] = a[i]
  BY ElementsOfJoin DEF Follows
<1>2. \A call : ResultOf(Join(a, b), i, call) = ResultOf(a, i, call)
  BY ResultLeft
<1> QED
  BY <1>1, <1>2 DEF BlockOf

(* The rounds of the second part.                                            *)
LEMMA BlockRight ==
    ASSUME NEW a \in Seq(Messages), NEW b \in Seq(Messages), NEW i \in 1 .. Len(b)
    PROVE  BlockOf(Join(a, b), Len(a) + i) = BlockOf(b, i)
<1>1. Join(a, b)[Len(a) + i] = b[i]
  <2>1. Follows(a, Len(a), b, Len(b), Join(a, b))
    BY ElementsOfJoin
  <2> QED
    BY <2>1, Zenon DEF Follows
<1>2. \A call : ResultOf(Join(a, b), Len(a) + i, call) = ResultOf(b, i, call)
  BY ResultRight
<1> DEFINE x == Len(a) + i
           c == Join(a, b)
<1>3. c[x] = b[i] /\ \A call : ResultOf(c, x, call) = ResultOf(b, i, call)
  BY <1>1, <1>2
<1> HIDE DEF x, c
<1>4. BlockOf(c, x) = BlockOf(b, i)
  BY <1>3 DEF BlockOf
<1> QED
  BY <1>4 DEF x, c

(* The rounds of a sequence of messages.                                     *)
Blocks(m) == [i \in DOMAIN m |-> BlockOf(m, i)]

(* They are what the order flattens.                                         *)
LEMMA BlocksType ==
    ASSUME NEW m \in Seq(Messages)
    PROVE  /\ Blocks(m) \in Seq(Seq(Outputs)) /\ Len(Blocks(m)) = Len(m)
           /\ \A i \in 1 .. Len(m) : Blocks(m)[i] = BlockOf(m, i)
           /\ OrderToolResults(m) = FlattenSeq(Blocks(m))
<1>1. Len(m) \in Nat /\ DOMAIN m = 1 .. Len(m)
  BY LenProperties
<1>2. \A i \in 1 .. Len(m) : BlockOf(m, i) \in Seq(Outputs)
  BY BlockIs
<1>3. Blocks(m) \in Seq(Seq(Outputs)) /\ Len(Blocks(m)) = Len(m)
  BY <1>1, <1>2 DEF Blocks
<1> QED
  BY <1>1, <1>3 DEF Blocks, OrderToolResults

(* The order of a sequence of messages is that of its parts, in their order, *)
(* when the later part starts with an assistant message: what settle relies on*)
(* when it puts the messages before the last assistant in order for good.    *)
THEOREM OrderConcat ==
    ASSUME NEW a \in Seq(Messages), NEW b \in Seq(Messages), StartsRound(b)
    PROVE  OrderToolResults(Join(a, b)) = Join(OrderToolResults(a), OrderToolResults(b))
<1> DEFINE c == Join(a, b)
           n == Len(a)
           m == Len(b)
<1>1. n \in Nat /\ m \in Nat /\ c \in Seq(Messages) /\ Len(c) = n + m
  BY ElementsOfJoin
<1>2. \A i \in 1 .. n : BlockOf(c, i) = BlockOf(a, i)
  BY BlockLeft
<1>3. \A i \in 1 .. m : BlockOf(c, n + i) = BlockOf(b, i)
  BY BlockRight
<1>n. n = Len(a) /\ m = Len(b)
  OBVIOUS
<1> HIDE DEF c, n, m
<1>4. /\ Blocks(a) \in Seq(Seq(Outputs)) /\ Len(Blocks(a)) = n
      /\ \A i \in 1 .. n : Blocks(a)[i] = BlockOf(a, i)
  BY <1>n, BlocksType
<1>5. /\ Blocks(b) \in Seq(Seq(Outputs)) /\ Len(Blocks(b)) = m
      /\ \A i \in 1 .. m : Blocks(b)[i] = BlockOf(b, i)
  BY <1>n, BlocksType
<1>6. /\ Blocks(c) \in Seq(Seq(Outputs)) /\ Len(Blocks(c)) = n + m
      /\ \A i \in 1 .. n + m : Blocks(c)[i] = BlockOf(c, i)
  BY <1>1, BlocksType
<1>7. \A i \in 1 .. n : Blocks(c)[i] = Blocks(a)[i]
  <2> TAKE i \in 1 .. n
  <2>1. i \in 1 .. n + m
    BY <1>1
  <2> QED
    BY <1>2, <1>4, <1>6, <2>1
<1>8. \A i \in 1 .. m : Blocks(c)[n + i] = Blocks(b)[i]
  <2> TAKE i \in 1 .. m
  <2>1. n + i \in 1 .. n + m
    BY <1>1
  <2> QED
    BY <1>3, <1>5, <1>6, <2>1
<1>9. Parts(Outputs, Blocks(a), Blocks(b), Blocks(c))
  BY <1>4, <1>5, <1>6, <1>7, <1>8 DEF Parts, Follows
<1>10. FlattenSeq(Blocks(c)) = Join(FlattenSeq(Blocks(a)), FlattenSeq(Blocks(b)))
  BY <1>9, FlattenParts
<1>11. OrderToolResults(c) = Join(OrderToolResults(a), OrderToolResults(b))
  BY <1>1, <1>10, BlocksType
<1> QED
  BY <1>11 DEF c

-----------------------------------------------------------------------------
(* Well-formed requests.                                                     *)

(* Sequences in which each call has its results, and each result its call.   *)
WellFormed == {m \in Seq(Outputs) : IsWellFormed(m)}

(* Every call of the message at `i` is answered right after it; a result there*)
(* has its call before it.                                                   *)
CallsAnswered(m, i) ==
    \A k \in 1 .. Len(m[i].calls) : /\ i + k \in 1 .. Len(m)
                                    /\ m[i + k].role \in {"result", "missing"}
                                    /\ m[i + k].call = m[i].calls[k]
HasCall(m, i) ==
    m[i].role \in {"result", "missing"} =>
      \E j \in 1 .. i - 1 : i - j \in 1 .. Len(m[j].calls) /\ m[j].calls[i - j] = m[i].call

(* Both, of every message, make a sequence well formed.                      *)
LEMMA WellFormedIs ==
    ASSUME NEW m \in Seq(Outputs)
    PROVE  m \in WellFormed <=> \A i \in 1 .. Len(m) : CallsAnswered(m, i) /\ HasCall(m, i)
<1>1. Len(m) \in Nat /\ DOMAIN m = 1 .. Len(m)
  BY LenProperties
<1>2. \A i \in 1 .. Len(m) : DOMAIN m[i].calls = 1 .. Len(m[i].calls)
  <2> TAKE i \in 1 .. Len(m)
  <2>1. m[i] \in Outputs
    BY ElementOfSeq
  <2>2. m[i].calls \in Seq(Nat)
    BY <2>1 DEF Outputs, Fields
  <2> QED
    BY <2>2, LenProperties
<1>3. \A i \in 1 .. Len(m) : \A j \in 1 .. i - 1 : j \in 1 .. Len(m)
  BY <1>1
<1>4. \A i \in 1 .. Len(m) :
        CallsAnswered(m, i) <=>
          \A k \in DOMAIN m[i].calls : i + k \in DOMAIN m /\ m[i + k].role \in {"result", "missing"} /\ m[i + k].call = m[i].calls[k]
  BY <1>1, <1>2 DEF CallsAnswered
<1>5. \A i \in 1 .. Len(m) :
        HasCall(m, i) <=>
          (m[i].role \in {"result", "missing"} =>
             \E j \in 1 .. (i - 1) : i - j \in DOMAIN m[j].calls /\ m[j].calls[i - j] = m[i].call)
  <2> TAKE i \in 1 .. Len(m)
  <2>1. \A j \in 1 .. i - 1 : DOMAIN m[j].calls = 1 .. Len(m[j].calls)
    BY <1>2, <1>3
  <2> QED
    BY <2>1 DEF HasCall
<1> QED
  BY <1>1, <1>4, <1>5 DEF WellFormed, IsWellFormed

(* Nothing is well formed.                                                   *)
LEMMA NothingWellFormed == <<>> \in WellFormed
<1>1. <<>> \in Seq(Outputs) /\ Len(<<>>) = 0
  BY EmptySeq
<1>2. \A i \in 1 .. Len(<<>>) : CallsAnswered(<<>>, i) /\ HasCall(<<>>, i)
  BY <1>1
<1> QED
  BY <1>1, <1>2, WellFormedIs, Zenon

(* One after the other, well-formed sequences are well formed.               *)
LEMMA WellFormedJoin ==
    ASSUME NEW u \in WellFormed, NEW v \in WellFormed
    PROVE  Join(u, v) \in WellFormed
<1> DEFINE n == Len(u)
           m == Len(v)
           c == Join(u, v)
<1>1. u \in Seq(Outputs) /\ v \in Seq(Outputs)
  BY DEF WellFormed
<1>2. n \in Nat /\ m \in Nat /\ c \in Seq(Outputs) /\ Len(c) = n + m /\ Follows(u, n, v, m, c)
  BY <1>1, ElementsOfJoin
<1>3. /\ \A i \in 1 .. n : CallsAnswered(u, i) /\ HasCall(u, i)
      /\ \A i \in 1 .. m : CallsAnswered(v, i) /\ HasCall(v, i)
  BY <1>1, WellFormedIs
<1>n. n = Len(u) /\ m = Len(v)
  OBVIOUS
<1> HIDE DEF n, m, c
<1>4. \A i \in 1 .. n : c[i] = u[i]
  BY <1>2 DEF Follows
<1>5. \A i \in 1 .. m : c[n + i] = v[i]
  BY <1>2 DEF Follows
<1>6. ASSUME NEW i \in 1 .. n PROVE CallsAnswered(c, i) /\ HasCall(c, i)
  <2>0. i \in Nat /\ c[i] = u[i] /\ CallsAnswered(u, i) /\ HasCall(u, i)
    BY <1>2, <1>3, <1>4
  <2>1. CallsAnswered(c, i)
    <3> SUFFICES ASSUME NEW k \in 1 .. Len(u[i].calls)
                 PROVE  /\ i + k \in 1 .. n + m
                        /\ c[i + k].role \in {"result", "missing"} /\ c[i + k].call = u[i].calls[k]
      BY <1>2, <2>0 DEF CallsAnswered
    <3>1. i + k \in 1 .. n /\ u[i + k].role \in {"result", "missing"} /\ u[i + k].call = u[i].calls[k]
      BY <1>n, <2>0 DEF CallsAnswered
    <3>2. c[i + k] = u[i + k] /\ i + k \in 1 .. n + m
      BY <1>2, <1>4, <3>1
    <3> QED
      BY <3>1, <3>2
  <2>2. HasCall(c, i)
    <3> SUFFICES ASSUME u[i].role \in {"result", "missing"}
                 PROVE  \E j \in 1 .. i - 1 : i - j \in 1 .. Len(c[j].calls) /\ c[j].calls[i - j] = u[i].call
      BY <2>0 DEF HasCall
    <3>1. PICK j \in 1 .. i - 1 : i - j \in 1 .. Len(u[j].calls) /\ u[j].calls[i - j] = u[i].call
      BY <2>0 DEF HasCall
    <3>2. j \in 1 .. n
      BY <1>2, <2>0
    <3>3. c[j] = u[j]
      BY <1>4, <3>2
    <3> QED
      BY <3>1, <3>3
  <2> QED
    BY <2>1, <2>2
<1>7. ASSUME NEW i \in 1 .. m PROVE CallsAnswered(c, n + i) /\ HasCall(c, n + i)
  <2>0. i \in Nat /\ c[n + i] = v[i] /\ CallsAnswered(v, i) /\ HasCall(v, i)
    BY <1>2, <1>3, <1>5
  <2>1. CallsAnswered(c, n + i)
    <3> SUFFICES ASSUME NEW k \in 1 .. Len(v[i].calls)
                 PROVE  /\ n + i + k \in 1 .. n + m
                        /\ c[n + i + k].role \in {"result", "missing"} /\ c[n + i + k].call = v[i].calls[k]
      BY <1>2, <2>0 DEF CallsAnswered
    <3>1. i + k \in 1 .. m /\ v[i + k].role \in {"result", "missing"} /\ v[i + k].call = v[i].calls[k]
      BY <1>n, <2>0 DEF CallsAnswered
    <3>2. n + i + k \in 1 .. n + m /\ n + i + k = n + (i + k)
      BY <1>2, <2>0, <3>1
    <3>3. c[n + (i + k)] = v[i + k]
      BY <1>5, <3>1
    <3> QED
      BY <3>1, <3>2, <3>3
  <2>2. HasCall(c, n + i)
    <3> DEFINE x == n + i
    <3>0. x = n + i /\ x \in Nat
      BY <1>2
    <3> HIDE DEF x
    <3>1. ASSUME v[i].role \in {"result", "missing"}
          PROVE  \E j \in 1 .. x - 1 : x - j \in 1 .. Len(c[j].calls) /\ c[j].calls[x - j] = v[i].call
      <4>1. PICK j \in 1 .. i - 1 : i - j \in 1 .. Len(v[j].calls) /\ v[j].calls[i - j] = v[i].call
        BY <2>0, <3>1 DEF HasCall
      <4>2. j \in 1 .. m /\ n + j \in 1 .. x - 1 /\ x - (n + j) = i - j
        <5>1. n \in Nat /\ m \in Nat /\ i \in Nat /\ i <= m
          BY <1>2
        <5> QED
          BY <3>0, <5>1
      <4>3. c[n + j] = v[j]
        BY <1>5, <4>2
      <4>4. x - (n + j) \in 1 .. Len(c[n + j].calls) /\ c[n + j].calls[x - (n + j)] = v[i].call
        BY <4>1, <4>2, <4>3
      <4> QED
        BY <4>2, <4>4
    <3>2. c[x] = v[i]
      BY <2>0, <3>0
    <3>3. HasCall(c, x)
      BY <3>1, <3>2 DEF HasCall
    <3> QED
      BY <3>0, <3>3
  <2> QED
    BY <2>1, <2>2
<1>8. \A x \in 1 .. n + m : x \in 1 .. n \/ (x - n \in 1 .. m /\ x = n + (x - n))
  BY <1>2
<1>9. \A x \in 1 .. n + m : CallsAnswered(c, x) /\ HasCall(c, x)
  <2> TAKE x \in 1 .. n + m
  <2>1. CASE x \in 1 .. n
    BY <1>6, <2>1
  <2>2. ASSUME NEW i \in 1 .. m, x = n + i PROVE CallsAnswered(c, x) /\ HasCall(c, x)
    BY <1>7, <2>2
  <2> QED
    BY <1>8, <2>1, <2>2
<1>10. c \in WellFormed
  BY <1>2, <1>9, WellFormedIs
<1> QED
  BY <1>10 DEF c

(* A round is well formed.                                                   *)
LEMMA WellFormedBlock ==
    ASSUME NEW m \in Seq(Messages), NEW i \in 1 .. Len(m)
    PROVE  BlockOf(m, i) \in WellFormed
<1> DEFINE r == Results(m, i)
           one == <<m[i]>>
           b == Join(one, r)
           n == Len(m[i].calls)
<1>0. BlockOf(m, i) = IF m[i].role = "result" THEN <<>> ELSE b
  BY BlockIs
<1>1. r \in Seq(Outputs) /\ Len(r) = n /\ one \in Seq(Outputs) /\ Len(one) = 1 /\ one[1] = m[i]
  BY BlockIs
<1>2. n \in Nat /\ DOMAIN m[i].calls = 1 .. n /\ m[i].role # "missing"
  BY CallsOf
<1>3. \A k \in 1 .. n : r[k].role \in {"result", "missing"} /\ r[k].call = m[i].calls[k] /\ r[k].calls = <<>>
  <2> TAKE k \in 1 .. n
  <2>1. r[k] = ResultOf(m, i, m[i].calls[k])
    BY <1>2 DEF Results
  <2>2. m[i].calls[k] \in Nat
    BY CallsOf
  <2> QED
    BY <2>1, <2>2, ResultType
<1>n. n = Len(m[i].calls)
  OBVIOUS
<1> HIDE DEF r, n, one
<1>4. b \in Seq(Outputs) /\ Len(b) = n + 1 /\ b[1] = m[i] /\ \A k \in 1 .. n : b[1 + k] = r[k]
  <2>2. b \in Seq(Outputs) /\ Len(b) = 1 + n /\ Follows(one, 1, r, n, b)
    BY <1>1, ElementsOfJoin
  <2>3. b[1] = one[1] /\ \A k \in 1 .. n : b[1 + k] = r[k]
    BY <2>2 DEF Follows
  <2> QED
    BY <1>1, <1>2, <2>2, <2>3
<1> HIDE DEF b
<1>5. CASE m[i].role # "result"
  <2>1. CallsAnswered(b, 1)
    <3> SUFFICES ASSUME NEW k \in 1 .. n
                 PROVE  /\ 1 + k \in 1 .. n + 1 /\ b[1 + k].role \in {"result", "missing"}
                        /\ b[1 + k].call = m[i].calls[k]
      BY <1>4, <1>n DEF CallsAnswered
    <3>1. 1 + k \in 1 .. n + 1
      BY <1>2
    <3>2. b[1 + k] = r[k]
      BY <1>4
    <3>3. r[k].role \in {"result", "missing"} /\ r[k].call = m[i].calls[k]
      BY <1>3
    <3> QED
      BY <3>1, <3>2, <3>3
  <2>2. HasCall(b, 1)
    <3>1. b[1].role # "result" /\ b[1].role # "missing"
      BY <1>2, <1>4, <1>5
    <3> QED
      BY <3>1 DEF HasCall
  <2>3. ASSUME NEW k \in 1 .. n PROVE CallsAnswered(b, 1 + k) /\ HasCall(b, 1 + k)
    <3>1. b[1 + k] = r[k] /\ r[k].calls = <<>> /\ Len(<<>>) = 0
      BY <1>3, <1>4, EmptySeq
    <3>2. CallsAnswered(b, 1 + k)
      BY <3>1 DEF CallsAnswered
    <3>3. 1 \in 1 .. 1 + k - 1 /\ 1 + k - 1 = k /\ k \in 1 .. Len(b[1].calls) /\ b[1].calls[k] = b[1 + k].call
      BY <1>2, <1>3, <1>4, <1>n, <3>1
    <3>4. \E j \in 1 .. 1 + k - 1 : 1 + k - j \in 1 .. Len(b[j].calls) /\ b[j].calls[1 + k - j] = b[1 + k].call
      BY <3>3
    <3>5. HasCall(b, 1 + k)
      BY <3>4 DEF HasCall
    <3> QED
      BY <3>2, <3>5
  <2>4. \A x \in 1 .. n + 1 : x = 1 \/ (x - 1 \in 1 .. n /\ x = 1 + (x - 1))
    BY <1>2
  <2>5. \A x \in 1 .. n + 1 : CallsAnswered(b, x) /\ HasCall(b, x)
    <3> TAKE x \in 1 .. n + 1
    <3>1. CASE x = 1
      BY <2>1, <2>2, <3>1
    <3>2. ASSUME NEW k \in 1 .. n, x = 1 + k PROVE CallsAnswered(b, x) /\ HasCall(b, x)
      BY <2>3, <3>2
    <3> QED
      BY <2>4, <3>1, <3>2
  <2>6. b \in WellFormed
    BY <1>4, <2>5, WellFormedIs
  <2> QED
    BY <1>0, <1>5, <2>6
<1>6. CASE m[i].role = "result"
  BY <1>0, <1>6, NothingWellFormed
<1> QED
  BY <1>5, <1>6

(* orderToolResults puts any messages in a well-formed order: one result per *)
(* call right after the message that calls, and no result without its call.  *)
THEOREM OrderWellFormed ==
    ASSUME NEW m \in Seq(Messages)
    PROVE  OrderToolResults(m) \in WellFormed
<1>1. /\ Blocks(m) \in Seq(Seq(Outputs)) /\ Len(Blocks(m)) = Len(m)
      /\ \A i \in 1 .. Len(m) : Blocks(m)[i] = BlockOf(m, i)
      /\ OrderToolResults(m) = FlattenSeq(Blocks(m))
  BY BlocksType
<1>2. \A i \in 1 .. Len(Blocks(m)) : Blocks(m)[i] \in WellFormed
  BY <1>1, WellFormedBlock
<1>3. /\ WellFormed \in SUBSET Seq(Outputs) /\ <<>> \in WellFormed
      /\ \A u, v \in WellFormed : Join(u, v) \in WellFormed
  BY NothingWellFormed, WellFormedJoin DEF WellFormed
<1>4. FlattenSeq(Blocks(m)) \in WellFormed
  BY <1>1, <1>2, <1>3, FlattenClosed
<1> QED
  BY <1>1, <1>4

-----------------------------------------------------------------------------
(* Settled and open messages.                                                *)

(* Messages `all`, split into the order of the settled and the open ones.    *)
Splits(all, settled, open) ==
    \E old \in Seq(Messages) :
      /\ open \in Seq(Messages) /\ all = Join(old, open) /\ settled = OrderToolResults(old)
      /\ old = <<>> \/ (open # <<>> /\ open[1].role = "assistant")

(* The order of nothing.                                                     *)
LEMMA OrderNothing == OrderToolResults(<<>>) = <<>>
<1>1. <<>> \in Seq(Messages) /\ Len(<<>>) = 0
  BY EmptySeq
<1>2. Blocks(<<>>) \in Seq(Seq(Outputs)) /\ Len(Blocks(<<>>)) = 0 /\ OrderToolResults(<<>>) = FlattenSeq(Blocks(<<>>))
  BY <1>1, BlocksType
<1>3. Blocks(<<>>) = <<>>
  BY <1>2, EmptySeq
<1> QED
  BY <1>2, <1>3, FlattenNothing

(* An order is a sequence of messages of a request.                          *)
LEMMA OrderType ==
    ASSUME NEW m \in Seq(Messages)
    PROVE  OrderToolResults(m) \in Seq(Outputs)
BY OrderWellFormed DEF WellFormed

(* The order of parts, the first of which may be empty.                      *)
LEMMA OrderParts ==
    ASSUME NEW old \in Seq(Messages), NEW open \in Seq(Messages), old = <<>> \/ StartsRound(open)
    PROVE  OrderToolResults(Join(old, open)) = Join(OrderToolResults(old), OrderToolResults(open))
<1>1. CASE old = <<>>
  <2>1. Join(old, open) = open
    BY <1>1, JoinIs
  <2>2. OrderToolResults(old) = <<>>
    BY <1>1, OrderNothing
  <2>3. Join(<<>>, OrderToolResults(open)) = OrderToolResults(open)
    BY OrderType, JoinIs
  <2> QED
    BY <2>1, <2>2, <2>3
<1>2. CASE StartsRound(open)
  BY <1>2, OrderConcat
<1> QED
  BY <1>1, <1>2

(* At first everything is open.                                              *)
LEMMA SplitsAtFirst ==
    ASSUME NEW all \in Seq(Messages)
    PROVE  Splits(all, <<>>, all)
<1>1. <<>> \in Seq(Messages) /\ Join(<<>>, all) = all
  BY EmptySeq, JoinIs
<1> QED
  BY <1>1, OrderNothing DEF Splits

(* A split gives the order of everything.                                    *)
LEMMA SplitsOrder ==
    ASSUME NEW all, NEW settled, NEW open, Splits(all, settled, open)
    PROVE  /\ all \in Seq(Messages)
           /\ Join(settled, OrderToolResults(open)) = OrderToolResults(all)
<1>1. PICK old \in Seq(Messages) :
        /\ open \in Seq(Messages) /\ all = Join(old, open) /\ settled = OrderToolResults(old)
        /\ old = <<>> \/ (open # <<>> /\ open[1].role = "assistant")
  BY DEF Splits
<1>2. old = <<>> \/ StartsRound(open)
  BY <1>1 DEF StartsRound
<1> QED
  BY <1>1, <1>2, OrderParts, JoinIs

(* More messages are open.                                                   *)
LEMMA SplitsMore ==
    ASSUME NEW all, NEW settled, NEW open, Splits(all, settled, open), NEW more \in Seq(Messages)
    PROVE  Splits(Join(all, more), settled, Join(open, more))
<1>1. PICK old \in Seq(Messages) :
        /\ open \in Seq(Messages) /\ all = Join(old, open) /\ settled = OrderToolResults(old)
        /\ old = <<>> \/ (open # <<>> /\ open[1].role = "assistant")
  BY DEF Splits
<1>2. Join(all, more) = Join(old, Join(open, more)) /\ Join(open, more) \in Seq(Messages)
  BY <1>1, JoinIs, JoinAssociative
<1>3. ASSUME open # <<>> PROVE Join(open, more) # <<>> /\ Join(open, more)[1] = open[1]
  <2>1. /\ Len(open) \in Nat /\ Len(more) \in Nat /\ Len(Join(open, more)) = Len(open) + Len(more)
        /\ Follows(open, Len(open), more, Len(more), Join(open, more))
    BY <1>1, ElementsOfJoin
  <2>2. Len(open) # 0
    BY <1>1, <1>3, EmptySeq
  <2>3. 1 \in 1 .. Len(open) /\ Len(Join(open, more)) # 0
    BY <2>1, <2>2
  <2>4. Join(open, more)[1] = open[1]
    BY <2>1, <2>3 DEF Follows
  <2> QED
    BY <2>3, <2>4, EmptySeq
<1> DEFINE now == Join(open, more)
<1>4. /\ now \in Seq(Messages) /\ Join(all, more) = Join(old, now) /\ settled = OrderToolResults(old)
      /\ old = <<>> \/ (now # <<>> /\ now[1].role = "assistant")
  BY <1>1, <1>2, <1>3
<1> HIDE DEF now
<1>5. Splits(Join(all, more), settled, now)
  BY <1>4 DEF Splits
<1> QED
  BY <1>5 DEF now

(* A cut of a sequence.                                                      *)
LEMMA Cut ==
    ASSUME NEW T, NEW s \in Seq(T), NEW at \in 1 .. Len(s)
    PROVE  LET a == SubSeq(s, 1, at - 1)
               b == SubSeq(s, at, Len(s))
           IN /\ a \in Seq(T) /\ b \in Seq(T) /\ Join(a, b) = s
              /\ Len(a) = at - 1 /\ Len(b) = Len(s) + 1 - at
              /\ \A i \in 1 .. at - 1 : a[i] = s[i]
              /\ b[1] = s[at]
<1>1. Len(s) \in Nat /\ at \in Nat
  BY LenProperties
<1>2. \A i \in 1 .. Len(s) : s[i] \in T
  BY ElementOfSeq
<1>3. \A i \in 1 .. at - 1 : s[i] \in T
  BY <1>1, <1>2
<1>4. \A i \in at .. Len(s) : s[i] \in T
  BY <1>1, <1>2
<1>5. /\ SubSeq(s, 1, at - 1) \in Seq(T)
      /\ Len(SubSeq(s, 1, at - 1)) = IF 1 <= at - 1 THEN (at - 1) - 1 + 1 ELSE 0
      /\ \A i \in 1 .. (at - 1) - 1 + 1 : SubSeq(s, 1, at - 1)[i] = s[1 + i - 1]
  BY <1>1, <1>3, SubSeqProperties
<1>6. /\ SubSeq(s, at, Len(s)) \in Seq(T)
      /\ Len(SubSeq(s, at, Len(s))) = IF at <= Len(s) THEN Len(s) - at + 1 ELSE 0
      /\ \A i \in 1 .. Len(s) - at + 1 : SubSeq(s, at, Len(s))[i] = s[at + i - 1]
  BY <1>1, <1>4, SubSeqProperties
<1>7. SubSeq(s, 1, at - 1) \o SubSeq(s, at, Len(s)) = SubSeq(s, 1, Len(s))
  <2>1. 1 \in 1 .. Len(s) + 1 /\ at - 1 \in 1 - 1 .. Len(s) /\ Len(s) \in at - 1 .. Len(s) /\ (at - 1) + 1 = at
    BY <1>1
  <2>2. SubSeq(s, 1, at - 1) \o SubSeq(s, (at - 1) + 1, Len(s)) = SubSeq(s, 1, Len(s))
    BY <2>1, ConcatAdjacentSubSeq
  <2> QED
    BY <2>1, <2>2
<1>8. SubSeq(s, 1, Len(s)) = s
  BY SubSeqFull
<1> DEFINE a == SubSeq(s, 1, at - 1)
           b == SubSeq(s, at, Len(s))
<1> HIDE DEF a, b
<1>9. a \in Seq(T) /\ b \in Seq(T) /\ Join(a, b) = s
  BY <1>5, <1>6, <1>7, <1>8 DEF a, b, Join
<1>10. Len(a) = at - 1 /\ \A i \in 1 .. at - 1 : a[i] = s[i]
  BY <1>1, <1>5 DEF a
<1>11. Len(b) = Len(s) + 1 - at /\ b[1] = s[at]
  BY <1>1, <1>6 DEF b
<1> QED
  BY <1>9, <1>10, <1>11 DEF a, b

(* Settling splits the same messages.                                        *)
LEMMA SplitsSettle ==
    ASSUME NEW all, NEW settled, NEW open, Splits(all, settled, open)
    PROVE  Splits(all, Settle(settled, open).settled, Settle(settled, open).open)
<1>1. PICK old \in Seq(Messages) :
        /\ open \in Seq(Messages) /\ all = Join(old, open) /\ settled = OrderToolResults(old)
        /\ old = <<>> \/ (open # <<>> /\ open[1].role = "assistant")
  BY DEF Splits
<1> DEFINE A == {i \in DOMAIN open : open[i].role = "assistant"}
           last == Newest(A)
           a == SubSeq(open, 1, last - 1)
           b == SubSeq(open, last, Len(open))
<1>2. Settle(settled, open) = IF last <= 1 THEN [settled |-> settled, open |-> open]
                              ELSE [settled |-> Join(settled, OrderToolResults(a)), open |-> b]
  BY DEF Settle, Join
<1>3. CASE last <= 1
  BY <1>2, <1>3
<1>4. CASE ~ (last <= 1)
  <2>1. last \in 1 .. Len(open) /\ open[last].role = "assistant" /\ last > 1
    <3>1. Len(open) \in Nat /\ DOMAIN open = 1 .. Len(open)
      BY <1>1, LenProperties
    <3>2. A \in SUBSET Nat /\ (\A i \in A : i <= Len(open)) /\ A \in SUBSET (1 .. Len(open))
      BY <3>1
    <3>3. \A i \in A : open[i].role = "assistant"
      OBVIOUS
    <3> HIDE DEF A
    <3>4. /\ A = {} => last = 0
          /\ A # {} => last \in A
      BY <3>1, <3>2, NewestIs
    <3>5. last \in A
      BY <1>4, <3>4
    <3> HIDE DEF last
    <3>6. last \in 1 .. Len(open)
      BY <3>2, <3>5
    <3>7. open[last].role = "assistant"
      BY <3>3, <3>5
    <3>8. last > 1
      BY <1>4, <3>1, <3>6
    <3> QED
      BY <3>6, <3>7, <3>8
  <2> HIDE DEF last
  <2>2. /\ a \in Seq(Messages) /\ b \in Seq(Messages) /\ Join(a, b) = open
        /\ Len(a) = last - 1 /\ Len(b) = Len(open) + 1 - last
        /\ \A i \in 1 .. last - 1 : a[i] = open[i]
        /\ b[1] = open[last]
    BY <1>1, <2>1, Cut
  <2> HIDE DEF a, b
  <2>3. a # <<>> /\ b # <<>> /\ a[1] = open[1] /\ b[1].role = "assistant"
    <3>1. Len(open) \in Nat
      BY <1>1, LenProperties
    <3>2. Len(a) # 0 /\ Len(b) # 0 /\ 1 \in 1 .. last - 1
      BY <2>1, <2>2, <3>1
    <3> QED
      BY <2>1, <2>2, <3>2, EmptySeq
  <2>4. old = <<>> \/ StartsRound(a)
    BY <1>1, <2>3 DEF StartsRound
  <2>5. OrderToolResults(Join(old, a)) = Join(settled, OrderToolResults(a))
    BY <1>1, <2>2, <2>4, OrderParts
  <2>6. Join(old, a) \in Seq(Messages) /\ all = Join(Join(old, a), b)
    BY <1>1, <2>2, JoinIs, JoinAssociative
  <2>7. Splits(all, Join(settled, OrderToolResults(a)), b)
    BY <2>2, <2>3, <2>5, <2>6 DEF Splits
  <2>8. Settle(settled, open) = [settled |-> Join(settled, OrderToolResults(a)), open |-> b]
    BY <1>2, <1>4
  <2> QED
    BY <2>7, <2>8
<1> QED
  BY <1>3, <1>4

(* A system message that goes first, past user messages, parts no call from  *)
(* its results.                                                              *)
LEMMA LeadWellFormed ==
    ASSUME NEW m \in WellFormed
    PROVE  LeadWithSystem(m) \in WellFormed
<1> DEFINE O == {i \in DOMAIN m : m[i].role # "user"}
           at == Oldest(O)
<1>1. m \in Seq(Outputs) /\ \A i \in 1 .. Len(m) : CallsAnswered(m, i) /\ HasCall(m, i)
  BY WellFormedIs DEF WellFormed
<1>2. Len(m) \in Nat /\ DOMAIN m = 1 .. Len(m)
  BY <1>1, LenProperties
<1>3. O \in SUBSET Nat /\ O \in SUBSET (1 .. Len(m)) /\ (\A i \in O : m[i].role # "user")
      /\ \A i \in 1 .. Len(m) : i \notin O => m[i].role = "user"
  BY <1>2
<1> DEFINE c == <<m[at]>> \o SubSeq(m, 1, at - 1) \o SubSeq(m, at + 1, Len(m))
<1>4. LeadWithSystem(m) = IF at <= 1 \/ m[at].role # "system" THEN m ELSE c
  BY DEF LeadWithSystem
<1> HIDE DEF O
<1>5. (O = {} => at = 0) /\ (O # {} => at \in O /\ \A j \in O : at <= j)
  BY <1>3, OldestIs
<1>6. CASE at <= 1 \/ m[at].role # "system"
  BY <1>4, <1>6
<1>7. CASE ~ (at <= 1 \/ m[at].role # "system")
  <2>1. at \in 1 .. Len(m) /\ at > 1 /\ m[at].role = "system"
    BY <1>3, <1>5, <1>7
  <2>2. \A i \in 1 .. at - 1 : m[i].role = "user"
    <3> TAKE i \in 1 .. at - 1
    <3>1. i \in 1 .. Len(m) /\ i < at /\ at \in Nat
      BY <1>2, <2>1
    <3>2. i \notin O
      BY <1>5, <3>1
    <3> QED
      BY <1>3, <3>1, <3>2
  <2> HIDE DEF at
  <2>3. c \in Seq(Outputs) /\ Len(c) = Len(m) /\ c[1] = m[at]
        /\ (\A i \in 2 .. at : c[i] = m[i - 1]) /\ (\A i \in at + 1 .. Len(m) : c[i] = m[i])
    <3> DEFINE a == SubSeq(m, 1, at - 1)
               b == SubSeq(m, at + 1, Len(m))
               n == Len(m)
    <3>1. \A i \in 1 .. n : m[i] \in Outputs
      BY <1>1, ElementOfSeq
    <3>2. a \in Seq(Outputs) /\ Len(a) = at - 1 /\ \A i \in 1 .. at - 1 : a[i] = m[i]
      BY <1>1, <2>1, Cut
    <3>n. n \in Nat /\ n = Len(m) /\ at \in 1 .. n /\ at > 1
      BY <1>2, <2>1
    <3> HIDE DEF n, a
    <3>3. b \in Seq(Outputs) /\ Len(b) = n - at /\ \A i \in 1 .. n - at : b[i] = m[at + i]
      <4>1. \A i \in at + 1 .. n : m[i] \in Outputs
        BY <3>1, <3>n
      <4>2. /\ b \in Seq(Outputs)
            /\ Len(b) = IF at + 1 <= n THEN n - (at + 1) + 1 ELSE 0
            /\ \A i \in 1 .. n - (at + 1) + 1 : b[i] = m[(at + 1) + i - 1]
        BY <3>n, <4>1, SubSeqProperties
      <4> HIDE DEF b
      <4>3. at \in Nat /\ Len(b) = n - at
        BY <3>n, <4>2
      <4>4. \A i \in 1 .. n - at : b[i] = m[at + i]
        <5> TAKE i \in 1 .. n - at
        <5>1. i \in 1 .. n - (at + 1) + 1 /\ (at + 1) + i - 1 = at + i
          BY <3>n
        <5> QED
          BY <4>2, <5>1
      <4> QED
        BY <4>2, <4>3, <4>4
    <3> HIDE DEF b
    <3> DEFINE h == <<m[at]>>
               p == Join(h, a)
    <3>4. h \in Seq(Outputs) /\ Len(h) = 1 /\ h[1] = m[at]
      BY <3>1, <3>n
    <3>5. c = Join(p, b)
      BY DEF a, b, n, Join
    <3> HIDE DEF h, c
    <3>6. p \in Seq(Outputs) /\ Len(p) = 1 + (at - 1) /\ Follows(h, 1, a, at - 1, p)
      <4>1. /\ p \in Seq(Outputs) /\ Len(p) = Len(h) + Len(a)
            /\ Follows(h, Len(h), a, Len(a), p)
        BY <3>2, <3>4, ElementsOfJoin
      <4> HIDE DEF p
      <4> QED
        BY <3>2, <3>4, <4>1
    <3> HIDE DEF p
    <3>7. Len(p) = at /\ p[1] = m[at] /\ \A i \in 2 .. at : p[i] = m[i - 1]
      <4>1. p[1] = m[at]
        BY <3>4, <3>6 DEF Follows
      <4>2. at \in Nat /\ \A i \in 2 .. at : i - 1 \in 1 .. at - 1 /\ 1 + (i - 1) = i
        <5>1. at \in Nat
          BY <3>n
        <5> QED
          BY <5>1
      <4>3. \A i \in 1 .. at - 1 : p[1 + i] = m[i]
        BY <3>2, <3>6 DEF Follows
      <4>4. \A i \in 2 .. at : p[i] = m[i - 1]
        BY <4>2, <4>3
      <4> QED
        BY <3>6, <3>n, <4>1, <4>4
    <3>8. c \in Seq(Outputs) /\ Len(c) = at + (n - at) /\ Follows(p, at, b, n - at, c)
      <4>1. /\ c \in Seq(Outputs) /\ Len(c) = Len(p) + Len(b)
            /\ Follows(p, Len(p), b, Len(b), c)
        BY <3>3, <3>5, <3>6, ElementsOfJoin
      <4> QED
        BY <3>3, <3>7, <4>1
    <3>9. \A i \in 1 .. at : c[i] = p[i]
      BY <3>8 DEF Follows
    <3>10. \A i \in at + 1 .. n : c[i] = m[i]
      <4> TAKE i \in at + 1 .. n
      <4>1. i - at \in 1 .. n - at /\ at + (i - at) = i
        BY <3>n
      <4>2. c[at + (i - at)] = b[i - at] /\ b[i - at] = m[at + (i - at)]
        BY <3>3, <3>8, <4>1 DEF Follows
      <4> QED
        BY <4>1, <4>2
    <3>11. c[1] = m[at] /\ \A i \in 2 .. at : c[i] = m[i - 1]
      BY <3>7, <3>9, <3>n
    <3> QED
      BY <3>8, <3>10, <3>11, <3>n
  <2> HIDE DEF c
  <2>4. \A i \in 1 .. at : c[i] \in Outputs /\ c[i].role \in {"user", "system"}
    <3> TAKE i \in 1 .. at
    <3>1. i \in 1 .. Len(m)
      BY <1>2, <2>1
    <3>2. c[i] \in Outputs
      BY <2>3, <3>1, ElementOfSeq
    <3>3. CASE i = 1
      BY <2>1, <2>3, <3>2, <3>3
    <3>4. CASE i # 1
      <4>1. i \in 2 .. at /\ i - 1 \in 1 .. at - 1
        BY <2>1, <3>4
      <4>2. c[i] = m[i - 1] /\ m[i - 1].role = "user"
        BY <2>2, <2>3, <4>1
      <4> QED
        BY <3>2, <4>2
    <3> QED
      BY <3>3, <3>4
  <2>5. \A i \in 1 .. at : c[i].calls = <<>> /\ c[i].role \notin {"result", "missing"}
    BY <2>4 DEF Outputs, Fields
  <2>6. \A i \in 1 .. at : m[i].calls = <<>>
    <3> TAKE i \in 1 .. at
    <3>1. i \in 1 .. Len(m)
      BY <1>2, <2>1
    <3>2. m[i] \in Outputs
      BY <1>1, <3>1, ElementOfSeq
    <3>3. m[i].role \in {"user", "system"}
      <4>1. i = at \/ i \in 1 .. at - 1
        BY <2>1
      <4> QED
        BY <2>1, <2>2, <4>1
    <3> QED
      BY <3>2, <3>3 DEF Outputs, Fields
  <2>7. Len(<<>>) = 0
    BY EmptySeq
  <2>8. \A i \in 1 .. Len(m) : i \in 1 .. at \/ i \in at + 1 .. Len(m)
    BY <2>1
  <2>9. \A i \in 1 .. at : CallsAnswered(c, i) /\ HasCall(c, i)
    BY <2>5, <2>7 DEF CallsAnswered, HasCall
  <2>10. ASSUME NEW i \in at + 1 .. Len(m) PROVE CallsAnswered(c, i) /\ HasCall(c, i)
    <3>0. i \in 1 .. Len(m) /\ c[i] = m[i] /\ CallsAnswered(m, i) /\ HasCall(m, i)
      BY <1>1, <1>2, <2>1, <2>3
    <3>1. CallsAnswered(c, i)
      <4> SUFFICES ASSUME NEW k \in 1 .. Len(m[i].calls)
                   PROVE  /\ i + k \in 1 .. Len(c) /\ c[i + k].role \in {"result", "missing"}
                          /\ c[i + k].call = m[i].calls[k]
        BY <3>0 DEF CallsAnswered
      <4>1. i + k \in 1 .. Len(m) /\ m[i + k].role \in {"result", "missing"} /\ m[i + k].call = m[i].calls[k]
        BY <3>0 DEF CallsAnswered
      <4>2. Len(m[i].calls) \in Nat
        <5>1. m[i] \in Outputs
          BY <1>1, <3>0, ElementOfSeq
        <5>2. m[i].calls \in Seq(Nat)
          BY <5>1 DEF Outputs, Fields
        <5> QED
          BY <5>2, LenProperties
      <4>3. i + k \in at + 1 .. Len(m)
        BY <1>2, <2>1, <4>1, <4>2
      <4> QED
        BY <2>3, <4>1, <4>3
    <3>2. ASSUME m[i].role \in {"result", "missing"}
          PROVE  \E j \in 1 .. i - 1 : i - j \in 1 .. Len(c[j].calls) /\ c[j].calls[i - j] = m[i].call
      <4>1. PICK j \in 1 .. i - 1 : i - j \in 1 .. Len(m[j].calls) /\ m[j].calls[i - j] = m[i].call
        BY <3>0, <3>2 DEF HasCall
      <4>2. j \notin 1 .. at
        BY <2>6, <2>7, <4>1
      <4>3. j \in at + 1 .. Len(m)
        BY <1>2, <2>1, <3>0, <4>2
      <4>4. c[j] = m[j]
        BY <2>3, <4>3
      <4> QED
        BY <4>1, <4>4
    <3>3. c[i] = m[i]
      BY <3>0
    <3>4. HasCall(c, i)
      BY <3>2, <3>3 DEF HasCall
    <3> QED
      BY <3>1, <3>4
  <2>11. \A i \in 1 .. Len(c) : CallsAnswered(c, i) /\ HasCall(c, i)
    BY <2>3, <2>8, <2>9, <2>10
  <2>12. c \in WellFormed
    BY <2>3, <2>11, WellFormedIs
  <2> QED
    BY <1>4, <1>7, <2>12
<1> QED
  BY <1>6, <1>7

-----------------------------------------------------------------------------
(* The transcript: contributions, edits and bounds.                          *)

(* A transcript: a head marker starts the context at itself or before.       *)
Entry == [kind : Kinds, target : Nat, head : Nat]
Transcript == entries \in Seq(Entry) /\ \A i \in DOMAIN entries : entries[i].head <= i

(* Its entries.                                                              *)
LEMMA EntryIs ==
    ASSUME Transcript
    PROVE  /\ Len(entries) \in Nat /\ DOMAIN entries = 1 .. Len(entries)
           /\ \A i \in DOMAIN entries : entries[i].target \in Nat /\ entries[i].head \in Nat
                                        /\ entries[i].head <= i /\ i \in Nat
<1>1. entries \in Seq(Entry) /\ \A i \in DOMAIN entries : entries[i].head <= i
  BY DEF Transcript
<1>2. Len(entries) \in Nat /\ DOMAIN entries = 1 .. Len(entries)
  BY <1>1, LenProperties
<1>3. \A i \in DOMAIN entries : entries[i] \in Entry
  BY <1>1, <1>2, ElementOfSeq
<1> QED
  BY <1>1, <1>2, <1>3 DEF Entry

(* What an entry may say.                                                    *)
LEMMA OneMessage ==
    ASSUME NEW id \in Nat, NEW role \in {"user", "system", "assistant", "result"},
           NEW calls \in Seq(Nat), NEW call \in Nat, role # "assistant" => calls = <<>>
    PROVE  <<Message(id, role, calls, call)>> \in Seq(Messages)
<1>1. Message(id, role, calls, call) \in Messages
  BY DEF Message, Messages, Fields
<1> QED
  BY <1>1

(* What an entry says is a sequence of messages.                             *)
LEMMA MessageOfType ==
    ASSUME Transcript, NEW id \in DOMAIN entries
    PROVE  MessageOf(id) \in Seq(Messages)
<1>1. id \in Nat
  BY EntryIs
<1>2. <<>> \in Seq(Nat) /\ <<1, 2>> \in Seq(Nat) /\ <<>> \in Seq(Messages)
  BY EmptySeq
<1>3. /\ <<Message(id, "user", <<>>, 0)>> \in Seq(Messages)
      /\ <<Message(id, "system", <<>>, 0)>> \in Seq(Messages)
      /\ <<Message(id, "assistant", <<>>, 0)>> \in Seq(Messages)
      /\ <<Message(id, "assistant", <<1, 2>>, 0)>> \in Seq(Messages)
      /\ <<Message(id, "result", <<>>, 1)>> \in Seq(Messages)
      /\ <<Message(id, "result", <<>>, 2)>> \in Seq(Messages)
  BY <1>1, <1>2, OneMessage
<1> QED
  BY <1>2, <1>3 DEF MessageOf

(* The edit of an entry is one of the entries scanned, or none.              *)
Edits(id, ids) == {x \in Range(ids) : IsEdit(x) /\ entries[x].target = id}

(* It is the newest of them, and an entry.                                   *)
LEMMA EditOfIs ==
    ASSUME Transcript, NEW ids \in Seq(DOMAIN entries), NEW id
    PROVE  /\ EditOf(id, ids) = Newest(Edits(id, ids))
           /\ EditOf(id, ids) = 0 \/ EditOf(id, ids) \in DOMAIN entries
           /\ Edits(id, ids) = {} => EditOf(id, ids) = 0
<1> DEFINE S == Edits(id, ids)
<1>1. Range(ids) \in SUBSET DOMAIN entries
  BY RangeOfSeq
<1>2. Len(entries) \in Nat /\ DOMAIN entries = 1 .. Len(entries)
  BY EntryIs
<1>3. S \in SUBSET Nat /\ S \in SUBSET DOMAIN entries /\ \A x \in S : x <= Len(entries)
  BY <1>1, <1>2 DEF Edits
<1>4. EditOf(id, ids) = Newest(S)
  BY DEF EditOf, Edits
<1> HIDE DEF S
<1>5. (S = {} => Newest(S) = 0) /\ (S # {} => Newest(S) \in S)
  BY <1>2, <1>3, NewestIs
<1>6. /\ EditOf(id, ids) = Newest(S)
      /\ EditOf(id, ids) = 0 \/ EditOf(id, ids) \in DOMAIN entries
      /\ S = {} => EditOf(id, ids) = 0
  BY <1>3, <1>4, <1>5
<1> QED
  BY <1>6 DEF S

(* What an entry contributes.                                                *)
LEMMA ContributeType ==
    ASSUME Transcript, NEW id \in DOMAIN entries, NEW x, x = 0 \/ x \in DOMAIN entries
    PROVE  Contribute(id, x) \in Seq(Messages)
<1>1. MessageOf(id) \in Seq(Messages) /\ <<>> \in Seq(Messages) /\ <<>> \in Seq(Nat)
  BY MessageOfType, EmptySeq
<1>2. x \in Nat
  BY EntryIs
<1>3. <<Message(x, "user", <<>>, 0)>> \in Seq(Messages)
  BY <1>1, <1>2, OneMessage
<1> QED
  BY <1>1, <1>3 DEF Contribute

(* What each active entry contributes.                                       *)
Gives(active, ids) == [k \in DOMAIN active |-> Contribute(active[k], EditOf(active[k], ids))]

(* They are sequences of messages, and flatten to the contributions.         *)
LEMMA GivesType ==
    ASSUME Transcript, NEW active \in Seq(DOMAIN entries), NEW ids \in Seq(DOMAIN entries)
    PROVE  /\ Gives(active, ids) \in Seq(Seq(Messages)) /\ Len(Gives(active, ids)) = Len(active)
           /\ \A k \in 1 .. Len(active) : Gives(active, ids)[k] = Contribute(active[k], EditOf(active[k], ids))
           /\ Contributions(active, ids) = FlattenSeq(Gives(active, ids))
           /\ Contributions(active, ids) \in Seq(Messages)
<1>1. Len(active) \in Nat /\ DOMAIN active = 1 .. Len(active)
  BY LenProperties
<1>2. \A k \in 1 .. Len(active) : Contribute(active[k], EditOf(active[k], ids)) \in Seq(Messages)
  <2> TAKE k \in 1 .. Len(active)
  <2>1. active[k] \in DOMAIN entries
    BY ElementOfSeq
  <2>2. EditOf(active[k], ids) = 0 \/ EditOf(active[k], ids) \in DOMAIN entries
    BY EditOfIs
  <2> QED
    BY <2>1, <2>2, ContributeType
<1>3. Gives(active, ids) = [k \in 1 .. Len(active) |-> Contribute(active[k], EditOf(active[k], ids))]
  BY <1>1 DEF Gives
<1>4. Gives(active, ids) \in Seq(Seq(Messages)) /\ Len(Gives(active, ids)) = Len(active)
  BY <1>1, <1>2, <1>3
<1>5. Contributions(active, ids) = FlattenSeq(Gives(active, ids))
  BY DEF Contributions, Gives
<1>6. FlattenSeq(Gives(active, ids)) \in Seq(Messages)
  BY <1>4, FlattenConcat
<1> QED
  BY <1>3, <1>4, <1>5, <1>6

(* What entries contribute that nothing edits.                               *)
Plain(added) == FlattenSeq([k \in DOMAIN added |-> MessageOf(added[k])])

(* They are sequences of messages.                                           *)
LEMMA PlainType ==
    ASSUME Transcript, NEW added \in Seq(DOMAIN entries)
    PROVE  LET p == [k \in DOMAIN added |-> MessageOf(added[k])]
           IN p \in Seq(Seq(Messages)) /\ Len(p) = Len(added) /\ Plain(added) \in Seq(Messages)
<1> DEFINE p == [k \in DOMAIN added |-> MessageOf(added[k])]
<1>1. Len(added) \in Nat /\ DOMAIN added = 1 .. Len(added)
  BY LenProperties
<1>2. \A k \in 1 .. Len(added) : MessageOf(added[k]) \in Seq(Messages)
  BY ElementOfSeq, MessageOfType
<1>3. p \in Seq(Seq(Messages)) /\ Len(p) = Len(added)
  BY <1>1, <1>2
<1>4. Plain(added) = FlattenSeq(p)
  BY DEF Plain
<1> HIDE DEF p
<1>5. FlattenSeq(p) \in Seq(Messages)
  BY <1>3, FlattenConcat
<1> QED
  BY <1>3, <1>4, <1>5 DEF p

(* Entries that are no edits and that nothing edits add what they say, and   *)
(* nothing else changes.                                                     *)
LEMMA ContributionsMore ==
    ASSUME Transcript, NEW active \in Seq(DOMAIN entries), NEW ids \in Seq(DOMAIN entries),
           NEW added \in Seq(DOMAIN entries),
           \A i \in Range(added) : ~ IsEdit(i) /\ Edits(i, ids) = {}
    PROVE  Contributions(Join(active, added), Join(ids, added)) = Join(Contributions(active, ids), Plain(added))
<1> DEFINE c == Join(active, added)
           s == Join(ids, added)
           n == Len(active)
           m == Len(added)
           p == [k \in DOMAIN added |-> MessageOf(added[k])]
<1>1. n \in Nat /\ m \in Nat /\ c \in Seq(DOMAIN entries) /\ Len(c) = n + m /\ Follows(active, n, added, m, c)
  BY ElementsOfJoin
<1>2. s \in Seq(DOMAIN entries) /\ Range(s) = Range(ids) \cup Range(added)
  BY ConcatProperties, RangeConcatenation DEF Join
<1>3. \A id : Edits(id, s) = Edits(id, ids)
  BY <1>2 DEF Edits
<1>4. \A id : EditOf(id, s) = EditOf(id, ids)
  <2> TAKE id
  <2>1. EditOf(id, s) = Newest(Edits(id, s))
    BY <1>2, EditOfIs
  <2>2. EditOf(id, ids) = Newest(Edits(id, ids))
    BY EditOfIs
  <2> QED
    BY <1>3, <2>1, <2>2
<1>n. n = Len(active) /\ m = Len(added) /\ DOMAIN added = 1 .. m
  BY LenProperties
<1>p. \A k \in 1 .. m : p[k] = MessageOf(added[k])
  BY <1>n
<1>q. p \in Seq(Seq(Messages)) /\ Len(p) = m /\ Plain(added) = FlattenSeq(p)
  BY PlainType DEF Plain
<1> HIDE DEF c, s, n, m, p
<1>5. /\ Gives(c, s) \in Seq(Seq(Messages)) /\ Len(Gives(c, s)) = n + m
      /\ \A k \in 1 .. n + m : Gives(c, s)[k] = Contribute(c[k], EditOf(c[k], s))
      /\ Contributions(c, s) = FlattenSeq(Gives(c, s))
  BY <1>1, <1>2, GivesType
<1>6. /\ Gives(active, ids) \in Seq(Seq(Messages)) /\ Len(Gives(active, ids)) = n
      /\ \A k \in 1 .. n : Gives(active, ids)[k] = Contribute(active[k], EditOf(active[k], ids))
      /\ Contributions(active, ids) = FlattenSeq(Gives(active, ids))
  BY <1>n, GivesType
<1>7. \A k \in 1 .. n : Gives(c, s)[k] = Gives(active, ids)[k]
  <2> TAKE k \in 1 .. n
  <2>1. k \in 1 .. n + m /\ c[k] = active[k]
    BY <1>1 DEF Follows
  <2>2. Gives(c, s)[k] = Contribute(active[k], EditOf(active[k], s))
    BY <1>5, <2>1
  <2> QED
    BY <1>4, <1>6, <2>2
<1>8. \A k \in 1 .. m : Gives(c, s)[n + k] = p[k]
  <2> TAKE k \in 1 .. m
  <2>1. n + k \in 1 .. n + m /\ c[n + k] = added[k]
    BY <1>1 DEF Follows
  <2>2. added[k] \in Range(added)
    BY <1>n DEF Range
  <2>3. EditOf(added[k], ids) = 0
    BY <2>2, EditOfIs
  <2>4. Gives(c, s)[n + k] = Contribute(added[k], EditOf(added[k], s))
    BY <1>5, <2>1
  <2>5. Gives(c, s)[n + k] = Contribute(added[k], 0)
    BY <1>4, <2>3, <2>4
  <2> QED
    BY <1>p, <2>5 DEF Contribute
<1>9. Parts(Messages, Gives(active, ids), p, Gives(c, s))
  BY <1>5, <1>6, <1>q, <1>7, <1>8 DEF Parts, Follows
<1>10. FlattenSeq(Gives(c, s)) = Join(FlattenSeq(Gives(active, ids)), FlattenSeq(p))
  BY <1>9, FlattenParts
<1> QED
  BY <1>5, <1>6, <1>q, <1>10 DEF c, s

(* The head of a context is the newest marker; nothing after it has a head.  *)
LEMMA BoundsIs ==
    ASSUME Transcript, NEW tail \in DOMAIN entries
    PROVE  LET b == Bounds(tail) IN
           /\ b.tail = tail /\ b.head \in Nat /\ b.head <= tail
           /\ b.head # 0 => entries[b.head].head > 0
           /\ \A i \in b.head + 1 .. tail : entries[i].head = 0
           /\ From(b) \in Nat /\ From(b) >= 1 /\ From(b) <= tail
           /\ b.head # 0 => From(b) <= b.head
           /\ b.head = 0 => From(b) = 1
<1> DEFINE H == {i \in 1 .. tail : entries[i].head > 0}
           b == Bounds(tail)
<1>1. /\ tail \in Nat /\ tail >= 1 /\ Len(entries) \in Nat
      /\ \A i \in 1 .. tail : i \in DOMAIN entries /\ entries[i].head \in Nat /\ entries[i].head <= i
  BY EntryIs
<1>2. b.tail = tail /\ b.head = Newest(H)
  BY DEF Bounds
<1>3. H \in SUBSET Nat /\ (\A i \in H : i <= tail /\ i \in 1 .. tail /\ entries[i].head > 0)
      /\ \A i \in 1 .. tail : i \notin H => entries[i].head = 0
  BY <1>1
<1>4. From(b) = IF b.head = 0 THEN 1 ELSE entries[b.head].head
  BY DEF From
<1> HIDE DEF H, b
<1>5. (H = {} => b.head = 0) /\ (H # {} => b.head \in H /\ \A j \in H : j <= b.head)
  BY <1>1, <1>2, <1>3, NewestIs
<1>6. /\ b.head \in Nat /\ b.head <= tail
      /\ b.head # 0 => b.head \in 1 .. tail /\ entries[b.head].head > 0
  <2>1. CASE H = {}
    <3>1. b.head = 0
      BY <1>5, <2>1
    <3> QED
      BY <1>1, <3>1
  <2>2. CASE H # {}
    <3>1. b.head \in H
      BY <1>5, <2>2
    <3>2. b.head \in 1 .. tail /\ entries[b.head].head > 0
      BY <1>3, <3>1
    <3> QED
      BY <1>1, <3>2
  <2> QED
    BY <2>1, <2>2
<1>7. \A i \in b.head + 1 .. tail : entries[i].head = 0
  <2> TAKE i \in b.head + 1 .. tail
  <2>1. i \in 1 .. tail /\ ~ (i <= b.head)
    BY <1>1, <1>6
  <2>2. i \notin H
    BY <1>5, <2>1
  <2> QED
    BY <1>3, <2>1, <2>2
<1>8. CASE b.head = 0
  <2>1. From(b) = 1 /\ 1 \in Nat /\ 1 <= tail
    BY <1>1, <1>4, <1>8
  <2> QED
    BY <1>2, <1>6, <1>7, <1>8, <2>1 DEF b
<1>9. CASE b.head # 0
  <2>1. entries[b.head].head \in Nat /\ entries[b.head].head <= b.head /\ entries[b.head].head > 0
    BY <1>1, <1>6, <1>9
  <2>2. From(b) = entries[b.head].head
    BY <1>4, <1>9
  <2>3. From(b) \in Nat /\ From(b) >= 1 /\ From(b) <= tail /\ From(b) <= b.head
    BY <1>1, <1>6, <2>1, <2>2
  <2> QED
    BY <1>2, <1>6, <1>7, <1>9, <2>3 DEF b
<1> QED
  BY <1>8, <1>9

-----------------------------------------------------------------------------
(* Ranges that fit.                                                          *)

(* What the active entries are.                                              *)
Heads == {i \in DOMAIN entries : entries[i].head = 0}

(* The head first, then the entries without one.                             *)
LEMMA SelectActiveIs ==
    ASSUME NEW head, head = 0 \/ head \in DOMAIN entries, NEW ids \in Seq(DOMAIN entries)
    PROVE  /\ SelectActive(head, ids) = IF head = 0 THEN ids ELSE Join(<<head>>, Keep(ids, Heads))
           /\ SelectActive(head, ids) \in Seq(DOMAIN entries)
<1>1. SelectActive(head, ids) = IF head = 0 THEN ids ELSE Join(<<head>>, Keep(ids, Heads))
  BY DEF SelectActive, Heads, Join
<1>2. Keep(ids, Heads) \in Seq(DOMAIN entries)
  BY KeepType
<1>3. head # 0 => <<head>> \in Seq(DOMAIN entries)
  OBVIOUS
<1>4. head # 0 => Join(<<head>>, Keep(ids, Heads)) \in Seq(DOMAIN entries)
  BY <1>2, <1>3, JoinIs
<1> QED
  BY <1>1, <1>4

(* Entries without a head are active after the others.                       *)
LEMMA SelectActiveMore ==
    ASSUME NEW head, head = 0 \/ head \in DOMAIN entries, NEW ids \in Seq(DOMAIN entries),
           NEW added \in Seq(DOMAIN entries), \A i \in Range(added) : entries[i].head = 0
    PROVE  SelectActive(head, Join(ids, added)) = Join(SelectActive(head, ids), added)
<1>1. Join(ids, added) \in Seq(DOMAIN entries)
  BY JoinIs
<1>2. CASE head = 0
  BY <1>1, <1>2, SelectActiveIs
<1>3. CASE head # 0
  <2>1. \A k \in 1 .. Len(added) : added[k] \in Heads
    <3> TAKE k \in 1 .. Len(added)
    <3>1. DOMAIN added = 1 .. Len(added)
      BY LenProperties
    <3>2. added[k] \in Range(added) /\ added[k] \in DOMAIN entries
      BY <3>1, ElementOfSeq DEF Range
    <3> QED
      BY <3>2 DEF Heads
  <2>2. Keep(added, Heads) = added
    BY <2>1, KeepAllOrNone
  <2>3. Keep(Join(ids, added), Heads) = Join(Keep(ids, Heads), added)
    BY <2>2, KeepConcat
  <2>k. Keep(ids, Heads) \in Seq(DOMAIN entries)
    <3> DEFINE D == DOMAIN entries
    <3>1. ids \in Seq(D)
      OBVIOUS
    <3> HIDE DEF D
    <3>2. Keep(ids, Heads) \in Seq(D)
      BY <3>1, KeepType
    <3> QED
      BY <3>2 DEF D
  <2>h. <<head>> \in Seq(DOMAIN entries)
    <3> DEFINE D == DOMAIN entries
    <3>1. head \in D
      BY <1>3
    <3> HIDE DEF D
    <3>2. <<head>> \in Seq(D)
      BY <3>1
    <3> QED
      BY <3>2 DEF D
  <2>4. <<head>> \in Seq(DOMAIN entries) /\ Keep(ids, Heads) \in Seq(DOMAIN entries)
    BY <2>k, <2>h
  <2>5. Join(<<head>>, Join(Keep(ids, Heads), added)) = Join(Join(<<head>>, Keep(ids, Heads)), added)
    <3> DEFINE D == DOMAIN entries
               one == <<head>>
               k == Keep(ids, Heads)
    <3>1. one \in Seq(D) /\ k \in Seq(D) /\ added \in Seq(D)
      BY <2>4
    <3> HIDE DEF D, one, k
    <3>2. Join(one, Join(k, added)) = Join(Join(one, k), added)
      BY <3>1, JoinAssociative
    <3> QED
      BY <3>2 DEF one, k
  <2>6. SelectActive(head, Join(ids, added)) = Join(<<head>>, Keep(Join(ids, added), Heads))
    BY <1>1, <1>3, SelectActiveIs
  <2>7. SelectActive(head, ids) = Join(<<head>>, Keep(ids, Heads))
    BY <1>3, SelectActiveIs
  <2> QED
    BY <2>3, <2>5, <2>6, <2>7
<1> QED
  BY <1>2, <1>3

(* The targets of the edits among the entries scanned.                       *)
Edited(ids) == {entries[x].target : x \in {x \in Range(ids) : IsEdit(x)}}

(* The bounds that a read may take.                                          *)
IsBounds(b) == b.tail \in DOMAIN entries /\ b = Bounds(b.tail)

(* A range is what deriving the context within its bounds gives, but for where*)
(* its messages are split.                                                   *)
RangeFits(r) ==
    /\ IsBounds(r.bounds)
    /\ r.ids = Scan(From(r.bounds), r.bounds.tail)
    /\ r.active = SelectActive(r.bounds.head, r.ids)
    /\ r.edited = Edited(r.ids)
    /\ Splits(Contributions(r.active, r.ids), r.settled, r.open)
    /\ r.messages = LeadWithSystem(Join(r.settled, OrderToolResults(r.open)))

(* The bounds of a read, and the entries within them.                        *)
LEMMA Within ==
    ASSUME Transcript, NEW b, IsBounds(b)
    PROVE  /\ b.tail \in Nat /\ b.tail >= 1 /\ (b.head = 0 \/ b.head \in DOMAIN entries)
           /\ b.head \in Nat /\ b.head <= b.tail
           /\ From(b) \in Nat /\ From(b) >= 1 /\ From(b) <= b.tail
           /\ \A i \in b.head + 1 .. b.tail : entries[i].head = 0
           /\ Scan(From(b), b.tail) \in Seq(DOMAIN entries)
<1> DEFINE t == b.tail
           f == From(b)
           h == b.head
           s == Scan(f, t)
<1>0. t \in DOMAIN entries /\ b = Bounds(t)
  BY DEF IsBounds
<1>t. t = b.tail /\ f = From(b) /\ h = b.head
  OBVIOUS
<1> HIDE DEF f, t, h
<1>1. /\ t \in Nat /\ t >= 1 /\ Len(entries) \in Nat /\ DOMAIN entries = 1 .. Len(entries)
      /\ t <= Len(entries)
  BY <1>0, EntryIs
<1>2. /\ h \in Nat /\ h <= t /\ f \in Nat /\ f >= 1 /\ f <= t
      /\ \A i \in h + 1 .. t : entries[i].head = 0
  BY <1>0, <1>t, BoundsIs
<1>3. s \in Seq(f .. t)
  <2>1. f \in Nat /\ t \in Nat /\ f <= t + 1
    BY <1>1, <1>2
  <2> QED
    BY <2>1, ScanType
<1>4. f .. t \subseteq DOMAIN entries
  BY <1>1, <1>2
<1>5. s \in Seq(DOMAIN entries)
  <2> HIDE DEF s
  <2> QED
    BY <1>3, <1>4, SeqMonotonic
<1>6. h = 0 \/ h \in DOMAIN entries
  BY <1>1, <1>2
<1> QED
  BY <1>1, <1>2, <1>5, <1>6, <1>t

(* A range that fits is what a read from scratch returns, and well formed.   *)
LEMMA FitsReference ==
    ASSUME Transcript, NEW r, RangeFits(r)
    PROVE  IsReference(r) /\ r.messages \in WellFormed
<1> DEFINE C == Contributions(r.active, r.ids)
<1>1. /\ r.ids = Scan(From(r.bounds), r.bounds.tail)
      /\ r.active = SelectActive(r.bounds.head, r.ids)
      /\ Splits(C, r.settled, r.open)
      /\ r.messages = LeadWithSystem(Join(r.settled, OrderToolResults(r.open)))
  BY DEF RangeFits
<1> HIDE DEF C
<1>2. C \in Seq(Messages) /\ Join(r.settled, OrderToolResults(r.open)) = OrderToolResults(C)
  BY <1>1, SplitsOrder
<1>3. r.messages = LeadWithSystem(OrderToolResults(C))
  BY <1>1, <1>2
<1>4. r.messages \in WellFormed
  BY <1>2, <1>3, OrderWellFormed, LeadWellFormed
<1>5. /\ Reference(r.bounds).active = r.active
      /\ Reference(r.bounds).messages = LeadWithSystem(OrderToolResults(C))
  BY <1>1 DEF Reference, C
<1> QED
  BY <1>3, <1>4, <1>5 DEF IsReference

(* Deriving a range from the entries within its bounds.                      *)
LEMMA DeriveFits ==
    ASSUME Transcript, NEW b, IsBounds(b),
           NEW ids, ids = Scan(From(b), b.tail)
    PROVE  DeriveRange(b, ids).bounds = b /\ RangeFits(DeriveRange(b, ids))
<1> DEFINE active == SelectActive(b.head, ids)
           C == Contributions(active, ids)
           split == Settle(<<>>, C)
           r == DeriveRange(b, ids)
<1>1. (b.head = 0 \/ b.head \in DOMAIN entries) /\ ids \in Seq(DOMAIN entries)
  BY Within
<1>2. active \in Seq(DOMAIN entries)
  BY <1>1, SelectActiveIs
<1>3. r = [bounds |-> b, ids |-> ids, active |-> active, edited |-> Edited(ids),
           settled |-> split.settled, open |-> split.open,
           messages |-> LeadWithSystem(Join(split.settled, OrderToolResults(split.open)))]
  BY DEF DeriveRange, Edited, Join
<1>a. active = SelectActive(b.head, ids)
  OBVIOUS
<1> HIDE DEF active
<1>4. C \in Seq(Messages)
  BY <1>1, <1>2, GivesType
<1>c. C = Contributions(active, ids)
  OBVIOUS
<1> HIDE DEF C
<1>5. Splits(C, <<>>, C)
  BY <1>4, SplitsAtFirst
<1>6. Splits(C, split.settled, split.open)
  BY <1>5, SplitsSettle
<1>s. split = Settle(<<>>, C)
  OBVIOUS
<1> HIDE DEF split, r
<1>7. /\ IsBounds(r.bounds) /\ r.bounds = b /\ r.ids = ids /\ r.active = active /\ r.edited = Edited(ids)
      /\ r.settled = split.settled /\ r.open = split.open
      /\ r.messages = LeadWithSystem(Join(split.settled, OrderToolResults(split.open)))
  BY <1>3
<1>8. RangeFits(r)
  BY <1>6, <1>7, <1>a, <1>c DEF RangeFits
<1> QED
  BY <1>7, <1>8 DEF r

(* Entries up to an older one are those of a range with the same start that  *)
(* are no newer.                                                             *)
LEMMA Trim ==
    ASSUME NEW from \in Nat, NEW mid \in Nat, NEW to \in Nat, from >= 1, from <= mid + 1, mid <= to
    PROVE  Keep(Scan(from, to), 1 .. mid) = Scan(from, mid)
<1> DEFINE a == Scan(from, mid)
           b == Scan(mid + 1, to)
<1>0. mid + 1 \in Nat /\ mid + 1 <= to + 1
  OBVIOUS
<1>1. a \in Seq(from .. mid) /\ b \in Seq(mid + 1 .. to)
  BY <1>0, ScanType
<1>2. Scan(from, to) = Join(a, b)
  BY ScanSplit
<1> HIDE DEF a, b
<1>3. a \in Seq(Int) /\ b \in Seq(Int)
  <2>1. from .. mid \subseteq Int /\ mid + 1 .. to \subseteq Int
    OBVIOUS
  <2> QED
    BY <1>1, <2>1, SeqMonotonic
<1>4. \A k \in 1 .. Len(a) : a[k] \in 1 .. mid
  <2> TAKE k \in 1 .. Len(a)
  <2>1. a[k] \in from .. mid
    BY <1>1, ElementOfSeq
  <2> QED
    BY <2>1
<1>5. \A k \in 1 .. Len(b) : b[k] \notin 1 .. mid
  <2> TAKE k \in 1 .. Len(b)
  <2>1. b[k] \in mid + 1 .. to
    BY <1>1, ElementOfSeq
  <2> QED
    BY <2>1
<1>6. Keep(a, 1 .. mid) = a /\ Keep(b, 1 .. mid) = <<>>
  BY <1>3, <1>4, <1>5, KeepAllOrNone
<1>7. Keep(Join(a, b), 1 .. mid) = Join(a, <<>>)
  BY <1>3, <1>6, KeepConcat
<1>8. Join(a, <<>>) = a
  BY <1>3, JoinIs
<1> QED
  BY <1>2, <1>7, <1>8 DEF a

(* Extending a range that has the same head by the entries that came after it.*)
LEMMA ExtendFits ==
    ASSUME Transcript, NEW previous, RangeFits(previous), NEW b, IsBounds(b),
           previous.bounds.head = b.head, previous.bounds.tail < b.tail,
           NEW r, r = ExtendRange(previous, b, Scan(previous.bounds.tail + 1, b.tail))
    PROVE  r.bounds = b /\ RangeFits(r)
<1> DEFINE pb == previous.bounds
           mid == pb.tail
           t == b.tail
           f == From(b)
           ids == previous.ids
           added == Scan(mid + 1, t)
           active == previous.active
           C == Contributions(active, ids)
           D == DOMAIN entries
<1>1. /\ IsBounds(pb) /\ ids = Scan(From(pb), mid) /\ active = SelectActive(pb.head, ids)
      /\ previous.edited = Edited(ids) /\ Splits(C, previous.settled, previous.open)
  BY DEF RangeFits
<1>2. From(pb) = f /\ pb.head = b.head
  BY DEF From
<1>3. r = ExtendRange(previous, b, added) /\ mid < t /\ t = b.tail /\ f = From(b) /\ D = DOMAIN entries
  OBVIOUS
<1>c. C = Contributions(active, ids)
  OBVIOUS
<1> HIDE DEF pb, mid, t, f, ids, active, C, D
<1>4. /\ t \in Nat /\ b.head \in Nat /\ (b.head = 0 \/ b.head \in D) /\ f \in Nat /\ f >= 1
      /\ \A i \in b.head + 1 .. t : entries[i].head = 0
      /\ Scan(f, t) \in Seq(D)
  BY <1>3, Within
<1>5. mid \in Nat /\ b.head <= mid /\ f <= mid /\ Scan(f, mid) \in Seq(D)
  <2>1. pb.tail \in Nat /\ pb.head <= pb.tail /\ From(pb) <= pb.tail /\ Scan(From(pb), pb.tail) \in Seq(D)
    BY <1>1, <1>3, Within
  <2> QED
    BY <1>2, <2>1 DEF mid
<1>6. ids \in Seq(D) /\ Join(ids, added) = Scan(f, t)
  <2>1. f <= mid + 1 /\ mid <= t
    BY <1>3, <1>4, <1>5
  <2>2. Scan(f, t) = Join(Scan(f, mid), Scan(mid + 1, t))
    BY <1>4, <1>5, <2>1, ScanSplit
  <2> QED
    BY <1>1, <1>2, <1>5, <2>2
<1>7. added \in Seq(mid + 1 .. t)
  <2>1. mid + 1 \in Nat /\ mid + 1 <= t + 1
    BY <1>3, <1>4, <1>5
  <2> QED
    BY <1>4, <2>1, ScanType
<1>8. mid + 1 .. t \subseteq D /\ \A i \in mid + 1 .. t : entries[i].head = 0
  <2>1. /\ t \in DOMAIN entries /\ Len(entries) \in Nat /\ DOMAIN entries = 1 .. Len(entries)
    BY <1>3, EntryIs DEF IsBounds
  <2>2. mid + 1 .. t \subseteq D
    BY <1>3, <1>4, <1>5, <2>1
  <2>3. mid + 1 .. t \subseteq b.head + 1 .. t
    BY <1>4, <1>5
  <2> QED
    BY <1>4, <2>2, <2>3
<1> HIDE DEF added
<1>9. added \in Seq(D)
  BY <1>7, <1>8, SeqMonotonic
<1>10. Range(added) \subseteq mid + 1 .. t
  BY <1>7, RangeOfSeq
<1>11. \A i \in Range(added) : entries[i].head = 0
  BY <1>8, <1>10
<1>12. CASE MustDerive(previous, added)
  <2> DEFINE all == Join(ids, added)
  <2>1. ExtendRange(previous, b, added) = DeriveRange(b, all)
    BY <1>12 DEF ExtendRange, Join, ids
  <2>2. all = Scan(From(b), b.tail)
    BY <1>3, <1>6
  <2> HIDE DEF all
  <2>3. DeriveRange(b, all).bounds = b /\ RangeFits(DeriveRange(b, all))
    BY <2>2, DeriveFits
  <2> QED
    BY <1>3, <2>1, <2>3
<1>13. CASE ~ MustDerive(previous, added)
  <2> DEFINE all == Join(ids, added)
             now == Join(active, added)
             open == Join(previous.open, Plain(added))
             split == Settle(previous.settled, open)
  <2>1. /\ r.bounds = b /\ r.ids = all /\ r.active = now /\ r.edited = previous.edited
        /\ r.settled = split.settled /\ r.open = split.open
        /\ r.messages = LeadWithSystem(Join(split.settled, OrderToolResults(split.open)))
    <3>1. ExtendRange(previous, b, added) =
            [bounds |-> b, ids |-> all, active |-> now, edited |-> previous.edited,
             settled |-> split.settled, open |-> split.open,
             messages |-> LeadWithSystem(Join(split.settled, OrderToolResults(split.open)))]
      BY <1>13 DEF ExtendRange, Join, ids, active, Plain
    <3> HIDE DEF all, now, split
    <3> QED
      BY <1>3, <3>1
  <2>2. \A i \in Range(added) : ~ IsEdit(i) /\ i \notin Edited(ids)
    BY <1>1, <1>13 DEF MustDerive
  <2>3. \A i \in Range(added) : ~ IsEdit(i) /\ Edits(i, ids) = {}
    BY <2>2 DEF Edits, Edited
  <2>4. now = SelectActive(b.head, all) /\ active \in Seq(D)
    <3>0. /\ b.head = 0 \/ b.head \in DOMAIN entries
          /\ ids \in Seq(DOMAIN entries) /\ added \in Seq(DOMAIN entries)
      BY <1>4, <1>6, <1>9 DEF D
    <3>1. SelectActive(b.head, Join(ids, added)) = Join(SelectActive(b.head, ids), added)
      BY <1>11, <3>0, SelectActiveMore
    <3>2. SelectActive(b.head, ids) \in Seq(DOMAIN entries)
      BY <3>0, SelectActiveIs
    <3> QED
      BY <1>1, <1>2, <1>3, <3>1, <3>2
  <2>5. Edited(all) = Edited(ids)
    <3>1. Range(ids \o added) = Range(ids) \cup Range(added)
      BY <1>6, <1>9, RangeConcatenation
    <3>2. Range(all) = Range(ids) \cup Range(added)
      BY <3>1 DEF Join
    <3> QED
      BY <2>2, <3>2 DEF Edited
  <2>6. Contributions(now, all) = Join(C, Plain(added))
    BY <1>c, <1>3, <1>6, <1>9, <2>3, <2>4, ContributionsMore
  <2>7. Plain(added) \in Seq(Messages)
    BY <1>3, <1>9, PlainType
  <2>o. open = Join(previous.open, Plain(added)) /\ split = Settle(previous.settled, open)
    OBVIOUS
  <2> HIDE DEF all, now, open, split
  <2>8. Splits(Contributions(now, all), previous.settled, open)
    BY <1>1, <2>6, <2>7, <2>o, SplitsMore
  <2>9. Splits(Contributions(now, all), split.settled, split.open)
    BY <2>8, <2>o, SplitsSettle
  <2>10. all = Scan(From(b), b.tail)
    BY <1>3, <1>6 DEF all
  <2>11. RangeFits(r)
    BY <1>1, <2>1, <2>4, <2>5, <2>9, <2>10 DEF RangeFits
  <2> QED
    BY <2>1, <2>11
<1> QED
  BY <1>12, <1>13

(* A read has the range of its own bounds, from whatever range was kept.     *)
Fits(r) == r # NoRange => RangeFits(r)

(* Each of the cases of a read gives a range that fits.                      *)
LEMMA RangeFromFits ==
    ASSUME Transcript, NEW previous, Fits(previous), NEW b, IsBounds(b),
           NEW r, r = RangeFrom(previous, b)
    PROVE  r.bounds = b /\ RangeFits(r)
<1> DEFINE scanned == Scan(From(b), b.tail)
           pb == previous.bounds
<1>1. ASSUME r = DeriveRange(b, scanned) PROVE r.bounds = b /\ RangeFits(r)
  BY <1>1, DeriveFits
<1>2. CASE previous = NoRange
  BY <1>1, <1>2 DEF RangeFrom
<1>3. CASE previous # NoRange
  <2>0. RangeFits(previous) /\ IsBounds(pb)
    BY <1>3 DEF RangeFits, Fits
  <2>1. CASE pb.head # b.head
    BY <1>1, <1>3, <2>1 DEF RangeFrom
  <2>2. CASE pb.head = b.head /\ pb.tail = b.tail
    <3>1. r = previous
      BY <1>3, <2>2 DEF RangeFrom
    <3>2. pb = b
      BY <2>0, <2>2 DEF IsBounds
    <3> QED
      BY <2>0, <3>1, <3>2
  <2>3. CASE pb.head = b.head /\ b.tail < pb.tail
    <3> DEFINE ids == Keep(previous.ids, 1 .. b.tail)
    <3>1. From(pb) = From(b)
      BY <2>3 DEF From
    <3>2. previous.ids = Scan(From(b), pb.tail)
      BY <2>0, <3>1 DEF RangeFits
    <3>3. From(b) \in Nat /\ From(b) >= 1 /\ b.tail \in Nat /\ From(b) <= b.tail
      BY Within
    <3>4. pb.tail \in Nat
      BY <2>0, Within
    <3> DEFINE f == From(b)
               t == b.tail
               p == pb.tail
    <3>5. f \in Nat /\ f >= 1 /\ t \in Nat /\ f <= t /\ p \in Nat /\ t < p
      BY <2>3, <3>3, <3>4
    <3>6. ids = Keep(Scan(f, p), 1 .. t)
      BY <3>2
    <3>t. f = From(b) /\ t = b.tail
      OBVIOUS
    <3>7. r = DeriveRange(b, ids)
      <4>1. t # p /\ t < p
        BY <3>5
      <4> QED
        BY <1>3, <2>3, <4>1 DEF RangeFrom
    <3> HIDE DEF f, t, p, ids
    <3>8. f <= t + 1 /\ t <= p
      BY <3>5
    <3>9. ids = Scan(f, t)
      BY <3>5, <3>6, <3>8, Trim
    <3> QED
      BY <3>7, <3>9, <3>t, DeriveFits
  <2>4. CASE pb.head = b.head /\ pb.tail < b.tail
    <3>1. pb.tail \in Nat /\ b.tail \in Nat
      BY <2>0, Within
    <3>2. pb.tail # b.tail /\ ~ (b.tail < pb.tail)
      BY <2>4, <3>1
    <3>3. r = ExtendRange(previous, b, Scan(pb.tail + 1, b.tail))
      BY <1>3, <2>4, <3>2 DEF RangeFrom
    <3> QED
      BY <2>0, <2>4, <3>3, ExtendFits
  <2>5. pb.tail = b.tail \/ b.tail < pb.tail \/ pb.tail < b.tail
    <3>1. pb.tail \in Nat /\ b.tail \in Nat
      BY <2>0, Within
    <3> QED
      BY <3>1
  <2> QED
    BY <2>1, <2>2, <2>3, <2>4, <2>5
<1> QED
  BY <1>2, <1>3

-----------------------------------------------------------------------------
(* The invariant.                                                            *)

(* The entries there are stay as they are.                                   *)
EntriesKept == DOMAIN entries \subseteq DOMAIN entries' /\ \A i \in DOMAIN entries : entries'[i] = entries[i]

(* The newest entry of a sort among those there are.                         *)
LEMMA BoundsKept ==
    ASSUME Transcript, EntriesKept, NEW b, IsBounds(b)
    PROVE  IsBounds(b)' /\ From(b)' = From(b)
<1>1. b.tail \in DOMAIN entries /\ b = Bounds(b.tail)
  BY DEF IsBounds
<1>2. Len(entries) \in Nat /\ DOMAIN entries = 1 .. Len(entries) /\ b.tail \in Nat
  BY <1>1, EntryIs
<1>3. \A i \in 1 .. b.tail : entries'[i] = entries[i]
  BY <1>1, <1>2 DEF EntriesKept
<1>4. \A t \in DOMAIN entries : Bounds(t)' = Bounds(t)
  <2> TAKE t \in DOMAIN entries
  <2>1. \A i \in 1 .. t : entries'[i] = entries[i]
    BY <1>2 DEF EntriesKept
  <2>2. {i \in 1 .. t : entries'[i].head > 0} = {i \in 1 .. t : entries[i].head > 0}
    BY <2>1
  <2> QED
    BY <2>2 DEF Bounds
<1> DEFINE t == b.tail
<1>5. Bounds(t)' = Bounds(t) /\ t \in DOMAIN entries' /\ b = Bounds(t)
  BY <1>1, <1>4 DEF EntriesKept
<1>6. IsBounds(b)'
  <2>1. t = b.tail
    OBVIOUS
  <2> HIDE DEF t
  <2> QED
    BY <1>5, <2>1 DEF IsBounds
<1>7. b.head = 0 \/ b.head \in DOMAIN entries
  BY Within
<1>8. From(b)' = From(b)
  <2>1. b.head # 0 => entries'[b.head] = entries[b.head]
    BY <1>7 DEF EntriesKept
  <2> QED
    BY <2>1 DEF From
<1> QED
  BY <1>6, <1>8

(* What the entries there are contribute stays.                              *)
LEMMA ContributionsKept ==
    ASSUME Transcript, EntriesKept,
           NEW active \in Seq(DOMAIN entries), NEW ids \in Seq(DOMAIN entries)
    PROVE  Contributions(active, ids)' = Contributions(active, ids) /\ Edited(ids)' = Edited(ids)
<1>1. Range(ids) \in SUBSET DOMAIN entries
  BY RangeOfSeq
<1>2. \A x \in DOMAIN entries : entries'[x] = entries[x]
  BY DEF EntriesKept
<1>3. \A x \in DOMAIN entries : IsEdit(x)' <=> IsEdit(x)
  BY <1>2 DEF IsEdit
<1>4. \A x \in Range(ids) : (IsEdit(x)' <=> IsEdit(x)) /\ entries'[x] = entries[x]
  BY <1>1, <1>2, <1>3
<1>5. Edited(ids)' = Edited(ids)
  <2>1. {x \in Range(ids) : IsEdit(x)}' = {x \in Range(ids) : IsEdit(x)}
    BY <1>4
  <2> DEFINE S == {x \in Range(ids) : IsEdit(x)}
  <2>2. S' = S /\ \A x \in S : entries'[x] = entries[x]
    BY <1>4, <2>1
  <2>3. {entries[x].target : x \in S}' = {entries'[x].target : x \in S}
    BY <2>2
  <2>4. {entries'[x].target : x \in S} = {entries[x].target : x \in S}
    <3> HIDE DEF S
    <3> QED
      BY <2>2
  <2> QED
    BY <2>3, <2>4 DEF Edited
<1>6. \A id : EditOf(id, ids)' = EditOf(id, ids)
  <2> TAKE id
  <2>1. {x \in Range(ids) : IsEdit(x) /\ entries[x].target = id}' =
        {x \in Range(ids) : IsEdit(x) /\ entries[x].target = id}
    BY <1>4
  <2> QED
    BY <2>1 DEF EditOf
<1>7. ASSUME NEW id \in DOMAIN entries, NEW x, x = 0 \/ x \in DOMAIN entries
      PROVE  Contribute(id, x)' = Contribute(id, x)
  <2>1. entries'[id] = entries[id]
    BY <1>2, <1>7
  <2>2. MessageOf(id)' = MessageOf(id)
    BY <2>1 DEF MessageOf
  <2>3. x # 0 => entries'[x] = entries[x]
    BY <1>2, <1>7
  <2> QED
    BY <2>2, <2>3 DEF Contribute
<1>8. \A k \in DOMAIN active : Contribute(active[k], EditOf(active[k], ids))' = Contribute(active[k], EditOf(active[k], ids))
  <2> TAKE k \in DOMAIN active
  <2>1. active[k] \in DOMAIN entries
    <3>1. DOMAIN active = 1 .. Len(active)
      BY LenProperties
    <3> QED
      BY <3>1, ElementOfSeq
  <2>2. EditOf(active[k], ids) = 0 \/ EditOf(active[k], ids) \in DOMAIN entries
    BY EditOfIs
  <2>3. EditOf(active[k], ids)' = EditOf(active[k], ids)
    BY <1>6
  <2>4. ASSUME NEW x, x = EditOf(active[k], ids)
        PROVE  Contribute(active[k], EditOf(active[k], ids))' = Contribute(active[k], x)
    <3>1. Contribute(active[k], x)' = Contribute(active[k], x)
      BY <1>7, <2>1, <2>2, <2>4
    <3>2. EditOf(active[k], ids)' = x
      BY <2>3, <2>4
    <3> QED
      BY <3>1, <3>2
  <2> QED
    BY <2>4
<1>9. Contributions(active, ids)' = Contributions(active, ids)
  <2>1. [k \in DOMAIN active |-> Contribute(active[k], EditOf(active[k], ids))]' =
        [k \in DOMAIN active |-> Contribute(active[k], EditOf(active[k], ids))]
    BY <1>8
  <2> QED
    BY <2>1 DEF Contributions
<1> QED
  BY <1>5, <1>9

(* The entries that are active stay active.                                  *)
LEMMA SelectActiveKept ==
    ASSUME Transcript, EntriesKept, NEW head, NEW ids \in Seq(DOMAIN entries)
    PROVE  SelectActive(head, ids)' = SelectActive(head, ids)
<1> DEFINE D == DOMAIN entries
           now == {i \in DOMAIN entries' : entries'[i].head = 0}
<1>1. \A i \in D : i \in now <=> i \in Heads
  BY DEF EntriesKept, Heads
<1>2. \A k \in 1 .. Len(ids) : ids[k] \in D
  BY ElementOfSeq
<1>3. ids \in Seq(D)
  OBVIOUS
<1> HIDE DEF now, D
<1>4. \A k \in 1 .. Len(ids) : ids[k] \in now <=> ids[k] \in Heads
  BY <1>1, <1>2
<1>5. Keep(ids, now) = Keep(ids, Heads)
  BY <1>3, <1>4, KeepSame
<1>6. SelectActive(head, ids)' = IF head = 0 THEN ids ELSE <<head>> \o Keep(ids, now)
  BY DEF SelectActive, now
<1>7. SelectActive(head, ids) = IF head = 0 THEN ids ELSE <<head>> \o Keep(ids, Heads)
  BY DEF SelectActive, Heads
<1> QED
  BY <1>5, <1>6, <1>7

(* A range that fits still does when there are more entries.                 *)
LEMMA FitsKept ==
    ASSUME Transcript, EntriesKept, NEW r, RangeFits(r)
    PROVE  RangeFits(r)'
<1>1. /\ IsBounds(r.bounds)
      /\ r.ids = Scan(From(r.bounds), r.bounds.tail)
      /\ r.active = SelectActive(r.bounds.head, r.ids)
      /\ r.edited = Edited(r.ids)
      /\ Splits(Contributions(r.active, r.ids), r.settled, r.open)
      /\ r.messages = LeadWithSystem(Join(r.settled, OrderToolResults(r.open)))
  BY DEF RangeFits
<1> DEFINE b == r.bounds
           ids == r.ids
           active == r.active
<1>2. IsBounds(b)' /\ From(b)' = From(b)
  BY <1>1, BoundsKept
<1>3. ids \in Seq(DOMAIN entries) /\ (b.head = 0 \/ b.head \in DOMAIN entries)
  BY <1>1, Within
<1>4. active \in Seq(DOMAIN entries)
  BY <1>1, <1>3, SelectActiveIs
<1>5. SelectActive(b.head, ids)' = SelectActive(b.head, ids)
  BY <1>3, SelectActiveKept
<1>6. Contributions(active, ids)' = Contributions(active, ids) /\ Edited(ids)' = Edited(ids)
  BY <1>3, <1>4, ContributionsKept
<1> QED
  BY <1>1, <1>2, <1>5, <1>6 DEF RangeFits

(* The transcript, and the range kept and those that reads took, fit.        *)
IInv ==
    /\ Transcript
    /\ Fits(kept)
    /\ \A read \in reads : Fits(read.previous) /\ IsBounds(read.bounds)

(* It holds at first.                                                        *)
LEMMA InitFits == Init => IInv
<1>1. <<>> \in Seq(Entry) /\ DOMAIN <<>> = {}
  BY EmptySeq
<1> QED
  BY <1>1 DEF Init, IInv, Fits, Transcript

(* Steps only append entries.                                                *)
LEMMA StepsAppend ==
    ASSUME Transcript, [Next]_vars
    PROVE  Transcript' /\ EntriesKept
<1>0. /\ entries \in Seq(Entry) /\ Len(entries) \in Nat /\ DOMAIN entries = 1 .. Len(entries)
      /\ \A i \in DOMAIN entries : entries[i].head <= i
  BY EntryIs DEF Transcript
<1>1. ASSUME NEW kind \in Kinds, NEW target \in Nat, NEW head \in Nat, head <= Len(entries) + 1,
             Append1(kind, target, head)
      PROVE  Transcript' /\ EntriesKept
  <2> DEFINE e == [kind |-> kind, target |-> target, head |-> head]
             n == Len(entries)
  <2>1. entries' = Append(entries, e)
    BY <1>1 DEF Append1
  <2>2. e \in Entry /\ e.head = head
    BY <1>1 DEF Entry
  <2> HIDE DEF e
  <2>3. /\ entries' \in Seq(Entry) /\ Len(entries') = n + 1
        /\ (\A i \in 1 .. n : entries'[i] = entries[i]) /\ entries'[n + 1] = e
    BY <1>0, <2>1, <2>2, AppendProperties
  <2>4. DOMAIN entries' = 1 .. n + 1
    BY <2>3, LenProperties
  <2>5. n \in Nat /\ DOMAIN entries = 1 .. n
    BY <1>0
  <2> HIDE DEF n
  <2>6. EntriesKept
    BY <2>3, <2>4, <2>5 DEF EntriesKept
  <2>7. \A i \in 1 .. n + 1 : entries'[i].head <= i
    <3> TAKE i \in 1 .. n + 1
    <3>1. CASE i \in 1 .. n
      BY <1>0, <2>3, <2>5, <3>1
    <3>2. CASE i = n + 1
      BY <1>1, <2>2, <2>3, <3>2 DEF n
    <3> QED
      BY <2>5, <3>1, <3>2
  <2> QED
    BY <2>3, <2>4, <2>6, <2>7 DEF Transcript
<1>2. ASSUME UNCHANGED entries PROVE Transcript' /\ EntriesKept
  BY <1>2 DEF Transcript, EntriesKept
<1>3. ASSUME NEW kind \in Kinds, Write(kind) PROVE Transcript' /\ EntriesKept
  <2>1. CASE Append1(kind, 0, 0)
    BY <1>0, <1>1, <2>1
  <2>2. CASE \E i \in 1..(Len(entries) + 2) : Append1(kind, i, 0)
    <3>1. PICK i \in 1..(Len(entries) + 2) : Append1(kind, i, 0)
      BY <2>2
    <3>2. i \in Nat /\ 0 <= Len(entries) + 1
      BY <1>0
    <3> QED
      BY <1>1, <3>1, <3>2
  <2>3. CASE \E i \in 1..(Len(entries) + 1) : Append1(kind, 0, i)
    <3>1. PICK i \in 1..(Len(entries) + 1) : Append1(kind, 0, i)
      BY <2>3
    <3>2. i \in Nat /\ i <= Len(entries) + 1
      BY <1>0
    <3> QED
      BY <1>1, <3>1, <3>2
  <2>4. CASE \E i, j \in DOMAIN entries : Append1(kind, i, j)
    <3>1. PICK i \in DOMAIN entries, j \in DOMAIN entries : Append1(kind, i, j)
      BY <2>4
    <3>2. i \in Nat /\ j \in Nat /\ j <= Len(entries) + 1
      BY <1>0
    <3> QED
      BY <1>1, <3>1, <3>2
  <2> QED
    BY <1>3, <2>1, <2>2, <2>3, <2>4 DEF Write
<1>4. UNCHANGED entries \/ \E kind \in Kinds : Write(kind)
  BY DEF Next, Begin, Finish, Drop, vars
<1> QED
  BY <1>2, <1>3, <1>4

(* It is inductive.                                                          *)
LEMMA StepFits ==
    ASSUME IInv, [Next]_vars
    PROVE  IInv'
<1>1. Transcript /\ Fits(kept) /\ \A read \in reads : Fits(read.previous) /\ IsBounds(read.bounds)
  BY DEF IInv
<1>2. Transcript' /\ EntriesKept
  BY <1>1, StepsAppend
<1>3. \A r : Fits(r) => Fits(r)'
  BY <1>1, <1>2, FitsKept DEF Fits
<1>4. \A b : IsBounds(b) => IsBounds(b)'
  BY <1>1, <1>2, BoundsKept
<1>5. ASSUME NEW k, k = kept' PROVE Fits(k)
  <2>1. CASE UNCHANGED kept
    BY <1>1, <1>5, <2>1
  <2>2. CASE kept' = NoRange
    BY <1>5, <2>2 DEF Fits
  <2>3. CASE \E read \in reads : Finish(read)
    <3>1. PICK read \in reads : Finish(read)
      BY <2>3
    <3> DEFINE range == RangeFrom(read.previous, read.bounds)
    <3>2. RangeFits(range)
      BY <1>1, RangeFromFits
    <3>3. k = range \/ k = kept
      BY <1>5, <3>1 DEF Finish
    <3> HIDE DEF range
    <3> QED
      BY <1>1, <3>2, <3>3 DEF Fits
  <2>4. UNCHANGED kept \/ kept' = NoRange \/ \E read \in reads : Finish(read)
    BY DEF Next, Write, Begin, Drop, vars
  <2> QED
    BY <2>1, <2>2, <2>3, <2>4
<1>6. ASSUME NEW read \in reads' PROVE Fits(read.previous) /\ IsBounds(read.bounds)
  <2>1. CASE read \in reads
    BY <1>1, <2>1
  <2>2. CASE \E at \in DOMAIN entries : Begin(at)
    <3>1. PICK at \in DOMAIN entries : Begin(at)
      BY <2>2
    <3> DEFINE b == Bounds(at)
    <3>2. read \in reads \/ (read.previous = kept /\ read.bounds = b)
      BY <1>6, <3>1 DEF Begin
    <3>3. IsBounds(b)
      <4>1. b.tail = at
        BY DEF Bounds
      <4>2. b = Bounds(at)
        OBVIOUS
      <4> HIDE DEF b
      <4> QED
        BY <4>1, <4>2 DEF IsBounds
    <3> HIDE DEF b
    <3> QED
      BY <1>1, <3>2, <3>3
  <2>3. read \in reads \/ \E at \in DOMAIN entries : Begin(at)
    BY <1>6 DEF Next, Write, Finish, Drop, vars
  <2> QED
    BY <2>1, <2>2, <2>3
<1>7. Fits(kept)'
  <2>1. Fits(kept')
    BY <1>5
  <2> QED
    BY <1>3, <2>1
<1>8. \A read \in reads' : Fits(read.previous)' /\ IsBounds(read.bounds)'
  BY <1>3, <1>4, <1>6
<1> QED
  BY <1>2, <1>7, <1>8 DEF IInv

(* The ranges fit always.                                                    *)
LEMMA AlwaysFits == Spec => []IInv
<1>1. Init => IInv
  BY InitFits
<1>2. IInv /\ [Next]_vars => IInv'
  BY StepFits
<1> QED
  BY <1>1, <1>2, PTL DEF Spec

(* A read (readContextFrom) returns what deriving the context from scratch   *)
(* would, whichever range was kept when it started, however many entries came*)
(* since, and whichever older entry it asks for.                             *)
THEOREM ReadsExact == Spec => []ReadsAreExact
<1>1. IInv => ReadsAreExact
  <2> SUFFICES ASSUME IInv, NEW read \in reads
               PROVE  IsReference(RangeFrom(read.previous, read.bounds))
    BY DEF ReadsAreExact
  <2>1. Transcript /\ Fits(read.previous) /\ IsBounds(read.bounds)
    BY DEF IInv
  <2> QED
    BY <2>1, RangeFromFits, FitsReference
<1> QED
  BY <1>1, AlwaysFits, PTL

(* Every request is well formed for a provider, with the results in order and*)
(* the system message moved to the front (leadWithSystem).                   *)
THEOREM ResultsFollow == Spec => []ResultsFollowCalls
<1>1. IInv => ResultsFollowCalls
  <2> SUFFICES ASSUME IInv, kept # NoRange
               PROVE  IsWellFormed(kept.messages)
    BY DEF ResultsFollowCalls
  <2>1. Transcript /\ RangeFits(kept)
    BY DEF IInv, Fits
  <2>2. kept.messages \in WellFormed
    BY <2>1, FitsReference
  <2> QED
    BY <2>2 DEF WellFormed
<1> QED
  BY <1>1, AlwaysFits, PTL
=============================================================================
