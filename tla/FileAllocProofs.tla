--------------------------- MODULE FileAllocProofs ---------------------------
(***************************************************************************)
(* Proofs about module FileAlloc, for every size of blocks, buckets,       *)
(* tables, areas and directories and every history of the file: the avail  *)
(* tables stay sorted and within their bounds, the avail blocks on the     *)
(* stack can be read, and no byte of the file has two owners.              *)
(*                                                                         *)
(* The theorems assume ~FromWithStack: gdbm_convert (dbf, 0) is not called *)
(* while there are avail blocks on the stack.  After such a call a block   *)
(* is popped with another size than it was pushed with.                    *)
(***************************************************************************)
EXTENDS FileAlloc, SequenceTheorems, WellFoundedInduction, TLAPS

-----------------------------------------------------------------------------
(* Numbers and loops. *)

\* A property that zero has and that passes on holds up to a bound.
LEMMA CountUp ==
    ASSUME NEW N \in Nat, NEW T, 0 \in T, \A m \in 0 .. N - 1 : m \in T => m + 1 \in T
    PROVE  \A m \in 0 .. N : m \in T
<1> SUFFICES ASSUME NEW m \in 0 .. N, m \notin T PROVE FALSE
  OBVIOUS
<1> DEFINE B == {x \in Nat : x <= N /\ x \notin T}
<1>1. B \in SUBSET Nat /\ B # {}
  OBVIOUS
<1>2. PICK x \in B : \A y \in B : <<y, x>> \notin OpToRel(<, Nat)
  BY <1>1, NatLessThanWellFounded, WFMin
<1>3. x \in Nat /\ x # 0 /\ x - 1 \in Nat /\ x - 1 < x /\ x <= N
  OBVIOUS
<1>4. x - 1 \notin B
  BY <1>2, <1>3 DEF OpToRel
<1>5. x - 1 \in T
  BY <1>3, <1>4
<1>6. x - 1 \in 0 .. N - 1
  BY <1>3
<1>7. (x - 1) + 1 \in T
  BY <1>5, <1>6
<1>8. QED
  BY <1>3, <1>7

\* What one round of each loop of the model does: a is what the loop is given, s the
\* state before round i.
RoundOf(loop, a, s, i) ==
    IF loop = 1 THEN Halve(a.size, a.table, s)
    ELSE IF loop = 2 THEN Coalesce(s, a[i])
    ELSE IF loop = 3 THEN SpillOne(s)
    ELSE IF loop = 4 THEN Free(s, a[i])
    ELSE IF loop = 5 THEN PushIfFull(PutHeader(s, a[i], TRUE))
    ELSE StoreDelete(s, i)

\* The states before the first round, z, and after each of N rounds.
IsHistory(g, loop, a, z, N) ==
    g = [i \in 0 .. N |-> IF i = 0 THEN z ELSE RoundOf(loop, a, g[i - 1], i)]

\* Every loop has a history.
LEMMA History ==
    ASSUME NEW loop, NEW a, NEW z, NEW N \in Nat
    PROVE  \E g : IsHistory(g, loop, a, z, N)
<1> DEFINE R(s, i) == RoundOf(loop, a, s, i)
           Rec(g, n) == [i \in 0 .. n |-> IF i = 0 THEN z ELSE R(g[i - 1], i)]
           T == {n \in 0 .. N : \E g : g = Rec(g, n)}
<1>1. 0 \in T
  <2> DEFINE g == [i \in 0 .. 0 |-> z]
  <2> HIDE DEF R
  <2>1. g = Rec(g, 0)
    OBVIOUS
  <2>2. 0 \in 0 .. N
    OBVIOUS
  <2> HIDE DEF g, Rec
  <2>3. QED
    BY <2>1, <2>2
<1>2. ASSUME NEW n \in 0 .. N - 1, n \in T PROVE n + 1 \in T
  <2> HIDE DEF R
  <2>1. PICK g : g = Rec(g, n)
    BY <1>2
  <2> DEFINE h == [i \in 0 .. n + 1 |-> IF i <= n THEN g[i] ELSE R(g[n], n + 1)]
  <2>2. ASSUME NEW i \in 0 .. n + 1 PROVE h[i] = IF i = 0 THEN z ELSE R(h[i - 1], i)
    <3>1. CASE i = n + 1
      <4>1. h[i] = R(g[n], n + 1) /\ h[i - 1] = g[n] /\ i # 0
        BY <3>1
      <4>2. QED
        BY <3>1, <4>1
    <3>2. CASE i <= n /\ i # 0
      <4>1. h[i] = g[i] /\ h[i - 1] = g[i - 1] /\ i \in 0 .. n
        BY <3>2
      <4>2. g[i] = R(g[i - 1], i)
        BY <2>1, <3>2, <4>1
      <4>3. QED
        BY <3>2, <4>1, <4>2
    <3>3. CASE i = 0
      BY <2>1, <3>3
    <3>4. QED
      BY <3>1, <3>2, <3>3
  <2>3. h = Rec(h, n + 1)
    <3>1. h = [i \in 0 .. n + 1 |-> h[i]]
      OBVIOUS
    <3> HIDE DEF h
    <3>2. QED
      BY <2>2, <3>1
  <2>4. n + 1 \in 0 .. N
    OBVIOUS
  <2>5. QED
    BY <2>3, <2>4
<1>3. N \in T
  <2> HIDE DEF T
  <2>1. N \in 0 .. N
    OBVIOUS
  <2>2. QED
    BY <1>1, <1>2, <2>1, CountUp
<1>4. QED
  BY <1>3 DEF IsHistory

LEMMA SpillUnfolds ==
    ASSUME NEW d, Third \in Nat
    PROVE  \E G : /\ G[0] = d
                  /\ \A m \in 1 .. Third : G[m] = SpillOne(G[m - 1])
                  /\ Spill(d) = G[Third]
<1> DEFINE Step(s, i) == CHOOSE r \in {SpillOne(x) : x \in {s}} : TRUE
           Rec(g) == [i \in 0 .. Third |-> IF i = 0 THEN d ELSE Step(g[i - 1], i)]
           G == CHOOSE g : g = Rec(g)
<1>1. PICK g : IsHistory(g, 3, d, d, Third)
  BY History
<1>2. \A s, i : Step(s, i) = SpillOne(s)
  BY Zenon
<1>3. \A s, i : RoundOf(3, d, s, i) = SpillOne(s)
  BY DEF RoundOf
<1>4. G = Rec(G)
  <2> HIDE DEF Step
  <2>1. g = Rec(g)
    BY <1>1, <1>2, <1>3 DEF IsHistory
  <2> HIDE DEF Rec
  <2>2. QED
    BY <2>1
<1>5. Spill(d) = G[Third]
  BY Zenon DEF Spill, With
<1>6. QED
  <2> HIDE DEF G, Step
  <2>1. G[0] = d /\ \A m \in 1 .. Third : G[m] = Step(G[m - 1], m)
    BY <1>4
  <2>2. QED
    BY <1>2, <1>5, <2>1

LEMMA LookupUnfolds ==
    ASSUME NEW size, NEW t, Len(t) \in Nat
    PROVE  \E G : /\ G[0] = [start |-> 0, count |-> Len(t)]
                  /\ \A m \in 1 .. Len(t) : G[m] = Halve(size, t, G[m - 1])
                  /\ AvailLookup(size, t) = G[Len(t)].start
<1> DEFINE Step(s, i) == CHOOSE r \in {Halve(size, t, x) : x \in {s}} : TRUE
           Rec(g) == [i \in 0 .. Len(t) |-> IF i = 0 THEN [start |-> 0, count |-> Len(t)] ELSE Step(g[i - 1], i)]
           G == CHOOSE g : g = Rec(g)
<1>1. PICK g : IsHistory(g, 1, [size |-> size, table |-> t], [start |-> 0, count |-> Len(t)], Len(t))
  BY History
<1>2. \A s, i : Step(s, i) = Halve(size, t, s)
  BY Zenon
<1>3. \A s, i : RoundOf(1, [size |-> size, table |-> t], s, i) = Halve(size, t, s)
  BY DEF RoundOf
<1>4. G = Rec(G)
  <2> HIDE DEF Step
  <2>1. g = Rec(g)
    BY <1>1, <1>2, <1>3 DEF IsHistory
  <2> HIDE DEF Rec
  <2>2. QED
    BY <2>1
<1>5. AvailLookup(size, t) = G[Len(t)].start
  BY Zenon DEF AvailLookup, With
<1>6. QED
  <2> HIDE DEF G, Step
  <2>1. G[0] = [start |-> 0, count |-> Len(t)] /\ \A m \in 1 .. Len(t) : G[m] = Step(G[m - 1], m)
    BY <1>4
  <2>2. QED
    BY <1>2, <1>5, <2>1

LEMMA CoalesceUnfolds ==
    ASSUME NEW new, NEW t, Len(t) \in Nat
    PROVE  \E G : /\ G[0] = [new |-> new, kept |-> <<>>]
                  /\ \A m \in 1 .. Len(t) : G[m] = Coalesce(G[m - 1], t[m])
                  /\ CoalesceAll(new, t) = G[Len(t)]
<1> DEFINE Step(s, i) == CHOOSE r \in {Coalesce(x, t[i]) : x \in {s}} : TRUE
           Rec(g) == [i \in 0 .. Len(t) |-> IF i = 0 THEN [new |-> new, kept |-> <<>>] ELSE Step(g[i - 1], i)]
           G == CHOOSE g : g = Rec(g)
<1>1. PICK g : IsHistory(g, 2, t, [new |-> new, kept |-> <<>>], Len(t))
  BY History
<1>2. \A s, i : Step(s, i) = Coalesce(s, t[i])
  BY Zenon
<1>3. \A s, i : RoundOf(2, t, s, i) = Coalesce(s, t[i])
  BY DEF RoundOf
<1>4. G = Rec(G)
  <2> HIDE DEF Step
  <2>1. g = Rec(g)
    BY <1>1, <1>2, <1>3 DEF IsHistory
  <2> HIDE DEF Rec
  <2>2. QED
    BY <2>1
<1>5. CoalesceAll(new, t) = G[Len(t)]
  BY Zenon DEF CoalesceAll, With
<1>6. QED
  <2> HIDE DEF G, Step
  <2>1. G[0] = [new |-> new, kept |-> <<>>] /\ \A m \in 1 .. Len(t) : G[m] = Step(G[m - 1], m)
    BY <1>4
  <2>2. QED
    BY <1>2, <1>5, <2>1

LEMMA FreeAllUnfolds ==
    ASSUME NEW d, NEW es, Len(es) \in Nat
    PROVE  \E G : /\ G[0] = d
                  /\ \A m \in 1 .. Len(es) : G[m] = Free(G[m - 1], es[m])
                  /\ FreeAll(d, es) = G[Len(es)]
<1> DEFINE Step(s, i) == CHOOSE r \in {Free(x, es[i]) : x \in {s}} : TRUE
           Rec(g) == [i \in 0 .. Len(es) |-> IF i = 0 THEN d ELSE Step(g[i - 1], i)]
           G == CHOOSE g : g = Rec(g)
<1>1. PICK g : IsHistory(g, 4, es, d, Len(es))
  BY History
<1>2. \A s, i : Step(s, i) = Free(s, es[i])
  BY Zenon
<1>3. \A s, i : RoundOf(4, es, s, i) = Free(s, es[i])
  BY DEF RoundOf
<1>4. G = Rec(G)
  <2> HIDE DEF Step
  <2>1. g = Rec(g)
    BY <1>1, <1>2, <1>3 DEF IsHistory
  <2> HIDE DEF Rec
  <2>2. QED
    BY <2>1
<1>5. FreeAll(d, es) = G[Len(es)]
  BY Zenon DEF FreeAll, With
<1>6. QED
  <2> HIDE DEF G, Step
  <2>1. G[0] = d /\ \A m \in 1 .. Len(es) : G[m] = Step(G[m - 1], m)
    BY <1>4
  <2>2. QED
    BY <1>2, <1>5, <2>1

LEMMA LoadAllUnfolds ==
    ASSUME NEW d, NEW t, Len(t) \in Nat
    PROVE  \E G : /\ G[0] = d
                  /\ \A m \in 1 .. Len(t) : G[m] = PushIfFull(PutHeader(G[m - 1], t[m], TRUE))
                  /\ LoadAll(d, t) = G[Len(t)]
<1> DEFINE Step(s, i) == CHOOSE r \in {PushIfFull(PutHeader(x, t[i], TRUE)) : x \in {s}} : TRUE
           Rec(g) == [i \in 0 .. Len(t) |-> IF i = 0 THEN d ELSE Step(g[i - 1], i)]
           G == CHOOSE g : g = Rec(g)
<1>1. PICK g : IsHistory(g, 5, t, d, Len(t))
  BY History
<1>2. \A s, i : Step(s, i) = PushIfFull(PutHeader(s, t[i], TRUE))
  BY Zenon
<1>3. \A s, i : RoundOf(5, t, s, i) = PushIfFull(PutHeader(s, t[i], TRUE))
  BY DEF RoundOf
<1>4. G = Rec(G)
  <2> HIDE DEF Step
  <2>1. g = Rec(g)
    BY <1>1, <1>2, <1>3 DEF IsHistory
  <2> HIDE DEF Rec
  <2>2. QED
    BY <2>1
<1>5. LoadAll(d, t) = G[Len(t)]
  BY Zenon DEF LoadAll, With
<1>6. QED
  <2> HIDE DEF G, Step
  <2>1. G[0] = d /\ \A m \in 1 .. Len(t) : G[m] = Step(G[m - 1], m)
    BY <1>4
  <2>2. QED
    BY <1>2, <1>5, <2>1

\* The descriptors that Aged goes through.
Ageing(G, d, n) ==
    /\ G[0] = d
    /\ \A m \in 1 .. n : G[m] = StoreDelete(G[m - 1], m)
    /\ Aged(d, n) = G[n]

LEMMA AgedUnfolds ==
    ASSUME NEW d, NEW n \in Nat
    PROVE  \E G : Ageing(G, d, n)
<1> DEFINE Step(s, i) == CHOOSE r \in {StoreDelete(x, i) : x \in {s}} : TRUE
           Rec(g) == [i \in 0 .. n |-> IF i = 0 THEN d ELSE Step(g[i - 1], i)]
           G == CHOOSE g : g = Rec(g)
<1>1. PICK g : IsHistory(g, 6, d, d, n)
  BY History
<1>2. \A s, i : Step(s, i) = StoreDelete(s, i)
  BY Zenon
<1>3. \A s, i : RoundOf(6, d, s, i) = StoreDelete(s, i)
  BY DEF RoundOf
<1>4. G = Rec(G)
  <2> HIDE DEF Step
  <2>1. g = Rec(g)
    BY <1>1, <1>2, <1>3 DEF IsHistory
  <2> HIDE DEF Rec
  <2>2. QED
    BY <2>1
<1>5. Aged(d, n) = G[n]
  BY Zenon DEF Aged, With
<1>6. QED
  <2> HIDE DEF G, Step
  <2>1. G[0] = d /\ \A m \in 1 .. n : G[m] = Step(G[m - 1], m)
    BY <1>4
  <2>2. QED
    BY <1>2, <1>5, <2>1 DEF Ageing

-----------------------------------------------------------------------------
(* Sequences. *)

\* Sequence t is s without the element at i.
Removed(t, s, i) ==
    /\ Len(t) = Len(s) - 1
    /\ \A k \in 1 .. Len(t) : t[k] = s[IF k < i THEN k ELSE k + 1]

LEMMA RemoveAtIs ==
    ASSUME NEW S, NEW s \in Seq(S), NEW i \in 1 .. Len(s), NEW t, t = RemoveAt(s, i)
    PROVE  t \in Seq(S) /\ Removed(t, s, i)
<1>0. Len(s) \in Nat /\ \A k \in 1 .. Len(s) : s[k] \in S
  BY LenProperties, ElementOfSeq
<1>1. PICK u : u = SubSeq(s, 1, i - 1)
  OBVIOUS
<1>2. PICK v : v = SubSeq(s, i + 1, Len(s))
  OBVIOUS
<1>3. /\ u \in Seq(S) /\ Len(u) = i - 1 /\ \A k \in 1 .. i - 1 : u[k] = s[k]
  <2>1. PICK m \in Int, n \in Int : m = 1 /\ n = i - 1
    BY <1>0
  <2>2. \A k \in m .. n : s[k] \in S
    BY <1>0, <2>1
  <2>3. /\ SubSeq(s, m, n) \in Seq(S) /\ Len(SubSeq(s, m, n)) = IF m <= n THEN n - m + 1 ELSE 0
        /\ \A k \in 1 .. n - m + 1 : SubSeq(s, m, n)[k] = s[m + k - 1]
    BY <2>2, SubSeqProperties
  <2>4. QED
    BY <1>0, <1>1, <2>1, <2>3
<1>4. /\ v \in Seq(S) /\ Len(v) = Len(s) - i /\ \A k \in 1 .. Len(s) - i : v[k] = s[i + k]
  <2>1. PICK m \in Int, n \in Int : m = i + 1 /\ n = Len(s)
    BY <1>0
  <2>2. \A k \in m .. n : s[k] \in S
    BY <1>0, <2>1
  <2>3. /\ SubSeq(s, m, n) \in Seq(S) /\ Len(SubSeq(s, m, n)) = IF m <= n THEN n - m + 1 ELSE 0
        /\ \A k \in 1 .. n - m + 1 : SubSeq(s, m, n)[k] = s[m + k - 1]
    BY <2>2, SubSeqProperties
  <2>4. QED
    BY <1>0, <1>2, <2>1, <2>3
<1>5. t = u \o v
  BY <1>1, <1>2 DEF RemoveAt
<1>6. /\ t \in Seq(S) /\ Len(t) = Len(u) + Len(v)
      /\ \A k \in 1 .. Len(u) + Len(v) : t[k] = IF k <= Len(u) THEN u[k] ELSE v[k - Len(u)]
  <2>1. u \in Seq(S) /\ v \in Seq(S)
    BY <1>3, <1>4
  <2>2. /\ u \o v \in Seq(S) /\ Len(u \o v) = Len(u) + Len(v)
        /\ \A k \in 1 .. Len(u) + Len(v) : (u \o v)[k] = IF k <= Len(u) THEN u[k] ELSE v[k - Len(u)]
    BY <2>1, ConcatProperties
  <2>3. QED
    BY <1>5, <2>2
<1>7. Len(t) = Len(s) - 1
  BY <1>0, <1>3, <1>4, <1>6
<1>8. ASSUME NEW k \in 1 .. Len(t) PROVE t[k] = s[IF k < i THEN k ELSE k + 1]
  <2>1. CASE k < i
    BY <1>0, <1>3, <1>4, <1>6, <2>1
  <2>2. CASE ~(k < i)
    <3>1. t[k] = v[k - (i - 1)] /\ k - (i - 1) \in 1 .. Len(s) - i
      BY <1>0, <1>3, <1>4, <1>6, <1>7, <2>2
    <3>2. v[k - (i - 1)] = s[i + (k - (i - 1))] /\ i + (k - (i - 1)) = k + 1
      BY <1>0, <1>4, <1>7, <3>1
    <3>3. QED
      BY <2>2, <3>1, <3>2
  <2>3. QED
    BY <2>1, <2>2
<1>9. QED
  BY <1>6, <1>7, <1>8 DEF Removed

LEMMA PrefixIs ==
    ASSUME NEW S, NEW s \in Seq(S), NEW n \in 0 .. Len(s), NEW t, t = SubSeq(s, 1, n)
    PROVE  t \in Seq(S) /\ Len(t) = n /\ \A k \in 1 .. n : t[k] = s[k]
<1>0. Len(s) \in Nat /\ \A k \in 1 .. Len(s) : s[k] \in S
  BY LenProperties, ElementOfSeq
<1>1. PICK m \in Int : m = 1
  OBVIOUS
<1>2. \A k \in m .. n : s[k] \in S
  BY <1>0, <1>1
<1>3. /\ SubSeq(s, m, n) \in Seq(S) /\ Len(SubSeq(s, m, n)) = IF m <= n THEN n - m + 1 ELSE 0
      /\ \A k \in 1 .. n - m + 1 : SubSeq(s, m, n)[k] = s[m + k - 1]
  BY <1>0, <1>2, SubSeqProperties
<1>4. QED
  BY <1>0, <1>1, <1>3

\* Sequence t is s with e at position i.
Inserted(t, s, i, e) ==
    /\ Len(t) = Len(s) + 1 /\ t[i] = e
    /\ \A k \in 1 .. i - 1 : t[k] = s[k]
    /\ \A k \in i + 1 .. Len(t) : t[k] = s[k - 1]

LEMMA InsertAtIs ==
    ASSUME NEW S, NEW s \in Seq(S), NEW i \in Nat, 1 <= i, i <= Len(s) + 1, NEW e \in S,
           NEW t, t = InsertAt(s, i, e)
    PROVE  t \in Seq(S) /\ Inserted(t, s, i, e)
<1>0. Len(s) \in Nat /\ \A k \in 1 .. Len(s) : s[k] \in S
  BY LenProperties, ElementOfSeq
<1>1. PICK u : u = SubSeq(s, 1, i - 1)
  OBVIOUS
<1>2. PICK v : v = SubSeq(s, i, Len(s))
  OBVIOUS
<1>3. /\ u \in Seq(S) /\ Len(u) = i - 1 /\ \A k \in 1 .. i - 1 : u[k] = s[k]
  <2>1. i - 1 \in 0 .. Len(s)
    BY <1>0
  <2>2. QED
    BY <1>1, <2>1, PrefixIs
<1>4. /\ v \in Seq(S) /\ Len(v) = Len(s) - i + 1 /\ \A k \in 1 .. Len(s) - i + 1 : v[k] = s[i + k - 1]
  <2>1. PICK n \in Int : n = Len(s)
    BY <1>0
  <2>2. \A k \in i .. n : s[k] \in S
    BY <1>0, <2>1
  <2>3. /\ SubSeq(s, i, n) \in Seq(S) /\ Len(SubSeq(s, i, n)) = IF i <= n THEN n - i + 1 ELSE 0
        /\ \A k \in 1 .. n - i + 1 : SubSeq(s, i, n)[k] = s[i + k - 1]
    BY <2>2, SubSeqProperties
  <2>4. QED
    BY <1>0, <1>2, <2>1, <2>3
<1>5. PICK w : w = u \o <<e>>
  OBVIOUS
<1>6. w \in Seq(S) /\ Len(w) = i /\ w[i] = e /\ \A k \in 1 .. i - 1 : w[k] = s[k]
  <2>0. PICK x : x = <<e>>
    OBVIOUS
  <2>1. x \in Seq(S) /\ Len(x) = 1 /\ x[1] = e
    BY <2>0
  <2>2. /\ w \in Seq(S) /\ Len(w) = Len(u) + Len(x)
        /\ \A k \in 1 .. Len(u) + Len(x) : w[k] = IF k <= Len(u) THEN u[k] ELSE x[k - Len(u)]
    BY <1>3, <1>5, <2>0, <2>1, ConcatProperties
  <2>3. QED
    BY <1>0, <1>3, <2>1, <2>2
<1>7. t = w \o v
  BY <1>1, <1>2, <1>5 DEF InsertAt
<1>8. /\ t \in Seq(S) /\ Len(t) = Len(w) + Len(v)
      /\ \A k \in 1 .. Len(w) + Len(v) : t[k] = IF k <= Len(w) THEN w[k] ELSE v[k - Len(w)]
  BY <1>4, <1>6, <1>7, ConcatProperties
<1>9. Len(t) = Len(s) + 1
  BY <1>0, <1>4, <1>6, <1>8
<1>10. t[i] = e /\ \A k \in 1 .. i - 1 : t[k] = s[k]
  BY <1>0, <1>4, <1>6, <1>8
<1>11. ASSUME NEW k \in i + 1 .. Len(t) PROVE t[k] = s[k - 1]
  <2>1. t[k] = v[k - i] /\ k - i \in 1 .. Len(s) - i + 1
    BY <1>0, <1>4, <1>6, <1>8, <1>9
  <2>2. v[k - i] = s[i + (k - i) - 1] /\ i + (k - i) - 1 = k - 1
    BY <1>0, <1>4, <1>9, <2>1
  <2>3. QED
    BY <2>1, <2>2
<1>12. QED
  BY <1>0, <1>8, <1>9, <1>10, <1>11 DEF Inserted

-----------------------------------------------------------------------------
(* Tables of free extents. *)

Extents == [adr : Nat, size : {n \in Nat : n > IgnoreSize}]

Ascending(t) == \A i, j \in 1 .. Len(t) : i <= j => t[i].size <= t[j].size
Apart(t) == \A i, j \in 1 .. Len(t) : i # j => Bytes(t[i]) \cap Bytes(t[j]) = {}

\* A table in order, of extents that are disjoint.
Table(t) == t \in Seq(Extents) /\ Ascending(t) /\ Apart(t)

BytesOf(t) == UNION {Bytes(t[i]) : i \in 1 .. Len(t)}

\* The entries that are smaller than size come before index i, counted from 0.
Divides(t, size, i) ==
    /\ i \in 0 .. Len(t)
    /\ \A k \in 1 .. i : t[k].size <= size
    /\ \A k \in i + 1 .. Len(t) : t[k].size >= size

\* The binary search after m rounds.
Searching(t, size, s, m) ==
    /\ s \in [start : Nat, count : Nat]
    /\ s.start + s.count <= Len(t) /\ s.count <= Len(t) - m
    /\ \A k \in 1 .. s.start : t[k].size <= size
    /\ \A k \in s.start + s.count + 1 .. Len(t) : t[k].size >= size

LEMMA HalveSearches ==
    ASSUME NEW t, t \in Seq(Extents), Ascending(t), NEW size \in Int, NEW m \in 1 .. Len(t),
           NEW s, Searching(t, size, s, m - 1)
    PROVE  Searching(t, size, Halve(size, t, s), m)
<1>0. Len(t) \in Nat /\ \A k \in 1 .. Len(t) : t[k].size \in Nat
  <2>1. Len(t) \in Nat /\ \A k \in 1 .. Len(t) : t[k] \in Extents
    BY LenProperties, ElementOfSeq
  <2>2. QED
    BY <2>1 DEF Extents
<1>1. PICK st \in Nat : st = s.start
  BY DEF Searching
<1>2. PICK c \in Nat : c = s.count
  BY DEF Searching
<1>3. /\ s = [start |-> st, count |-> c]
      /\ st + c <= Len(t) /\ c <= Len(t) - (m - 1)
      /\ \A k \in 1 .. st : t[k].size <= size
      /\ \A k \in st + c + 1 .. Len(t) : t[k].size >= size
  BY <1>1, <1>2 DEF Searching
<1>4. CASE c = 0
  <2>1. Halve(size, t, s) = s
    BY <1>2, <1>4 DEF Halve
  <2>2. QED
    BY <1>0, <1>3, <1>4, <2>1 DEF Searching
<1>5. CASE c # 0
  <2>1. PICK h \in Nat : h = c \div 2 /\ h < c
    BY <1>5
  <2>2. PICK g \in Nat : g = (c - 1) \div 2 /\ g + h + 1 = c
    BY <1>5, <2>1
  <2>3. PICK p \in 1 .. Len(t) : p = st + h + 1
    BY <1>0, <1>3, <2>1
  <2>4. /\ \A k \in 1 .. p : t[k].size <= t[p].size
        /\ \A k \in p .. Len(t) : t[k].size >= t[p].size
    BY <1>0, <2>3 DEF Ascending
  <2>5. PICK x \in Nat : x = t[p].size
    BY <1>0
  <2>6. Halve(size, t, s) = IF size = x THEN [start |-> st + h, count |-> 0]
                            ELSE IF size > x THEN [start |-> st + h + 1, count |-> g]
                            ELSE [start |-> st, count |-> h]
    BY <1>1, <1>2, <1>5, <2>1, <2>2, <2>3, <2>5 DEF Halve
  <2>7. ASSUME NEW a \in Nat, NEW b \in Nat, a + b <= Len(t), b <= Len(t) - m,
                \A k \in 1 .. a : t[k].size <= size,
                \A k \in a + b + 1 .. Len(t) : t[k].size >= size
         PROVE  Searching(t, size, [start |-> a, count |-> b], m)
    BY <2>7 DEF Searching
  <2>8. CASE size = x
    <3>1. PICK a \in Nat : a = st + h
      OBVIOUS
    <3>2. Halve(size, t, s) = [start |-> a, count |-> 0] /\ p = a + 1
      BY <2>3, <2>6, <2>8, <3>1
    <3>3. \A k \in 1 .. a : k \in 1 .. p
      BY <3>2
    <3>4. \A k \in 1 .. a : t[k].size <= size
      BY <2>4, <2>5, <2>8, <3>3
    <3>5. \A k \in a + 0 + 1 .. Len(t) : t[k].size >= size
      BY <1>0, <2>4, <2>5, <2>8, <3>2
    <3>6. a + 0 <= Len(t) /\ 0 <= Len(t) - m
      BY <1>0, <3>2
    <3>7. QED
      BY <2>7, <3>2, <3>4, <3>5, <3>6
  <2>9. CASE size # x /\ size > x
    <3>0. Halve(size, t, s) = [start |-> st + h + 1, count |-> g]
      BY <2>6, <2>9
    <3>1. p \in Nat /\ p = st + h + 1 /\ p + g = st + c
      BY <1>0, <2>2, <2>3
    <3>2. \A k \in 1 .. p : t[k].size <= size
      BY <1>0, <2>3, <2>4, <2>5, <2>9
    <3>3. p + g <= Len(t) /\ g <= Len(t) - m
      BY <1>0, <1>3, <2>1, <2>2, <3>1
    <3>4. \A k \in p + g + 1 .. Len(t) : t[k].size >= size
      BY <1>3, <3>1
    <3>5. Searching(t, size, [start |-> p, count |-> g], m)
      BY <2>7, <3>1, <3>2, <3>3, <3>4
    <3>6. QED
      BY <3>0, <3>1, <3>5
  <2>10. CASE size # x /\ ~(size > x)
    <3>1. Halve(size, t, s) = [start |-> st, count |-> h] /\ st + h + 1 = p
      BY <2>3, <2>6, <2>10
    <3>a. \A k \in p .. Len(t) : t[k].size >= size
      BY <1>0, <2>4, <2>5, <2>10
    <3>2. \A k \in st + h + 1 .. Len(t) : t[k].size >= size
      BY <3>1, <3>a
    <3>3. st + h <= Len(t) /\ h <= Len(t) - m
      BY <1>0, <1>3, <2>1, <2>3
    <3>4. QED
      BY <1>3, <2>7, <3>1, <3>2, <3>3
  <2>11. QED
    BY <2>8, <2>9, <2>10
<1>6. QED
  BY <1>4, <1>5

LEMMA LookupDivides ==
    ASSUME NEW t, t \in Seq(Extents), Ascending(t), NEW size \in Int
    PROVE  Divides(t, size, AvailLookup(size, t))
<1>0. Len(t) \in Nat
  BY LenProperties
<1>1. PICK G : /\ G[0] = [start |-> 0, count |-> Len(t)]
               /\ \A m \in 1 .. Len(t) : G[m] = Halve(size, t, G[m - 1])
               /\ AvailLookup(size, t) = G[Len(t)].start
  BY <1>0, LookupUnfolds
<1> DEFINE T == {m \in 0 .. Len(t) : Searching(t, size, G[m], m)}
<1>2. 0 \in T
  BY <1>0, <1>1 DEF Searching
<1>3. ASSUME NEW m \in 0 .. Len(t) - 1, m \in T PROVE m + 1 \in T
  <2>1. PICK n \in 1 .. Len(t) : n = m + 1 /\ n - 1 = m
    BY <1>0
  <2>2. Searching(t, size, G[n - 1], n - 1)
    BY <1>3, <2>1
  <2>3. Searching(t, size, Halve(size, t, G[n - 1]), n)
    BY <2>2, HalveSearches
  <2>4. n \in T
    BY <1>0, <1>1, <2>3
  <2>5. QED
    BY <2>1, <2>4
<1>4. Searching(t, size, G[Len(t)], Len(t))
  <2>1. \A m \in 0 .. Len(t) : m \in T
    <3> HIDE DEF T
    <3>1. QED
      BY <1>0, <1>2, <1>3, CountUp
  <2>2. QED
    BY <1>0, <2>1
<1>5. PICK s : s = G[Len(t)]
  OBVIOUS
<1>6. /\ s \in [start : Nat, count : Nat]
      /\ s.start + s.count <= Len(t) /\ s.count <= Len(t) - Len(t)
      /\ \A k \in 1 .. s.start : t[k].size <= size
      /\ \A k \in s.start + s.count + 1 .. Len(t) : t[k].size >= size
  BY <1>4, <1>5 DEF Searching
<1>7. s.count = 0 /\ s.start \in 0 .. Len(t) /\ s.start + s.count + 1 = s.start + 1
  BY <1>0, <1>6
<1>8. QED
  BY <1>1, <1>5, <1>6, <1>7 DEF Divides

\* What get_elem finds: an extent that is large enough, which is no longer in the table.
TakenFrom(g, t, size) ==
    /\ g.elem \in Extents /\ g.elem.size >= size
    /\ Table(g.table) /\ Len(g.table) = Len(t) - 1
    /\ Bytes(g.elem) \cap BytesOf(g.table) = {}
    /\ BytesOf(g.table) \subseteq BytesOf(t) /\ Bytes(g.elem) \subseteq BytesOf(t)

LEMMA GetElemIs ==
    ASSUME NEW size, NEW t
    PROVE  GetElem(size, t) = IF AvailLookup(size, t) >= Len(t)
                              THEN [elem |-> NoExtent, table |-> t]
                              ELSE [elem |-> t[AvailLookup(size, t) + 1],
                                    table |-> RemoveAt(t, AvailLookup(size, t) + 1)]
  BY SMT DEF GetElem, With

LEMMA GetElemTakes ==
    ASSUME NEW t, Table(t), NEW size \in Int, NEW g, g = GetElem(size, t)
    PROVE  (g.elem = NoExtent /\ g.table = t) \/ (g.elem # NoExtent /\ TakenFrom(g, t, size))
<1>0. /\ t \in Seq(Extents) /\ Ascending(t) /\ Len(t) \in Nat
      /\ \A k \in 1 .. Len(t) : t[k] \in Extents
  BY LenProperties, ElementOfSeq DEF Table
<1>1. PICK i : i = AvailLookup(size, t)
  OBVIOUS
<1>2. Divides(t, size, i)
  BY <1>0, <1>1, LookupDivides
<1>3. g = IF i >= Len(t) THEN [elem |-> NoExtent, table |-> t]
          ELSE [elem |-> t[i + 1], table |-> RemoveAt(t, i + 1)]
  BY <1>1, GetElemIs, Zenon
<1>4. CASE i >= Len(t)
  BY <1>3, <1>4
<1>5. CASE ~(i >= Len(t))
  <2>1. PICK n \in 1 .. Len(t) : n = i + 1
    BY <1>0, <1>2, <1>5 DEF Divides
  <2>2. PICK r : r = RemoveAt(t, n)
    OBVIOUS
  <2>3. g.elem = t[n] /\ g.table = r
    BY <1>3, <1>5, <2>1, <2>2
  <2>4. r \in Seq(Extents) /\ Removed(r, t, n)
    BY <1>0, <2>2, RemoveAtIs
  <2>5. t[n] \in Extents /\ t[n].size >= size
    BY <1>0, <1>2, <2>1 DEF Divides
  <2>6. \A k \in 1 .. Len(r) : \E a \in 1 .. Len(t) :
           a # n /\ r[k] = t[a] /\ a = IF k < n THEN k ELSE k + 1
    <3>1. ASSUME NEW k \in 1 .. Len(r) PROVE r[k] = t[IF k < n THEN k ELSE k + 1]
      BY <2>4 DEF Removed
    <3>2. Len(r) = Len(t) - 1
      BY <2>4 DEF Removed
    <3>3. ASSUME NEW k \in 1 .. Len(r), NEW a, a = IF k < n THEN k ELSE k + 1
          PROVE  a \in 1 .. Len(t) /\ a # n
      BY <1>0, <3>2, <3>3
    <3>4. QED
      BY <3>1, <3>3
  <2>7. ASSUME NEW j \in 1 .. Len(r), NEW k \in 1 .. Len(r)
        PROVE  /\ j <= k => r[j].size <= r[k].size
               /\ j # k => Bytes(r[j]) \cap Bytes(r[k]) = {}
    <3>1. PICK a \in 1 .. Len(t) : r[j] = t[a] /\ a = IF j < n THEN j ELSE j + 1
      BY <2>6
    <3>2. PICK b \in 1 .. Len(t) : r[k] = t[b] /\ b = IF k < n THEN k ELSE k + 1
      BY <2>6
    <3>3. (j <= k => a <= b) /\ (j # k => a # b)
      BY <3>1, <3>2
    <3>4. a <= b => t[a].size <= t[b].size
      BY <1>0 DEF Ascending
    <3>5. a # b => Bytes(t[a]) \cap Bytes(t[b]) = {}
      BY DEF Table, Apart
    <3>6. QED
      BY <3>1, <3>2, <3>3, <3>4, <3>5
  <2>8. Table(r)
    BY <2>4, <2>7 DEF Table, Ascending, Apart
  <2>9. Len(r) = Len(t) - 1
    BY <2>4 DEF Removed
  <2>10. /\ Bytes(t[n]) \cap BytesOf(r) = {}
         /\ BytesOf(r) \subseteq BytesOf(t) /\ Bytes(t[n]) \subseteq BytesOf(t)
    <3>1. ASSUME NEW k \in 1 .. Len(r)
          PROVE  Bytes(r[k]) \cap Bytes(t[n]) = {} /\ Bytes(r[k]) \subseteq BytesOf(t)
      <4>1. PICK a \in 1 .. Len(t) : r[k] = t[a] /\ a # n
        BY <2>6
      <4>2. Bytes(t[a]) \cap Bytes(t[n]) = {}
        BY <4>1 DEF Table, Apart
      <4>3. QED
        BY <4>1, <4>2 DEF BytesOf
    <3>2. QED
      BY <3>1 DEF BytesOf
  <2>11. t[n] # NoExtent
    BY <2>5, SizesAssumption DEF Extents, NoExtent, Extent
  <2>12. QED
    BY <2>3, <2>5, <2>8, <2>9, <2>10, <2>11 DEF TakenFrom
<1>6. QED
  BY <1>4, <1>5

-----------------------------------------------------------------------------
(* An extent is put into a table. *)

LEMMA Joined ==
    ASSUME NEW a \in Extents, NEW b \in Extents, a.adr + a.size = b.adr, NEW c,
           c = Extent(a.adr, a.size + b.size) \/ c = Extent(a.adr, b.size + a.size)
    PROVE  c \in Extents /\ Bytes(c) = Bytes(a) \cup Bytes(b)
<1>1. PICK x \in Nat, m \in Nat : x = a.adr /\ m = a.size /\ m > IgnoreSize
  BY DEF Extents
<1>2. PICK y \in Nat, n \in Nat : y = b.adr /\ n = b.size /\ n > IgnoreSize
  BY DEF Extents
<1>3. PICK k \in Nat : k = m + n /\ k > IgnoreSize /\ c = [adr |-> x, size |-> k]
  BY <1>1, <1>2, SizesAssumption DEF Extent
<1>4. c \in Extents
  BY <1>1, <1>3 DEF Extents
<1>5. Bytes(a) = x .. x + m - 1 /\ Bytes(b) = y .. y + n - 1 /\ Bytes(c) = x .. x + k - 1
  BY <1>1, <1>2, <1>3 DEF Bytes
<1>6. x .. x + k - 1 = (x .. x + m - 1) \cup (y .. y + n - 1)
  BY <1>1, <1>2, <1>3
<1>7. QED
  BY <1>4, <1>5, <1>6

\* The new extent and the entries kept, when the first i entries of t have been looked
\* at; U is all the space there is in the table and in the new extent.
Merging(new, kept, t, i, U) ==
    /\ new \in Extents /\ kept \in Seq(Extents) /\ Len(kept) <= i
    /\ Ascending(kept) /\ Apart(kept)
    /\ \A k \in 1 .. Len(kept), j \in i + 1 .. Len(t) :
         kept[k].size <= t[j].size /\ Bytes(kept[k]) \cap Bytes(t[j]) = {}
    /\ \A k \in 1 .. Len(kept) : Bytes(new) \cap Bytes(kept[k]) = {}
    /\ \A j \in i + 1 .. Len(t) : Bytes(new) \cap Bytes(t[j]) = {}
    /\ BytesOf(kept) \subseteq U /\ Bytes(new) \subseteq U

LEMMA CoalesceMerges ==
    ASSUME NEW t, Table(t), NEW i \in 1 .. Len(t), NEW U, BytesOf(t) \subseteq U,
           NEW acc, Merging(acc.new, acc.kept, t, i - 1, U), NEW r, r = Coalesce(acc, t[i])
    PROVE  Merging(r.new, r.kept, t, i, U)
<1>1. PICK n \in Extents : n = acc.new
  BY DEF Merging
<1>2. PICK q \in Seq(Extents) : q = acc.kept
  BY DEF Merging
<1>3. PICK e \in Extents : e = t[i]
  BY ElementOfSeq DEF Table
<1>4. Len(t) \in Nat /\ Len(q) \in Nat
  BY LenProperties DEF Table
<1>m. Merging(n, q, t, i - 1, U)
  BY <1>1, <1>2
<1>5. /\ Len(q) <= i - 1 /\ Ascending(q) /\ Apart(q)
      /\ \A k \in 1 .. Len(q), j \in i .. Len(t) :
           q[k].size <= t[j].size /\ Bytes(q[k]) \cap Bytes(t[j]) = {}
      /\ \A k \in 1 .. Len(q) : Bytes(n) \cap Bytes(q[k]) = {}
      /\ \A j \in i .. Len(t) : Bytes(n) \cap Bytes(t[j]) = {}
      /\ BytesOf(q) \subseteq U /\ Bytes(n) \subseteq U
  <2>1. PICK h : h = i - 1
    OBVIOUS
  <2>2. Merging(n, q, t, h, U)
    BY <1>m, <2>1
  <2>3. h + 1 = i
    BY <1>4, <2>1
  <2>4. QED
    BY <2>1, <2>2, <2>3 DEF Merging
<1>6. /\ \A j \in i + 1 .. Len(t) : Bytes(e) \cap Bytes(t[j]) = {} /\ e.size <= t[j].size
      /\ Bytes(e) \subseteq U
  <2>1. \A j \in i + 1 .. Len(t) : j \in 1 .. Len(t) /\ i <= j /\ i # j
    BY <1>4
  <2>2. Bytes(e) \subseteq U
    BY <1>3 DEF BytesOf
  <2>3. QED
    BY <1>3, <2>1, <2>2 DEF Table, Ascending, Apart
<1>7. /\ \A k \in 1 .. Len(q) : q[k].size <= e.size /\ Bytes(q[k]) \cap Bytes(e) = {}
      /\ Bytes(n) \cap Bytes(e) = {}
  <2>1. i \in i .. Len(t)
    BY <1>4
  <2>2. QED
    BY <1>3, <1>5, <2>1
<1>8. ASSUME NEW c \in Extents, Bytes(c) = Bytes(e) \cup Bytes(n)
      PROVE  Merging(c, q, t, i, U)
  <2>1. Len(q) <= i
    BY <1>4, <1>5
  <2>2. \A j \in i + 1 .. Len(t) : j \in i .. Len(t)
    BY <1>4
  <2>3. /\ \A k \in 1 .. Len(q) : Bytes(c) \cap Bytes(q[k]) = {}
        /\ Bytes(c) \subseteq U
    BY <1>5, <1>6, <1>7, <1>8
  <2>4. \A j \in i + 1 .. Len(t) : Bytes(c) \cap Bytes(t[j]) = {}
    BY <1>5, <1>6, <1>8, <2>2
  <2>5. \A k \in 1 .. Len(q), j \in i + 1 .. Len(t) :
           q[k].size <= t[j].size /\ Bytes(q[k]) \cap Bytes(t[j]) = {}
    BY <1>5, <2>2
  <2>6. QED
    BY <1>5, <2>1, <2>3, <2>4, <2>5 DEF Merging
<1>9. CASE e.adr + e.size = n.adr
  <2>1. r = [new |-> Extent(e.adr, e.size + n.size), kept |-> q]
    BY <1>1, <1>2, <1>3, <1>9 DEF Coalesce
  <2>2. PICK c : c = Extent(e.adr, e.size + n.size)
    OBVIOUS
  <2>3. c \in Extents /\ Bytes(c) = Bytes(e) \cup Bytes(n)
    BY <1>9, <2>2, Joined
  <2>4. QED
    BY <1>8, <2>1, <2>2, <2>3
<1>10. CASE e.adr + e.size # n.adr /\ n.adr + n.size = e.adr
  <2>1. r = [new |-> Extent(n.adr, e.size + n.size), kept |-> q]
    BY <1>1, <1>2, <1>3, <1>10 DEF Coalesce
  <2>2. PICK c : c = Extent(n.adr, e.size + n.size)
    OBVIOUS
  <2>3. c \in Extents /\ Bytes(c) = Bytes(n) \cup Bytes(e)
    BY <1>10, <2>2, Joined
  <2>4. Bytes(c) = Bytes(e) \cup Bytes(n)
    BY <2>3
  <2>5. QED
    BY <1>8, <2>1, <2>2, <2>3, <2>4
<1>11. CASE e.adr + e.size # n.adr /\ n.adr + n.size # e.adr
  <2>1. PICK p : p = Append(q, e)
    OBVIOUS
  <2>2. r = [new |-> n, kept |-> p]
    BY <1>1, <1>2, <1>3, <1>11, <2>1 DEF Coalesce
  <2>3. /\ p \in Seq(Extents) /\ Len(p) = Len(q) + 1 /\ p[Len(q) + 1] = e
        /\ \A k \in 1 .. Len(q) : p[k] = q[k]
    BY <2>1, AppendProperties
  <2>4. \A k \in 1 .. Len(p) : (k \in 1 .. Len(q) /\ p[k] = q[k]) \/ (k = Len(q) + 1 /\ p[k] = e)
    <3>1. \A k \in 1 .. Len(p) : k \in 1 .. Len(q) \/ k = Len(q) + 1
      BY <1>4, <2>3
    <3>2. QED
      BY <2>3, <3>1
  <2>5. \A k \in 1 .. Len(q) : q[k].size \in Nat
    <3>1. \A k \in 1 .. Len(q) : q[k] \in Extents
      BY ElementOfSeq
    <3>2. QED
      BY <3>1 DEF Extents
  <2>6. Ascending(p)
    <3>1. ASSUME NEW j \in 1 .. Len(p), NEW k \in 1 .. Len(p), j <= k
          PROVE  p[j].size <= p[k].size
      <4>1. CASE k \in 1 .. Len(q) /\ p[k] = q[k]
        <5>1. j \in 1 .. Len(q) /\ p[j] = q[j]
          BY <1>4, <2>4, <3>1, <4>1
        <5>2. QED
          BY <1>5, <3>1, <4>1, <5>1 DEF Ascending
      <4>2. CASE k = Len(q) + 1 /\ p[k] = e
        <5>1. e.size <= e.size
          BY DEF Extents
        <5>2. QED
          BY <1>7, <2>4, <4>2, <5>1
      <4>3. QED
        BY <2>4, <4>1, <4>2
    <3>2. QED
      BY <3>1 DEF Ascending
  <2>7. Apart(p)
    <3>1. ASSUME NEW j \in 1 .. Len(p), NEW k \in 1 .. Len(p), j # k
          PROVE  Bytes(p[j]) \cap Bytes(p[k]) = {}
      BY <1>5, <1>7, <2>4, <3>1 DEF Apart
    <3>2. QED
      BY <3>1 DEF Apart
  <2>8. \A j \in i + 1 .. Len(t) : j \in i .. Len(t)
    BY <1>4
  <2>9. \A k \in 1 .. Len(p), j \in i + 1 .. Len(t) :
          p[k].size <= t[j].size /\ Bytes(p[k]) \cap Bytes(t[j]) = {}
    BY <1>5, <1>6, <2>4, <2>8
  <2>10. \A k \in 1 .. Len(p) : Bytes(n) \cap Bytes(p[k]) = {}
    BY <1>5, <1>7, <2>4
  <2>11. BytesOf(p) \subseteq U
    <3>1. \A k \in 1 .. Len(q) : Bytes(q[k]) \subseteq U
      BY <1>5 DEF BytesOf
    <3>2. \A k \in 1 .. Len(p) : Bytes(p[k]) \subseteq U
      BY <1>6, <2>4, <3>1
    <3>3. QED
      BY <3>2 DEF BytesOf
  <2>12. Len(p) <= i
    BY <1>4, <1>5, <2>3
  <2>13. Merging(n, p, t, i, U)
    BY <1>5, <2>3, <2>6, <2>7, <2>8, <2>9, <2>10, <2>11, <2>12 DEF Merging
  <2>14. QED
    BY <2>2, <2>13
<1>12. QED
  BY <1>9, <1>10, <1>11

LEMMA CoalesceAllMerges ==
    ASSUME NEW t, Table(t), NEW e \in Extents, Bytes(e) \cap BytesOf(t) = {}, NEW m,
           m = CoalesceAll(e, t)
    PROVE  Merging(m.new, m.kept, t, Len(t), BytesOf(t) \cup Bytes(e))
<1> DEFINE U == BytesOf(t) \cup Bytes(e)
<1>0. Len(t) \in Nat
  BY LenProperties DEF Table
<1>1. PICK G : /\ G[0] = [new |-> e, kept |-> <<>>]
               /\ \A i \in 1 .. Len(t) : G[i] = Coalesce(G[i - 1], t[i])
               /\ CoalesceAll(e, t) = G[Len(t)]
  BY <1>0, CoalesceUnfolds
<1> DEFINE T == {i \in 0 .. Len(t) : Merging(G[i].new, G[i].kept, t, i, U)}
<1>2. 0 \in T
  <2>1. PICK q : q = <<>>
    OBVIOUS
  <2>2. q \in Seq(Extents) /\ Len(q) = 0
    BY <2>1
  <2>3. Ascending(q) /\ Apart(q) /\ BytesOf(q) \subseteq U
    BY <2>2 DEF Ascending, Apart, BytesOf
  <2>4. \A j \in 1 .. Len(t) : Bytes(e) \cap Bytes(t[j]) = {}
    BY DEF BytesOf
  <2>5. Merging(e, q, t, 0, U)
    BY <2>2, <2>3, <2>4 DEF Merging
  <2>6. G[0].new = e /\ G[0].kept = q
    BY <1>1, <2>1
  <2>7. QED
    BY <1>0, <2>5, <2>6
<1>3. ASSUME NEW i \in 0 .. Len(t) - 1, i \in T PROVE i + 1 \in T
  <2>1. PICK n \in 1 .. Len(t) : n = i + 1 /\ n - 1 = i
    BY <1>0
  <2>2. Merging(G[n - 1].new, G[n - 1].kept, t, n - 1, U)
    BY <1>3, <2>1
  <2>3. G[n] = Coalesce(G[n - 1], t[n])
    BY <1>1
  <2>4. Merging(G[n].new, G[n].kept, t, n, U)
    <3>1. BytesOf(t) \subseteq U
      OBVIOUS
    <3> HIDE DEF U, T
    <3>2. QED
      BY <2>2, <2>3, <3>1, CoalesceMerges
  <2>5. n \in T
    BY <1>0, <2>4
  <2>6. QED
    BY <2>1, <2>5
<1>4. Len(t) \in T
  <2>1. \A i \in 0 .. Len(t) : i \in T
    <3> HIDE DEF T
    <3>1. QED
      BY <1>0, <1>2, <1>3, CountUp
  <2>2. Len(t) \in 0 .. Len(t)
    BY <1>0
  <2> HIDE DEF T
  <2>3. QED
    BY <2>1, <2>2
<1>5. QED
  BY <1>1, <1>4

\* What _gdbm_put_av_elem leaves: a table with the new extent, or without it when it is
\* too small to deal with.
PutInto(r, t, e) ==
    /\ Table(r) /\ Len(r) <= Len(t) + 1
    /\ BytesOf(r) \subseteq BytesOf(t) \cup Bytes(e)

LEMMA InsertPuts ==
    ASSUME NEW q, NEW n, NEW t, NEW e, Len(t) \in Nat,
           Merging(n, q, t, Len(t), BytesOf(t) \cup Bytes(e)),
           NEW r, r = InsertAt(q, AvailLookup(n.size, q) + 1, n)
    PROVE  PutInto(r, t, e)
<1>1. /\ n \in Extents /\ q \in Seq(Extents) /\ Len(q) <= Len(t)
      /\ Ascending(q) /\ Apart(q)
      /\ \A k \in 1 .. Len(q) : Bytes(n) \cap Bytes(q[k]) = {}
      /\ BytesOf(q) \subseteq BytesOf(t) \cup Bytes(e) /\ Bytes(n) \subseteq BytesOf(t) \cup Bytes(e)
  BY DEF Merging
<1>2. Len(q) \in Nat /\ n.size \in Int
  BY <1>1, LenProperties DEF Extents
<1>3. Divides(q, n.size, AvailLookup(n.size, q))
  BY <1>1, <1>2, LookupDivides
<1>4. PICK i \in Nat : i = AvailLookup(n.size, q) + 1 /\ 1 <= i /\ i <= Len(q) + 1
  BY <1>2, <1>3 DEF Divides
<1>5. /\ \A k \in 1 .. i - 1 : q[k].size <= n.size
      /\ \A k \in i .. Len(q) : q[k].size >= n.size
  <2>1. PICK a \in Nat : a = AvailLookup(n.size, q) /\ i = a + 1
    BY <1>2, <1>3, <1>4 DEF Divides
  <2>2. Divides(q, n.size, a)
    BY <1>3, <2>1
  <2>3. (\A k \in 1 .. a : q[k].size <= n.size) /\ (\A k \in a + 1 .. Len(q) : q[k].size >= n.size)
    BY <2>2 DEF Divides
  <2>4. i - 1 = a
    BY <2>1
  <2>5. QED
    BY <2>1, <2>3, <2>4
<1>6. r \in Seq(Extents) /\ Inserted(r, q, i, n)
  BY <1>1, <1>4, InsertAtIs
<1>7. Len(r) = Len(q) + 1 /\ Len(r) \in Nat
  BY <1>2, <1>6 DEF Inserted
<1>8. \A k \in 1 .. Len(r) :
        \/ k = i /\ r[k] = n
        \/ k < i /\ k \in 1 .. Len(q) /\ r[k] = q[k]
        \/ k > i /\ k - 1 \in 1 .. Len(q) /\ r[k] = q[k - 1]
  <2>1. ASSUME NEW k \in 1 .. Len(r), k < i PROVE k \in 1 .. Len(q) /\ r[k] = q[k]
    <3>1. k \in 1 .. i - 1 /\ k \in 1 .. Len(q)
      BY <1>2, <1>4, <1>7, <2>1
    <3>2. QED
      BY <1>6, <3>1 DEF Inserted
  <2>2. ASSUME NEW k \in 1 .. Len(r), k > i PROVE k - 1 \in 1 .. Len(q) /\ r[k] = q[k - 1]
    <3>1. k \in i + 1 .. Len(r) /\ k - 1 \in 1 .. Len(q)
      BY <1>2, <1>4, <1>7, <2>2
    <3>2. QED
      BY <1>6, <3>1 DEF Inserted
  <2>3. r[i] = n
    BY <1>6 DEF Inserted
  <2>4. \A k \in 1 .. Len(r) : k = i \/ k < i \/ k > i
    BY <1>7
  <2>5. ASSUME NEW k \in 1 .. Len(r)
        PROVE  \/ k = i /\ r[k] = n
               \/ k < i /\ k \in 1 .. Len(q) /\ r[k] = q[k]
               \/ k > i /\ k - 1 \in 1 .. Len(q) /\ r[k] = q[k - 1]
    <3>1. CASE k = i
      BY <2>3, <3>1
    <3>2. CASE k < i
      BY <2>1, <3>2
    <3>3. CASE k > i
      BY <2>2, <3>3
    <3>4. QED
      BY <2>4, <3>1, <3>2, <3>3
  <2>6. QED
    BY <2>5
<1>9. \A k \in 1 .. Len(q) : q[k].size \in Nat
  <2>1. \A k \in 1 .. Len(q) : q[k] \in Extents
    BY <1>1, ElementOfSeq
  <2>2. QED
    BY <2>1 DEF Extents
<1>10. n.size \in Nat
  BY <1>1 DEF Extents
<1>11. Ascending(r)
  <2>1. ASSUME NEW j \in 1 .. Len(r), NEW k \in 1 .. Len(r), j <= k
        PROVE  r[j].size <= r[k].size
    <3>1. CASE k = i /\ r[k] = n
      <4>1. (j = i /\ r[j] = n) \/ (j \in 1 .. i - 1 /\ r[j] = q[j])
        BY <1>4, <1>8, <2>1, <3>1
      <4>2. QED
        BY <1>5, <1>10, <3>1, <4>1
    <3>2. CASE k < i /\ k \in 1 .. Len(q) /\ r[k] = q[k]
      <4>1. j \in 1 .. Len(q) /\ r[j] = q[j]
        BY <1>4, <1>8, <2>1, <3>2
      <4>2. QED
        BY <1>1, <2>1, <3>2, <4>1 DEF Ascending
    <3>3. CASE k > i /\ k - 1 \in 1 .. Len(q) /\ r[k] = q[k - 1]
      <4>1. k - 1 \in i .. Len(q)
        BY <1>2, <1>4, <3>3
      <4>2. CASE j = i /\ r[j] = n
        BY <1>5, <1>9, <1>10, <3>3, <4>1, <4>2
      <4>3. CASE j < i /\ j \in 1 .. Len(q) /\ r[j] = q[j]
        <5>1. j <= k - 1
          BY <1>4, <3>3, <4>3
        <5>2. QED
          BY <1>1, <3>3, <4>3, <5>1 DEF Ascending
      <4>4. CASE j > i /\ j - 1 \in 1 .. Len(q) /\ r[j] = q[j - 1]
        <5>1. j - 1 <= k - 1
          BY <2>1
        <5>2. QED
          BY <1>1, <3>3, <4>4, <5>1 DEF Ascending
      <4>5. QED
        BY <1>8, <4>2, <4>3, <4>4
    <3>4. QED
      BY <1>8, <3>1, <3>2, <3>3
  <2>2. QED
    BY <2>1 DEF Ascending
<1>12. Apart(r)
  <2>1. ASSUME NEW j \in 1 .. Len(r), NEW k \in 1 .. Len(r), j < k
        PROVE  Bytes(r[j]) \cap Bytes(r[k]) = {}
    <3>1. CASE j = i /\ r[j] = n
      <4>1. k - 1 \in 1 .. Len(q) /\ r[k] = q[k - 1]
        BY <1>4, <1>8, <2>1, <3>1
      <4>2. QED
        BY <1>1, <3>1, <4>1
    <3>2. CASE j < i /\ j \in 1 .. Len(q) /\ r[j] = q[j]
      <4>1. CASE k = i /\ r[k] = n
        BY <1>1, <3>2, <4>1
      <4>2. CASE k < i /\ k \in 1 .. Len(q) /\ r[k] = q[k]
        <5>1. j # k
          BY <2>1
        <5>2. QED
          BY <1>1, <3>2, <4>2, <5>1 DEF Apart
      <4>3. CASE k > i /\ k - 1 \in 1 .. Len(q) /\ r[k] = q[k - 1]
        <5>1. j # k - 1
          BY <1>4, <3>2, <4>3
        <5>2. QED
          BY <1>1, <3>2, <4>3, <5>1 DEF Apart
      <4>4. QED
        BY <1>8, <4>1, <4>2, <4>3
    <3>3. CASE j > i /\ j - 1 \in 1 .. Len(q) /\ r[j] = q[j - 1]
      <4>0. k > i
        BY <1>4, <1>7, <2>1, <3>3
      <4>1. k - 1 \in 1 .. Len(q) /\ r[k] = q[k - 1]
        BY <1>4, <1>8, <4>0
      <4>2. j - 1 # k - 1
        BY <2>1
      <4>3. QED
        BY <1>1, <3>3, <4>1, <4>2 DEF Apart
    <3>4. QED
      BY <1>8, <3>1, <3>2, <3>3
  <2>2. ASSUME NEW j \in 1 .. Len(r), NEW k \in 1 .. Len(r), j # k
        PROVE  Bytes(r[j]) \cap Bytes(r[k]) = {}
    <3>1. j < k \/ k < j
      BY <2>2
    <3>2. QED
      BY <2>1, <3>1
  <2>3. QED
    BY <2>2 DEF Apart
<1>13. BytesOf(r) \subseteq BytesOf(t) \cup Bytes(e)
  <2>1. \A k \in 1 .. Len(q) : Bytes(q[k]) \subseteq BytesOf(t) \cup Bytes(e)
    BY <1>1 DEF BytesOf
  <2>2. \A k \in 1 .. Len(r) : Bytes(r[k]) \subseteq BytesOf(t) \cup Bytes(e)
    BY <1>1, <1>8, <2>1
  <2>3. BytesOf(r) = UNION {Bytes(r[k]) : k \in 1 .. Len(r)}
    BY DEF BytesOf
  <2>4. QED
    BY <2>2, <2>3
<1>14. Len(r) <= Len(t) + 1
  BY <1>1, <1>2, <1>7
<1>15. QED
  BY <1>6, <1>11, <1>12, <1>13, <1>14 DEF PutInto, Table

LEMMA PutAvElemIs ==
    ASSUME NEW e, NEW t, NEW can_merge, NEW m,
           m = IF can_merge THEN CoalesceAll(e, t) ELSE [new |-> e, kept |-> t]
    PROVE  PutAvElem(e, t, can_merge) =
             IF e.size <= IgnoreSize THEN t
             ELSE InsertAt(m.kept, AvailLookup(m.new.size, m.kept) + 1, m.new)
<1> DEFINE F(x) == InsertAt(x.kept, AvailLookup(x.new.size, x.kept) + 1, x.new)
           v == IF can_merge THEN CoalesceAll(e, t) ELSE [new |-> e, kept |-> t]
<1>1. PutAvElem(e, t, can_merge) =
        IF e.size <= IgnoreSize THEN t ELSE CHOOSE r \in {F(x) : x \in {v}} : TRUE
  BY Zenon DEF PutAvElem, With
<1>2. F(m) = CHOOSE r \in {F(x) : x \in {v}} : TRUE
  <2>1. m = v
    OBVIOUS
  <2> HIDE DEF F, v
  <2>2. QED
    BY <2>1, Zenon
<1>3. QED
  BY <1>1, <1>2, Zenon

LEMMA PutAvElemPuts ==
    ASSUME NEW t, Table(t), NEW e \in [adr : Nat, size : Nat], Bytes(e) \cap BytesOf(t) = {},
           NEW can_merge
    PROVE  PutInto(PutAvElem(e, t, can_merge), t, e)
<1>0. t \in Seq(Extents) /\ Len(t) \in Nat
  BY LenProperties DEF Table
<1>1. PICK m : m = IF can_merge THEN CoalesceAll(e, t) ELSE [new |-> e, kept |-> t]
  OBVIOUS
<1>2. PutAvElem(e, t, can_merge) =
        IF e.size <= IgnoreSize THEN t
        ELSE InsertAt(m.kept, AvailLookup(m.new.size, m.kept) + 1, m.new)
  BY <1>1, PutAvElemIs
<1>3. CASE e.size <= IgnoreSize
  BY <1>0, <1>2, <1>3 DEF PutInto
<1>4. CASE ~(e.size <= IgnoreSize)
  <2>1. e \in Extents
    BY <1>4, SizesAssumption DEF Extents
  <2>2. Merging(m.new, m.kept, t, Len(t), BytesOf(t) \cup Bytes(e))
    <3>1. CASE can_merge
      <4>1. m = CoalesceAll(e, t)
        BY <1>1, <3>1
      <4>2. QED
        BY <2>1, <4>1, CoalesceAllMerges
    <3>2. CASE ~can_merge
      <4>1. m.new = e /\ m.kept = t
        BY <1>1, <3>2
      <4>2. \A k \in 1 .. Len(t) : Bytes(e) \cap Bytes(t[k]) = {}
        BY DEF BytesOf
      <4>3. \A j \in Len(t) + 1 .. Len(t) : FALSE
        BY <1>0
      <4>4. Merging(e, t, t, Len(t), BytesOf(t) \cup Bytes(e))
        BY <1>0, <2>1, <4>2, <4>3 DEF Merging, Table
      <4>5. QED
        BY <4>1, <4>4
    <3>3. QED
      BY <3>1, <3>2
  <2>3. PICK r : r = InsertAt(m.kept, AvailLookup(m.new.size, m.kept) + 1, m.new)
    OBVIOUS
  <2>4. PutInto(r, t, e)
    BY <1>0, <2>2, <2>3, InsertPuts
  <2>5. QED
    BY <1>2, <1>4, <2>3, <2>4
<1>5. QED
  BY <1>3, <1>4

-----------------------------------------------------------------------------
(* What the descriptor owns. *)

RawExtents == [adr : Nat, size : Nat]
Blocks == [adr : Nat, table : Seq(Extents), bytes : Nat]

Descriptors ==
    [avail : Seq(Extents), size : {StdSize, ExtSize}, stack : Seq(Blocks),
     orphans : SUBSET Blocks, next_block : Nat, header_changed : BOOLEAN,
     table : Seq(Extents), coalesce_blocks : BOOLEAN, central_free : BOOLEAN]

BlockBytes(k) == Bytes(BlockOf(k)) \cup BytesOf(k.table)
StackBytes(s) == UNION {BlockBytes(s[i]) : i \in 1 .. Len(s)}

\* What push_avail_block writes when the header table has n entries, and what it can
\* still read when the table has got shorter since.
BlockLen(n) == (n * ElemBytes) \div 2 + AvailHead

\* A block of the stack that a descriptor with n entries can read.
Readable(k, n) ==
    /\ Table(k.table) /\ Len(k.table) <= ExtSize \div 2 + 1
    /\ k.bytes >= BlockLen(n)
    /\ Bytes(BlockOf(k)) \cap BytesOf(k.table) = {}

Stack(s, n) ==
    /\ s \in Seq(Blocks)
    /\ \A i \in 1 .. Len(s) : Readable(s[i], n)
    /\ \A i, j \in 1 .. Len(s) : i # j => BlockBytes(s[i]) \cap BlockBytes(s[j]) = {}

Shape(d, n) ==
    /\ d \in Descriptors /\ d.size = n
    /\ Table(d.avail) /\ Len(d.avail) <= n
    /\ Table(d.table) /\ Len(d.table) <= BucketAvail
    /\ Stack(d.stack, n)
    /\ \A k \in d.orphans : Ascending(k.table)

\* The bytes of the header table, of the bucket's table, of the stack and of everybody
\* else, in a file of n bytes.
Exclusive(a, t, s, f, n) ==
    /\ a \cap t = {} /\ a \cap s = {} /\ a \cap f = {}
    /\ t \cap s = {} /\ t \cap f = {} /\ s \cap f = {}
    /\ a \subseteq 0 .. n - 1 /\ t \subseteq 0 .. n - 1
    /\ s \subseteq 0 .. n - 1 /\ f \subseteq 0 .. n - 1

\* The descriptor is in order, its header table has n entries, and the bytes F belong
\* to others.
Good(d, n, F) ==
    /\ Shape(d, n)
    /\ Exclusive(BytesOf(d.avail), BytesOf(d.table), StackBytes(d.stack), F, d.next_block)

\* The same, and extent e belongs neither to it nor to the others.
Spare(d, n, F, e) ==
    /\ e \in RawExtents /\ Bytes(e) \cap F = {}
    /\ Good(d, n, F \cup Bytes(e))

\* The header table can take one more entry.
Room(d, n) == Len(d.avail) < n

\* The header table of r has at most k entries more than that of d.
Grows(r, d, k) == Len(r.avail) <= Len(d.avail) + k

LEMMA GoodLess ==
    ASSUME NEW d, NEW n, NEW G, Good(d, n, G), NEW F, F \subseteq G
    PROVE  Good(d, n, F)
  BY DEF Good, Exclusive

\* Another header table, made of the space of the old one and of the others'.
LEMMA GoodWithAvail ==
    ASSUME NEW d, NEW n, NEW G, Good(d, n, G), NEW a, Table(a), Len(a) <= n,
           BytesOf(a) \subseteq BytesOf(d.avail) \cup G,
           NEW F, F \subseteq BytesOf(d.avail) \cup G, BytesOf(a) \cap F = {},
           NEW r, r = [d EXCEPT !.avail = a]
    PROVE  Good(r, n, F)
<1>1. /\ r.avail = a /\ r.table = d.table /\ r.stack = d.stack /\ r.next_block = d.next_block
      /\ r.size = d.size /\ r.orphans = d.orphans
  BY DEF Good, Shape, Descriptors
<1>2. r \in Descriptors
  BY DEF Good, Shape, Descriptors, Table
<1>3. Shape(r, n)
  BY <1>1, <1>2 DEF Good, Shape
<1>4. Exclusive(BytesOf(a), BytesOf(d.table), StackBytes(d.stack), F, d.next_block)
  BY DEF Good, Exclusive
<1>5. QED
  BY <1>1, <1>3, <1>4 DEF Good

LEMMA GoodWithTable ==
    ASSUME NEW d, NEW n, NEW G, Good(d, n, G), NEW t, Table(t), Len(t) <= BucketAvail,
           BytesOf(t) \subseteq BytesOf(d.table) \cup G,
           NEW F, F \subseteq BytesOf(d.table) \cup G, BytesOf(t) \cap F = {},
           NEW r, r = [d EXCEPT !.table = t]
    PROVE  Good(r, n, F)
<1>1. /\ r.avail = d.avail /\ r.table = t /\ r.stack = d.stack /\ r.next_block = d.next_block
      /\ r.size = d.size /\ r.orphans = d.orphans
  BY DEF Good, Shape, Descriptors
<1>2. r \in Descriptors
  BY DEF Good, Shape, Descriptors, Table
<1>3. Shape(r, n)
  BY <1>1, <1>2 DEF Good, Shape
<1>4. Exclusive(BytesOf(d.avail), BytesOf(t), StackBytes(d.stack), F, d.next_block)
  BY DEF Good, Exclusive
<1>5. QED
  BY <1>1, <1>3, <1>4 DEF Good

LEMMA GoodWithStack ==
    ASSUME NEW d, NEW n, NEW G, Good(d, n, G), NEW s, Stack(s, n),
           StackBytes(s) \subseteq StackBytes(d.stack) \cup G,
           NEW F, F \subseteq StackBytes(d.stack) \cup G, StackBytes(s) \cap F = {},
           NEW r, r = [d EXCEPT !.stack = s]
    PROVE  Good(r, n, F)
<1>1. /\ r.avail = d.avail /\ r.table = d.table /\ r.stack = s /\ r.next_block = d.next_block
      /\ r.size = d.size /\ r.orphans = d.orphans
  BY DEF Good, Shape, Descriptors
<1>2. r \in Descriptors
  BY DEF Good, Shape, Descriptors, Stack
<1>3. Shape(r, n)
  BY <1>1, <1>2 DEF Good, Shape
<1>4. Exclusive(BytesOf(d.avail), BytesOf(d.table), StackBytes(s), F, d.next_block)
  BY DEF Good, Exclusive
<1>5. QED
  BY <1>1, <1>3, <1>4 DEF Good

LEMMA GoodWithFlag ==
    ASSUME NEW d, NEW n, NEW F, Good(d, n, F), NEW b \in BOOLEAN,
           NEW r, r = [d EXCEPT !.header_changed = b]
    PROVE  Good(r, n, F)
<1>1. /\ r.avail = d.avail /\ r.table = d.table /\ r.stack = d.stack
      /\ r.next_block = d.next_block /\ r.size = d.size /\ r.orphans = d.orphans
  BY DEF Good, Shape, Descriptors
<1>2. r \in Descriptors
  BY DEF Good, Shape, Descriptors
<1>3. Shape(r, n)
  BY <1>1, <1>2 DEF Good, Shape
<1>4. QED
  BY <1>1, <1>3 DEF Good

LEMMA SpareWithFlag ==
    ASSUME NEW d, NEW n, NEW F, NEW e, Spare(d, n, F, e), NEW b \in BOOLEAN,
           NEW r, r = [d EXCEPT !.header_changed = b]
    PROVE  Spare(r, n, F, e)
  BY GoodWithFlag DEF Spare

LEMMA PutHeaderGood ==
    ASSUME NEW d, NEW n, NEW F, NEW e, Spare(d, n, F, e), Room(d, n), NEW can_merge
    PROVE  Good(PutHeader(d, e, can_merge), n, F) /\ Grows(PutHeader(d, e, can_merge), d, 1)
<1>1. /\ e \in RawExtents /\ Bytes(e) \cap F = {} /\ Good(d, n, F \cup Bytes(e))
      /\ Table(d.avail) /\ Len(d.avail) \in Nat /\ n \in Nat
  <2>1. Table(d.avail) /\ d.size = n /\ d.size \in {StdSize, ExtSize}
    BY DEF Spare, Good, Shape, Descriptors
  <2>2. QED
    BY <2>1, LenProperties, TableRoomAssumption DEF Spare, Table
<1>2. Bytes(e) \cap BytesOf(d.avail) = {} /\ BytesOf(d.avail) \cap F = {}
  BY DEF Spare, Good, Exclusive
<1>3. PICK a : a = PutAvElem(e, d.avail, can_merge)
  OBVIOUS
<1>4. PutInto(a, d.avail, e)
  BY <1>1, <1>2, <1>3, PutAvElemPuts DEF RawExtents
<1>5. Table(a) /\ BytesOf(a) \subseteq BytesOf(d.avail) \cup Bytes(e)
  BY <1>4 DEF PutInto
<1>6. Len(a) <= n
  <2>1. Len(a) <= Len(d.avail) + 1 /\ Len(a) \in Nat
    BY <1>4, <1>5, LenProperties DEF PutInto, Table
  <2>2. QED
    BY <1>1, <2>1 DEF Room
<1>7. PICK r : r = [d EXCEPT !.avail = a]
  OBVIOUS
<1>8. r = PutHeader(d, e, can_merge)
  BY <1>3, <1>7 DEF PutHeader
<1>9. BytesOf(a) \cap F = {} /\ F \subseteq BytesOf(d.avail) \cup (F \cup Bytes(e))
      /\ BytesOf(a) \subseteq BytesOf(d.avail) \cup (F \cup Bytes(e))
  BY <1>1, <1>2, <1>5
<1>10. Good(r, n, F)
  BY <1>1, <1>5, <1>6, <1>7, <1>9, GoodWithAvail
<1>11. Grows(r, d, 1)
  <2>1. r.avail = a
    BY <1>1, <1>7 DEF Good, Shape, Descriptors
  <2>2. QED
    BY <1>4, <2>1 DEF PutInto, Grows
<1>12. QED
  BY <1>8, <1>10, <1>11

LEMMA PutBucketGood ==
    ASSUME NEW d, NEW n, NEW F, NEW e, Spare(d, n, F, e), Len(d.table) < BucketAvail
    PROVE  Good(PutBucket(d, e), n, F)
<1>1. /\ e \in RawExtents /\ Bytes(e) \cap F = {} /\ Good(d, n, F \cup Bytes(e))
      /\ Table(d.table) /\ Len(d.table) \in Nat
  <2>1. Table(d.table)
    BY DEF Spare, Good, Shape
  <2>2. QED
    BY <2>1, LenProperties DEF Spare, Table
<1>2. Bytes(e) \cap BytesOf(d.table) = {} /\ BytesOf(d.table) \cap F = {}
  BY DEF Spare, Good, Exclusive
<1>3. PICK a : a = PutAvElem(e, d.table, d.coalesce_blocks)
  OBVIOUS
<1>4. PutInto(a, d.table, e)
  BY <1>1, <1>2, <1>3, PutAvElemPuts DEF RawExtents
<1>5. Table(a) /\ BytesOf(a) \subseteq BytesOf(d.table) \cup Bytes(e)
  BY <1>4 DEF PutInto
<1>6. Len(a) <= BucketAvail
  <2>1. Len(a) <= Len(d.table) + 1 /\ Len(a) \in Nat
    BY <1>4, <1>5, LenProperties DEF PutInto, Table
  <2>2. QED
    BY <1>1, <2>1, SizesAssumption
<1>7. PICK r : r = [d EXCEPT !.table = a]
  OBVIOUS
<1>8. r = PutBucket(d, e)
  BY <1>3, <1>7 DEF PutBucket
<1>9. BytesOf(a) \cap F = {} /\ F \subseteq BytesOf(d.table) \cup (F \cup Bytes(e))
      /\ BytesOf(a) \subseteq BytesOf(d.table) \cup (F \cup Bytes(e))
  BY <1>1, <1>2, <1>5
<1>10. Good(r, n, F)
  BY <1>1, <1>5, <1>6, <1>7, <1>9, GoodWithTable
<1>11. QED
  BY <1>8, <1>10

\* Whole blocks are enough.
LEMMA WholeBlocks ==
    ASSUME NEW size \in Nat, NEW b \in Nat \ {0}, size > b
    PROVE  b * ((size + b - 1) \div b) >= size /\ b * ((size + b - 1) \div b) \in Nat
  OBVIOUS

LEMMA GetBlockIs ==
    ASSUME NEW d, NEW size, NEW n,
           n = IF size <= BlockSize THEN BlockSize
               ELSE BlockSize * ((size + BlockSize - 1) \div BlockSize)
    PROVE  GetBlock(d, size) =
             [d |-> [d EXCEPT !.next_block = @ + n, !.header_changed = TRUE],
              elem |-> Extent(d.next_block, n)]
<1> DEFINE F(x) == [d |-> [d EXCEPT !.next_block = @ + x, !.header_changed = TRUE],
                    elem |-> Extent(d.next_block, x)]
           v == IF size <= BlockSize THEN BlockSize
                ELSE BlockSize * ((size + BlockSize - 1) \div BlockSize)
<1>1. GetBlock(d, size) = CHOOSE r \in {F(x) : x \in {v}} : TRUE
  BY Zenon DEF GetBlock, With
<1>2. F(n) = CHOOSE r \in {F(x) : x \in {v}} : TRUE
  <2>1. n = v
    OBVIOUS
  <2> HIDE DEF F, v
  <2>2. QED
    BY <2>1, Zenon
<1>3. QED
  BY <1>1, <1>2, Zenon

\* An extent of at least size bytes has been taken out of the descriptor d.
Given(r, d, n, F, size) ==
    /\ Spare(r.d, n, F, r.elem) /\ r.elem.size >= size
    /\ Len(r.d.avail) <= Len(d.avail)

LEMMA GetBlockGood ==
    ASSUME NEW d, NEW n, NEW F, Good(d, n, F), NEW size \in Nat, NEW r, r = GetBlock(d, size)
    PROVE  Given(r, d, n, F, size)
<1>1. BlockSize \in Nat \ {0}
  BY SizesAssumption
<1>2. PICK m : m = IF size <= BlockSize THEN BlockSize
                   ELSE BlockSize * ((size + BlockSize - 1) \div BlockSize)
  OBVIOUS
<1>3. m \in Nat /\ m >= size
  <2>1. CASE size <= BlockSize
    BY <1>1, <1>2, <2>1
  <2>2. CASE size > BlockSize
    <3>1. m = BlockSize * ((size + BlockSize - 1) \div BlockSize)
      BY <1>1, <1>2, <2>2
    <3>2. QED
      BY <1>1, <2>2, <3>1, WholeBlocks
  <2>3. QED
    BY <1>1, <2>1, <2>2
<1>4. r = [d |-> [d EXCEPT !.next_block = @ + m, !.header_changed = TRUE],
           elem |-> Extent(d.next_block, m)]
  BY <1>2, GetBlockIs, Zenon
<1>5. PICK e : e = r.elem
  OBVIOUS
<1>6. PICK b \in Nat : b = d.next_block
  BY DEF Good, Shape, Descriptors
<1>7. e = [adr |-> b, size |-> m] /\ e \in RawExtents
  BY <1>3, <1>4, <1>5, <1>6 DEF Extent, RawExtents
<1>8. PICK x : x = r.d
  OBVIOUS
<1>9. x = [d EXCEPT !.next_block = b + m, !.header_changed = TRUE]
  BY <1>4, <1>6, <1>8
<1>10. /\ x.avail = d.avail /\ x.table = d.table /\ x.stack = d.stack
       /\ x.next_block = b + m /\ x.size = d.size /\ x.orphans = d.orphans
  BY <1>9 DEF Good, Shape, Descriptors
<1>11. x \in Descriptors
  <2>1. PICK c \in Nat : c = b + m
    BY <1>3
  <2>2. x = [d EXCEPT !.next_block = c, !.header_changed = TRUE]
    BY <1>9, <2>1
  <2>3. QED
    BY <2>2 DEF Good, Shape, Descriptors
<1>12. Shape(x, n)
  BY <1>10, <1>11 DEF Good, Shape
<1>13. Bytes(e) = b .. b + m - 1
  BY <1>7 DEF Bytes
<1>14. /\ Exclusive(BytesOf(d.avail), BytesOf(d.table), StackBytes(d.stack), F \cup Bytes(e), b + m)
       /\ Bytes(e) \cap F = {}
  <2>1. Exclusive(BytesOf(d.avail), BytesOf(d.table), StackBytes(d.stack), F, b)
    BY <1>6 DEF Good
  <2>2. 0 .. b - 1 \subseteq 0 .. (b + m) - 1 /\ Bytes(e) \subseteq 0 .. (b + m) - 1
        /\ Bytes(e) \cap (0 .. b - 1) = {}
    BY <1>3, <1>13
  <2>3. QED
    BY <2>1, <2>2 DEF Exclusive
<1>15. Good(x, n, F \cup Bytes(e))
  BY <1>10, <1>12, <1>14 DEF Good
<1>16. Len(x.avail) <= Len(d.avail)
  <2>1. Len(d.avail) \in Nat
    BY LenProperties DEF Good, Shape, Table
  <2>2. QED
    BY <1>10, <2>1
<1>17. QED
  BY <1>3, <1>5, <1>7, <1>8, <1>14, <1>15, <1>16 DEF Given, Spare

LEMMA FromHeaderIs ==
    ASSUME NEW d, NEW size, NEW g, g = GetElem(size, d.avail)
    PROVE  FromHeader(d, size) =
             IF g.elem = NoExtent THEN GetBlock(d, size)
             ELSE [d |-> [d EXCEPT !.avail = g.table], elem |-> g.elem]
  BY SMT DEF FromHeader, With

LEMMA FromHeaderGood ==
    ASSUME NEW d, NEW n, NEW F, Good(d, n, F), NEW size \in Nat,
           NEW r, r = FromHeader(d, size)
    PROVE  Given(r, d, n, F, size)
<1>1. Table(d.avail) /\ Len(d.avail) \in Nat /\ Len(d.avail) <= n /\ n \in Nat
  <2>1. Table(d.avail) /\ Len(d.avail) <= n /\ n \in {StdSize, ExtSize}
    BY DEF Good, Shape, Descriptors
  <2>2. QED
    BY <2>1, LenProperties, TableRoomAssumption DEF Table
<1>2. PICK g : g = GetElem(size, d.avail)
  OBVIOUS
<1>3. r = IF g.elem = NoExtent THEN GetBlock(d, size)
          ELSE [d |-> [d EXCEPT !.avail = g.table], elem |-> g.elem]
  BY <1>2, FromHeaderIs
<1>4. CASE g.elem = NoExtent
  <2>1. r = GetBlock(d, size)
    BY <1>3, <1>4
  <2>2. QED
    BY <2>1, GetBlockGood
<1>5. CASE g.elem # NoExtent
  <2>1. TakenFrom(g, d.avail, size)
    BY <1>1, <1>2, <1>5, GetElemTakes
  <2>2. PICK e : e = g.elem
    OBVIOUS
  <2>3. PICK a : a = g.table
    OBVIOUS
  <2>4. /\ e \in Extents /\ e.size >= size /\ Table(a)
        /\ Bytes(e) \cap BytesOf(a) = {}
        /\ BytesOf(a) \subseteq BytesOf(d.avail) /\ Bytes(e) \subseteq BytesOf(d.avail)
    BY <2>1, <2>2, <2>3 DEF TakenFrom
  <2>5. Len(a) <= Len(d.avail) /\ Len(a) <= n
    <3>1. Len(a) = Len(d.avail) - 1
      BY <2>1, <2>3 DEF TakenFrom
    <3>2. QED
      BY <1>1, <3>1
  <2>6. PICK x : x = [d EXCEPT !.avail = a]
    OBVIOUS
  <2>7. r.d = x /\ r.elem = e
    BY <1>3, <1>5, <2>2, <2>3, <2>6
  <2>8. BytesOf(d.avail) \cap F = {}
    BY DEF Good, Exclusive
  <2>9. Good(x, n, F \cup Bytes(e))
    <3>1. /\ BytesOf(a) \subseteq BytesOf(d.avail) \cup F
          /\ F \cup Bytes(e) \subseteq BytesOf(d.avail) \cup F
          /\ BytesOf(a) \cap (F \cup Bytes(e)) = {}
      BY <2>4, <2>8
    <3>2. QED
      BY <2>4, <2>5, <2>6, <3>1, GoodWithAvail
  <2>10. e \in RawExtents /\ Bytes(e) \cap F = {}
    BY <2>4, <2>8 DEF Extents, RawExtents
  <2>11. x.avail = a
    BY <2>6 DEF Good, Shape, Descriptors
  <2>12. QED
    BY <2>4, <2>5, <2>7, <2>9, <2>10, <2>11 DEF Given, Spare
<1>6. QED
  BY <1>4, <1>5

LEMMA SpillOneIs ==
    ASSUME NEW d, NEW g, g = GetElem(0, d.table)
    PROVE  SpillOne(d) =
             IF Len(d.table) > BucketAvail - Third /\ Len(d.avail) < d.size
             THEN PutHeader([d EXCEPT !.table = g.table], g.elem, d.coalesce_blocks)
             ELSE d
  BY SMT DEF SpillOne, With

LEMMA AvailLength ==
    ASSUME NEW d, NEW n, NEW F, Good(d, n, F)
    PROVE  n \in Nat /\ Len(d.avail) \in 0 .. n /\ Len(d.table) \in 0 .. BucketAvail
<1>1. /\ Table(d.avail) /\ Len(d.avail) <= n /\ n \in {StdSize, ExtSize}
      /\ Table(d.table) /\ Len(d.table) <= BucketAvail
  BY DEF Good, Shape, Descriptors
<1>2. QED
  BY <1>1, LenProperties, TableRoomAssumption, SizesAssumption DEF Table

LEMMA SpillOneGood ==
    ASSUME NEW d, NEW n, NEW F, Good(d, n, F)
    PROVE  Good(SpillOne(d), n, F) /\ Grows(SpillOne(d), d, 1)
<1>1. PICK g : g = GetElem(0, d.table)
  OBVIOUS
<1>2. SpillOne(d) = IF Len(d.table) > BucketAvail - Third /\ Len(d.avail) < d.size
                    THEN PutHeader([d EXCEPT !.table = g.table], g.elem, d.coalesce_blocks)
                    ELSE d
  BY <1>1, SpillOneIs
<1>3. n \in Nat /\ Len(d.avail) \in Nat /\ Len(d.table) \in 0 .. BucketAvail
  BY AvailLength
<1>4. CASE ~(Len(d.table) > BucketAvail - Third /\ Len(d.avail) < d.size)
  <2>1. SpillOne(d) = d
    BY <1>2, <1>4
  <2>2. Grows(d, d, 1)
    BY <1>3 DEF Grows
  <2>3. QED
    BY <2>1, <2>2
<1>5. CASE Len(d.table) > BucketAvail - Third /\ Len(d.avail) < d.size
  <2>1. PICK x : x = [d EXCEPT !.table = g.table]
    OBVIOUS
  <2>2. PICK e : e = g.elem
    OBVIOUS
  <2>3. SpillOne(d) = PutHeader(x, e, d.coalesce_blocks)
    BY <1>2, <1>5, <2>1, <2>2
  <2>4. x.avail = d.avail
    BY <2>1 DEF Good, Shape, Descriptors
  <2>5. Room(x, n)
    BY <1>5, <2>4 DEF Good, Shape, Room
  <2>6. Table(d.table) /\ BytesOf(d.table) \cap F = {}
    BY DEF Good, Shape, Exclusive
  <2>7. /\ e \in RawExtents /\ Table(g.table) /\ Len(g.table) <= Len(d.table)
        /\ Bytes(e) \cap BytesOf(g.table) = {}
        /\ BytesOf(g.table) \subseteq BytesOf(d.table) /\ Bytes(e) \subseteq BytesOf(d.table)
    <3>1. (g.elem = NoExtent /\ g.table = d.table)
          \/ (g.elem # NoExtent /\ TakenFrom(g, d.table, 0))
      BY <1>1, <2>6, GetElemTakes
    <3>2. CASE g.elem = NoExtent /\ g.table = d.table
      <4>1. e = [adr |-> 0, size |-> 0]
        BY <2>2, <3>2 DEF NoExtent, Extent
      <4>2. e \in RawExtents /\ Bytes(e) = {}
        BY <4>1 DEF RawExtents, Bytes
      <4>3. QED
        BY <1>3, <2>6, <3>2, <4>2
    <3>3. CASE TakenFrom(g, d.table, 0)
      <4>1. Len(g.table) = Len(d.table) - 1 /\ Len(g.table) <= Len(d.table)
        BY <1>3, <3>3 DEF TakenFrom
      <4>2. e \in RawExtents
        BY <2>2, <3>3 DEF TakenFrom, Extents, RawExtents
      <4>3. QED
        BY <2>2, <3>3, <4>1, <4>2 DEF TakenFrom
    <3>4. QED
      BY <3>1, <3>2, <3>3
  <2>8. Spare(x, n, F, e)
    <3>1. PICK t : t = g.table
      OBVIOUS
    <3>2. Len(t) <= BucketAvail
      <4>1. Len(t) \in Nat
        BY <2>7, <3>1, LenProperties DEF Table
      <4>2. QED
        BY <1>3, <2>7, <3>1, <4>1, SizesAssumption
    <3>3. /\ BytesOf(t) \subseteq BytesOf(d.table) \cup F
          /\ F \cup Bytes(e) \subseteq BytesOf(d.table) \cup F
          /\ BytesOf(t) \cap (F \cup Bytes(e)) = {} /\ Bytes(e) \cap F = {}
      BY <2>6, <2>7, <3>1
    <3>4. Good(x, n, F \cup Bytes(e))
      BY <2>1, <2>7, <3>1, <3>2, <3>3, GoodWithTable
    <3>5. QED
      BY <2>7, <3>3, <3>4 DEF Spare
  <2>9. PICK r : r = PutHeader(x, e, d.coalesce_blocks)
    OBVIOUS
  <2>10. Good(r, n, F) /\ Grows(r, x, 1)
    BY <2>5, <2>8, <2>9, PutHeaderGood
  <2>11. QED
    BY <2>3, <2>4, <2>9, <2>10 DEF Grows
<1>6. QED
  BY <1>4, <1>5

LEMMA ThirdIsNat == Third \in Nat /\ Third > 0 /\ Third + Third <= BucketAvail
<1>1. BucketAvail \in Nat
  BY SizesAssumption
<1>2. QED
  BY <1>1, SizesAssumption DEF Third

\* Every iteration moves one extent at most.
LEMMA SpillGood ==
    ASSUME NEW d, NEW n, NEW F, Good(d, n, F)
    PROVE  Good(Spill(d), n, F) /\ Grows(Spill(d), d, Third)
<1>0. Third \in Nat
  BY ThirdIsNat
<1>1. PICK G : /\ G[0] = d
               /\ \A m \in 1 .. Third : G[m] = SpillOne(G[m - 1])
               /\ Spill(d) = G[Third]
  BY <1>0, SpillUnfolds
<1> DEFINE T == {i \in 0 .. Third : Good(G[i], n, F) /\ Grows(G[i], d, i)}
<1>2. 0 \in T
  <2>1. Len(d.avail) \in Nat
    BY AvailLength
  <2>2. Grows(d, d, 0)
    BY <2>1 DEF Grows
  <2>3. QED
    BY <1>0, <1>1, <2>2
<1>3. ASSUME NEW i \in 0 .. Third - 1, i \in T PROVE i + 1 \in T
  <2>1. PICK m \in 1 .. Third : m = i + 1 /\ m - 1 = i
    BY <1>0
  <2>2. PICK x : x = G[i]
    OBVIOUS
  <2>3. PICK r : r = SpillOne(x)
    OBVIOUS
  <2>4. G[m] = r
    BY <1>1, <2>1, <2>2, <2>3
  <2>5. Good(x, n, F) /\ Grows(x, d, i)
    BY <1>3, <2>2
  <2>6. Good(r, n, F) /\ Grows(r, x, 1)
    BY <2>3, <2>5, SpillOneGood
  <2>7. Grows(r, d, m)
    <3>1. Len(d.avail) \in Nat /\ Len(x.avail) \in Nat /\ Len(r.avail) \in Nat
      BY <2>5, <2>6, AvailLength
    <3>2. Len(x.avail) <= Len(d.avail) + i /\ Len(r.avail) <= Len(x.avail) + 1
      BY <2>5, <2>6 DEF Grows
    <3>3. PICK a \in Nat, b \in Nat, c \in Nat :
            a = Len(d.avail) /\ b = Len(x.avail) /\ c = Len(r.avail)
      BY <3>1
    <3>4. b <= a + i /\ c <= b + 1
      BY <3>2, <3>3
    <3>5. i \in Nat
      BY <1>0
    <3>6. c <= a + (i + 1)
      BY <3>4, <3>5
    <3>7. Len(r.avail) <= Len(d.avail) + m
      BY <2>1, <3>3, <3>6
    <3>8. QED
      BY <3>7 DEF Grows
  <2>8. m \in T
    BY <1>0, <2>4, <2>6, <2>7
  <2>9. QED
    BY <2>1, <2>8
<1>4. Third \in T
  <2>1. \A i \in 0 .. Third : i \in T
    <3> HIDE DEF T
    <3>1. QED
      BY <1>0, <1>2, <1>3, CountUp
  <2>2. Third \in 0 .. Third
    BY <1>0
  <2> HIDE DEF T
  <2>3. QED
    BY <2>1, <2>2
<1>5. QED
  BY <1>1, <1>4

\* The last extent of a table, and the ones before it.
LEMMA FrontLast ==
    ASSUME NEW t, Table(t), t # <<>>, NEW f, f = Front(t), NEW e, e = Last(t)
    PROVE  /\ Table(f) /\ Len(f) <= Len(t) /\ e \in Extents
           /\ BytesOf(f) \subseteq BytesOf(t) /\ Bytes(e) \subseteq BytesOf(t)
           /\ Bytes(e) \cap BytesOf(f) = {}
<1>1. t \in Seq(Extents) /\ Len(t) \in Nat /\ Ascending(t) /\ Apart(t)
  BY LenProperties DEF Table
<1>2. Len(t) # 0
  BY <1>1, EmptySeq
<1>3. PICK n \in 1 .. Len(t) : n = Len(t)
  BY <1>1, <1>2
<1>4. e = t[n] /\ e \in Extents
  BY <1>1, <1>3, ElementOfSeq DEF Last
<1>5. PICK m \in 0 .. Len(t) : m = n - 1
  BY <1>1, <1>3
<1>6. f = SubSeq(t, 1, m)
  BY <1>3, <1>5 DEF Front
<1>7. f \in Seq(Extents) /\ Len(f) = m /\ \A k \in 1 .. m : f[k] = t[k]
  BY <1>1, <1>6, PrefixIs
<1>8. \A k \in 1 .. m : k \in 1 .. Len(t) /\ k # n
  BY <1>1, <1>3, <1>5
<1>9. Ascending(f) /\ Apart(f)
  <2>1. ASSUME NEW j \in 1 .. Len(f), NEW k \in 1 .. Len(f)
        PROVE  /\ j <= k => f[j].size <= f[k].size
               /\ j # k => Bytes(f[j]) \cap Bytes(f[k]) = {}
    <3>1. f[j] = t[j] /\ f[k] = t[k] /\ j \in 1 .. Len(t) /\ k \in 1 .. Len(t)
      BY <1>7, <1>8
    <3>2. QED
      BY <1>1, <3>1 DEF Ascending, Apart
  <2>2. QED
    BY <2>1 DEF Ascending, Apart
<1>10. /\ BytesOf(f) \subseteq BytesOf(t) /\ Bytes(e) \subseteq BytesOf(t)
       /\ Bytes(e) \cap BytesOf(f) = {}
  <2>1. ASSUME NEW k \in 1 .. m
        PROVE  Bytes(f[k]) \subseteq BytesOf(t) /\ Bytes(e) \cap Bytes(f[k]) = {}
    <3>1. f[k] = t[k] /\ k \in 1 .. Len(t) /\ k # n
      BY <1>7, <1>8
    <3>2. Bytes(t[n]) \cap Bytes(t[k]) = {} /\ Bytes(t[k]) \subseteq BytesOf(t)
      BY <1>1, <1>3, <3>1 DEF Apart, BytesOf
    <3>3. QED
      BY <1>4, <3>1, <3>2
  <2>2. Bytes(e) \subseteq BytesOf(t)
    BY <1>3, <1>4 DEF BytesOf
  <2>3. QED
    BY <1>7, <2>1, <2>2 DEF BytesOf
<1>11. QED
  BY <1>3, <1>4, <1>5, <1>7, <1>9, <1>10 DEF Table

LEMMA GrowsMore ==
    ASSUME NEW d, NEW x, NEW r, NEW j \in Nat, NEW k \in Nat, Grows(x, d, j), Grows(r, x, k),
           NEW n, NEW F, Good(d, n, F), NEW G, Good(x, n, G), NEW H, Good(r, n, H),
           NEW m \in Nat, j + k <= m
    PROVE  Grows(r, d, m)
<1>1. PICK a \in Nat, b \in Nat, c \in Nat :
        a = Len(d.avail) /\ b = Len(x.avail) /\ c = Len(r.avail)
  <2>1. Len(d.avail) \in Nat
    BY AvailLength
  <2>2. Len(x.avail) \in Nat
    BY AvailLength
  <2>3. Len(r.avail) \in Nat
    BY AvailLength
  <2>4. QED
    BY <2>1, <2>2, <2>3
<1>2. b <= a + j /\ c <= b + k
  BY <1>1 DEF Grows
<1>3. c <= a + m
  BY <1>2
<1>4. QED
  BY <1>1, <1>3 DEF Grows

LEMMA GrowsZero ==
    ASSUME NEW d, NEW n, NEW F, Good(d, n, F), NEW m \in Nat
    PROVE  Grows(d, d, m)
<1>1. PICK a \in Nat : a = Len(d.avail)
  BY AvailLength
<1>2. a <= a + m
  OBVIOUS
<1>3. QED
  BY <1>1, <1>2 DEF Grows

LEMMA AdjustGood ==
    ASSUME NEW d, NEW n, NEW F, Good(d, n, F)
    PROVE  Good(AdjustBucketAvail(d), n, F) /\ Grows(AdjustBucketAvail(d), d, Third)
<1>0. Third \in Nat /\ Third < BucketAvail
  <2>1. BucketAvail \in Nat
    BY SizesAssumption
  <2>2. QED
    BY <2>1, ThirdIsNat
<1>1. CASE Len(d.table) >= Third
  <2>1. AdjustBucketAvail(d) = Spill(d)
    BY <1>1 DEF AdjustBucketAvail
  <2>2. QED
    BY <2>1, SpillGood
<1>2. CASE ~(Len(d.table) >= Third) /\ d.avail = <<>>
  <2>1. AdjustBucketAvail(d) = d
    BY <1>2 DEF AdjustBucketAvail
  <2>2. QED
    BY <1>0, <2>1, GrowsZero
<1>3. CASE ~(Len(d.table) >= Third) /\ d.avail # <<>>
  <2>1. PICK f : f = Front(d.avail)
    OBVIOUS
  <2>2. PICK e : e = Last(d.avail)
    OBVIOUS
  <2>3. PICK x : x = [d EXCEPT !.avail = f]
    OBVIOUS
  <2>4. PICK r : r = PutBucket(x, e)
    OBVIOUS
  <2>5. AdjustBucketAvail(d) = r
    BY <1>3, <2>1, <2>2, <2>3, <2>4 DEF AdjustBucketAvail
  <2>6. Table(d.avail) /\ BytesOf(d.avail) \cap F = {}
    BY DEF Good, Shape, Exclusive
  <2>7. /\ Table(f) /\ Len(f) <= Len(d.avail) /\ e \in Extents
        /\ BytesOf(f) \subseteq BytesOf(d.avail) /\ Bytes(e) \subseteq BytesOf(d.avail)
        /\ Bytes(e) \cap BytesOf(f) = {}
    BY <1>3, <2>1, <2>2, <2>6, FrontLast
  <2>8. Len(f) <= n
    <3>1. Len(f) \in Nat /\ Len(d.avail) \in 0 .. n /\ n \in Nat
      BY <2>7, LenProperties, AvailLength DEF Table
    <3>2. QED
      BY <2>7, <3>1
  <2>9. Good(x, n, F \cup Bytes(e))
    <3>1. /\ BytesOf(f) \subseteq BytesOf(d.avail) \cup F
          /\ F \cup Bytes(e) \subseteq BytesOf(d.avail) \cup F
          /\ BytesOf(f) \cap (F \cup Bytes(e)) = {}
      BY <2>6, <2>7
    <3>2. QED
      BY <2>3, <2>7, <2>8, <3>1, GoodWithAvail
  <2>10. Spare(x, n, F, e)
    <3>1. e \in RawExtents /\ Bytes(e) \cap F = {}
      BY <2>6, <2>7 DEF Extents, RawExtents
    <3>2. QED
      BY <2>9, <3>1 DEF Spare
  <2>11. x.table = d.table /\ x.avail = f
    BY <2>3 DEF Good, Shape, Descriptors
  <2>12. Len(x.table) < BucketAvail
    <3>1. Len(d.table) \in Nat /\ BucketAvail \in Nat
      BY AvailLength, SizesAssumption
    <3>2. QED
      BY <1>0, <1>3, <2>11, <3>1
  <2>13. Good(r, n, F)
    BY <2>4, <2>10, <2>12, PutBucketGood
  <2>14. r.avail = f
    BY <2>3, <2>4 DEF PutBucket, Good, Shape, Descriptors
  <2>15. Grows(r, d, Third)
    <3>1. PICK a \in Nat, b \in Nat : a = Len(d.avail) /\ b = Len(r.avail)
      <4>1. Len(d.avail) \in Nat
        BY AvailLength
      <4>2. Len(r.avail) \in Nat
        BY <2>13, AvailLength
      <4>3. QED
        BY <4>1, <4>2
    <3>2. b <= a
      BY <2>7, <2>14, <3>1
    <3>3. b <= a + Third
      BY <1>0, <3>2
    <3>4. QED
      BY <3>1, <3>3 DEF Grows
  <2>16. QED
    BY <2>5, <2>13, <2>15
<1>4. QED
  BY <1>1, <1>2, <1>3

\* There is room in the table that has been chosen.
Fits(d, n, h) == IF h THEN Room(d, n) ELSE Len(d.table) < BucketAvail

LEMMA FreeIntoGood ==
    ASSUME NEW d, NEW n, NEW F, NEW e, Spare(d, n, F, e), NEW h, Fits(d, n, h)
    PROVE  Good(FreeInto(d, e, h), n, F) /\ Grows(FreeInto(d, e, h), d, Third + 1)
<1>0. Third \in Nat
  BY ThirdIsNat
<1>1. PICK r : r = IF h THEN [PutHeader(d, e, d.coalesce_blocks) EXCEPT !.header_changed = TRUE]
                   ELSE PutBucket(d, e)
  OBVIOUS
<1>2. FreeInto(d, e, h) = IF r.header_changed THEN AdjustBucketAvail(r) ELSE r
  BY <1>1, Zenon DEF FreeInto, With
<1>3. Good(d, n, F \cup Bytes(e))
  BY DEF Spare
<1>4. Good(r, n, F) /\ Grows(r, d, 1)
  <2>1. CASE h
    <3>1. PICK x : x = PutHeader(d, e, d.coalesce_blocks)
      OBVIOUS
    <3>2. r = [x EXCEPT !.header_changed = TRUE]
      BY <1>1, <2>1, <3>1
    <3>3. Room(d, n)
      BY <2>1 DEF Fits
    <3>4. Good(x, n, F) /\ Grows(x, d, 1)
      BY <3>1, <3>3, PutHeaderGood
    <3>5. Good(r, n, F)
      BY <3>2, <3>4, GoodWithFlag
    <3>6. r.avail = x.avail
      BY <3>2, <3>4 DEF Good, Shape, Descriptors
    <3>7. QED
      BY <3>4, <3>5, <3>6 DEF Grows
  <2>2. CASE ~h
    <3>1. r = PutBucket(d, e) /\ Len(d.table) < BucketAvail
      BY <1>1, <2>2 DEF Fits
    <3>2. Good(r, n, F)
      BY <3>1, PutBucketGood
    <3>3. r.avail = d.avail
      BY <1>3, <3>1 DEF PutBucket, Good, Shape, Descriptors
    <3>4. Grows(d, d, 1)
      BY <1>3, GrowsZero
    <3>5. QED
      BY <3>2, <3>3, <3>4 DEF Grows
  <2>3. QED
    BY <2>1, <2>2
<1>5. PICK m \in Nat : m = Third + 1
  BY <1>0
<1>6. Grows(r, d, m)
  <2>1. Grows(r, r, Third)
    BY <1>0, <1>4, GrowsZero
  <2>2. 1 \in Nat /\ 1 + Third <= m
    BY <1>0, <1>5
  <2>3. QED
    BY <1>0, <1>3, <1>4, <2>1, <2>2, GrowsMore
<1>7. CASE r.header_changed
  <2>1. PICK s : s = AdjustBucketAvail(r)
    OBVIOUS
  <2>2. FreeInto(d, e, h) = s
    BY <1>2, <1>7, <2>1
  <2>3. Good(s, n, F) /\ Grows(s, r, Third)
    BY <1>4, <2>1, AdjustGood
  <2>4. 1 \in Nat /\ 1 + Third <= m
    BY <1>0, <1>5
  <2>5. Grows(s, d, m)
    BY <1>0, <1>3, <1>4, <2>3, <2>4, GrowsMore
  <2>6. QED
    BY <1>5, <2>2, <2>3, <2>5
<1>8. CASE ~r.header_changed
  <2>1. FreeInto(d, e, h) = r
    BY <1>2, <1>8
  <2>2. QED
    BY <1>4, <1>5, <1>6, <2>1
<1>9. QED
  BY <1>7, <1>8

LEMMA FreeWithRoomIs ==
    ASSUME NEW d, NEW e
    PROVE  FreeWithRoom(d, e) = IF e.size <= IgnoreSize THEN d
                                ELSE FreeInto(d, e, GoesToHeader(d, e.size))
  BY SMT DEF FreeWithRoom, With

\* Where an extent goes when it does not go to the header, there is room.
LEMMA BucketHasRoom ==
    ASSUME NEW d, NEW n, NEW F, Good(d, n, F), NEW m, ~GoesToHeader(d, m)
    PROVE  Len(d.table) < BucketAvail
<1>1. Len(d.table) \in Nat /\ BucketAvail \in Nat /\ ~(Len(d.table) >= BucketAvail)
  BY AvailLength, SizesAssumption DEF GoesToHeader
<1>2. QED
  BY <1>1

LEMMA FreeWithRoomGood ==
    ASSUME NEW d, NEW n, NEW F, NEW e, Spare(d, n, F, e), Room(d, n)
    PROVE  Good(FreeWithRoom(d, e), n, F) /\ Grows(FreeWithRoom(d, e), d, Third + 1)
<1>0. Third + 1 \in Nat
  BY ThirdIsNat
<1>1. FreeWithRoom(d, e) = IF e.size <= IgnoreSize THEN d
                           ELSE FreeInto(d, e, GoesToHeader(d, e.size))
  BY FreeWithRoomIs
<1>2. Good(d, n, F \cup Bytes(e))
  BY DEF Spare
<1>3. CASE e.size <= IgnoreSize
  <2>1. FreeWithRoom(d, e) = d
    BY <1>1, <1>3
  <2>2. F \subseteq F \cup Bytes(e)
    OBVIOUS
  <2>3. Good(d, n, F)
    BY <1>2, <2>2, GoodLess
  <2>4. QED
    BY <1>0, <2>1, <2>3, GrowsZero
<1>4. CASE ~(e.size <= IgnoreSize)
  <2>1. PICK h : h = GoesToHeader(d, e.size)
    OBVIOUS
  <2>2. FreeWithRoom(d, e) = FreeInto(d, e, h)
    BY <1>1, <1>4, <2>1, Zenon
  <2>3. Fits(d, n, h)
    <3>1. CASE h
      BY <3>1 DEF Fits
    <3>2. CASE ~h
      <4>1. ~GoesToHeader(d, e.size)
        BY <2>1, <3>2
      <4>2. Len(d.table) < BucketAvail
        BY <1>2, <4>1, BucketHasRoom
      <4>3. QED
        BY <3>2, <4>2 DEF Fits
    <3>3. QED
      BY <3>1, <3>2
  <2>4. QED
    BY <2>2, <2>3, FreeIntoGood
<1>5. QED
  BY <1>3, <1>4

-----------------------------------------------------------------------------
(* push_avail_block. *)

LEMMA BlockLenIs ==
    ASSUME NEW n \in {StdSize, ExtSize}
    PROVE  BlockLen(n) \in Nat \ {0}
<1>1. n \in Nat /\ ElemBytes \in Nat \ {0} /\ AvailHead \in Nat \ {0}
  BY TableRoomAssumption, SizesAssumption
<1>2. PICK p \in Nat : p = n * ElemBytes
  BY <1>1
<1>3. p \div 2 \in Nat
  OBVIOUS
<1>4. QED
  BY <1>1, <1>2, <1>3 DEF BlockLen

\* Half of the entries, and what freeing the rest of the pushed block can bring in, leave
\* room for one more; the half that moves fits in a block.
LEMMA HalfLeavesRoom ==
    ASSUME NEW n \in {StdSize, ExtSize}, NEW k \in 0 .. n
    PROVE  /\ (k + 1) \div 2 + (Third + 1) < n
           /\ k \div 2 <= ExtSize \div 2 + 1
           /\ (k + 1) \div 2 \in 0 .. k /\ k \div 2 \in 0 .. k
<1>1. PICK s \in Nat, e \in Nat : s = StdSize /\ e = ExtSize
  BY TableRoomAssumption
<1>2. PICK h \in Nat : h = Third
  BY ThirdIsNat
<1>3. (e + 1) \div 2 + h + 2 <= e /\ s > e /\ s \div 2 <= e \div 2 + 1
  BY <1>1, <1>2, TableRoomAssumption DEF Third
<1>4. n = s \/ n = e
  BY <1>1
<1>5. n \in Nat /\ k \in Nat /\ k <= n
  BY <1>1
<1>6. (k + 1) \div 2 + (h + 1) < n
  BY <1>3, <1>4, <1>5
<1>7. k \div 2 <= e \div 2 + 1
  BY <1>3, <1>4, <1>5
<1>8. (k + 1) \div 2 \in 0 .. k /\ k \div 2 \in 0 .. k
  BY <1>5
<1>9. QED
  BY <1>1, <1>2, <1>6, <1>7, <1>8

\* Every second entry of a table, m of them.
EverySecond(u, t, m, c) == 2 * m - c <= Len(t) /\ u = [i \in 1 .. m |-> t[2 * i - c]]
HalfTable(u, t, m) == Table(u) /\ Len(u) = m /\ BytesOf(u) \subseteq BytesOf(t)

LEMMA HalfOf ==
    ASSUME NEW t, Table(t), NEW m \in Nat, NEW c \in {0, 1}, NEW u, EverySecond(u, t, m, c)
    PROVE  HalfTable(u, t, m)
<1>0. 2 * m - c <= Len(t) /\ u = [i \in 1 .. m |-> t[2 * i - c]]
  BY DEF EverySecond
<1>1. t \in Seq(Extents) /\ Len(t) \in Nat /\ \A a \in 1 .. Len(t) : t[a] \in Extents
  BY LenProperties, ElementOfSeq DEF Table
<1>2. ASSUME NEW i \in 1 .. m
      PROVE  2 * i - c \in 1 .. Len(t)
  BY <1>0, <1>1
<1>3. \A i \in 1 .. m : u[i] \in Extents
  BY <1>0, <1>1, <1>2
<1>4. u \in Seq(Extents)
  <2>1. u = [i \in 1 .. m |-> u[i]]
    BY <1>0
  <2>2. QED
    BY <1>3, <2>1, IsASeq
<1>5. Len(u) = m
  <2>1. DOMAIN u = 1 .. m
    BY <1>0
  <2>2. QED
    BY <1>4, <2>1, LenProperties
<1>6. ASSUME NEW i \in 1 .. m, NEW j \in 1 .. m
      PROVE  /\ i <= j => u[i].size <= u[j].size
             /\ i # j => Bytes(u[i]) \cap Bytes(u[j]) = {}
  <2>1. PICK a \in 1 .. Len(t) : a = 2 * i - c
    BY <1>2
  <2>2. PICK b \in 1 .. Len(t) : b = 2 * j - c
    BY <1>2
  <2>3. (i <= j => a <= b) /\ (i # j => a # b)
    BY <2>1, <2>2
  <2>4. u[i] = t[a] /\ u[j] = t[b]
    BY <1>0, <2>1, <2>2
  <2>5. (a <= b => t[a].size <= t[b].size) /\ (a # b => Bytes(t[a]) \cap Bytes(t[b]) = {})
    BY DEF Table, Ascending, Apart
  <2>6. QED
    BY <2>3, <2>4, <2>5
<1>7. Table(u)
  BY <1>4, <1>5, <1>6 DEF Table, Ascending, Apart
<1>8. \A i \in 1 .. m : Bytes(u[i]) \subseteq BytesOf(t)
  BY <1>0, <1>2 DEF BytesOf
<1>9. QED
  BY <1>5, <1>7, <1>8 DEF BytesOf, HalfTable

LEMMA EvenOdd ==
    ASSUME NEW t, Table(t)
    PROVE  /\ Table(Even(t)) /\ Len(Even(t)) = (Len(t) + 1) \div 2
           /\ Table(Odd(t)) /\ Len(Odd(t)) = Len(t) \div 2
           /\ BytesOf(Even(t)) \subseteq BytesOf(t) /\ BytesOf(Odd(t)) \subseteq BytesOf(t)
           /\ BytesOf(Even(t)) \cap BytesOf(Odd(t)) = {}
<1>1. Len(t) \in Nat
  BY LenProperties DEF Table
<1>2. PICK m \in Nat : m = (Len(t) + 1) \div 2 /\ 2 * m - 1 <= Len(t)
  BY <1>1
<1>3. PICK k \in Nat : k = Len(t) \div 2 /\ 2 * k - 0 <= Len(t)
  BY <1>1
<1>4. PICK u : u = Even(t)
  OBVIOUS
<1>5. PICK v : v = Odd(t)
  OBVIOUS
<1>6. u = [i \in 1 .. m |-> t[2 * i - 1]]
  BY <1>2, <1>4 DEF Even
<1>7. v = [i \in 1 .. k |-> t[2 * i - 0]]
  <2>1. v = [i \in 1 .. k |-> t[2 * i]]
    BY <1>3, <1>5 DEF Odd
  <2>2. \A i \in 1 .. k : 2 * i = 2 * i - 0
    OBVIOUS
  <2>3. QED
    BY <2>1, <2>2
<1>8. Table(u) /\ Len(u) = m /\ BytesOf(u) \subseteq BytesOf(t)
  <2>1. EverySecond(u, t, m, 1)
    BY <1>2, <1>6 DEF EverySecond
  <2>2. HalfTable(u, t, m)
    BY <2>1, HalfOf
  <2>3. QED
    BY <2>2 DEF HalfTable
<1>9. Table(v) /\ Len(v) = k /\ BytesOf(v) \subseteq BytesOf(t)
  <2>1. EverySecond(v, t, k, 0)
    BY <1>3, <1>7 DEF EverySecond
  <2>2. HalfTable(v, t, k)
    BY <2>1, HalfOf
  <2>3. QED
    BY <2>2 DEF HalfTable
<1>10. ASSUME NEW i \in 1 .. Len(u), NEW j \in 1 .. Len(v)
       PROVE  Bytes(u[i]) \cap Bytes(v[j]) = {}
  <2>1. PICK a \in 1 .. Len(t) : a = 2 * i - 1
    BY <1>1, <1>2, <1>8
  <2>2. PICK b \in 1 .. Len(t) : b = 2 * j - 0
    BY <1>1, <1>3, <1>9
  <2>3. u[i] = t[a]
    BY <1>6, <1>8, <2>1
  <2>4. v[j] = t[b]
    BY <1>7, <1>9, <2>2
  <2>5. a # b
    BY <2>1, <2>2
  <2>6. QED
    BY <2>3, <2>4, <2>5 DEF Table, Apart
<1>11. BytesOf(u) \cap BytesOf(v) = {}
  BY <1>10 DEF BytesOf
<1>12. QED
  BY <1>2, <1>3, <1>4, <1>5, <1>8, <1>9, <1>11

\* A block is linked on top of the stack.
LEMMA OnTop ==
    ASSUME NEW k \in Blocks, NEW n, Readable(k, n), NEW q, Stack(q, n),
           BlockBytes(k) \cap StackBytes(q) = {}, NEW s, s = <<k>> \o q
    PROVE  Stack(s, n) /\ s # <<>> /\ StackBytes(s) = BlockBytes(k) \cup StackBytes(q)
<1>1. q \in Seq(Blocks) /\ Len(q) \in Nat
  BY LenProperties DEF Stack
<1>2. PICK u : u = <<k>>
  OBVIOUS
<1>3. u \in Seq(Blocks) /\ Len(u) = 1 /\ u[1] = k
  BY <1>2
<1>4. /\ s \in Seq(Blocks) /\ Len(s) = Len(u) + Len(q)
      /\ \A i \in 1 .. Len(u) + Len(q) : s[i] = IF i <= Len(u) THEN u[i] ELSE q[i - Len(u)]
  BY <1>1, <1>2, <1>3, ConcatProperties
<1>5. Len(s) = Len(q) + 1
  BY <1>1, <1>3, <1>4
<1>6. \A i \in 1 .. Len(s) : (i = 1 /\ s[i] = k) \/ (i - 1 \in 1 .. Len(q) /\ s[i] = q[i - 1])
  BY <1>1, <1>3, <1>4, <1>5
<1>7. \A i \in 1 .. Len(q) : i + 1 \in 1 .. Len(s) /\ s[i + 1] = q[i]
  <2>1. ASSUME NEW i \in 1 .. Len(q) PROVE i + 1 \in 1 .. Len(s) /\ s[i + 1] = q[i]
    <3>1. PICK j \in 1 .. Len(s) : j = i + 1 /\ j # 1 /\ j - 1 = i
      BY <1>1, <1>5
    <3>2. QED
      BY <1>6, <3>1
  <2>2. QED
    BY <2>1
<1>8. 1 \in 1 .. Len(s) /\ s[1] = k
  BY <1>1, <1>3, <1>4, <1>5
<1>9. \A i \in 1 .. Len(q) : BlockBytes(q[i]) \subseteq StackBytes(q)
  BY DEF StackBytes
<1>10. ASSUME NEW i \in 1 .. Len(s), NEW j \in 1 .. Len(s), i < j
       PROVE  BlockBytes(s[i]) \cap BlockBytes(s[j]) = {}
  <2>1. j - 1 \in 1 .. Len(q) /\ s[j] = q[j - 1]
    BY <1>6, <1>10
  <2>2. CASE i = 1 /\ s[i] = k
    BY <1>9, <2>1, <2>2
  <2>3. CASE i - 1 \in 1 .. Len(q) /\ s[i] = q[i - 1]
    <3>1. i - 1 # j - 1
      BY <1>10
    <3>2. QED
      BY <2>1, <2>3, <3>1 DEF Stack
  <2>4. QED
    BY <1>6, <2>2, <2>3
<1>11. ASSUME NEW i \in 1 .. Len(s), NEW j \in 1 .. Len(s), i # j
       PROVE  BlockBytes(s[i]) \cap BlockBytes(s[j]) = {}
  <2>1. i < j \/ j < i
    BY <1>11
  <2>2. QED
    BY <1>10, <2>1
<1>12. \A i \in 1 .. Len(s) : Readable(s[i], n)
  BY <1>6 DEF Stack
<1>13. StackBytes(s) = BlockBytes(k) \cup StackBytes(q)
  <2>1. \A i \in 1 .. Len(s) : BlockBytes(s[i]) \subseteq BlockBytes(k) \cup StackBytes(q)
    BY <1>6, <1>9
  <2>2. StackBytes(s) \subseteq BlockBytes(k) \cup StackBytes(q)
    BY <2>1 DEF StackBytes
  <2>3. BlockBytes(k) \subseteq StackBytes(s)
    BY <1>8 DEF StackBytes
  <2>4. StackBytes(q) \subseteq StackBytes(s)
    BY <1>7 DEF StackBytes
  <2>5. QED
    BY <2>2, <2>3, <2>4
<1>14. s # <<>>
  BY <1>1, <1>5
<1>15. QED
  BY <1>4, <1>11, <1>12, <1>13, <1>14 DEF Stack

\* An extent is divided at n bytes.
CutAt(e, n, a, b) ==
    /\ e \in RawExtents /\ n \in Nat /\ n <= e.size
    /\ a = Extent(e.adr, n) /\ b = Extent(e.adr + n, e.size - n)

LEMMA Cut ==
    ASSUME NEW e, NEW n, NEW a, NEW b, CutAt(e, n, a, b)
    PROVE  /\ a \in RawExtents /\ b \in RawExtents
           /\ Bytes(e) = Bytes(a) \cup Bytes(b) /\ Bytes(a) \cap Bytes(b) = {}
<1>0. /\ e \in RawExtents /\ n \in Nat /\ n <= e.size
      /\ a = Extent(e.adr, n) /\ b = Extent(e.adr + n, e.size - n)
  BY DEF CutAt
<1>1. PICK x \in Nat, s \in Nat : x = e.adr /\ s = e.size
  BY <1>0 DEF RawExtents
<1>2. PICK y \in Nat, r \in Nat : y = x + n /\ r = s - n
  BY <1>0, <1>1
<1>3. a = [adr |-> x, size |-> n] /\ b = [adr |-> y, size |-> r]
  BY <1>0, <1>1, <1>2 DEF Extent
<1>4. /\ Bytes(e) = x .. x + (s - 1) /\ Bytes(a) = x .. x + (n - 1)
      /\ Bytes(b) = y .. y + (r - 1)
  BY <1>1, <1>3 DEF Bytes
<1>5. /\ x .. x + (s - 1) = (x .. x + (n - 1)) \cup (y .. y + (r - 1))
      /\ (x .. x + (n - 1)) \cap (y .. y + (r - 1)) = {}
  BY <1>0, <1>1, <1>2
<1>6. a \in RawExtents /\ b \in RawExtents
  BY <1>0, <1>3 DEF RawExtents
<1>7. QED
  BY <1>4, <1>5, <1>6

\* Block k is linked.
Linked(d, k) == [d EXCEPT !.stack = <<k>> \o @]

LEMMA PushAtIs ==
    ASSUME NEW loc, NEW kept, NEW moved, NEW n, NEW d,
           d = FreeWithRoom([loc.d EXCEPT !.avail = kept],
                            Extent(loc.elem.adr + n, loc.elem.size - n))
    PROVE  PushAt(loc, kept, moved, n) = Linked(d, AvailBlock(loc.elem.adr, moved, n))
  BY Zenon DEF PushAt, With, Linked

LEMMA PushAvailBlockIs ==
    ASSUME NEW d, NEW loc, loc = FromHeader(d, AvailBlockBytes(d))
    PROVE  PushAvailBlock(d) =
             PushAt(loc, Even(loc.d.avail), Odd(loc.d.avail), AvailBlockBytes(d))
  BY SMT DEF PushAvailBlock, With

\* Half of the entries are pushed: the header table has room again.
LEMMA PushGood ==
    ASSUME NEW d, NEW n, NEW F, Good(d, n, F)
    PROVE  /\ Good(PushAvailBlock(d), n, F) /\ Room(PushAvailBlock(d), n)
           /\ PushAvailBlock(d).stack # <<>>
<1>1. n \in {StdSize, ExtSize} /\ d.size = n
  BY DEF Good, Shape, Descriptors
<1>2. PICK b \in Nat \ {0} : b = BlockLen(n) /\ b = AvailBlockBytes(d)
  BY <1>1, BlockLenIs DEF AvailBlockBytes, BlockLen
<1>3. PICK loc : loc = FromHeader(d, b)
  OBVIOUS
<1>4. Given(loc, d, n, F, b)
  BY <1>3, FromHeaderGood
<1>5. PICK c : c = loc.d
  OBVIOUS
<1>6. PICK e : e = loc.elem
  OBVIOUS
<1>7. Spare(c, n, F, e) /\ e.size >= b
  BY <1>4, <1>5, <1>6 DEF Given
<1>8. e \in RawExtents /\ Bytes(e) \cap F = {} /\ Good(c, n, F \cup Bytes(e))
  BY <1>7 DEF Spare
<1>9. Table(c.avail) /\ BytesOf(c.avail) \cap (F \cup Bytes(e)) = {}
  BY <1>8 DEF Good, Shape, Exclusive
<1>10. PICK u : u = Even(c.avail)
  OBVIOUS
<1>11. PICK v : v = Odd(c.avail)
  OBVIOUS
<1>12. PICK k \in 0 .. n : k = Len(c.avail)
  BY <1>8, AvailLength
<1>13. /\ Table(u) /\ Len(u) = (k + 1) \div 2 /\ Table(v) /\ Len(v) = k \div 2
       /\ BytesOf(u) \subseteq BytesOf(c.avail) /\ BytesOf(v) \subseteq BytesOf(c.avail)
       /\ BytesOf(u) \cap BytesOf(v) = {}
  BY <1>9, <1>10, <1>11, <1>12, EvenOdd
<1>14. /\ (k + 1) \div 2 + (Third + 1) < n /\ k \div 2 <= ExtSize \div 2 + 1
       /\ (k + 1) \div 2 \in 0 .. k
  BY <1>1, HalfLeavesRoom
<1>15. n \in Nat
  BY <1>1, TableRoomAssumption
<1>16. PICK h \in Nat : h = (k + 1) \div 2 /\ h + (Third + 1) < n /\ h <= n
  <2>1. PICK a \in 0 .. k : a = (k + 1) \div 2
    BY <1>14
  <2>2. a \in Nat /\ a <= n /\ a + (Third + 1) < n
    BY <1>14, <1>15, <2>1
  <2>3. QED
    BY <2>1, <2>2
<1>17. PICK x : x = [c EXCEPT !.avail = u]
  OBVIOUS
<1>18. PICK blk : blk = Extent(e.adr, b)
  OBVIOUS
<1>19. PICK rest : rest = Extent(e.adr + b, e.size - b)
  OBVIOUS
<1>20. /\ blk \in RawExtents /\ rest \in RawExtents
       /\ Bytes(e) = Bytes(blk) \cup Bytes(rest) /\ Bytes(blk) \cap Bytes(rest) = {}
  <2>1. e.size \in Nat
    BY <1>8 DEF RawExtents
  <2>2. b \in Nat /\ b <= e.size
    BY <1>7, <2>1
  <2>3. CutAt(e, b, blk, rest)
    BY <1>8, <1>18, <1>19, <2>2 DEF CutAt
  <2>4. QED
    BY <2>3, Cut
<1>21. PICK H : H = F \cup Bytes(blk) \cup BytesOf(v)
  OBVIOUS
<1>22. Good(x, n, H \cup Bytes(rest))
  <2>1. /\ BytesOf(u) \subseteq BytesOf(c.avail) \cup (F \cup Bytes(e))
        /\ H \cup Bytes(rest) \subseteq BytesOf(c.avail) \cup (F \cup Bytes(e))
        /\ BytesOf(u) \cap (H \cup Bytes(rest)) = {}
    BY <1>9, <1>13, <1>20, <1>21
  <2>2. Len(u) <= n
    BY <1>13, <1>16
  <2>3. QED
    BY <1>8, <1>13, <1>17, <2>1, <2>2, GoodWithAvail
<1>23. Spare(x, n, H, rest)
  <2>1. Bytes(rest) \cap H = {}
    BY <1>8, <1>9, <1>13, <1>20, <1>21
  <2>2. QED
    BY <1>20, <1>22, <2>1 DEF Spare
<1>24. x.avail = u
  BY <1>8, <1>17 DEF Good, Shape, Descriptors
<1>25. Room(x, n)
  <2>1. h < n
    BY <1>15, <1>16, ThirdIsNat
  <2>2. QED
    BY <1>13, <1>16, <1>24, <2>1 DEF Room
<1>26. PICK y : y = FreeWithRoom(x, rest)
  OBVIOUS
<1>27. Good(y, n, H) /\ Grows(y, x, Third + 1)
  BY <1>23, <1>25, <1>26, FreeWithRoomGood
<1>28. PICK z : z = AvailBlock(e.adr, v, b)
  OBVIOUS
<1>29. PICK s : s = <<z>> \o y.stack
  OBVIOUS
<1>30. PICK r : r = [y EXCEPT !.stack = s]
  OBVIOUS
<1>31. PushAvailBlock(d) = r
  <2>1. loc = FromHeader(d, AvailBlockBytes(d))
    BY <1>2, <1>3
  <2>2. PushAvailBlock(d) = PushAt(loc, Even(loc.d.avail), Odd(loc.d.avail), AvailBlockBytes(d))
    BY <2>1, PushAvailBlockIs
  <2>3. PushAvailBlock(d) = PushAt(loc, u, v, b)
    BY <1>2, <1>5, <1>10, <1>11, <2>2
  <2>4. y = FreeWithRoom([loc.d EXCEPT !.avail = u], Extent(loc.elem.adr + b, loc.elem.size - b))
    BY <1>5, <1>6, <1>17, <1>19, <1>26, Zenon
  <2>5. PushAt(loc, u, v, b) = Linked(y, AvailBlock(loc.elem.adr, v, b))
    BY <2>4, PushAtIs
  <2>6. Linked(y, z) = r
    BY <1>29, <1>30 DEF Linked
  <2>7. QED
    BY <1>6, <1>28, <2>3, <2>5, <2>6
<1>32. /\ z \in Blocks /\ BlockOf(z) = blk /\ z.table = v /\ z.bytes = b
  BY <1>8, <1>13, <1>18, <1>28 DEF AvailBlock, Blocks, RawExtents, Table, BlockOf
<1>33. BlockBytes(z) = Bytes(blk) \cup BytesOf(v)
  BY <1>32 DEF BlockBytes
<1>34. Readable(z, n)
  <2>1. Bytes(blk) \cap BytesOf(v) = {}
    BY <1>9, <1>13, <1>20
  <2>2. Len(v) <= ExtSize \div 2 + 1
    BY <1>13, <1>14
  <2>3. b >= BlockLen(n)
    BY <1>2
  <2>4. QED
    BY <1>13, <1>32, <2>1, <2>2, <2>3 DEF Readable
<1>35. Stack(y.stack, n) /\ StackBytes(y.stack) \cap H = {}
  BY <1>27 DEF Good, Shape, Exclusive
<1>36. Stack(s, n) /\ s # <<>> /\ StackBytes(s) = BlockBytes(z) \cup StackBytes(y.stack)
  <2>1. BlockBytes(z) \cap StackBytes(y.stack) = {}
    BY <1>21, <1>33, <1>35
  <2>2. QED
    BY <1>29, <1>32, <1>34, <1>35, <2>1, OnTop
<1>37. Good(r, n, F)
  <2>1. /\ StackBytes(s) \subseteq StackBytes(y.stack) \cup H
        /\ F \subseteq StackBytes(y.stack) \cup H
        /\ StackBytes(s) \cap F = {}
    BY <1>8, <1>9, <1>13, <1>20, <1>21, <1>33, <1>35, <1>36
  <2>2. QED
    BY <1>27, <1>30, <1>36, <2>1, GoodWithStack
<1>38. Room(r, n)
  <2>1. r.avail = y.avail
    BY <1>27, <1>30 DEF Good, Shape, Descriptors
  <2>2. Len(y.avail) <= Len(x.avail) + (Third + 1)
    BY <1>27 DEF Grows
  <2>3. Len(x.avail) = h
    BY <1>13, <1>16, <1>24
  <2>4. PICK a \in Nat : a = Len(y.avail)
    BY <1>27, AvailLength
  <2>5. a < n
    BY <1>15, <1>16, <2>2, <2>3, <2>4, ThirdIsNat
  <2>6. QED
    BY <2>1, <2>4, <2>5 DEF Room
<1>39. r.stack = s
  BY <1>27, <1>30 DEF Good, Shape, Descriptors
<1>40. QED
  BY <1>31, <1>36, <1>37, <1>38, <1>39

LEMMA PushIfFullIs ==
    ASSUME NEW d
    PROVE  PushIfFull(d) = IF Full(d) THEN PushAvailBlock(d) ELSE d
  BY SMT DEF PushIfFull, With

LEMMA PushIfFullGood ==
    ASSUME NEW d, NEW n, NEW F, Good(d, n, F)
    PROVE  /\ Good(PushIfFull(d), n, F) /\ Room(PushIfFull(d), n)
           /\ d.stack # <<>> => PushIfFull(d).stack # <<>>
<1>1. PushIfFull(d) = IF Full(d) THEN PushAvailBlock(d) ELSE d
  BY PushIfFullIs
<1>2. CASE Full(d)
  <2>1. PushIfFull(d) = PushAvailBlock(d)
    BY <1>1, <1>2
  <2>2. QED
    BY <2>1, PushGood
<1>3. CASE ~Full(d)
  <2>1. PushIfFull(d) = d
    BY <1>1, <1>3
  <2>2. Len(d.avail) \in 0 .. n /\ n \in Nat /\ Len(d.avail) # n
    BY <1>3, AvailLength DEF Full, Good, Shape
  <2>3. Room(d, n)
    BY <2>2 DEF Room
  <2>4. QED
    BY <2>1, <2>3
<1>4. QED
  BY <1>2, <1>3

LEMMA FreeIs ==
    ASSUME NEW d, NEW e
    PROVE  Free(d, e) =
             IF e.size <= IgnoreSize THEN d
             ELSE IF GoesToHeader(d, e.size) THEN FreeInto(PushIfFull(d), e, TRUE)
             ELSE FreeInto(d, e, FALSE)
<1> DEFINE F(x) == IF e.size <= IgnoreSize THEN x
                   ELSE IF GoesToHeader(x, e.size) THEN FreeInto(PushIfFull(x), e, TRUE)
                   ELSE FreeInto(x, e, FALSE)
<1>1. Free(d, e) = CHOOSE r \in {F(x) : x \in {d}} : TRUE
  BY Zenon DEF Free, With
<1>2. F(d) = CHOOSE r \in {F(x) : x \in {d}} : TRUE
  <2> HIDE DEF F
  <2>1. QED
    BY Zenon
<1>3. QED
  BY <1>1, <1>2, Zenon

\* push_avail_block frees the rest of the block it allocated when half of the entries
\* have left the header table: _gdbm_free finds room there and does not call
\* push_avail_block again, whatever the extent and the sizes are, so that the two
\* functions do not nest (falloc.c:129, 326).
THEOREM PushNeverNests ==
    ASSUME NEW d, NEW n, NEW F, Good(d, n, F),
           NEW c, c = FromHeader(d, AvailBlockBytes(d)).d,
           NEW x, x = [c EXCEPT !.avail = Even(c.avail)], NEW e
    PROVE  ~Full(x) /\ Free(x, e) = FreeWithRoom(x, e)
<1>1. n \in {StdSize, ExtSize} /\ d.size = n
  BY DEF Good, Shape, Descriptors
<1>2. PICK b \in Nat \ {0} : b = BlockLen(n) /\ b = AvailBlockBytes(d)
  BY <1>1, BlockLenIs DEF AvailBlockBytes, BlockLen
<1>3. PICK loc : loc = FromHeader(d, b)
  OBVIOUS
<1>4. PICK U : Good(c, n, U)
  <2>1. Given(loc, d, n, F, b)
    BY <1>3, FromHeaderGood
  <2>2. Good(loc.d, n, F \cup Bytes(loc.elem))
    BY <2>1 DEF Given, Spare
  <2>3. QED
    BY <1>2, <1>3, <2>2
<1>5. PICK k \in 0 .. n : k = Len(c.avail)
  BY <1>4, AvailLength
<1>6. PICK h \in 0 .. k : h = (k + 1) \div 2 /\ h + (Third + 1) < n
  BY <1>1, HalfLeavesRoom
<1>7. Len(Even(c.avail)) = h
  BY <1>4, <1>5, <1>6, EvenOdd DEF Good, Shape
<1>8. x.avail = Even(c.avail) /\ x.size = n
  BY <1>4 DEF Good, Shape, Descriptors
<1>9. ~Full(x)
  <2>1. n \in Nat
    BY <1>4, AvailLength
  <2>2. h # n
    BY <1>6, <2>1, ThirdIsNat
  <2>3. QED
    BY <1>7, <1>8, <2>2 DEF Full
<1>10. PushIfFull(x) = x
  BY <1>9, PushIfFullIs
<1>11. Free(x, e) = FreeWithRoom(x, e)
  <2>1. GoesToHeader(x, e.size) \in BOOLEAN
    <3>1. x.central_free \in BOOLEAN
      BY <1>4 DEF Good, Shape, Descriptors
    <3>2. QED
      BY <3>1 DEF GoesToHeader
  <2>2. PICK g \in BOOLEAN : g = GoesToHeader(x, e.size)
    BY <2>1
  <2>3. FreeWithRoom(x, e) = IF e.size <= IgnoreSize THEN x ELSE FreeInto(x, e, g)
    BY <2>2, FreeWithRoomIs
  <2>4. Free(x, e) = IF e.size <= IgnoreSize THEN x
                     ELSE IF g THEN FreeInto(x, e, TRUE) ELSE FreeInto(x, e, FALSE)
    BY <1>10, <2>2, FreeIs
  <2>5. QED
    BY <2>3, <2>4
<1>12. QED
  BY <1>9, <1>11

\* What is freed is in a table afterwards, or forgotten.
LEMMA FreeGood ==
    ASSUME NEW d, NEW n, NEW F, NEW e, Spare(d, n, F, e)
    PROVE  Good(Free(d, e), n, F)
<1>1. Free(d, e) = IF e.size <= IgnoreSize THEN d
                   ELSE IF GoesToHeader(d, e.size) THEN FreeInto(PushIfFull(d), e, TRUE)
                   ELSE FreeInto(d, e, FALSE)
  BY FreeIs, Zenon
<1>2. e \in RawExtents /\ Bytes(e) \cap F = {} /\ Good(d, n, F \cup Bytes(e))
  BY DEF Spare
<1>3. CASE e.size <= IgnoreSize
  <2>1. Free(d, e) = d
    BY <1>1, <1>3, Zenon
  <2>2. F \subseteq F \cup Bytes(e)
    OBVIOUS
  <2>3. QED
    BY <1>2, <2>1, <2>2, GoodLess
<1>4. CASE ~(e.size <= IgnoreSize) /\ GoesToHeader(d, e.size)
  <2>1. PICK x : x = PushIfFull(d)
    OBVIOUS
  <2>2. PICK h : h = TRUE
    OBVIOUS
  <2>3. Free(d, e) = FreeInto(x, e, h)
    BY <1>1, <1>4, <2>1, <2>2, Zenon
  <2>4. Good(x, n, F \cup Bytes(e)) /\ Room(x, n)
    BY <1>2, <2>1, PushIfFullGood
  <2>5. Spare(x, n, F, e) /\ Fits(x, n, h)
    BY <1>2, <2>2, <2>4 DEF Spare, Fits
  <2>6. QED
    BY <2>3, <2>5, FreeIntoGood
<1>5. CASE ~(e.size <= IgnoreSize) /\ ~GoesToHeader(d, e.size)
  <2>1. PICK h : h = FALSE
    OBVIOUS
  <2>2. Free(d, e) = FreeInto(d, e, h)
    BY <1>1, <1>5, <2>1, Zenon
  <2>3. Len(d.table) < BucketAvail
    BY <1>2, <1>5, BucketHasRoom
  <2>4. Fits(d, n, h)
    BY <2>1, <2>3 DEF Fits
  <2>5. QED
    BY <2>2, <2>4, FreeIntoGood
<1>6. QED
  BY <1>3, <1>4, <1>5

-----------------------------------------------------------------------------
(* Lists of extents are freed, or loaded. *)

\* Extents that belong to nobody else.
Listed(t, F) == t \in Seq(RawExtents) /\ Apart(t) /\ BytesOf(t) \cap F = {}

\* The bytes of the entries after the i-th.
Rest(t, i) == UNION {Bytes(t[j]) : j \in i + 1 .. Len(t)}

LEMMA NextListed ==
    ASSUME NEW t, NEW F, Listed(t, F), NEW m \in 1 .. Len(t), NEW d, NEW n,
           Good(d, n, F \cup Rest(t, m - 1))
    PROVE  Spare(d, n, F \cup Rest(t, m), t[m])
<1>1. Len(t) \in Nat /\ t[m] \in RawExtents
  BY LenProperties, ElementOfSeq DEF Listed
<1>2. PICK e : e = t[m]
  OBVIOUS
<1>3. Bytes(e) \subseteq BytesOf(t) /\ BytesOf(t) \cap F = {}
  BY <1>2 DEF BytesOf, Listed
<1>4. \A j \in m + 1 .. Len(t) : j \in 1 .. Len(t) /\ j # m
  BY <1>1
<1>5. \A j \in m + 1 .. Len(t) : Bytes(e) \cap Bytes(t[j]) = {}
  BY <1>2, <1>4 DEF Listed, Apart
<1>6. Bytes(e) \cap Rest(t, m) = {}
  BY <1>5 DEF Rest
<1>7. Bytes(e) \cup Rest(t, m) \subseteq Rest(t, m - 1)
  <2>1. PICK h : h = m - 1
    OBVIOUS
  <2>2. m \in h + 1 .. Len(t) /\ \A j \in m + 1 .. Len(t) : j \in h + 1 .. Len(t)
    BY <1>1, <2>1
  <2>3. Bytes(e) \subseteq Rest(t, h) /\ Rest(t, m) \subseteq Rest(t, h)
    BY <1>2, <2>2 DEF Rest
  <2>4. QED
    BY <2>1, <2>3
<1>8. Good(d, n, (F \cup Rest(t, m)) \cup Bytes(e))
  <2>1. (F \cup Rest(t, m)) \cup Bytes(e) \subseteq F \cup Rest(t, m - 1)
    BY <1>7
  <2>2. QED
    BY <2>1, GoodLess
<1>9. Bytes(e) \cap (F \cup Rest(t, m)) = {}
  BY <1>3, <1>6
<1>10. QED
  BY <1>1, <1>2, <1>8, <1>9 DEF Spare

LEMMA RestEnds ==
    ASSUME NEW t, Len(t) \in Nat, NEW F
    PROVE  F \cup Rest(t, 0) = F \cup BytesOf(t) /\ F \cup Rest(t, Len(t)) = F
<1>1. \A j \in Len(t) + 1 .. Len(t) : FALSE
  OBVIOUS
<1>2. Rest(t, Len(t)) = {}
  BY <1>1 DEF Rest
<1>3. Rest(t, 0) = BytesOf(t)
  BY DEF Rest, BytesOf
<1>4. QED
  BY <1>2, <1>3

LEMMA FreeAllGood ==
    ASSUME NEW t, NEW F, Listed(t, F), NEW d, NEW n, Good(d, n, F \cup BytesOf(t))
    PROVE  Good(FreeAll(d, t), n, F)
<1>0. Len(t) \in Nat
  BY LenProperties DEF Listed
<1>1. PICK G : /\ G[0] = d
               /\ \A m \in 1 .. Len(t) : G[m] = Free(G[m - 1], t[m])
               /\ FreeAll(d, t) = G[Len(t)]
  BY <1>0, FreeAllUnfolds
<1> DEFINE T == {i \in 0 .. Len(t) : Good(G[i], n, F \cup Rest(t, i))}
<1>2. 0 \in T
  <2>1. F \cup Rest(t, 0) = F \cup BytesOf(t)
    BY <1>0, RestEnds
  <2>2. PICK H : H = F \cup Rest(t, 0)
    OBVIOUS
  <2>3. Good(d, n, H)
    BY <2>1, <2>2
  <2>4. QED
    BY <1>0, <1>1, <2>2, <2>3
<1>3. ASSUME NEW i \in 0 .. Len(t) - 1, i \in T PROVE i + 1 \in T
  <2>1. PICK m \in 1 .. Len(t) : m = i + 1 /\ m - 1 = i
    BY <1>0
  <2>2. Good(G[m - 1], n, F \cup Rest(t, m - 1))
    BY <1>3, <2>1
  <2>3. Spare(G[m - 1], n, F \cup Rest(t, m), t[m])
    BY <2>2, NextListed
  <2>4. Good(Free(G[m - 1], t[m]), n, F \cup Rest(t, m))
    BY <2>3, FreeGood
  <2>5. m \in T
    BY <1>0, <1>1, <2>4
  <2>6. QED
    BY <2>1, <2>5
<1>4. Len(t) \in T
  <2>1. \A i \in 0 .. Len(t) : i \in T
    <3> HIDE DEF T
    <3>1. QED
      BY <1>0, <1>2, <1>3, CountUp
  <2>2. Len(t) \in 0 .. Len(t)
    BY <1>0
  <2> HIDE DEF T
  <2>3. QED
    BY <2>1, <2>2
<1>5. F \cup Rest(t, Len(t)) = F
  BY <1>0, RestEnds
<1>6. QED
  BY <1>1, <1>4, <1>5

LEMMA LoadAllGood ==
    ASSUME NEW t, NEW F, Listed(t, F), NEW d, NEW n, Good(d, n, F \cup BytesOf(t)), Room(d, n)
    PROVE  Good(LoadAll(d, t), n, F)
<1>0. Len(t) \in Nat
  BY LenProperties DEF Listed
<1>1. PICK G : /\ G[0] = d
               /\ \A m \in 1 .. Len(t) : G[m] = PushIfFull(PutHeader(G[m - 1], t[m], TRUE))
               /\ LoadAll(d, t) = G[Len(t)]
  BY <1>0, LoadAllUnfolds
<1> DEFINE T == {i \in 0 .. Len(t) : Good(G[i], n, F \cup Rest(t, i)) /\ Room(G[i], n)}
<1>2. 0 \in T
  <2>1. F \cup Rest(t, 0) = F \cup BytesOf(t)
    BY <1>0, RestEnds
  <2>2. PICK H : H = F \cup Rest(t, 0)
    OBVIOUS
  <2>3. Good(d, n, H)
    BY <2>1, <2>2
  <2>4. QED
    BY <1>0, <1>1, <2>2, <2>3
<1>3. ASSUME NEW i \in 0 .. Len(t) - 1, i \in T PROVE i + 1 \in T
  <2>1. PICK m \in 1 .. Len(t) : m = i + 1 /\ m - 1 = i
    BY <1>0
  <2>2. Good(G[m - 1], n, F \cup Rest(t, m - 1)) /\ Room(G[m - 1], n)
    BY <1>3, <2>1
  <2>3. Spare(G[m - 1], n, F \cup Rest(t, m), t[m])
    BY <2>2, NextListed
  <2>4. PICK x : x = PutHeader(G[m - 1], t[m], TRUE)
    OBVIOUS
  <2>5. Good(x, n, F \cup Rest(t, m))
    BY <2>2, <2>3, <2>4, PutHeaderGood
  <2>6. Good(PushIfFull(x), n, F \cup Rest(t, m)) /\ Room(PushIfFull(x), n)
    BY <2>5, PushIfFullGood
  <2>7. G[m] = PushIfFull(x)
    BY <1>1, <2>4
  <2>8. m \in T
    BY <1>0, <2>6, <2>7
  <2>9. QED
    BY <2>1, <2>8
<1>4. Len(t) \in T
  <2>1. \A i \in 0 .. Len(t) : i \in T
    <3> HIDE DEF T
    <3>1. QED
      BY <1>0, <1>2, <1>3, CountUp
  <2>2. Len(t) \in 0 .. Len(t)
    BY <1>0
  <2> HIDE DEF T
  <2>3. QED
    BY <2>1, <2>2
<1>5. F \cup Rest(t, Len(t)) = F
  BY <1>0, RestEnds
<1>6. QED
  BY <1>1, <1>4, <1>5

-----------------------------------------------------------------------------
(* pop_avail_block. *)

LEMMA Popped ==
    ASSUME NEW s, NEW n, Stack(s, n), s # <<>>, NEW h, h = Head(s), NEW q, q = Tail(s)
    PROVE  /\ h \in Blocks /\ Readable(h, n) /\ Stack(q, n)
           /\ BlockBytes(h) \cap StackBytes(q) = {}
           /\ BlockBytes(h) \cup StackBytes(q) \subseteq StackBytes(s)
<1>1. s \in Seq(Blocks) /\ Len(s) \in Nat /\ \A i \in 1 .. Len(s) : s[i] \in Blocks
  BY LenProperties, ElementOfSeq DEF Stack
<1>2. Len(s) # 0
  BY <1>1, EmptySeq
<1>3. h = s[1] /\ 1 \in 1 .. Len(s)
  BY <1>1, <1>2
<1>4. q \in Seq(Blocks) /\ Len(q) = Len(s) - 1 /\ \A i \in 1 .. Len(q) : q[i] = s[i + 1]
  BY <1>1, <1>2, HeadTailProperties
<1>5. \A i \in 1 .. Len(q) : i + 1 \in 1 .. Len(s) /\ i + 1 # 1
  BY <1>1, <1>4
<1>6. \A i \in 1 .. Len(q) : Readable(q[i], n)
  BY <1>4, <1>5 DEF Stack
<1>7. ASSUME NEW i \in 1 .. Len(q), NEW j \in 1 .. Len(q), i # j
      PROVE  BlockBytes(q[i]) \cap BlockBytes(q[j]) = {}
  <2>1. PICK a \in 1 .. Len(s) : a = i + 1 /\ q[i] = s[a]
    BY <1>4, <1>5
  <2>2. PICK b \in 1 .. Len(s) : b = j + 1 /\ q[j] = s[b]
    BY <1>4, <1>5
  <2>3. a # b
    BY <1>7, <2>1, <2>2
  <2>4. QED
    BY <2>1, <2>2, <2>3 DEF Stack
<1>8. ASSUME NEW i \in 1 .. Len(q)
      PROVE  BlockBytes(q[i]) \cap BlockBytes(h) = {} /\ BlockBytes(q[i]) \subseteq StackBytes(s)
  <2>1. PICK a \in 1 .. Len(s) : a # 1 /\ q[i] = s[a]
    BY <1>4, <1>5
  <2>2. BlockBytes(s[a]) \cap BlockBytes(s[1]) = {}
    BY <1>3, <2>1 DEF Stack
  <2>3. BlockBytes(s[a]) \subseteq StackBytes(s)
    BY DEF StackBytes
  <2>4. QED
    BY <1>3, <2>1, <2>2, <2>3
<1>9. Stack(q, n)
  BY <1>4, <1>6, <1>7 DEF Stack
<1>10. BlockBytes(h) \cap StackBytes(q) = {} /\ StackBytes(q) \subseteq StackBytes(s)
  BY <1>8 DEF StackBytes
<1>11. BlockBytes(h) \subseteq StackBytes(s)
  BY <1>3 DEF StackBytes
<1>12. h \in Blocks /\ Readable(h, n)
  BY <1>1, <1>3 DEF Stack
<1>13. QED
  BY <1>9, <1>10, <1>11, <1>12

\* The bytes that are freed lie in the block that has been popped.
LEMMA InBlock ==
    ASSUME NEW k \in Blocks, NEW b \in Nat, k.bytes >= b, NEW e, e = Extent(k.adr, b)
    PROVE  e \in RawExtents /\ Bytes(e) \subseteq Bytes(BlockOf(k))
<1>1. PICK x \in Nat, m \in Nat : x = k.adr /\ m = k.bytes
  BY DEF Blocks
<1>2. e = [adr |-> x, size |-> b] /\ BlockOf(k) = [adr |-> x, size |-> m] /\ b <= m
  BY <1>1 DEF Extent, BlockOf
<1>3. Bytes(e) = x .. x + (b - 1) /\ Bytes(BlockOf(k)) = x .. x + (m - 1)
  BY <1>2 DEF Bytes
<1>4. x .. x + (b - 1) \subseteq x .. x + (m - 1)
  BY <1>2
<1>5. e \in RawExtents
  BY <1>2 DEF RawExtents
<1>6. QED
  BY <1>3, <1>4, <1>5

\* The blocks pushed meanwhile are lost, and the stack goes on where it did.
Relinked(d, q) ==
    [d EXCEPT !.stack = q, !.orphans = @ \cup ToSet(d.stack), !.header_changed = TRUE]

LEMMA RelinkedGood ==
    ASSUME NEW d, NEW n, NEW G, Good(d, n, G), NEW q, Stack(q, n), StackBytes(q) \subseteq G,
           NEW F, F \subseteq G, F \cap StackBytes(q) = {}
    PROVE  Good(Relinked(d, q), n, F)
<1>1. PICK o : o = d.orphans \cup ToSet(d.stack)
  OBVIOUS
<1>2. PICK r : r = [d EXCEPT !.stack = q, !.orphans = o, !.header_changed = TRUE]
  OBVIOUS
<1>3. Relinked(d, q) = r
  BY <1>1, <1>2 DEF Relinked
<1>4. ASSUME NEW k \in ToSet(d.stack) PROVE k \in Blocks /\ Ascending(k.table)
  <2>1. Stack(d.stack, n)
    BY DEF Good, Shape
  <2>2. PICK i \in 1 .. Len(d.stack) : k = d.stack[i]
    BY <2>1, LenProperties DEF Stack, ToSet
  <2>3. k \in Blocks
    BY <2>1, <2>2, ElementOfSeq DEF Stack
  <2>4. QED
    BY <2>1, <2>2, <2>3 DEF Stack, Readable, Table
<1>5. o \in SUBSET Blocks /\ \A k \in o : Ascending(k.table)
  BY <1>1, <1>4 DEF Good, Shape, Descriptors
<1>6. /\ r.avail = d.avail /\ r.table = d.table /\ r.stack = q /\ r.next_block = d.next_block
      /\ r.size = d.size /\ r.orphans = o
  BY <1>2 DEF Good, Shape, Descriptors
<1>7. r \in Descriptors
  <2>1. q \in Seq(Blocks)
    BY DEF Stack
  <2>2. QED
    BY <1>2, <1>5, <2>1 DEF Good, Shape, Descriptors
<1>8. Shape(r, n)
  BY <1>5, <1>6, <1>7 DEF Good, Shape
<1>9. Exclusive(BytesOf(d.avail), BytesOf(d.table), StackBytes(q), F, d.next_block)
  BY DEF Good, Exclusive
<1>10. QED
  BY <1>3, <1>6, <1>8, <1>9 DEF Good

LEMMA PopIs ==
    ASSUME NEW desc, NEW d0, d0 = PushIfFull(desc),
           NEW loaded, loaded = LoadAll([d0 EXCEPT !.stack = <<>>], Head(d0.stack).table),
           NEW d, d = PushIfFull(Relinked(loaded, Tail(d0.stack)))
    PROVE  PopAvailBlock(desc) =
             PutHeader(d, Extent(Head(d0.stack).adr, AvailBlockBytes(d0)), TRUE)
  BY SMT DEF PopAvailBlock, With, Relinked

LEMMA PopGood ==
    ASSUME NEW desc, NEW n, NEW F, Good(desc, n, F), desc.stack # <<>>
    PROVE  Good(PopAvailBlock(desc), n, F)
<1>1. PICK d0 : d0 = PushIfFull(desc)
  OBVIOUS
<1>2. Good(d0, n, F) /\ Room(d0, n) /\ d0.stack # <<>>
  BY <1>1, PushIfFullGood
<1>3. /\ n \in {StdSize, ExtSize} /\ d0.size = n
      /\ Stack(d0.stack, n) /\ StackBytes(d0.stack) \cap F = {}
  BY <1>2 DEF Good, Shape, Descriptors, Exclusive
<1>4. PICK h : h = Head(d0.stack)
  OBVIOUS
<1>5. PICK q : q = Tail(d0.stack)
  OBVIOUS
<1>6. /\ h \in Blocks /\ Readable(h, n) /\ Stack(q, n)
      /\ BlockBytes(h) \cap StackBytes(q) = {}
      /\ BlockBytes(h) \cup StackBytes(q) \subseteq StackBytes(d0.stack)
  BY <1>2, <1>3, <1>4, <1>5, Popped
<1>7. PICK t : t = h.table
  OBVIOUS
<1>8. PICK k : k = Bytes(BlockOf(h))
  OBVIOUS
<1>9. k \cap BytesOf(t) = {} /\ BlockBytes(h) = k \cup BytesOf(t) /\ Table(t)
  BY <1>6, <1>7, <1>8 DEF Readable, BlockBytes
<1>10. PICK H : H = F \cup k \cup StackBytes(q)
  OBVIOUS
<1>11. PICK s : s = <<>>
  OBVIOUS
<1>12. PICK x : x = [d0 EXCEPT !.stack = s]
  OBVIOUS
<1>13. Stack(s, n) /\ StackBytes(s) = {}
  <2>1. s \in Seq(Blocks) /\ Len(s) = 0
    BY <1>11
  <2>2. QED
    BY <2>1 DEF Stack, StackBytes
<1>14. Good(x, n, H \cup BytesOf(t))
  <2>1. /\ StackBytes(s) \subseteq StackBytes(d0.stack) \cup F
        /\ H \cup BytesOf(t) \subseteq StackBytes(d0.stack) \cup F
        /\ StackBytes(s) \cap (H \cup BytesOf(t)) = {}
    BY <1>6, <1>9, <1>10, <1>13
  <2>2. QED
    BY <1>2, <1>12, <1>13, <2>1, GoodWithStack
<1>15. Room(x, n)
  <2>1. x.avail = d0.avail
    BY <1>2, <1>12 DEF Good, Shape, Descriptors
  <2>2. QED
    BY <1>2, <2>1 DEF Room
<1>16. Listed(t, H)
  <2>1. t \in Seq(Extents) /\ Apart(t)
    BY <1>9 DEF Table
  <2>2. Extents \subseteq RawExtents
    BY DEF Extents, RawExtents
  <2>3. t \in Seq(RawExtents)
    BY <2>1, <2>2, SeqMonotonic
  <2>4. BytesOf(t) \cap H = {}
    BY <1>3, <1>6, <1>9, <1>10
  <2>5. QED
    BY <2>1, <2>3, <2>4 DEF Listed
<1>17. PICK loaded : loaded = LoadAll(x, t)
  OBVIOUS
<1>18. Good(loaded, n, H)
  BY <1>14, <1>15, <1>16, <1>17, LoadAllGood
<1>19. PICK y : y = Relinked(loaded, q)
  OBVIOUS
<1>20. Good(y, n, F \cup k)
  <2>1. /\ StackBytes(q) \subseteq H /\ F \cup k \subseteq H
        /\ (F \cup k) \cap StackBytes(q) = {}
    BY <1>3, <1>6, <1>9, <1>10
  <2>2. QED
    BY <1>6, <1>18, <1>19, <2>1, RelinkedGood
<1>21. PICK d : d = PushIfFull(y)
  OBVIOUS
<1>22. Good(d, n, F \cup k) /\ Room(d, n)
  BY <1>20, <1>21, PushIfFullGood
<1>23. PICK b \in Nat \ {0} : b = BlockLen(n) /\ b = AvailBlockBytes(d0)
  BY <1>3, BlockLenIs DEF AvailBlockBytes, BlockLen
<1>24. PICK e : e = Extent(h.adr, b)
  OBVIOUS
<1>25. e \in RawExtents /\ Bytes(e) \subseteq k
  <2>1. h.bytes >= b
    BY <1>6, <1>23 DEF Readable
  <2>2. QED
    BY <1>6, <1>8, <1>24, <2>1, InBlock
<1>26. Spare(d, n, F, e)
  <2>1. F \cup Bytes(e) \subseteq F \cup k
    BY <1>25
  <2>2. Good(d, n, F \cup Bytes(e))
    BY <1>22, <2>1, GoodLess
  <2>3. Bytes(e) \cap F = {}
    BY <1>3, <1>6, <1>9, <1>25
  <2>4. QED
    BY <1>25, <2>2, <2>3 DEF Spare
<1>27. Good(PutHeader(d, e, TRUE), n, F)
  BY <1>22, <1>26, PutHeaderGood
<1>28. PopAvailBlock(desc) = PutHeader(d, e, TRUE)
  <2>1. loaded = LoadAll([d0 EXCEPT !.stack = <<>>], Head(d0.stack).table)
    BY <1>4, <1>7, <1>11, <1>12, <1>17
  <2>2. d = PushIfFull(Relinked(loaded, Tail(d0.stack)))
    BY <1>5, <1>19, <1>21
  <2>3. PopAvailBlock(desc) = PutHeader(d, Extent(Head(d0.stack).adr, AvailBlockBytes(d0)), TRUE)
    BY <1>1, <2>1, <2>2, PopIs
  <2>4. QED
    BY <1>4, <1>23, <1>24, <2>3
<1>29. QED
  BY <1>27, <1>28

-----------------------------------------------------------------------------
(* _gdbm_alloc. *)

Refilled(d) == IF Len(d.avail) <= d.size \div 2 /\ d.stack # <<>> THEN PopAvailBlock(d) ELSE d
Taken(d, m, b, p) ==
    IF b.elem # NoExtent
    THEN [d |-> [d EXCEPT !.table = b.table], elem |-> b.elem]
    ELSE FromHeader([p EXCEPT !.header_changed = TRUE], m)

LEMMA SourceIs ==
    ASSUME NEW d, NEW m
    PROVE  Source(d, m) = Taken(d, m, GetElem(m, d.table), Refilled(d))
  BY SMT DEF Source, With, Taken, Refilled

LEMMA SourceGood ==
    ASSUME NEW d, NEW n, NEW F, Good(d, n, F), NEW m \in Nat, NEW r, r = Source(d, m)
    PROVE  Spare(r.d, n, F, r.elem) /\ r.elem.size >= m
<1>1. PICK b : b = GetElem(m, d.table)
  OBVIOUS
<1>2. PICK p : p = Refilled(d)
  OBVIOUS
<1>3. r = IF b.elem # NoExtent
          THEN [d |-> [d EXCEPT !.table = b.table], elem |-> b.elem]
          ELSE FromHeader([p EXCEPT !.header_changed = TRUE], m)
  <2>1. r = Taken(d, m, b, p)
    BY <1>1, <1>2, SourceIs
  <2>2. QED
    BY <2>1, Zenon DEF Taken
<1>4. Table(d.table) /\ BytesOf(d.table) \cap F = {}
  BY DEF Good, Shape, Exclusive
<1>5. CASE b.elem # NoExtent
  <2>1. TakenFrom(b, d.table, m)
    BY <1>1, <1>4, <1>5, GetElemTakes
  <2>2. PICK e : e = b.elem
    OBVIOUS
  <2>3. PICK t : t = b.table
    OBVIOUS
  <2>4. /\ e \in Extents /\ e.size >= m /\ Table(t)
        /\ Bytes(e) \cap BytesOf(t) = {}
        /\ BytesOf(t) \subseteq BytesOf(d.table) /\ Bytes(e) \subseteq BytesOf(d.table)
    BY <2>1, <2>2, <2>3 DEF TakenFrom
  <2>5. Len(t) <= BucketAvail
    <3>1. Len(t) = Len(d.table) - 1
      BY <2>1, <2>3 DEF TakenFrom
    <3>2. Len(d.table) \in 0 .. BucketAvail /\ BucketAvail \in Nat
      BY AvailLength, SizesAssumption
    <3>3. QED
      BY <3>1, <3>2
  <2>6. PICK x : x = [d EXCEPT !.table = t]
    OBVIOUS
  <2>7. r.d = x /\ r.elem = e
    BY <1>3, <1>5, <2>2, <2>3, <2>6
  <2>8. Good(x, n, F \cup Bytes(e))
    <3>1. /\ BytesOf(t) \subseteq BytesOf(d.table) \cup F
          /\ F \cup Bytes(e) \subseteq BytesOf(d.table) \cup F
          /\ BytesOf(t) \cap (F \cup Bytes(e)) = {}
      BY <1>4, <2>4
    <3>2. QED
      BY <2>4, <2>5, <2>6, <3>1, GoodWithTable
  <2>9. e \in RawExtents /\ Bytes(e) \cap F = {}
    BY <1>4, <2>4 DEF Extents, RawExtents
  <2>10. QED
    BY <2>4, <2>7, <2>8, <2>9 DEF Spare
<1>6. CASE b.elem = NoExtent
  <2>1. Good(p, n, F)
    <3>1. CASE Len(d.avail) <= d.size \div 2 /\ d.stack # <<>>
      <4>1. p = PopAvailBlock(d)
        BY <1>2, <3>1 DEF Refilled
      <4>2. QED
        BY <3>1, <4>1, PopGood
    <3>2. CASE ~(Len(d.avail) <= d.size \div 2 /\ d.stack # <<>>)
      <4>1. p = d
        BY <1>2, <3>2 DEF Refilled
      <4>2. QED
        BY <4>1
    <3>3. QED
      BY <3>1, <3>2
  <2>2. PICK x : x = [p EXCEPT !.header_changed = TRUE]
    OBVIOUS
  <2>3. Good(x, n, F)
    BY <2>1, <2>2, GoodWithFlag
  <2>4. r = FromHeader(x, m)
    BY <1>3, <1>6, <2>2
  <2>5. Given(r, x, n, F, m)
    BY <2>3, <2>4, FromHeaderGood
  <2>6. QED
    BY <2>5 DEF Given
<1>7. QED
  BY <1>5, <1>6

LEMMA AllocIs ==
    ASSUME NEW d, NEW m, NEW g, g = Source(d, m)
    PROVE  Alloc(d, m) = [d |-> Free(g.d, Extent(g.elem.adr + m, g.elem.size - m)),
                          adr |-> g.elem.adr]
  BY SMT DEF Alloc, With

\* The space that _gdbm_alloc returns belongs to nobody else.
LEMMA AllocGood ==
    ASSUME NEW d, NEW n, NEW F, Good(d, n, F), NEW m \in Nat, NEW r, r = Alloc(d, m)
    PROVE  Spare(r.d, n, F, Extent(r.adr, m))
<1>1. PICK g : g = Source(d, m)
  OBVIOUS
<1>2. PICK e : e = g.elem
  OBVIOUS
<1>3. Spare(g.d, n, F, e) /\ e.size >= m
  BY <1>1, <1>2, SourceGood
<1>4. e \in RawExtents /\ Bytes(e) \cap F = {} /\ Good(g.d, n, F \cup Bytes(e))
  BY <1>3 DEF Spare
<1>5. PICK a : a = Extent(e.adr, m)
  OBVIOUS
<1>6. PICK b : b = Extent(e.adr + m, e.size - m)
  OBVIOUS
<1>7. /\ a \in RawExtents /\ b \in RawExtents
      /\ Bytes(e) = Bytes(a) \cup Bytes(b) /\ Bytes(a) \cap Bytes(b) = {}
  <2>1. e.size \in Nat
    BY <1>4 DEF RawExtents
  <2>2. CutAt(e, m, a, b)
    BY <1>3, <1>4, <1>5, <1>6, <2>1 DEF CutAt
  <2>3. QED
    BY <2>2, Cut
<1>8. Spare(g.d, n, F \cup Bytes(a), b)
  <2>1. F \cup Bytes(e) = (F \cup Bytes(a)) \cup Bytes(b) /\ Bytes(b) \cap (F \cup Bytes(a)) = {}
    BY <1>4, <1>7
  <2>2. (F \cup Bytes(a)) \cup Bytes(b) \subseteq F \cup Bytes(e)
    BY <2>1
  <2>3. Good(g.d, n, (F \cup Bytes(a)) \cup Bytes(b))
    BY <1>4, <2>2, GoodLess
  <2>4. QED
    BY <1>7, <2>1, <2>3 DEF Spare
<1>9. PICK x : x = Free(g.d, b)
  OBVIOUS
<1>10. Good(x, n, F \cup Bytes(a))
  BY <1>8, <1>9, FreeGood
<1>11. Spare(x, n, F, a)
  BY <1>4, <1>7, <1>10 DEF Spare
<1>12. r.d = x /\ r.adr = e.adr
  <2>1. r = [d |-> Free(g.d, Extent(g.elem.adr + m, g.elem.size - m)), adr |-> g.elem.adr]
    BY <1>1, AllocIs
  <2>2. QED
    BY <1>2, <1>6, <1>9, <2>1
<1>13. QED
  BY <1>5, <1>11, <1>12

LEMMA EndUpdateGood ==
    ASSUME NEW d, NEW n, NEW F, Good(d, n, F)
    PROVE  Good(EndUpdate(d), n, F)
  BY GoodWithFlag DEF EndUpdate

-----------------------------------------------------------------------------
(* A new file, and its history. *)

LEMMA StoreDeleteIs ==
    ASSUME NEW d, NEW m, NEW r, r = Alloc(d, m)
    PROVE  StoreDelete(d, m) = EndUpdate(Free(EndUpdate(r.d), Extent(r.adr, m)))
  BY SMT DEF StoreDelete, With

\* The header need not be written.
Clean(d) == d.header_changed = FALSE

LEMMA StoreDeleteGood ==
    ASSUME NEW d, NEW n, NEW F, Good(d, n, F), NEW m \in Nat
    PROVE  Good(StoreDelete(d, m), n, F) /\ Clean(StoreDelete(d, m))
<1>1. PICK r : r = Alloc(d, m)
  OBVIOUS
<1>2. PICK e : e = Extent(r.adr, m)
  OBVIOUS
<1>3. Spare(r.d, n, F, e)
  BY <1>1, <1>2, AllocGood
<1>4. PICK x : x = EndUpdate(r.d)
  OBVIOUS
<1>5. Spare(x, n, F, e)
  BY <1>3, <1>4, SpareWithFlag DEF EndUpdate
<1>6. PICK y : y = Free(x, e)
  OBVIOUS
<1>7. Good(y, n, F)
  BY <1>5, <1>6, FreeGood
<1>8. StoreDelete(d, m) = EndUpdate(y)
  <2>1. StoreDelete(d, m) = EndUpdate(Free(EndUpdate(r.d), Extent(r.adr, m)))
    BY <1>1, StoreDeleteIs
  <2>2. QED
    BY <1>2, <1>4, <1>6, <2>1
<1>9. Clean(EndUpdate(y))
  BY <1>7 DEF Clean, EndUpdate, Good, Shape, Descriptors
<1>10. QED
  BY <1>7, <1>8, <1>9, EndUpdateGood

LEMMA AgedGood ==
    ASSUME NEW d, NEW n, NEW F, Good(d, n, F), Clean(d), NEW age \in Nat
    PROVE  Good(Aged(d, age), n, F) /\ Clean(Aged(d, age))
<1>1. PICK G : /\ G[0] = d
               /\ \A m \in 1 .. age : G[m] = StoreDelete(G[m - 1], m)
               /\ Aged(d, age) = G[age]
  <2>1. PICK G : Ageing(G, d, age)
    BY AgedUnfolds
  <2>2. QED
    BY <2>1 DEF Ageing
<1> DEFINE T == {i \in 0 .. age : Good(G[i], n, F) /\ Clean(G[i])}
<1>2. 0 \in T
  BY <1>1
<1>3. ASSUME NEW i \in 0 .. age - 1, i \in T PROVE i + 1 \in T
  <2>1. PICK m \in 1 .. age : m = i + 1 /\ m - 1 = i
    OBVIOUS
  <2>2. Good(G[m - 1], n, F)
    BY <1>3, <2>1
  <2>3. Good(StoreDelete(G[m - 1], m), n, F) /\ Clean(StoreDelete(G[m - 1], m))
    BY <2>2, StoreDeleteGood
  <2>4. m \in T
    BY <1>1, <2>3
  <2>5. QED
    BY <2>1, <2>4
<1>4. age \in T
  <2>1. \A i \in 0 .. age : i \in T
    <3> HIDE DEF T
    <3>1. QED
      BY <1>2, <1>3, CountUp
  <2>2. age \in 0 .. age
    OBVIOUS
  <2> HIDE DEF T
  <2>3. QED
    BY <2>1, <2>2
<1>5. QED
  BY <1>1, <1>4

-----------------------------------------------------------------------------
(* The inductive invariant. *)

Buckets == [avail : Seq(Extents), bits : Nat]

\* The space listed in the avail tables of the buckets other than b.
OthersOf(B, b) == UNION {BytesOf(B[c].avail) : c \in DOMAIN B \ {b}}

\* The descriptor d, with a header table of n entries, and the buckets B, of which b is
\* the current one, share the file with what uses the bytes U.
World(d, n, B, b, U) ==
    /\ B \in [DOMAIN B -> Buckets]
    /\ b \in DOMAIN B /\ d.table = B[b].avail
    /\ \A c \in DOMAIN B :
         /\ Table(B[c].avail) /\ Len(B[c].avail) <= BucketAvail
         /\ BytesOf(B[c].avail) \cap U = {}
    /\ \A c, e \in DOMAIN B : c # e => BytesOf(B[c].avail) \cap BytesOf(B[e].avail) = {}
    /\ Good(d, n, U \cup OthersOf(B, b))

\* Claims of some bytes, none of them of another's.
Separate(C) ==
    /\ \A c \in C : c.adr \in Nat /\ c.size \in Nat \ {0}
    /\ \A c, e \in C : c # e => Bytes(c) \cap Bytes(e) = {}

Used == BytesOfAll(UsedClaims)
Sized == [adr : Nat, size : Nat \ {0}]

AreasOK ==
    /\ area \subseteq [adr : Nat, size : Nat \ {0}, bucket : DOMAIN bucket]
    /\ \A x, y \in area : x # y => Bytes(x) \cap Bytes(y) = {}
    /\ fresh \in Sized \cup {NoExtent}
    /\ \A x \in area : Bytes(x) \cap Bytes(fresh) = {}

\* What a call leaves, and what a split that is under way has.
CallOK ==
    /\ pc \in {"idle", "split", "need recovery"}
    /\ pc = "idle" => olds = <<>> /\ fresh = NoExtent /\ ~db.header_changed
    /\ pc = "split" => fresh # NoExtent
    /\ olds \in Seq(Sized)

IInv ==
    /\ World(db, db.size, bucket, cur, Used)
    /\ Separate(UsedClaims)
    /\ AreasOK
    /\ CallOK

LEMMA WorldLess ==
    ASSUME NEW d, NEW n, NEW B, NEW b, NEW U, World(d, n, B, b, U), NEW V, V \subseteq U
    PROVE  World(d, n, B, b, V)
<1>1. V \cup OthersOf(B, b) \subseteq U \cup OthersOf(B, b)
  OBVIOUS
<1>2. Good(d, n, V \cup OthersOf(B, b))
  BY <1>1, GoodLess DEF World
<1>3. \A c \in DOMAIN B : BytesOf(B[c].avail) \cap V = {}
  BY DEF World
<1>4. QED
  BY <1>2, <1>3 DEF World

\* Another bucket becomes the current one.
LEMMA Enter ==
    ASSUME NEW d, NEW n, NEW B, NEW b, NEW U, World(d, n, B, b, U), NEW c \in DOMAIN B,
           NEW r, r = [d EXCEPT !.table = B[c].avail]
    PROVE  Good(r, n, U \cup OthersOf(B, c))
<1>1. PICK t : t = B[c].avail
  OBVIOUS
<1>2. Table(t) /\ Len(t) <= BucketAvail /\ BytesOf(t) \cap U = {}
  BY <1>1 DEF World
<1>3. Good(d, n, U \cup OthersOf(B, b)) /\ d.table = B[b].avail
  BY DEF World
<1>4. \A e \in DOMAIN B : BytesOf(B[e].avail) \subseteq BytesOf(d.table) \cup (U \cup OthersOf(B, b))
  <2>1. ASSUME NEW e \in DOMAIN B
        PROVE  BytesOf(B[e].avail) \subseteq BytesOf(d.table) \cup (U \cup OthersOf(B, b))
    <3>1. CASE e = b
      BY <1>3, <3>1
    <3>2. CASE e # b
      <4>1. BytesOf(B[e].avail) \subseteq OthersOf(B, b)
        BY <3>2 DEF OthersOf
      <4>2. QED
        BY <4>1
    <3>3. QED
      BY <3>1, <3>2
  <2>2. QED
    BY <2>1
<1>5. OthersOf(B, c) \subseteq BytesOf(d.table) \cup (U \cup OthersOf(B, b))
  BY <1>4 DEF OthersOf
<1>6. BytesOf(t) \cap OthersOf(B, c) = {}
  BY <1>1 DEF World, OthersOf
<1>7. /\ BytesOf(t) \subseteq BytesOf(d.table) \cup (U \cup OthersOf(B, b))
      /\ U \cup OthersOf(B, c) \subseteq BytesOf(d.table) \cup (U \cup OthersOf(B, b))
      /\ BytesOf(t) \cap (U \cup OthersOf(B, c)) = {}
  BY <1>1, <1>2, <1>4, <1>5, <1>6
<1>8. r = [d EXCEPT !.table = t]
  BY <1>1
<1>9. QED
  BY <1>2, <1>3, <1>7, <1>8, GoodWithTable

\* A is B with avail table t in bucket c.
Written(A, B, c, t) == A = [B EXCEPT ![c].avail = t]

\* What has been done to the descriptor is written to its bucket.
LEMMA Leave ==
    ASSUME NEW d, NEW n, NEW B, NEW b, NEW U, World(d, n, B, b, U), NEW c \in DOMAIN B,
           NEW V, V \cap OthersOf(B, c) = {},
           NEW r, NEW m, Good(r, m, V \cup OthersOf(B, c)),
           NEW A, Written(A, B, c, r.table)
    PROVE  World(r, m, A, c, V)
<1>1. PICK t : t = r.table
  OBVIOUS
<1>2. Table(t) /\ Len(t) <= BucketAvail /\ BytesOf(t) \cap (V \cup OthersOf(B, c)) = {}
  BY <1>1 DEF Good, Shape, Exclusive
<1>3. /\ B \in [DOMAIN B -> Buckets] /\ DOMAIN A = DOMAIN B
      /\ A = [B EXCEPT ![c].avail = r.table]
  BY DEF World, Written
<1>4. A[c].avail = t /\ A[c] \in Buckets
  <2>1. A[c] = [B[c] EXCEPT !.avail = t]
    BY <1>1, <1>3
  <2>2. B[c] \in Buckets /\ t \in Seq(Extents)
    BY <1>2, <1>3 DEF Table
  <2>3. QED
    BY <2>1, <2>2 DEF Buckets
<1>5. \A e \in DOMAIN B : e # c => A[e] = B[e]
  BY <1>3
<1>6. A \in [DOMAIN A -> Buckets]
  <2>1. A = [e \in DOMAIN B |-> A[e]]
    BY <1>3
  <2>2. \A e \in DOMAIN B : A[e] \in Buckets
    BY <1>3, <1>4, <1>5
  <2>3. QED
    BY <1>3, <2>1, <2>2
<1>7. OthersOf(A, c) = OthersOf(B, c)
  BY <1>3, <1>5 DEF OthersOf
<1>8. \A e \in DOMAIN B : e # c => BytesOf(B[e].avail) \subseteq OthersOf(B, c)
  BY DEF OthersOf
<1>9. ASSUME NEW e \in DOMAIN A
      PROVE  /\ Table(A[e].avail) /\ Len(A[e].avail) <= BucketAvail
             /\ BytesOf(A[e].avail) \cap V = {}
  <2>1. CASE e = c
    BY <1>2, <1>4, <2>1
  <2>2. CASE e # c
    <3>1. A[e] = B[e] /\ e \in DOMAIN B
      BY <1>3, <1>5, <2>2
    <3>2. BytesOf(B[e].avail) \cap V = {}
      BY <1>8, <2>2, <3>1
    <3>3. Table(B[e].avail) /\ Len(B[e].avail) <= BucketAvail
      BY <3>1 DEF World
    <3>4. QED
      BY <3>1, <3>2, <3>3
  <2>3. QED
    BY <2>1, <2>2
<1>10. ASSUME NEW e \in DOMAIN A, NEW f \in DOMAIN A, e # f
       PROVE  BytesOf(A[e].avail) \cap BytesOf(A[f].avail) = {}
  <2>1. CASE e = c
    <3>1. A[f] = B[f] /\ BytesOf(B[f].avail) \subseteq OthersOf(B, c)
      BY <1>3, <1>5, <1>8, <1>10, <2>1
    <3>2. QED
      BY <1>2, <1>4, <2>1, <3>1
  <2>2. CASE f = c
    <3>1. A[e] = B[e] /\ BytesOf(B[e].avail) \subseteq OthersOf(B, c)
      BY <1>3, <1>5, <1>8, <1>10, <2>2
    <3>2. QED
      BY <1>2, <1>4, <2>2, <3>1
  <2>3. CASE e # c /\ f # c
    <3>1. A[e] = B[e] /\ A[f] = B[f]
      BY <1>3, <1>5, <2>3
    <3>2. QED
      BY <1>3, <1>10, <3>1 DEF World
  <2>4. QED
    BY <2>1, <2>2, <2>3
<1>11. Good(r, m, V \cup OthersOf(A, c))
  BY <1>7
<1>12. QED
  BY <1>1, <1>3, <1>4, <1>6, <1>9, <1>10, <1>11 DEF World

\* Only the flag changes that says that the header is to be written.
LEMMA WorldEnds ==
    ASSUME NEW d, NEW n, NEW B, NEW b, NEW U, World(d, n, B, b, U)
    PROVE  World(EndUpdate(d), n, B, b, U)
<1>1. Good(EndUpdate(d), n, U \cup OthersOf(B, b))
  BY EndUpdateGood DEF World
<1>2. EndUpdate(d).table = d.table
  BY DEF World, Good, Shape, Descriptors, EndUpdate
<1>3. QED
  BY <1>1, <1>2 DEF World

-----------------------------------------------------------------------------
(* The claims of what uses the file. *)

LEMMA SeparateLess ==
    ASSUME NEW C, Separate(C), NEW D, D \subseteq C
    PROVE  Separate(D) /\ BytesOfAll(D) \subseteq BytesOfAll(C)
  BY DEF Separate, BytesOfAll

LEMMA SeparateMore ==
    ASSUME NEW C, Separate(C), NEW c, c.adr \in Nat, c.size \in Nat \ {0},
           Bytes(c) \cap BytesOfAll(C) = {}
    PROVE  Separate(C \cup {c}) /\ BytesOfAll(C \cup {c}) = BytesOfAll(C) \cup Bytes(c)
<1>1. \A e \in C : Bytes(c) \cap Bytes(e) = {}
  BY DEF BytesOfAll
<1>2. QED
  BY <1>1 DEF Separate, BytesOfAll

LEMMA SeparateWithout ==
    ASSUME NEW C, Separate(C), NEW c \in C
    PROVE  /\ BytesOfAll(C \ {c}) \cap Bytes(c) = {}
           /\ BytesOfAll(C) = BytesOfAll(C \ {c}) \cup Bytes(c)
  BY DEF Separate, BytesOfAll

\* A claim is about the bytes of what is claimed.
LEMMA ClaimBytes ==
    ASSUME NEW what, NEW owner, NEW i, NEW e, NEW c, c = Claim(what, owner, i, e)
    PROVE  c.adr = e.adr /\ c.size = e.size /\ Bytes(c) = Bytes(e)
  BY DEF Claim, Bytes

\* What has a size has a byte.
LEMMA SomeByte ==
    ASSUME NEW e, e.adr \in Nat, e.size \in Nat \ {0}
    PROVE  e.adr \in Bytes(e) /\ Bytes(e) # {}
  BY DEF Bytes

\* The claims on a directory r, buckets B, areas X and the old directories t.
FileClaims(r, B, t) ==
    {Claim("header", 0, 0, Extent(0, BlockSize)), Claim("directory", 0, 0, r)}
    \cup {Claim("bucket", b, 0, Extent(b, BlockSize)) : b \in B}
    \cup TableClaims("old directory", 0, t)
ClaimsOf(r, B, X, t) == FileClaims(r, B, t) \cup {Claim("area", 0, 0, x) : x \in X}

Areas == area \cup ({fresh} \ {NoExtent})

LEMMA UsedIs ==
    /\ UsedClaims = ClaimsOf(dir, DOMAIN bucket, Areas, olds)
    /\ (UsedClaims)' = ClaimsOf(dir', DOMAIN bucket', Areas', olds')
<1>1. UsedClaims = ClaimsOf(dir, DOMAIN bucket, Areas, olds)
  BY DEF UsedClaims, ClaimsOf, FileClaims, Areas
<1>2. (UsedClaims)' = ClaimsOf(dir', DOMAIN bucket', Areas', olds')
  BY DEF UsedClaims, ClaimsOf, FileClaims, Areas, TableClaims, Claim, Extent, NoExtent
<1>3. QED
  BY <1>1, <1>2

LEMMA NotAreas ==
    ASSUME NEW r, NEW B, NEW t, NEW c \in FileClaims(r, B, t)
    PROVE  c.what # "area"
<1>1. CASE c \in TableClaims("old directory", 0, t)
  <2>1. PICK i \in 1 .. Len(t) : c = Claim("old directory", 0, i, t[i])
    BY <1>1 DEF TableClaims
  <2>2. QED
    BY <2>1 DEF Claim
<1>2. CASE c \in {Claim("bucket", b, 0, Extent(b, BlockSize)) : b \in B}
  <2>1. PICK b \in B : c = Claim("bucket", b, 0, Extent(b, BlockSize))
    BY <1>2
  <2>2. QED
    BY <2>1 DEF Claim
<1>3. CASE c = Claim("header", 0, 0, Extent(0, BlockSize)) \/ c = Claim("directory", 0, 0, r)
  BY <1>3 DEF Claim
<1>4. QED
  BY <1>1, <1>2, <1>3 DEF FileClaims

\* Every area in Y has the claim of e, or is in X and has none of the claims G.
Changed(Y, X, G, e) ==
    /\ \A y \in Y : \/ Claim("area", 0, 0, y) = Claim("area", 0, 0, e)
                    \/ y \in X /\ Claim("area", 0, 0, y) \notin G
    /\ \A c \in G : c.what = "area"

\* An area becomes another one, which claims the bytes of e, or goes away.
LEMMA ClaimsChange ==
    ASSUME NEW r, NEW B, NEW X, NEW t, NEW G, NEW Y, NEW e, Changed(Y, X, G, e)
    PROVE  ClaimsOf(r, B, Y, t) \subseteq
             (ClaimsOf(r, B, X, t) \ G) \cup {Claim("area", 0, 0, e)}
<1>1. SUFFICES ASSUME NEW c \in ClaimsOf(r, B, Y, t)
               PROVE  c \in (ClaimsOf(r, B, X, t) \ G) \cup {Claim("area", 0, 0, e)}
  OBVIOUS
<1>2. CASE \E y \in Y : c = Claim("area", 0, 0, y)
  BY <1>2 DEF ClaimsOf, Changed
<1>3. CASE ~ \E y \in Y : c = Claim("area", 0, 0, y)
  <2>1. c \in FileClaims(r, B, t)
    BY <1>1, <1>3 DEF ClaimsOf
  <2>2. c.what # "area"
    BY <2>1, NotAreas
  <2>3. QED
    BY <2>1, <2>2 DEF ClaimsOf, Changed
<1>4. QED
  BY <1>2, <1>3

-----------------------------------------------------------------------------
(* The calls. *)

LEMMA TablesOff ==
    ASSUME NEW d, NEW n, NEW B, NEW b, NEW U, World(d, n, B, b, U), NEW c
    PROVE  U \cap OthersOf(B, c) = {}
  BY DEF World, OthersOf

\* An area of m bytes has been allocated at e, next to the claims C.
Placed(r, e, m, n, C, O) ==
    LET D == C \cup {Claim("area", 0, 0, e)}
    IN /\ e \in Sized /\ e = Extent(r.adr, m)
       /\ Separate(D) /\ Bytes(e) \cap BytesOfAll(C) = {}
       /\ BytesOfAll(D) \cap O = {}
       /\ Good(r.d, n, BytesOfAll(D) \cup O)

LEMMA PlacedBy ==
    ASSUME NEW C, Separate(C), NEW O, BytesOfAll(C) \cap O = {},
           NEW d, NEW n, Good(d, n, BytesOfAll(C) \cup O), NEW m \in Nat \ {0},
           NEW r, r = Alloc(d, m), NEW e, e = Extent(r.adr, m)
    PROVE  Placed(r, e, m, n, C, O)
<1>1. Spare(r.d, n, BytesOfAll(C) \cup O, e)
  BY AllocGood
<1>2. /\ e \in RawExtents /\ Bytes(e) \cap (BytesOfAll(C) \cup O) = {}
      /\ Good(r.d, n, (BytesOfAll(C) \cup O) \cup Bytes(e))
  BY <1>1 DEF Spare
<1>3. e \in Sized
  <2>1. e.size = m /\ e.adr \in Nat /\ e = [adr |-> e.adr, size |-> e.size]
    BY <1>2 DEF RawExtents, Extent
  <2>2. QED
    BY <2>1 DEF Sized
<1>4. PICK c : c = Claim("area", 0, 0, e)
  OBVIOUS
<1>5. c.adr \in Nat /\ c.size \in Nat \ {0} /\ Bytes(c) = Bytes(e)
  <2>1. c.adr = e.adr /\ c.size = e.size /\ Bytes(c) = Bytes(e)
    BY <1>4, ClaimBytes
  <2>2. QED
    BY <1>3, <2>1 DEF Sized
<1>6. Bytes(c) \cap BytesOfAll(C) = {}
  BY <1>2, <1>5
<1>7. Separate(C \cup {c}) /\ BytesOfAll(C \cup {c}) = BytesOfAll(C) \cup Bytes(e)
  BY <1>5, <1>6, SeparateMore
<1>8. BytesOfAll(C \cup {c}) \cap O = {}
  BY <1>2, <1>7
<1>9. Good(r.d, n, BytesOfAll(C \cup {c}) \cup O)
  <2>1. BytesOfAll(C \cup {c}) \cup O \subseteq (BytesOfAll(C) \cup O) \cup Bytes(e)
    BY <1>7
  <2>2. QED
    BY <1>2, <2>1, GoodLess
<1>10. QED
  BY <1>2, <1>3, <1>4, <1>7, <1>8, <1>9 DEF Placed

\* What a call that ends leaves, apart from areas and claims.
LEMMA WorldNext ==
    ASSUME IInv, NEW b \in DOMAIN bucket, NEW C, Separate(C),
           BytesOfAll(C) \cap OthersOf(bucket, b) = {},
           NEW r, NEW n, Good(r, n, BytesOfAll(C) \cup OthersOf(bucket, b)),
           Current(b, r), db' = r \/ db' = EndUpdate(r), (UsedClaims)' \subseteq C
    PROVE  World(db, db.size, bucket, cur, Used)' /\ Separate(UsedClaims)'
<1>1. World(db, db.size, bucket, cur, Used)
  BY DEF IInv
<1>2. PICK m : m = db.size
  OBVIOUS
<1>3. Written(bucket', bucket, b, r.table) /\ cur' = b
  BY DEF Current, Written
<1>4. World(r, n, bucket', b, BytesOfAll(C))
  <2>1. PICK V : V = BytesOfAll(C)
    OBVIOUS
  <2>2. PICK A : A = bucket'
    OBVIOUS
  <2>3. Written(A, bucket, b, r.table)
    BY <1>3, <2>2
  <2>4. World(db, m, bucket, cur, Used) /\ Good(r, n, V \cup OthersOf(bucket, b))
    BY <1>1, <1>2, <2>1
  <2>5. V \cap OthersOf(bucket, b) = {}
    BY <2>1
  <2>6. World(r, n, A, b, V)
    BY <2>3, <2>4, <2>5, Leave
  <2>7. QED
    BY <2>1, <2>2, <2>6
<1>5. World(db', n, bucket', cur', BytesOfAll(C))
  BY <1>3, <1>4, WorldEnds
<1>6. Separate((UsedClaims)') /\ BytesOfAll((UsedClaims)') \subseteq BytesOfAll(C)
  BY SeparateLess
<1>7. World(db', n, bucket', cur', BytesOfAll((UsedClaims)'))
  BY <1>5, <1>6, WorldLess
<1>8. db'.size = n
  BY <1>7 DEF World, Good, Shape
<1>9. Used' = BytesOfAll((UsedClaims)')
  BY DEF Used, BytesOfAll, Bytes
<1>10. World(db, db.size, bucket, cur, Used)'
  BY <1>7, <1>8, <1>9 
<1>11. Separate(UsedClaims)'
  BY <1>6
<1>12. QED
  BY <1>10, <1>11

LEMMA SameDomain ==
    ASSUME NEW b, NEW r, Current(b, r)
    PROVE  DOMAIN bucket' = DOMAIN bucket
  BY DEF Current

\* The bytes of an area are in use, and so are those of the area a split makes room for.
LEMMA AreaUsed ==
    ASSUME IInv
    PROVE  /\ \A x \in area : Claim("area", 0, 0, x) \in UsedClaims /\ Bytes(x) \subseteq Used
           /\ fresh # NoExtent => Claim("area", 0, 0, fresh) \in UsedClaims
<1>1. ASSUME NEW x \in area \cup ({fresh} \ {NoExtent})
      PROVE  Claim("area", 0, 0, x) \in UsedClaims /\ Bytes(x) \subseteq Used
  <2>1. PICK c : c = Claim("area", 0, 0, x)
    OBVIOUS
  <2>2. c \in UsedClaims
    BY <1>1, <2>1 DEF UsedClaims
  <2>3. Bytes(c) = Bytes(x)
    BY <2>1, ClaimBytes
  <2>4. QED
    BY <2>1, <2>2, <2>3 DEF Used, BytesOfAll
<1>2. QED
  BY <1>1

LEMMA StoreNewSafe ==
    ASSUME IInv, NEW b \in DOMAIN bucket, NEW m \in AreaSizes, StoreNew(b, m)
    PROVE  IInv'
<1>1. World(db, db.size, bucket, cur, Used) /\ Separate(UsedClaims) /\ AreasOK /\ CallOK
  BY DEF IInv
<1>2. PICK r : /\ r = Alloc(InBucket(b), m)
               /\ Current(b, r.d)
               /\ IF BucketFull(b)
                  THEN /\ db' = r.d
                       /\ fresh' = Extent(r.adr, m)
                       /\ pc' = "split"
                       /\ UNCHANGED area
                  ELSE /\ db' = EndUpdate(r.d)
                       /\ area' = area \cup {Area(Extent(r.adr, m), b)}
                       /\ UNCHANGED <<pc, fresh>>
  BY DEF StoreNew
<1>3. pc = "idle" /\ olds = <<>> /\ fresh = NoExtent /\ UNCHANGED <<dir, olds>>
  BY <1>1 DEF StoreNew, Call, CallOK
<1>4. PICK e : e = Extent(r.adr, m)
  OBVIOUS
<1>5. PICK O : O = OthersOf(bucket, b)
  OBVIOUS
<1>6. Placed(r, e, m, db.size, UsedClaims, O)
  <2>1. Good(InBucket(b), db.size, Used \cup O)
    BY <1>1, <1>5, Enter DEF InBucket
  <2>2. BytesOfAll(UsedClaims) \cap O = {}
    BY <1>1, <1>5, TablesOff DEF Used
  <2>3. m \in Nat \ {0}
    BY SizesAssumption
  <2>4. QED
    BY <1>1, <1>2, <1>4, <2>1, <2>2, <2>3, PlacedBy DEF Used
<1>7. PICK C : C = UsedClaims \cup {Claim("area", 0, 0, e)}
  OBVIOUS
<1>8. /\ e \in Sized /\ Separate(C) /\ Bytes(e) \cap Used = {}
      /\ BytesOfAll(C) \cap O = {} /\ Good(r.d, db.size, BytesOfAll(C) \cup O)
  BY <1>6, <1>7 DEF Placed, Used
<1>9. DOMAIN bucket' = DOMAIN bucket
  BY <1>2, SameDomain
<1>10. (UsedClaims)' \subseteq C
  <2>1. Claim("area", 0, 0, Area(e, b)) = Claim("area", 0, 0, e)
    BY <1>8 DEF Claim, Area, Sized
  <2>2. area' \cup ({fresh'} \ {NoExtent}) \subseteq area \cup {e, Area(e, b)}
    BY <1>2, <1>3, <1>4
  <2>4. \A y \in Areas' : \/ Claim("area", 0, 0, y) = Claim("area", 0, 0, e)
                          \/ y \in Areas /\ Claim("area", 0, 0, y) \notin {}
    BY <2>1, <2>2 DEF Areas
  <2>5. Changed(Areas', Areas, {}, e)
    BY <2>4 DEF Changed
  <2>6. ClaimsOf(dir, DOMAIN bucket, Areas', olds) \subseteq
          (ClaimsOf(dir, DOMAIN bucket, Areas, olds) \ {}) \cup {Claim("area", 0, 0, e)}
    BY <2>5, ClaimsChange
  <2>7. QED
    BY <1>3, <1>7, <1>9, <2>6, UsedIs
<1>11. World(db, db.size, bucket, cur, Used)' /\ Separate(UsedClaims)'
  BY <1>2, <1>5, <1>8, <1>10, WorldNext
<1>12. \A x \in area : Bytes(x) \cap Bytes(e) = {}
  BY <1>8, AreaUsed
<1>13. AreasOK'
  <2>1. CASE BucketFull(b)
    <3>1. fresh' = e /\ area' = area
      BY <1>2, <1>4, <2>1
    <3>2. QED
      BY <1>1, <1>8, <1>9, <1>12, <3>1 DEF AreasOK
  <2>2. CASE ~BucketFull(b)
    <3>1. fresh' = fresh /\ area' = area \cup {Area(e, b)}
      BY <1>2, <1>4, <2>2
    <3>2. /\ Area(e, b) \in [adr : Nat, size : Nat \ {0}, bucket : DOMAIN bucket]
          /\ Bytes(Area(e, b)) = Bytes(e)
      BY <1>8 DEF Area, Sized, Bytes
    <3>3. Bytes(fresh) = {}
      BY <1>3 DEF NoExtent, Extent, Bytes
    <3>4. QED
      BY <1>1, <1>9, <1>12, <3>1, <3>2, <3>3 DEF AreasOK
  <2>3. QED
    BY <2>1, <2>2
<1>14. CallOK'
  <2>1. CASE BucketFull(b)
    <3>1. fresh' = e /\ pc' = "split"
      BY <1>2, <1>4, <2>1
    <3>2. e # NoExtent
      BY <1>8 DEF Sized, NoExtent, Extent
    <3>3. QED
      BY <1>1, <1>3, <3>1, <3>2 DEF CallOK
  <2>2. CASE ~BucketFull(b)
    <3>1. fresh' = fresh /\ pc' = pc /\ db' = EndUpdate(r.d)
      BY <1>2, <2>2
    <3>2. ~db'.header_changed
      BY <1>8, <3>1 DEF EndUpdate, Good, Shape, Descriptors
    <3>3. QED
      BY <1>1, <1>3, <3>1, <3>2 DEF CallOK
  <2>3. QED
    BY <2>1, <2>2
<1>15. QED
  BY <1>11, <1>13, <1>14 DEF IInv

\* What a call on an idle database leaves of the split that is not under way.
LEMMA EndsIdle ==
    ASSUME CallOK, pc = "idle", UNCHANGED <<pc, olds, fresh>>, NEW d, NEW n, NEW F,
           Good(d, n, F), db' = EndUpdate(d)
    PROVE  CallOK'
<1>1. ~db'.header_changed
  BY DEF EndUpdate, Good, Shape, Descriptors
<1>2. QED
  BY <1>1 DEF CallOK

\* Area x of bucket b is claimed no more, the other areas are; C are the claims left, O
\* is the space in the tables of the other buckets.
Released(x, b, d, n, C, O) ==
    /\ b \in DOMAIN bucket /\ Separate(C) /\ BytesOfAll(C) \cap O = {}
    /\ Good(d, n, BytesOfAll(C) \cup O)
    /\ \A y \in area \ {x} : Claim("area", 0, 0, y) \in C /\ Bytes(y) \subseteq BytesOfAll(C)

LEMMA AreaFreed ==
    ASSUME IInv, NEW x \in area, NEW C, C = UsedClaims \ {Claim("area", 0, 0, x)},
           NEW b, b = x.bucket, NEW O, O = OthersOf(bucket, b),
           NEW d, d = Free(InBucket(b), Extent(x.adr, x.size)), NEW n, n = db.size
    PROVE  Released(x, b, d, n, C, O)
<1>1. World(db, db.size, bucket, cur, Used) /\ Separate(UsedClaims) /\ AreasOK
  BY DEF IInv
<1>2. b \in DOMAIN bucket /\ x.adr \in Nat /\ x.size \in Nat \ {0}
  BY <1>1 DEF AreasOK
<1>3. PICK c : c = Claim("area", 0, 0, x)
  OBVIOUS
<1>4. c \in UsedClaims /\ Bytes(c) = Bytes(x)
  BY <1>3, AreaUsed, ClaimBytes
<1>5. Separate(C) /\ BytesOfAll(C) \cap Bytes(x) = {} /\ Used = BytesOfAll(C) \cup Bytes(x)
  BY <1>1, <1>3, <1>4, SeparateLess, SeparateWithout DEF Used
<1>6. PICK e : e = Extent(x.adr, x.size)
  OBVIOUS
<1>7. e \in RawExtents /\ Bytes(e) = Bytes(x)
  BY <1>2, <1>6 DEF Extent, RawExtents, Bytes
<1>8. Used \cap O = {}
  BY <1>1, TablesOff
<1>9. Good(InBucket(b), db.size, Used \cup O)
  BY <1>1, <1>2, Enter DEF InBucket
<1>10. Spare(InBucket(b), db.size, BytesOfAll(C) \cup O, e)
  <2>1. (BytesOfAll(C) \cup O) \cup Bytes(e) \subseteq Used \cup O
    BY <1>5, <1>7
  <2>2. Good(InBucket(b), db.size, (BytesOfAll(C) \cup O) \cup Bytes(e))
    BY <1>9, <2>1, GoodLess
  <2>3. Bytes(e) \cap (BytesOfAll(C) \cup O) = {}
    BY <1>5, <1>7, <1>8
  <2>4. QED
    BY <1>7, <2>2, <2>3 DEF Spare
<1>11. Good(d, db.size, BytesOfAll(C) \cup O)
  BY <1>6, <1>10, FreeGood
<1>12. ASSUME NEW y \in area \ {x}
       PROVE  Claim("area", 0, 0, y) \in C /\ Bytes(y) \subseteq BytesOfAll(C)
  <2>1. PICK k : k = Claim("area", 0, 0, y)
    OBVIOUS
  <2>2. k \in UsedClaims /\ Bytes(k) = Bytes(y)
    BY <1>12, <2>1, AreaUsed, ClaimBytes
  <2>3. Bytes(x) # {} /\ Bytes(x) \cap Bytes(y) = {}
    BY <1>1, <1>2, <1>12, SomeByte DEF AreasOK
  <2>4. k # c
    BY <1>4, <2>2, <2>3
  <2>5. k \in C
    BY <1>3, <2>2, <2>4
  <2>6. QED
    BY <2>1, <2>2, <2>5 DEF BytesOfAll
<1>13. BytesOfAll(C) \cap O = {}
  BY <1>5, <1>8
<1>14. QED
  BY <1>2, <1>5, <1>11, <1>12, <1>13 DEF Released

LEMMA StoreReplaceSafe ==
    ASSUME IInv, NEW x \in area, NEW m \in AreaSizes, StoreReplace(x, m)
    PROVE  IInv'
<1>1. AreasOK /\ CallOK
  BY DEF IInv
<1>2. PICK b : b = x.bucket
  OBVIOUS
<1>3. PICK d : d = Free(InBucket(b), Extent(x.adr, x.size))
  OBVIOUS
<1>4. PICK r : r = Alloc(d, m)
  OBVIOUS
<1>5. PICK e : e = Extent(r.adr, m)
  OBVIOUS
<1>6. /\ Current(b, r.d) /\ db' = EndUpdate(r.d) /\ UNCHANGED <<dir, pc, olds, fresh>>
      /\ area' = (area \ {x}) \cup {Area(e, b)} /\ pc = "idle"
  BY <1>2, <1>3, <1>4, <1>5 DEF StoreReplace, Call
<1>7. PICK G : G = {Claim("area", 0, 0, x)}
  OBVIOUS
<1>8. PICK C : C = UsedClaims \ G
  OBVIOUS
<1>9. PICK O : O = OthersOf(bucket, b)
  OBVIOUS
<1>10. /\ b \in DOMAIN bucket /\ Separate(C) /\ BytesOfAll(C) \cap O = {}
       /\ Good(d, db.size, BytesOfAll(C) \cup O)
       /\ \A y \in area \ {x} : Claim("area", 0, 0, y) \in C /\ Bytes(y) \subseteq BytesOfAll(C)
  <2>1. PICK n : n = db.size
    OBVIOUS
  <2>2. C = UsedClaims \ {Claim("area", 0, 0, x)}
    BY <1>7, <1>8
  <2>3. Released(x, b, d, n, C, O)
    BY <1>2, <1>3, <1>9, <2>1, <2>2, AreaFreed
  <2>4. QED
    BY <2>1, <2>3 DEF Released
<1>11. Placed(r, e, m, db.size, C, O)
  <2>1. m \in Nat \ {0}
    BY SizesAssumption
  <2>2. QED
    BY <1>4, <1>5, <1>10, <2>1, PlacedBy
<1>12. PICK D : D = C \cup {Claim("area", 0, 0, e)}
  OBVIOUS
<1>13. /\ e \in Sized /\ Separate(D) /\ Bytes(e) \cap BytesOfAll(C) = {}
       /\ BytesOfAll(D) \cap O = {} /\ Good(r.d, db.size, BytesOfAll(D) \cup O)
  BY <1>11, <1>12 DEF Placed
<1>14. /\ Claim("area", 0, 0, Area(e, b)) = Claim("area", 0, 0, e)
       /\ Bytes(Area(e, b)) = Bytes(e)
       /\ Area(e, b) \in [adr : Nat, size : Nat \ {0}, bucket : DOMAIN bucket]
  BY <1>10, <1>13 DEF Claim, Area, Sized, Bytes
<1>15. fresh = NoExtent /\ Areas' = (area \ {x}) \cup {Area(e, b)}
  BY <1>1, <1>6 DEF CallOK, Areas
<1>16. DOMAIN bucket' = DOMAIN bucket
  BY <1>6, SameDomain
<1>17. (UsedClaims)' \subseteq D
  <2>1. \A c \in G : c.what = "area"
    BY <1>7 DEF Claim
  <2>2. Changed(Areas', Areas, G, e)
    BY <1>8, <1>10, <1>14, <1>15, <2>1 DEF Changed, Areas
  <2>3. ClaimsOf(dir, DOMAIN bucket, Areas', olds) \subseteq
          (ClaimsOf(dir, DOMAIN bucket, Areas, olds) \ G) \cup {Claim("area", 0, 0, e)}
    BY <2>2, ClaimsChange
  <2>4. QED
    BY <1>6, <1>8, <1>12, <1>16, <2>3, UsedIs
<1>18. World(db, db.size, bucket, cur, Used)' /\ Separate(UsedClaims)'
  BY <1>6, <1>9, <1>10, <1>13, <1>17, WorldNext
<1>19. AreasOK'
  <2>1. \A y \in area \ {x} : Bytes(y) \cap Bytes(e) = {}
    BY <1>10, <1>13
  <2>2. Bytes(fresh) = {}
    BY <1>15 DEF NoExtent, Extent, Bytes
  <2>3. QED
    BY <1>1, <1>6, <1>14, <1>16, <2>1, <2>2 DEF AreasOK
<1>20. CallOK'
  BY <1>1, <1>6, <1>13, EndsIdle
<1>21. QED
  BY <1>18, <1>19, <1>20 DEF IInv

LEMMA DeleteSafe ==
    ASSUME IInv, NEW x \in area, Delete(x)
    PROVE  IInv'
<1>1. AreasOK /\ CallOK
  BY DEF IInv
<1>2. PICK b : b = x.bucket
  OBVIOUS
<1>3. PICK d : d = Free(InBucket(b), Extent(x.adr, x.size))
  OBVIOUS
<1>4. /\ Current(b, d) /\ db' = EndUpdate(d) /\ UNCHANGED <<dir, pc, olds, fresh>>
      /\ area' = area \ {x} /\ pc = "idle"
  BY <1>2, <1>3 DEF Delete, Call
<1>5. PICK C : C = UsedClaims \ {Claim("area", 0, 0, x)}
  OBVIOUS
<1>6. PICK O : O = OthersOf(bucket, b)
  OBVIOUS
<1>7. /\ b \in DOMAIN bucket /\ Separate(C) /\ BytesOfAll(C) \cap O = {}
      /\ Good(d, db.size, BytesOfAll(C) \cup O)
      /\ \A y \in area \ {x} : Claim("area", 0, 0, y) \in C
  <2>1. PICK n : n = db.size
    OBVIOUS
  <2>2. Released(x, b, d, n, C, O)
    BY <1>2, <1>3, <1>5, <1>6, <2>1, AreaFreed
  <2>3. QED
    BY <2>1, <2>2 DEF Released
<1>8. fresh = NoExtent /\ Areas = area /\ Areas' = area \ {x}
  BY <1>1, <1>4 DEF CallOK, Areas
<1>9. DOMAIN bucket' = DOMAIN bucket
  BY <1>4, SameDomain
<1>10. (UsedClaims)' \subseteq C
  <2>1. \A c \in FileClaims(dir, DOMAIN bucket, olds) : c \in C
    <3>1. ASSUME NEW c \in FileClaims(dir, DOMAIN bucket, olds)
          PROVE  c \in C
      <4>1. c.what # "area"
        BY NotAreas
      <4>2. c # Claim("area", 0, 0, x)
        BY <4>1 DEF Claim
      <4>3. QED
        BY <1>5, <4>2, UsedIs DEF ClaimsOf
    <3>2. QED
      BY <3>1
  <2>2. QED
    BY <1>4, <1>7, <1>8, <1>9, <2>1, UsedIs DEF ClaimsOf
<1>11. World(db, db.size, bucket, cur, Used)' /\ Separate(UsedClaims)'
  BY <1>4, <1>6, <1>7, <1>10, WorldNext
<1>12. AreasOK'
  BY <1>1, <1>4, <1>9 DEF AreasOK
<1>13. CallOK'
  BY <1>1, <1>4, <1>7, EndsIdle
<1>14. QED
  BY <1>11, <1>12, <1>13 DEF IInv

-----------------------------------------------------------------------------
(* A split. *)

\* What is allocated is nobody else's, and has at least one byte.
LEMMA Allotted ==
    ASSUME NEW d, NEW n, NEW F, Good(d, n, F), NEW m \in Nat \ {0}, NEW r, r = Alloc(d, m),
           NEW e, e = Extent(r.adr, m)
    PROVE  /\ e \in Sized /\ e \in RawExtents /\ Bytes(e) \cap F = {}
           /\ Good(r.d, n, F \cup Bytes(e))
<1>1. Spare(r.d, n, F, e)
  BY AllocGood
<1>2. e \in RawExtents /\ Bytes(e) \cap F = {} /\ Good(r.d, n, F \cup Bytes(e))
  BY <1>1 DEF Spare
<1>3. e \in Sized
  BY <1>2 DEF RawExtents, Extent, Sized
<1>4. QED
  BY <1>2, <1>3

LEMMA BlockIsNat == BlockSize \in Nat \ {0} /\ BlockSize > IgnoreSize
  BY SizesAssumption

LEMMA ATable ==
    ASSUME NEW e \in Extents
    PROVE  Table(<<e>>) /\ Len(<<e>>) = 1 /\ BytesOf(<<e>>) = Bytes(e)
<1>1. PICK t : t = <<e>>
  OBVIOUS
<1>2. t \in Seq(Extents) /\ Len(t) = 1 /\ t[1] = e
  BY <1>1
<1>3. 1 .. Len(t) = {1}
  BY <1>2
<1>4. Table(t)
  BY <1>2, <1>3 DEF Table, Ascending, Apart, Extents
<1>5. BytesOf(t) = Bytes(e)
  BY <1>2, <1>3 DEF BytesOf
<1>6. QED
  BY <1>1, <1>2, <1>4, <1>5

LEMMA TailOf ==
    ASSUME NEW t, Table(t), t # <<>>, NEW u, u = Tail(t)
    PROVE  /\ Table(u) /\ Len(u) = Len(t) - 1 /\ t[1] \in Extents
           /\ BytesOf(u) \subseteq BytesOf(t) /\ Bytes(t[1]) \subseteq BytesOf(t)
           /\ Bytes(t[1]) \cap BytesOf(u) = {}
<1>1. t \in Seq(Extents) /\ Len(t) \in Nat /\ Len(t) # 0
  BY EmptySeq DEF Table
<1>2. u \in Seq(Extents) /\ Len(u) = Len(t) - 1 /\ \A i \in 1 .. Len(u) : u[i] = t[i + 1]
  BY <1>1
<1>3. t[1] \in Extents /\ 1 \in 1 .. Len(t)
  BY <1>1
<1>4. Ascending(u)
  BY <1>1, <1>2 DEF Table, Ascending
<1>5. Apart(u)
  BY <1>1, <1>2 DEF Table, Apart
<1>6. BytesOf(u) \subseteq BytesOf(t)
  BY <1>1, <1>2 DEF BytesOf
<1>7. Bytes(t[1]) \subseteq BytesOf(t)
  BY <1>3 DEF BytesOf
<1>8. Bytes(t[1]) \cap BytesOf(u) = {}
  <2>1. \A i \in 1 .. Len(u) : Bytes(t[1]) \cap Bytes(u[i]) = {}
    BY <1>1, <1>2, <1>3 DEF Table, Apart
  <2>2. QED
    BY <2>1 DEF BytesOf
<1>9. QED
  BY <1>2, <1>3, <1>4, <1>5, <1>6, <1>7, <1>8 DEF Table

\* s and t, both with room for an entry, share what t was and extent e.
Shared(s, t, u, e) ==
    /\ Table(s) /\ Len(s) < BucketAvail /\ Table(t) /\ Len(t) < BucketAvail
    /\ BytesOf(s) \cap BytesOf(t) = {}
    /\ BytesOf(s) \subseteq BytesOf(u) \cup Bytes(e)
    /\ BytesOf(t) \subseteq BytesOf(u) \cup Bytes(e)

LEMMA SplitTablesShare ==
    ASSUME NEW d, Table(d.table), Len(d.table) <= BucketAvail, NEW e \in Extents,
           Bytes(e) \cap BytesOf(d.table) = {}, NEW r, r = SplitTables(d, e)
    PROVE  Shared(r.t0, r.t1, d.table, e)
<1>1. PICK u : u = d.table
  OBVIOUS
<1>2. Table(u) /\ Len(u) \in Nat /\ Len(u) <= BucketAvail /\ Bytes(e) \cap BytesOf(u) = {}
  BY <1>1 DEF Table
<1>3. BucketAvail \in Nat /\ BucketAvail > 2
  BY SizesAssumption
<1>4. PICK o : o = <<e>>
  OBVIOUS
<1>5. Table(o) /\ Len(o) = 1 /\ BytesOf(o) = Bytes(e)
  BY <1>4, ATable
<1>6. CASE Len(u) = BucketAvail
  <2>1. u # <<>>
    BY <1>2, <1>3, <1>6, EmptySeq DEF Table
  <2>2. PICK s : s = Tail(u)
    OBVIOUS
  <2>3. PICK f : f = u[1]
    OBVIOUS
  <2>4. /\ Table(s) /\ Len(s) = Len(u) - 1 /\ f \in Extents
        /\ BytesOf(s) \subseteq BytesOf(u) /\ Bytes(f) \subseteq BytesOf(u)
        /\ Bytes(f) \cap BytesOf(s) = {}
    BY <1>2, <2>1, <2>2, <2>3, TailOf
  <2>5. PICK t : t = PutAvElem(f, o, d.coalesce_blocks)
    OBVIOUS
  <2>6. PutInto(t, o, f)
    <3>1. f \in [adr : Nat, size : Nat] /\ Bytes(f) \cap BytesOf(o) = {}
      BY <1>2, <1>5, <2>4 DEF Extents
    <3>2. QED
      BY <1>5, <2>5, <3>1, PutAvElemPuts
  <2>7. Table(t) /\ Len(t) <= 2 /\ BytesOf(t) \subseteq Bytes(e) \cup Bytes(f)
    BY <1>5, <2>6 DEF PutInto
  <2>8. r.t0 = s /\ r.t1 = t
    BY <1>1, <1>4, <1>6, <2>2, <2>3, <2>5 DEF SplitTables
  <2>9. Len(s) < BucketAvail /\ Len(t) < BucketAvail
    <3>1. Len(t) \in Nat /\ Len(s) \in Nat
      BY <2>4, <2>7 DEF Table
    <3>2. QED
      BY <1>2, <1>3, <2>4, <2>7, <3>1
  <2>10. BytesOf(s) \cap BytesOf(t) = {}
    BY <1>2, <2>4, <2>7
  <2>11. BytesOf(s) \subseteq BytesOf(u) \cup Bytes(e) /\ BytesOf(t) \subseteq BytesOf(u) \cup Bytes(e)
    BY <2>4, <2>7
  <2>12. Shared(s, t, u, e)
    BY <2>4, <2>7, <2>9, <2>10, <2>11 DEF Shared
  <2>13. QED
    BY <1>1, <2>8, <2>12
<1>7. CASE Len(u) # BucketAvail
  <2>1. r.t0 = u /\ r.t1 = o
    BY <1>1, <1>4, <1>7 DEF SplitTables
  <2>2. Len(u) < BucketAvail /\ Len(o) < BucketAvail
    BY <1>2, <1>3, <1>5, <1>7
  <2>3. Shared(u, o, u, e)
    BY <1>2, <1>5, <2>2 DEF Shared
  <2>4. QED
    BY <1>1, <2>1, <2>3
<1>8. QED
  BY <1>6, <1>7

\* Space that belongs to nobody is added to one of the tables.
LEMMA OldAdded ==
    ASSUME NEW t, Table(t), Len(t) < BucketAvail, Len(t) \in Nat, NEW o \in RawExtents,
           Bytes(o) \cap BytesOf(t) = {}, NEW can_merge, NEW r, r = PutAvElem(o, t, can_merge)
    PROVE  /\ Table(r) /\ Len(r) <= BucketAvail
           /\ BytesOf(r) \subseteq BytesOf(t) \cup Bytes(o)
<1>1. o \in [adr : Nat, size : Nat]
  BY DEF RawExtents
<1>2. PutInto(r, t, o)
  BY <1>1, PutAvElemPuts
<1>3. Table(r) /\ Len(r) <= Len(t) + 1 /\ BytesOf(r) \subseteq BytesOf(t) \cup Bytes(o)
  BY <1>2 DEF PutInto
<1>4. Len(r) \in Nat /\ BucketAvail \in Nat
  BY <1>3, SizesAssumption DEF Table
<1>5. QED
  BY <1>3, <1>4

\* The buckets A are the buckets B with b split: p and q, with the avail tables s and t.
Rebuilt(A, B, b, p, q, s, t, k) ==
    /\ DOMAIN A = (DOMAIN B \ {b}) \cup {p, q}
    /\ A = [c \in DOMAIN A |-> A[c]]
    /\ A[p] = [avail |-> s, bits |-> k] /\ A[q] = [avail |-> t, bits |-> k]
    /\ \A c \in DOMAIN B \ {b} : c # p /\ c # q => A[c] = B[c]

LEMMA Divided ==
    ASSUME NEW d, NEW n, NEW B, NEW b, NEW U, World(d, n, B, b, U), NEW p, NEW q, p # q,
           NEW s, Table(s), Len(s) <= BucketAvail, NEW t, NEW k \in Nat,
           NEW O, O = OthersOf(B, b), NEW V, V \cap O = {}, V \cap BytesOf(s) = {},
           BytesOf(s) \cap O = {},
           NEW r, Good(r, n, (V \cup O) \cup BytesOf(s)), r.table = t,
           NEW A, Rebuilt(A, B, b, p, q, s, t, k)
    PROVE  World(r, n, A, q, V)
<1>1. /\ Table(t) /\ Len(t) <= BucketAvail
      /\ BytesOf(t) \cap ((V \cup O) \cup BytesOf(s)) = {}
  BY DEF Good, Shape, Exclusive
<1>2. /\ DOMAIN A = (DOMAIN B \ {b}) \cup {p, q} /\ A = [c \in DOMAIN A |-> A[c]]
      /\ A[p] = [avail |-> s, bits |-> k] /\ A[q] = [avail |-> t, bits |-> k]
      /\ \A c \in DOMAIN B \ {b} : c # p /\ c # q => A[c] = B[c]
  BY DEF Rebuilt
<1>3. \A c \in DOMAIN A : c = p \/ c = q \/ (c \in DOMAIN B \ {b} /\ A[c] = B[c])
  BY <1>2
<1>4. \A c \in DOMAIN B \ {b} : /\ B[c] \in Buckets /\ Table(B[c].avail)
                                /\ Len(B[c].avail) <= BucketAvail
                                /\ BytesOf(B[c].avail) \subseteq O
  BY DEF World, OthersOf
<1>5. A[p].avail = s /\ A[q].avail = t /\ A[p] \in Buckets /\ A[q] \in Buckets
  BY <1>1, <1>2 DEF Table, Buckets
<1>6. A \in [DOMAIN A -> Buckets]
  <2>1. \A c \in DOMAIN A : A[c] \in Buckets
    BY <1>3, <1>4, <1>5
  <2>2. QED
    BY <1>2, <2>1
<1>7. ASSUME NEW c \in DOMAIN A
      PROVE  /\ Table(A[c].avail) /\ Len(A[c].avail) <= BucketAvail
             /\ BytesOf(A[c].avail) \cap V = {}
  <2>1. CASE c = p
    BY <1>5, <2>1
  <2>2. CASE c = q
    BY <1>1, <1>5, <2>2
  <2>3. CASE c \in DOMAIN B \ {b} /\ A[c] = B[c]
    BY <1>4, <2>3
  <2>4. QED
    BY <1>3, <1>7, <2>1, <2>2, <2>3
<1>8. ASSUME NEW c \in DOMAIN A, NEW e \in DOMAIN A, c # e
      PROVE  BytesOf(A[c].avail) \cap BytesOf(A[e].avail) = {}
  <2>1. ASSUME NEW f \in DOMAIN A, f # p, f # q
        PROVE  BytesOf(A[f].avail) \subseteq O
    BY <1>3, <1>4, <2>1
  <2>2. BytesOf(s) \cap BytesOf(t) = {} /\ BytesOf(t) \cap O = {}
    BY <1>1
  <2>3. CASE c \in {p, q} /\ e \in {p, q}
    BY <1>5, <1>8, <2>2, <2>3
  <2>4. CASE c \in {p, q} /\ e \notin {p, q}
    BY <1>5, <2>1, <2>2, <2>4
  <2>5. CASE c \notin {p, q} /\ e \in {p, q}
    BY <1>5, <2>1, <2>2, <2>5
  <2>6. CASE c \notin {p, q} /\ e \notin {p, q}
    <3>1. c \in DOMAIN B /\ e \in DOMAIN B /\ A[c] = B[c] /\ A[e] = B[e]
      BY <1>3, <2>6
    <3>2. QED
      BY <1>8, <3>1 DEF World
  <2>7. QED
    BY <2>3, <2>4, <2>5, <2>6
<1>9. OthersOf(A, q) \subseteq O \cup BytesOf(s)
  <2>1. ASSUME NEW c \in DOMAIN A \ {q}
        PROVE  BytesOf(A[c].avail) \subseteq O \cup BytesOf(s)
    <3>1. CASE c = p
      BY <1>5, <3>1
    <3>2. CASE c # p
      <4>1. c \in DOMAIN B \ {b} /\ A[c] = B[c]
        BY <1>3, <2>1, <3>2
      <4>2. QED
        BY <1>4, <4>1
    <3>3. QED
      BY <3>1, <3>2
  <2>2. QED
    BY <2>1 DEF OthersOf
<1>10. Good(r, n, V \cup OthersOf(A, q))
  <2>1. V \cup OthersOf(A, q) \subseteq (V \cup O) \cup BytesOf(s)
    BY <1>9
  <2>2. QED
    BY <2>1, GoodLess
<1>11. QED
  BY <1>2, <1>5, <1>6, <1>7, <1>8, <1>10 DEF World

\* One claim makes room for another one on the same bytes.
LEMMA SeparateSwap ==
    ASSUME NEW C, Separate(C), NEW c \in C, NEW k, k.adr = c.adr, k.size = c.size
    PROVE  /\ Separate((C \ {c}) \cup {k})
           /\ BytesOfAll((C \ {c}) \cup {k}) = BytesOfAll(C)
<1>1. PICK D : D = C \ {c}
  OBVIOUS
<1>2. Separate(D) /\ BytesOfAll(D) \cap Bytes(c) = {} /\ BytesOfAll(C) = BytesOfAll(D) \cup Bytes(c)
  BY <1>1, SeparateLess, SeparateWithout
<1>3. Bytes(k) = Bytes(c) /\ k.adr \in Nat /\ k.size \in Nat \ {0}
  BY DEF Bytes, Separate
<1>4. Bytes(k) \cap BytesOfAll(D) = {}
  BY <1>2, <1>3
<1>5. Separate(D \cup {k}) /\ BytesOfAll(D \cup {k}) = BytesOfAll(D) \cup Bytes(k)
  BY <1>2, <1>3, <1>4, SeparateMore
<1>6. QED
  BY <1>1, <1>2, <1>3, <1>5

BucketClaim(b) == Claim("bucket", b, 0, Extent(b, BlockSize))

\* What a claim is about, and whose it is.
LEMMA KindOf ==
    ASSUME NEW what, NEW owner, NEW i, NEW e
    PROVE  Claim(what, owner, i, e).what = what /\ Claim(what, owner, i, e).owner = owner
  BY DEF Claim

LEMMA OldKind ==
    ASSUME NEW t, NEW c \in TableClaims("old directory", 0, t)
    PROVE  c.what = "old directory"
<1>1. PICK i \in 1 .. Len(t) : c = Claim("old directory", 0, i, t[i])
  BY DEF TableClaims
<1>2. QED
  BY <1>1 DEF Claim

LEMMA KindsOf ==
    ASSUME NEW r, NEW B, NEW X, NEW t, NEW c \in ClaimsOf(r, B, X, t)
    PROVE  \/ c = Claim("header", 0, 0, Extent(0, BlockSize))
           \/ c = Claim("directory", 0, 0, r)
           \/ \E b \in B : c = BucketClaim(b)
           \/ \E x \in X : c = Claim("area", 0, 0, x)
           \/ c \in TableClaims("old directory", 0, t)
<1>1. CASE c \in FileClaims(r, B, t)
  BY <1>1 DEF FileClaims, BucketClaim
<1>2. CASE c \in {Claim("area", 0, 0, x) : x \in X}
  BY <1>2
<1>3. QED
  BY <1>1, <1>2 DEF ClaimsOf

\* The claims on bucket b are given up, those on p and q are new.
Rebucketed(C, b, p, q) ==
    ((C \ {BucketClaim(b)}) \cup {BucketClaim(p)}) \cup {BucketClaim(q)}

LEMMA SplitClaims ==
    ASSUME NEW r, NEW B, NEW X, NEW t, NEW b, NEW p, NEW q, NEW A, A = (B \ {b}) \cup {p, q}
    PROVE  ClaimsOf(r, A, X, t) \subseteq Rebucketed(ClaimsOf(r, B, X, t), b, p, q)
<1>1. SUFFICES ASSUME NEW c \in ClaimsOf(r, A, X, t), c # BucketClaim(p), c # BucketClaim(q)
               PROVE  c \in ClaimsOf(r, B, X, t) /\ c # BucketClaim(b)
  BY DEF Rebucketed
<1>2. CASE \E a \in A : c = BucketClaim(a)
  <2>1. PICK a \in A : c = BucketClaim(a)
    BY <1>2
  <2>2. a \in B /\ a # b
    BY <1>1, <2>1
  <2>3. c.owner = a /\ BucketClaim(b).owner = b
    BY <2>1, KindOf DEF BucketClaim
  <2>4. QED
    BY <2>1, <2>2, <2>3 DEF ClaimsOf, FileClaims, BucketClaim
<1>3. CASE ~ \E a \in A : c = BucketClaim(a)
  <2>1. BucketClaim(b).what = "bucket"
    BY KindOf DEF BucketClaim
  <2>2. CASE \/ c = Claim("header", 0, 0, Extent(0, BlockSize))
             \/ c = Claim("directory", 0, 0, r)
    <3>1. c.what # "bucket"
      BY <2>2, KindOf
    <3>2. QED
      BY <2>1, <2>2, <3>1 DEF ClaimsOf, FileClaims
  <2>3. CASE \E x \in X : c = Claim("area", 0, 0, x)
    <3>1. PICK x \in X : c = Claim("area", 0, 0, x)
      BY <2>3
    <3>2. c.what = "area"
      BY <3>1, KindOf
    <3>3. QED
      BY <2>1, <3>1, <3>2 DEF ClaimsOf
  <2>4. CASE c \in TableClaims("old directory", 0, t)
    <3>1. c.what = "old directory"
      BY <2>4, OldKind
    <3>2. QED
      BY <2>1, <2>4, <3>1 DEF ClaimsOf, FileClaims
  <2>5. QED
    BY <1>1, <1>3, <2>2, <2>3, <2>4, KindsOf
<1>4. QED
  BY <1>2, <1>3

\* A directory is put aside for another one.
Redirected(C, r, i, e, v) ==
    ((C \ {Claim("directory", 0, 0, r)}) \cup {Claim("old directory", 0, i, e)})
       \cup {Claim("directory", 0, 0, v)}

LEMMA DirClaims ==
    ASSUME NEW r, NEW B, NEW X, NEW t \in Seq(Sized), NEW e \in Sized, NEW s, s = Append(t, e),
           NEW v, NEW i, i = Len(t) + 1
    PROVE  ClaimsOf(v, B, X, s) \subseteq Redirected(ClaimsOf(r, B, X, t), r, i, e, v)
<1>1. SUFFICES ASSUME NEW c \in ClaimsOf(v, B, X, s), c # Claim("old directory", 0, i, e),
                      c # Claim("directory", 0, 0, v)
               PROVE  c \in ClaimsOf(r, B, X, t) /\ c # Claim("directory", 0, 0, r)
  BY DEF Redirected
<1>2. Claim("directory", 0, 0, r).what = "directory"
  BY KindOf
<1>3. CASE c = Claim("header", 0, 0, Extent(0, BlockSize))
  <2>1. c.what = "header"
    BY <1>3, KindOf
  <2>2. QED
    BY <1>2, <1>3, <2>1 DEF ClaimsOf, FileClaims
<1>4. CASE \E b \in B : c = BucketClaim(b)
  <2>1. PICK b \in B : c = BucketClaim(b)
    BY <1>4
  <2>2. c.what = "bucket"
    BY <2>1, KindOf DEF BucketClaim
  <2>3. QED
    BY <1>2, <2>1, <2>2 DEF ClaimsOf, FileClaims, BucketClaim
<1>5. CASE \E x \in X : c = Claim("area", 0, 0, x)
  <2>1. PICK x \in X : c = Claim("area", 0, 0, x)
    BY <1>5
  <2>2. c.what = "area"
    BY <2>1, KindOf
  <2>3. QED
    BY <1>2, <2>1, <2>2 DEF ClaimsOf
<1>6. CASE c \in TableClaims("old directory", 0, s)
  <2>1. PICK j \in 1 .. Len(s) : c = Claim("old directory", 0, j, s[j])
    BY <1>6 DEF TableClaims
  <2>2. /\ Len(s) = Len(t) + 1 /\ s[Len(t) + 1] = e /\ \A k \in 1 .. Len(t) : s[k] = t[k]
        /\ Len(t) \in Nat
    OBVIOUS
  <2>3. j # i
    BY <1>1, <2>1, <2>2 DEF Claim
  <2>4. j \in 1 .. Len(t) /\ s[j] = t[j]
    BY <2>2, <2>3
  <2>5. c \in TableClaims("old directory", 0, t)
    BY <2>1, <2>4 DEF TableClaims
  <2>6. c.what = "old directory"
    BY <1>6, OldKind
  <2>7. QED
    BY <1>2, <2>5, <2>6 DEF ClaimsOf, FileClaims
<1>7. QED
  BY <1>1, <1>3, <1>4, <1>5, <1>6, KindsOf

LEMMA WorldAfter ==
    ASSUME NEW n, NEW V, World(db', n, bucket', cur', V), NEW C, Separate(C),
           BytesOfAll(C) \subseteq V, (UsedClaims)' \subseteq C
    PROVE  World(db, db.size, bucket, cur, Used)' /\ Separate(UsedClaims)'
<1>1. Separate((UsedClaims)') /\ BytesOfAll((UsedClaims)') \subseteq V
  BY SeparateLess
<1>2. World(db', n, bucket', cur', BytesOfAll((UsedClaims)'))
  BY <1>1, WorldLess
<1>3. db'.size = n
  BY DEF World, Good, Shape
<1>4. Used' = BytesOfAll((UsedClaims)')
  BY DEF Used, BytesOfAll, Bytes
<1>5. World(db, db.size, bucket, cur, Used)'
  BY <1>2, <1>3, <1>4
<1>6. QED
  BY <1>1, <1>5

LEMMA TwoBucketsIs ==
    ASSUME NEW a, a = Alloc(db, BlockSize), NEW b, b = Alloc(a.d, BlockSize)
    PROVE  TwoBuckets = [d |-> b.d, adr_0 |-> a.adr, adr_1 |-> b.adr]
  BY SMT DEF TwoBuckets, With

\* Two blocks have been allocated for the two buckets.
TwoBlocks(r, n, F, e, f) ==
    /\ e \in Sized /\ e \in RawExtents /\ f \in Sized /\ f \in RawExtents
    /\ Bytes(e) \cap F = {} /\ Bytes(f) \cap (F \cup Bytes(e)) = {}
    /\ Good(r.d, n, (F \cup Bytes(e)) \cup Bytes(f))

LEMMA TwoBucketsGood ==
    ASSUME NEW n, NEW F, Good(db, n, F), NEW r, r = TwoBuckets,
           NEW e, e = Extent(r.adr_0, BlockSize), NEW f, f = Extent(r.adr_1, BlockSize)
    PROVE  TwoBlocks(r, n, F, e, f)
<1>1. PICK a : a = Alloc(db, BlockSize)
  OBVIOUS
<1>2. PICK b : b = Alloc(a.d, BlockSize)
  OBVIOUS
<1>3. r.d = b.d /\ r.adr_0 = a.adr /\ r.adr_1 = b.adr
  <2>1. TwoBuckets = [d |-> b.d, adr_0 |-> a.adr, adr_1 |-> b.adr]
    BY <1>1, <1>2, TwoBucketsIs
  <2>2. QED
    BY <2>1
<1>4. /\ e \in Sized /\ e \in RawExtents /\ Bytes(e) \cap F = {}
      /\ Good(a.d, n, F \cup Bytes(e))
  BY <1>1, <1>3, BlockIsNat, Allotted
<1>5. PICK G : G = F \cup Bytes(e)
  OBVIOUS
<1>6. /\ f \in Sized /\ f \in RawExtents /\ Bytes(f) \cap G = {}
      /\ Good(b.d, n, G \cup Bytes(f))
  BY <1>2, <1>3, <1>4, <1>5, BlockIsNat, Allotted
<1>7. QED
  BY <1>3, <1>4, <1>5, <1>6 DEF TwoBlocks

\* The bytes X have been allocated for a new directory, if there is one.
Doubled(r, n, F, X) ==
    /\ X \cap F = {} /\ Good(r.d, n, F \cup X)
    /\ MustDouble => r.dir.adr \in Nat /\ r.dir.size \in Nat \ {0} /\ X = Bytes(r.dir)
    /\ ~MustDouble => r.dir = dir

LEMMA DoubleDirIs ==
    ASSUME NEW d, NEW r, r = Alloc(d, 2 * dir.size)
    PROVE  DoubleDir(d) =
             [d |-> [r.d EXCEPT !.header_changed = TRUE],
              dir |-> [adr |-> r.adr, size |-> 2 * dir.size, bits |-> bucket[cur].bits + 1]]
  BY SMT DEF DoubleDir, With

LEMMA DirGood ==
    ASSUME NEW d, NEW n, NEW F, Good(d, n, F), dir.size \in Nat \ {0},
           NEW r, r = IF MustDouble THEN DoubleDir(d) ELSE [d |-> d, dir |-> dir]
    PROVE  \E X : Doubled(r, n, F, X)
<1>1. CASE MustDouble
  <2>1. PICK m : m = 2 * dir.size
    OBVIOUS
  <2> m \in Nat \ {0}
    BY <2>1
  <2>2. PICK a : a = Alloc(d, m)
    OBVIOUS
  <2>3. PICK e : e = Extent(a.adr, m)
    OBVIOUS
  <2>4. e \in Sized /\ Bytes(e) \cap F = {} /\ Good(a.d, n, F \cup Bytes(e))
    BY ONLY <2>2, <2>3, Good(d, n, F), m \in Nat \ {0}, Allotted
  <2>5. DoubleDir(d) =
          [d |-> [a.d EXCEPT !.header_changed = TRUE],
           dir |-> [adr |-> a.adr, size |-> 2 * dir.size, bits |-> bucket[cur].bits + 1]]
    BY <2>1, <2>2, DoubleDirIs
  <2>6. r.d = [a.d EXCEPT !.header_changed = TRUE] /\ r.dir.adr = a.adr /\ r.dir.size = m
    BY <1>1, <2>1, <2>5
  <2>7. Good(r.d, n, F \cup Bytes(e))
    BY <2>4, <2>6, GoodWithFlag
  <2>8. e.adr = a.adr /\ e.size = m
    BY <2>3 DEF Extent
  <2>9. r.dir.adr \in Nat /\ r.dir.size \in Nat \ {0} /\ Bytes(r.dir) = Bytes(e)
    BY <2>4, <2>6, <2>8 DEF Sized, Bytes
  <2>10. Doubled(r, n, F, Bytes(e))
    BY <1>1, <2>4, <2>7, <2>9 DEF Doubled
  <2>11. QED
    BY <2>10
<1>2. CASE ~MustDouble
  <2>1. r.d = d /\ r.dir = dir
    BY <1>2
  <2>2. F \cup {} = F
    OBVIOUS
  <2>3. Doubled(r, n, F, {})
    BY <1>2, <2>1, <2>2 DEF Doubled
  <2>4. QED
    BY <2>3
<1>3. QED
  BY <1>1, <1>2

\* s and t share what u was and the extents e and o.
SharedAll(s, t, u, e, o) ==
    /\ Table(s) /\ Len(s) <= BucketAvail /\ Table(t) /\ Len(t) <= BucketAvail
    /\ BytesOf(s) \cap BytesOf(t) = {}
    /\ BytesOf(s) \subseteq (BytesOf(u) \cup Bytes(e)) \cup Bytes(o)
    /\ BytesOf(t) \subseteq (BytesOf(u) \cup Bytes(e)) \cup Bytes(o)

LEMMA OldAddedToOne ==
    ASSUME NEW s, NEW t, NEW u, NEW e, Shared(s, t, u, e), NEW o \in RawExtents,
           Bytes(o) \cap (BytesOf(u) \cup Bytes(e)) = {}, NEW can_merge
    PROVE  /\ \A r : r = PutAvElem(o, s, can_merge) => SharedAll(r, t, u, e, o)
           /\ \A r : r = PutAvElem(o, t, can_merge) => SharedAll(s, r, u, e, o)
<1>1. /\ Table(s) /\ Len(s) < BucketAvail /\ Table(t) /\ Len(t) < BucketAvail
      /\ BytesOf(s) \cap BytesOf(t) = {}
      /\ BytesOf(s) \subseteq BytesOf(u) \cup Bytes(e)
      /\ BytesOf(t) \subseteq BytesOf(u) \cup Bytes(e)
      /\ Len(s) \in Nat /\ Len(t) \in Nat
  BY DEF Shared, Table
<1>2. Len(s) <= BucketAvail /\ Len(t) <= BucketAvail
  BY <1>1, SizesAssumption
<1>3. ASSUME NEW r, r = PutAvElem(o, s, can_merge)
      PROVE  SharedAll(r, t, u, e, o)
  <2>1. Bytes(o) \cap BytesOf(s) = {}
    BY <1>1
  <2>2. Table(r) /\ Len(r) <= BucketAvail /\ BytesOf(r) \subseteq BytesOf(s) \cup Bytes(o)
    BY <1>1, <1>3, <2>1, OldAdded
  <2>3. BytesOf(r) \cap BytesOf(t) = {}
    BY <1>1, <2>2
  <2>4. /\ BytesOf(r) \subseteq (BytesOf(u) \cup Bytes(e)) \cup Bytes(o)
        /\ BytesOf(t) \subseteq (BytesOf(u) \cup Bytes(e)) \cup Bytes(o)
    BY <1>1, <2>2
  <2>5. QED
    BY <1>1, <1>2, <2>2, <2>3, <2>4 DEF SharedAll
<1>4. ASSUME NEW r, r = PutAvElem(o, t, can_merge)
      PROVE  SharedAll(s, r, u, e, o)
  <2>1. Bytes(o) \cap BytesOf(t) = {}
    BY <1>1
  <2>2. Table(r) /\ Len(r) <= BucketAvail /\ BytesOf(r) \subseteq BytesOf(t) \cup Bytes(o)
    BY <1>1, <1>4, <2>1, OldAdded
  <2>3. BytesOf(s) \cap BytesOf(r) = {}
    BY <1>1, <2>2
  <2>4. /\ BytesOf(r) \subseteq (BytesOf(u) \cup Bytes(e)) \cup Bytes(o)
        /\ BytesOf(s) \subseteq (BytesOf(u) \cup Bytes(e)) \cup Bytes(o)
    BY <1>1, <2>2
  <2>5. QED
    BY <1>1, <1>2, <2>2, <2>3, <2>4 DEF SharedAll
<1>5. QED
  BY <1>3, <1>4

LEMMA SharedEitherWay ==
    ASSUME NEW s, NEW t, NEW u, NEW e, NEW o, SharedAll(s, t, u, e, o)
    PROVE  SharedAll(t, s, u, e, o)
  BY DEF SharedAll

\* The new buckets have what the old one had, its own space, and block e; Y is what has
\* been allocated for the buckets and the directory.
LEMMA SplitWorld ==
    ASSUME NEW d, NEW n, NEW B, NEW b, NEW U, World(d, n, B, b, U), NEW O, O = OthersOf(B, b),
           NEW Y, Y \cap (U \cup O) = {}, NEW e, Bytes(e) \cap ((U \cup O) \cup Y) = {},
           NEW x, Good(x, n, ((U \cup O) \cup Y) \cup Bytes(e)), NEW o, Bytes(o) \subseteq U,
           NEW s, NEW t, SharedAll(s, t, x.table, e, o), NEW p, NEW q, p # q, NEW k \in Nat,
           NEW r, r = [x EXCEPT !.table = t],
           NEW A, Rebuilt(A, B, b, p, q, s, t, k), NEW V, V = (U \ Bytes(o)) \cup Y
    PROVE  World(r, n, A, q, V)
<1>1. U \cap O = {}
  BY TablesOff
<1>2. PICK u : u = x.table
  OBVIOUS
<1>3. BytesOf(u) \cap (((U \cup O) \cup Y) \cup Bytes(e)) = {}
  BY <1>2 DEF Good, Exclusive
<1>4. /\ Table(s) /\ Len(s) <= BucketAvail /\ Table(t) /\ Len(t) <= BucketAvail
      /\ BytesOf(s) \cap BytesOf(t) = {}
      /\ BytesOf(s) \subseteq (BytesOf(u) \cup Bytes(e)) \cup Bytes(o)
      /\ BytesOf(t) \subseteq (BytesOf(u) \cup Bytes(e)) \cup Bytes(o)
  BY <1>2 DEF SharedAll
<1>5. Bytes(o) \cap V = {} /\ Bytes(o) \cap O = {} /\ V \cap O = {}
  BY <1>1
<1>6. /\ BytesOf(s) \cap V = {} /\ BytesOf(s) \cap O = {}
      /\ BytesOf(t) \cap V = {} /\ BytesOf(t) \cap O = {}
  BY <1>3, <1>4, <1>5
<1>7. PICK F : F = (V \cup O) \cup BytesOf(s)
  OBVIOUS
<1>8. Good(r, n, F)
  <2>1. PICK G : G = ((U \cup O) \cup Y) \cup Bytes(e)
    OBVIOUS
  <2>2. BytesOf(t) \subseteq BytesOf(x.table) \cup G
    BY <1>2, <1>4, <2>1
  <2>3. F \subseteq BytesOf(x.table) \cup G
    BY <1>2, <1>4, <1>7, <2>1
  <2>4. BytesOf(t) \cap F = {}
    BY <1>4, <1>6, <1>7
  <2>5. Good(x, n, G)
    BY <2>1
  <2>6. QED
    BY <1>4, <2>2, <2>3, <2>4, <2>5, GoodWithTable
<1>9. r.table = t
  <2>1. x \in Descriptors
    BY DEF Good, Shape
  <2>2. QED
    BY <2>1 DEF Descriptors
<1>10. Good(r, n, (V \cup O) \cup BytesOf(s))
  BY <1>7, <1>8
<1>11. Table(s) /\ Len(s) <= BucketAvail
  BY <1>4
<1>12. BytesOf(s) \cap O = {} /\ V \cap BytesOf(s) = {} /\ V \cap O = {}
  BY <1>5, <1>6
<1>13. QED
  BY ONLY World(d, n, B, b, U), O = OthersOf(B, b), p # q, k \in Nat,
          Rebuilt(A, B, b, p, q, s, t, k), <1>9, <1>10, <1>11, <1>12, Divided

\* The claims of the header, the directory and the current bucket, and of the others.
LEMMA KnownClaims ==
    ASSUME IInv
    PROVE  /\ dir.adr \in Nat /\ dir.size \in Nat \ {0}
           /\ Claim("directory", 0, 0, dir) \in UsedClaims
           /\ \A b \in DOMAIN bucket : /\ BucketClaim(b) \in UsedClaims /\ b \in Nat
                                       /\ Bytes(Extent(b, BlockSize)) \subseteq Used
<1>1. Separate(UsedClaims)
  BY DEF IInv
<1>2. PICK c : c = Claim("directory", 0, 0, dir)
  OBVIOUS
<1>3. c \in UsedClaims /\ c.adr = dir.adr /\ c.size = dir.size
  <2>1. c \in UsedClaims
    BY <1>2, UsedIs DEF ClaimsOf, FileClaims
  <2>2. QED
    BY <1>2, <2>1 DEF Claim
<1>4. dir.adr \in Nat /\ dir.size \in Nat \ {0}
  BY <1>1, <1>3 DEF Separate
<1>5. ASSUME NEW b \in DOMAIN bucket
      PROVE  /\ BucketClaim(b) \in UsedClaims /\ b \in Nat
             /\ Bytes(Extent(b, BlockSize)) \subseteq Used
  <2>1. PICK e : e = Extent(b, BlockSize)
    OBVIOUS
  <2>2. PICK k : k = Claim("bucket", b, 0, e)
    OBVIOUS
  <2>3. BucketClaim(b) = k /\ k \in UsedClaims
    BY <2>1, <2>2, UsedIs DEF ClaimsOf, FileClaims, BucketClaim
  <2>4. k.adr = e.adr /\ Bytes(k) = Bytes(e)
    BY <2>2, ClaimBytes
  <2>5. b \in Nat
    BY <1>1, <2>1, <2>3, <2>4 DEF Separate, Extent
  <2>6. QED
    BY <2>1, <2>3, <2>4, <2>5 DEF Used, BytesOfAll
<1>6. QED
  BY <1>2, <1>3, <1>4, <1>5

\* The claims D are separate, on the bytes U without those of o but with those of e and f.
Exchanged(D, U, o, e, f) ==
    /\ Separate(D) /\ Bytes(o) \subseteq U
    /\ BytesOfAll(D) = (U \ Bytes(o)) \cup (Bytes(e) \cup Bytes(f))

\* What the buckets of a split claim.
LEMMA SplitBuckets ==
    ASSUME NEW C, Separate(C), NEW b, BucketClaim(b) \in C, NEW U, U = BytesOfAll(C),
           NEW p, NEW q, NEW e, e = Extent(p, BlockSize), NEW f, f = Extent(q, BlockSize),
           e \in Sized, f \in Sized, Bytes(e) \cap U = {}, Bytes(f) \cap (U \cup Bytes(e)) = {},
           NEW D, D = Rebucketed(C, b, p, q), NEW o, o = Extent(b, BlockSize)
    PROVE  Exchanged(D, U, o, e, f)
<1>1. PICK k : k = BucketClaim(b)
  OBVIOUS
<1>2. PICK A : A = C \ {k}
  OBVIOUS
<1>3. Bytes(k) = Bytes(o)
  BY <1>1, ClaimBytes DEF BucketClaim
<1>4. /\ Separate(A) /\ BytesOfAll(A) \cap Bytes(o) = {}
      /\ U = BytesOfAll(A) \cup Bytes(o)
  BY <1>1, <1>2, <1>3, SeparateLess, SeparateWithout
<1>5. PICK c : c = BucketClaim(p)
  OBVIOUS
<1>6. c.adr \in Nat /\ c.size \in Nat \ {0} /\ Bytes(c) = Bytes(e)
  <2>1. c.adr = e.adr /\ c.size = e.size /\ Bytes(c) = Bytes(e)
    BY <1>5, ClaimBytes DEF BucketClaim
  <2>2. QED
    BY <2>1 DEF Sized
<1>7. PICK h : h = BucketClaim(q)
  OBVIOUS
<1>8. h.adr \in Nat /\ h.size \in Nat \ {0} /\ Bytes(h) = Bytes(f)
  <2>1. h.adr = f.adr /\ h.size = f.size /\ Bytes(h) = Bytes(f)
    BY <1>7, ClaimBytes DEF BucketClaim
  <2>2. QED
    BY <2>1 DEF Sized
<1>9. Separate(A \cup {c}) /\ BytesOfAll(A \cup {c}) = BytesOfAll(A) \cup Bytes(e)
  <2>1. Bytes(c) \cap BytesOfAll(A) = {}
    BY <1>4, <1>6
  <2>2. QED
    BY <1>4, <1>6, <2>1, SeparateMore
<1>10. PICK G : G = A \cup {c}
  OBVIOUS
<1>11. Separate(G \cup {h}) /\ BytesOfAll(G \cup {h}) = BytesOfAll(G) \cup Bytes(f)
  <2>1. Bytes(h) \cap BytesOfAll(G) = {}
    BY <1>4, <1>8, <1>9, <1>10
  <2>2. QED
    BY <1>8, <1>9, <1>10, <2>1, SeparateMore
<1>12. D = G \cup {h}
  BY <1>1, <1>2, <1>5, <1>7, <1>10 DEF Rebucketed
<1>13. BytesOfAll(A) = U \ Bytes(o)
  BY <1>4
<1>14. QED
  BY <1>4, <1>9, <1>10, <1>11, <1>12, <1>13 DEF Exchanged

\* What a new directory claims, with the old one put aside.
LEMMA DoubledClaims ==
    ASSUME NEW C, Separate(C), NEW r, Claim("directory", 0, 0, r) \in C, NEW i,
           NEW e, e = Extent(r.adr, r.size), NEW v, v.adr \in Nat, v.size \in Nat \ {0},
           Bytes(v) \cap BytesOfAll(C) = {}, NEW D, D = Redirected(C, r, i, e, v)
    PROVE  Separate(D) /\ BytesOfAll(D) = BytesOfAll(C) \cup Bytes(v)
<1>1. PICK c : c = Claim("directory", 0, 0, r)
  OBVIOUS
<1>2. PICK k : k = Claim("old directory", 0, i, e)
  OBVIOUS
<1>3. k.adr = c.adr /\ k.size = c.size
  BY <1>1, <1>2 DEF Claim, Extent
<1>4. PICK A : A = (C \ {c}) \cup {k}
  OBVIOUS
<1>5. Separate(A) /\ BytesOfAll(A) = BytesOfAll(C)
  BY <1>1, <1>3, <1>4, SeparateSwap
<1>6. PICK h : h = Claim("directory", 0, 0, v)
  OBVIOUS
<1>7. h.adr \in Nat /\ h.size \in Nat \ {0} /\ Bytes(h) = Bytes(v)
  <2>1. h.adr = v.adr /\ h.size = v.size /\ Bytes(h) = Bytes(v)
    BY <1>6 DEF Claim, Bytes
  <2>2. QED
    BY <2>1
<1>8. Separate(A \cup {h}) /\ BytesOfAll(A \cup {h}) = BytesOfAll(A) \cup Bytes(h)
  <2>1. Bytes(h) \cap BytesOfAll(A) = {}
    BY <1>5, <1>7
  <2>2. QED
    BY <1>5, <1>7, <2>1, SeparateMore
<1>9. D = A \cup {h}
  BY <1>1, <1>2, <1>4, <1>6 DEF Redirected
<1>10. QED
  BY <1>5, <1>7, <1>8, <1>9

\* Where the areas of the split bucket go.
Moved(moved, n) ==
    area' = {Area(x, IF x \in moved THEN n.adr_1
                     ELSE IF x.bucket = cur THEN n.adr_0 ELSE x.bucket) : x \in area}

\* What one iteration does with the outcome of its allocations; A are the buckets it leaves.
Result(n, new, blk, t0, t1, moved, one, A) ==
    /\ A = [b \in (DOMAIN bucket \ {cur}) \cup {n.adr_0, n.adr_1} |->
              IF b \in {n.adr_0, n.adr_1}
              THEN [avail |-> IF b = n.adr_0 THEN t0 ELSE t1, bits |-> bucket[cur].bits + 1]
              ELSE bucket[b]]
    /\ cur' = IF one THEN n.adr_1 ELSE n.adr_0
    /\ db' = [blk.d EXCEPT !.table = IF one THEN t1 ELSE t0]
    /\ dir' = new.dir
    /\ Moved(moved, n)
    /\ olds' = IF MustDouble THEN Append(olds, Extent(dir.adr, dir.size)) ELSE olds

LEMMA SplitIs ==
    ASSUME NEW moved, NEW one, Split(moved, one), NEW n, n = TwoBuckets,
           NEW new, new = IF MustDouble THEN DoubleDir(n.d) ELSE [d |-> n.d, dir |-> dir],
           NEW blk, blk = Alloc(new.d, BlockSize),
           NEW tabs, tabs = SplitTables(blk.d, Extent(blk.adr, BlockSize)),
           NEW t0, t0 = IF one THEN AddOld(tabs.t0) ELSE tabs.t0,
           NEW t1, t1 = IF one THEN tabs.t1 ELSE AddOld(tabs.t1)
    PROVE  Result(n, new, blk, t0, t1, moved, one, bucket')
<1>1. \E x0 \in {IF one THEN AddOld(tabs.t0) ELSE tabs.t0},
         x1 \in {IF one THEN tabs.t1 ELSE AddOld(tabs.t1)} :
          Result(n, new, blk, x0, x1, moved, one, bucket')
  <2>1. \E y \in {SplitTables(blk.d, Extent(blk.adr, BlockSize))} :
        \E x0 \in {IF one THEN AddOld(y.t0) ELSE y.t0},
           x1 \in {IF one THEN y.t1 ELSE AddOld(y.t1)} :
          Result(n, new, blk, x0, x1, moved, one, bucket')
    <3>1. \E b \in {Alloc(new.d, BlockSize)} :
          \E y \in {SplitTables(b.d, Extent(b.adr, BlockSize))} :
          \E x0 \in {IF one THEN AddOld(y.t0) ELSE y.t0},
             x1 \in {IF one THEN y.t1 ELSE AddOld(y.t1)} :
            Result(n, new, b, x0, x1, moved, one, bucket')
      <4>1. \E w \in {IF MustDouble THEN DoubleDir(n.d) ELSE [d |-> n.d, dir |-> dir]} :
            \E b \in {Alloc(w.d, BlockSize)} :
            \E y \in {SplitTables(b.d, Extent(b.adr, BlockSize))} :
            \E x0 \in {IF one THEN AddOld(y.t0) ELSE y.t0},
               x1 \in {IF one THEN y.t1 ELSE AddOld(y.t1)} :
              Result(n, w, b, x0, x1, moved, one, bucket')
        <5>1. \E v \in {TwoBuckets} :
              \E w \in {IF MustDouble THEN DoubleDir(v.d) ELSE [d |-> v.d, dir |-> dir]} :
              \E b \in {Alloc(w.d, BlockSize)} :
              \E y \in {SplitTables(b.d, Extent(b.adr, BlockSize))} :
              \E x0 \in {IF one THEN AddOld(y.t0) ELSE y.t0},
                 x1 \in {IF one THEN y.t1 ELSE AddOld(y.t1)} :
                Result(v, w, b, x0, x1, moved, one, bucket')
          BY Zenon DEF Split, Result, Moved
        <5>2. QED
          BY Zenon, <5>1
      <4>2. QED
        BY Zenon, <4>1
    <3>2. QED
      BY Zenon, <3>1
  <2>2. QED
    BY Zenon, <2>1
<1>2. QED
  BY Zenon, <1>1

\* The areas claim what they did.
AreasClaimed ==
    \A y \in Areas' : \E x \in Areas : Claim("area", 0, 0, y) = Claim("area", 0, 0, x)

\* The areas have new owners in the buckets B, and are what they were otherwise.
LEMMA MovedAreas ==
    ASSUME AreasOK, NEW moved, NEW n, Moved(moved, n), fresh' = fresh, DOMAIN bucket' =
             (DOMAIN bucket \ {cur}) \cup {n.adr_0, n.adr_1}
    PROVE  AreasOK' /\ AreasClaimed
<1> DEFINE Home(x) == IF x \in moved THEN n.adr_1
                      ELSE IF x.bucket = cur THEN n.adr_0 ELSE x.bucket
<1>1. area' = {Area(x, Home(x)) : x \in area}
  BY DEF Moved
<1>2. \A x \in area : Home(x) \in DOMAIN bucket'
  BY DEF AreasOK
<1> HIDE DEF Home
<1>3. \A x \in area : /\ Area(x, Home(x)).adr = x.adr /\ Area(x, Home(x)).size = x.size
                      /\ Bytes(Area(x, Home(x))) = Bytes(x)
                      /\ Claim("area", 0, 0, Area(x, Home(x))) = Claim("area", 0, 0, x)
  BY DEF Area, Bytes, Claim
<1>4. area' \subseteq [adr : Nat, size : Nat \ {0}, bucket : DOMAIN bucket']
  BY <1>1, <1>2 DEF AreasOK, Area
<1>5. \A x, y \in area' : x # y => Bytes(x) \cap Bytes(y) = {}
  <2>1. SUFFICES ASSUME NEW x \in area', NEW y \in area', x # y
                 PROVE  Bytes(x) \cap Bytes(y) = {}
    OBVIOUS
  <2>2. PICK v \in area : x = Area(v, Home(v))
    BY <1>1
  <2>3. PICK w \in area : y = Area(w, Home(w))
    BY <1>1
  <2>4. v # w
    BY <2>1, <2>2, <2>3
  <2>5. QED
    BY <1>3, <2>2, <2>3, <2>4 DEF AreasOK
<1>6. \A x \in area' : Bytes(x) \cap Bytes(fresh) = {}
  BY <1>1, <1>3 DEF AreasOK
<1>7. AreasOK'
  BY <1>4, <1>5, <1>6 DEF AreasOK
<1>8. AreasClaimed
  BY <1>1, <1>3 DEF Areas, AreasClaimed
<1>9. QED
  BY <1>7, <1>8

LEMMA RebuiltBoth ==
    ASSUME NEW n, NEW new, NEW blk, NEW t0, NEW t1, NEW one \in BOOLEAN,
           n.adr_0 # n.adr_1, NEW moved, NEW A, Result(n, new, blk, t0, t1, moved, one, A),
           NEW k, k = bucket[cur].bits + 1
    PROVE  /\ Rebuilt(A, bucket, cur, n.adr_0, n.adr_1, t0, t1, k)
           /\ Rebuilt(A, bucket, cur, n.adr_1, n.adr_0, t1, t0, k)
<1>1. PICK p : p = n.adr_0
  OBVIOUS
<1>2. PICK q : q = n.adr_1
  OBVIOUS
<1>3. A = [b \in (DOMAIN bucket \ {cur}) \cup {p, q} |->
             IF b \in {p, q} THEN [avail |-> IF b = p THEN t0 ELSE t1, bits |-> k]
             ELSE bucket[b]]
  BY <1>1, <1>2 DEF Result
<1>4. DOMAIN A = (DOMAIN bucket \ {cur}) \cup {p, q} /\ A = [c \in DOMAIN A |-> A[c]]
  BY <1>3
<1>5. A[p] = [avail |-> t0, bits |-> k] /\ A[q] = [avail |-> t1, bits |-> k]
  BY <1>1, <1>2, <1>3
<1>6. \A c \in DOMAIN bucket \ {cur} : c # p /\ c # q => A[c] = bucket[c]
  BY <1>3
<1>7. {p, q} = {q, p}
  OBVIOUS
<1>8. QED
  BY <1>1, <1>2, <1>4, <1>5, <1>6, <1>7 DEF Rebuilt

\* The directory is put aside for one at X, if it must be doubled.
DirMoves(X) ==
    /\ MustDouble => dir'.adr \in Nat /\ dir'.size \in Nat \ {0} /\ X = Bytes(dir')
    /\ ~MustDouble => dir' = dir
    /\ olds' = IF MustDouble THEN Append(olds, Extent(dir.adr, dir.size)) ELSE olds

\* The claims after one iteration are among the claims C, which are separate.
Settled(C, o, e, f, X) ==
    /\ Separate(C) /\ (UsedClaims)' \subseteq C
    /\ BytesOfAll(C) \subseteq (Used \ Bytes(o)) \cup ((Bytes(e) \cup Bytes(f)) \cup X)

LEMMA SplitClaimsSafe ==
    ASSUME IInv, AreasClaimed, NEW n, NEW e, e = Extent(n.adr_0, BlockSize), NEW f, f = Extent(n.adr_1, BlockSize),
           e \in Sized, f \in Sized, Bytes(e) \cap Used = {}, Bytes(f) \cap (Used \cup Bytes(e)) = {},
           DOMAIN bucket' = (DOMAIN bucket \ {cur}) \cup {n.adr_0, n.adr_1},
           NEW o, o = Extent(cur, BlockSize), NEW X, X \cap ((Used \cup Bytes(e)) \cup Bytes(f)) = {},
           DirMoves(X)
    PROVE  \E C : Settled(C, o, e, f, X)
<1>0. /\ MustDouble => dir'.adr \in Nat /\ dir'.size \in Nat \ {0} /\ X = Bytes(dir')
      /\ ~MustDouble => dir' = dir
      /\ olds' = IF MustDouble THEN Append(olds, Extent(dir.adr, dir.size)) ELSE olds
  BY DEF DirMoves
<1>1. Separate(UsedClaims) /\ cur \in DOMAIN bucket /\ olds \in Seq(Sized)
  BY DEF IInv, World, CallOK
<1>2. dir.adr \in Nat /\ dir.size \in Nat \ {0} /\ BucketClaim(cur) \in UsedClaims
  BY <1>1, KnownClaims
<1>3. PICK p : p = n.adr_0
  OBVIOUS
<1>4. PICK q : q = n.adr_1
  OBVIOUS
<1>5. PICK D : D = Rebucketed(UsedClaims, cur, p, q)
  OBVIOUS
<1>6. /\ Separate(D)
      /\ BytesOfAll(D) = (Used \ Bytes(o)) \cup (Bytes(e) \cup Bytes(f))
  <2>1. PICK C : C = UsedClaims
    OBVIOUS
  <2>2. PICK U : U = BytesOfAll(C)
    OBVIOUS
  <2> PICK b : b = cur
    OBVIOUS
  <2>3. U = Used /\ Separate(C) /\ BucketClaim(b) \in C /\ o = Extent(b, BlockSize)
    BY <1>1, <1>2, <2>1, <2>2 DEF Used
  <2>4. D = Rebucketed(C, b, p, q)
    BY <1>5, <2>1
  <2>5. e = Extent(p, BlockSize) /\ f = Extent(q, BlockSize)
    BY <1>3, <1>4
  <2>6. Bytes(e) \cap U = {} /\ Bytes(f) \cap (U \cup Bytes(e)) = {}
    BY <2>3
  <2>7. Exchanged(D, U, o, e, f)
    BY ONLY e \in Sized, f \in Sized, <2>2, <2>3, <2>4, <2>5, <2>6, SplitBuckets
  <2>8. QED
    BY <2>3, <2>7 DEF Exchanged
<1>7. PICK B : B = DOMAIN bucket'
  OBVIOUS
<1>8. PICK A : A = ClaimsOf(dir, B, Areas', olds)
  OBVIOUS
<1>9. A \subseteq D
  <2>1. A \subseteq ClaimsOf(dir, B, Areas, olds)
    BY <1>8 DEF ClaimsOf, AreasClaimed
  <2>2. B = (DOMAIN bucket \ {cur}) \cup {p, q}
    BY <1>3, <1>4, <1>7
  <2>3. ClaimsOf(dir, B, Areas, olds) \subseteq
          Rebucketed(ClaimsOf(dir, DOMAIN bucket, Areas, olds), cur, p, q)
    BY <2>2, SplitClaims
  <2>4. QED
    BY <1>5, <2>1, <2>3, UsedIs
<1>10. Separate(A) /\ BytesOfAll(A) \subseteq (Used \ Bytes(o)) \cup (Bytes(e) \cup Bytes(f))
  BY <1>6, <1>9, SeparateLess
<1>11. CASE ~MustDouble
  <2>1. (UsedClaims)' = A
    BY <1>0, <1>7, <1>8, <1>11, UsedIs
  <2>2. Separate(A) /\ (UsedClaims)' \subseteq A
        /\ BytesOfAll(A) \subseteq (Used \ Bytes(o)) \cup ((Bytes(e) \cup Bytes(f)) \cup X)
    BY <1>10, <2>1
  <2>3. Settled(A, o, e, f, X)
    BY <2>2 DEF Settled
  <2>4. QED
    BY <2>3
<1>12. CASE MustDouble
  <2>1. PICK v : v = dir'
    OBVIOUS
  <2>2. PICK g : g = Extent(dir.adr, dir.size)
    OBVIOUS
  <2>3. PICK i : i = Len(olds) + 1
    OBVIOUS
  <2>4. PICK s : s = Append(olds, g)
    OBVIOUS
  <2>5. v.adr \in Nat /\ v.size \in Nat \ {0} /\ X = Bytes(v)
    BY <1>0, <1>12, <2>1
  <2>6. g \in Sized /\ g.adr = dir.adr /\ g.size = dir.size
    BY <1>2, <2>2 DEF Sized, Extent
  <2>7. PICK C : C = Redirected(A, dir, i, g, v)
    OBVIOUS
  <2>11. Separate(C) /\ BytesOfAll(C) = BytesOfAll(A) \cup Bytes(v)
    <3>1. Claim("directory", 0, 0, dir) \in A
      BY <1>8 DEF ClaimsOf, FileClaims
    <3>2. Bytes(v) \cap BytesOfAll(A) = {}
      BY <1>10, <2>5
    <3>3. PICK r : r = dir
      OBVIOUS
    <3>4. Claim("directory", 0, 0, r) \in A /\ g = Extent(r.adr, r.size)
      BY <2>2, <3>1, <3>3
    <3>5. C = Redirected(A, r, i, g, v)
      BY <2>7, <3>3
    <3>6. QED
      BY ONLY <1>10, <2>5, <3>2, <3>4, <3>5, DoubledClaims
  <2>12. (UsedClaims)' \subseteq C
    <3>1. (UsedClaims)' = ClaimsOf(v, B, Areas', s)
      BY <1>0, <1>7, <1>12, <2>1, <2>2, <2>4, UsedIs
    <3>2. ClaimsOf(v, B, Areas', s) \subseteq
            Redirected(ClaimsOf(dir, B, Areas', olds), dir, i, g, v)
      BY <1>1, <2>3, <2>4, <2>6, DirClaims
    <3>3. QED
      BY <1>8, <2>7, <3>1, <3>2
  <2>13. BytesOfAll(C) \subseteq (Used \ Bytes(o)) \cup ((Bytes(e) \cup Bytes(f)) \cup X)
    BY <1>10, <2>5, <2>11
  <2>14. Settled(C, o, e, f, X)
    BY <1>10, <2>11, <2>12, <2>13 DEF Settled
  <2>15. QED
    BY <2>14
<1>13. QED
  BY <1>11, <1>12

LEMMA SplitIterSafe ==
    ASSUME IInv, SplitIter
    PROVE  IInv'
<1>1. World(db, db.size, bucket, cur, Used) /\ Separate(UsedClaims) /\ AreasOK /\ CallOK
  BY DEF IInv
<1>2. PICK moved \in SUBSET Elements(cur), one \in BOOLEAN : Split(moved, one)
  BY DEF SplitIter
<1>3. pc = "split" /\ UNCHANGED <<pc, fresh, calls>>
  BY DEF SplitIter
<1>4. PICK n : n = TwoBuckets
  OBVIOUS
<1>5. PICK new : new = IF MustDouble THEN DoubleDir(n.d) ELSE [d |-> n.d, dir |-> dir]
  OBVIOUS
<1>6. PICK blk : blk = Alloc(new.d, BlockSize)
  OBVIOUS
<1>7. PICK g : g = Extent(blk.adr, BlockSize)
  OBVIOUS
<1>8. PICK tabs : tabs = SplitTables(blk.d, g)
  OBVIOUS
<1>9. PICK t0 : t0 = IF one THEN AddOld(tabs.t0) ELSE tabs.t0
  OBVIOUS
<1>10. PICK t1 : t1 = IF one THEN tabs.t1 ELSE AddOld(tabs.t1)
  OBVIOUS
<1>11. PICK A : A = bucket'
  OBVIOUS
<1>12. Result(n, new, blk, t0, t1, moved, one, A)
  BY <1>2, <1>4, <1>5, <1>6, <1>7, <1>8, <1>9, <1>10, <1>11, SplitIs
<1>13. PICK N : N = db.size
  OBVIOUS
<1>14. PICK O : O = OthersOf(bucket, cur)
  OBVIOUS
<1>15. PICK F : F = Used \cup O
  OBVIOUS
<1>16. Good(db, N, F) /\ cur \in DOMAIN bucket
  BY <1>1, <1>13, <1>14, <1>15 DEF World
<1>17. PICK e : e = Extent(n.adr_0, BlockSize)
  OBVIOUS
<1>18. PICK f : f = Extent(n.adr_1, BlockSize)
  OBVIOUS
<1>19. /\ e \in Sized /\ f \in Sized
       /\ Bytes(e) \cap F = {} /\ Bytes(f) \cap (F \cup Bytes(e)) = {}
       /\ Good(n.d, N, (F \cup Bytes(e)) \cup Bytes(f))
  <2>1. TwoBlocks(n, N, F, e, f)
    BY <1>4, <1>16, <1>17, <1>18, TwoBucketsGood
  <2>2. QED
    BY <2>1 DEF TwoBlocks
<1>20. PICK G : G = (F \cup Bytes(e)) \cup Bytes(f)
  OBVIOUS
<1>21. PICK X : Doubled(new, N, G, X)
  <2>1. dir.size \in Nat \ {0}
    BY KnownClaims
  <2>2. Good(n.d, N, G)
    BY <1>19, <1>20
  <2>3. QED
    BY <1>5, <2>1, <2>2, DirGood
<1>22. /\ X \cap G = {} /\ Good(new.d, N, G \cup X)
       /\ MustDouble => new.dir.adr \in Nat /\ new.dir.size \in Nat \ {0} /\ X = Bytes(new.dir)
       /\ ~MustDouble => new.dir = dir
  BY <1>21 DEF Doubled
<1>23. PICK H : H = G \cup X
  OBVIOUS
<1>24. g \in Sized /\ Bytes(g) \cap H = {} /\ Good(blk.d, N, H \cup Bytes(g))
  <2>1. Good(new.d, N, H)
    BY <1>22, <1>23
  <2>2. QED
    BY <1>6, <1>7, <2>1, BlockIsNat, Allotted
<1>25. PICK Y : Y = (Bytes(e) \cup Bytes(f)) \cup X
  OBVIOUS
<1>26. H = F \cup Y /\ Y \cap F = {}
  BY <1>19, <1>20, <1>22, <1>23, <1>25
<1>27. PICK o : o = Extent(cur, BlockSize)
  OBVIOUS
<1>28. o \in RawExtents /\ Bytes(o) \subseteq Used
  <2>1. cur \in Nat /\ Bytes(o) \subseteq Used
    BY <1>16, <1>27, KnownClaims
  <2>2. QED
    BY <1>27, <2>1, BlockIsNat DEF Extent, RawExtents
<1>29. PICK T : T = blk.d.table
  OBVIOUS
<1>30. Table(T) /\ Len(T) <= BucketAvail /\ BytesOf(T) \cap (H \cup Bytes(g)) = {}
  BY <1>24, <1>29 DEF Good, Shape, Exclusive
<1>31. SharedAll(t0, t1, T, g, o)
  <2>1. g \in Extents
    <3>1. g.size = BlockSize /\ g.adr \in Nat /\ g = [adr |-> g.adr, size |-> g.size]
      BY <1>7, <1>24 DEF Extent, Sized
    <3>2. QED
      BY <3>1, BlockIsNat DEF Extents
  <2>2. Shared(tabs.t0, tabs.t1, T, g)
    BY <1>8, <1>29, <1>30, <2>1, SplitTablesShare
  <2>3. Bytes(o) \cap (BytesOf(T) \cup Bytes(g)) = {}
    BY <1>15, <1>24, <1>26, <1>28, <1>30
  <2>4. CASE one
    <3>1. t0 = PutAvElem(o, tabs.t0, db.coalesce_blocks) /\ t1 = tabs.t1
      BY <1>9, <1>10, <1>27, <2>4 DEF AddOld
    <3>2. QED
      BY <1>28, <2>2, <2>3, <3>1, OldAddedToOne
  <2>5. CASE ~one
    <3>1. t1 = PutAvElem(o, tabs.t1, db.coalesce_blocks) /\ t0 = tabs.t0
      BY <1>9, <1>10, <1>27, <2>5 DEF AddOld
    <3>2. QED
      BY <1>28, <2>2, <2>3, <3>1, OldAddedToOne
  <2>6. QED
    BY <2>4, <2>5
<1>32. n.adr_0 # n.adr_1
  <2>1. Bytes(f) # {} /\ Bytes(e) \cap Bytes(f) = {}
    BY <1>19, SomeByte DEF Sized
  <2>2. QED
    BY <1>17, <1>18, <2>1
<1>33. PICK V : V = (Used \ Bytes(o)) \cup Y
  OBVIOUS
<1>34. World(db', N, A, cur', V)
  <2>1. PICK k : k = bucket[cur].bits + 1
    OBVIOUS
  <2>2. k \in Nat
    BY <1>1, <1>16, <2>1 DEF World, Buckets
  <2>3. /\ Rebuilt(A, bucket, cur, n.adr_0, n.adr_1, t0, t1, k)
        /\ Rebuilt(A, bucket, cur, n.adr_1, n.adr_0, t1, t0, k)
    BY <1>12, <1>32, <2>1, RebuiltBoth
  <2>4. World(db, N, bucket, cur, Used)
    BY <1>1, <1>13
  <2>5. PICK x : x = blk.d
    OBVIOUS
  <2>6. Good(x, N, ((Used \cup O) \cup Y) \cup Bytes(g))
    BY <1>15, <1>24, <1>26, <2>5
  <2>7. Y \cap (Used \cup O) = {} /\ Bytes(g) \cap ((Used \cup O) \cup Y) = {}
    BY <1>15, <1>24, <1>26
  <2>8. PICK p : p = n.adr_0
    OBVIOUS
  <2>9. PICK q : q = n.adr_1
    OBVIOUS
  <2>10. PICK r : r = db'
    OBVIOUS
  <2>11. CASE one
    <3>1. r = [x EXCEPT !.table = t1] /\ cur' = q
      BY <1>12, <2>5, <2>9, <2>10, <2>11 DEF Result
    <3>2. SharedAll(t0, t1, x.table, g, o) /\ Rebuilt(A, bucket, cur, p, q, t0, t1, k) /\ p # q
      BY <1>29, <1>31, <1>32, <2>3, <2>5, <2>8, <2>9
    <3>3. World(r, N, A, q, V)
      BY ONLY <1>14, <1>28, <1>33, <2>2, <2>4, <2>6, <2>7, <3>1, <3>2, SplitWorld
    <3>4. QED
      BY <2>10, <3>1, <3>3
  <2>12. CASE ~one
    <3>1. r = [x EXCEPT !.table = t0] /\ cur' = p
      BY <1>12, <2>5, <2>8, <2>10, <2>12 DEF Result
    <3>2. SharedAll(t1, t0, x.table, g, o) /\ Rebuilt(A, bucket, cur, q, p, t1, t0, k) /\ q # p
      BY <1>29, <1>31, <1>32, <2>3, <2>5, <2>8, <2>9, SharedEitherWay
    <3>3. World(r, N, A, p, V)
      BY ONLY <1>14, <1>28, <1>33, <2>2, <2>4, <2>6, <2>7, <3>1, <3>2, SplitWorld
    <3>4. QED
      BY <2>10, <3>1, <3>3
  <2>13. QED
    BY <2>11, <2>12
<1>35. DOMAIN bucket' = (DOMAIN bucket \ {cur}) \cup {n.adr_0, n.adr_1}
  BY <1>11, <1>12 DEF Result
<1>36. AreasOK' /\ AreasClaimed
  <2>1. Moved(moved, n)
    BY <1>12 DEF Result
  <2>2. QED
    BY <1>1, <1>3, <1>35, <2>1, MovedAreas
<1>37. olds' = (IF MustDouble THEN Append(olds, Extent(dir.adr, dir.size)) ELSE olds) /\ dir' = new.dir
  BY <1>12 DEF Result
<1>38. PICK C : Settled(C, o, e, f, X)
  <2>1. /\ Bytes(e) \cap Used = {} /\ Bytes(f) \cap (Used \cup Bytes(e)) = {}
        /\ X \cap ((Used \cup Bytes(e)) \cup Bytes(f)) = {}
    BY <1>15, <1>19, <1>20, <1>22
  <2>2. DirMoves(X)
    BY <1>22, <1>37 DEF DirMoves
  <2>3. QED
    BY <1>17, <1>18, <1>19, <1>27, <1>35, <1>36, <2>1, <2>2, SplitClaimsSafe
<1>39. World(db, db.size, bucket, cur, Used)' /\ Separate(UsedClaims)'
  <2>1. BytesOfAll(C) \subseteq V
    BY <1>25, <1>33, <1>38 DEF Settled
  <2>2. World(db', N, bucket', cur', V)
    BY <1>11, <1>34
  <2>3. QED
    BY <1>38, <2>1, <2>2, WorldAfter DEF Settled
<1>40. CallOK'
  <2>1. dir.adr \in Nat /\ dir.size \in Nat \ {0}
    BY KnownClaims
  <2>2. Extent(dir.adr, dir.size) \in Sized
    BY <2>1 DEF Sized, Extent
  <2>3. olds' \in Seq(Sized)
    <3>1. PICK x : x = Extent(dir.adr, dir.size)
      OBVIOUS
    <3>2. PICK s : s = olds
      OBVIOUS
    <3>3. s \in Seq(Sized) /\ x \in Sized
      BY <1>1, <2>2, <3>1, <3>2 DEF CallOK
    <3>4. Append(s, x) \in Seq(Sized)
      BY <3>3
    <3>5. QED
      BY <1>37, <3>1, <3>2, <3>3, <3>4
  <2>4. QED
    BY <1>1, <1>3, <2>3 DEF CallOK
<1>41. QED
  BY <1>36, <1>39, <1>40 DEF IInv

LEMMA DirOverflowSafe ==
    ASSUME IInv, DirOverflow
    PROVE  IInv'
<1>1. World(db, db.size, bucket, cur, Used) /\ Separate(UsedClaims) /\ AreasOK /\ CallOK
  BY DEF IInv
<1>2. PICK n : n = TwoBuckets /\ Current(cur, n.d) /\ db' = n.d
  BY DEF DirOverflow
<1>3. UNCHANGED <<dir, area, olds, fresh>> /\ pc' = "need recovery"
  BY DEF DirOverflow
<1>4. PICK N : N = db.size
  OBVIOUS
<1>5. PICK O : O = OthersOf(bucket, cur)
  OBVIOUS
<1>6. Good(db, N, Used \cup O) /\ cur \in DOMAIN bucket
  BY <1>1, <1>4, <1>5 DEF World
<1>7. Good(n.d, N, Used \cup O)
  <2>1. PICK e : e = Extent(n.adr_0, BlockSize)
    OBVIOUS
  <2>2. PICK f : f = Extent(n.adr_1, BlockSize)
    OBVIOUS
  <2>3. PICK F : F = Used \cup O
    OBVIOUS
  <2>4. TwoBlocks(n, N, F, e, f)
    BY <1>2, <1>6, <2>1, <2>2, <2>3, TwoBucketsGood
  <2>5. Good(n.d, N, (F \cup Bytes(e)) \cup Bytes(f)) /\ F \subseteq (F \cup Bytes(e)) \cup Bytes(f)
    BY <2>4 DEF TwoBlocks
  <2>6. QED
    BY <2>3, <2>5, GoodLess
<1>8. DOMAIN bucket' = DOMAIN bucket
  BY <1>2, SameDomain
<1>9. (UsedClaims)' \subseteq UsedClaims
  <2>1. Areas' = Areas
    BY <1>3 DEF Areas
  <2>2. QED
    BY <1>3, <1>8, <2>1, UsedIs
<1>10. Used \cap O = {}
  BY <1>1, <1>5, TablesOff
<1>11. World(db, db.size, bucket, cur, Used)' /\ Separate(UsedClaims)'
  BY <1>1, <1>2, <1>5, <1>6, <1>7, <1>9, <1>10, WorldNext DEF Used
<1>12. AreasOK'
  BY <1>1, <1>3, <1>8 DEF AreasOK
<1>13. CallOK'
  BY <1>1, <1>3 DEF CallOK
<1>14. QED
  BY <1>11, <1>12, <1>13 DEF IInv

\* The old directories are in use until the split is over.
Aside(t, D, C) ==
    /\ t \in Seq(RawExtents) /\ Apart(t)
    /\ BytesOf(t) \cap BytesOfAll(D) = {}
    /\ BytesOfAll(D) \cup BytesOf(t) \subseteq BytesOfAll(C)

LEMMA OldDirectories ==
    ASSUME NEW C, Separate(C), NEW t \in Seq(Sized), TableClaims("old directory", 0, t) \subseteq C,
           NEW D, D = C \ TableClaims("old directory", 0, t)
    PROVE  Aside(t, D, C)
<1>1. \A i \in 1 .. Len(t) :
        \E c \in TableClaims("old directory", 0, t) : c.index = i /\ Bytes(c) = Bytes(t[i])
  <2>1. SUFFICES ASSUME NEW i \in 1 .. Len(t)
                 PROVE  \E c \in TableClaims("old directory", 0, t) :
                          c.index = i /\ Bytes(c) = Bytes(t[i])
    OBVIOUS
  <2>2. PICK c : c = Claim("old directory", 0, i, t[i])
    OBVIOUS
  <2>3. c \in TableClaims("old directory", 0, t)
    BY <2>2 DEF TableClaims
  <2>4. c.index = i /\ c.adr = t[i].adr /\ c.size = t[i].size
    BY <2>2 DEF Claim
  <2>5. QED
    BY <2>3, <2>4 DEF Bytes
<1>2. t \in Seq(RawExtents)
  <2>1. Sized \subseteq RawExtents
    BY DEF Sized, RawExtents
  <2>2. QED
    BY <2>1, SeqMonotonic
<1>3. Apart(t)
  <2>1. SUFFICES ASSUME NEW i \in 1 .. Len(t), NEW j \in 1 .. Len(t), i # j
                 PROVE  Bytes(t[i]) \cap Bytes(t[j]) = {}
    BY DEF Apart
  <2>2. PICK c \in TableClaims("old directory", 0, t) : c.index = i /\ Bytes(c) = Bytes(t[i])
    BY <1>1
  <2>3. PICK e \in TableClaims("old directory", 0, t) : e.index = j /\ Bytes(e) = Bytes(t[j])
    BY <1>1
  <2>4. c # e
    BY <2>1, <2>2, <2>3
  <2>5. c \in C /\ e \in C
    BY <2>2, <2>3
  <2>6. Bytes(c) \cap Bytes(e) = {}
    BY <2>4, <2>5 DEF Separate
  <2>7. QED
    BY <2>2, <2>3, <2>6
<1>4. \A i \in 1 .. Len(t) : Bytes(t[i]) \cap BytesOfAll(D) = {}
  <2>1. ASSUME NEW i \in 1 .. Len(t), NEW k \in D
        PROVE  Bytes(t[i]) \cap Bytes(k) = {}
    <3>1. PICK c \in TableClaims("old directory", 0, t) : Bytes(c) = Bytes(t[i])
      BY <1>1
    <3>2. c # k /\ c \in C /\ k \in C
      BY <2>1, <3>1
    <3>3. Bytes(c) \cap Bytes(k) = {}
      BY <3>2 DEF Separate
    <3>4. QED
      BY <3>1, <3>3
  <2>2. ASSUME NEW i \in 1 .. Len(t)
        PROVE  Bytes(t[i]) \cap BytesOfAll(D) = {}
    <3>1. PICK U : U = Bytes(t[i])
      OBVIOUS
    <3>2. \A k \in D : U \cap Bytes(k) = {}
      BY <2>1, <2>2, <3>1
    <3>3. U \cap BytesOfAll(D) = {}
      BY ONLY <3>2 DEF BytesOfAll
    <3>4. QED
      BY <3>1, <3>3
  <2>3. QED
    BY <2>2
<1>5. \A i \in 1 .. Len(t) : Bytes(t[i]) \subseteq BytesOfAll(C)
  BY <1>1 DEF BytesOfAll
<1>6. BytesOfAll(D) \subseteq BytesOfAll(C)
  BY DEF BytesOfAll
<1>7. BytesOf(t) \cap BytesOfAll(D) = {}
  BY <1>4 DEF BytesOf
<1>8. BytesOf(t) \subseteq BytesOfAll(C)
  BY <1>5 DEF BytesOf
<1>9. QED
  BY <1>2, <1>3, <1>6, <1>7, <1>8 DEF Aside

LEMMA SplitEndSafe ==
    ASSUME IInv, SplitEnd
    PROVE  IInv'
<1>1. World(db, db.size, bucket, cur, Used) /\ Separate(UsedClaims) /\ AreasOK /\ CallOK
  BY DEF IInv
<1>2. PICK d : d = FreeAll(db, olds) /\ Current(cur, d) /\ db' = EndUpdate(d)
  BY DEF SplitEnd
<1>3. /\ area' = area \cup {Area(fresh, cur)} /\ pc' = "idle" /\ olds' = <<>>
      /\ fresh' = NoExtent /\ dir' = dir /\ pc = "split"
  BY DEF SplitEnd
<1>4. PICK N : N = db.size
  OBVIOUS
<1>5. PICK O : O = OthersOf(bucket, cur)
  OBVIOUS
<1>6. Good(db, N, Used \cup O) /\ cur \in DOMAIN bucket
  BY <1>1, <1>4, <1>5 DEF World
<1>7. PICK t : t = olds
  OBVIOUS
<1>8. PICK T : T = TableClaims("old directory", 0, t)
  OBVIOUS
<1>9. PICK C : C = UsedClaims \ T
  OBVIOUS
<1>10. /\ t \in Seq(RawExtents) /\ Apart(t)
       /\ BytesOf(t) \cap BytesOfAll(C) = {} /\ BytesOfAll(C) \cup BytesOf(t) \subseteq Used
  <2>1. PICK U : U = UsedClaims
    OBVIOUS
  <2>2. Separate(U) /\ t \in Seq(Sized) /\ C = U \ TableClaims("old directory", 0, t)
    BY <1>1, <1>7, <1>8, <1>9, <2>1 DEF CallOK
  <2>3. TableClaims("old directory", 0, t) \subseteq U
    BY <1>7, <2>1 DEF UsedClaims
  <2>4. Aside(t, C, U)
    BY ONLY <2>2, <2>3, OldDirectories
  <2>5. QED
    BY <2>1, <2>4 DEF Used, Aside
<1>11. Separate(C)
  BY <1>1, <1>9, SeparateLess
<1>12. Used \cap O = {}
  BY <1>1, <1>5, TablesOff
<1>13. PICK F : F = BytesOfAll(C) \cup O
  OBVIOUS
<1>14. Good(d, N, F)
  <2>1. Listed(t, F)
    BY <1>10, <1>12, <1>13 DEF Listed
  <2>2. Good(db, N, F \cup BytesOf(t))
    <3>1. F \cup BytesOf(t) \subseteq Used \cup O
      BY <1>10, <1>13
    <3>2. QED
      BY <1>6, <3>1, GoodLess
  <2>3. d = FreeAll(db, t)
    BY <1>2, <1>7
  <2>4. QED
    BY <2>1, <2>2, <2>3, FreeAllGood
<1>15. fresh # NoExtent /\ fresh \in Sized
  BY <1>1, <1>3 DEF AreasOK, CallOK
<1>16. PICK x : x = Area(fresh, cur)
  OBVIOUS
<1>17. /\ x.adr = fresh.adr /\ x.size = fresh.size /\ Bytes(x) = Bytes(fresh)
       /\ Claim("area", 0, 0, x) = Claim("area", 0, 0, fresh)
  BY <1>16 DEF Area, Bytes, Claim
<1>18. DOMAIN bucket' = DOMAIN bucket
  BY <1>2, SameDomain
<1>19. (UsedClaims)' \subseteq C
  <2>1. PICK s : s = <<>>
    OBVIOUS
  <2>2. PICK B : B = DOMAIN bucket
    OBVIOUS
  <2>3. (UsedClaims)' = ClaimsOf(dir, B, Areas', s)
    BY <1>3, <1>18, <2>1, <2>2, UsedIs
  <2>4. TableClaims("old directory", 0, s) = {}
    BY <2>1 DEF TableClaims
  <2>5. \A y \in Areas' : \E z \in Areas : Claim("area", 0, 0, y) = Claim("area", 0, 0, z)
    BY <1>3, <1>15, <1>16, <1>17 DEF Areas
  <2>6. UsedClaims = ClaimsOf(dir, B, Areas, t)
    BY <1>7, <2>2, UsedIs
  <2>7. ASSUME NEW c \in ClaimsOf(dir, B, Areas', s)
        PROVE  c \in ClaimsOf(dir, B, Areas, t) /\ c.what # "old directory"
    <3>1. CASE \/ c = Claim("header", 0, 0, Extent(0, BlockSize))
               \/ c = Claim("directory", 0, 0, dir)
      <4>1. c.what # "old directory"
        <5>1. PICK e : e = Extent(0, BlockSize)
          OBVIOUS
        <5>2. CASE c = Claim("header", 0, 0, e)
          BY <5>2 DEF Claim
        <5>3. CASE c = Claim("directory", 0, 0, dir)
          BY <5>3 DEF Claim
        <5>4. QED
          BY <3>1, <5>1, <5>2, <5>3
      <4>2. c \in ClaimsOf(dir, B, Areas, t)
        BY <3>1 DEF ClaimsOf, FileClaims
      <4>3. QED
        BY <4>1, <4>2
    <3>2. CASE \E b \in B : c = BucketClaim(b)
      <4>1. PICK b \in B : c = BucketClaim(b)
        BY <3>2
      <4>2. c.what = "bucket"
        BY <4>1, KindOf DEF BucketClaim
      <4>3. QED
        BY <4>1, <4>2 DEF ClaimsOf, FileClaims, BucketClaim
    <3>3. CASE \E y \in Areas' : c = Claim("area", 0, 0, y)
      <4>1. PICK z \in Areas : c = Claim("area", 0, 0, z)
        BY <2>5, <3>3
      <4>2. c.what = "area"
        BY <4>1, KindOf
      <4>3. QED
        BY <4>1, <4>2 DEF ClaimsOf
    <3>4. c \notin TableClaims("old directory", 0, s)
      BY <2>4
    <3>5. \/ c = Claim("header", 0, 0, Extent(0, BlockSize)) \/ c = Claim("directory", 0, 0, dir)
          \/ \E b \in B : c = BucketClaim(b)
          \/ \E y \in Areas' : c = Claim("area", 0, 0, y)
      BY <2>7, <3>4, KindsOf
    <3>6. QED
      BY <3>1, <3>2, <3>3, <3>5
  <2>8. \A c \in T : c.what = "old directory"
    BY <1>8, OldKind
  <2>9. QED
    BY <1>9, <2>3, <2>6, <2>7, <2>8
<1>20. World(db, db.size, bucket, cur, Used)' /\ Separate(UsedClaims)'
  <2>1. BytesOfAll(C) \cap OthersOf(bucket, cur) = {}
    BY <1>5, <1>10, <1>12
  <2>2. Good(d, N, BytesOfAll(C) \cup OthersOf(bucket, cur))
    BY <1>5, <1>13, <1>14
  <2>3. QED
    BY <1>2, <1>6, <1>11, <1>19, <2>1, <2>2, WorldNext
<1>21. AreasOK'
  <2>1. x \in [adr : Nat, size : Nat \ {0}, bucket : DOMAIN bucket]
    BY <1>6, <1>15, <1>16 DEF Area, Sized
  <2>2. Bytes(NoExtent) = {}
    BY DEF NoExtent, Extent, Bytes
  <2>3. \A y \in area : Bytes(y) \cap Bytes(x) = {}
    BY <1>1, <1>17 DEF AreasOK
  <2>4. QED
    BY <1>1, <1>3, <1>16, <1>18, <2>1, <2>2, <2>3 DEF AreasOK
<1>22. CallOK'
  <2>1. ~db'.header_changed
    BY <1>2, <1>14 DEF EndUpdate, Good, Shape, Descriptors
  <2>2. <<>> \in Seq(Sized)
    OBVIOUS
  <2>3. QED
    BY <1>3, <2>1, <2>2 DEF CallOK
<1>23. QED
  BY <1>20, <1>21, <1>22 DEF IInv

-----------------------------------------------------------------------------
(* Conversion to the other format. *)

LEMMA LastOnesIs ==
    ASSUME NEW S, NEW s \in Seq(S), NEW k \in 0 .. Len(s),
           NEW t, t = Reverse(SubSeq(s, k + 1, Len(s)))
    PROVE  t \in Seq(S) /\ Len(t) = Len(s) - k /\ \A i \in 1 .. Len(t) : t[i] = s[Len(s) + 1 - i]
<1>1. Len(s) \in Nat /\ k \in Nat /\ k <= Len(s)
  BY LenProperties
<1>0. PICK N \in Nat : N = Len(s)
  BY <1>1
<1>2. PICK n \in Nat : n = N - k
  <2>1. k <= N
    BY <1>0, <1>1
  <2>2. N - k \in Nat
    BY <1>1, <2>1
  <2>3. QED
    BY <2>2
<1>3. PICK u : u = SubSeq(s, k + 1, Len(s))
  OBVIOUS
<1>4. u \in Seq(S) /\ Len(u) = n /\ \A i \in 1 .. n : u[i] = s[k + i]
  <2>1. u = [i \in 1 .. Len(s) - (k + 1) + 1 |-> s[i + (k + 1) - 1]]
    BY <1>1, <1>3
  <2>2. Len(s) - (k + 1) + 1 = n
    BY <1>0, <1>1, <1>2
  <2>3. u = [i \in 1 .. n |-> s[i + (k + 1) - 1]]
    BY <2>1, <2>2
  <2>4. \A i \in 1 .. n : i + (k + 1) - 1 = k + i /\ k + i \in 1 .. N
    BY <1>0, <1>1, <1>2
  <2>5. \A i \in 1 .. n : s[k + i] \in S
    BY <1>0, <2>4, ElementOfSeq
  <2>6. QED
    BY <1>2, <2>3, <2>4, <2>5
<1>5. t = [i \in 1 .. n |-> u[(n - i) + 1]]
  BY <1>3, <1>4 DEF Reverse
<1>6. \A i \in 1 .. n : /\ (n - i) + 1 \in 1 .. n /\ k + ((n - i) + 1) = N + 1 - i
                         /\ N + 1 - i \in 1 .. N
  BY <1>0, <1>1, <1>2
<1>7. \A i \in 1 .. n : t[i] = s[N + 1 - i] /\ t[i] \in S
  <2>1. SUFFICES ASSUME NEW i \in 1 .. n
                 PROVE  t[i] = s[N + 1 - i] /\ t[i] \in S
    OBVIOUS
  <2>2. PICK j \in 1 .. n : j = (n - i) + 1 /\ k + j = N + 1 - i
    BY <1>6
  <2>3. t[i] = u[j] /\ u[j] = s[k + j]
    BY <1>4, <1>5, <2>2
  <2>4. s[N + 1 - i] \in S
    BY <1>0, <1>6, ElementOfSeq
  <2>5. QED
    BY <2>2, <2>3, <2>4
<1>8. t \in Seq(S) /\ Len(t) = n
  <2>1. \A i \in 1 .. n : u[(n - i) + 1] \in S
    BY <1>5, <1>7
  <2>2. QED
    BY <1>5, <2>1
<1>9. QED
  BY <1>0, <1>2, <1>7, <1>8

LEMMA TimesMonotonic ==
    ASSUME NEW a \in Nat, NEW b \in Nat, a <= b, NEW e \in Nat
    PROVE  a * e <= b * e
  OBVIOUS

\* A block that was pushed when the header table was longer can still be read.
LEMMA ShorterBlock == BlockLen(ExtSize) <= BlockLen(StdSize)
<1>1. ExtSize \in Nat /\ StdSize \in Nat /\ ExtSize <= StdSize /\ ElemBytes \in Nat /\ AvailHead \in Nat
  BY SizesAssumption, TableRoomAssumption
<1>2. PICK a \in Nat : a = ExtSize * ElemBytes
  BY <1>1
<1>3. PICK b \in Nat : b = StdSize * ElemBytes
  BY <1>1
<1>4. a <= b
  BY <1>1, <1>2, <1>3, TimesMonotonic
<1>5. a \div 2 <= b \div 2
  BY <1>4
<1>6. QED
  BY <1>1, <1>2, <1>3, <1>5 DEF BlockLen

LEMMA ShorterStack ==
    ASSUME NEW s, Stack(s, StdSize)
    PROVE  Stack(s, ExtSize)
<1>1. BlockLen(ExtSize) \in Nat /\ BlockLen(StdSize) \in Nat
  <2>1. BlockLen(ExtSize) \in Nat
    BY BlockLenIs
  <2>2. BlockLen(StdSize) \in Nat
    BY BlockLenIs
  <2>3. QED
    BY <2>1, <2>2
<1>2. ASSUME NEW i \in 1 .. Len(s)
      PROVE  Readable(s[i], ExtSize)
  <2>1. PICK k : k = s[i]
    OBVIOUS
  <2>2. k \in Blocks
    BY <1>2, <2>1, ElementOfSeq DEF Stack
  <2>3. k.bytes \in Nat
    BY <2>2 DEF Blocks
  <2>4. Readable(k, StdSize)
    BY <1>2, <2>1 DEF Stack
  <2>5. k.bytes >= BlockLen(StdSize)
    BY <2>4 DEF Readable
  <2>6. k.bytes >= BlockLen(ExtSize)
    BY <1>1, <2>3, <2>5, ShorterBlock
  <2>7. Readable(k, ExtSize)
    BY <2>4, <2>6 DEF Readable
  <2>8. QED
    BY <2>1, <2>7
<1>3. QED
  BY <1>2 DEF Stack

FirstOnes(s, k) == SubSeq(s, 1, k)
LastOnes(s, k) == Reverse(SubSeq(s, k + 1, Len(s)))

\* The first k entries of s, and the others.
Parted(s, k, a, t) ==
    /\ Table(a) /\ Len(a) = k /\ t \in Seq(RawExtents) /\ Apart(t)
    /\ BytesOf(a) \subseteq BytesOf(s) /\ BytesOf(t) \subseteq BytesOf(s)
    /\ BytesOf(a) \cap BytesOf(t) = {}

LEMMA Shortened ==
    ASSUME NEW s, Table(s), NEW k \in 0 .. Len(s), NEW a, a = FirstOnes(s, k),
           NEW t, t = LastOnes(s, k)
    PROVE  Parted(s, k, a, t)
<1>1. s \in Seq(Extents) /\ Len(s) \in Nat /\ k \in Nat /\ k <= Len(s)
  BY LenProperties DEF Table
<1>2. a \in Seq(Extents) /\ Len(a) = k /\ \A i \in 1 .. k : a[i] = s[i]
  BY <1>1, PrefixIs DEF FirstOnes
<1>3. /\ t \in Seq(Extents) /\ Len(t) = Len(s) - k
      /\ \A i \in 1 .. Len(t) : t[i] = s[Len(s) + 1 - i]
  BY <1>1, LastOnesIs DEF LastOnes
<1>4. PICK n \in Nat : n = Len(s)
  BY <1>1
<1>5. /\ \A i \in 1 .. k : i \in 1 .. n /\ a[i] = s[i]
      /\ \A j \in 1 .. Len(t) : /\ n + 1 - j \in 1 .. n /\ n + 1 - j > k
                                /\ t[j] = s[n + 1 - j]
  BY <1>1, <1>2, <1>3, <1>4
<1>6. Table(a)
  <2>1. Ascending(a)
    BY <1>1, <1>2, <1>4, <1>5 DEF Table, Ascending
  <2>2. Apart(a)
    BY <1>1, <1>2, <1>4, <1>5 DEF Table, Apart
  <2>3. QED
    BY <1>2, <2>1, <2>2 DEF Table
<1>7. Apart(t)
  <2>1. SUFFICES ASSUME NEW i \in 1 .. Len(t), NEW j \in 1 .. Len(t), i # j
                 PROVE  Bytes(t[i]) \cap Bytes(t[j]) = {}
    BY DEF Apart
  <2>2. PICK v \in 1 .. n : v = n + 1 - i /\ t[i] = s[v]
    BY <1>5
  <2>3. PICK w \in 1 .. n : w = n + 1 - j /\ t[j] = s[w]
    BY <1>5
  <2>4. v # w
    BY <2>1, <2>2, <2>3
  <2>5. QED
    BY <1>4, <2>2, <2>3, <2>4 DEF Table, Apart
<1>8. t \in Seq(RawExtents)
  <2>1. Extents \subseteq RawExtents
    BY DEF Extents, RawExtents
  <2>2. QED
    BY <1>3, <2>1, SeqMonotonic
<1>9. BytesOf(a) \subseteq BytesOf(s)
  BY <1>2, <1>4, <1>5 DEF BytesOf
<1>10. BytesOf(t) \subseteq BytesOf(s)
  BY <1>4, <1>5 DEF BytesOf
<1>11. \A i \in 1 .. Len(a), j \in 1 .. Len(t) : Bytes(a[i]) \cap Bytes(t[j]) = {}
  <2>1. SUFFICES ASSUME NEW i \in 1 .. Len(a), NEW j \in 1 .. Len(t)
                 PROVE  Bytes(a[i]) \cap Bytes(t[j]) = {}
    OBVIOUS
  <2>2. PICK v \in 1 .. n : v = n + 1 - j /\ v > k /\ t[j] = s[v]
    BY <1>5
  <2>3. i \in 1 .. n /\ a[i] = s[i] /\ i # v
    BY <1>1, <1>2, <1>5, <2>2
  <2>4. Apart(s) /\ i \in 1 .. Len(s) /\ v \in 1 .. Len(s)
    BY <1>4, <2>2, <2>3 DEF Table
  <2>5. Bytes(s[i]) \cap Bytes(s[v]) = {}
    BY <2>3, <2>4 DEF Apart
  <2>6. QED
    BY <2>2, <2>3, <2>5
<1>12. BytesOf(a) \cap BytesOf(t) = {}
  <2>1. SUFFICES ASSUME NEW x, x \in BytesOf(a), x \in BytesOf(t)
                 PROVE  FALSE
    OBVIOUS
  <2>2. PICK i \in 1 .. Len(a) : x \in Bytes(a[i])
    BY <2>1 DEF BytesOf
  <2>3. PICK j \in 1 .. Len(t) : x \in Bytes(t[j])
    BY <2>1 DEF BytesOf
  <2>4. QED
    BY <1>11, <2>2, <2>3
<1>13. QED
  BY <1>2, <1>6, <1>7, <1>8, <1>9, <1>10, <1>12 DEF Parted

\* The header table of a conversion to the extended format: what it keeps, and what is
\* to be freed.
Kept(d, k) == [d EXCEPT !.size = ExtSize, !.avail = FirstOnes(@, k)]
KeptLength(d) == IF Len(d.avail) <= ExtSize THEN Len(d.avail) ELSE ExtSize
NotKept(d, k) == LastOnes(d.avail, k)

LEMMA KeptGood ==
    ASSUME NEW d, NEW F, Good(d, StdSize, F), NEW k, k = KeptLength(d),
           NEW t, t = NotKept(d, k), NEW r, r = Kept(d, k)
    PROVE  Listed(t, F) /\ Good(r, ExtSize, F \cup BytesOf(t))
<1>1. PICK s : s = d.avail
  OBVIOUS
<1>2. Table(s) /\ Len(s) \in Nat /\ d \in Descriptors
  BY <1>1, LenProperties DEF Good, Shape, Table
<1>3. k \in 0 .. Len(s) /\ k <= ExtSize
  BY <1>1, <1>2, TableRoomAssumption DEF KeptLength
<1>4. PICK a : a = FirstOnes(s, k)
  OBVIOUS
<1>5. t = LastOnes(s, k)
  BY <1>1 DEF NotKept
<1>6. /\ Table(a) /\ Len(a) = k /\ t \in Seq(RawExtents) /\ Apart(t)
      /\ BytesOf(a) \subseteq BytesOf(s) /\ BytesOf(t) \subseteq BytesOf(s)
      /\ BytesOf(a) \cap BytesOf(t) = {}
  <2>1. Parted(s, k, a, t)
    BY ONLY <1>2, <1>3, <1>4, <1>5, Shortened
  <2>2. QED
    BY <2>1 DEF Parted
<1>7. r = [d EXCEPT !.size = ExtSize, !.avail = a]
  BY <1>1, <1>4 DEF Kept
<1>8. /\ r.avail = a /\ r.table = d.table /\ r.stack = d.stack
      /\ r.next_block = d.next_block /\ r.size = ExtSize /\ r.orphans = d.orphans
  BY <1>2, <1>7 DEF Descriptors
<1>9. r \in Descriptors
  BY <1>2, <1>6, <1>7 DEF Descriptors, Table
<1>10. Shape(r, ExtSize)
  <2>1. Stack(d.stack, ExtSize)
    BY ShorterStack DEF Good, Shape
  <2>2. /\ Table(d.table) /\ Len(d.table) <= BucketAvail
        /\ \A b \in d.orphans : Ascending(b.table)
    BY DEF Good, Shape
  <2>3. Len(a) <= ExtSize
    BY <1>3, <1>6
  <2>4. QED
    BY <1>6, <1>8, <1>9, <2>1, <2>2, <2>3 DEF Shape
<1>11. Exclusive(BytesOf(s), BytesOf(d.table), StackBytes(d.stack), F, d.next_block)
  BY <1>1 DEF Good
<1>12. Exclusive(BytesOf(a), BytesOf(d.table), StackBytes(d.stack), F \cup BytesOf(t), d.next_block)
  BY <1>6, <1>11 DEF Exclusive
<1>13. Good(r, ExtSize, F \cup BytesOf(t))
  BY <1>8, <1>10, <1>12 DEF Good
<1>14. Listed(t, F)
  BY <1>6, <1>11 DEF Listed, Exclusive
<1>15. QED
  BY <1>13, <1>14

LEMMA ConvertIs ==
    ASSUME NEW b, ConvertToNumsync(b), NEW d, d = InBucket(b), NEW k, k = KeptLength(d)
    PROVE  LET r == FreeAll(Kept(d, k), NotKept(d, k))
           IN Current(b, r) /\ db' = EndUpdate(r)
<1>1. d.avail = db.avail
  BY DEF InBucket
<1>2. k = IF Len(db.avail) <= ExtSize THEN Len(db.avail) ELSE ExtSize
  BY <1>1 DEF KeptLength
<1>3. \E x \in {FreeAll([InBucket(b) EXCEPT !.size = ExtSize, !.avail = SubSeq(@, 1, k)],
                        Reverse(SubSeq(db.avail, k + 1, Len(db.avail))))} :
        Current(b, x) /\ db' = EndUpdate(x)
  BY Zenon, <1>2 DEF ConvertToNumsync
<1>4. QED
  BY <1>1, <1>3 DEF Kept, NotKept, FirstOnes, LastOnes

LEMMA ConvertToNumsyncSafe ==
    ASSUME IInv, NEW b \in DOMAIN bucket, ConvertToNumsync(b)
    PROVE  IInv'
<1>1. World(db, db.size, bucket, cur, Used) /\ Separate(UsedClaims) /\ AreasOK /\ CallOK
  BY DEF IInv
<1>2. pc = "idle" /\ db.size = StdSize /\ UNCHANGED <<dir, area, pc, olds, fresh>>
  BY DEF ConvertToNumsync, Call
<1>3. PICK d : d = InBucket(b)
  OBVIOUS
<1>4. PICK k : k = KeptLength(d)
  OBVIOUS
<1>5. PICK t : t = NotKept(d, k)
  OBVIOUS
<1>6. PICK r : r = FreeAll(Kept(d, k), t)
  OBVIOUS
<1>7. Current(b, r) /\ db' = EndUpdate(r)
  BY <1>3, <1>4, <1>5, <1>6, ConvertIs
<1>8. PICK O : O = OthersOf(bucket, b)
  OBVIOUS
<1>9. PICK F : F = Used \cup O
  OBVIOUS
<1>10. Good(d, StdSize, F)
  BY <1>1, <1>2, <1>3, <1>8, <1>9, Enter DEF InBucket
<1>11. PICK x : x = Kept(d, k)
  OBVIOUS
<1>12. Listed(t, F) /\ Good(x, ExtSize, F \cup BytesOf(t))
  BY <1>4, <1>5, <1>10, <1>11, KeptGood
<1>13. Good(r, ExtSize, F)
  BY <1>6, <1>11, <1>12, FreeAllGood
<1>14. DOMAIN bucket' = DOMAIN bucket
  BY <1>7, SameDomain
<1>15. (UsedClaims)' \subseteq UsedClaims
  <2>1. Areas' = Areas
    BY <1>2 DEF Areas
  <2>2. QED
    BY <1>2, <1>14, <2>1, UsedIs
<1>16. Used \cap O = {}
  BY <1>1, <1>8, TablesOff
<1>17. World(db, db.size, bucket, cur, Used)' /\ Separate(UsedClaims)'
  <2>1. Good(r, ExtSize, BytesOfAll(UsedClaims) \cup OthersOf(bucket, b))
    BY <1>8, <1>9, <1>13 DEF Used
  <2>2. BytesOfAll(UsedClaims) \cap OthersOf(bucket, b) = {}
    BY <1>8, <1>16 DEF Used
  <2>3. QED
    BY <1>1, <1>7, <1>15, <2>1, <2>2, WorldNext
<1>18. AreasOK'
  BY <1>1, <1>2, <1>14 DEF AreasOK
<1>19. CallOK'
  BY <1>1, <1>2, <1>7, <1>13, EndsIdle
<1>20. QED
  BY <1>17, <1>18, <1>19 DEF IInv

-----------------------------------------------------------------------------
(* Calls that change nothing but the descriptor. *)

LEMMA DescriptorOnly ==
    ASSUME IInv, UNCHANGED <<dir, bucket, cur, area, pc, olds, fresh>>,
           NEW m, Good(db', m, Used \cup OthersOf(bucket, cur)),
           db'.table = db.table, pc = "idle" => Clean(db')
    PROVE  IInv'
<1>1. World(db, db.size, bucket, cur, Used) /\ Separate(UsedClaims) /\ AreasOK /\ CallOK
  BY DEF IInv
<1>2. (UsedClaims)' = UsedClaims
  <2>1. Areas' = Areas
    BY DEF Areas
  <2>2. QED
    BY <2>1, UsedIs
<1>3. Used' = Used
  <2>1. Used' = BytesOfAll((UsedClaims)')
    BY DEF Used, BytesOfAll, Bytes
  <2>2. QED
    BY <1>2, <2>1 DEF Used
<1>4. World(db', m, bucket, cur, Used)
  BY <1>1 DEF World
<1>5. db'.size = m
  BY DEF Good, Shape
<1>6. World(db, db.size, bucket, cur, Used)'
  BY <1>3, <1>4, <1>5
<1>7. Separate(UsedClaims)'
  BY <1>1, <1>2
<1>8. AreasOK'
  BY <1>1 DEF AreasOK
<1>9. CallOK'
  BY <1>1 DEF CallOK, Clean
<1>10. QED
  BY <1>6, <1>7, <1>8, <1>9 DEF IInv

LEMMA Unchanged ==
    ASSUME IInv, UNCHANGED vars
    PROVE  IInv'
<1>1. UNCHANGED <<db, dir, bucket, cur, area, pc, olds, fresh>>
  BY DEF vars
<1>2. PICK m : m = db.size
  OBVIOUS
<1>3. Good(db, m, Used \cup OthersOf(bucket, cur)) /\ (pc = "idle" => Clean(db))
  BY <1>2 DEF IInv, World, CallOK, Clean, Good, Shape, Descriptors
<1>4. QED
  BY <1>1, <1>3, DescriptorOnly

\* A setting, which the tables do not depend on.
LEMMA GoodWithSetting ==
    ASSUME NEW d, NEW n, NEW F, Good(d, n, F), NEW b \in BOOLEAN, NEW r,
           r = [d EXCEPT !.central_free = b] \/ r = [d EXCEPT !.coalesce_blocks = b]
    PROVE  Good(r, n, F)
<1>1. /\ r.avail = d.avail /\ r.table = d.table /\ r.stack = d.stack
      /\ r.next_block = d.next_block /\ r.size = d.size /\ r.orphans = d.orphans
  BY DEF Good, Shape, Descriptors
<1>2. r \in Descriptors
  BY DEF Good, Shape, Descriptors
<1>3. Shape(r, n)
  BY <1>1, <1>2 DEF Good, Shape
<1>4. QED
  BY <1>1, <1>3 DEF Good

LEMMA SettingSafe ==
    ASSUME IInv, NEW n \in BOOLEAN, SetCentFree(n) \/ SetCoalesceBlks(n)
    PROVE  IInv'
<1>1. /\ db' = [db EXCEPT !.central_free = n] \/ db' = [db EXCEPT !.coalesce_blocks = n]
      /\ UNCHANGED <<dir, bucket, cur, area, pc, olds, fresh>> /\ pc = "idle"
  BY DEF SetCentFree, SetCoalesceBlks, Call
<1>2. PICK m : m = db.size
  OBVIOUS
<1>3. PICK F : F = Used \cup OthersOf(bucket, cur)
  OBVIOUS
<1>4. Good(db, m, F) /\ Clean(db)
  BY <1>1, <1>2, <1>3 DEF IInv, World, CallOK, Clean, Good, Shape, Descriptors
<1>5. Good(db', m, F)
  <2>1. PICK r : r = db'
    OBVIOUS
  <2>2. Good(r, m, F)
    BY <1>1, <1>4, <2>1, GoodWithSetting
  <2>3. QED
    BY <2>1, <2>2
<1>6. db'.table = db.table /\ Clean(db')
  BY <1>1, <1>4 DEF Clean, Good, Shape, Descriptors
<1>7. QED
  BY <1>1, <1>3, <1>5, <1>6, DescriptorOnly

\* Back to the standard format: the header table gets longer.  With an empty stack there
\* is no block that was written for a shorter table.
LEMMA LongerGood ==
    ASSUME NEW d, NEW F, Good(d, ExtSize, F), d.stack = <<>>,
           NEW r, r = [d EXCEPT !.size = StdSize]
    PROVE  Good(r, StdSize, F)
<1>1. /\ r.avail = d.avail /\ r.table = d.table /\ r.stack = <<>>
      /\ r.next_block = d.next_block /\ r.size = StdSize /\ r.orphans = d.orphans
  BY DEF Good, Shape, Descriptors
<1>2. r \in Descriptors
  BY DEF Good, Shape, Descriptors
<1>3. Len(d.avail) <= StdSize
  <2>1. Len(d.avail) \in Nat
    BY LenProperties DEF Good, Shape, Table
  <2>2. QED
    BY <2>1, TableRoomAssumption DEF Good, Shape
<1>4. Stack(<<>>, StdSize)
  BY DEF Stack
<1>5. Shape(r, StdSize)
  BY <1>1, <1>2, <1>3, <1>4 DEF Good, Shape
<1>6. QED
  BY <1>1, <1>5 DEF Good

LEMMA ConvertFromNumsyncSafe ==
    ASSUME IInv, ~FromWithStack, ConvertFromNumsync
    PROVE  IInv'
<1>1. /\ db' = [db EXCEPT !.size = StdSize] /\ db.size = ExtSize /\ db.stack = <<>>
      /\ UNCHANGED <<dir, bucket, cur, area, pc, olds, fresh>> /\ pc = "idle"
  BY DEF ConvertFromNumsync, Call
<1>2. PICK F : F = Used \cup OthersOf(bucket, cur)
  OBVIOUS
<1>3. Good(db, ExtSize, F) /\ Clean(db)
  BY <1>1, <1>2 DEF IInv, World, CallOK, Clean, Good, Shape, Descriptors
<1>4. Good(db', StdSize, F)
  <2>1. PICK r : r = db'
    OBVIOUS
  <2>2. Good(r, StdSize, F)
    BY <1>1, <1>3, <2>1, LongerGood
  <2>3. QED
    BY <2>1, <2>2
<1>5. db'.table = db.table /\ Clean(db')
  BY <1>1, <1>3 DEF Clean, Good, Shape, Descriptors
<1>6. QED
  BY <1>1, <1>2, <1>4, <1>5, DescriptorOnly

-----------------------------------------------------------------------------
(* The invariant. *)

\* The bytes of header, directory and bucket of a new file; the block after them is in
\* the bucket's table.
NewUsed == 0 .. (3 * BlockSize) - 1
NewBlock == Extent(3 * BlockSize, BlockSize)

LEMMA NewFileGood ==
    ASSUME NEW n \in {StdSize, ExtSize}
    PROVE  Good(NewFile(n), n, NewUsed) /\ Clean(NewFile(n))
<1>1. PICK d : d = NewFile(n)
  OBVIOUS
<1>2. /\ d.avail = <<>> /\ d.table = <<NewBlock>> /\ d.stack = <<>> /\ d.orphans = {}
      /\ d.next_block = 4 * BlockSize /\ d.size = n /\ d.header_changed = FALSE
  BY <1>1 DEF NewFile, NewBlock
<1>3. NewBlock \in Extents
  BY BlockIsNat DEF NewBlock, Extent, Extents
<1>4. Table(<<NewBlock>>) /\ Len(<<NewBlock>>) = 1 /\ BytesOf(<<NewBlock>>) = Bytes(NewBlock)
  BY <1>3, ATable
<1>5. Table(<<>>) /\ Len(<<>>) = 0 /\ BytesOf(<<>>) = {} /\ StackBytes(<<>>) = {}
  <2>1. <<>> \in Seq(Extents) /\ Len(<<>>) = 0 /\ 1 .. Len(<<>>) = {}
    OBVIOUS
  <2>2. QED
    BY <2>1 DEF Table, Ascending, Apart, BytesOf, StackBytes
<1>6. Stack(<<>>, n)
  BY DEF Stack
<1>7. n \in Nat /\ BucketAvail \in Nat /\ 1 <= BucketAvail
  BY TableRoomAssumption, ThirdIsNat, SizesAssumption
<1>8. d \in Descriptors
  <2>1. 4 * BlockSize \in Nat
    BY BlockIsNat
  <2>2. <<NewBlock>> \in Seq(Extents) /\ <<>> \in Seq(Extents) /\ <<>> \in Seq(Blocks)
    BY <1>4 DEF Table
  <2>3. QED
    BY <1>1, <2>1, <2>2 DEF NewFile, Descriptors, NewBlock
<1>9. Shape(d, n)
  BY <1>2, <1>4, <1>5, <1>6, <1>7, <1>8 DEF Shape
<1>10. Bytes(NewBlock) = 3 * BlockSize .. (4 * BlockSize) - 1
  BY BlockIsNat DEF Bytes, NewBlock, Extent
<1>11. Exclusive({}, Bytes(NewBlock), {}, NewUsed, 4 * BlockSize)
  BY <1>10, BlockIsNat DEF Exclusive, NewUsed
<1>12. Good(d, n, NewUsed)
  BY <1>2, <1>4, <1>5, <1>9, <1>11 DEF Good
<1>13. QED
  BY <1>1, <1>2, <1>12 DEF Clean

LEMMA InitClaims ==
    ASSUME Init
    PROVE  Separate(UsedClaims) /\ Used \subseteq NewUsed
<1>1. PICK h : h = Claim("header", 0, 0, Extent(0, BlockSize))
  OBVIOUS
<1>2. PICK r : r = Claim("directory", 0, 0, dir)
  OBVIOUS
<1>3. PICK b : b = Claim("bucket", cur, 0, Extent(cur, BlockSize))
  OBVIOUS
<1>4. UsedClaims = {h, r, b}
  <2>1. DOMAIN bucket = {cur} /\ area \cup ({fresh} \ {NoExtent}) = {} /\ Len(olds) = 0
    BY DEF Init
  <2>2. TableClaims("old directory", 0, olds) = {}
    BY <2>1 DEF TableClaims
  <2>3. {Claim("bucket", k, 0, Extent(k, BlockSize)) : k \in DOMAIN bucket} = {b}
    BY ONLY <1>3, <2>1
  <2>4. {Claim("area", 0, 0, x) : x \in area \cup ({fresh} \ {NoExtent})} = {}
    BY ONLY <2>1
  <2>5. QED
    BY ONLY <1>1, <1>2, <2>2, <2>3, <2>4 DEF UsedClaims
<1>5. /\ h.adr = 0 /\ h.size = BlockSize /\ r.adr = BlockSize /\ r.size = BlockSize
      /\ b.adr = 2 * BlockSize /\ b.size = BlockSize
  BY <1>1, <1>2, <1>3 DEF Init, Claim, Extent
<1>6. /\ Bytes(h) = 0 .. BlockSize - 1
      /\ Bytes(r) = BlockSize .. (2 * BlockSize) - 1
      /\ Bytes(b) = 2 * BlockSize .. (3 * BlockSize) - 1
  BY <1>5, BlockIsNat DEF Bytes
<1>7. Bytes(h) \cap Bytes(r) = {} /\ Bytes(h) \cap Bytes(b) = {} /\ Bytes(r) \cap Bytes(b) = {}
  BY <1>6, BlockIsNat
<1>8. \A c \in UsedClaims : c.adr \in Nat /\ c.size \in Nat \ {0}
  BY <1>4, <1>5, BlockIsNat
<1>9. Separate(UsedClaims)
  BY <1>4, <1>7, <1>8 DEF Separate
<1>10. \A c \in UsedClaims : Bytes(c) \subseteq NewUsed
  BY <1>4, <1>6, BlockIsNat DEF NewUsed
<1>11. Used \subseteq NewUsed
  BY <1>10 DEF Used, BytesOfAll
<1>12. QED
  BY <1>9, <1>11

LEMMA InitSafe == Init => IInv
<1> SUFFICES ASSUME Init PROVE IInv
  OBVIOUS
<1>1. PICK n \in InitSizes, age \in Ages : db = Aged(NewFile(n), age)
  BY DEF Init
<1>2. n \in {StdSize, ExtSize} /\ age \in Nat
  BY SizesAssumption
<1>3. Good(db, n, NewUsed) /\ Clean(db)
  <2>1. PICK d : d = NewFile(n)
    OBVIOUS
  <2>2. Good(d, n, NewUsed) /\ Clean(d)
    BY <1>2, <2>1, NewFileGood
  <2>3. Good(Aged(d, age), n, NewUsed) /\ Clean(Aged(d, age))
    BY <1>2, <2>2, AgedGood
  <2>4. QED
    BY <1>1, <2>1, <2>3
<1>4. /\ bucket = [b \in {cur} |-> [avail |-> db.table, bits |-> 0]]
      /\ area = {} /\ pc = "idle" /\ olds = <<>> /\ fresh = NoExtent
  BY DEF Init
<1>5. DOMAIN bucket = {cur} /\ bucket[cur] = [avail |-> db.table, bits |-> 0]
  BY <1>4
<1>6. OthersOf(bucket, cur) = {}
  BY <1>5 DEF OthersOf
<1>7. Separate(UsedClaims) /\ Used \subseteq NewUsed
  BY InitClaims
<1>8. Table(db.table) /\ Len(db.table) <= BucketAvail /\ BytesOf(db.table) \cap NewUsed = {}
  BY <1>3 DEF Good, Shape, Exclusive
<1>9. bucket \in [DOMAIN bucket -> Buckets]
  BY <1>4, <1>5, <1>8 DEF Buckets, Table
<1>10. Good(db, n, Used \cup OthersOf(bucket, cur))
  BY <1>3, <1>6, <1>7, GoodLess
<1>11. World(db, n, bucket, cur, Used)
  BY <1>5, <1>7, <1>8, <1>9, <1>10 DEF World
<1>12. db.size = n
  BY <1>3 DEF Good, Shape
<1>13. AreasOK
  BY <1>4 DEF AreasOK
<1>14. CallOK
  BY <1>3, <1>4 DEF CallOK, Clean
<1>15. QED
  BY <1>7, <1>11, <1>12, <1>13, <1>14 DEF IInv

LEMMA NextSafe ==
    ASSUME ~FromWithStack, IInv, [Next]_vars
    PROVE  IInv'
<1>1. ASSUME NEW b \in DOMAIN bucket, NEW n \in AreaSizes, StoreNew(b, n) PROVE IInv'
  BY <1>1, StoreNewSafe
<1>2. ASSUME NEW x \in area, NEW n \in AreaSizes, StoreReplace(x, n) PROVE IInv'
  BY <1>2, StoreReplaceSafe
<1>3. ASSUME NEW x \in area, Delete(x) PROVE IInv'
  BY <1>3, DeleteSafe
<1>4. CASE SplitIter
  BY <1>4, SplitIterSafe
<1>5. CASE DirOverflow
  BY <1>5, DirOverflowSafe
<1>6. CASE SplitEnd
  BY <1>6, SplitEndSafe
<1>7. ASSUME NEW b \in DOMAIN bucket, ConvertToNumsync(b) PROVE IInv'
  BY <1>7, ConvertToNumsyncSafe
<1>8. CASE ConvertFromNumsync
  BY <1>8, ConvertFromNumsyncSafe
<1>9. ASSUME NEW n \in BOOLEAN, SetCentFree(n) \/ SetCoalesceBlks(n) PROVE IInv'
  BY <1>9, SettingSafe
<1>10. CASE Refused \/ Enough \/ UNCHANGED vars
  BY <1>10, Unchanged DEF Refused, Enough
<1>11. QED
  BY <1>1, <1>2, <1>3, <1>4, <1>5, <1>6, <1>7, <1>8, <1>9, <1>10 DEF Next

\* The header table, the table of the current bucket, the other buckets' tables and
\* the blocks on the stack are sorted, within their bounds, and share the file with
\* what is in use without an overlap, whatever gdbm_store, gdbm_delete,
\* _gdbm_split_bucket, gdbm_convert and gdbm_setopt do, in any order.
THEOREM Invariant == ASSUME ~FromWithStack PROVE Spec => []IInv
<1>1. IInv /\ [Next]_vars => IInv'
  BY NextSafe
<1>2. QED
  BY InitSafe, <1>1, PTL DEF Spec

-----------------------------------------------------------------------------
(* The properties. *)

LEMMA TableSizes ==
    ASSUME NEW t, Table(t), NEW n, Len(t) <= n
    PROVE  IsTable(t, n)
<1>1. \A i \in 1 .. Len(t) : t[i] \in Extents
  BY ElementOfSeq DEF Table
<1>2. \A i \in 1 .. Len(t) : t[i].size > IgnoreSize /\ t[i].adr \in Nat
  BY <1>1 DEF Extents
<1>3. QED
  BY <1>2 DEF IsTable

\* The tables never hold more entries than there is room for in the header, a bucket or
\* an avail block, whatever is pushed, popped, spilled or split, and nothing that is too
\* small to be kept (_gdbm_put_av_elem, adjust_bucket_avail, push_avail_block,
\* _gdbm_split_bucket); a call that ends has written the header (_gdbm_end_update).
THEOREM Types == ~FromWithStack => (Spec => []TypeOK)
<1>1. IInv => TypeOK
  <2> SUFFICES ASSUME IInv PROVE TypeOK
    OBVIOUS
  <2>1. World(db, db.size, bucket, cur, Used) /\ CallOK
    BY DEF IInv
  <2>2. db.size \in {StdSize, ExtSize} /\ Table(db.avail) /\ Len(db.avail) <= db.size
    BY <2>1 DEF World, Good, Shape, Descriptors
  <2>3. IsTable(db.avail, db.size)
    BY <2>2, TableSizes
  <2>4. \A b \in DOMAIN bucket : IsTable(bucket[b].avail, BucketAvail)
    <3>1. ASSUME NEW b \in DOMAIN bucket
          PROVE  IsTable(bucket[b].avail, BucketAvail)
      <4>1. Table(bucket[b].avail) /\ Len(bucket[b].avail) <= BucketAvail
        BY <2>1 DEF World
      <4>2. QED
        BY <4>1, TableSizes
    <3>2. QED
      BY <3>1
  <2>5. cur \in DOMAIN bucket /\ db.table = bucket[cur].avail
    BY <2>1 DEF World
  <2>6. QED
    BY <2>1, <2>2, <2>3, <2>4, <2>5 DEF TypeOK, CallOK
<1>2. ASSUME ~FromWithStack PROVE Spec => []TypeOK
  <2>1. Spec => []IInv
    BY <1>2, Invariant
  <2>2. QED
    BY <1>1, <2>1, PTL
<1>3. QED
  BY <1>2

LEMMA InOrder ==
    ASSUME NEW t, t \in Seq(Extents), Ascending(t)
    PROVE  Sorted(t)
<1>1. Len(t) \in Nat
  BY LenProperties
<1>2. \A i \in 1 .. Len(t) - 1 : i \in 1 .. Len(t) /\ i + 1 \in 1 .. Len(t) /\ i <= i + 1
  BY <1>1
<1>3. QED
  BY <1>2 DEF Sorted, Ascending

\* Every avail table stays in the order that avail_lookup's binary search needs, also
\* those in blocks on the stack and in blocks that the stack has lost
\* (_gdbm_put_av_elem, push_avail_block, pop_avail_block, _gdbm_split_bucket).
THEOREM Ordered == ~FromWithStack => (Spec => []TablesSorted)
<1>1. IInv => TablesSorted
  <2> SUFFICES ASSUME IInv PROVE TablesSorted
    OBVIOUS
  <2>1. World(db, db.size, bucket, cur, Used) /\ Shape(db, db.size)
    BY DEF IInv, World, Good
  <2>2. Sorted(db.avail)
    BY <2>1, InOrder DEF Shape, Table
  <2>3. ASSUME NEW b \in DOMAIN bucket PROVE Sorted(bucket[b].avail)
    <3>1. Table(bucket[b].avail)
      BY <2>1 DEF World
    <3>2. QED
      BY <3>1, InOrder DEF Table
  <2>4. ASSUME NEW k \in ToSet(db.stack) PROVE Sorted(k.table)
    <3>1. PICK i \in 1 .. Len(db.stack) : k = db.stack[i]
      <4>1. db.stack \in Seq(Blocks)
        BY <2>1 DEF Shape, Stack
      <4>2. QED
        BY <2>4, <4>1, LenProperties DEF ToSet
    <3>2. Readable(k, db.size)
      BY <2>1, <3>1 DEF Shape, Stack
    <3>3. QED
      BY <3>2, InOrder DEF Readable, Table
  <2>5. ASSUME NEW k \in db.orphans PROVE Sorted(k.table)
    <3>1. k.table \in Seq(Extents) /\ Ascending(k.table)
      BY <2>1 DEF Shape, Descriptors, Blocks
    <3>2. QED
      BY <3>1, InOrder
  <2>6. QED
    BY <2>2, <2>3, <2>4, <2>5 DEF TablesSorted
<1>2. ASSUME ~FromWithStack PROVE Spec => []TablesSorted
  <2>1. Spec => []IInv
    BY <1>2, Invariant
  <2>2. QED
    BY <1>1, <2>1, PTL
<1>3. QED
  BY <1>2

\* Two parties' claims that have no byte in common.
LEMMA SeparateBoth ==
    ASSUME NEW C, Separate(C), NEW D, Separate(D), BytesOfAll(C) \cap BytesOfAll(D) = {}
    PROVE  Separate(C \cup D) /\ BytesOfAll(C \cup D) = BytesOfAll(C) \cup BytesOfAll(D)
<1>1. \A c \in C, e \in D : Bytes(c) \cap Bytes(e) = {}
  BY DEF BytesOfAll
<1>2. QED
  BY <1>1 DEF Separate, BytesOfAll

\* Several parties, f[i] the claims of each, which are all of the bytes s[i].
Parties(f, s, I) ==
    /\ \A i \in I : Separate(f[i]) /\ BytesOfAll(f[i]) = s[i]
    /\ \A i, j \in I : i # j => s[i] \cap s[j] = {}

LEMMA SeparateAll ==
    ASSUME NEW I, NEW f, NEW s, Parties(f, s, I)
    PROVE  /\ Separate(UNION {f[i] : i \in I})
           /\ BytesOfAll(UNION {f[i] : i \in I}) = UNION {s[i] : i \in I}
<1>1. PICK C : C = UNION {f[i] : i \in I}
  OBVIOUS
<1>2. \A c \in C : c.adr \in Nat /\ c.size \in Nat \ {0}
  BY <1>1 DEF Parties, Separate
<1>3. ASSUME NEW c \in C, NEW e \in C, c # e PROVE Bytes(c) \cap Bytes(e) = {}
  <2>1. PICK i \in I : c \in f[i]
    BY <1>1
  <2>2. PICK j \in I : e \in f[j]
    BY <1>1
  <2>3. CASE i = j
    BY <1>3, <2>1, <2>2, <2>3 DEF Parties, Separate
  <2>4. CASE i # j
    <3>1. Bytes(c) \subseteq s[i] /\ Bytes(e) \subseteq s[j]
      BY <2>1, <2>2 DEF Parties, BytesOfAll
    <3>2. QED
      BY <2>4, <3>1 DEF Parties
  <2>5. QED
    BY <2>3, <2>4
<1>4. BytesOfAll(C) = UNION {s[i] : i \in I}
  <2>1. \A i \in I : s[i] = UNION {Bytes(c) : c \in f[i]}
    BY DEF Parties, BytesOfAll
  <2>2. QED
    BY ONLY <1>1, <2>1 DEF BytesOfAll
<1>5. QED
  BY <1>1, <1>2, <1>3, <1>4 DEF Separate

\* The claims on the entries of a table.
LEMMA TableSeparate ==
    ASSUME NEW t, Table(t), NEW what, NEW owner, NEW C, C = TableClaims(what, owner, t)
    PROVE  Separate(C) /\ BytesOfAll(C) = BytesOf(t)
<1>1. ASSUME NEW i \in 1 .. Len(t), NEW c, c = Claim(what, owner, i, t[i])
      PROVE  c.adr \in Nat /\ c.size \in Nat \ {0} /\ Bytes(c) = Bytes(t[i])
  <2>1. PICK e : e = t[i]
    OBVIOUS
  <2>2. e \in Extents
    BY <2>1, ElementOfSeq DEF Table
  <2>3. c.adr = e.adr /\ c.size = e.size
    BY <1>1, <2>1 DEF Claim
  <2>4. e.adr \in Nat /\ e.size \in Nat \ {0}
    BY <2>2, SizesAssumption DEF Extents
  <2>5. QED
    BY <2>1, <2>3, <2>4 DEF Bytes
<1>2. \A c \in C : \E i \in 1 .. Len(t) : c = Claim(what, owner, i, t[i])
  BY DEF TableClaims
<1>3. \A c \in C : c.adr \in Nat /\ c.size \in Nat \ {0}
  BY <1>1, <1>2
<1>4. ASSUME NEW c \in C, NEW e \in C, c # e PROVE Bytes(c) \cap Bytes(e) = {}
  <2>1. PICK i \in 1 .. Len(t) : c = Claim(what, owner, i, t[i])
    BY <1>2
  <2>2. PICK j \in 1 .. Len(t) : e = Claim(what, owner, j, t[j])
    BY <1>2
  <2>3. i # j
    BY <1>4, <2>1, <2>2
  <2>4. Bytes(c) = Bytes(t[i]) /\ Bytes(e) = Bytes(t[j])
    BY <1>1, <2>1, <2>2
  <2>5. QED
    BY <2>3, <2>4 DEF Table, Apart
<1>5. BytesOfAll(C) \subseteq BytesOf(t)
  <2>1. ASSUME NEW c \in C PROVE Bytes(c) \subseteq BytesOf(t)
    <3>1. PICK i \in 1 .. Len(t) : c = Claim(what, owner, i, t[i])
      BY <1>2
    <3>2. Bytes(c) = Bytes(t[i])
      BY <1>1, <3>1
    <3>3. QED
      BY <3>2 DEF BytesOf
  <2>2. QED
    BY <2>1 DEF BytesOfAll
<1>6. BytesOf(t) \subseteq BytesOfAll(C)
  <2>1. ASSUME NEW i \in 1 .. Len(t) PROVE Bytes(t[i]) \subseteq BytesOfAll(C)
    <3>1. PICK c : c = Claim(what, owner, i, t[i])
      OBVIOUS
    <3>2. c \in C
      BY <3>1 DEF TableClaims
    <3>3. Bytes(c) = Bytes(t[i])
      BY <1>1, <3>1
    <3>4. QED
      BY <3>2, <3>3 DEF BytesOfAll
  <2>2. QED
    BY <2>1 DEF BytesOf
<1>7. QED
  BY <1>3, <1>4, <1>5, <1>6 DEF Separate

\* What an avail block of the stack claims: itself, and the space listed in it.
BlockClaims(k, i) ==
    {Claim("stack", i, 0, BlockOf(k))} \cup TableClaims("stack avail", i, k.table)

LEMMA BlockSeparate ==
    ASSUME NEW k \in Blocks, NEW n \in {StdSize, ExtSize}, Readable(k, n), NEW i,
           NEW C, C = BlockClaims(k, i)
    PROVE  Separate(C) /\ BytesOfAll(C) = BlockBytes(k)
<1>1. PICK D : D = TableClaims("stack avail", i, k.table)
  OBVIOUS
<1>2. PICK c : c = Claim("stack", i, 0, BlockOf(k))
  OBVIOUS
<1>3. Separate(D) /\ BytesOfAll(D) = BytesOf(k.table)
  BY <1>1, TableSeparate DEF Readable
<1>4. c.adr \in Nat /\ c.size \in Nat \ {0} /\ Bytes(c) = Bytes(BlockOf(k))
  <2>1. k.adr \in Nat /\ k.bytes \in Nat /\ k.bytes >= BlockLen(n)
    BY DEF Blocks, Readable
  <2>2. BlockLen(n) \in Nat /\ BlockLen(n) > 0
    BY BlockLenIs
  <2>3. c.adr = k.adr /\ c.size = k.bytes /\ Bytes(c) = Bytes(BlockOf(k))
    BY <1>2 DEF Claim, BlockOf, Extent, Bytes
  <2>4. QED
    BY <2>1, <2>2, <2>3
<1>5. Bytes(c) \cap BytesOfAll(D) = {}
  BY <1>3, <1>4 DEF Readable
<1>6. Separate(D \cup {c}) /\ BytesOfAll(D \cup {c}) = BytesOfAll(D) \cup Bytes(c)
  BY <1>3, <1>4, <1>5, SeparateMore
<1>7. C = D \cup {c}
  BY <1>1, <1>2 DEF BlockClaims
<1>8. QED
  BY <1>3, <1>4, <1>6, <1>7 DEF BlockBytes

\* The claims of each bucket on what its avail table lists, and of each block of the
\* stack.
BucketClaims == [b \in DOMAIN bucket |-> TableClaims("bucket avail", b, bucket[b].avail)]
StackClaims == [i \in 1 .. Len(db.stack) |-> BlockClaims(db.stack[i], i)]

LEMMA ClaimsAre ==
    Claims = ((UsedClaims \cup TableClaims("avail", 0, db.avail))
              \cup UNION {BucketClaims[b] : b \in DOMAIN bucket})
             \cup UNION {StackClaims[i] : i \in 1 .. Len(db.stack)}
<1>1. PICK D : D = DOMAIN bucket
  OBVIOUS
<1>2. PICK N : N = 1 .. Len(db.stack)
  OBVIOUS
<1>3. UNION {BucketClaims[b] : b \in D}
        = UNION {TableClaims("bucket avail", b, bucket[b].avail) : b \in D}
  BY <1>1 DEF BucketClaims
<1>4. \A i \in N : StackClaims[i] = {Claim("stack", i, 0, BlockOf(db.stack[i]))}
                                    \cup TableClaims("stack avail", i, db.stack[i].table)
  BY <1>2 DEF StackClaims, BlockClaims
<1>5. UNION {StackClaims[i] : i \in N}
        = {Claim("stack", i, 0, BlockOf(db.stack[i])) : i \in N}
          \cup UNION {TableClaims("stack avail", i, db.stack[i].table) : i \in N}
  BY ONLY <1>4
<1>6. {Claim("stack", i, 0, BlockOf(db.stack[i])) : i \in N}
        = {Claim("stack", i, 0, Extent(db.stack[i].adr, db.stack[i].bytes)) : i \in N}
  BY DEF BlockOf
<1>7. PICK A : A = UsedClaims \cup TableClaims("avail", 0, db.avail)
  OBVIOUS
<1>8. PICK B : B = UNION {TableClaims("bucket avail", b, bucket[b].avail) : b \in DOMAIN bucket}
  OBVIOUS
<1>9. PICK S : S = {Claim("stack", i, 0, Extent(db.stack[i].adr, db.stack[i].bytes)) :
                      i \in 1 .. Len(db.stack)}
  OBVIOUS
<1>10. PICK T : T = UNION {TableClaims("stack avail", i, db.stack[i].table) :
                             i \in 1 .. Len(db.stack)}
  OBVIOUS
<1>11. Claims = A \cup B \cup S \cup T
  BY ONLY Zenon, <1>7, <1>8, <1>9, <1>10 DEF Claims
<1>12. UNION {StackClaims[i] : i \in N} = S \cup T
  BY ONLY <1>2, <1>5, <1>6, <1>9, <1>10
<1>13. QED
  BY ONLY <1>1, <1>2, <1>3, <1>7, <1>8, <1>11, <1>12

\* The five kinds of owners, all of their bytes, and the file they are in.
LEMMA AllSeparate ==
    ASSUME IInv
    PROVE  /\ Separate(Claims)
           /\ BytesOfAll(Claims) \subseteq 0 .. db.next_block - 1
<1>1. World(db, db.size, bucket, cur, Used) /\ Separate(UsedClaims)
  BY DEF IInv
<1>2. PICK O : O = OthersOf(bucket, cur)
  OBVIOUS
<1>3. /\ Shape(db, db.size)
      /\ Exclusive(BytesOf(db.avail), BytesOf(db.table), StackBytes(db.stack), Used \cup O,
                   db.next_block)
  BY <1>1, <1>2 DEF World, Good
<1>4. PICK A : A = TableClaims("avail", 0, db.avail)
  OBVIOUS
<1>5. Separate(A) /\ BytesOfAll(A) = BytesOf(db.avail)
  BY <1>3, <1>4, TableSeparate DEF Shape
<1>6. PICK B : B = UNION {BucketClaims[b] : b \in DOMAIN bucket}
  OBVIOUS
<1>7. Separate(B) /\ BytesOfAll(B) = BytesOf(db.table) \cup O
  <2>1. PICK s : s = [b \in DOMAIN bucket |-> BytesOf(bucket[b].avail)]
    OBVIOUS
  <2>2. ASSUME NEW b \in DOMAIN bucket
        PROVE  Separate(BucketClaims[b]) /\ BytesOfAll(BucketClaims[b]) = s[b]
    <3>1. PICK t : t = bucket[b].avail
      OBVIOUS
    <3>2. Table(t) /\ s[b] = BytesOf(t)
      BY <1>1, <2>1, <3>1 DEF World
    <3>3. PICK C : C = TableClaims("bucket avail", b, t)
      OBVIOUS
    <3>4. BucketClaims[b] = C
      BY <3>1, <3>3 DEF BucketClaims
    <3>5. Separate(C) /\ BytesOfAll(C) = BytesOf(t)
      BY <3>2, <3>3, TableSeparate
    <3>6. QED
      BY <3>2, <3>4, <3>5
  <2>3. Parties(BucketClaims, s, DOMAIN bucket)
    BY <1>1, <2>1, <2>2 DEF Parties, World
  <2>4. Separate(B) /\ BytesOfAll(B) = UNION {s[b] : b \in DOMAIN bucket}
    BY <1>6, <2>3, SeparateAll
  <2>5. cur \in DOMAIN bucket /\ db.table = bucket[cur].avail
    BY <1>1 DEF World
  <2>6. UNION {s[b] : b \in DOMAIN bucket} = BytesOf(db.table) \cup O
    BY ONLY <1>2, <2>1, <2>5 DEF OthersOf
  <2>7. QED
    BY <2>4, <2>6
<1>8. PICK S : S = UNION {StackClaims[i] : i \in 1 .. Len(db.stack)}
  OBVIOUS
<1>9. Separate(S) /\ BytesOfAll(S) = StackBytes(db.stack)
  <2>1. PICK q : q = db.stack
    OBVIOUS
  <2>2. PICK n \in {StdSize, ExtSize} : n = db.size
    BY <1>3 DEF Shape, Descriptors
  <2>3. Stack(q, n)
    BY <1>3, <2>1, <2>2 DEF Shape
  <2>4. PICK s : s = [i \in 1 .. Len(q) |-> BlockBytes(q[i])]
    OBVIOUS
  <2>5. ASSUME NEW i \in 1 .. Len(q)
        PROVE  Separate(StackClaims[i]) /\ BytesOfAll(StackClaims[i]) = s[i]
    <3>1. PICK k : k = q[i]
      OBVIOUS
    <3>2. k \in Blocks /\ Readable(k, n)
      BY <2>3, <3>1, ElementOfSeq DEF Stack
    <3>3. PICK C : C = BlockClaims(k, i)
      OBVIOUS
    <3>4. Separate(C) /\ BytesOfAll(C) = BlockBytes(k)
      BY <3>2, <3>3, BlockSeparate
    <3>5. StackClaims[i] = C
      BY <2>1, <3>1, <3>3 DEF StackClaims
    <3>6. QED
      BY <2>4, <3>1, <3>4, <3>5
  <2>f. PICK f : f = StackClaims
    OBVIOUS
  <2>6. Parties(f, s, 1 .. Len(q))
    <3>1. \A i, j \in 1 .. Len(q) : i # j => BlockBytes(q[i]) \cap BlockBytes(q[j]) = {}
      BY <2>3 DEF Stack
    <3>2. \A i, j \in 1 .. Len(q) : i # j => s[i] \cap s[j] = {}
      BY ONLY <2>4, <3>1
    <3>3. \A i \in 1 .. Len(q) : Separate(f[i]) /\ BytesOfAll(f[i]) = s[i]
      BY <2>5, <2>f
    <3>4. QED
      BY ONLY Zenon, <3>2, <3>3 DEF Parties
  <2>7. Separate(S) /\ BytesOfAll(S) = UNION {s[i] : i \in 1 .. Len(q)}
    <3>1. PICK N : N = 1 .. Len(q)
      OBVIOUS
    <3>2. S = UNION {f[i] : i \in N}
      BY <1>8, <2>1, <2>f, <3>1
    <3>3. Parties(f, s, N)
      BY <2>6, <3>1
    <3>4. Separate(S) /\ BytesOfAll(S) = UNION {s[i] : i \in N}
      BY ONLY <3>2, <3>3, SeparateAll
    <3>5. QED
      BY ONLY <3>1, <3>4
  <2>8. UNION {s[i] : i \in 1 .. Len(q)} = StackBytes(q)
    BY <2>4 DEF StackBytes
  <2>9. QED
    BY <2>1, <2>7, <2>8
<1>10. BytesOfAll(UsedClaims) = Used
  BY DEF Used
<1>11. Used \cap (BytesOf(db.table) \cup O) = {}
  BY <1>1, <1>3, TablesOff, <1>2 DEF Exclusive
<1>12. /\ Separate(UsedClaims \cup A)
       /\ BytesOfAll(UsedClaims \cup A) = Used \cup BytesOf(db.avail)
  BY <1>1, <1>3, <1>5, <1>10, SeparateBoth DEF Exclusive
<1>13. /\ Separate((UsedClaims \cup A) \cup B)
       /\ BytesOfAll((UsedClaims \cup A) \cup B)
            = (Used \cup BytesOf(db.avail)) \cup (BytesOf(db.table) \cup O)
  <2>1. (Used \cup BytesOf(db.avail)) \cap (BytesOf(db.table) \cup O) = {}
    BY <1>3, <1>11 DEF Exclusive
  <2>2. QED
    BY <1>7, <1>12, <2>1, SeparateBoth
<1>14. PICK D : D = (UsedClaims \cup A) \cup B
  OBVIOUS
<1>15. BytesOfAll(D) \cap StackBytes(db.stack) = {}
  BY <1>3, <1>13, <1>14 DEF Exclusive
<1>16. Separate(D \cup S) /\ BytesOfAll(D \cup S) = BytesOfAll(D) \cup StackBytes(db.stack)
  <2>1. Separate(D) /\ Separate(S) /\ BytesOfAll(D) \cap BytesOfAll(S) = {}
    BY <1>9, <1>13, <1>14, <1>15
  <2>2. QED
    BY <1>9, <2>1, SeparateBoth
<1>17. Claims = D \cup S
  BY ONLY <1>4, <1>6, <1>8, <1>14, ClaimsAre
<1>18. BytesOfAll(D) \cup StackBytes(db.stack) \subseteq 0 .. db.next_block - 1
  BY <1>3, <1>13, <1>14 DEF Exclusive
<1>19. QED
  BY <1>16, <1>17, <1>18

\* Extents that have no byte in common lie one behind the other.
LEMMA OneBehind ==
    ASSUME NEW c, c.adr \in Nat, c.size \in Nat \ {0},
           NEW e, e.adr \in Nat, e.size \in Nat \ {0}, Bytes(c) \cap Bytes(e) = {}
    PROVE  c.adr + c.size <= e.adr \/ e.adr + e.size <= c.adr
<1>1. PICK a \in Nat, m \in Nat, b \in Nat, n \in Nat :
        a = c.adr /\ m = c.size /\ b = e.adr /\ n = e.size /\ m > 0 /\ n > 0
  OBVIOUS
<1>2. SUFFICES ASSUME b < a + m, a < b + n PROVE FALSE
  BY <1>1
<1>3. PICK x \in Nat : x = IF a < b THEN b ELSE a
  OBVIOUS
<1>4. x >= a /\ x >= b /\ x < a + m /\ x < b + n
  BY <1>1, <1>2, <1>3
<1>5. x \in a .. a + m - 1 /\ x \in b .. b + n - 1
  BY <1>4
<1>6. x \in Bytes(c) /\ x \in Bytes(e)
  BY <1>1, <1>5 DEF Bytes
<1>7. QED
  BY <1>6

\* What is within bytes 0 .. n - 1 ends at n or before.
LEMMA EndsWithin ==
    ASSUME NEW e, e.adr \in Nat, e.size \in Nat \ {0}, NEW n \in Nat,
           Bytes(e) \subseteq 0 .. n - 1
    PROVE  e.adr + e.size <= n
<1>1. PICK a \in Nat, m \in Nat : a = e.adr /\ m = e.size /\ m > 0
  OBVIOUS
<1>2. (a + m) - 1 \in Bytes(e)
  BY <1>1 DEF Bytes
<1>3. (a + m) - 1 \in 0 .. n - 1
  BY <1>2
<1>4. QED
  BY <1>1, <1>3

\* _gdbm_alloc never hands out bytes that something else still uses, and _gdbm_free and
\* the tables never count bytes twice: through coalescing, the spilling of a bucket's
\* table, the pushing and popping of avail blocks, splits that allocate buckets and
\* directories while the old ones are still in use, and conversions (falloc.c,
\* bucket.c).
THEOREM Exclusiveness == ~FromWithStack => (Spec => []SpaceExclusive)
<1>1. IInv => SpaceExclusive
  <2> SUFFICES ASSUME IInv PROVE SpaceExclusive
    OBVIOUS
  <2>1. Separate(Claims) /\ BytesOfAll(Claims) \subseteq 0 .. db.next_block - 1
    BY AllSeparate
  <2>2. PICK C : C = Claims
    OBVIOUS
  <2>3. db.next_block \in Nat
    BY DEF IInv, World, Good, Shape, Descriptors
  <2>4. ASSUME NEW c \in C, NEW e \in C, c # e
        PROVE  c.adr + c.size <= e.adr \/ e.adr + e.size <= c.adr
    BY <2>1, <2>2, <2>4, OneBehind DEF Separate
  <2>5. ASSUME NEW c \in C PROVE c.adr + c.size <= db.next_block
    <3>1. PICK n \in Nat : n = db.next_block
      BY <2>3
    <3>2. c.adr \in Nat /\ c.size \in Nat \ {0}
      BY <2>1, <2>2 DEF Separate
    <3>3. Bytes(c) \subseteq 0 .. n - 1
      BY <2>1, <2>2, <3>1 DEF BytesOfAll
    <3>4. c.adr + c.size <= n
      BY <3>2, <3>3, EndsWithin
    <3>5. QED
      BY <3>1, <3>4
  <2>6. QED
    BY <2>2, <2>4, <2>5 DEF SpaceExclusive
<1>2. ASSUME ~FromWithStack PROVE Spec => []SpaceExclusive
  <2>1. Spec => []IInv
    BY <1>2, Invariant
  <2>2. QED
    BY <1>1, <2>1, PTL
<1>3. QED
  BY <1>2

LEMMA HeaderUsed ==
    0 .. BlockSize - 1 \subseteq Used
<1>1. PICK h : h = Claim("header", 0, 0, Extent(0, BlockSize))
  OBVIOUS
<1>2. h \in UsedClaims
  BY <1>1 DEF UsedClaims
<1>3. h.adr = 0 /\ h.size = BlockSize
  BY <1>1 DEF Claim, Extent
<1>4. Bytes(h) = 0 .. BlockSize - 1
  BY <1>3, BlockIsNat DEF Bytes
<1>5. QED
  BY <1>2, <1>4 DEF Used, BytesOfAll

LEMMA HalfDivided ==
    ASSUME NEW n \in Nat, NEW e \in Nat \ {0}
    PROVE  n \div 2 <= ((n * e) \div 2) \div e
<1>1. PICK h \in Nat : h = n \div 2 /\ 2 * h <= n
  OBVIOUS
<1>2. PICK p \in Nat : p = n * e
  OBVIOUS
<1>3. 2 * (h * e) <= p
  <2>1. (2 * h) * e <= n * e
    BY <1>1, TimesMonotonic
  <2>2. QED
    BY <1>2, <2>1
<1>4. PICK q \in Nat : q = p \div 2 /\ h * e <= q
  <2>1. PICK k \in Nat : k = h * e
    BY <1>1
  <2>2. QED
    BY <1>2, <1>3, <2>1
<1>5. h <= q \div e
  <2>1. PICK r \in Nat : r = q \div e /\ q < (r + 1) * e
    BY <1>4
  <2>2. h * e < (r + 1) * e
    <3>1. h * e \in Nat /\ (r + 1) * e \in Nat
      BY <1>1, <2>1
    <3>2. QED
      BY <1>4, <2>1, <3>1
  <2>3. h < r + 1
    <3>1. SUFFICES ASSUME r + 1 <= h PROVE FALSE
      BY <1>1, <2>1
    <3>2. (r + 1) * e <= h * e
      BY <2>1, <1>1, <3>1, TimesMonotonic
    <3>3. h * e \in Nat /\ (r + 1) * e \in Nat
      BY <1>1, <2>1
    <3>4. QED
      BY <2>2, <3>2, <3>3
  <2>4. QED
    BY <1>1, <2>1, <2>3
<1>6. QED
  BY <1>1, <1>2, <1>4, <1>5

\* What is free lies behind the header, and within the file.
LEMMA FreeWithin ==
    ASSUME IInv, NEW t, Table(t), BytesOf(t) \cap Used = {},
           BytesOf(t) \subseteq 0 .. db.next_block - 1
    PROVE  AvailTableValid(db, t)
<1>1. SUFFICES ASSUME NEW i \in 1 .. Len(t), NEW e, e = t[i]
               PROVE  e.adr >= BlockSize /\ e.adr + e.size <= db.next_block
  <2>1. \A x \in ToSet(t) : \E i \in 1 .. Len(t) : x = t[i]
    BY LenProperties DEF ToSet, Table
  <2>2. QED
    BY <1>1, <2>1 DEF AvailTableValid
<1>2. e \in Extents /\ Bytes(e) \subseteq BytesOf(t)
  BY <1>1, ElementOfSeq DEF Table, BytesOf
<1>3. e.adr \in Nat /\ e.size \in Nat \ {0}
  BY <1>2, SizesAssumption DEF Extents
<1>4. PICK n \in Nat : n = db.next_block
  BY DEF IInv, World, Good, Shape, Descriptors
<1>5. e.adr + e.size <= n
  <2>1. Bytes(e) \subseteq 0 .. n - 1
    BY <1>2, <1>4
  <2>2. QED
    BY <1>3, <2>1, EndsWithin
<1>6. e.adr \notin Used
  BY <1>2, <1>3, SomeByte
<1>7. 0 .. BlockSize - 1 \subseteq Used
  BY HeaderUsed
<1>8. e.adr >= BlockSize
  BY <1>3, <1>6, <1>7, BlockIsNat
<1>9. QED
  BY <1>4, <1>5, <1>8

\* Whatever push_avail_block wrote fits in the bytes that are read.
LEMMA FitsInBlock ==
    ASSUME NEW n \in {StdSize, ExtSize}, NEW l \in Nat, l <= ExtSize \div 2 + 1
    PROVE  /\ BlockLen(n) > AvailHead
           /\ l <= (BlockLen(n) - AvailHead) \div ElemBytes + 1
<1>1. n \in Nat /\ n >= 3 /\ ExtSize <= n /\ ExtSize \in Nat
  <2>1. ExtSize \in Nat /\ StdSize \in Nat /\ StdSize > ExtSize
    BY TableRoomAssumption
  <2>2. (ExtSize + 1) \div 2 + Third + 2 <= ExtSize
    BY TableRoomAssumption DEF Third
  <2>3. ExtSize >= 3
    BY <2>1, <2>2, ThirdIsNat
  <2>4. QED
    BY <2>1, <2>3
<1>2. ElemBytes \in Nat \ {0} /\ AvailHead \in Nat
  BY SizesAssumption
<1>3. PICK e \in Nat \ {0} : e = ElemBytes
  BY <1>2
<1>4. n * e \in Nat /\ n * e >= n
  BY <1>1
<1>5. PICK p \in Nat : p = n * e
  BY <1>4
<1>6. p \div 2 \in Nat /\ p \div 2 > 0
  BY <1>1, <1>4, <1>5
<1>7. n \div 2 <= (p \div 2) \div e
  BY <1>1, <1>5, HalfDivided
<1>8. BlockLen(n) = p \div 2 + AvailHead
  BY <1>3, <1>5 DEF BlockLen
<1>9. ExtSize \div 2 <= n \div 2
  BY <1>1
<1>10. PICK q \in Nat : q = p \div 2
  BY <1>6
<1>11. q \div e \in Nat
  BY <1>10
<1>12. BlockLen(n) - AvailHead = q /\ BlockLen(n) > AvailHead
  BY <1>2, <1>6, <1>8, <1>10
<1>13. l <= q \div e + 1
  BY <1>1, <1>7, <1>9, <1>10, <1>11
<1>14. QED
  BY <1>3, <1>12, <1>13

\* The blocks of the stack lie behind the header, each at an address of its own.
LEMMA BlocksApart ==
    ASSUME IInv, NEW i \in 1 .. Len(db.stack)
    PROVE  /\ db.stack[i].adr # 0
           /\ \A j \in 1 .. Len(db.stack) : i # j => db.stack[j].adr # db.stack[i].adr
<1>1. PICK s : s = db.stack
  OBVIOUS
<1>2. PICK n \in {StdSize, ExtSize} : n = db.size /\ Stack(s, n)
  BY <1>1 DEF IInv, World, Good, Shape, Descriptors
<1>3. StackBytes(s) \cap Used = {}
  BY <1>1 DEF IInv, World, Good, Exclusive
<1>4. ASSUME NEW j \in 1 .. Len(s)
      PROVE  s[j].adr \in Nat /\ s[j].adr \in BlockBytes(s[j])
  <2>1. PICK k : k = s[j]
    OBVIOUS
  <2>2. k \in Blocks /\ Readable(k, n)
    BY <1>2, <2>1, ElementOfSeq DEF Stack
  <2>3. k.adr \in Nat /\ k.bytes \in Nat /\ k.bytes >= BlockLen(n)
    BY <2>2 DEF Blocks, Readable
  <2>4. BlockLen(n) \in Nat /\ BlockLen(n) > 0
    BY BlockLenIs
  <2>5. k.adr \in Bytes(BlockOf(k))
    BY <2>3, <2>4 DEF Bytes, BlockOf, Extent
  <2>6. QED
    BY <2>1, <2>3, <2>5 DEF BlockBytes
<1>5. s[i].adr # 0
  <2>1. s[i].adr \notin Used
    BY <1>1, <1>3, <1>4 DEF StackBytes
  <2>2. 0 \in Used
    BY HeaderUsed, BlockIsNat
  <2>3. QED
    BY <2>1, <2>2
<1>6. ASSUME NEW j \in 1 .. Len(s), i # j PROVE s[j].adr # s[i].adr
  <2>1. BlockBytes(s[i]) \cap BlockBytes(s[j]) = {}
    BY <1>1, <1>2, <1>6 DEF Stack
  <2>2. s[i].adr \in BlockBytes(s[i]) /\ s[j].adr \in BlockBytes(s[j])
    BY <1>1, <1>4
  <2>3. QED
    BY <2>1, <2>2
<1>7. QED
  BY <1>1, <1>5, <1>6

\* Whatever gdbm_avail_verify and the validation of a bucket look at is as they want it,
\* also while a split is under way and after a conversion to the extended format, when
\* blocks of the longer table are read as blocks of the shorter one (avail.c,
\* pop_avail_block of falloc.c, _gdbm_convert_to_numsync).
THEOREM Readability == ~FromWithStack => (Spec => []StackReadable)
<1>1. IInv => StackReadable
  <2> SUFFICES ASSUME IInv PROVE StackReadable
    OBVIOUS
  <2>1. World(db, db.size, bucket, cur, Used)
    BY DEF IInv
  <2>2. PICK n \in {StdSize, ExtSize} : n = db.size
    BY <2>1 DEF World, Good, Shape, Descriptors
  <2>3. /\ Table(db.avail) /\ Len(db.avail) <= n
        /\ Stack(db.stack, n) /\ AvailBlockBytes(db) = BlockLen(n)
    BY <2>1, <2>2 DEF World, Good, Shape, AvailBlockBytes, BlockLen
  <2>4. PICK N : N = 0 .. db.next_block - 1
    OBVIOUS
  <2>5. /\ BytesOf(db.avail) \cap Used = {} /\ BytesOf(db.avail) \subseteq N
        /\ StackBytes(db.stack) \cap Used = {} /\ StackBytes(db.stack) \subseteq N
        /\ BytesOf(db.table) \cap Used = {} /\ BytesOf(db.table) \subseteq N
        /\ OthersOf(bucket, cur) \subseteq N
    BY <2>1, <2>4 DEF World, Good, Exclusive
  <2>6. AvailBlockValid(db, db.avail, db.size * ElemBytes + AvailHead)
    <3>1. AvailTableValid(db, db.avail)
      BY <2>3, <2>4, <2>5, FreeWithin
    <3>2. n \in Nat /\ n > 0 /\ ElemBytes \in Nat \ {0} /\ AvailHead \in Nat
      BY SizesAssumption, TableRoomAssumption, ThirdIsNat
    <3>3. PICK p : p = n * ElemBytes
      OBVIOUS
    <3>4. p \in Nat /\ p > 0 /\ p \div ElemBytes = n
      BY <3>2, <3>3
    <3>5. (p + AvailHead) - AvailHead = p /\ p + AvailHead > AvailHead
      BY <3>2, <3>4
    <3>6. Len(db.avail) <= p \div ElemBytes + 1
      <4>1. Len(db.avail) \in Nat
        BY <2>3, LenProperties DEF Table
      <4>2. QED
        BY <2>3, <3>2, <3>4, <4>1
    <3>7. db.size * ElemBytes + AvailHead = p + AvailHead
      BY <2>2, <3>3
    <3>8. QED
      BY <3>1, <3>5, <3>6, <3>7 DEF AvailBlockValid
  <2>7. ASSUME NEW i \in 1 .. Len(db.stack)
        PROVE  AvailBlockValid(db, db.stack[i].table, AvailBlockBytes(db))
    <3>1. PICK k : k = db.stack[i]
      OBVIOUS
    <3>2. Readable(k, n) /\ BytesOf(k.table) \subseteq StackBytes(db.stack)
      BY <2>3, <3>1 DEF Stack, StackBytes, BlockBytes
    <3>3. AvailTableValid(db, k.table)
      BY <2>4, <2>5, <3>2, FreeWithin DEF Readable
    <3>4. PICK l : l = Len(k.table)
      OBVIOUS
    <3>5. l \in Nat /\ l <= ExtSize \div 2 + 1
      BY <3>2, <3>4, LenProperties DEF Readable, Table
    <3>6. BlockLen(n) > AvailHead /\ l <= (BlockLen(n) - AvailHead) \div ElemBytes + 1
      BY <3>5, FitsInBlock
    <3>7. QED
      BY <2>3, <3>1, <3>3, <3>4, <3>6 DEF AvailBlockValid
  <2>8. AvailTraverse(db)
    <3>1. ASSUME NEW i \in 1 .. Len(db.stack), NEW j \in 1 .. i - 1
          PROVE  db.stack[j].adr # db.stack[i].adr
      <4>1. Len(db.stack) \in Nat
        BY <2>3, LenProperties DEF Stack
      <4>2. j \in 1 .. Len(db.stack) /\ i # j
        BY <4>1
      <4>3. QED
        BY <4>2, BlocksApart
    <3>2. \A i \in 1 .. Len(db.stack) : db.stack[i].adr # 0
      BY BlocksApart
    <3>3. QED
      BY <2>7, <3>1, <3>2 DEF AvailTraverse
  <2>9. ASSUME NEW b \in DOMAIN bucket PROVE BucketAvailValid(db, b)
    <3>1. PICK t : t = bucket[b].avail
      OBVIOUS
    <3>2. Table(t) /\ Len(t) <= BucketAvail /\ BytesOf(t) \cap Used = {}
      BY <2>1, <3>1 DEF World
    <3>3. BytesOf(t) \subseteq N
      <4>1. CASE b = cur
        BY <2>1, <2>5, <3>1, <4>1 DEF World
      <4>2. CASE b # cur
        BY <2>5, <3>1, <4>2 DEF OthersOf
      <4>3. QED
        BY <4>1, <4>2
    <3>4. AvailTableValid(db, t)
      BY <2>4, <3>2, <3>3, FreeWithin
    <3>5. QED
      BY <3>1, <3>2, <3>4 DEF BucketAvailValid
  <2>10. QED
    BY <2>6, <2>8, <2>9 DEF StackReadable
<1>2. ASSUME ~FromWithStack PROVE Spec => []StackReadable
  <2>1. Spec => []IInv
    BY <1>2, Invariant
  <2>2. QED
    BY <1>1, <2>1, PTL
<1>3. QED
  BY <1>2

=============================================================================
