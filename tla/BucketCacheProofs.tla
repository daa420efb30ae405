-------------------------- MODULE BucketCacheProofs --------------------------
(***************************************************************************)
(* Proofs about module BucketCache, for every set of addresses, hash       *)
(* function, capacity and limit of the directory: the list and the table   *)
(* have the same elements, what the table finds is up to date, and what is *)
(* changed is written.                                                     *)
(***************************************************************************)
EXTENDS BucketCache, SequenceTheorems, WellFoundedInduction, TLAPS

\* The behaviours the theorems are about: those in which a split that fails does not
\* separate changed elements, and in which the cache is not resized while it holds an
\* element that is in no chain.  Runs show what goes wrong in the other ones.
SoundModes == \A o \in Modes : ~o.gap /\ ~(o.resize /\ o.stale_slot)

-----------------------------------------------------------------------------
(* Numbers. *)

\* A property that the first number has and that passes on holds up to a bound.
LEMMA CountUp ==
    ASSUME NEW N \in Nat, NEW T, 0 \in T, \A m \in 0 .. N - 1 : m \in T => m + 1 \in T
    PROVE  \A m \in 0 .. N : m \in T
<1> SUFFICES ASSUME NEW m \in 0 .. N, m \notin T PROVE FALSE
  OBVIOUS
<1> DEFINE B == {x \in Nat : x <= N /\ x \notin T}
<1>1. B \in SUBSET Nat /\ B # {}
  OBVIOUS
<1>2. PICK x \in B : \A y \in B : <<y, x>> \notin OpToRel(<, Nat)
  BY <1>1, NatLessThanWellFounded, WFMin
<1>3. x \in Nat /\ x # 0 /\ x - 1 \in Nat /\ x - 1 < x /\ x <= N
  OBVIOUS
<1>4. x - 1 \notin B
  BY <1>2, <1>3 DEF OpToRel
<1>5. x - 1 \in T
  BY <1>3, <1>4
<1>6. x - 1 \in 0 .. N - 1
  BY <1>3
<1>7. (x - 1) + 1 \in T
  BY <1>5, <1>6
<1>8. QED
  BY <1>3, <1>7

LEMMA MulOrder ==
    ASSUME NEW x \in Nat, NEW y \in Nat, NEW q \in Nat, x <= y
    PROVE  q * x <= q * y
<1>1. PICK d \in Nat : y = x + d
  <2>1. y - x \in Nat /\ y = x + (y - x)
    OBVIOUS
  <2>2. QED
    BY <2>1
<1>2. q * y = q * x + q * d /\ q * d \in Nat /\ q * x \in Nat
  BY <1>1
<1>3. QED
  BY <1>2

\* The capacity of the cache, and the index of an address.
LEMMA IndexFacts ==
    ASSUME NEW b \in CacheBits
    PROVE  /\ 2^b \in Nat /\ 2^b >= 4 /\ b \in Nat
           /\ \A a \in Adr : Index(a, b) \in 0 .. 2^b - 1
           /\ b + 1 \in CacheBits => 2^(b + 1) = 2 * 2^b
<1>1. b \in 0 .. HashBits /\ b >= 2 /\ HashBits - b \in 0 .. HashBits /\ HashBits \in Nat
  BY CacheAssumption
<1>2. PICK p \in Nat \ {0} : p = 2^b
  BY <1>1, PowerAssumption
<1>3. PICK q \in Nat \ {0} : q = 2^(HashBits - b)
  BY <1>1, PowerAssumption
<1>4. 2^HashBits = p * q
  BY <1>1, <1>2, <1>3, PowerAssumption
<1>5. ASSUME NEW a \in Adr PROVE AdrHash[b][a] \div q \in 0 .. p - 1
  <2>1. PICK h \in Nat : h = AdrHash[b][a] /\ h < p * q
    <3>1. AdrHash[b][a] \in 0 .. 2^HashBits - 1 /\ p * q \in Nat
      BY CacheAssumption
    <3>2. QED
      BY <1>4, <3>1
  <2>2. PICK d \in Nat : d = h \div q /\ q * d <= h
    <3>1. h \div q \in Nat /\ q * (h \div q) <= h
      OBVIOUS
    <3>2. QED
      BY <3>1
  <2>3. ~(p <= d)
    <3>1. p <= d => q * p <= q * d
      BY MulOrder
    <3>2. q * p = p * q /\ q * p \in Nat /\ q * d \in Nat
      OBVIOUS
    <3>3. QED
      BY <2>1, <2>2, <3>1, <3>2
  <2>4. QED
    BY <2>1, <2>2, <2>3
<1>6. b + 1 \in CacheBits => 2^(b + 1) = 2 * 2^b
  BY <1>1, PowerAssumption, CacheAssumption
<1>7. 2^b \in Nat /\ 2^b >= 4
  BY <1>1, PowerAssumption
<1>8. QED
  BY <1>1, <1>2, <1>3, <1>5, <1>6, <1>7 DEF Index

-----------------------------------------------------------------------------
(* Sequences. *)

LEMMA RemoveAtIs ==
    ASSUME NEW S, NEW s \in Seq(S), NEW i \in 1 .. Len(s), NEW t, t = RemoveAt(s, i)
    PROVE  /\ t \in Seq(S) /\ Len(t) = Len(s) - 1 /\ Len(s) \in Nat
           /\ \A k \in 1 .. Len(t) : t[k] = s[IF k < i THEN k ELSE k + 1]
<1>0. Len(s) \in Nat /\ \A k \in 1 .. Len(s) : s[k] \in S
  BY LenProperties, ElementOfSeq
<1>1. PICK u : u = SubSeq(s, 1, i - 1)
  OBVIOUS
<1>2. PICK v : v = SubSeq(s, i + 1, Len(s))
  OBVIOUS
<1>3. /\ u \in Seq(S) /\ Len(u) = i - 1 /\ \A k \in 1 .. i - 1 : u[k] = s[k]
  <2>1. PICK m \in Int, n \in Int : m = 1 /\ n = i - 1
    BY <1>0
  <2>2. \A k \in m .. n : s[k] \in S
    BY <1>0, <2>1
  <2>3. /\ SubSeq(s, m, n) \in Seq(S) /\ Len(SubSeq(s, m, n)) = IF m <= n THEN n - m + 1 ELSE 0
        /\ \A k \in 1 .. n - m + 1 : SubSeq(s, m, n)[k] = s[m + k - 1]
    BY <2>2, SubSeqProperties
  <2>4. QED
    BY <1>0, <1>1, <2>1, <2>3
<1>4. /\ v \in Seq(S) /\ Len(v) = Len(s) - i /\ \A k \in 1 .. Len(s) - i : v[k] = s[i + k]
  <2>1. PICK m \in Int, n \in Int : m = i + 1 /\ n = Len(s)
    BY <1>0
  <2>2. \A k \in m .. n : s[k] \in S
    BY <1>0, <2>1
  <2>3. /\ SubSeq(s, m, n) \in Seq(S) /\ Len(SubSeq(s, m, n)) = IF m <= n THEN n - m + 1 ELSE 0
        /\ \A k \in 1 .. n - m + 1 : SubSeq(s, m, n)[k] = s[m + k - 1]
    BY <2>2, SubSeqProperties
  <2>4. QED
    BY <1>0, <1>2, <2>1, <2>3
<1>5. t = u \o v
  BY <1>1, <1>2 DEF RemoveAt
<1>6. /\ t \in Seq(S) /\ Len(t) = Len(u) + Len(v)
      /\ \A k \in 1 .. Len(u) + Len(v) : t[k] = IF k <= Len(u) THEN u[k] ELSE v[k - Len(u)]
  <2>1. u \in Seq(S) /\ v \in Seq(S)
    BY <1>3, <1>4
  <2>2. /\ u \o v \in Seq(S) /\ Len(u \o v) = Len(u) + Len(v)
        /\ \A k \in 1 .. Len(u) + Len(v) : (u \o v)[k] = IF k <= Len(u) THEN u[k] ELSE v[k - Len(u)]
    BY <2>1, ConcatProperties
  <2>3. QED
    BY <1>5, <2>2
<1>7. Len(t) = Len(s) - 1
  BY <1>0, <1>3, <1>4, <1>6
<1>8. ASSUME NEW k \in 1 .. Len(t) PROVE t[k] = s[IF k < i THEN k ELSE k + 1]
  <2>1. CASE k < i
    BY <1>0, <1>3, <1>4, <1>6, <2>1
  <2>2. CASE ~(k < i)
    <3>1. t[k] = v[k - (i - 1)] /\ k - (i - 1) \in 1 .. Len(s) - i
      BY <1>0, <1>3, <1>4, <1>6, <1>7, <2>2
    <3>2. v[k - (i - 1)] = s[i + (k - (i - 1))] /\ i + (k - (i - 1)) = k + 1
      BY <1>0, <1>4, <1>7, <3>1
    <3>3. QED
      BY <2>2, <3>1, <3>2
  <2>3. QED
    BY <2>1, <2>2
<1>9. QED
  BY <1>0, <1>6, <1>7, <1>8

LEMMA PrependIs ==
    ASSUME NEW S, NEW s \in Seq(S), NEW e \in S, NEW t, t = <<e>> \o s
    PROVE  /\ t \in Seq(S) /\ Len(t) = Len(s) + 1 /\ t[1] = e /\ Len(s) \in Nat
           /\ \A k \in 2 .. Len(t) : t[k] = s[k - 1]
<1>0. PICK u : u = <<e>>
  OBVIOUS
<1>1. u \in Seq(S) /\ Len(u) = 1 /\ u[1] = e /\ Len(s) \in Nat
  BY <1>0, LenProperties
<1>2. /\ t \in Seq(S) /\ Len(t) = Len(u) + Len(s)
      /\ \A k \in 1 .. Len(u) + Len(s) : t[k] = IF k <= Len(u) THEN u[k] ELSE s[k - Len(u)]
  BY <1>0, <1>1, ConcatProperties
<1>3. QED
  BY <1>1, <1>2

LEMMA PrefixIs ==
    ASSUME NEW S, NEW s \in Seq(S), NEW n \in 0 .. Len(s), NEW t, t = SubSeq(s, 1, n)
    PROVE  t \in Seq(S) /\ Len(t) = n /\ \A k \in 1 .. n : t[k] = s[k]
<1>0. Len(s) \in Nat /\ \A k \in 1 .. Len(s) : s[k] \in S
  BY LenProperties, ElementOfSeq
<1>1. PICK m \in Int : m = 1
  OBVIOUS
<1>2. \A k \in m .. n : s[k] \in S
  BY <1>0, <1>1
<1>3. /\ SubSeq(s, m, n) \in Seq(S) /\ Len(SubSeq(s, m, n)) = IF m <= n THEN n - m + 1 ELSE 0
      /\ \A k \in 1 .. n - m + 1 : SubSeq(s, m, n)[k] = s[m + k - 1]
  BY <1>0, <1>2, SubSeqProperties
<1>4. QED
  BY <1>0, <1>1, <1>3

\* List t is s with e at position i.
Inserted(t, s, i, e) ==
    /\ Len(t) = Len(s) + 1 /\ t[i] = e
    /\ \A k \in 1 .. i - 1 : t[k] = s[k]
    /\ \A k \in i + 1 .. Len(t) : t[k] = s[k - 1]

LEMMA InsertAtIs ==
    ASSUME NEW S, NEW s \in Seq(S), NEW i \in Nat, 1 <= i, i <= Len(s) + 1, NEW e \in S,
           NEW t, t = InsertAt(s, i, e)
    PROVE  t \in Seq(S) /\ Inserted(t, s, i, e)
<1>0. Len(s) \in Nat /\ \A k \in 1 .. Len(s) : s[k] \in S
  BY LenProperties, ElementOfSeq
<1>1. PICK u : u = SubSeq(s, 1, i - 1)
  OBVIOUS
<1>2. PICK v : v = SubSeq(s, i, Len(s))
  OBVIOUS
<1>3. /\ u \in Seq(S) /\ Len(u) = i - 1 /\ \A k \in 1 .. i - 1 : u[k] = s[k]
  <2>1. i - 1 \in 0 .. Len(s)
    BY <1>0
  <2>2. QED
    BY <1>1, <2>1, PrefixIs
<1>4. /\ v \in Seq(S) /\ Len(v) = Len(s) - i + 1 /\ \A k \in 1 .. Len(s) - i + 1 : v[k] = s[i + k - 1]
  <2>1. PICK n \in Int : n = Len(s)
    BY <1>0
  <2>2. \A k \in i .. n : s[k] \in S
    BY <1>0, <2>1
  <2>3. /\ SubSeq(s, i, n) \in Seq(S) /\ Len(SubSeq(s, i, n)) = IF i <= n THEN n - i + 1 ELSE 0
        /\ \A k \in 1 .. n - i + 1 : SubSeq(s, i, n)[k] = s[i + k - 1]
    BY <2>2, SubSeqProperties
  <2>4. QED
    BY <1>0, <1>2, <2>1, <2>3
<1>5. PICK w : w = u \o <<e>>
  OBVIOUS
<1>6. w \in Seq(S) /\ Len(w) = i /\ w[i] = e /\ \A k \in 1 .. i - 1 : w[k] = s[k]
  <2>0. PICK x : x = <<e>>
    OBVIOUS
  <2>1. x \in Seq(S) /\ Len(x) = 1 /\ x[1] = e
    BY <2>0
  <2>2. /\ w \in Seq(S) /\ Len(w) = Len(u) + Len(x)
        /\ \A k \in 1 .. Len(u) + Len(x) : w[k] = IF k <= Len(u) THEN u[k] ELSE x[k - Len(u)]
    BY <1>3, <1>5, <2>0, <2>1, ConcatProperties
  <2>3. QED
    BY <1>0, <1>3, <2>1, <2>2
<1>7. t = w \o v
  BY <1>1, <1>2, <1>5 DEF InsertAt
<1>8. /\ t \in Seq(S) /\ Len(t) = Len(w) + Len(v)
      /\ \A k \in 1 .. Len(w) + Len(v) : t[k] = IF k <= Len(w) THEN w[k] ELSE v[k - Len(w)]
  BY <1>4, <1>6, <1>7, ConcatProperties
<1>9. Len(t) = Len(s) + 1
  BY <1>0, <1>4, <1>6, <1>8
<1>10. t[i] = e /\ \A k \in 1 .. i - 1 : t[k] = s[k]
  BY <1>0, <1>4, <1>6, <1>8
<1>11. ASSUME NEW k \in i + 1 .. Len(t) PROVE t[k] = s[k - 1]
  <2>1. t[k] = v[k - i] /\ k - i \in 1 .. Len(s) - i + 1
    BY <1>0, <1>4, <1>6, <1>8, <1>9
  <2>2. v[k - i] = s[i + (k - i) - 1] /\ i + (k - i) - 1 = k - 1
    BY <1>0, <1>4, <1>9, <2>1
  <2>3. QED
    BY <2>1, <2>2
<1>12. QED
  BY <1>0, <1>8, <1>9, <1>10, <1>11 DEF Inserted

-----------------------------------------------------------------------------
(* The table. *)

\* The table of 2^b chains holds the addresses S, each once, in the chain of its index.
Holds(t, b, S) ==
    /\ t \in [0 .. 2^b - 1 -> Seq(Adr)]
    /\ \A h \in 0 .. 2^b - 1 :
         /\ \A i \in 1 .. Len(t[h]) : t[h][i] \in S /\ Index(t[h][i], b) = h
         /\ \A i, j \in 1 .. Len(t[h]) : t[h][i] = t[h][j] => i = j
    /\ \A a \in S : \E i \in 1 .. Len(t[Index(a, b)]) : t[Index(a, b)][i] = a

LEMMA HoldsEmpty ==
    ASSUME NEW b \in CacheBits, NEW t, t = [h \in 0 .. 2^b - 1 |-> <<>>]
    PROVE  Holds(t, b, {})
<1>1. \A h \in 0 .. 2^b - 1 : t[h] = <<>> /\ Len(t[h]) = 0 /\ t[h] \in Seq(Adr)
  OBVIOUS
<1>2. t \in [0 .. 2^b - 1 -> Seq(Adr)]
  BY <1>1
<1>3. QED
  BY <1>1, <1>2 DEF Holds

\* A lookup finds exactly what the table holds.
LEMMA HoldsHas ==
    ASSUME NEW b \in CacheBits, NEW S \in SUBSET Adr, NEW t, Holds(t, b, S), NEW a \in Adr
    PROVE  Contains(t[Index(a, b)], a) <=> a \in S
<1>1. Index(a, b) \in 0 .. 2^b - 1
  BY IndexFacts
<1>2. PICK h \in 0 .. 2^b - 1 : h = Index(a, b)
  BY <1>1
<1>3. PICK s \in Seq(Adr) : s = t[h]
  BY DEF Holds
<1>4. \A i \in 1 .. Len(s) : s[i] \in S
  BY <1>3 DEF Holds
<1>5. a \in S => \E i \in 1 .. Len(s) : s[i] = a
  BY <1>2, <1>3 DEF Holds
<1>6. Contains(s, a) <=> \E i \in 1 .. Len(s) : s[i] = a
  BY DEF Contains
<1>7. QED
  BY <1>2, <1>3, <1>4, <1>5, <1>6

\* A chain that is extended at its end.
LEMMA HoldsAdd ==
    ASSUME NEW b \in CacheBits, NEW S \in SUBSET Adr, NEW t, Holds(t, b, S), NEW a \in Adr \ S,
           NEW u, u = [t EXCEPT ![Index(a, b)] = Append(@, a)]
    PROVE  Holds(u, b, S \cup {a})
<1>1. PICK h \in 0 .. 2^b - 1 : h = Index(a, b)
  BY IndexFacts
<1>2. t \in [0 .. 2^b - 1 -> Seq(Adr)]
  BY DEF Holds
<1>3. PICK s \in Seq(Adr) : s = t[h]
  BY <1>2
<1>4. PICK v : v = Append(s, a)
  OBVIOUS
<1>5. v \in Seq(Adr) /\ Len(v) = Len(s) + 1 /\ Len(s) \in Nat
      /\ v[Len(s) + 1] = a /\ \A i \in 1 .. Len(s) : v[i] = s[i]
  BY <1>4, AppendProperties, LenProperties
<1>6. u \in [0 .. 2^b - 1 -> Seq(Adr)] /\ u[h] = v /\ \A k \in 0 .. 2^b - 1 : k # h => u[k] = t[k]
  BY <1>1, <1>2, <1>3, <1>4, <1>5
<1>7. /\ \A i \in 1 .. Len(s) : s[i] \in S /\ Index(s[i], b) = h
      /\ \A i, j \in 1 .. Len(s) : s[i] = s[j] => i = j
  BY <1>3 DEF Holds
<1>8. \A i \in 1 .. Len(v) : v[i] \in S \cup {a} /\ Index(v[i], b) = h
  <2>1. SUFFICES ASSUME NEW i \in 1 .. Len(v) PROVE v[i] \in S \cup {a} /\ Index(v[i], b) = h
    OBVIOUS
  <2>2. i \in 1 .. Len(s) \/ i = Len(s) + 1
    BY <1>5
  <2>3. QED
    BY <1>1, <1>5, <1>7, <2>2
<1>9. \A i, j \in 1 .. Len(v) : v[i] = v[j] => i = j
  <2>1. SUFFICES ASSUME NEW i \in 1 .. Len(v), NEW j \in 1 .. Len(v), v[i] = v[j] PROVE i = j
    OBVIOUS
  <2>2. (i \in 1 .. Len(s) \/ i = Len(s) + 1) /\ (j \in 1 .. Len(s) \/ j = Len(s) + 1)
    BY <1>5
  <2>3. QED
    BY <1>5, <1>7, <2>1, <2>2
<1>10. ASSUME NEW k \in 0 .. 2^b - 1
       PROVE  /\ \A i \in 1 .. Len(u[k]) : u[k][i] \in S \cup {a} /\ Index(u[k][i], b) = k
              /\ \A i, j \in 1 .. Len(u[k]) : u[k][i] = u[k][j] => i = j
  <2>1. CASE k = h
    <3>1. u[k] = v
      BY <1>6, <2>1
    <3>2. \A i \in 1 .. Len(u[k]) : u[k][i] \in S \cup {a} /\ Index(u[k][i], b) = k
      BY <1>8, <2>1, <3>1, Zenon
    <3>3. \A i, j \in 1 .. Len(u[k]) : u[k][i] = u[k][j] => i = j
      <4>1. SUFFICES ASSUME NEW i \in 1 .. Len(u[k]), NEW j \in 1 .. Len(u[k]), u[k][i] = u[k][j]
                     PROVE  i = j
        OBVIOUS
      <4>2. i \in 1 .. Len(v) /\ j \in 1 .. Len(v) /\ v[i] = v[j]
        BY <3>1, <4>1, Zenon
      <4>3. QED
        BY <1>9, <4>2
    <3>4. QED
      BY <3>2, <3>3
  <2>2. CASE k # h
    <3>1. u[k] = t[k]
      BY <1>6, <2>2
    <3>2. /\ \A i \in 1 .. Len(t[k]) : t[k][i] \in S /\ Index(t[k][i], b) = k
          /\ \A i, j \in 1 .. Len(t[k]) : t[k][i] = t[k][j] => i = j
      BY DEF Holds
    <3>3. QED
      BY <3>1, <3>2
  <2>3. QED
    BY <2>1, <2>2
<1>11. ASSUME NEW x \in S \cup {a}
       PROVE  \E i \in 1 .. Len(u[Index(x, b)]) : u[Index(x, b)][i] = x
  <2>1. CASE x = a
    <3>1. Len(s) + 1 \in 1 .. Len(v) /\ v[Len(s) + 1] = x
      BY <1>5, <2>1
    <3>2. QED
      BY <1>1, <1>6, <2>1, <3>1
  <2>2. CASE x # a
    <3>1. PICK k \in 0 .. 2^b - 1 : k = Index(x, b)
      BY IndexFacts
    <3>2. PICK i \in 1 .. Len(t[k]) : t[k][i] = x
      BY <2>2, <3>1 DEF Holds
    <3>3. CASE k = h
      <4>1. i \in 1 .. Len(s) /\ s[i] = x
        BY <1>3, <3>2, <3>3
      <4>2. i \in 1 .. Len(v) /\ v[i] = x
        BY <1>5, <4>1
      <4>3. QED
        BY <1>6, <3>1, <3>3, <4>2
    <3>4. CASE k # h
      BY <1>6, <3>1, <3>2, <3>4
    <3>5. QED
      BY <3>3, <3>4
  <2>3. QED
    BY <2>1, <2>2
<1>12. QED
  BY <1>6, <1>10, <1>11 DEF Holds

\* A chain without one of its elements.
LEMMA HoldsRemove ==
    ASSUME NEW b \in CacheBits, NEW S \in SUBSET Adr, NEW t, Holds(t, b, S), NEW a \in S,
           NEW u, u = [t EXCEPT ![Index(a, b)] = Unlink(@, a)]
    PROVE  Holds(u, b, S \ {a})
<1>1. PICK h \in 0 .. 2^b - 1 : h = Index(a, b)
  BY IndexFacts
<1>2. t \in [0 .. 2^b - 1 -> Seq(Adr)]
  BY DEF Holds
<1>3. PICK s \in Seq(Adr) : s = t[h]
  BY <1>2
<1>4. PICK n \in 1 .. Len(s) : n = CHOOSE i \in DOMAIN s : s[i] = a
  <2>1. \E i \in 1 .. Len(s) : s[i] = a
    BY <1>1, <1>3 DEF Holds
  <2>2. DOMAIN s = 1 .. Len(s)
    BY LenProperties
  <2>3. QED
    BY <2>1, <2>2
<1>5. s[n] = a
  <2>1. \E i \in 1 .. Len(s) : s[i] = a
    BY <1>1, <1>3 DEF Holds
  <2>2. DOMAIN s = 1 .. Len(s)
    BY LenProperties
  <2>3. QED
    BY <1>4, <2>1, <2>2
<1>6. PICK v : v = RemoveAt(s, n)
  OBVIOUS
<1>7. /\ v \in Seq(Adr) /\ Len(v) = Len(s) - 1 /\ Len(s) \in Nat
      /\ \A k \in 1 .. Len(v) : v[k] = s[IF k < n THEN k ELSE k + 1]
  BY <1>6, RemoveAtIs
<1>8. Unlink(s, a) = v
  BY <1>4, <1>6 DEF Unlink
<1>9. u \in [0 .. 2^b - 1 -> Seq(Adr)] /\ u[h] = v /\ \A k \in 0 .. 2^b - 1 : k # h => u[k] = t[k]
  BY <1>1, <1>2, <1>3, <1>7, <1>8
<1>10. /\ \A i \in 1 .. Len(s) : s[i] \in S /\ Index(s[i], b) = h
       /\ \A i, j \in 1 .. Len(s) : s[i] = s[j] => i = j
  BY <1>3 DEF Holds
<1>11. ASSUME NEW i \in 1 .. Len(v)
       PROVE  \E m \in 1 .. Len(s) : v[i] = s[m] /\ m # n /\ m = IF i < n THEN i ELSE i + 1
  <2>1. (IF i < n THEN i ELSE i + 1) \in 1 .. Len(s) /\ (IF i < n THEN i ELSE i + 1) # n
    BY <1>7
  <2>2. QED
    BY <1>7, <2>1
<1>12. \A i \in 1 .. Len(v) : v[i] \in S \ {a} /\ Index(v[i], b) = h
  BY <1>5, <1>10, <1>11
<1>13. \A i, j \in 1 .. Len(v) : v[i] = v[j] => i = j
  <2>1. SUFFICES ASSUME NEW i \in 1 .. Len(v), NEW j \in 1 .. Len(v), v[i] = v[j] PROVE i = j
    OBVIOUS
  <2>2. PICK k \in 1 .. Len(s) : v[i] = s[k] /\ k = IF i < n THEN i ELSE i + 1
    BY <1>11
  <2>3. PICK m \in 1 .. Len(s) : v[j] = s[m] /\ m = IF j < n THEN j ELSE j + 1
    BY <1>11
  <2>4. k = m
    BY <1>10, <2>1, <2>2, <2>3
  <2>5. i \in Int /\ j \in Int /\ n \in Int
    BY <1>7
  <2>6. QED
    BY <2>2, <2>3, <2>4, <2>5
<1>14. ASSUME NEW k \in 0 .. 2^b - 1
       PROVE  /\ \A i \in 1 .. Len(u[k]) : u[k][i] \in S \ {a} /\ Index(u[k][i], b) = k
              /\ \A i, j \in 1 .. Len(u[k]) : u[k][i] = u[k][j] => i = j
  <2>1. CASE k = h
    BY <1>9, <1>12, <1>13, <2>1
  <2>2. CASE k # h
    <3>1. u[k] = t[k]
      BY <1>9, <2>2
    <3>2. \A i \in 1 .. Len(t[k]) : t[k][i] # a
      BY <1>1, <2>2 DEF Holds
    <3>3. QED
      BY <3>1, <3>2 DEF Holds
  <2>3. QED
    BY <2>1, <2>2
<1>15. ASSUME NEW x \in S \ {a}
       PROVE  \E i \in 1 .. Len(u[Index(x, b)]) : u[Index(x, b)][i] = x
  <2>1. PICK k \in 0 .. 2^b - 1 : k = Index(x, b)
    BY IndexFacts
  <2>2. PICK i \in 1 .. Len(t[k]) : t[k][i] = x
    BY <2>1 DEF Holds
  <2>3. CASE k = h
    <3>1. i \in 1 .. Len(s) /\ s[i] = x /\ i # n
      BY <1>3, <1>5, <2>2, <2>3
    <3>2. PICK m \in 1 .. Len(v) : m = IF i < n THEN i ELSE i - 1
      BY <1>7, <3>1
    <3>3. (IF m < n THEN m ELSE m + 1) = i
      BY <1>7, <3>1, <3>2
    <3>4. v[m] = x
      BY <1>7, <3>1, <3>3
    <3>5. QED
      BY <1>9, <2>1, <2>3, <3>4
  <2>4. CASE k # h
    BY <1>9, <2>1, <2>2, <2>4
  <2>5. QED
    BY <2>3, <2>4
<1>16. QED
  BY <1>9, <1>14, <1>15 DEF Holds


\* Recursion up to a bound: F[n][x] is the value at n when x is the one at n - 1.
Unfolds(g, N, S, z, F) ==
    g \in [0 .. N -> S] /\ g[0] = z /\ \A n \in 1 .. N : g[n] = F[n][g[n - 1]]

LEMMA Unfolding ==
    ASSUME NEW N \in Nat, NEW S, NEW z \in S, NEW F \in [1 .. N -> [S -> S]]
    PROVE  \E g : Unfolds(g, N, S, z, F)
<1> DEFINE T == {n \in 0 .. N : \E g : Unfolds(g, n, S, z, F)}
<1>1. 0 \in T
  <2> DEFINE g0 == [i \in 0 .. 0 |-> z]
  <2>1. g0 \in [0 .. 0 -> S] /\ g0[0] = z /\ \A i \in 1 .. 0 : FALSE
    OBVIOUS
  <2> HIDE DEF g0
  <2>2. Unfolds(g0, 0, S, z, F)
    BY <2>1 DEF Unfolds
  <2>3. QED
    BY <2>2
<1>2. ASSUME NEW n \in 0 .. N - 1, n \in T PROVE n + 1 \in T
  <2>1. PICK g : Unfolds(g, n, S, z, F)
    BY <1>2
  <2> DEFINE h == [i \in 0 .. n + 1 |-> IF i <= n THEN g[i] ELSE F[n + 1][g[n]]]
  <2>2. F[n + 1][g[n]] \in S
    <3>1. g[n] \in S /\ n + 1 \in 1 .. N
      BY <2>1 DEF Unfolds
    <3>2. QED
      BY <3>1
  <2>3. h \in [0 .. n + 1 -> S] /\ h[0] = z
    BY <2>1, <2>2 DEF Unfolds
  <2>4. ASSUME NEW i \in 1 .. n + 1 PROVE h[i] = F[i][h[i - 1]]
    <3>1. CASE i <= n
      BY <2>1, <3>1 DEF Unfolds
    <3>2. CASE i = n + 1
      BY <3>2
    <3>3. QED
      BY <3>1, <3>2
  <2> HIDE DEF h
  <2>5. Unfolds(h, n + 1, S, z, F)
    BY <2>3, <2>4 DEF Unfolds
  <2>6. n + 1 \in 0 .. N
    OBVIOUS
  <2>7. QED
    BY <2>5, <2>6
<1>3. N \in T
  <2> HIDE DEF T
  <2>1. N \in 0 .. N
    OBVIOUS
  <2>2. QED
    BY <1>1, <1>2, <2>1, CountUp
<1>4. QED
  BY <1>3

\* The table that is entered one address after the other.
LEMMA RehashUnfolds ==
    ASSUME NEW b \in CacheBits, NEW q \in Seq(Adr)
    PROVE  \E G : /\ G[0] = [h \in 0 .. 2^b - 1 |-> <<>>]
                  /\ \A m \in 1 .. Len(q) :
                       G[m] = [G[m - 1] EXCEPT ![Index(q[m], b)] = Append(@, q[m])]
                  /\ Rehash(q, b) = G[Len(q)]
<1> DEFINE Tab == [0 .. 2^b - 1 -> Seq(Adr)]
           z == [h \in 0 .. 2^b - 1 |-> <<>>]
           Enter(m, t) == [t EXCEPT ![Index(q[m], b)] = Append(@, q[m])]
           F == [m \in 1 .. Len(q) |-> [t \in Tab |-> Enter(m, t)]]
           Rec(g) == [i \in 0 .. Len(q) |->
                        IF i = 0 THEN [h \in 0 .. 2^b - 1 |-> <<>>]
                        ELSE [g[i - 1] EXCEPT ![Index(q[i], b)] = Append(@, q[i])]]
<1>0. Len(q) \in Nat
  BY LenProperties
<1>1. z \in Tab
  OBVIOUS
<1>2. F \in [1 .. Len(q) -> [Tab -> Tab]]
  <2>1. ASSUME NEW m \in 1 .. Len(q), NEW t \in Tab PROVE Enter(m, t) \in Tab
    <3>1. q[m] \in Adr
      BY ElementOfSeq
    <3>2. PICK h \in 0 .. 2^b - 1 : h = Index(q[m], b)
      BY <3>1, IndexFacts
    <3>3. t[h] \in Seq(Adr)
      OBVIOUS
    <3>4. Append(t[h], q[m]) \in Seq(Adr)
      BY <3>1, <3>3, AppendProperties
    <3>5. QED
      BY <3>2, <3>4
  <2> HIDE DEF Tab, Enter
  <2>2. QED
    BY <2>1
<1>r. PICK g : Unfolds(g, Len(q), Tab, z, F)
  <2> HIDE DEF F, z, Tab
  <2>1. QED
    BY <1>0, <1>1, <1>2, Unfolding
<1>3. g \in [0 .. Len(q) -> Tab] /\ g[0] = z /\ \A m \in 1 .. Len(q) : g[m] = F[m][g[m - 1]]
  <2> HIDE DEF F, z, Tab
  <2>1. QED
    BY <1>r DEF Unfolds
<1>4. ASSUME NEW m \in 1 .. Len(q) PROVE g[m] = Enter(m, g[m - 1])
  <2>1. g[m - 1] \in Tab
    <3> HIDE DEF F, z, Tab
    <3>1. m - 1 \in 0 .. Len(q)
      BY <1>0
    <3>2. QED
      BY <1>3, <3>1
  <2> HIDE DEF Tab, Enter
  <2>2. QED
    BY <1>3, <2>1
<1>5. g = Rec(g)
  <2> DEFINE R2(x) == [i \in 0 .. Len(q) |-> IF i = 0 THEN z ELSE Enter(i, x[i - 1])]
  <2>1. g = R2(g)
    <3> HIDE DEF z, Enter, Tab
    <3>1. \A m \in 0 .. Len(q) : g[m] = R2(g)[m]
      <4> HIDE DEF F
      <4>1. QED
        BY <1>0, <1>3, <1>4
    <3> HIDE DEF F
    <3>2. QED
      BY <1>3, <3>1
  <2>2. QED
    BY <2>1, Zenon
<1> DEFINE G == CHOOSE f : f = Rec(f)
<1>6. G = Rec(G)
  <2> HIDE DEF Rec
  <2>1. QED
    BY <1>5
<1>7. Rehash(q, b) = G[Len(q)]
  BY Zenon DEF Rehash, Link
<1> HIDE DEF G
<1>8. G[0] = z
  <2>1. 0 \in 0 .. Len(q)
    BY <1>0
  <2>2. QED
    BY <1>6, <2>1
<1>9. ASSUME NEW m \in 1 .. Len(q)
      PROVE  G[m] = [G[m - 1] EXCEPT ![Index(q[m], b)] = Append(@, q[m])]
  <2>1. m \in 0 .. Len(q) /\ m # 0
    BY <1>0
  <2>2. QED
    BY <1>6, <2>1
<1>10. QED
  BY <1>7, <1>8, <1>9

\* The new table holds the addresses, when they are distinct.
LEMMA HoldsRehash ==
    ASSUME NEW b \in CacheBits, NEW q \in Seq(Adr),
           \A i, j \in 1 .. Len(q) : q[i] = q[j] => i = j,
           NEW S, S = {q[i] : i \in 1 .. Len(q)}
    PROVE  Holds(Rehash(q, b), b, S)
<1>0. Len(q) \in Nat /\ \A i \in 1 .. Len(q) : q[i] \in Adr
  BY LenProperties, ElementOfSeq
<1>1. PICK G : /\ G[0] = [h \in 0 .. 2^b - 1 |-> <<>>]
               /\ \A m \in 1 .. Len(q) :
                    G[m] = [G[m - 1] EXCEPT ![Index(q[m], b)] = Append(@, q[m])]
               /\ Rehash(q, b) = G[Len(q)]
  BY RehashUnfolds
<1> DEFINE First(m) == {q[i] : i \in 1 .. m}
           T == {m \in 0 .. Len(q) : Holds(G[m], b, First(m))}
<1>2. 0 \in T
  <2>1. First(0) = {}
    OBVIOUS
  <2>2. Holds(G[0], b, {})
    BY <1>1, HoldsEmpty
  <2>3. Holds(G[0], b, First(0))
    BY <2>1, <2>2, Zenon
  <2>4. 0 \in 0 .. Len(q)
    BY <1>0
  <2> HIDE DEF First
  <2>5. QED
    BY <2>3, <2>4
<1>3. ASSUME NEW m \in 0 .. Len(q) - 1, m \in T PROVE m + 1 \in T
  <2>1. PICK n \in 1 .. Len(q) : n = m + 1 /\ n - 1 = m
    BY <1>0
  <2>2. PICK a \in Adr : a = q[n]
    BY <1>0
  <2>3. PICK P \in SUBSET Adr : P = First(m)
    <3>1. \A i \in 1 .. m : i \in 1 .. Len(q)
      BY <1>0
    <3>2. First(m) \subseteq Adr
      BY <1>0, <3>1
    <3>3. QED
      BY <3>2
  <2>4. a \notin P
    <3>1. \A i \in 1 .. m : i \in 1 .. Len(q) /\ i # n
      BY <1>0, <2>1
    <3>2. QED
      BY <2>2, <2>3, <3>1
  <2>5. First(m + 1) = P \cup {a}
    <3>1. \A i : i \in 1 .. m + 1 <=> i \in 1 .. m \/ i = n
      BY <1>0, <2>1
    <3>2. QED
      BY <2>2, <2>3, <3>1
  <2>6. Holds(G[m], b, P)
    BY <1>3, <2>3
  <2>7. PICK t : t = G[m]
    OBVIOUS
  <2>8. G[n] = [t EXCEPT ![Index(a, b)] = Append(@, a)]
    <3>1. G[n] = [G[n - 1] EXCEPT ![Index(q[n], b)] = Append(@, q[n])]
      BY <1>1
    <3>2. QED
      BY <2>1, <2>2, <2>7, <3>1
  <2>9. Holds(G[n], b, P \cup {a})
    <3> HIDE DEF First, T
    <3>1. Holds(t, b, P) /\ a \in Adr \ P
      BY <2>4, <2>6, <2>7
    <3>2. QED
      BY <2>8, <3>1, HoldsAdd
  <2>10. m + 1 \in 0 .. Len(q)
    BY <1>0
  <2>11. QED
    BY <2>1, <2>5, <2>9, <2>10
<1>4. Len(q) \in T
  <2> HIDE DEF T
  <2>1. Len(q) \in 0 .. Len(q)
    BY <1>0
  <2>2. QED
    BY <1>0, <1>2, <1>3, <2>1, CountUp
<1>5. QED
  BY <1>1, <1>4


-----------------------------------------------------------------------------
(* The list. *)

E == [adr : Adr, changed : BOOLEAN, fresh : BOOLEAN, intab : BOOLEAN]

\* The addresses of the elements that are in a chain.
InTab(l) == {l[i].adr : i \in {k \in 1 .. Len(l) : l[k].intab}}

\* No two elements of a chain have the same address.
Unique(l) ==
    \A i, j \in 1 .. Len(l) : l[i].intab /\ l[j].intab /\ l[i].adr = l[j].adr => i = j

\* From position p on, the changed elements come first.
Ordered(l, p) ==
    \A i, j \in 1 .. Len(l) : p <= i /\ i < j /\ l[j].changed => l[i].changed

\* A changed element is the newest content of a bucket, and the only one.
ChangedAre(l, lv) ==
    /\ \A i \in 1 .. Len(l) : l[i].changed => l[i].adr \in lv /\ l[i].fresh
    /\ \A i, j \in 1 .. Len(l) : l[i].changed /\ l[j].changed /\ l[i].adr = l[j].adr => i = j

\* What a lookup finds is the newest content of a bucket, addresses lk apart.
Current(l, lv, lk) ==
    \A i \in 1 .. Len(l) : l[i].intab /\ l[i].adr \notin lk => l[i].fresh /\ l[i].adr \in lv

\* Only where st admits it is an element in no chain.
AllChained(l) == \A i \in 1 .. Len(l) : l[i].intab

Chained(l, st) == st = TRUE \/ AllChained(l)

\* The list of a cache over buckets lv.
GoodList(l, lv, lk, st, p) ==
    /\ l \in Seq(E)
    /\ Unique(l)
    /\ Ordered(l, p)
    /\ ChangedAre(l, lv)
    /\ Current(l, lv, lk)
    /\ Chained(l, st)

\* The file or a changed element has the newest content of every bucket.
Written(l, d, lv) ==
    \A a \in lv : d[a] \/ \E i \in 1 .. Len(l) : l[i].changed /\ l[i].adr = a

\* Nothing is changed, and the file has the newest content of every bucket.
Clean(l, d, lv) == (\A i \in 1 .. Len(l) : ~l[i].changed) /\ (\A a \in lv : d[a])

\* The same element, unless it has been written.
Same(x, y) ==
    x.adr = y.adr /\ x.fresh = y.fresh /\ x.intab = y.intab /\ (x.changed => y.changed)

\* List n has some of the elements of m, in their order.
Sublist(n, m, g) ==
    /\ n \in Seq(E)
    /\ g \in [1 .. Len(n) -> 1 .. Len(m)]
    /\ \A i, j \in 1 .. Len(n) : i < j => g[i] < g[j]
    /\ \A i \in 1 .. Len(n) : Same(n[i], m[g[i]])

LEMMA SublistInjective ==
    ASSUME NEW n, NEW m \in Seq(E), NEW g, Sublist(n, m, g)
    PROVE  \A i, j \in 1 .. Len(n) : g[i] = g[j] => i = j
<1>1. Len(n) \in Nat /\ Len(m) \in Nat
  BY LenProperties DEF Sublist
<1>2. SUFFICES ASSUME NEW i \in 1 .. Len(n), NEW j \in 1 .. Len(n), g[i] = g[j], i # j PROVE FALSE
  OBVIOUS
<1>3. g[i] \in Int /\ g[j] \in Int
  BY <1>1 DEF Sublist
<1>4. i < j \/ j < i
  BY <1>1, <1>2
<1>5. g[i] < g[j] \/ g[j] < g[i]
  BY <1>4 DEF Sublist
<1>6. QED
  BY <1>2, <1>3, <1>5

\* Such a list is good when its changed elements are in order.
LEMMA SublistGood ==
    ASSUME NEW n, NEW m, NEW g, NEW lv, NEW lk, NEW st, NEW p, NEW q,
           GoodList(m, lv, lk, st, p), Sublist(n, m, g), Ordered(n, q)
    PROVE  GoodList(n, lv, lk, st, q) /\ InTab(n) \subseteq InTab(m)
<1>1. m \in Seq(E) /\ n \in Seq(E) /\ Len(n) \in Nat /\ Len(m) \in Nat
  BY LenProperties DEF GoodList, Sublist
<1>2. \A i \in 1 .. Len(n) : g[i] \in 1 .. Len(m) /\ Same(n[i], m[g[i]])
  BY DEF Sublist
<1>3. \A i, j \in 1 .. Len(n) : g[i] = g[j] => i = j
  BY <1>1, SublistInjective
<1>4. Unique(n)
  <2>1. SUFFICES ASSUME NEW i \in 1 .. Len(n), NEW j \in 1 .. Len(n),
                        n[i].intab, n[j].intab, n[i].adr = n[j].adr
                 PROVE  i = j
    BY DEF Unique
  <2>2. g[i] = g[j]
    <3>1. PICK x \in 1 .. Len(m), y \in 1 .. Len(m) : x = g[i] /\ y = g[j]
      BY <1>2
    <3>2. m[x].intab /\ m[y].intab /\ m[x].adr = m[y].adr
      BY <1>2, <2>1, <3>1 DEF Same
    <3>3. QED
      BY <3>1, <3>2 DEF GoodList, Unique
  <2>3. QED
    BY <1>3, <2>2
<1>5. ChangedAre(n, lv)
  <2>1. ASSUME NEW i \in 1 .. Len(n), n[i].changed PROVE n[i].adr \in lv /\ n[i].fresh
    BY <1>2, <2>1 DEF GoodList, ChangedAre, Same
  <2>2. ASSUME NEW i \in 1 .. Len(n), NEW j \in 1 .. Len(n),
               n[i].changed, n[j].changed, n[i].adr = n[j].adr
        PROVE  i = j
    <3>1. g[i] = g[j]
      BY <1>2, <2>2, SMTT(30) DEF GoodList, ChangedAre, Same
    <3>2. QED
      BY <1>3, <3>1
  <2>3. QED
    BY <2>1, <2>2 DEF ChangedAre
<1>6. Current(n, lv, lk)
  BY <1>2 DEF GoodList, Current, Same
<1>7. Chained(n, st)
  BY <1>2 DEF GoodList, Chained, AllChained, Same
<1>8. InTab(n) \subseteq InTab(m)
  BY <1>2 DEF InTab, Same
<1>9. QED
  BY <1>1, <1>4, <1>5, <1>6, <1>7, <1>8 DEF GoodList

\* A prefix, some of whose elements have been written.
Shrinks(n, m) ==
    n \in Seq(E) /\ Len(n) <= Len(m) /\ \A k \in 1 .. Len(n) : Same(n[k], m[k])

LEMMA ShrinksGood ==
    ASSUME NEW n, NEW m, NEW lv, NEW lk, NEW st, NEW p,
           GoodList(m, lv, lk, st, p), Shrinks(n, m), Ordered(n, p)
    PROVE  GoodList(n, lv, lk, st, p) /\ InTab(n) \subseteq InTab(m)
<1>1. m \in Seq(E) /\ n \in Seq(E) /\ Len(n) \in Nat /\ Len(m) \in Nat
  BY LenProperties DEF GoodList, Shrinks
<1>2. PICK g : g = [k \in 1 .. Len(n) |-> k]
  OBVIOUS
<1>3. g \in [1 .. Len(n) -> 1 .. Len(m)] /\ \A k \in 1 .. Len(n) : g[k] = k
  BY <1>1, <1>2 DEF Shrinks
<1>4. Sublist(n, m, g)
  BY <1>1, <1>3 DEF Sublist, Shrinks
<1>5. QED
  BY <1>4, SublistGood

\* The list without the element at position i.
LEMMA RemoveGood ==
    ASSUME NEW n, NEW m, NEW lv, NEW lk, NEW st, NEW p \in Nat, NEW q \in Nat,
           GoodList(m, lv, lk, st, p), NEW i \in 1 .. Len(m), n = RemoveAt(m, i),
           p <= q \/ (p = q + 1 /\ i < p)
    PROVE  GoodList(n, lv, lk, st, q) /\ InTab(n) \subseteq InTab(m)
<1>1. m \in Seq(E) /\ Len(m) \in Nat
  BY LenProperties DEF GoodList
<1>2. /\ n \in Seq(E) /\ Len(n) = Len(m) - 1
      /\ \A k \in 1 .. Len(n) : n[k] = m[IF k < i THEN k ELSE k + 1]
  BY <1>1, RemoveAtIs
<1>3. PICK g : g = [k \in 1 .. Len(n) |-> IF k < i THEN k ELSE k + 1]
  OBVIOUS
<1>4. g \in [1 .. Len(n) -> 1 .. Len(m)] /\ \A k \in 1 .. Len(n) : g[k] = IF k < i THEN k ELSE k + 1
  BY <1>1, <1>2, <1>3
<1>5. \A k \in 1 .. Len(n) : n[k] = m[g[k]]
  BY <1>2, <1>4
<1>6. ASSUME NEW k \in 1 .. Len(n), NEW j \in 1 .. Len(n), k < j PROVE g[k] < g[j]
  <2>1. k \in Int /\ j \in Int /\ i \in Int
    BY <1>1, <1>2
  <2>2. QED
    BY <1>4, <1>6, <2>1
<1>7. Sublist(n, m, g)
  BY <1>2, <1>4, <1>5, <1>6 DEF Sublist, Same
<1>8. Ordered(n, q)
  <2>1. SUFFICES ASSUME NEW k \in 1 .. Len(n), NEW j \in 1 .. Len(n), q <= k, k < j, n[j].changed
                 PROVE  n[k].changed
    BY DEF Ordered
  <2>2. p <= g[k]
    <3>1. k \in Int /\ i \in Int
      BY <1>1, <1>2
    <3>2. QED
      BY <1>4, <2>1, <3>1
  <2>3. g[k] \in 1 .. Len(m) /\ g[j] \in 1 .. Len(m) /\ g[k] < g[j] /\ m[g[j]].changed
    BY <1>4, <1>5, <1>6, <2>1
  <2>4. m[g[k]].changed
    BY <2>2, <2>3 DEF GoodList, Ordered
  <2>5. QED
    BY <1>5, <2>4
<1>9. QED
  BY <1>7, <1>8, SublistGood


\* The list and the file after a flush.
FlushedList(l) ==
    [i \in 1 .. Len(l) |-> IF i \in FlushRange(l) THEN [l[i] EXCEPT !.changed = FALSE] ELSE l[i]]

FlushedDisk(l, d) ==
    [a \in Adr |-> IF \E i \in FlushRange(l) : l[i].adr = a
                   THEN \E i \in FlushRange(l) : l[i].adr = a /\ l[i].fresh
                   ELSE d[a]]

LEMMA FlushRangeIs ==
    ASSUME NEW l \in Seq(E)
    PROVE  /\ Len(l) \in Nat
           /\ \A i \in 1 .. Len(l) : i \in FlushRange(l) <=> \A j \in 1 .. i : l[j].changed
           /\ FlushRange(l) \subseteq 1 .. Len(l)
<1>1. DOMAIN l = 1 .. Len(l) /\ Len(l) \in Nat
  BY LenProperties
<1>2. QED
  BY <1>1 DEF FlushRange

\* What a flush leaves of a good list; what was changed from the head on is written.
LEMMA FlushGood ==
    ASSUME NEW l, NEW d \in [Adr -> BOOLEAN], NEW lv \in SUBSET Adr, NEW lk, NEW st, NEW p \in Nat,
           GoodList(l, lv, lk, st, p), Written(l, d, lv),
           NEW n, n = FlushedList(l), NEW e, e = FlushedDisk(l, d)
    PROVE  /\ GoodList(n, lv, lk, st, p) /\ Written(n, e, lv) /\ e \in [Adr -> BOOLEAN]
           /\ Shrinks(n, l) /\ Len(n) = Len(l) /\ InTab(n) = InTab(l)
           /\ Ordered(l, 1) => Clean(n, e, lv)
<1>1. l \in Seq(E) /\ Len(l) \in Nat /\ \A i \in 1 .. Len(l) : l[i] \in E
  BY LenProperties, ElementOfSeq DEF GoodList
<1>2. PICK R : R = FlushRange(l)
  OBVIOUS
<1>3. /\ R \subseteq 1 .. Len(l)
      /\ \A i \in 1 .. Len(l) : i \in R <=> \A j \in 1 .. i : l[j].changed
  BY <1>1, <1>2, FlushRangeIs
<1>4. \A i \in 1 .. Len(l) : /\ i \in R => n[i] = [l[i] EXCEPT !.changed = FALSE]
                             /\ i \notin R => n[i] = l[i]
  <2>1. n = [i \in 1 .. Len(l) |-> IF i \in R THEN [l[i] EXCEPT !.changed = FALSE] ELSE l[i]]
    BY <1>2, Zenon DEF FlushedList
  <2>2. QED
    BY <2>1, Zenon
<1>5. \A i \in 1 .. Len(l) : n[i] \in E
  <2>1. \A x \in E : [x EXCEPT !.changed = FALSE] \in E
    BY DEF E
  <2>2. QED
    BY <1>1, <1>4, <2>1, Zenon
<1>6. n \in Seq(E) /\ Len(n) = Len(l)
  <2>1. n \in [1 .. Len(l) -> E]
    BY <1>5 DEF FlushedList
  <2>2. n \in Seq(E)
    BY <1>1, <2>1
  <2>3. QED
    BY <1>1, <2>1, <2>2, LenProperties
<1>7. \A i \in 1 .. Len(l) : /\ Same(n[i], l[i])
                             /\ n[i].changed <=> l[i].changed /\ i \notin R
  <2>1. ASSUME NEW i \in 1 .. Len(l)
        PROVE  Same(n[i], l[i]) /\ (n[i].changed <=> l[i].changed /\ i \notin R)
    <3>1. l[i] \in E /\ (i \in R => l[i].changed)
      BY <1>1, <1>3
    <3>2. CASE i \in R
      BY <1>4, <3>1, <3>2 DEF E, Same
    <3>3. CASE i \notin R
      BY <1>4, <3>1, <3>3 DEF E, Same
    <3>4. QED
      BY <3>2, <3>3
  <2>2. QED
    BY <2>1
<1>8. Shrinks(n, l)
  BY <1>1, <1>6, <1>7 DEF Shrinks
<1>9. Ordered(n, p)
  <2>1. SUFFICES ASSUME NEW i \in 1 .. Len(n), NEW j \in 1 .. Len(n), p <= i, i < j, n[j].changed
                 PROVE  n[i].changed
    BY DEF Ordered
  <2>2. i \in 1 .. Len(l) /\ j \in 1 .. Len(l) /\ l[j].changed /\ j \notin R
    BY <1>6, <1>7, <2>1
  <2>3. l[i].changed
    BY <2>1, <2>2 DEF GoodList, Ordered
  <2>4. PICK k \in 1 .. j : ~l[k].changed
    BY <1>3, <2>2
  <2>5. i \notin R
    <3>1. SUFFICES ASSUME i \in R PROVE FALSE
      OBVIOUS
    <3>2. \A x \in 1 .. i : l[x].changed
      BY <1>3, <2>2, <3>1
    <3>3. k \in 1 .. Len(l) /\ ~(k <= i) /\ k # j
      BY <1>1, <2>2, <2>4, <3>2
    <3>4. p <= k /\ k < j
      BY <2>1, <2>2, <2>4, <3>3
    <3>5. QED
      BY <2>2, <2>4, <3>3, <3>4 DEF GoodList, Ordered
  <2>6. QED
    BY <1>7, <2>2, <2>3, <2>5
<1>10. GoodList(n, lv, lk, st, p)
  BY <1>8, <1>9, ShrinksGood
<1>11. InTab(n) = InTab(l)
  BY <1>6, <1>7 DEF InTab, Same
<1>12. e \in [Adr -> BOOLEAN]
  BY DEF FlushedDisk
<1>13. ASSUME NEW a \in lv, ~e[a] PROVE \E i \in 1 .. Len(n) : n[i].changed /\ n[i].adr = a
  <2>0. a \in Adr
    OBVIOUS
  <2>1. ASSUME NEW i \in R, l[i].adr = a PROVE FALSE
    <3>1. i \in 1 .. Len(l) /\ l[i].changed
      <4>1. i \in 1 .. Len(l) /\ i \in 1 .. i
        BY <1>1, <1>3
      <4>2. QED
        BY <1>3, <4>1
    <3>2. l[i].fresh
      BY <3>1 DEF GoodList, ChangedAre
    <3>3. QED
      BY <1>2, <1>13, <2>0, <2>1, <3>2 DEF FlushedDisk
  <2>2. e[a] = d[a]
    BY <1>2, <2>0, <2>1 DEF FlushedDisk
  <2>3. PICK i \in 1 .. Len(l) : l[i].changed /\ l[i].adr = a
    BY <1>13, <2>2 DEF Written
  <2>4. i \notin R
    BY <2>1, <2>3
  <2>5. QED
    BY <1>6, <1>7, <2>3, <2>4 DEF Same
<1>14. Written(n, e, lv)
  BY <1>13 DEF Written
<1>15. ASSUME Ordered(l, 1) PROVE Clean(n, e, lv)
  <2>1. ASSUME NEW i \in 1 .. Len(n), n[i].changed PROVE FALSE
    <3>1. i \in 1 .. Len(l) /\ l[i].changed /\ i \notin R
      BY <1>6, <1>7, <2>1
    <3>2. PICK k \in 1 .. i : ~l[k].changed
      BY <1>3, <3>1
    <3>3. k \in 1 .. Len(l) /\ 1 <= k /\ k < i
      BY <1>1, <3>1, <3>2
    <3>4. QED
      BY <1>15, <3>1, <3>2, <3>3 DEF Ordered
  <2>2. QED
    BY <1>13, <2>1 DEF Clean
<1>16. QED
  BY <1>6, <1>8, <1>10, <1>11, <1>12, <1>14, <1>15


Enters(n, m, e) == InTab(n) = IF e.intab THEN InTab(m) \cup {e.adr} ELSE InTab(m)

NewElement(e, a, st) == e \in E /\ e.adr = a /\ ~e.changed /\ (e.intab \/ st = TRUE)

\* A new element, not read yet, at position pos.
LEMMA InsertGood ==
    ASSUME NEW m, NEW lv, NEW lk, NEW st, NEW p \in Nat, NEW pos \in Nat, 1 <= pos, pos <= Len(m) + 1,
           GoodList(m, lv, lk, st, p), p <= pos,
           NEW e, NEW a, NewElement(e, a, st), a \notin InTab(m),
           NEW n, n = InsertAt(m, pos, e), NEW next, next = pos + 1, NEW lx, lx = lk \cup {a}
    PROVE  GoodList(n, lv, lx, st, next) /\ Enters(n, m, e) /\ Inserted(n, m, pos, e)
<1>1. m \in Seq(E) /\ Len(m) \in Nat /\ pos \in Nat /\ 1 <= pos /\ pos <= Len(m) + 1
  BY LenProperties DEF GoodList
<1>2. e \in E
  BY DEF NewElement
<1>3. e.adr = a /\ ~e.changed /\ (e.intab \/ st = TRUE)
  BY DEF NewElement
<1>4. /\ n \in Seq(E) /\ Len(n) = Len(m) + 1 /\ n[pos] = e
      /\ \A k \in 1 .. pos - 1 : n[k] = m[k]
      /\ \A k \in pos + 1 .. Len(n) : n[k] = m[k - 1]
  <2>1. n \in Seq(E) /\ Inserted(n, m, pos, e)
    BY <1>1, <1>2, InsertAtIs
  <2>2. QED
    BY <2>1 DEF Inserted
<1>5. PICK g : g = [k \in 1 .. Len(n) |-> IF k < pos THEN k ELSE k - 1]
  OBVIOUS
<1>6. ASSUME NEW k \in 1 .. Len(n), k # pos
      PROVE  g[k] \in 1 .. Len(m) /\ n[k] = m[g[k]] /\ (pos < k => pos <= g[k])
  <2>1. CASE k < pos
    BY <1>1, <1>4, <1>5, <2>1
  <2>2. CASE pos < k
    <3>1. k \in pos + 1 .. Len(n) /\ g[k] = k - 1 /\ k - 1 \in 1 .. Len(m) /\ pos <= k - 1
      BY <1>1, <1>4, <1>5, <2>2
    <3>2. QED
      BY <1>4, <3>1
  <2>3. QED
    BY <1>1, <1>4, <1>6, <2>1, <2>2
<1>7. ASSUME NEW i \in 1 .. Len(n), NEW j \in 1 .. Len(n), i # pos, j # pos
      PROVE  (g[i] = g[j] => i = j) /\ (i < j => g[i] < g[j])
  <2>1. i \in Int /\ j \in Int
    BY <1>1, <1>4
  <2>2. QED
    BY <1>5, <1>7, <2>1
<1>8. ASSUME NEW i \in 1 .. Len(n), i # pos, n[i].intab PROVE n[i].adr # a
  BY <1>6, <1>8 DEF InTab
<1>9. Unique(n)
  <2>1. SUFFICES ASSUME NEW i \in 1 .. Len(n), NEW j \in 1 .. Len(n),
                        n[i].intab, n[j].intab, n[i].adr = n[j].adr
                 PROVE  i = j
    BY DEF Unique
  <2>2. CASE i # pos /\ j # pos
    <3>1. PICK x \in 1 .. Len(m), y \in 1 .. Len(m) : x = g[i] /\ y = g[j] /\ n[i] = m[x] /\ n[j] = m[y]
      BY <1>6, <2>2
    <3>2. x = y
      BY <2>1, <3>1 DEF GoodList, Unique
    <3>3. QED
      BY <1>7, <2>2, <3>1, <3>2
  <2>3. CASE i = pos \/ j = pos
    BY <1>3, <1>4, <1>8, <2>1, <2>3
  <2>4. QED
    BY <2>2, <2>3
<1>10. Ordered(n, pos + 1)
  <2>1. SUFFICES ASSUME NEW i \in 1 .. Len(n), NEW j \in 1 .. Len(n), pos + 1 <= i, i < j, n[j].changed
                 PROVE  n[i].changed
    BY DEF Ordered
  <2>2. i # pos /\ j # pos /\ pos < i
    BY <1>1, <1>4, <2>1
  <2>3. PICK x \in 1 .. Len(m), y \in 1 .. Len(m) :
          x = g[i] /\ y = g[j] /\ n[i] = m[x] /\ n[j] = m[y] /\ pos <= x
    BY <1>6, <2>2
  <2>4. x < y /\ p <= x
    BY <1>7, <2>1, <2>2, <2>3
  <2>5. QED
    BY <2>1, <2>3, <2>4 DEF GoodList, Ordered
<1>11. ChangedAre(n, lv)
  <2>1. ASSUME NEW i \in 1 .. Len(n), n[i].changed PROVE i # pos /\ n[i].adr \in lv /\ n[i].fresh
    <3>1. i # pos
      BY <1>3, <1>4, <2>1
    <3>2. QED
      BY <1>6, <2>1, <3>1 DEF GoodList, ChangedAre
  <2>2. ASSUME NEW i \in 1 .. Len(n), NEW j \in 1 .. Len(n),
               n[i].changed, n[j].changed, n[i].adr = n[j].adr
        PROVE  i = j
    <3>1. i # pos /\ j # pos
      BY <2>1, <2>2
    <3>2. PICK x \in 1 .. Len(m), y \in 1 .. Len(m) : x = g[i] /\ y = g[j] /\ n[i] = m[x] /\ n[j] = m[y]
      BY <1>6, <3>1
    <3>3. x = y
      BY <2>2, <3>2 DEF GoodList, ChangedAre
    <3>4. QED
      BY <1>7, <3>1, <3>2, <3>3
  <2>3. QED
    BY <2>1, <2>2 DEF ChangedAre
<1>12. Current(n, lv, lk \cup {a})
  <2>1. SUFFICES ASSUME NEW i \in 1 .. Len(n), n[i].intab, n[i].adr \notin lk \cup {a}
                 PROVE  n[i].fresh /\ n[i].adr \in lv
    BY DEF Current
  <2>2. i # pos
    BY <1>3, <1>4, <2>1
  <2>3. QED
    BY <1>6, <2>1, <2>2 DEF GoodList, Current
<1>13. Chained(n, st)
  <2>1. SUFFICES ASSUME st # TRUE, NEW i \in 1 .. Len(n) PROVE n[i].intab
    BY DEF Chained, AllChained
  <2>2. CASE i = pos
    BY <1>3, <1>4, <2>1, <2>2
  <2>3. CASE i # pos
    BY <1>6, <2>1, <2>3 DEF GoodList, Chained, AllChained
  <2>4. QED
    BY <2>2, <2>3
<1>14. ASSUME NEW x \in InTab(n) PROVE x \in InTab(m) \/ (e.intab /\ x = a)
  <2>1. PICK i \in 1 .. Len(n) : n[i].intab /\ n[i].adr = x
    BY <1>14 DEF InTab
  <2>2. CASE i = pos
    BY <1>3, <1>4, <2>1, <2>2
  <2>3. CASE i # pos
    BY <1>6, <2>1, <2>3 DEF InTab
  <2>4. QED
    BY <2>2, <2>3
<1>15. ASSUME NEW x \in InTab(m) PROVE x \in InTab(n)
  <2>1. PICK i \in 1 .. Len(m) : m[i].intab /\ m[i].adr = x
    BY <1>15 DEF InTab
  <2>2. PICK k \in 1 .. Len(n) : n[k] = m[i]
    <3>1. CASE i < pos
      <4>1. i \in 1 .. pos - 1 /\ i \in 1 .. Len(n)
        BY <1>1, <1>4, <3>1
      <4>2. QED
        BY <1>4, <4>1
    <3>2. CASE ~(i < pos)
      <4>1. i + 1 \in pos + 1 .. Len(n) /\ i + 1 \in 1 .. Len(n) /\ (i + 1) - 1 = i
        BY <1>1, <1>4, <3>2
      <4>2. QED
        BY <1>4, <4>1
    <3>3. QED
      BY <3>1, <3>2
  <2>3. QED
    BY <2>1, <2>2 DEF InTab
<1>16. e.intab => a \in InTab(n)
  <2>1. pos \in 1 .. Len(n)
    BY <1>1, <1>4
  <2>2. QED
    BY <1>3, <1>4, <2>1 DEF InTab
<1>17. GoodList(n, lv, lk \cup {a}, st, pos + 1)
  BY <1>4, <1>9, <1>10, <1>11, <1>12, <1>13 DEF GoodList
<1>18. (e.intab => InTab(n) = InTab(m) \cup {a}) /\ (~e.intab => InTab(n) = InTab(m))
  BY <1>14, <1>15, <1>16
<1>19. QED
  BY <1>4, <1>17, <1>18 DEF Inserted, Enters, NewElement

-----------------------------------------------------------------------------
(* The cache as a whole. *)

Tabs == UNION {[0 .. 2^b - 1 -> Seq(Adr)] : b \in CacheBits}

CacheRec == [lru : Seq(E), tab : Tabs, avail : Nat, bits : CacheBits, disk : [Adr -> BOOLEAN],
             aborted : BOOLEAN]

GoodCache(c, lv, lk, st, p) ==
    /\ c \in CacheRec
    /\ Len(c.lru) <= 2^c.bits
    /\ GoodList(c.lru, lv, lk, st, p)
    /\ Written(c.lru, c.disk, lv)
    /\ Holds(c.tab, c.bits, InTab(c.lru))
    /\ ~c.aborted

LEMMA InTabType ==
    ASSUME NEW l \in Seq(E)
    PROVE  InTab(l) \in SUBSET Adr
<1>1. \A i \in 1 .. Len(l) : l[i] \in E
  BY ElementOfSeq
<1>2. QED
  BY <1>1 DEF InTab, E

LEMMA HoldsType ==
    ASSUME NEW b \in CacheBits, NEW t, NEW S, Holds(t, b, S)
    PROVE  t \in Tabs
BY DEF Holds, Tabs

\* A lookup in the table finds the elements of the list that are in a chain.
LEMMA LookupFinds ==
    ASSUME NEW c, NEW lv, NEW lk, NEW st, NEW p, GoodCache(c, lv, lk, st, p), NEW a \in Adr
    PROVE  InTable(c, a) <=> a \in InTab(c.lru)
<1>1. c.bits \in CacheBits /\ c.lru \in Seq(E)
  BY DEF GoodCache, CacheRec
<1>2. InTab(c.lru) \in SUBSET Adr /\ Holds(c.tab, c.bits, InTab(c.lru))
  BY <1>1, InTabType DEF GoodCache
<1>a. PICK b \in CacheBits, S \in SUBSET Adr : b = c.bits /\ S = InTab(c.lru)
  BY <1>1, <1>2
<1>3. PICK t : b = c.bits /\ S = InTab(c.lru) /\ t = c.tab
  BY <1>a
<1>4. Contains(t[Index(a, b)], a) <=> a \in S
  BY <1>2, <1>3, HoldsHas
<1>5. QED
  BY <1>3, <1>4 DEF InTable

\* A flush.
LEMMA FlushFields ==
    ASSUME NEW c \in CacheRec, NEW r, r = Flush(c)
    PROVE  /\ r.lru = FlushedList(c.lru) /\ r.disk = FlushedDisk(c.lru, c.disk)
           /\ r.tab = c.tab /\ r.avail = c.avail /\ r.bits = c.bits /\ r.aborted = c.aborted
           /\ r = [c EXCEPT !.lru = FlushedList(c.lru), !.disk = FlushedDisk(c.lru, c.disk)]
<1>1. PICK R : R = FlushRange(c.lru)
  OBVIOUS
<1>2. PICK l \in Seq(E), d \in [Adr -> BOOLEAN] : l = c.lru /\ d = c.disk
  BY DEF CacheRec
<1>3. DOMAIN l = 1 .. Len(l)
  BY LenProperties
<1>4. PICK x : x = FlushedList(l)
  OBVIOUS
<1>5. PICK y : y = FlushedDisk(l, d)
  OBVIOUS
<1>6. x = [i \in DOMAIN l |-> IF i \in R THEN [l[i] EXCEPT !.changed = FALSE] ELSE l[i]]
  BY <1>1, <1>2, <1>3, <1>4 DEF FlushedList
<1>7. y = [a \in Adr |-> IF \E i \in R : l[i].adr = a THEN \E i \in R : l[i].adr = a /\ l[i].fresh
                         ELSE d[a]]
  BY <1>1, <1>2, <1>5, Zenon DEF FlushedDisk
<1>8. r = [c EXCEPT !.lru = x, !.disk = y]
  BY <1>1, <1>2, <1>6, <1>7, Zenon DEF Flush
<1>9. QED
  BY <1>2, <1>4, <1>5, <1>8 DEF CacheRec


LEMMA FlushCache ==
    ASSUME NEW c, NEW lv \in SUBSET Adr, NEW lk, NEW st, NEW p \in Nat, GoodCache(c, lv, lk, st, p),
           NEW r, r = Flush(c)
    PROVE  /\ GoodCache(r, lv, lk, st, p)
           /\ r.tab = c.tab /\ r.avail = c.avail /\ r.bits = c.bits
           /\ Shrinks(r.lru, c.lru) /\ Len(r.lru) = Len(c.lru) /\ InTab(r.lru) = InTab(c.lru)
           /\ Ordered(c.lru, 1) => Clean(r.lru, r.disk, lv)
<1>0. c \in CacheRec /\ GoodList(c.lru, lv, lk, st, p) /\ Written(c.lru, c.disk, lv)
  BY DEF GoodCache
<1>1. PICK l \in Seq(E), d \in [Adr -> BOOLEAN] : l = c.lru /\ d = c.disk
  BY <1>0 DEF CacheRec
<1>2. PICK n, e : n = FlushedList(l) /\ e = FlushedDisk(l, d)
  OBVIOUS
<1>3. /\ r.lru = n /\ r.disk = e /\ r = [c EXCEPT !.lru = n, !.disk = e]
      /\ r.tab = c.tab /\ r.avail = c.avail /\ r.bits = c.bits /\ r.aborted = c.aborted
  BY <1>0, <1>1, <1>2, FlushFields
<1>4. GoodList(l, lv, lk, st, p) /\ Written(l, d, lv)
  BY <1>0, <1>1
<1>5. /\ GoodList(n, lv, lk, st, p) /\ Written(n, e, lv) /\ e \in [Adr -> BOOLEAN]
      /\ Shrinks(n, l) /\ Len(n) = Len(l) /\ InTab(n) = InTab(l)
      /\ Ordered(l, 1) => Clean(n, e, lv)
  BY <1>2, <1>4, FlushGood
<1>6. r \in CacheRec
  BY <1>0, <1>3, <1>5 DEF CacheRec, GoodList
<1>7. GoodCache(r, lv, lk, st, p)
  BY <1>1, <1>3, <1>5, <1>6 DEF GoodCache
<1>8. QED
  BY <1>1, <1>3, <1>5, <1>7

\* An element that is freed leaves the list and its chain.
LEMMA RemoveInTab ==
    ASSUME NEW l \in Seq(E), Unique(l), NEW i \in 1 .. Len(l), NEW n, n = RemoveAt(l, i)
    PROVE  InTab(n) = IF l[i].intab THEN InTab(l) \ {l[i].adr} ELSE InTab(l)
<1>1. /\ n \in Seq(E) /\ Len(n) = Len(l) - 1 /\ Len(l) \in Nat
      /\ \A k \in 1 .. Len(n) : n[k] = l[IF k < i THEN k ELSE k + 1]
  BY RemoveAtIs
<1>2. ASSUME NEW k \in 1 .. Len(n) PROVE \E j \in 1 .. Len(l) : j # i /\ n[k] = l[j]
  <2>1. (IF k < i THEN k ELSE k + 1) \in 1 .. Len(l) /\ (IF k < i THEN k ELSE k + 1) # i
    BY <1>1
  <2>2. QED
    BY <1>1, <2>1
<1>3. ASSUME NEW j \in 1 .. Len(l), j # i PROVE \E k \in 1 .. Len(n) : n[k] = l[j]
  <2>1. PICK k \in 1 .. Len(n) : k = IF j < i THEN j ELSE j - 1
    BY <1>1, <1>3
  <2>2. (IF k < i THEN k ELSE k + 1) = j
    BY <1>1, <1>3, <2>1
  <2>3. QED
    BY <1>1, <2>2
<1>4. ASSUME NEW x PROVE x \in InTab(n) <=> \E j \in 1 .. Len(l) : j # i /\ l[j].intab /\ l[j].adr = x
  <2>1. ASSUME x \in InTab(n) PROVE \E j \in 1 .. Len(l) : j # i /\ l[j].intab /\ l[j].adr = x
    <3>1. PICK k \in 1 .. Len(n) : n[k].intab /\ n[k].adr = x
      BY <2>1 DEF InTab
    <3>2. QED
      BY <1>2, <3>1
  <2>2. ASSUME NEW j \in 1 .. Len(l), j # i, l[j].intab, l[j].adr = x PROVE x \in InTab(n)
    <3>1. PICK k \in 1 .. Len(n) : n[k] = l[j]
      BY <1>3, <2>2
    <3>2. QED
      BY <2>2, <3>1 DEF InTab
  <2>3. QED
    BY <2>1, <2>2
<1>5. ASSUME NEW x PROVE x \in InTab(l) <=> \E j \in 1 .. Len(l) : l[j].intab /\ l[j].adr = x
  BY DEF InTab
<1>6. CASE l[i].intab
  <2>1. \A j \in 1 .. Len(l) : j # i /\ l[j].intab => l[j].adr # l[i].adr
    BY <1>6 DEF Unique
  <2>2. \A x : x \in InTab(n) <=> x \in InTab(l) /\ x # l[i].adr
    BY <1>4, <1>5, <2>1
  <2>3. QED
    BY <1>6, <2>2
<1>7. CASE ~l[i].intab
  <2>1. \A x : x \in InTab(n) <=> x \in InTab(l)
    BY <1>4, <1>5, <1>7
  <2>2. QED
    BY <1>7, <2>1
<1>8. QED
  BY <1>6, <1>7

LEMMA ElemFreeIs ==
    ASSUME NEW c \in CacheRec, Unique(c.lru), Holds(c.tab, c.bits, InTab(c.lru)),
           NEW i \in 1 .. Len(c.lru), NEW r, r = ElemFree(c, i)
    PROVE  /\ r \in CacheRec /\ r.lru = RemoveAt(c.lru, i) /\ r.bits = c.bits /\ r.disk = c.disk
           /\ r.aborted = c.aborted /\ Holds(r.tab, r.bits, InTab(r.lru)) /\ r.avail > 0
<1>a. PICK l \in Seq(E), b \in CacheBits : l = c.lru /\ b = c.bits
  BY DEF CacheRec
<1>1. PICK t : l = c.lru /\ b = c.bits /\ t = c.tab
  BY <1>a
<1>2. PICK n : n = RemoveAt(l, i)
  OBVIOUS
<1>3. n \in Seq(E) /\ InTab(n) = IF l[i].intab THEN InTab(l) \ {l[i].adr} ELSE InTab(l)
  BY <1>1, <1>2, RemoveAtIs, RemoveInTab
<1>4. PICK u : u = Unchain(c, l[i])
  OBVIOUS
<1>5. Holds(u, b, InTab(n))
  <2>1. PICK S \in SUBSET Adr : S = InTab(l) /\ Holds(t, b, S)
    BY <1>1, InTabType
  <2>2. CASE l[i].intab
    <3>1. PICK a \in S : a = l[i].adr
      BY <1>1, <2>1, <2>2 DEF InTab
    <3>2. u = [t EXCEPT ![Index(a, b)] = Unlink(@, a)]
      BY <1>1, <1>4, <2>2, <3>1 DEF Unchain
    <3>3. Holds(u, b, S \ {a})
      BY <2>1, <3>2, HoldsRemove
    <3>4. QED
      BY <1>3, <2>1, <2>2, <3>1, <3>3
  <2>3. CASE ~l[i].intab
    BY <1>1, <1>3, <1>4, <2>1, <2>3 DEF Unchain
  <2>4. QED
    BY <2>2, <2>3
<1>6. u \in Tabs
  BY <1>5, HoldsType
<1>7. r = [c EXCEPT !.tab = u, !.lru = n, !.avail = c.avail + 1]
  BY <1>1, <1>2, <1>4 DEF ElemFree
<1>8. /\ r.lru = n /\ r.tab = u /\ r.bits = b /\ r.disk = c.disk /\ r.aborted = c.aborted
      /\ r.avail = c.avail + 1 /\ c.avail \in Nat
  BY <1>1, <1>7 DEF CacheRec
<1>9. r \in CacheRec
  <2>1. PICK v \in Nat : v = c.avail + 1
    BY <1>8
  <2>2. r = [c EXCEPT !.tab = u, !.lru = n, !.avail = v]
    BY <1>7, <2>1
  <2>3. QED
    BY <1>3, <1>6, <2>2 DEF CacheRec
<1>10. QED
  BY <1>1, <1>2, <1>5, <1>8, <1>9

\* The element at the end of the list is thrown out, and written before if it is changed.
LEMMA EvictCache ==
    ASSUME NEW c, NEW lv \in SUBSET Adr, NEW lk, NEW st, NEW p \in Nat, GoodCache(c, lv, lk, st, p),
           c.lru # <<>>, NEW r, r = LruFree(c)
    PROVE  /\ GoodCache(r, lv, lk, st, p) /\ r.bits = c.bits
           /\ Shrinks(r.lru, c.lru) /\ Len(r.lru) = Len(c.lru) - 1
           /\ c.lru[Len(c.lru)].intab => InTab(r.lru) = InTab(c.lru) \ {c.lru[Len(c.lru)].adr}
<1>0. /\ c \in CacheRec /\ GoodList(c.lru, lv, lk, st, p) /\ Written(c.lru, c.disk, lv) /\ ~c.aborted
      /\ Holds(c.tab, c.bits, InTab(c.lru)) /\ Len(c.lru) <= 2^c.bits /\ Unique(c.lru)
  BY DEF GoodCache, GoodList
<1>1. PICK l \in Seq(E), d \in [Adr -> BOOLEAN], b \in CacheBits :
        l = c.lru /\ d = c.disk /\ b = c.bits /\ l # <<>>
  BY <1>0 DEF CacheRec
<1>2. PICK i \in 1 .. Len(l) : i = Len(l)
  BY <1>1, LenProperties
<1>3. l[i] \in E /\ Last(l) = l[i] /\ Len(l) \in Nat
  BY <1>2, LenProperties, ElementOfSeq DEF Last
<1>4. PICK f : f = IF l[i].changed THEN [c EXCEPT !.disk[l[i].adr] = l[i].fresh] ELSE c
  OBVIOUS
<1>5. r = ElemFree(f, i)
  BY <1>1, <1>2, <1>3, <1>4 DEF LruFree
<1>6. /\ f \in CacheRec /\ f.lru = l /\ f.tab = c.tab /\ f.bits = b /\ f.aborted = c.aborted
      /\ f.disk = IF l[i].changed THEN [d EXCEPT ![l[i].adr] = l[i].fresh] ELSE d
  BY <1>0, <1>1, <1>3, <1>4 DEF CacheRec, E
<1>7. PICK n : n = RemoveAt(l, i)
  OBVIOUS
<1>8. /\ r \in CacheRec /\ r.lru = n /\ r.bits = b /\ r.disk = f.disk
      /\ r.aborted = c.aborted /\ Holds(r.tab, r.bits, InTab(r.lru))
  <2>1. Unique(f.lru) /\ Holds(f.tab, f.bits, InTab(f.lru)) /\ i \in 1 .. Len(f.lru)
    BY <1>0, <1>1, <1>6
  <2>2. QED
    BY <1>5, <1>6, <1>7, <2>1, ElemFreeIs
<1>9. n \in Seq(E) /\ Len(n) = Len(l) - 1 /\ \A k \in 1 .. Len(n) : n[k] = l[k]
  <2>1. /\ n \in Seq(E) /\ Len(n) = Len(l) - 1
        /\ \A k \in 1 .. Len(n) : n[k] = l[IF k < i THEN k ELSE k + 1]
    BY <1>7, RemoveAtIs
  <2>2. \A k \in 1 .. Len(n) : k < i
    BY <1>2, <1>3, <2>1
  <2>3. QED
    BY <2>1, <2>2
<1>10. Shrinks(n, l)
  BY <1>3, <1>9 DEF Shrinks, Same
<1>11. GoodList(n, lv, lk, st, p)
  <2>1. GoodList(l, lv, lk, st, p) /\ p <= p
    BY <1>0, <1>1
  <2>2. QED
    BY <1>7, <2>1, RemoveGood
<1>12. Written(n, r.disk, lv)
  <2>1. SUFFICES ASSUME NEW a \in lv, ~r.disk[a] PROVE \E k \in 1 .. Len(n) : n[k].changed /\ n[k].adr = a
    BY DEF Written
  <2>2. l[i].changed => l[i].fresh /\ l[i].adr # a /\ r.disk[a] = d[a]
    <3>1. l[i].changed => l[i].fresh /\ l[i].adr \in Adr
      BY <1>0, <1>1, <1>3 DEF GoodList, ChangedAre, E
    <3>2. QED
      BY <1>6, <1>8, <2>1, <3>1
  <2>3. ~d[a]
    BY <1>6, <1>8, <2>1, <2>2
  <2>4. PICK k \in 1 .. Len(l) : l[k].changed /\ l[k].adr = a
    BY <1>0, <1>1, <2>3 DEF Written
  <2>5. k # i
    BY <2>2, <2>4
  <2>6. k \in 1 .. Len(n)
    BY <1>2, <1>3, <1>9, <2>5
  <2>7. QED
    BY <1>9, <2>4, <2>6
<1>13. Len(n) <= 2^b
  <2>1. 2^b \in Nat
    BY IndexFacts
  <2>2. QED
    BY <1>0, <1>1, <1>3, <1>9, <2>1
<1>14. GoodCache(r, lv, lk, st, p)
  BY <1>0, <1>8, <1>11, <1>12, <1>13 DEF GoodCache
<1>15. l[i].intab => InTab(n) = InTab(l) \ {l[i].adr}
  BY <1>0, <1>1, <1>7, RemoveInTab
<1>16. QED
  BY <1>1, <1>2, <1>8, <1>9, <1>10, <1>14, <1>15


\* A prefix of the list.
PrefixOf(k, l, n) == Len(k) = n /\ \A i \in 1 .. n : k[i] = l[i]

LEMMA PrefixGood ==
    ASSUME NEW l, NEW lv, NEW lk, NEW st, NEW p \in Nat, GoodList(l, lv, lk, st, p),
           NEW n \in 0 .. Len(l), NEW k, k = SubSeq(l, 1, n)
    PROVE  GoodList(k, lv, lk, st, p) /\ Shrinks(k, l) /\ PrefixOf(k, l, n)
<1>1. l \in Seq(E) /\ Len(l) \in Nat
  BY LenProperties DEF GoodList
<1>2. k \in Seq(E) /\ Len(k) = n /\ \A i \in 1 .. n : k[i] = l[i]
  BY <1>1, PrefixIs
<1>3. \A i \in 1 .. n : i \in 1 .. Len(l)
  BY <1>1
<1>4. Shrinks(k, l)
  BY <1>1, <1>2 DEF Shrinks, Same
<1>5. Ordered(k, p)
  <2>1. SUFFICES ASSUME NEW i \in 1 .. n, NEW j \in 1 .. n, p <= i, i < j, k[j].changed
                 PROVE  k[i].changed
    BY <1>2 DEF Ordered
  <2>2. i \in 1 .. Len(l) /\ j \in 1 .. Len(l) /\ l[j].changed
    BY <1>2, <1>3, <2>1
  <2>3. l[i].changed
    BY <2>1, <2>2 DEF GoodList, Ordered
  <2>4. QED
    BY <1>2, <2>3
<1>6. QED
  BY <1>2, <1>4, <1>5, ShrinksGood DEF PrefixOf

\* The addresses of a list, from its end to its head.
Reversed(k) == [i \in DOMAIN k |-> k[Len(k) + 1 - i].adr]

Repeats(q) == \E i, j \in DOMAIN q : i # j /\ q[i] = q[j]

\* The table of the elements of a list.
LEMMA ReversedHolds ==
    ASSUME NEW k \in Seq(E), Unique(k), \A i \in 1 .. Len(k) : k[i].intab, NEW b \in CacheBits,
           NEW q, q = Reversed(k)
    PROVE  /\ Holds(Rehash(q, b), b, InTab(k))
           /\ ~Repeats(q)
<1>1. Len(k) \in Nat /\ DOMAIN k = 1 .. Len(k) /\ \A i \in 1 .. Len(k) : k[i] \in E
  BY LenProperties, ElementOfSeq
<1>2. PICK N \in Nat : N = Len(k)
  BY <1>1
<1>3. \A i \in 1 .. N : N + 1 - i \in 1 .. N /\ N + 1 - (N + 1 - i) = i
  BY <1>2
<1>4. \A i \in 1 .. N : q[i] = k[N + 1 - i].adr /\ q[i] \in Adr
  BY <1>1, <1>2, <1>3 DEF E, Reversed
<1>5. q \in Seq(Adr) /\ Len(q) = N /\ DOMAIN q = 1 .. N
  <2>1. q \in [1 .. N -> Adr]
    BY <1>1, <1>2, <1>4 DEF Reversed
  <2>2. q \in Seq(Adr)
    BY <2>1, SeqDef
  <2>3. QED
    BY <1>2, <2>1, <2>2, LenProperties
<1>6. ASSUME NEW i \in 1 .. N, NEW j \in 1 .. N, q[i] = q[j] PROVE i = j
  <2>1. PICK x \in 1 .. N, y \in 1 .. N : x = N + 1 - i /\ y = N + 1 - j
    BY <1>3
  <2>2. k[x].adr = k[y].adr /\ k[x].intab /\ k[y].intab
    BY <1>2, <1>4, <1>6, <2>1
  <2>3. x = y
    BY <1>2, <2>2 DEF Unique
  <2>4. QED
    BY <2>1, <2>3
<1>7. {q[i] : i \in 1 .. N} = InTab(k)
  <2>1. ASSUME NEW i \in 1 .. N PROVE q[i] \in InTab(k)
    <3>1. PICK x \in 1 .. N : x = N + 1 - i
      BY <1>3
    <3>2. q[i] = k[x].adr /\ k[x].intab /\ x \in 1 .. Len(k)
      BY <1>2, <1>4, <3>1
    <3>3. QED
      BY <3>2 DEF InTab
  <2>2. ASSUME NEW a \in InTab(k) PROVE \E i \in 1 .. N : q[i] = a
    <3>1. PICK x \in 1 .. N : k[x].adr = a
      BY <1>2 DEF InTab
    <3>2. PICK i \in 1 .. N : i = N + 1 - x /\ N + 1 - i = x
      BY <1>3
    <3>3. q[i] = k[x].adr
      BY <1>4, <3>2
    <3>4. QED
      BY <3>1, <3>3
  <2>3. QED
    BY <2>1, <2>2
<1>8. Holds(Rehash(q, b), b, InTab(k))
  <2>1. PICK S : S = InTab(k)
    OBVIOUS
  <2>2. S = {q[i] : i \in 1 .. Len(q)}
    BY <1>5, <1>7, <2>1
  <2>3. \A i, j \in 1 .. Len(q) : q[i] = q[j] => i = j
    BY <1>5, <1>6
  <2>4. QED
    BY <1>5, <2>1, <2>2, <2>3, HoldsRehash
<1>9. QED
  BY <1>5, <1>6, <1>8 DEF Repeats

\* The elements of a flushed cache that fit into 2^bits, and the cache made of them.
Kept(f, bits) == SubSeq(f.lru, 1, IF Len(f.lru) < 2^bits THEN Len(f.lru) ELSE 2^bits)

Resized(f, k, q, bits) ==
    [f EXCEPT !.bits = bits,
              !.avail = f.avail + Len(f.lru) - Len(k),
              !.lru = [i \in DOMAIN k |-> [k[i] EXCEPT !.intab = TRUE]],
              !.tab = Rehash(q, bits),
              !.aborted = Repeats(q)]

LEMMA ResizeFields ==
    ASSUME NEW c, NEW bits, bits # c.bits
    PROVE  Resize(c, bits) = Resized(Flush(c), Kept(Flush(c), bits), Reversed(Kept(Flush(c), bits)), bits)
BY Zenon DEF Resize, Resized, Kept, Reversed, Repeats

Fits(l, bits) == Len(l) <= 2^bits

SameLength(n, l) == Len(n) = Len(l)

MayResize(l, bits) == Fits(l, bits) \/ Ordered(l, 1)

\* A resize keeps what fits, and writes what it throws out.
LEMMA ResizeCache ==
    ASSUME NEW c, NEW lv \in SUBSET Adr, NEW lk, NEW st, NEW p \in Nat, GoodCache(c, lv, lk, st, p),
           AllChained(c.lru), NEW bits \in CacheBits, MayResize(c.lru, bits),
           NEW r, r = Resize(c, bits)
    PROVE  /\ GoodCache(r, lv, lk, st, p) /\ r.bits = bits /\ Shrinks(r.lru, c.lru)
           /\ Fits(c.lru, bits) => SameLength(r.lru, c.lru)
<1>0. c \in CacheRec /\ GoodList(c.lru, lv, lk, st, p) /\ c.lru \in Seq(E) /\ Len(c.lru) \in Nat /\ 2^bits \in Nat
  BY LenProperties, IndexFacts DEF GoodCache, GoodList
<1>1. CASE bits = c.bits
  <2>1. r = c
    BY <1>1 DEF Resize
  <2>2. Shrinks(c.lru, c.lru)
    BY <1>0 DEF Shrinks, Same
  <2>3. QED
    BY <1>1, <2>1, <2>2 DEF SameLength
<1>2. CASE bits # c.bits
  <2>1. PICK f : f = Flush(c)
    OBVIOUS
  <2>2. /\ GoodCache(f, lv, lk, st, p) /\ f.tab = c.tab /\ f.avail = c.avail /\ f.bits = c.bits
        /\ Shrinks(f.lru, c.lru) /\ Len(f.lru) = Len(c.lru) /\ InTab(f.lru) = InTab(c.lru)
        /\ Ordered(c.lru, 1) => Clean(f.lru, f.disk, lv)
    BY <2>1, FlushCache, SMTT(30)
  <2>3. /\ f \in CacheRec /\ GoodList(f.lru, lv, lk, st, p) /\ Written(f.lru, f.disk, lv) /\ ~f.aborted
    BY <2>2 DEF GoodCache
  <2>4. PICK l \in Seq(E) : l = f.lru
    BY <2>3 DEF CacheRec
  <2>5. PICK N \in 0 .. Len(l) : N = IF Len(l) < 2^bits THEN Len(l) ELSE 2^bits
    BY <1>0, <2>2, <2>4
  <2>6. PICK k : k = SubSeq(l, 1, N)
    OBVIOUS
  <2>7. /\ GoodList(k, lv, lk, st, p) /\ Shrinks(k, l) /\ Len(k) = N
        /\ \A i \in 1 .. N : k[i] = l[i]
    <3>1. GoodList(l, lv, lk, st, p)
      BY <2>3, <2>4
    <3>2. GoodList(k, lv, lk, st, p) /\ Shrinks(k, l) /\ PrefixOf(k, l, N)
      BY <2>6, <3>1, PrefixGood
    <3>3. QED
      BY <3>2 DEF PrefixOf
  <2>8. k \in Seq(E) /\ Unique(k) /\ (\A i \in 1 .. Len(k) : k[i].intab) /\ DOMAIN k = 1 .. Len(k)
        /\ \A i \in 1 .. Len(k) : k[i] \in E
    <3>1. k \in Seq(E) /\ Unique(k)
      BY <2>7 DEF GoodList
    <3>2. ASSUME NEW i \in 1 .. Len(k) PROVE k[i].intab
      <4>1. i \in 1 .. Len(l) /\ i \in 1 .. Len(c.lru) /\ k[i] = l[i]
        BY <1>0, <2>2, <2>4, <2>5, <2>7
      <4>2. Same(l[i], c.lru[i])
        BY <2>2, <2>4, <4>1 DEF Shrinks
      <4>3. c.lru[i].intab
        BY <4>1 DEF AllChained
      <4>4. QED
        BY <4>1, <4>2, <4>3 DEF Same
    <3>3. QED
      BY <3>1, <3>2, LenProperties, ElementOfSeq
  <2>9. PICK q : q = Reversed(k)
    OBVIOUS
  <2>10. Holds(Rehash(q, bits), bits, InTab(k)) /\ ~Repeats(q)
    BY <2>8, <2>9, ReversedHolds
  <2>11. PICK n : n = [i \in DOMAIN k |-> [k[i] EXCEPT !.intab = TRUE]]
    OBVIOUS
  <2>12. n = k
    <3>1. \A i \in 1 .. Len(k) : n[i] = k[i]
      <4>1. SUFFICES ASSUME NEW i \in 1 .. Len(k) PROVE n[i] = k[i]
        OBVIOUS
      <4>2. PICK e \in E : e = k[i] /\ e.intab
        BY <2>8
      <4>3. [e EXCEPT !.intab = TRUE] = e
        BY <4>2 DEF E
      <4>4. QED
        BY <2>8, <2>11, <4>2, <4>3
    <3>2. n = [i \in 1 .. Len(k) |-> n[i]]
      BY <2>8, <2>11
    <3>3. k = [i \in 1 .. Len(k) |-> k[i]]
      BY <2>8
    <3>4. QED
      BY <3>1, <3>2, <3>3
  <2>13. PICK v \in Nat : v = f.avail + Len(l) - Len(k)
    <3>1. f.avail \in Nat /\ Len(l) \in Nat /\ Len(k) \in Nat /\ Len(k) <= Len(l)
      BY <1>0, <2>2, <2>3, <2>4, <2>5, <2>7 DEF CacheRec
    <3>2. QED
      BY <3>1
  <2>14. PICK w : w = Repeats(q)
    OBVIOUS
  <2>15. PICK t : t = Rehash(q, bits)
    OBVIOUS
  <2>16. r = [f EXCEPT !.bits = bits, !.avail = v, !.lru = n, !.tab = t, !.aborted = w]
    <3>1. k = Kept(f, bits)
      BY <2>4, <2>5, <2>6 DEF Kept
    <3>2. r = Resized(f, k, q, bits)
      BY <1>2, <2>1, <2>9, <3>1, ResizeFields
    <3>3. QED
      BY <2>4, <2>11, <2>13, <2>14, <2>15, <3>2, Zenon DEF Resized
  <2>17. ~w /\ w \in BOOLEAN /\ t \in Tabs
    BY <2>10, <2>14, <2>15, HoldsType DEF Repeats
  <2>18. /\ r \in CacheRec /\ r.lru = k /\ r.bits = bits /\ r.tab = t /\ r.disk = f.disk /\ ~r.aborted
    BY <2>3, <2>8, <2>12, <2>16, <2>17 DEF CacheRec
  <2>19. Len(k) <= 2^bits
    BY <1>0, <2>2, <2>4, <2>5, <2>7
  <2>20. Fits(c.lru, bits) => N = Len(l)
    BY <1>0, <2>2, <2>4, <2>5 DEF Fits
  <2>21. N = Len(l) => k = l
    <3>1. l = [i \in 1 .. Len(l) |-> l[i]] /\ k = [i \in 1 .. Len(k) |-> k[i]]
      BY <2>8, LenProperties
    <3>2. QED
      BY <2>7, <3>1
  <2>22. Written(k, f.disk, lv)
    <3>1. CASE Fits(c.lru, bits)
      BY <2>3, <2>4, <2>20, <2>21, <3>1
    <3>2. CASE Ordered(c.lru, 1)
      BY <2>2, <3>2 DEF Written, Clean
    <3>3. QED
      BY <3>1, <3>2 DEF MayResize
  <2>23. GoodCache(r, lv, lk, st, p)
    BY <2>7, <2>10, <2>15, <2>18, <2>19, <2>22 DEF GoodCache
  <2>24. Shrinks(k, c.lru)
    <3>1. /\ \A i \in 1 .. Len(k) : i \in 1 .. Len(l) /\ Same(l[i], c.lru[i]) /\ k[i] = l[i]
          /\ Len(k) <= Len(c.lru)
      BY <1>0, <2>2, <2>4, <2>5, <2>7 DEF Shrinks
    <3>2. QED
      BY <2>8, <3>1 DEF Shrinks
  <2>25. QED
    BY <2>2, <2>4, <2>7, <2>18, <2>20, <2>21, <2>23, <2>24 DEF SameLength
<1>3. QED
  BY <1>1, <1>2


-----------------------------------------------------------------------------
(* A new element. *)

\* What the operators below read of the state.
Settings ==
    cache_auto \in BOOLEAN /\ dir_bits \in Nat /\ dir_bits <= MaxDirBits /\ mode \in Modes

LEMMA ModeType ==
    ASSUME SoundModes, Settings
    PROVE  /\ mode.resize \in BOOLEAN /\ mode.stale_slot \in BOOLEAN /\ mode.gap = FALSE
           /\ mode.resize => mode.stale_slot = FALSE
<1>1. mode \in [resize : BOOLEAN, stale_slot : BOOLEAN, gap : BOOLEAN]
  BY CacheAssumption DEF Settings
<1>2. ~mode.gap /\ ~(mode.resize /\ mode.stale_slot)
  BY DEF SoundModes, Settings
<1>3. QED
  BY <1>1, <1>2

LEMMA ElemNewCache ==
    ASSUME NEW c, NEW lv, NEW lk, NEW st, NEW p, GoodCache(c, lv, lk, st, p), NEW r, r = ElemNew(c)
    PROVE  /\ GoodCache(r, lv, lk, st, p) /\ r.lru = c.lru /\ r.bits = c.bits /\ r.tab = c.tab
           /\ r.disk = c.disk
<1>1. c \in CacheRec
  BY DEF GoodCache
<1>2. CASE c.avail > 0
  <2>1. PICK v \in Nat : v = c.avail - 1
    BY <1>1, <1>2 DEF CacheRec
  <2>2. r = [c EXCEPT !.avail = v]
    BY <1>2, <2>1 DEF ElemNew
  <2>3. r \in CacheRec /\ r.lru = c.lru /\ r.bits = c.bits /\ r.tab = c.tab /\ r.disk = c.disk
        /\ r.aborted = c.aborted
    BY <1>1, <2>2 DEF CacheRec
  <2>4. QED
    BY <2>3 DEF GoodCache
<1>3. CASE ~(c.avail > 0)
  BY <1>3 DEF ElemNew
<1>4. QED
  BY <1>2, <1>3

Roomy(r, c) == Len(r.lru) < 2^r.bits /\ (Len(r.lru) = Len(c.lru) \/ Len(r.lru) >= 3)

\* Room is made for a new element, and nothing that is needed is lost: the first three
\* elements stay, whatever is thrown out.
LEMMA RoomCache ==
    ASSUME SoundModes, Settings,
           NEW c, NEW lv \in SUBSET Adr, NEW lk, NEW st, st = mode.stale_slot, NEW p \in Nat,
           GoodCache(c, lv, lk, st, p), NEW r, r = MakeRoom(c)
    PROVE  GoodCache(r, lv, lk, st, p) /\ Shrinks(r.lru, c.lru) /\ Roomy(r, c)
<1>0. /\ c \in CacheRec /\ GoodList(c.lru, lv, lk, st, p) /\ Len(c.lru) <= 2^c.bits
      /\ c.lru \in Seq(E) /\ Len(c.lru) \in Nat /\ c.bits \in CacheBits
  BY LenProperties DEF GoodCache, GoodList, CacheRec
<1>1. PICK b \in CacheBits, M \in Nat, L \in Nat :
        b = c.bits /\ M = 2^b /\ M >= 4 /\ L = Len(c.lru) /\ L <= M /\ b \in Nat
  BY <1>0, IndexFacts
<1>2. Shrinks(c.lru, c.lru)
  BY <1>0 DEF Shrinks, Same
<1>3. CASE ~Full(c)
  <2>1. r = c
    BY <1>3 DEF MakeRoom
  <2>2. L < M
    BY <1>1, <1>3 DEF Full
  <2>3. QED
    BY <1>1, <1>2, <2>1, <2>2 DEF Roomy
<1>4. CASE Full(c) /\ Grows(c)
  <2>1. r = Resize(c, b + 1)
    BY <1>1, <1>4 DEF MakeRoom
  <2>2. b < MaxDirBits
    <3>1. b < dir_bits /\ dir_bits \in Nat /\ dir_bits <= MaxDirBits /\ MaxDirBits \in Nat
      BY <1>1, <1>4, CacheAssumption DEF Grows, Settings
    <3>2. QED
      BY <1>1, <3>1
  <2>3. PICK g \in CacheBits : g = b + 1
    BY <2>2, CacheAssumption
  <2>4. 2^g = 2 * M /\ L <= 2^g
    <3>1. 2^(b + 1) = 2 * 2^b
      BY <2>3, IndexFacts
    <3>2. 2^g = 2 * M
      BY <1>1, <2>3, <3>1
    <3>3. QED
      BY <1>1, <3>2
  <2>5. AllChained(c.lru)
    <3>1. st = FALSE
      BY <1>4, ModeType DEF Grows
    <3>2. QED
      BY <1>0, <3>1 DEF GoodList, Chained, AllChained
  <2>6. /\ GoodCache(r, lv, lk, st, p) /\ r.bits = g /\ Shrinks(r.lru, c.lru)
        /\ Len(r.lru) = Len(c.lru)
    <3>1. Fits(c.lru, g) /\ MayResize(c.lru, g) /\ r = Resize(c, g)
      BY <1>1, <2>1, <2>3, <2>4 DEF Fits, MayResize
    <3>2. GoodCache(r, lv, lk, st, p) /\ r.bits = g /\ Shrinks(r.lru, c.lru)
          /\ (Fits(c.lru, g) => SameLength(r.lru, c.lru))
      BY <2>5, <3>1, ResizeCache
    <3>3. QED
      BY <3>1, <3>2 DEF SameLength
  <2>7. L < 2^g
    BY <1>1, <2>4
  <2>8. QED
    BY <1>1, <2>6, <2>7 DEF Roomy
<1>5. CASE Full(c) /\ ~Grows(c)
  <2>1. r = LruFree(c)
    BY <1>5 DEF MakeRoom
  <2>2. L = M
    BY <1>1, <1>5 DEF Full
  <2>3. c.lru # <<>>
    <3>1. Len(c.lru) # 0
      BY <1>1, <2>2
    <3>2. QED
      BY <1>0, <3>1, LenProperties
  <2>4. GoodCache(r, lv, lk, st, p) /\ r.bits = b /\ Shrinks(r.lru, c.lru) /\ Len(r.lru) = L - 1
    BY <1>1, <2>1, <2>3, EvictCache
  <2>5. Len(r.lru) < M /\ Len(r.lru) >= 3
    BY <1>1, <2>2, <2>4
  <2>6. QED
    BY <1>1, <2>4, <2>5 DEF Roomy
<1>6. QED
  BY <1>3, <1>4, <1>5

\* The element of address a is new at position pos, and others are where they were before.
Added(n, l, a, pos) ==
    /\ pos <= Len(n)
    /\ n[pos].adr = a /\ ~n[pos].changed
    /\ \A k \in 1 .. pos - 1 : Same(n[k], l[k])
    /\ \A k \in pos + 1 .. Len(n) : k - 1 \in 1 .. Len(l) /\ Same(n[k], l[k - 1])

AddShape(x, c, a, pos, lost, r, e) ==
    /\ lost \in BOOLEAN
    /\ lost <=> Full(c) /\ ~Grows(c) /\ SlotInLast(c, a)
    /\ r = MakeRoom(ElemNew(c))
    /\ e = Element(a, FALSE, FALSE, ~lost)
    /\ x = [r EXCEPT !.lru = InsertAt(r.lru, pos, e),
                     !.tab = IF lost THEN r.tab ELSE Link(r.tab, Index(a, r.bits), a)]

LEMMA AddFields ==
    ASSUME NEW c, NEW a, NEW pos
    PROVE  \E lost, r, e : AddShape(AddElem(c, a, pos), c, a, pos, lost, r, e)
<1> DEFINE lost == Full(c) /\ ~Grows(c) /\ SlotInLast(c, a)
           r == MakeRoom(ElemNew(c))
           e == Element(a, FALSE, FALSE, ~lost)
<1>1. AddElem(c, a, pos) =
        [r EXCEPT !.lru = InsertAt(r.lru, pos, e),
                  !.tab = IF lost THEN r.tab ELSE Link(r.tab, Index(a, r.bits), a)]
  BY Zenon DEF AddElem, SlotBits
<1>2. lost \in BOOLEAN
  OBVIOUS
<1>3. AddShape(AddElem(c, a, pos), c, a, pos, lost, r, e)
  BY <1>1, <1>2, Zenon DEF AddShape
<1> HIDE DEF lost, r, e
<1>4. QED
  BY <1>3, Zenon


LEMMA ShrinksInTab ==
    ASSUME NEW n, NEW l \in Seq(E), Shrinks(n, l)
    PROVE  InTab(n) \subseteq InTab(l)
<1>1. Len(n) \in Nat /\ Len(l) \in Nat /\ Len(n) <= Len(l)
  BY LenProperties DEF Shrinks
<1>2. \A k \in 1 .. Len(n) : k \in 1 .. Len(l) /\ Same(n[k], l[k])
  BY <1>1 DEF Shrinks
<1>3. QED
  BY <1>2 DEF InTab, Same

\* A bucket that is added: it has an element at position pos, the others are as they were,
\* and only of the new one it is not known that it is up to date.
LEMMA AddCache ==
    ASSUME SoundModes, Settings,
           NEW c, NEW lv \in SUBSET Adr, NEW lk, NEW st, st = mode.stale_slot, NEW p \in Nat,
           GoodCache(c, lv, lk, st, p), NEW a \in Adr, a \notin InTab(c.lru), Admitted(c, a),
           NEW pos \in 1 .. 3, p <= pos, pos <= Len(c.lru) + 1,
           NEW r, r = AddElem(c, a, pos)
    PROVE  GoodCache(r, lv, lk \cup {a}, st, pos + 1) /\ Added(r.lru, c.lru, a, pos)
<1>a. PICK lost \in BOOLEAN : \E s, e : AddShape(r, c, a, pos, lost, s, e)
  <2>1. PICK lost, s, e : AddShape(r, c, a, pos, lost, s, e)
    BY AddFields, Zenon
  <2>2. lost \in BOOLEAN
    BY <2>1, Zenon DEF AddShape
  <2>3. QED
    BY <2>1, <2>2, Zenon
<1>b. PICK s, e : AddShape(r, c, a, pos, lost, s, e)
  BY <1>a, Zenon
<1>1. /\ lost <=> Full(c) /\ ~Grows(c) /\ SlotInLast(c, a)
      /\ s = MakeRoom(ElemNew(c))
      /\ e = Element(a, FALSE, FALSE, ~lost)
      /\ r = [s EXCEPT !.lru = InsertAt(s.lru, pos, e),
                       !.tab = IF lost THEN s.tab ELSE Link(s.tab, Index(a, s.bits), a)]
  BY <1>b, Zenon DEF AddShape
<1>2. PICK f : f = ElemNew(c)
  OBVIOUS
<1>3. GoodCache(f, lv, lk, st, p) /\ f.lru = c.lru
  BY <1>2, ElemNewCache
<1>4. /\ GoodCache(s, lv, lk, st, p) /\ Shrinks(s.lru, f.lru) /\ Len(s.lru) < 2^s.bits
      /\ Len(s.lru) = Len(f.lru) \/ Len(s.lru) >= 3
  <2>1. s = MakeRoom(f)
    BY <1>1, <1>2
  <2>2. QED
    <3>1. GoodCache(s, lv, lk, st, p) /\ Shrinks(s.lru, f.lru) /\ Roomy(s, f)
      BY <1>3, <2>1, RoomCache
    <3>2. QED
      BY <3>1 DEF Roomy
<1>5. c.lru \in Seq(E) /\ Len(c.lru) \in Nat
  BY LenProperties DEF GoodCache, GoodList
<1>d. PICK m \in Seq(E), b \in CacheBits, d \in [Adr -> BOOLEAN] :
        m = s.lru /\ b = s.bits /\ d = s.disk /\ Len(m) \in Nat
  <2>1. s \in CacheRec
    BY <1>4 DEF GoodCache
  <2>2. s.lru \in Seq(E) /\ s.bits \in CacheBits /\ s.disk \in [Adr -> BOOLEAN]
    BY <2>1 DEF CacheRec
  <2>3. QED
    BY <2>2, LenProperties
<1>6. PICK t : m = s.lru /\ b = s.bits /\ t = s.tab /\ d = s.disk /\ Len(m) \in Nat
  BY <1>d
<1>7. /\ GoodList(m, lv, lk, st, p) /\ Written(m, d, lv) /\ Holds(t, b, InTab(m)) /\ ~s.aborted
      /\ s \in CacheRec
  BY <1>4, <1>6 DEF GoodCache
<1>8. Shrinks(m, c.lru) /\ Len(m) < 2^b /\ (Len(m) = Len(c.lru) \/ Len(m) >= 3)
  BY <1>3, <1>4, <1>6
<1>9. a \notin InTab(m)
  BY <1>5, <1>8, ShrinksInTab
<1>10. lost => st = TRUE
  <2>1. ~InTable(c, a)
    BY LookupFinds
  <2>2. lost => mode.stale_slot
    BY <1>1, <2>1 DEF Admitted
  <2>3. QED
    BY <2>2, ModeType
<1>11. e \in E /\ a = e.adr /\ ~e.changed /\ (e.intab <=> ~lost) /\ (e.intab \/ st = TRUE)
  <2>1. e.intab = ~lost
    BY <1>1 DEF Element
  <2>2. e \in E /\ a = e.adr /\ ~e.changed
    BY <1>1 DEF Element, E
  <2>3. QED
    BY <1>10, <2>1, <2>2
<1>12. pos \in 1 .. Len(m) + 1
  BY <1>5, <1>6, <1>8
<1>13. PICK n : n = InsertAt(m, pos, e)
  OBVIOUS
<1>14. /\ GoodList(n, lv, lk \cup {a}, st, pos + 1)
       /\ e.intab => InTab(n) = InTab(m) \cup {a}
       /\ ~e.intab => InTab(n) = InTab(m)
       /\ Len(n) = Len(m) + 1 /\ n[pos] = e
       /\ \A k \in 1 .. pos - 1 : n[k] = m[k]
       /\ \A k \in pos + 1 .. Len(n) : n[k] = m[k - 1]
  <2>0. PICK next, lx : next = pos + 1 /\ lx = lk \cup {a}
    OBVIOUS
  <2>1. GoodList(n, lv, lx, st, next) /\ Enters(n, m, e) /\ Inserted(n, m, pos, e)
    <3>1. pos \in Nat /\ 1 <= pos /\ pos <= Len(m) + 1
      BY <1>6, <1>12
    <3>2. QED
      <4>1. NewElement(e, a, st)
        BY <1>11 DEF NewElement
      <4>2. QED
        BY <1>7, <1>9, <1>13, <2>0, <3>1, <4>1, InsertGood
  <2>2. /\ e.intab => InTab(n) = InTab(m) \cup {a}
        /\ ~e.intab => InTab(n) = InTab(m)
    BY <1>11, <2>1 DEF Enters
  <2>3. QED
    BY <2>0, <2>1, <2>2 DEF Inserted
<1>15. PICK u : u = IF lost THEN t ELSE Link(t, Index(a, b), a)
  OBVIOUS
<1>16. Holds(u, b, InTab(n))
  <2>1. CASE lost
    BY <1>7, <1>11, <1>14, <1>15, <2>1
  <2>2. CASE ~lost
    <3>1. PICK S \in SUBSET Adr : S = InTab(m)
      BY InTabType
    <3>2. Holds(t, b, S) /\ a \in Adr \ S
      BY <1>7, <1>9, <3>1
    <3>3. u = [t EXCEPT ![Index(a, b)] = Append(@, a)]
      BY <1>15, <2>2 DEF Link
    <3>4. Holds(u, b, S \cup {a})
      BY <3>2, <3>3, HoldsAdd
    <3>5. QED
      BY <1>11, <1>14, <2>2, <3>1, <3>4
  <2>3. QED
    BY <2>1, <2>2
<1>17. u \in Tabs /\ n \in Seq(E)
  BY <1>14, <1>16, HoldsType DEF GoodList
<1>18. r = [s EXCEPT !.lru = n, !.tab = u]
  BY <1>1, <1>6, <1>13, <1>15
<1>19. r \in CacheRec /\ r.lru = n /\ r.tab = u /\ r.bits = b /\ r.disk = d /\ ~r.aborted
  BY <1>6, <1>7, <1>17, <1>18 DEF CacheRec
<1>20. Written(n, d, lv)
  <2>1. SUFFICES ASSUME NEW x \in lv, ~d[x] PROVE \E k \in 1 .. Len(n) : n[k].changed /\ n[k].adr = x
    BY DEF Written
  <2>2. PICK i \in 1 .. Len(m) : m[i].changed /\ m[i].adr = x
    BY <1>7, <2>1 DEF Written
  <2>3. PICK k \in 1 .. Len(n) : n[k] = m[i]
    <3>1. CASE i < pos
      <4>1. i \in 1 .. pos - 1 /\ i \in 1 .. Len(n)
        BY <1>6, <1>14, <3>1
      <4>2. QED
        BY <1>14, <4>1
    <3>2. CASE ~(i < pos)
      <4>1. i + 1 \in pos + 1 .. Len(n) /\ i + 1 \in 1 .. Len(n) /\ (i + 1) - 1 = i
        BY <1>6, <1>14, <3>2
      <4>2. QED
        BY <1>14, <4>1
    <3>3. QED
      BY <3>1, <3>2
  <2>4. QED
    BY <2>2, <2>3
<1>21. Len(n) <= 2^b
  <2>1. 2^b \in Nat
    BY IndexFacts
  <2>2. QED
    BY <1>6, <1>8, <1>14, <2>1
<1>22. GoodCache(r, lv, lk \cup {a}, st, pos + 1)
  BY <1>14, <1>16, <1>19, <1>20, <1>21 DEF GoodCache
<1>23. Added(n, c.lru, a, pos)
  <2>1. \A k \in 1 .. Len(m) : k \in 1 .. Len(c.lru) /\ Same(m[k], c.lru[k])
    BY <1>5, <1>6, <1>8 DEF Shrinks
  <2>2. pos <= Len(n) /\ n[pos].adr = a /\ ~n[pos].changed
    BY <1>6, <1>11, <1>12, <1>14
  <2>3. ASSUME NEW k \in 1 .. pos - 1 PROVE Same(n[k], c.lru[k])
    <3>1. k \in 1 .. Len(m) /\ n[k] = m[k]
      BY <1>6, <1>12, <1>14
    <3>2. QED
      BY <2>1, <3>1
  <2>4. ASSUME NEW k \in pos + 1 .. Len(n) PROVE k - 1 \in 1 .. Len(c.lru) /\ Same(n[k], c.lru[k - 1])
    <3>1. PICK j \in 1 .. Len(m) : j = k - 1
      BY <1>6, <1>12, <1>14
    <3>2. n[k] = m[j]
      BY <1>14, <3>1
    <3>3. j \in 1 .. Len(c.lru) /\ Same(m[j], c.lru[j])
      BY <2>1
    <3>4. QED
      BY <3>1, <3>2, <3>3
  <2>5. QED
    BY <2>2, <2>3, <2>4 DEF Added
<1>24. QED
  BY <1>19, <1>22, <1>23


-----------------------------------------------------------------------------
(* The current bucket. *)

\* An element that may become the current one, in front of list m.
Fitting(e, m, lv, lk, st) ==
    /\ e \in E
    /\ e.adr \in lv /\ e.fresh
    /\ e.intab \/ st = TRUE
    /\ \A k \in 1 .. Len(m) : m[k].intab => m[k].adr # e.adr
    /\ \A k \in 1 .. Len(m) : m[k].changed => e.changed /\ m[k].adr # e.adr

\* The current bucket is up to date, and no lookup finds another element of it.
Held(l, lv) ==
    /\ l # <<>> /\ l[1].adr \in lv /\ l[1].fresh
    /\ \A k \in 2 .. Len(l) : l[k].intab => l[k].adr # l[1].adr

LEMMA PrependGood ==
    ASSUME NEW m, NEW lv, NEW lk, NEW st, NEW p, p = 1, GoodList(m, lv, lk, st, p),
           NEW e, Fitting(e, m, lv, lk, st), NEW n, n = <<e>> \o m
    PROVE  GoodList(n, lv, lk, st, p) /\ Enters(n, m, e) /\ Held(n, lv) /\ Inserted(n, m, 1, e)
<1>1. m \in Seq(E) /\ Len(m) \in Nat /\ e \in E
  BY LenProperties DEF GoodList, Fitting
<1>2. /\ n \in Seq(E) /\ Len(n) = Len(m) + 1 /\ n[1] = e
      /\ \A k \in 2 .. Len(n) : n[k] = m[k - 1]
  BY <1>1, PrependIs
<1>3. /\ e.adr \in lv /\ e.fresh /\ (e.intab \/ st = TRUE)
      /\ \A k \in 1 .. Len(m) : m[k].intab => m[k].adr # e.adr
      /\ \A k \in 1 .. Len(m) : m[k].changed => e.changed /\ m[k].adr # e.adr
  BY DEF Fitting
<1>4. ASSUME NEW k \in 1 .. Len(n) PROVE (k = 1 /\ n[k] = e) \/ (k - 1 \in 1 .. Len(m) /\ n[k] = m[k - 1])
  <2>1. CASE k = 1
    BY <1>2, <2>1
  <2>2. CASE k # 1
    BY <1>1, <1>2, <2>2
  <2>3. QED
    BY <2>1, <2>2
<1>5. Unique(n)
  <2>1. SUFFICES ASSUME NEW i \in 1 .. Len(n), NEW j \in 1 .. Len(n),
                        n[i].intab, n[j].intab, n[i].adr = n[j].adr
                 PROVE  i = j
    BY DEF Unique
  <2>2. CASE i = 1 \/ j = 1
    BY <1>3, <1>4, <2>1, <2>2
  <2>3. CASE i # 1 /\ j # 1
    <3>1. PICK x \in 1 .. Len(m), y \in 1 .. Len(m) : x = i - 1 /\ y = j - 1 /\ n[i] = m[x] /\ n[j] = m[y]
      BY <1>4, <2>3
    <3>2. x = y
      BY <2>1, <3>1 DEF GoodList, Unique
    <3>3. QED
      BY <1>1, <1>2, <3>1, <3>2
  <2>4. QED
    BY <2>2, <2>3
<1>6. Ordered(n, p)
  <2>1. SUFFICES ASSUME NEW i \in 1 .. Len(n), NEW j \in 1 .. Len(n), i < j, n[j].changed
                 PROVE  n[i].changed
    BY DEF Ordered
  <2>2. j # 1
    BY <1>1, <1>2, <2>1
  <2>3. PICK y \in 1 .. Len(m) : y = j - 1 /\ n[j] = m[y]
    BY <1>4, <2>2
  <2>4. CASE i = 1
    BY <1>2, <1>3, <2>1, <2>3, <2>4
  <2>5. CASE i # 1
    <3>1. PICK x \in 1 .. Len(m) : x = i - 1 /\ n[i] = m[x]
      BY <1>4, <2>5
    <3>2. p <= x /\ x < y
      BY <1>1, <1>2, <2>1, <2>3, <3>1
    <3>3. QED
      BY <2>1, <2>3, <3>1, <3>2 DEF GoodList, Ordered
  <2>6. QED
    BY <2>4, <2>5
<1>7. ChangedAre(n, lv)
  <2>1. ASSUME NEW i \in 1 .. Len(n), n[i].changed PROVE n[i].adr \in lv /\ n[i].fresh
    BY <1>3, <1>4, <2>1 DEF GoodList, ChangedAre
  <2>2. ASSUME NEW i \in 1 .. Len(n), NEW j \in 1 .. Len(n),
               n[i].changed, n[j].changed, n[i].adr = n[j].adr
        PROVE  i = j
    <3>1. CASE i = 1 \/ j = 1
      BY <1>3, <1>4, <2>2, <3>1
    <3>2. CASE i # 1 /\ j # 1
      <4>1. PICK x \in 1 .. Len(m), y \in 1 .. Len(m) : x = i - 1 /\ y = j - 1 /\ n[i] = m[x] /\ n[j] = m[y]
        BY <1>4, <3>2
      <4>2. x = y
        BY <2>2, <4>1 DEF GoodList, ChangedAre
      <4>3. QED
        BY <1>1, <1>2, <4>1, <4>2
    <3>3. QED
      BY <3>1, <3>2
  <2>3. QED
    BY <2>1, <2>2 DEF ChangedAre
<1>8. Current(n, lv, lk)
  <2>1. SUFFICES ASSUME NEW i \in 1 .. Len(n), n[i].intab, n[i].adr \notin lk
                 PROVE  n[i].fresh /\ n[i].adr \in lv
    BY DEF Current
  <2>2. QED
    BY <1>3, <1>4, <2>1 DEF GoodList, Current
<1>9. Chained(n, st)
  <2>1. SUFFICES ASSUME st # TRUE, NEW i \in 1 .. Len(n) PROVE n[i].intab
    BY DEF Chained, AllChained
  <2>2. QED
    BY <1>3, <1>4, <2>1 DEF GoodList, Chained, AllChained
<1>10. Enters(n, m, e)
  <2>1. ASSUME NEW x \in InTab(n) PROVE x \in InTab(m) \/ (e.intab /\ x = e.adr)
    <3>1. PICK i \in 1 .. Len(n) : n[i].intab /\ n[i].adr = x
      BY <2>1 DEF InTab
    <3>2. QED
      BY <1>4, <3>1 DEF InTab
  <2>2. ASSUME NEW x \in InTab(m) PROVE x \in InTab(n)
    <3>1. PICK i \in 1 .. Len(m) : m[i].intab /\ m[i].adr = x
      BY <2>2 DEF InTab
    <3>2. PICK k \in 1 .. Len(n) : k = i + 1 /\ k - 1 = i /\ k \in 2 .. Len(n)
      BY <1>1, <1>2
    <3>3. n[k] = m[i]
      BY <1>2, <3>2
    <3>4. QED
      BY <3>1, <3>3 DEF InTab
  <2>3. e.intab => e.adr \in InTab(n)
    <3>1. 1 \in 1 .. Len(n)
      BY <1>1, <1>2
    <3>2. QED
      BY <1>2, <3>1 DEF InTab
  <2>4. QED
    BY <2>1, <2>2, <2>3 DEF Enters
<1>11. GoodList(n, lv, lk, st, p)
  BY <1>2, <1>5, <1>6, <1>7, <1>8, <1>9 DEF GoodList
<1>12. Held(n, lv)
  <2>1. n # <<>>
    BY <1>1, <1>2
  <2>2. ASSUME NEW k \in 2 .. Len(n), n[k].intab PROVE n[k].adr # e.adr
    <3>1. PICK j \in 1 .. Len(m) : j = k - 1
      BY <1>1, <1>2
    <3>2. n[k] = m[j]
      BY <1>2, <3>1
    <3>3. QED
      BY <1>3, <2>2, <3>2
  <2>3. QED
    BY <1>2, <1>3, <2>1, <2>2 DEF Held
<1>13. Inserted(n, m, 1, e)
  BY <1>1, <1>2 DEF Inserted
<1>14. QED
  BY <1>10, <1>11, <1>12, <1>13

\* What is written stays so when an unchanged element is left out, or any is put in front.
LEMMA WrittenRemove ==
    ASSUME NEW l \in Seq(E), NEW d, NEW lv, Written(l, d, lv), NEW i \in 1 .. Len(l), ~l[i].changed,
           NEW n, n = RemoveAt(l, i)
    PROVE  Written(n, d, lv)
<1>1. /\ n \in Seq(E) /\ Len(n) = Len(l) - 1 /\ Len(l) \in Nat
      /\ \A k \in 1 .. Len(n) : n[k] = l[IF k < i THEN k ELSE k + 1]
  BY RemoveAtIs
<1>2. SUFFICES ASSUME NEW a \in lv, ~d[a] PROVE \E k \in 1 .. Len(n) : n[k].changed /\ n[k].adr = a
  BY DEF Written
<1>3. PICK j \in 1 .. Len(l) : l[j].changed /\ l[j].adr = a /\ j # i
  BY <1>2 DEF Written
<1>4. PICK k \in 1 .. Len(n) : k = IF j < i THEN j ELSE j - 1
  BY <1>1, <1>3
<1>5. (IF k < i THEN k ELSE k + 1) = j
  BY <1>1, <1>3, <1>4
<1>6. n[k] = l[j]
  BY <1>1, <1>5
<1>7. QED
  BY <1>3, <1>6

LEMMA WrittenPrepend ==
    ASSUME NEW m \in Seq(E), NEW d, NEW lv, Written(m, d, lv), NEW e, NEW n, Inserted(n, m, 1, e)
    PROVE  Written(n, d, lv)
<1>1. Len(m) \in Nat /\ Len(n) = Len(m) + 1 /\ \A k \in 2 .. Len(n) : n[k] = m[k - 1]
  BY LenProperties DEF Inserted
<1>2. SUFFICES ASSUME NEW a \in lv, ~d[a] PROVE \E k \in 1 .. Len(n) : n[k].changed /\ n[k].adr = a
  BY DEF Written
<1>3. PICK j \in 1 .. Len(m) : m[j].changed /\ m[j].adr = a
  BY <1>2 DEF Written
<1>4. PICK k \in 1 .. Len(n) : k \in 2 .. Len(n) /\ k - 1 = j
  <2>1. j + 1 \in 1 .. Len(n) /\ j + 1 \in 2 .. Len(n) /\ (j + 1) - 1 = j
    BY <1>1
  <2>2. QED
    BY <2>1
<1>5. n[k] = m[j]
  BY <1>1, <1>4
<1>6. QED
  BY <1>3, <1>5


-----------------------------------------------------------------------------
(* The inductive invariant. *)

IInv ==
    /\ Settings
    /\ live \in SUBSET Adr /\ leaked \in SUBSET Adr /\ leaked \cap live = {}
    /\ pc \in {"idle", "got", "split"}
    /\ GoodCache(Cache, live, leaked, mode.stale_slot, 1)
    /\ pc # "idle" => Held(lru, live)

LEMMA CacheFields ==
    /\ Cache.lru = lru /\ Cache.tab = tab /\ Cache.avail = avail /\ Cache.bits = cache_bits
    /\ Cache.disk = disk /\ Cache.aborted = FALSE
BY DEF Cache

LEMMA CacheNext ==
    ASSUME NEW c \in CacheRec, ~c.aborted, Install(c)
    PROVE  Cache' = c
<1>1. c.aborted = FALSE
  BY DEF CacheRec
<1>2. c = [lru |-> c.lru, tab |-> c.tab, avail |-> c.avail, bits |-> c.bits, disk |-> c.disk,
           aborted |-> c.aborted]
  BY DEF CacheRec
<1>3. Cache' = [lru |-> c.lru, tab |-> c.tab, avail |-> c.avail, bits |-> c.bits, disk |-> c.disk,
                aborted |-> FALSE]
  BY DEF Cache, Install
<1>4. QED
  BY <1>1, <1>2, <1>3

\* What an action must establish that installs cache c.
LEMMA InstallInv ==
    ASSUME NEW c, NEW lv \in SUBSET Adr, NEW lk \in SUBSET Adr, NEW st, lk \cap lv = {},
           GoodCache(c, lv, lk, st, 1), Install(c),
           live' = lv, leaked' = lk, mode' = mode, mode.stale_slot = st,
           Settings', pc' \in {"idle", "got", "split"}, pc' # "idle" => Held(c.lru, lv)
    PROVE  IInv'
<1>1. c \in CacheRec /\ ~c.aborted
  BY DEF GoodCache
<1>2. Cache' = c
  BY <1>1, CacheNext
<1>3. lru' = c.lru
  BY DEF Install
<1>4. GoodCache(Cache', live', leaked', mode'.stale_slot, 1)
  BY <1>2
<1>5. QED
  BY <1>3, <1>4 DEF IInv

LEMMA InitInv == Init => IInv
<1>1. SUFFICES ASSUME Init PROVE IInv
  OBVIOUS
<1>2. PICK b \in CacheBits : cache_bits = b /\ tab = [h \in 0 .. 2^b - 1 |-> <<>>]
  BY <1>1 DEF Init
<1>3. Settings /\ pc = "idle"
  BY <1>1, CacheAssumption DEF Init, Settings
<1>4. live \in SUBSET Adr /\ leaked = {}
  BY <1>1, CacheAssumption DEF Init
<1>5. Holds(tab, b, {})
  BY <1>2, HoldsEmpty
<1>6. tab \in Tabs
  BY <1>5, HoldsType
<1>7. lru = <<>> /\ avail = 0 /\ disk = [x \in Adr |-> TRUE]
  BY <1>1 DEF Init
<1>8. lru \in Seq(E) /\ Len(lru) = 0 /\ disk \in [Adr -> BOOLEAN] /\ avail \in Nat
  BY <1>7
<1>9. Cache \in CacheRec /\ ~Cache.aborted
  BY <1>2, <1>6, <1>8 DEF Cache, CacheRec
<1>10. GoodList(lru, live, leaked, mode.stale_slot, 1)
  BY <1>8 DEF GoodList, Unique, Ordered, ChangedAre, Current, Chained, AllChained
<1>11. InTab(lru) = {}
  BY <1>8 DEF InTab
<1>12. Written(lru, disk, live)
  BY <1>4, <1>7 DEF Written
<1>13. 2^b \in Nat
  BY IndexFacts
<1>14. Len(lru) <= 2^b
  BY <1>8, <1>13
<1>15. GoodCache(Cache, live, leaked, mode.stale_slot, 1)
  BY <1>2, <1>5, <1>9, <1>10, <1>11, <1>12, <1>14, CacheFields DEF GoodCache
<1>16. QED
  BY <1>3, <1>4, <1>15 DEF IInv

\* What a step is proved from, about copies of the variables that it leaves alone.
Parts(c, l, d, lv, lk, st) ==
    /\ l \in Seq(E) /\ d \in [Adr -> BOOLEAN] /\ lv \in SUBSET Adr /\ lk \in SUBSET Adr
    /\ st \in BOOLEAN
    /\ c = Cache /\ c.lru = l /\ c.disk = d /\ l = lru /\ d = disk /\ lv = live /\ lk = leaked
    /\ st = mode.stale_slot
    /\ GoodCache(c, lv, lk, st, 1)
    /\ lk \cap lv = {}
    /\ Settings
    /\ pc # "idle" => Held(l, lv)

LEMMA StateParts ==
    ASSUME SoundModes, IInv
    PROVE  \E c, l, d, lv, lk, st : Parts(c, l, d, lv, lk, st)
<1>1. GoodCache(Cache, live, leaked, mode.stale_slot, 1) /\ Cache.lru = lru /\ Cache.disk = disk
  BY CacheFields DEF IInv
<1>2. lru \in Seq(E) /\ disk \in [Adr -> BOOLEAN]
  BY <1>1 DEF GoodCache, CacheRec
<1>3. mode.stale_slot \in BOOLEAN
  BY ModeType DEF IInv
<1>4. Parts(Cache, lru, disk, live, leaked, mode.stale_slot)
  BY <1>1, <1>2, <1>3 DEF IInv, Parts
<1>5. QED
  BY <1>4

-----------------------------------------------------------------------------
(* The steps. *)

HasRoom(l, bits) == Len(l) < 2^bits

\* Element e can go in front of list m of cache c, to make list n.
Ready(c, m, e, n, lv, lk, st) ==
    /\ c \in CacheRec /\ ~c.aborted
    /\ GoodList(m, lv, lk, st, 1) /\ m = c.lru /\ HasRoom(m, c.bits)
    /\ Fitting(e, m, lv, lk, st)
    /\ n = <<e>> \o m
    /\ Written(n, c.disk, lv)
    /\ Holds(c.tab, c.bits, InTab(n))

LEMMA FrontCache ==
    ASSUME NEW c, NEW m, NEW e, NEW n, NEW lv, NEW lk, NEW st, Ready(c, m, e, n, lv, lk, st),
           NEW r, r = [c EXCEPT !.lru = n]
    PROVE  GoodCache(r, lv, lk, st, 1) /\ r.lru = n
<1>0. /\ c \in CacheRec /\ ~c.aborted
      /\ GoodList(m, lv, lk, st, 1) /\ m = c.lru /\ HasRoom(m, c.bits)
      /\ Fitting(e, m, lv, lk, st)
      /\ n = <<e>> \o m
      /\ Written(n, c.disk, lv)
      /\ Holds(c.tab, c.bits, InTab(n))
  BY DEF Ready
<1>1. PICK p : p = 1
  OBVIOUS
<1>2. GoodList(n, lv, lk, st, p) /\ Enters(n, m, e) /\ Held(n, lv) /\ Inserted(n, m, 1, e)
  <2>1. GoodList(m, lv, lk, st, p) /\ Fitting(e, m, lv, lk, st) /\ n = <<e>> \o m
    BY <1>0, <1>1
  <2>2. QED
    BY <1>1, <2>1, PrependGood
<1>3. n \in Seq(E) /\ m \in Seq(E) /\ Len(n) = Len(m) + 1 /\ Len(m) \in Nat
  BY <1>0, <1>2, LenProperties DEF GoodList, Inserted
<1>4. /\ r \in CacheRec /\ r.lru = n /\ r.tab = c.tab /\ r.bits = c.bits /\ r.disk = c.disk /\ ~r.aborted
  BY <1>0, <1>3 DEF CacheRec
<1>5. Len(n) <= 2^c.bits
  <2>1. c.bits \in CacheBits
    BY <1>0 DEF CacheRec
  <2>2. PICK M \in Nat : M = 2^c.bits
    BY <2>1, IndexFacts
  <2>3. QED
    BY <1>0, <1>3, <2>2 DEF HasRoom
<1>6. QED
  BY <1>0, <1>1, <1>2, <1>4, <1>5 DEF GoodCache

\* A flush of a cache whose list has lost an element that its table still has.
LEMMA FlushPart ==
    ASSUME NEW c \in CacheRec, NEW m, m = c.lru, NEW lv \in SUBSET Adr, NEW lk, NEW st,
           GoodList(m, lv, lk, st, 1), Written(m, c.disk, lv), ~c.aborted, NEW r, r = Flush(c)
    PROVE  /\ GoodList(r.lru, lv, lk, st, 1) /\ Written(r.lru, r.disk, lv)
           /\ r \in CacheRec /\ r.tab = c.tab /\ r.bits = c.bits /\ ~r.aborted
           /\ Shrinks(r.lru, m) /\ SameLength(r.lru, m) /\ InTab(r.lru) = InTab(m)
           /\ Clean(r.lru, r.disk, lv)
<1>1. PICK d \in [Adr -> BOOLEAN] : d = c.disk
  BY DEF CacheRec
<1>a. PICK p \in Nat : p = 1
  OBVIOUS
<1>2. PICK n, e : n = FlushedList(m) /\ e = FlushedDisk(m, d) /\ p = 1
  BY <1>a
<1>3. /\ r.lru = n /\ r.disk = e /\ r = [c EXCEPT !.lru = n, !.disk = e]
      /\ r.tab = c.tab /\ r.bits = c.bits /\ r.aborted = c.aborted
  BY <1>1, <1>2, FlushFields
<1>4. GoodList(m, lv, lk, st, p) /\ Written(m, d, lv) /\ Ordered(m, 1)
  BY <1>1, <1>2 DEF GoodList
<1>5. /\ GoodList(n, lv, lk, st, p) /\ Written(n, e, lv) /\ e \in [Adr -> BOOLEAN]
      /\ Shrinks(n, m) /\ Len(n) = Len(m) /\ InTab(n) = InTab(m)
      /\ Ordered(m, 1) => Clean(n, e, lv)
  BY <1>2, <1>4, FlushGood
<1>6. r \in CacheRec
  BY <1>3, <1>5 DEF CacheRec, GoodList
<1>7. QED
  BY <1>2, <1>3, <1>4, <1>5, <1>6 DEF SameLength

\* The outcome of that flush.
Flushed(r, c, m, lv, lk, st) ==
    /\ GoodList(r.lru, lv, lk, st, 1) /\ Written(r.lru, r.disk, lv)
    /\ r \in CacheRec /\ r.tab = c.tab /\ r.bits = c.bits /\ ~r.aborted
    /\ Shrinks(r.lru, m) /\ SameLength(r.lru, m) /\ InTab(r.lru) = InTab(m)
    /\ Clean(r.lru, r.disk, lv)

Flushable(c, m, lv, lk, st) ==
    /\ c \in CacheRec /\ m = c.lru /\ lv \in SUBSET Adr
    /\ GoodList(m, lv, lk, st, 1) /\ Written(m, c.disk, lv) /\ ~c.aborted

LEMMA FlushOutcome ==
    ASSUME NEW c, NEW m, NEW lv, NEW lk, NEW st, Flushable(c, m, lv, lk, st), NEW r, r = Flush(c)
    PROVE  Flushed(r, c, m, lv, lk, st)
<1>1. /\ c \in CacheRec /\ m = c.lru /\ lv \in SUBSET Adr
      /\ GoodList(m, lv, lk, st, 1) /\ Written(m, c.disk, lv) /\ ~c.aborted
  BY DEF Flushable
<1>2. /\ GoodList(r.lru, lv, lk, st, 1) /\ Written(r.lru, r.disk, lv)
      /\ r \in CacheRec /\ r.tab = c.tab /\ r.bits = c.bits /\ ~r.aborted
      /\ Shrinks(r.lru, m) /\ SameLength(r.lru, m) /\ InTab(r.lru) = InTab(m)
      /\ Clean(r.lru, r.disk, lv)
  BY <1>1, FlushPart
<1>3. QED
  BY <1>2 DEF Flushed

LEMMA GetCachedStep ==
    ASSUME SoundModes, IInv, NEW a \in Adr, GetCached(a)
    PROVE  IInv'
<1>1. PICK cc, l, d, lv, lk, st : Parts(cc, l, d, lv, lk, st)
  BY StateParts
<1>2. /\ l \in Seq(E) /\ d \in [Adr -> BOOLEAN] /\ lv \in SUBSET Adr /\ lk \in SUBSET Adr
      /\ cc = Cache /\ cc.lru = l /\ cc.disk = d /\ l = lru /\ lv = live /\ lk = leaked
      /\ st = mode.stale_slot /\ GoodCache(cc, lv, lk, st, 1) /\ lk \cap lv = {} /\ Settings
  BY <1>1 DEF Parts
<1>3. PICK i : i = PosOf(cc, a)
  OBVIOUS
<1>4. PICK c0 : c0 = [cc EXCEPT !.lru = RemoveAt(l, i)]
  OBVIOUS
<1>5. PICK c : c = FlushBefore(c0, l[i])
  OBVIOUS
<1>6. PICK r : r = [c EXCEPT !.lru = <<l[i]>> \o c.lru]
  OBVIOUS
<1>7. Install(r)
  BY <1>2, <1>3, <1>4, <1>5, <1>6 DEF GetCached
<1>8. /\ a \in lv /\ InTable(cc, a) /\ pc' = "got" /\ live' = lv /\ leaked' = lk /\ mode' = mode
      /\ cache_auto' = cache_auto /\ dir_bits' = dir_bits
  BY <1>2 DEF GetCached
<1>9. Settings'
  BY <1>2, <1>8 DEF Settings
<1>10. i \in 1 .. Len(l) /\ l[i].adr = a /\ l[i].intab
  <2>1. a \in InTab(l)
    BY <1>2, <1>8, LookupFinds
  <2>2. \E j \in 1 .. Len(l) : l[j].adr = a /\ l[j].intab
    BY <2>1 DEF InTab
  <2>3. DOMAIN l = 1 .. Len(l)
    BY <1>2, LenProperties
  <2>4. QED
    BY <1>2, <1>3, <2>2, <2>3 DEF PosOf
<1>11. PICK m, e : m = RemoveAt(l, i) /\ e = l[i]
  OBVIOUS
<1>12. /\ GoodList(l, lv, lk, st, 1) /\ Written(l, d, lv) /\ Unique(l) /\ cc \in CacheRec /\ ~cc.aborted
       /\ Holds(cc.tab, cc.bits, InTab(l)) /\ Len(l) <= 2^cc.bits /\ Ordered(l, 1)
  BY <1>2 DEF GoodCache, GoodList
<1>13. GoodList(m, lv, lk, st, 1)
  <2>1. PICK p \in Nat : p = 1
    OBVIOUS
  <2>2. GoodList(l, lv, lk, st, p) /\ p <= p
    BY <1>12, <2>1
  <2>3. GoodList(m, lv, lk, st, p)
    BY <1>10, <1>11, <2>2, RemoveGood
  <2>4. QED
    BY <2>1, <2>3
<1>14. /\ m \in Seq(E) /\ Len(m) = Len(l) - 1 /\ Len(l) \in Nat
       /\ \A k \in 1 .. Len(m) : m[k] = l[IF k < i THEN k ELSE k + 1]
  BY <1>2, <1>10, <1>11, RemoveAtIs
<1>15. InTab(m) = InTab(l) \ {a} /\ a \in InTab(l)
  <2>1. InTab(m) = IF l[i].intab THEN InTab(l) \ {l[i].adr} ELSE InTab(l)
    BY <1>2, <1>10, <1>11, <1>12, RemoveInTab
  <2>2. QED
    BY <1>10, <2>1 DEF InTab
<1>16. c0 \in CacheRec /\ c0.lru = m /\ c0.disk = d /\ c0.tab = cc.tab /\ c0.bits = cc.bits /\ ~c0.aborted
  BY <1>2, <1>4, <1>11, <1>12, <1>14 DEF CacheRec
<1>17. e \in E /\ e.adr = a /\ e.intab /\ e.fresh
  <2>1. e \in E
    BY <1>2, <1>10, <1>11, ElementOfSeq
  <2>2. a \notin lk
    BY <1>2, <1>8
  <2>3. QED
    BY <1>10, <1>11, <1>12, <2>1, <2>2 DEF GoodList, Current
<1>18. \A k \in 1 .. Len(m) : m[k].intab => m[k].adr # a
  BY <1>15 DEF InTab
<1>19. Len(m) < 2^cc.bits
  <2>1. cc.bits \in CacheBits
    BY <1>12 DEF CacheRec
  <2>2. PICK M \in Nat : M = 2^cc.bits
    BY <2>1, IndexFacts
  <2>3. QED
    BY <1>12, <1>14, <2>2
<1>20. CASE e.changed
  <2>1. c = c0
    BY <1>5, <1>11, <1>20 DEF FlushBefore
  <2>2. Fitting(e, m, lv, lk, st)
    <3>1. ASSUME NEW k \in 1 .. Len(m), m[k].changed PROVE m[k].adr # a
      <4>1. PICK j \in 1 .. Len(l) : j # i /\ m[k] = l[j]
        <5>1. (IF k < i THEN k ELSE k + 1) \in 1 .. Len(l) /\ (IF k < i THEN k ELSE k + 1) # i
          BY <1>10, <1>14
        <5>2. QED
          BY <1>14, <5>1
      <4>2. QED
        BY <1>10, <1>11, <1>12, <1>20, <3>1, <4>1 DEF GoodList, ChangedAre
    <3>2. QED
      BY <1>8, <1>17, <1>18, <1>20, <3>1 DEF Fitting
  <2>3. PICK n : n = <<e>> \o m
    OBVIOUS
  <2>4. PICK p : p = 1
    OBVIOUS
  <2>5. GoodList(n, lv, lk, st, p) /\ Enters(n, m, e) /\ Held(n, lv) /\ Inserted(n, m, 1, e)
    BY <1>13, <2>2, <2>3, <2>4, PrependGood
  <2>6. InTab(n) = InTab(l)
    BY <1>15, <1>17, <2>5 DEF Enters
  <2>7. Written(n, d, lv)
    <3>1. /\ Len(n) = Len(m) + 1 /\ n[1] = e
          /\ \A k \in 2 .. Len(n) : n[k] = m[k - 1]
      BY <2>5 DEF Inserted
    <3>2. SUFFICES ASSUME NEW x \in lv, ~d[x] PROVE \E k \in 1 .. Len(n) : n[k].changed /\ n[k].adr = x
      BY DEF Written
    <3>3. PICK j \in 1 .. Len(l) : l[j].changed /\ l[j].adr = x
      BY <1>12, <3>2 DEF Written
    <3>4. CASE j = i
      <4>1. 1 \in 1 .. Len(n)
        BY <1>14, <3>1
      <4>2. QED
        BY <1>11, <3>1, <3>3, <3>4, <4>1
    <3>5. CASE j # i
      <4>1. PICK k \in 1 .. Len(m) : k = IF j < i THEN j ELSE j - 1
        BY <1>10, <1>14, <3>5
      <4>2. (IF k < i THEN k ELSE k + 1) = j
        BY <1>10, <1>14, <3>5, <4>1
      <4>3. m[k] = l[j]
        BY <1>14, <4>2
      <4>4. PICK h \in 1 .. Len(n) : h \in 2 .. Len(n) /\ h - 1 = k
        <5>1. k + 1 \in 1 .. Len(n) /\ k + 1 \in 2 .. Len(n) /\ (k + 1) - 1 = k
          BY <1>14, <3>1
        <5>2. QED
          BY <5>1
      <4>5. n[h] = l[j]
        BY <3>1, <4>3, <4>4
      <4>6. QED
        BY <3>3, <4>5
    <3>6. QED
      BY <3>4, <3>5
  <2>8. r = [c0 EXCEPT !.lru = n]
    BY <1>6, <1>11, <1>16, <2>1, <2>3
  <2>9. GoodCache(r, lv, lk, st, 1) /\ r.lru = n
    <3>1. /\ Holds(c0.tab, c0.bits, InTab(n)) /\ HasRoom(m, c0.bits) /\ Written(n, c0.disk, lv)
          /\ m = c0.lru /\ ~c0.aborted /\ c0 \in CacheRec
      BY <1>12, <1>16, <1>19, <2>6, <2>7 DEF HasRoom
    <3>2. Ready(c0, m, e, n, lv, lk, st)
      BY <1>13, <2>2, <2>3, <3>1 DEF Ready
    <3>3. QED
      BY <2>8, <3>2, FrontCache
  <2>10. QED
    BY <1>2, <1>7, <1>8, <1>9, <2>5, <2>9, InstallInv
<1>21. CASE ~e.changed
  <2>1. c = Flush(c0)
    BY <1>5, <1>11, <1>21 DEF FlushBefore
  <2>2. Written(m, d, lv)
    BY <1>2, <1>10, <1>11, <1>12, <1>21, WrittenRemove
  <2>3. PICK f : f = c.lru
    OBVIOUS
  <2>4. /\ GoodList(f, lv, lk, st, 1) /\ Written(f, c.disk, lv)
        /\ c \in CacheRec /\ c.tab = c0.tab /\ c.bits = c0.bits /\ ~c.aborted
        /\ Shrinks(f, m) /\ SameLength(f, m) /\ InTab(f) = InTab(m)
        /\ Clean(f, c.disk, lv)
    <3>1. m = c0.lru /\ Written(m, c0.disk, lv)
      BY <1>16, <2>2
    <3>2. QED
      BY <1>2, <1>13, <1>16, <2>1, <2>3, <3>1, FlushPart, SMTT(30)
  <2>5. Fitting(e, f, lv, lk, st)
    <3>1. \A k \in 1 .. Len(f) : f[k].intab => f[k].adr # a
      BY <1>15, <2>4 DEF InTab
    <3>2. \A k \in 1 .. Len(f) : ~f[k].changed
      BY <2>4 DEF Clean
    <3>3. QED
      BY <1>8, <1>17, <3>1, <3>2 DEF Fitting
  <2>6. PICK n, p : n = <<e>> \o f /\ p = 1
    OBVIOUS
  <2>7. GoodList(n, lv, lk, st, p) /\ Enters(n, f, e) /\ Held(n, lv) /\ Inserted(n, f, 1, e)
    BY <2>4, <2>5, <2>6, PrependGood
  <2>8. InTab(n) = InTab(l)
    BY <1>15, <1>17, <2>4, <2>7 DEF Enters
  <2>9. Written(n, c.disk, lv)
    BY <2>4 DEF Clean, Written
  <2>10. r = [c EXCEPT !.lru = n]
    BY <1>6, <1>11, <2>3, <2>6
  <2>11. GoodCache(r, lv, lk, st, 1) /\ r.lru = n
    <3>1. Holds(c.tab, c.bits, InTab(n)) /\ HasRoom(f, c.bits) /\ ~c.aborted /\ c \in CacheRec
      BY <1>12, <1>16, <1>19, <2>4, <2>8 DEF SameLength, HasRoom
    <3>2. GoodList(f, lv, lk, st, 1) /\ f = c.lru /\ n = <<e>> \o f
      BY <2>3, <2>4, <2>6
    <3>3. Ready(c, f, e, n, lv, lk, st)
      BY <2>5, <2>9, <3>1, <3>2 DEF Ready
    <3>4. QED
      BY <2>10, <3>3, FrontCache
  <2>12. QED
    BY <1>2, <1>7, <1>8, <1>9, <2>7, <2>11, InstallInv
<1>22. QED
  BY <1>20, <1>21


\* An address that no lookup finds need not be set apart.
LEMMA ForgetAddress ==
    ASSUME NEW m, NEW lv, NEW lk, NEW st, NEW p, NEW a, NEW lx, lx = lk \cup {a},
           GoodList(m, lv, lx, st, p), a \notin InTab(m)
    PROVE  GoodList(m, lv, lk, st, p)
<1>1. ASSUME NEW i \in 1 .. Len(m), m[i].intab, m[i].adr \notin lk PROVE m[i].fresh /\ m[i].adr \in lv
  <2>1. m[i].adr # a
    BY <1>1 DEF InTab
  <2>2. QED
    BY <1>1, <2>1 DEF GoodList, Current
<1>2. Current(m, lv, lk)
  BY <1>1 DEF Current
<1>3. QED
  BY <1>2 DEF GoodList

LEMMA TailIs ==
    ASSUME NEW S, NEW s \in Seq(S), 1 <= Len(s)
    PROVE  Tail(s) = RemoveAt(s, 1)
<1>1. s # <<>> /\ Len(s) \in Nat
  BY LenProperties
<1>2. PICK t, u : t = Tail(s) /\ u = RemoveAt(s, 1)
  OBVIOUS
<1>3. t \in Seq(S) /\ Len(t) = Len(s) - 1 /\ \A k \in 1 .. Len(t) : t[k] = s[k + 1]
  BY <1>1, <1>2, HeadTailProperties
<1>4. PICK i \in 1 .. Len(s) : i = 1
  BY <1>1
<1>5. u \in Seq(S) /\ Len(u) = Len(s) - 1 /\ \A k \in 1 .. Len(u) : u[k] = s[IF k < i THEN k ELSE k + 1]
  BY <1>2, <1>4, RemoveAtIs
<1>6. \A k \in 1 .. Len(u) : u[k] = s[k + 1]
  <2>1. \A k \in 1 .. Len(u) : ~(k < i)
    BY <1>1, <1>4, <1>5
  <2>2. QED
    BY <1>5, <2>1
<1>7. t = u
  BY <1>3, <1>5, <1>6, SeqEqual
<1>8. QED
  BY <1>2, <1>7

LEMMA GetNewStep ==
    ASSUME SoundModes, IInv, NEW a \in Adr, GetNew(a)
    PROVE  IInv'
<1>1. PICK cc, l, d, lv, lk, st : Parts(cc, l, d, lv, lk, st)
  BY StateParts
<1>2. /\ l \in Seq(E) /\ d \in [Adr -> BOOLEAN] /\ lv \in SUBSET Adr /\ lk \in SUBSET Adr
      /\ cc = Cache /\ cc.lru = l /\ cc.disk = d /\ l = lru /\ lv = live /\ lk = leaked
      /\ st = mode.stale_slot /\ GoodCache(cc, lv, lk, st, 1) /\ lk \cap lv = {} /\ Settings
  BY <1>1 DEF Parts
<1>3. PICK g : g = AddElem(cc, a, 1)
  OBVIOUS
<1>4. PICK c0 : c0 = [g EXCEPT !.lru = Tail(g.lru)]
  OBVIOUS
<1>5. PICK c : c = FlushBefore(c0, g.lru[1])
  OBVIOUS
<1>6. PICK e : e = [g.lru[1] EXCEPT !.fresh = c.disk[a]]
  OBVIOUS
<1>7. PICK r : r = [c EXCEPT !.lru = <<e>> \o c.lru]
  OBVIOUS
<1>8. Install(r) /\ pc' = IF g.aborted THEN "aborted" ELSE "got"
  BY <1>2, <1>3, <1>4, <1>5, <1>6, <1>7 DEF GetNew
<1>9. /\ a \in lv /\ ~InTable(cc, a) /\ Admitted(cc, a) /\ live' = lv /\ leaked' = lk /\ mode' = mode
      /\ cache_auto' = cache_auto /\ dir_bits' = dir_bits
  BY <1>2 DEF GetNew
<1>10. Settings'
  BY <1>2, <1>9 DEF Settings
<1>11. a \notin InTab(l) /\ a \notin lk
  BY <1>2, <1>9, LookupFinds
<1>12. PICK lx \in SUBSET Adr : lx = lk \cup {a}
  BY <1>2
<1>13. GoodCache(g, lv, lx, st, 2) /\ Added(g.lru, l, a, 1)
  <2>1. PICK p \in Nat, pos \in 1 .. 3 : p = 1 /\ pos = 1
    OBVIOUS
  <2>2. p <= pos /\ pos <= Len(cc.lru) + 1
    BY <1>2, <2>1, LenProperties
  <2>3. GoodCache(cc, lv, lk, st, p) /\ a \notin InTab(cc.lru) /\ g = AddElem(cc, a, pos)
    BY <1>2, <1>3, <1>11, <2>1
  <2>4. GoodCache(g, lv, lk \cup {a}, st, pos + 1) /\ Added(g.lru, cc.lru, a, pos)
    BY <1>2, <1>9, <2>2, <2>3, AddCache
  <2>5. QED
    BY <1>2, <1>12, <2>1, <2>4
<1>14. PICK gl \in Seq(E) : gl = g.lru /\ Len(gl) \in Nat
  BY <1>13, LenProperties DEF GoodCache, CacheRec
<1>15. /\ GoodList(gl, lv, lx, st, 2) /\ Written(gl, g.disk, lv) /\ Unique(gl) /\ g \in CacheRec
       /\ ~g.aborted /\ Holds(g.tab, g.bits, InTab(gl)) /\ Len(gl) <= 2^g.bits
  BY <1>13, <1>14 DEF GoodCache, GoodList
<1>16. /\ 1 <= Len(gl) /\ gl[1].adr = a /\ ~gl[1].changed
       /\ \A k \in 2 .. Len(gl) : k - 1 \in 1 .. Len(l) /\ Same(gl[k], l[k - 1])
  BY <1>13, <1>14 DEF Added
<1>17. PICK i \in 1 .. Len(gl) : i = 1
  BY <1>14, <1>16
<1>18. PICK m : m = RemoveAt(gl, i)
  OBVIOUS
<1>19. Tail(g.lru) = m
  BY <1>14, <1>16, <1>17, <1>18, TailIs
<1>20. /\ m \in Seq(E) /\ Len(m) = Len(gl) - 1
       /\ \A k \in 1 .. Len(m) : m[k] = gl[IF k < i THEN k ELSE k + 1]
  BY <1>18, RemoveAtIs
<1>21. GoodList(m, lv, lx, st, 1)
  <2>1. PICK p \in Nat, q \in Nat : p = 2 /\ q = 1
    OBVIOUS
  <2>2. GoodList(gl, lv, lx, st, p) /\ p = q + 1 /\ i < p
    BY <1>15, <1>17, <2>1
  <2>3. GoodList(m, lv, lx, st, q)
    BY <1>18, <2>2, RemoveGood
  <2>4. QED
    BY <2>1, <2>3
<1>22. a \notin InTab(m)
  <2>1. SUFFICES ASSUME NEW k \in 1 .. Len(m), m[k].intab, m[k].adr = a PROVE FALSE
    BY DEF InTab
  <2>2. PICK h \in 2 .. Len(gl) : h = k + 1
    BY <1>14, <1>20
  <2>3. m[k] = gl[h]
    <3>1. ~(k < i)
      BY <1>14, <1>17, <1>20
    <3>2. QED
      BY <1>20, <2>2, <3>1
  <2>4. PICK j \in 1 .. Len(l) : j = h - 1 /\ Same(gl[h], l[j])
    BY <1>16
  <2>5. l[j].intab /\ l[j].adr = a
    BY <2>1, <2>3, <2>4 DEF Same
  <2>6. QED
    BY <1>11, <2>5 DEF InTab
<1>23. InTab(m) = IF gl[1].intab THEN InTab(gl) \ {a} ELSE InTab(gl)
  BY <1>15, <1>16, <1>17, <1>18, RemoveInTab
<1>24. Written(m, g.disk, lv)
  BY <1>15, <1>16, <1>17, <1>18, WrittenRemove
<1>25. /\ c0 \in CacheRec /\ c0.lru = m /\ c0.disk = g.disk /\ c0.tab = g.tab /\ c0.bits = g.bits
       /\ ~c0.aborted
  BY <1>4, <1>15, <1>19, <1>20 DEF CacheRec
<1>26. c = Flush(c0)
  BY <1>5, <1>14, <1>16 DEF FlushBefore
<1>27. PICK f : f = c.lru
  OBVIOUS
<1>28. /\ GoodList(f, lv, lx, st, 1) /\ Written(f, c.disk, lv)
       /\ c \in CacheRec /\ c.tab = c0.tab /\ c.bits = c0.bits /\ ~c.aborted
       /\ Shrinks(f, m) /\ SameLength(f, m) /\ InTab(f) = InTab(m)
       /\ Clean(f, c.disk, lv)
  <2>1. m = c0.lru /\ Written(m, c0.disk, lv) /\ c0 \in CacheRec /\ ~c0.aborted
    BY <1>24, <1>25
  <2>2. GoodList(m, lv, lx, st, 1) /\ lv \in SUBSET Adr
    BY <1>2, <1>21
  <2>3. Flushable(c0, m, lv, lx, st)
    BY <2>1, <2>2 DEF Flushable
  <2>4. Flushed(c, c0, m, lv, lx, st)
    BY <1>26, <2>3, FlushOutcome
  <2>5. QED
    BY <1>27, <2>4 DEF Flushed
<1>29. GoodList(f, lv, lk, st, 1)
  <2>1. a \notin InTab(f)
    BY <1>22, <1>28
  <2>2. QED
    BY <1>12, <1>28, <2>1, ForgetAddress
<1>30. c.disk[a] = TRUE
  <2>1. c.disk \in [Adr -> BOOLEAN]
    BY <1>28 DEF CacheRec
  <2>2. c.disk[a]
    BY <1>9, <1>28 DEF Clean
  <2>3. QED
    BY <2>1, <2>2
<1>31. e \in E /\ e.adr = a /\ e.fresh /\ e.intab = gl[1].intab /\ gl[1] \in E
  <2>1. PICK x \in E : x = gl[1]
    BY <1>17, ElementOfSeq
  <2>2. e = [x EXCEPT !.fresh = TRUE]
    BY <1>6, <1>14, <1>30, <2>1
  <2>3. QED
    BY <1>16, <2>1, <2>2 DEF E
<1>32. gl[1].intab \/ st = TRUE
  <2>1. Chained(gl, st)
    BY <1>15 DEF GoodList
  <2>2. QED
    BY <1>17, <2>1 DEF Chained, AllChained
<1>33. Fitting(e, f, lv, lk, st)
  <2>1. \A k \in 1 .. Len(f) : f[k].intab => f[k].adr # a
    BY <1>22, <1>28 DEF InTab
  <2>2. \A k \in 1 .. Len(f) : ~f[k].changed
    BY <1>28 DEF Clean
  <2>3. QED
    BY <1>9, <1>31, <1>32, <2>1, <2>2 DEF Fitting
<1>34. PICK n, p : n = <<e>> \o f /\ p = 1
  OBVIOUS
<1>35. GoodList(n, lv, lk, st, p) /\ Enters(n, f, e) /\ Held(n, lv) /\ Inserted(n, f, 1, e)
  BY <1>29, <1>33, <1>34, PrependGood
<1>36. InTab(n) = InTab(gl)
  <2>1. gl[1].intab => a \in InTab(gl)
    BY <1>16, <1>17 DEF InTab
  <2>2. QED
    BY <1>23, <1>28, <1>31, <1>35, <2>1 DEF Enters
<1>37. Written(n, c.disk, lv)
  BY <1>28 DEF Clean, Written
<1>38. r = [c EXCEPT !.lru = n]
  BY <1>7, <1>27, <1>34
<1>39. HasRoom(f, c.bits)
  <2>1. g.bits \in CacheBits
    BY <1>15 DEF CacheRec
  <2>2. PICK M \in Nat : M = 2^g.bits
    BY <2>1, IndexFacts
  <2>3. Len(f) = Len(gl) - 1 /\ c.bits = g.bits
    BY <1>20, <1>25, <1>28 DEF SameLength
  <2>4. QED
    BY <1>14, <1>15, <2>2, <2>3 DEF HasRoom
<1>40. GoodCache(r, lv, lk, st, 1) /\ r.lru = n
  <2>1. Holds(c.tab, c.bits, InTab(n))
    BY <1>15, <1>25, <1>28, <1>36
  <2>2. Ready(c, f, e, n, lv, lk, st)
    BY <1>27, <1>28, <1>29, <1>33, <1>34, <1>37, <1>39, <2>1 DEF Ready
  <2>3. QED
    BY <1>38, <2>2, FrontCache
<1>41. pc' = "got"
  BY <1>8, <1>15
<1>42. QED
  BY <1>2, <1>8, <1>9, <1>10, <1>35, <1>40, <1>41, InstallInv

\* The list and the file when the current bucket changes.
ChangedList(l) ==
    [i \in 1 .. Len(l) |-> IF i = 1 THEN [l[1] EXCEPT !.changed = TRUE]
                           ELSE [l[i] EXCEPT !.fresh = l[i].fresh /\ l[i].adr # l[1].adr]]

ChangedDisk(l, d) == [d EXCEPT ![l[1].adr] = FALSE]

\* What a list n and a file e that follow l are like.
Follows(n, e, l, lv, lk, st) ==
    /\ GoodList(n, lv, lk, st, 1) /\ Written(n, e, lv) /\ e \in [Adr -> BOOLEAN]
    /\ SameLength(n, l) /\ InTab(n) = InTab(l)

LEMMA ChangeGood ==
    ASSUME NEW l, NEW d \in [Adr -> BOOLEAN], NEW lv \in SUBSET Adr, NEW lk, NEW st,
           GoodList(l, lv, lk, st, 1), Written(l, d, lv), Held(l, lv),
           NEW n, n = ChangedList(l), NEW e, e = ChangedDisk(l, d)
    PROVE  Follows(n, e, l, lv, lk, st)
<1>1. l \in Seq(E) /\ Len(l) \in Nat /\ 1 <= Len(l) /\ \A i \in 1 .. Len(l) : l[i] \in E
  BY LenProperties, ElementOfSeq DEF GoodList, Held
<1>2. PICK cur : cur = l[1].adr
  OBVIOUS
<1>3. 1 \in 1 .. Len(l) /\ l[1] \in E /\ cur \in lv /\ l[1].fresh /\ cur \in Adr
  BY <1>1, <1>2 DEF Held
<1>4. ASSUME NEW i \in 1 .. Len(l)
      PROVE  /\ n[i] \in E /\ n[i].adr = l[i].adr /\ n[i].intab = l[i].intab
             /\ n[i].changed <=> (i = 1 \/ l[i].changed)
             /\ n[i].fresh <=> (i = 1 \/ (l[i].fresh /\ l[i].adr # cur))
  <2>1. CASE i = 1
    <3>1. n[i] = [l[1] EXCEPT !.changed = TRUE]
      BY <2>1 DEF ChangedList
    <3>2. QED
      BY <1>3, <2>1, <3>1 DEF E
  <2>2. CASE i # 1
    <3>1. PICK x \in E, b \in BOOLEAN : x = l[i] /\ (b <=> (x.fresh /\ x.adr # cur))
      BY <1>1
    <3>2. n[i] = [x EXCEPT !.fresh = x.fresh /\ x.adr # cur]
      BY <1>2, <2>2, <3>1 DEF ChangedList
    <3>3. (x.fresh /\ x.adr # cur) = b
      BY <3>1 DEF E
    <3>4. n[i] = [x EXCEPT !.fresh = b]
      BY <3>2, <3>3
    <3>5. QED
      BY <2>2, <3>1, <3>4 DEF E
  <2>3. QED
    BY <2>1, <2>2
<1>5. n \in Seq(E) /\ Len(n) = Len(l)
  <2>1. n \in [1 .. Len(l) -> E]
    BY <1>4 DEF ChangedList
  <2>2. QED
    BY <1>1, <2>1, SeqDef
<1>6. Unique(l) /\ Ordered(l, 1) /\ ChangedAre(l, lv) /\ Current(l, lv, lk) /\ Chained(l, st)
  BY DEF GoodList
<1>7. Unique(n)
  BY <1>4, <1>5, <1>6 DEF Unique
<1>8. Ordered(n, 1)
  <2>1. SUFFICES ASSUME NEW i \in 1 .. Len(l), NEW j \in 1 .. Len(l), i < j, n[j].changed
                 PROVE  n[i].changed
    BY <1>5 DEF Ordered
  <2>2. l[j].changed
    BY <1>1, <1>4, <2>1
  <2>3. l[i].changed
    BY <1>1, <1>6, <2>1, <2>2 DEF Ordered
  <2>4. QED
    BY <1>4, <2>3
<1>9. ASSUME NEW i \in 1 .. Len(l), i # 1, n[i].changed
      PROVE  l[i].changed /\ l[i].adr # cur
  <2>1. l[i].changed
    BY <1>4, <1>9
  <2>2. 1 < i
    BY <1>1, <1>9
  <2>3. l[1].changed
    BY <1>3, <1>6, <2>1, <2>2 DEF Ordered
  <2>4. QED
    BY <1>2, <1>3, <1>6, <1>9, <2>1, <2>3 DEF ChangedAre
<1>10. ChangedAre(n, lv)
  <2>1. ASSUME NEW i \in 1 .. Len(l), n[i].changed PROVE n[i].adr \in lv /\ n[i].fresh
    <3>1. CASE i = 1
      BY <1>2, <1>3, <1>4, <3>1
    <3>2. CASE i # 1
      BY <1>4, <1>6, <1>9, <2>1, <3>2 DEF ChangedAre
    <3>3. QED
      BY <3>1, <3>2
  <2>2. ASSUME NEW i \in 1 .. Len(l), NEW j \in 1 .. Len(l), n[i].changed, n[j].changed,
               n[i].adr = n[j].adr, i # j
        PROVE  FALSE
    <3>1. l[i].adr = l[j].adr
      BY <1>4, <2>2
    <3>2. i # 1 /\ j # 1
      BY <1>2, <1>9, <2>2, <3>1
    <3>3. l[i].changed /\ l[j].changed
      BY <1>9, <2>2, <3>2
    <3>4. QED
      BY <1>6, <2>2, <3>1, <3>3 DEF ChangedAre
  <2>3. QED
    BY <1>5, <2>1, <2>2 DEF ChangedAre
<1>11. Current(n, lv, lk)
  <2>1. SUFFICES ASSUME NEW i \in 1 .. Len(l), n[i].intab, n[i].adr \notin lk
                 PROVE  n[i].fresh /\ n[i].adr \in lv
    BY <1>5 DEF Current
  <2>2. CASE i = 1
    BY <1>2, <1>3, <1>4, <2>2
  <2>3. CASE i # 1
    <3>1. i \in 2 .. Len(l) /\ l[i].intab /\ l[i].adr \notin lk
      BY <1>1, <1>4, <2>1, <2>3
    <3>2. l[i].adr # cur
      BY <1>2, <3>1 DEF Held
    <3>3. l[i].fresh /\ l[i].adr \in lv
      BY <1>6, <3>1 DEF Current
    <3>4. QED
      BY <1>4, <3>2, <3>3
  <2>4. QED
    BY <2>2, <2>3
<1>12. Chained(n, st)
  BY <1>4, <1>5, <1>6 DEF Chained, AllChained
<1>13. InTab(n) = InTab(l)
  BY <1>4, <1>5 DEF InTab
<1>14. e \in [Adr -> BOOLEAN] /\ \A a \in Adr : a # cur => e[a] = d[a]
  BY <1>2, <1>3 DEF ChangedDisk
<1>15. Written(n, e, lv)
  <2>1. SUFFICES ASSUME NEW a \in lv, ~e[a] PROVE \E i \in 1 .. Len(l) : n[i].changed /\ n[i].adr = a
    BY <1>5 DEF Written
  <2>2. CASE a = cur
    BY <1>2, <1>3, <1>4, <2>2
  <2>3. CASE a # cur
    <3>1. ~d[a]
      BY <1>14, <2>1, <2>3
    <3>2. PICK i \in 1 .. Len(l) : l[i].changed /\ l[i].adr = a
      BY <3>1 DEF Written
    <3>3. QED
      BY <1>4, <3>2
  <2>4. QED
    BY <2>2, <2>3
<1>16. QED
  BY <1>5, <1>7, <1>8, <1>10, <1>11, <1>12, <1>13, <1>14, <1>15 DEF GoodList, SameLength, Follows

LEMMA ChangeStep ==
    ASSUME SoundModes, IInv, Change
    PROVE  IInv'
<1>1. PICK cc, l, d, lv, lk, st : Parts(cc, l, d, lv, lk, st)
  BY StateParts
<1>2. /\ l \in Seq(E) /\ d \in [Adr -> BOOLEAN] /\ lv \in SUBSET Adr /\ lk \in SUBSET Adr
      /\ cc = Cache /\ cc.lru = l /\ cc.disk = d /\ l = lru /\ d = disk /\ lv = live /\ lk = leaked
      /\ st = mode.stale_slot /\ GoodCache(cc, lv, lk, st, 1) /\ lk \cap lv = {} /\ Settings
      /\ pc # "idle" => Held(l, lv)
  BY <1>1 DEF Parts
<1>3. PICK n, e : n = ChangedList(l) /\ e = ChangedDisk(l, d)
  OBVIOUS
<1>4. DOMAIN l = 1 .. Len(l)
  BY <1>2, LenProperties
<1>5. PICK g : g = [cc EXCEPT !.lru = n, !.disk = e]
  OBVIOUS
<1>6. PICK r : r = Flush(g)
  OBVIOUS
<1>7. Install(r) /\ pc' = "idle" /\ live' = lv /\ leaked' = lk /\ mode' = mode
      /\ cache_auto' = cache_auto /\ dir_bits' = dir_bits /\ Held(l, lv)
  <2>1. PICK x : x = [i \in DOMAIN lru |->
                       IF i = 1 THEN [lru[1] EXCEPT !.changed = TRUE]
                       ELSE [lru[i] EXCEPT !.fresh = lru[i].fresh /\ lru[i].adr # lru[1].adr]]
    OBVIOUS
  <2>2. x = n
    BY <1>2, <1>3, <1>4, <2>1 DEF ChangedList
  <2>3. [Cache EXCEPT !.lru = x, !.disk[lru[1].adr] = FALSE] = g
    BY <1>2, <1>3, <1>5, <2>2 DEF GoodCache, CacheRec, ChangedDisk
  <2>4. Install(Flush([Cache EXCEPT !.lru = x, !.disk[lru[1].adr] = FALSE]))
    BY <2>1, Zenon DEF Change
  <2>5. Install(r)
    BY <1>6, <2>3, <2>4
  <2>6. QED
    BY <1>2, <2>5 DEF Change
<1>8. GoodList(l, lv, lk, st, 1) /\ Written(l, d, lv)
  BY <1>2 DEF GoodCache
<1>9. /\ GoodList(n, lv, lk, st, 1) /\ Written(n, e, lv) /\ e \in [Adr -> BOOLEAN]
      /\ SameLength(n, l) /\ InTab(n) = InTab(l)
  <2>1. Follows(n, e, l, lv, lk, st)
    BY <1>2, <1>3, <1>7, <1>8, ChangeGood
  <2>2. QED
    BY <2>1 DEF Follows
<1>10. /\ g \in CacheRec /\ g.lru = n /\ g.disk = e /\ g.tab = cc.tab /\ g.bits = cc.bits /\ ~g.aborted
  BY <1>2, <1>5, <1>9 DEF GoodCache, CacheRec, GoodList
<1>11. Len(g.lru) <= 2^g.bits
  BY <1>2, <1>9, <1>10 DEF GoodCache, SameLength
<1>12. GoodCache(g, lv, lk, st, 1)
  BY <1>2, <1>9, <1>10, <1>11 DEF GoodCache
<1>13. GoodCache(r, lv, lk, st, 1)
  <2>1. PICK p \in Nat : p = 1
    OBVIOUS
  <2>2. GoodCache(g, lv, lk, st, p)
    BY <1>12, <2>1
  <2>3. GoodCache(r, lv, lk, st, p)
    BY <1>2, <1>6, <2>2, FlushCache
  <2>4. QED
    BY <2>1, <2>3
<1>14. Settings'
  BY <1>2, <1>7 DEF Settings
<1>15. QED
  BY <1>2, <1>7, <1>13, <1>14, InstallInv

\* A step that leaves the cache alone.
LEMMA StillStep ==
    ASSUME IInv, UNCHANGED <<lru, tab, avail, cache_bits, disk, live, leaked, dir_bits, mode>>,
           cache_auto' \in BOOLEAN, pc' = "idle" \/ pc' = pc
    PROVE  IInv'
<1>1. Settings'
  BY DEF IInv, Settings
<1>2. Cache' = Cache
  BY DEF Cache
<1>3. GoodCache(Cache', live', leaked', mode'.stale_slot, 1)
  BY <1>2 DEF IInv
<1>4. QED
  BY <1>1, <1>3 DEF IInv

LEMMA SetCacheSizeStep ==
    ASSUME SoundModes, IInv, NEW bits \in CacheBits, SetCacheSize(bits)
    PROVE  IInv'
<1>1. PICK cc, l, d, lv, lk, st : Parts(cc, l, d, lv, lk, st)
  BY StateParts
<1>2. /\ l \in Seq(E) /\ lv \in SUBSET Adr /\ lk \in SUBSET Adr
      /\ cc = Cache /\ cc.lru = l /\ l = lru /\ lv = live /\ lk = leaked
      /\ st = mode.stale_slot /\ GoodCache(cc, lv, lk, st, 1) /\ lk \cap lv = {} /\ Settings
  BY <1>1 DEF Parts
<1>3. PICK r : r = Resize(cc, bits)
  OBVIOUS
<1>4. /\ Install(r) /\ (pc' = IF r.aborted THEN "aborted" ELSE "idle") /\ live' = lv /\ leaked' = lk
      /\ mode' = mode /\ cache_auto' = FALSE /\ dir_bits' = dir_bits /\ mode.resize
  BY <1>2, <1>3 DEF SetCacheSize
<1>5. st = FALSE
  BY <1>2, <1>4, ModeType
<1>6. GoodList(l, lv, lk, st, 1)
  BY <1>2 DEF GoodCache
<1>7. AllChained(l) /\ MayResize(l, bits)
  BY <1>5, <1>6 DEF GoodList, Chained, MayResize
<1>8. GoodCache(r, lv, lk, st, 1)
  <2>1. PICK p \in Nat : p = 1
    OBVIOUS
  <2>2. GoodCache(cc, lv, lk, st, p) /\ AllChained(cc.lru) /\ MayResize(cc.lru, bits)
    BY <1>2, <1>7, <2>1
  <2>3. GoodCache(r, lv, lk, st, p)
    BY <1>2, <1>3, <2>2, ResizeCache
  <2>4. QED
    BY <2>1, <2>3
<1>9. pc' = "idle"
  BY <1>4, <1>8 DEF GoodCache
<1>10. Settings'
  BY <1>2, <1>4 DEF Settings
<1>11. QED
  BY <1>2, <1>4, <1>8, <1>9, <1>10, InstallInv

\* An unchanged element behind the current one, and no changed one behind it.
LEMMA AddedOrdered ==
    ASSUME NEW n, NEW l, NEW a, NEW lv, NEW lk, NEW st, GoodList(n, lv, lk, st, 3), Added(n, l, a, 2),
           ~(Len(n) >= 3 /\ n[3].changed)
    PROVE  GoodList(n, lv, lk, st, 1)
<1>1. n \in Seq(E) /\ Len(n) \in Nat /\ Ordered(n, 3)
  BY LenProperties DEF GoodList
<1>2. ~n[2].changed
  BY DEF Added
<1>3. ASSUME NEW j \in 1 .. Len(n), 1 < j, n[j].changed PROVE FALSE
  <2>1. j # 2 /\ j >= 3 /\ Len(n) >= 3
    BY <1>1, <1>2, <1>3
  <2>2. ~n[3].changed /\ 3 \in 1 .. Len(n)
    BY <1>1, <2>1
  <2>3. j # 3
    BY <1>3, <2>2
  <2>4. 3 < j
    BY <1>1, <2>1, <2>3
  <2>5. n[3].changed
    BY <1>1, <1>3, <2>2, <2>4 DEF Ordered
  <2>6. QED
    BY <2>2, <2>5
<1>4. Ordered(n, 1)
  <2>1. SUFFICES ASSUME NEW i \in 1 .. Len(n), NEW j \in 1 .. Len(n), i < j, n[j].changed PROVE FALSE
    BY DEF Ordered
  <2>2. 1 < j
    BY <1>1, <2>1
  <2>3. QED
    BY <1>3, <2>1, <2>2
<1>5. QED
  BY <1>4 DEF GoodList

LEMMA SplitFailsStep ==
    ASSUME SoundModes, IInv, NEW a \in Adr, SplitFails(a)
    PROVE  IInv'
<1>1. PICK cc, l, d, lv, lk, st : Parts(cc, l, d, lv, lk, st)
  BY StateParts
<1>2. /\ l \in Seq(E) /\ lv \in SUBSET Adr /\ lk \in SUBSET Adr
      /\ cc = Cache /\ cc.lru = l /\ l = lru /\ lv = live /\ lk = leaked
      /\ st = mode.stale_slot /\ GoodCache(cc, lv, lk, st, 1) /\ lk \cap lv = {} /\ Settings
      /\ pc # "idle" => Held(l, lv)
  BY <1>1 DEF Parts
<1>3. PICK r : r = AddElem(cc, a, 2)
  OBVIOUS
<1>4. PICK lx \in SUBSET Adr : lx = lk \cup {a}
  BY <1>2
<1>5. /\ Install(r) /\ (pc' = IF r.aborted THEN "aborted" ELSE "idle") /\ live' = lv /\ leaked' = lx
      /\ mode' = mode /\ cache_auto' = cache_auto /\ dir_bits' = dir_bits
      /\ a \notin lv /\ ~InTable(cc, a) /\ Admitted(cc, a)
      /\ (mode.gap \/ ~(Len(r.lru) >= 3 /\ r.lru[3].changed)) /\ pc # "idle"
  BY <1>2, <1>3, <1>4 DEF SplitFails
<1>6. Held(l, lv) /\ 1 <= Len(l) /\ Len(l) \in Nat
  BY <1>2, <1>5, LenProperties DEF Held
<1>7. a \notin InTab(l)
  BY <1>2, <1>5, LookupFinds
<1>8. GoodCache(r, lv, lx, st, 3) /\ Added(r.lru, l, a, 2)
  <2>1. PICK p \in Nat, pos \in 1 .. 3 : p = 1 /\ pos = 2
    OBVIOUS
  <2>2. p <= pos /\ pos <= Len(cc.lru) + 1
    BY <1>2, <1>6, <2>1
  <2>3. GoodCache(cc, lv, lk, st, p) /\ a \notin InTab(cc.lru) /\ r = AddElem(cc, a, pos)
    BY <1>2, <1>3, <1>7, <2>1
  <2>4. GoodCache(r, lv, lk \cup {a}, st, pos + 1) /\ Added(r.lru, cc.lru, a, pos)
    BY <1>2, <1>5, <2>2, <2>3, AddCache
  <2>5. QED
    BY <1>2, <1>4, <2>1, <2>4
<1>9. ~(Len(r.lru) >= 3 /\ r.lru[3].changed)
  BY <1>2, <1>5, ModeType
<1>10. GoodList(r.lru, lv, lx, st, 1)
  <2>1. GoodList(r.lru, lv, lx, st, 3)
    BY <1>8 DEF GoodCache
  <2>2. QED
    BY <1>8, <1>9, <2>1, AddedOrdered
<1>11. GoodCache(r, lv, lx, st, 1)
  BY <1>8, <1>10 DEF GoodCache
<1>12. pc' = "idle"
  BY <1>5, <1>8 DEF GoodCache
<1>13. Settings' /\ lx \cap lv = {}
  BY <1>2, <1>4, <1>5 DEF Settings
<1>14. QED
  BY <1>2, <1>5, <1>11, <1>12, <1>13, InstallInv

\* In place of the current bucket of list l, list m has two new elements.
Behind(m, l, a0, a1) ==
    /\ m \in Seq(E) /\ 2 <= Len(m)
    /\ m[1].adr = a0 /\ m[2].adr = a1 /\ ~m[1].changed /\ ~m[2].changed
    /\ \A k \in 3 .. Len(m) : k - 1 \in 2 .. Len(l) /\ Same(m[k], l[k - 1])

Marked(x, y) == x \in E /\ x.adr = y.adr /\ x.intab = y.intab /\ x.changed /\ x.fresh

\* They are filled, and either one is the current bucket.
Refilled(f, m) ==
    /\ f \in Seq(E) /\ Len(f) = Len(m)
    /\ \A k \in 3 .. Len(m) : f[k] = m[k]
    /\ \/ Marked(f[1], m[1]) /\ Marked(f[2], m[2])
       \/ Marked(f[1], m[2]) /\ Marked(f[2], m[1])

\* The addresses of a split: those of the new buckets belong to no bucket yet.
Apart(a0, a1, lv, lk) ==
    a0 \notin lv /\ a0 \notin lk /\ a1 \notin lv /\ a1 \notin lk /\ a0 # a1

\* The buckets after a split of cur.
SplitOf(lv, cur, a0, a1) == (lv \ {cur}) \cup {a0, a1}

LEMMA SplitGood ==
    ASSUME NEW l, NEW m, NEW f, NEW lv, NEW lk, NEW ly, NEW st, NEW a0, NEW a1, NEW lvx,
           GoodList(l, lv, lk, st, 1), Held(l, lv), Apart(a0, a1, lv, lk),
           Behind(m, l, a0, a1), GoodList(m, lv, ly, st, 3), ly = lk \cup {a0, a1},
           Refilled(f, m), lvx = SplitOf(lv, l[1].adr, a0, a1)
    PROVE  GoodList(f, lvx, lk, st, 1) /\ Held(f, lvx) /\ InTab(f) = InTab(m)
<1>1. PICK cur : cur = l[1].adr /\ cur \in lv
  BY DEF Held
<1>2. /\ l \in Seq(E) /\ m \in Seq(E) /\ f \in Seq(E) /\ Len(f) = Len(m) /\ Len(m) \in Nat /\ 2 <= Len(m)
      /\ Len(l) \in Nat /\ 1 \in 1 .. Len(m) /\ 2 \in 1 .. Len(m)
      /\ \A k \in 1 .. Len(m) : f[k] \in E /\ m[k] \in E
  BY LenProperties, ElementOfSeq DEF GoodList, Behind, Refilled
<1>3. /\ f[1].changed /\ f[2].changed /\ f[1].fresh /\ f[2].fresh
      /\ f[1].adr # f[2].adr /\ f[1].adr \in {a0, a1} /\ f[2].adr \in {a0, a1}
  BY DEF Refilled, Marked, Behind, Apart
<1>4. \A k \in 1 .. Len(m) : k = 1 \/ k = 2 \/ k \in 3 .. Len(m)
  BY <1>2
<1>5. \A k \in 3 .. Len(m) : f[k] = m[k] /\ k \in 1 .. Len(m) /\ k # 1 /\ k # 2
  BY <1>2 DEF Refilled
<1>6. a0 \in lvx /\ a1 \in lvx /\ \A x \in lv : x # cur => x \in lvx
  BY <1>1 DEF SplitOf
<1>7. ASSUME NEW k \in 3 .. Len(m), m[k].intab
      PROVE  m[k].adr \in lv \cup lk /\ m[k].adr \notin {a0, a1} /\ m[k].adr # cur
  <2>1. PICK j \in 2 .. Len(l) : j = k - 1 /\ Same(m[k], l[j])
    BY DEF Behind
  <2>2. l[j].intab /\ l[j].adr = m[k].adr /\ j \in 1 .. Len(l)
    BY <1>2, <1>7, <2>1 DEF Same
  <2>3. l[j].adr \in lk \/ l[j].adr \in lv
    BY <2>2 DEF GoodList, Current
  <2>4. l[j].adr # cur
    BY <1>1, <2>1, <2>2 DEF Held
  <2>5. QED
    BY <2>2, <2>3, <2>4 DEF Apart
<1>8. ASSUME NEW k \in 3 .. Len(m), m[k].changed
      PROVE  m[k].adr \in lv /\ m[k].adr \notin {a0, a1} /\ m[k].adr # cur /\ m[k].fresh
  <2>1. PICK j \in 2 .. Len(l) : j = k - 1 /\ Same(m[k], l[j])
    BY DEF Behind
  <2>2. l[j].changed /\ l[j].adr = m[k].adr /\ j \in 1 .. Len(l) /\ 1 \in 1 .. Len(l) /\ 1 < j
    BY <1>2, <1>8, <2>1 DEF Same
  <2>3. l[1].changed
    BY <2>2 DEF GoodList, Ordered
  <2>4. l[j].adr # cur
    <3>1. 1 # j
      BY <2>2
    <3>2. QED
      BY <1>1, <2>2, <2>3, <3>1 DEF GoodList, ChangedAre
  <2>5. m[k].adr \in lv /\ m[k].fresh
    BY <1>5, <1>8 DEF GoodList, ChangedAre
  <2>6. QED
    BY <2>2, <2>4, <2>5 DEF Apart
<1>9. Unique(f)
  <2>1. SUFFICES ASSUME NEW i \in 1 .. Len(m), NEW j \in 1 .. Len(m), f[i].intab, f[j].intab,
                        f[i].adr = f[j].adr, i # j
                 PROVE  FALSE
    BY <1>2 DEF Unique
  <2>2. i \in 3 .. Len(m) => f[i].adr \notin {a0, a1} /\ m[i].intab /\ m[i].adr = f[i].adr
    BY <1>5, <1>7, <2>1
  <2>3. j \in 3 .. Len(m) => f[j].adr \notin {a0, a1} /\ m[j].intab /\ m[j].adr = f[j].adr
    BY <1>5, <1>7, <2>1
  <2>4. i \in 3 .. Len(m) <=> j \in 3 .. Len(m)
    BY <1>3, <1>4, <2>1, <2>2, <2>3
  <2>5. CASE i \in 3 .. Len(m)
    BY <2>1, <2>2, <2>3, <2>4, <2>5 DEF GoodList, Unique
  <2>6. CASE i \notin 3 .. Len(m)
    BY <1>3, <1>4, <2>1, <2>4, <2>6
  <2>7. QED
    BY <2>5, <2>6
<1>10. Ordered(f, 1)
  <2>1. SUFFICES ASSUME NEW i \in 1 .. Len(m), NEW j \in 1 .. Len(m), i < j, f[j].changed
                 PROVE  f[i].changed
    BY <1>2 DEF Ordered
  <2>2. CASE i \in 3 .. Len(m)
    <3>1. j \in 3 .. Len(m) /\ 3 <= i
      BY <1>2, <2>1, <2>2
    <3>2. m[j].changed
      BY <1>5, <2>1, <3>1
    <3>3. m[i].changed
      BY <2>1, <3>1, <3>2 DEF GoodList, Ordered
    <3>4. QED
      BY <1>5, <2>2, <3>3
  <2>3. CASE i \notin 3 .. Len(m)
    BY <1>3, <1>4, <2>3
  <2>4. QED
    BY <2>2, <2>3
<1>11. ChangedAre(f, lvx)
  <2>1. ASSUME NEW i \in 1 .. Len(m), f[i].changed PROVE f[i].adr \in lvx /\ f[i].fresh
    <3>1. CASE i \in 3 .. Len(m)
      <4>1. m[i].changed /\ f[i] = m[i]
        BY <1>5, <2>1, <3>1
      <4>2. m[i].adr \in lv /\ m[i].adr # cur /\ m[i].fresh
        BY <1>8, <3>1, <4>1
      <4>3. QED
        BY <1>6, <4>1, <4>2
    <3>2. CASE i \notin 3 .. Len(m)
      BY <1>3, <1>4, <1>6, <3>2
    <3>3. QED
      BY <3>1, <3>2
  <2>2. ASSUME NEW i \in 1 .. Len(m), NEW j \in 1 .. Len(m), f[i].changed, f[j].changed,
               f[i].adr = f[j].adr, i # j
        PROVE  FALSE
    <3>2. i \in 3 .. Len(m) => f[i].adr \notin {a0, a1} /\ m[i].changed /\ m[i].adr = f[i].adr
      BY <1>5, <1>8, <2>2
    <3>3. j \in 3 .. Len(m) => f[j].adr \notin {a0, a1} /\ m[j].changed /\ m[j].adr = f[j].adr
      BY <1>5, <1>8, <2>2
    <3>4. i \in 3 .. Len(m) <=> j \in 3 .. Len(m)
      BY <1>3, <1>4, <2>2, <3>2, <3>3
    <3>5. CASE i \in 3 .. Len(m)
      BY <2>2, <3>2, <3>3, <3>4, <3>5 DEF GoodList, ChangedAre
    <3>6. CASE i \notin 3 .. Len(m)
      BY <1>3, <1>4, <2>2, <3>4, <3>6
    <3>7. QED
      BY <3>5, <3>6
  <2>3. QED
    BY <1>2, <2>1, <2>2 DEF ChangedAre
<1>12. Current(f, lvx, lk)
  <2>1. SUFFICES ASSUME NEW i \in 1 .. Len(m), f[i].intab, f[i].adr \notin lk
                 PROVE  f[i].fresh /\ f[i].adr \in lvx
    BY <1>2 DEF Current
  <2>2. CASE i \in 3 .. Len(m)
    <3>1. m[i].intab /\ f[i] = m[i]
      BY <1>5, <2>1, <2>2
    <3>2. m[i].adr \notin {a0, a1} /\ m[i].adr # cur
      BY <1>7, <2>2, <3>1
    <3>3. m[i].adr \notin ly
      BY <2>1, <3>1, <3>2
    <3>4. m[i].fresh /\ m[i].adr \in lv
      BY <3>1, <3>3 DEF GoodList, Current
    <3>5. QED
      BY <1>6, <3>1, <3>2, <3>4
  <2>3. CASE i \notin 3 .. Len(m)
    BY <1>3, <1>4, <1>6, <2>3
  <2>4. QED
    BY <2>2, <2>3
<1>13. Chained(f, st)
  <2>1. CASE st = TRUE
    BY <2>1 DEF Chained
  <2>2. CASE st # TRUE
    <3>1. \A k \in 1 .. Len(m) : m[k].intab
      BY <2>2 DEF GoodList, Chained, AllChained
    <3>2. f[1].intab /\ f[2].intab
      BY <1>2, <3>1 DEF Refilled, Marked
    <3>3. \A k \in 1 .. Len(m) : f[k].intab
      BY <1>4, <1>5, <3>1, <3>2
    <3>4. QED
      BY <1>2, <3>3 DEF Chained, AllChained
  <2>3. QED
    BY <2>1, <2>2
<1>14. Held(f, lvx)
  <2>1. f # <<>>
    BY <1>2
  <2>2. ASSUME NEW k \in 2 .. Len(f), f[k].intab PROVE f[k].adr # f[1].adr
    <3>1. CASE k = 2
      BY <1>3, <3>1
    <3>2. CASE k # 2
      <4>1. k \in 3 .. Len(m)
        BY <1>2, <3>2
      <4>2. m[k].intab /\ f[k] = m[k]
        BY <1>5, <2>2, <4>1
      <4>3. QED
        BY <1>3, <1>7, <4>1, <4>2
    <3>3. QED
      BY <3>1, <3>2
  <2>3. QED
    BY <1>3, <1>6, <2>1, <2>2 DEF Held
<1>15. InTab(f) = InTab(m)
  <2>1. ASSUME NEW x \in InTab(f) PROVE x \in InTab(m)
    <3>1. PICK k \in 1 .. Len(m) : f[k].intab /\ f[k].adr = x
      BY <1>2 DEF InTab
    <3>2. \E j \in 1 .. Len(m) : m[j].intab /\ m[j].adr = x
      <4>1. CASE k \in 3 .. Len(m)
        BY <1>5, <3>1, <4>1
      <4>2. CASE k \notin 3 .. Len(m)
        BY <1>2, <1>4, <3>1, <4>2 DEF Refilled, Marked
      <4>3. QED
        BY <4>1, <4>2
    <3>3. QED
      BY <3>2 DEF InTab
  <2>2. ASSUME NEW x \in InTab(m) PROVE x \in InTab(f)
    <3>1. PICK k \in 1 .. Len(m) : m[k].intab /\ m[k].adr = x
      BY DEF InTab
    <3>2. \E j \in 1 .. Len(m) : f[j].intab /\ f[j].adr = x
      <4>1. CASE k \in 3 .. Len(m)
        BY <1>5, <3>1, <4>1
      <4>2. CASE k \notin 3 .. Len(m)
        BY <1>2, <1>4, <3>1, <4>2 DEF Refilled, Marked
      <4>3. QED
        BY <4>1, <4>2
    <3>3. QED
      BY <1>2, <3>2 DEF InTab
  <2>3. QED
    BY <2>1, <2>2
<1>16. QED
  BY <1>2, <1>9, <1>10, <1>11, <1>12, <1>13, <1>14, <1>15 DEF GoodList

\* What a lookup finds belongs to a bucket, or to one that a failed split has left.
LEMMA InTabBelongs ==
    ASSUME NEW l, NEW lv, NEW lk, NEW st, NEW p, GoodList(l, lv, lk, st, p)
    PROVE  InTab(l) \subseteq lv \cup lk
BY DEF GoodList, Current, InTab

\* Two elements added behind the current one, which is freed then.
LEMMA TwoAdded ==
    ASSUME NEW l, NEW n0 \in Seq(E), NEW n1 \in Seq(E), NEW a0, NEW a1,
           Added(n0, l, a0, 2), Added(n1, n0, a1, 3), NEW m, m = RemoveAt(n1, 1)
    PROVE  Behind(m, l, a0, a1) /\ n1[1].adr = l[1].adr /\ 1 \in 1 .. Len(n1)
<1>1. Len(n0) \in Nat /\ Len(n1) \in Nat /\ 2 <= Len(n0) /\ 3 <= Len(n1)
  BY LenProperties DEF Added
<1>2. /\ n0[2].adr = a0 /\ ~n0[2].changed
      /\ \A k \in 3 .. Len(n0) : k - 1 \in 1 .. Len(l) /\ Same(n0[k], l[k - 1])
  BY DEF Added
<1>3. /\ n1[3].adr = a1 /\ ~n1[3].changed
      /\ \A k \in 4 .. Len(n1) : k - 1 \in 1 .. Len(n0) /\ Same(n1[k], n0[k - 1])
  BY DEF Added
<1>4. Same(n1[1], n0[1]) /\ Same(n1[2], n0[2]) /\ Same(n0[1], l[1])
  BY DEF Added
<1>5. PICK i \in 1 .. Len(n1) : i = 1
  BY <1>1
<1>6. /\ m \in Seq(E) /\ Len(m) = Len(n1) - 1
      /\ \A k \in 1 .. Len(m) : m[k] = n1[IF k < i THEN k ELSE k + 1]
  BY <1>5, RemoveAtIs
<1>7. ASSUME NEW k \in 1 .. Len(m) PROVE m[k] = n1[k + 1]
  <2>1. ~(k < i)
    BY <1>1, <1>5, <1>6
  <2>2. QED
    BY <1>6, <2>1
<1>8. 2 <= Len(m) /\ 1 \in 1 .. Len(m) /\ 2 \in 1 .. Len(m) /\ m[1] = n1[2] /\ m[2] = n1[3]
  <2>1. 2 <= Len(m) /\ 1 \in 1 .. Len(m) /\ 2 \in 1 .. Len(m)
    BY <1>1, <1>6
  <2>2. m[1] = n1[1 + 1] /\ m[2] = n1[2 + 1]
    BY <1>7, <2>1
  <2>3. QED
    BY <2>1, <2>2
<1>9. m[1].adr = a0 /\ m[2].adr = a1 /\ ~m[1].changed /\ ~m[2].changed
  BY <1>2, <1>3, <1>4, <1>8 DEF Same
<1>10. ASSUME NEW k \in 3 .. Len(m) PROVE k - 1 \in 2 .. Len(l) /\ Same(m[k], l[k - 1])
  <2>1. PICK h \in 4 .. Len(n1) : h = k + 1 /\ h - 1 = k
    BY <1>1, <1>6
  <2>2. k \in 1 .. Len(n0) /\ Same(n1[h], n0[k])
    BY <1>3, <2>1
  <2>3. m[k] = n1[h]
    BY <1>1, <1>6, <1>7, <2>1
  <2>4. k \in 3 .. Len(n0)
    BY <1>1, <2>2
  <2>5. k - 1 \in 1 .. Len(l) /\ Same(n0[k], l[k - 1])
    BY <1>2, <2>4
  <2>6. k - 1 \in 2 .. Len(l)
    BY <2>4, <2>5
  <2>7. QED
    BY <2>2, <2>3, <2>5, <2>6 DEF Same
<1>11. n1[1].adr = l[1].adr /\ 1 \in 1 .. Len(n1)
  BY <1>1, <1>4 DEF Same
<1>12. QED
  BY <1>6, <1>8, <1>9, <1>10, <1>11 DEF Behind

\* The list with its first two elements filled.
Filled(m, x, y) ==
    [m EXCEPT ![1] = [x EXCEPT !.changed = TRUE, !.fresh = TRUE],
              ![2] = [y EXCEPT !.changed = TRUE, !.fresh = TRUE]]

LEMMA FilledIs ==
    ASSUME NEW m, NEW l, NEW a0, NEW a1, Behind(m, l, a0, a1),
           NEW f, f = Filled(m, m[1], m[2]) \/ f = Filled(m, m[2], m[1])
    PROVE  Refilled(f, m)
<1>1. /\ m \in Seq(E) /\ Len(m) \in Nat /\ 2 <= Len(m) /\ 1 \in 1 .. Len(m) /\ 2 \in 1 .. Len(m)
      /\ DOMAIN m = 1 .. Len(m) /\ m[1] \in E /\ m[2] \in E
  BY LenProperties, ElementOfSeq DEF Behind
<1>2. ASSUME NEW x \in E, NEW y \in E, f = Filled(m, x, y)
      PROVE  /\ f \in Seq(E) /\ Len(f) = Len(m) /\ \A k \in 3 .. Len(m) : f[k] = m[k]
             /\ Marked(f[1], x) /\ Marked(f[2], y)
  <2>1. PICK u, v : /\ u = [x EXCEPT !.changed = TRUE, !.fresh = TRUE]
                    /\ v = [y EXCEPT !.changed = TRUE, !.fresh = TRUE]
    OBVIOUS
  <2>2. Marked(u, x) /\ Marked(v, y) /\ u \in E /\ v \in E
    BY <2>1 DEF Marked, E
  <2>3. f = [m EXCEPT ![1] = u, ![2] = v]
    BY <1>2, <2>1 DEF Filled
  <2>4. f \in [1 .. Len(m) -> E]
    <3>1. m \in [1 .. Len(m) -> E]
      BY <1>1, LenProperties, ElementOfSeq
    <3>2. QED
      BY <1>1, <2>2, <2>3, <3>1
  <2>5. f \in Seq(E) /\ Len(f) = Len(m)
    BY <1>1, <2>4, SeqDef
  <2>6. f[1] = u /\ f[2] = v
    BY <1>1, <2>3
  <2>7. ASSUME NEW k \in 3 .. Len(m) PROVE f[k] = m[k]
    <3>1. k \in 1 .. Len(m) /\ k # 1 /\ k # 2
      BY <1>1
    <3>2. QED
      BY <1>1, <2>3, <3>1
  <2>8. QED
    BY <2>2, <2>5, <2>6, <2>7
<1>3. CASE f = Filled(m, m[1], m[2])
  BY <1>1, <1>2, <1>3 DEF Refilled
<1>4. CASE f = Filled(m, m[2], m[1])
  BY <1>1, <1>2, <1>4 DEF Refilled
<1>5. QED
  BY <1>3, <1>4

NewDisk(d, a0, a1) == [d EXCEPT ![a0] = FALSE, ![a1] = FALSE]

LEMMA SplitWritten ==
    ASSUME NEW l, NEW n1 \in Seq(E), NEW d \in [Adr -> BOOLEAN], NEW lv \in SUBSET Adr,
           NEW a0 \in Adr, NEW a1 \in Adr, Written(n1, d, lv), n1[1].adr = l[1].adr, 1 \in 1 .. Len(n1),
           NEW m, m = RemoveAt(n1, 1), Behind(m, l, a0, a1), NEW f, Refilled(f, m),
           NEW e, e = NewDisk(d, a0, a1), NEW lvx, lvx = SplitOf(lv, l[1].adr, a0, a1)
    PROVE  Written(f, e, lvx) /\ e \in [Adr -> BOOLEAN]
<1>1. PICK i \in 1 .. Len(n1) : i = 1
  OBVIOUS
<1>2. /\ m \in Seq(E) /\ Len(m) = Len(n1) - 1 /\ Len(n1) \in Nat
      /\ \A k \in 1 .. Len(m) : m[k] = n1[IF k < i THEN k ELSE k + 1]
  BY <1>1, RemoveAtIs, LenProperties
<1>3. e \in [Adr -> BOOLEAN] /\ \A a \in Adr : a # a0 /\ a # a1 => e[a] = d[a]
  BY DEF NewDisk
<1>4. 2 <= Len(m) /\ 1 \in 1 .. Len(m) /\ 2 \in 1 .. Len(m) /\ Len(f) = Len(m)
  BY <1>2 DEF Behind, Refilled
<1>5. ASSUME NEW a \in {a0, a1} PROVE \E k \in 1 .. Len(m) : f[k].changed /\ f[k].adr = a
  BY <1>4 DEF Refilled, Marked, Behind
<1>6. ASSUME NEW a \in lv, a # l[1].adr, a \notin {a0, a1}, ~e[a]
      PROVE  \E k \in 1 .. Len(m) : f[k].changed /\ f[k].adr = a
  <2>1. ~d[a]
    BY <1>3, <1>6
  <2>2. PICK j \in 1 .. Len(n1) : n1[j].changed /\ n1[j].adr = a
    BY <2>1 DEF Written
  <2>3. j # 1
    BY <1>6, <2>2
  <2>4. PICK k \in 1 .. Len(m) : k = j - 1 /\ k + 1 = j /\ ~(k < i)
    BY <1>1, <1>2, <2>3
  <2>5. m[k] = n1[j]
    BY <1>2, <2>4
  <2>6. k # 1 /\ k # 2
    BY <2>2, <2>5 DEF Behind
  <2>7. k \in 3 .. Len(m)
    BY <1>2, <2>6
  <2>8. f[k] = m[k]
    BY <2>7 DEF Refilled
  <2>9. QED
    BY <2>2, <2>5, <2>8
<1>7. Written(f, e, lvx)
  <2>1. SUFFICES ASSUME NEW a \in lvx, ~e[a] PROVE \E k \in 1 .. Len(m) : f[k].changed /\ f[k].adr = a
    BY <1>4 DEF Written
  <2>2. CASE a \in {a0, a1}
    BY <1>5, <2>2
  <2>3. CASE a \notin {a0, a1}
    <3>1. a \in lv /\ a # l[1].adr
      BY <2>3 DEF SplitOf
    <3>2. QED
      BY <1>6, <2>1, <2>3, <3>1
  <2>4. QED
    BY <2>2, <2>3
<1>8. QED
  BY <1>3, <1>7

\* The cache after both new buckets are added and the split one is freed.
TwoNew(c, c1, l, lv, ly, st, a0, a1) ==
    /\ c1 \in CacheRec /\ ~c1.aborted /\ Written(c1.lru, c1.disk, lv) /\ Len(c1.lru) <= 2^c1.bits
    /\ c1.lru[1].adr = l[1].adr /\ 1 \in 1 .. Len(c1.lru)
    /\ c \in CacheRec /\ ~c.aborted /\ c.lru = RemoveAt(c1.lru, 1)
    /\ c.bits = c1.bits /\ c.disk = c1.disk
    /\ Holds(c.tab, c.bits, InTab(c.lru))
    /\ Behind(c.lru, l, a0, a1) /\ GoodList(c.lru, lv, ly, st, 3)

LEMMA TwoAdds ==
    ASSUME SoundModes, Settings,
           NEW cc, NEW lv \in SUBSET Adr, NEW lk \in SUBSET Adr, NEW st, st = mode.stale_slot,
           GoodCache(cc, lv, lk, st, 1), NEW l, l = cc.lru, Held(l, lv),
           NEW a0 \in Adr, NEW a1 \in Adr, Apart(a0, a1, lv, lk),
           NEW c0, c0 = AddElem(cc, a0, 2), NEW c1, c1 = AddElem(c0, a1, 3), NEW c, c = ElemFree(c1, 1),
           NEW ly, ly = lk \cup {a0, a1}, Admitted(cc, a0)
    PROVE  /\ ~InTable(cc, a0) /\ ~InTable(c0, a1)
           /\ Admitted(c0, a1) => TwoNew(c, c1, l, lv, ly, st, a0, a1)
<1>1. GoodList(l, lv, lk, st, 1) /\ l \in Seq(E) /\ Len(l) \in Nat /\ 1 <= Len(l)
  BY LenProperties DEF GoodCache, GoodList, Held
<1>2. a0 \notin InTab(l)
  BY <1>1, InTabBelongs DEF Apart
<1>3. ~InTable(cc, a0)
  BY <1>2, LookupFinds
<1>4. PICK lx \in SUBSET Adr : lx = lk \cup {a0}
  OBVIOUS
<1>5. GoodCache(c0, lv, lx, st, 3) /\ Added(c0.lru, l, a0, 2)
  <2>1. PICK p \in Nat, pos \in 1 .. 3 : p = 1 /\ pos = 2
    OBVIOUS
  <2>2. p <= pos /\ pos <= Len(cc.lru) + 1
    BY <1>1, <2>1
  <2>3. GoodCache(cc, lv, lk, st, p) /\ a0 \notin InTab(cc.lru) /\ c0 = AddElem(cc, a0, pos)
    BY <1>2, <2>1
  <2>4. GoodCache(c0, lv, lk \cup {a0}, st, pos + 1) /\ Added(c0.lru, cc.lru, a0, pos)
    BY <2>2, <2>3, AddCache
  <2>5. QED
    BY <1>4, <2>1, <2>4
<1>6. PICK n0 \in Seq(E) : n0 = c0.lru /\ Len(n0) \in Nat /\ 2 <= Len(n0) /\ GoodList(n0, lv, lx, st, 3)
  BY <1>5, LenProperties DEF GoodCache, GoodList, Added
<1>7. a1 \notin InTab(n0)
  BY <1>4, <1>6, InTabBelongs DEF Apart
<1>8. ~InTable(c0, a1)
  BY <1>5, <1>6, <1>7, LookupFinds
<1>9. ASSUME Admitted(c0, a1) PROVE TwoNew(c, c1, l, lv, ly, st, a0, a1)
  <2>0. GoodCache(c1, lv, ly, st, 4) /\ Added(c1.lru, n0, a1, 3)
    <3>1. PICK p \in Nat, pos \in 1 .. 3 : p = 3 /\ pos = 3
      OBVIOUS
    <3>2. p <= pos /\ pos <= Len(c0.lru) + 1
      BY <1>6, <3>1
    <3>3. GoodCache(c0, lv, lx, st, p) /\ a1 \notin InTab(c0.lru) /\ c1 = AddElem(c0, a1, pos)
      BY <1>5, <1>6, <1>7, <3>1
    <3>4. GoodCache(c1, lv, lx \cup {a1}, st, pos + 1) /\ Added(c1.lru, c0.lru, a1, pos)
      BY <1>9, <3>2, <3>3, AddCache
    <3>5. lx \cup {a1} = ly /\ pos + 1 = 4
      BY <1>4, <3>1
    <3>6. QED
      BY <1>6, <3>1, <3>4, <3>5
  <2>a. PICK n1 \in Seq(E) : n1 = c1.lru
    BY <2>0 DEF GoodCache, GoodList
  <2>1. PICK m : n1 = c1.lru /\ m = RemoveAt(n1, 1)
    BY <2>a
  <2>2. /\ c1 \in CacheRec /\ ~c1.aborted /\ Written(n1, c1.disk, lv) /\ Len(n1) <= 2^c1.bits
        /\ GoodList(n1, lv, ly, st, 4) /\ Unique(n1) /\ Holds(c1.tab, c1.bits, InTab(n1))
    BY <2>0, <2>1 DEF GoodCache, GoodList
  <2>3. Added(n0, l, a0, 2) /\ Added(n1, n0, a1, 3)
    BY <1>5, <1>6, <2>0, <2>1
  <2>4. Behind(m, l, a0, a1) /\ n1[1].adr = l[1].adr /\ 1 \in 1 .. Len(n1)
    BY <2>1, <2>3, TwoAdded
  <2>5. PICK i \in 1 .. Len(n1) : i = 1
    BY <2>4
  <2>6. /\ c \in CacheRec /\ c.lru = RemoveAt(c1.lru, i) /\ c.bits = c1.bits /\ c.disk = c1.disk
        /\ c.aborted = c1.aborted /\ Holds(c.tab, c.bits, InTab(c.lru))
    <3>1. c = ElemFree(c1, i) /\ i \in 1 .. Len(c1.lru) /\ Unique(c1.lru)
          /\ Holds(c1.tab, c1.bits, InTab(c1.lru))
      BY <2>1, <2>2, <2>5
    <3>2. QED
      BY <2>2, <3>1, ElemFreeIs
  <2>7. GoodList(m, lv, ly, st, 3)
    <3>1. PICK p \in Nat, q \in Nat : p = 4 /\ q = 3
      OBVIOUS
    <3>2. GoodList(n1, lv, ly, st, p) /\ p = q + 1 /\ i < p /\ m = RemoveAt(n1, i)
      BY <2>1, <2>2, <2>5, <3>1
    <3>3. GoodList(m, lv, ly, st, q)
      BY <3>2, RemoveGood
    <3>4. QED
      BY <3>1, <3>3
  <2>8. c.lru = m
    BY <2>1, <2>5, <2>6
  <2>9. QED
    BY <2>1, <2>2, <2>4, <2>6, <2>7, <2>8 DEF TwoNew
<1>10. QED
  BY <1>3, <1>8, <1>9

\* The cache after the split, with either of the new buckets as the current one.
Done(r, c, a0, a1) ==
    \E f : /\ f = Filled(c.lru, c.lru[1], c.lru[2]) \/ f = Filled(c.lru, c.lru[2], c.lru[1])
           /\ r = [c EXCEPT !.lru = f, !.disk = NewDisk(c.disk, a0, a1)]

SplitFrom(l, lv, lk, ly, st, a0, a1, lvx) ==
    /\ lv \in SUBSET Adr /\ GoodList(l, lv, lk, st, 1) /\ Held(l, lv) /\ Apart(a0, a1, lv, lk)
    /\ ly = lk \cup {a0, a1} /\ lvx = SplitOf(lv, l[1].adr, a0, a1)

LEMMA SplitCache ==
    ASSUME NEW c, NEW c1, NEW l, NEW lv, NEW lk, NEW ly, NEW st, NEW a0 \in Adr, NEW a1 \in Adr, NEW lvx,
           TwoNew(c, c1, l, lv, ly, st, a0, a1), SplitFrom(l, lv, lk, ly, st, a0, a1, lvx),
           NEW r, Done(r, c, a0, a1)
    PROVE  GoodCache(r, lvx, lk, st, 1) /\ Held(r.lru, lvx)
<1>0. /\ lv \in SUBSET Adr /\ GoodList(l, lv, lk, st, 1) /\ Held(l, lv) /\ Apart(a0, a1, lv, lk)
      /\ ly = lk \cup {a0, a1} /\ lvx = SplitOf(lv, l[1].adr, a0, a1)
  BY DEF SplitFrom
<1>a. PICK f : /\ f = Filled(c.lru, c.lru[1], c.lru[2]) \/ f = Filled(c.lru, c.lru[2], c.lru[1])
               /\ r = [c EXCEPT !.lru = f, !.disk = NewDisk(c.disk, a0, a1)]
  BY DEF Done
<1>1. PICK m, n1, d, e : m = c.lru /\ n1 = c1.lru /\ d = c1.disk /\ e = NewDisk(d, a0, a1)
  OBVIOUS
<1>2. /\ c1 \in CacheRec /\ Written(n1, d, lv) /\ Len(n1) <= 2^c.bits /\ n1[1].adr = l[1].adr
      /\ 1 \in 1 .. Len(n1) /\ c \in CacheRec /\ ~c.aborted /\ m = RemoveAt(n1, 1) /\ c.disk = d
      /\ Holds(c.tab, c.bits, InTab(m)) /\ Behind(m, l, a0, a1) /\ GoodList(m, lv, ly, st, 3)
  BY <1>1 DEF TwoNew
<1>3. n1 \in Seq(E) /\ d \in [Adr -> BOOLEAN] /\ Len(n1) \in Nat /\ c.bits \in CacheBits
  BY <1>1, <1>2, LenProperties DEF CacheRec
<1>4. Refilled(f, m)
  <2>1. f = Filled(m, m[1], m[2]) \/ f = Filled(m, m[2], m[1])
    BY <1>1, <1>a
  <2>2. QED
    BY <1>2, <2>1, FilledIs
<1>5. GoodList(f, lvx, lk, st, 1) /\ Held(f, lvx) /\ InTab(f) = InTab(m)
  BY <1>0, <1>2, <1>4, SplitGood
<1>6. Written(f, e, lvx) /\ e \in [Adr -> BOOLEAN]
  <2>1. /\ Written(n1, d, lv) /\ n1[1].adr = l[1].adr /\ 1 \in 1 .. Len(n1)
        /\ m = RemoveAt(n1, 1) /\ Behind(m, l, a0, a1) /\ e = NewDisk(d, a0, a1)
    BY <1>1, <1>2
  <2>2. QED
    BY <1>0, <1>3, <1>4, <2>1, SplitWritten
<1>7. r = [c EXCEPT !.lru = f, !.disk = e]
  BY <1>1, <1>2, <1>a
<1>8. /\ r \in CacheRec /\ r.lru = f /\ r.disk = e /\ r.tab = c.tab /\ r.bits = c.bits /\ ~r.aborted
  BY <1>2, <1>5, <1>6, <1>7 DEF CacheRec, GoodList
<1>9. Len(f) <= 2^c.bits
  <2>1. PICK i \in 1 .. Len(n1) : i = 1
    BY <1>2
  <2>2. m = RemoveAt(n1, i)
    BY <1>2, <2>1
  <2>3. Len(f) = Len(n1) - 1
    BY <1>3, <1>4, <2>2, RemoveAtIs DEF Refilled
  <2>4. PICK M \in Nat : M = 2^c.bits
    BY <1>3, IndexFacts
  <2>5. QED
    BY <1>2, <1>3, <2>3, <2>4
<1>10. QED
  BY <1>2, <1>5, <1>6, <1>8, <1>9 DEF GoodCache

LEMMA SplitStep ==
    ASSUME SoundModes, IInv, NEW a0 \in Adr, NEW a1 \in Adr, Split(a0, a1)
    PROVE  IInv'
<1>1. PICK cc, l, d, lv, lk, st : Parts(cc, l, d, lv, lk, st)
  BY StateParts
<1>2. /\ l \in Seq(E) /\ lv \in SUBSET Adr /\ lk \in SUBSET Adr
      /\ cc = Cache /\ cc.lru = l /\ l = lru /\ lv = live /\ lk = leaked
      /\ st = mode.stale_slot /\ GoodCache(cc, lv, lk, st, 1) /\ lk \cap lv = {} /\ Settings
      /\ pc # "idle" => Held(l, lv)
  BY <1>1 DEF Parts
<1>3. PICK c0 : c0 = AddElem(cc, a0, 2)
  OBVIOUS
<1>4. PICK c1 : c1 = AddElem(c0, a1, 3)
  OBVIOUS
<1>5. PICK c : c = ElemFree(c1, 1)
  OBVIOUS
<1>6. PICK ly : ly = lk \cup {a0, a1}
  OBVIOUS
<1>7. PICK lvx : lvx = SplitOf(lv, l[1].adr, a0, a1)
  OBVIOUS
<1>8. /\ pc # "idle" /\ Apart(a0, a1, lv, lk) /\ Admitted(cc, a0)
      /\ leaked' = lk /\ mode' = mode /\ cache_auto' = cache_auto
  BY <1>2 DEF Split, Apart
<1>9. Held(l, lv) /\ GoodList(l, lv, lk, st, 1)
  BY <1>2, <1>8 DEF GoodCache
<1>10. /\ ~InTable(cc, a0) /\ ~InTable(c0, a1)
       /\ Admitted(c0, a1) => TwoNew(c, c1, l, lv, ly, st, a0, a1)
  <2>1. l = cc.lru
    BY <1>2
  <2>2. QED
    BY <1>2, <1>3, <1>4, <1>5, <1>6, <1>8, <1>9, <2>1, TwoAdds
<1>11. PICK f, r :
         /\ f = Filled(c.lru, c.lru[1], c.lru[2]) \/ f = Filled(c.lru, c.lru[2], c.lru[1])
         /\ r = [c EXCEPT !.lru = f, !.disk = NewDisk(c.disk, a0, a1)]
         /\ Install(r) /\ Admitted(c0, a1) /\ live' = lvx
         /\ dir_bits' \in {dir_bits, IF dir_bits < MaxDirBits THEN dir_bits + 1 ELSE dir_bits}
         /\ pc' = IF c1.aborted THEN "aborted" ELSE "split"
  <2>1. /\ Admitted(c0, a1)
        /\ \/ Install([c EXCEPT !.lru = Filled(c.lru, c.lru[1], c.lru[2]), !.disk = NewDisk(c.disk, a0, a1)])
           \/ Install([c EXCEPT !.lru = Filled(c.lru, c.lru[2], c.lru[1]), !.disk = NewDisk(c.disk, a0, a1)])
        /\ live' = (live \ {lru[1].adr}) \cup {a0, a1}
        /\ dir_bits' \in {dir_bits, IF dir_bits < MaxDirBits THEN dir_bits + 1 ELSE dir_bits}
        /\ pc' = IF c1.aborted THEN "aborted" ELSE "split"
    BY <1>2, <1>3, <1>4, <1>5, <1>10 DEF Split, Filled, NewDisk
  <2>2. live' = lvx
    BY <1>2, <1>7, <2>1 DEF SplitOf
  <2>3. QED
    BY <2>1, <2>2, Zenon
<1>12. TwoNew(c, c1, l, lv, ly, st, a0, a1)
  BY <1>10, <1>11
<1>13. GoodCache(r, lvx, lk, st, 1) /\ Held(r.lru, lvx)
  <2>1. Done(r, c, a0, a1)
    BY <1>11 DEF Done
  <2>2. SplitFrom(l, lv, lk, ly, st, a0, a1, lvx)
    BY <1>2, <1>6, <1>7, <1>8, <1>9 DEF SplitFrom
  <2>3. QED
    BY <1>12, <2>1, <2>2, SplitCache
<1>14. pc' = "split"
  BY <1>11, <1>12 DEF TwoNew
<1>15. lvx \in SUBSET Adr /\ lk \cap lvx = {}
  BY <1>2, <1>7, <1>8 DEF SplitOf, Apart
<1>16. Settings'
  <2>1. dir_bits \in Nat /\ dir_bits <= MaxDirBits /\ MaxDirBits \in Nat
    BY <1>2, CacheAssumption DEF Settings
  <2>2. dir_bits' \in Nat /\ dir_bits' <= MaxDirBits
    BY <1>11, <2>1
  <2>3. QED
    BY <1>2, <1>8, <2>2 DEF Settings
<1>17. QED
  BY <1>2, <1>8, <1>11, <1>13, <1>14, <1>15, <1>16, InstallInv

LEMMA StepInv ==
    ASSUME SoundModes, IInv, [Next]_vars
    PROVE  IInv'
<1>1. cache_auto \in BOOLEAN
  BY DEF IInv, Settings
<1>2. ASSUME NEW a \in Adr, GetCached(a) PROVE IInv'
  BY <1>2, GetCachedStep
<1>3. ASSUME NEW a \in Adr, GetNew(a) PROVE IInv'
  BY <1>3, GetNewStep
<1>4. ASSUME NEW a \in Adr, SplitFails(a) PROVE IInv'
  BY <1>4, SplitFailsStep
<1>5. ASSUME NEW a0 \in Adr, NEW a1 \in Adr, Split(a0, a1) PROVE IInv'
  BY <1>5, SplitStep
<1>6. CASE Return
  BY <1>1, <1>6, StillStep DEF Return
<1>7. CASE Change
  BY <1>7, ChangeStep
<1>8. CASE StoreFails
  BY <1>1, <1>8, StillStep DEF StoreFails
<1>9. ASSUME NEW bits \in CacheBits, SetCacheSize(bits) PROVE IInv'
  BY <1>9, SetCacheSizeStep
<1>10. ASSUME NEW n \in BOOLEAN, SetCacheAuto(n) PROVE IInv'
  BY <1>10, StillStep DEF SetCacheAuto
<1>11. CASE UNCHANGED vars
  BY <1>1, <1>11, StillStep DEF vars
<1>12. QED
  BY <1>2, <1>3, <1>4, <1>5, <1>6, <1>7, <1>8, <1>9, <1>10, <1>11 DEF Next

\* Every call of the cache and every step of a split, failing or not, leaves list, table,
\* capacity, changed flags and the current bucket in agreement (bucket.c:46-446).
THEOREM Invariant == SoundModes => (Spec => []IInv)
<1>1. SUFFICES ASSUME SoundModes PROVE Spec => []IInv
  OBVIOUS
<1>2. Init => IInv
  BY InitInv
<1>3. IInv /\ [Next]_vars => IInv'
  BY <1>1, StepInv
<1>4. QED
  BY <1>2, <1>3, PTL DEF Spec

-----------------------------------------------------------------------------
(* What the invariant means. *)

\* The fields of the cache as variables.
LEMMA InvFields ==
    ASSUME IInv
    PROVE  /\ lru \in Seq(E) /\ Len(lru) \in Nat /\ DOMAIN lru = 1 .. Len(lru)
           /\ \A i \in 1 .. Len(lru) : lru[i] \in E
           /\ cache_bits \in CacheBits /\ avail \in Nat /\ disk \in [Adr -> BOOLEAN]
           /\ Len(lru) <= 2^cache_bits
           /\ GoodList(lru, live, leaked, mode.stale_slot, 1) /\ Written(lru, disk, live)
           /\ Holds(tab, cache_bits, InTab(lru))
<1>1. GoodCache(Cache, live, leaked, mode.stale_slot, 1)
  BY DEF IInv
<1>2. /\ Cache \in CacheRec /\ GoodList(lru, live, leaked, mode.stale_slot, 1)
      /\ Written(lru, disk, live) /\ Holds(tab, cache_bits, InTab(lru)) /\ Len(lru) <= 2^cache_bits
  BY <1>1, CacheFields DEF GoodCache
<1>3. lru \in Seq(E) /\ cache_bits \in CacheBits /\ avail \in Nat /\ disk \in [Adr -> BOOLEAN]
  BY <1>2, CacheFields DEF CacheRec
<1>4. QED
  BY <1>2, <1>3, LenProperties, ElementOfSeq

\* The list and the table hold elements of the right kind, and cache_lookup (bucket.c:318-330)
\* never lets the list grow beyond the capacity.
THEOREM TypesHold == SoundModes => (Spec => []TypeOK)
<1>1. IInv => TypeOK
  <2>1. SUFFICES ASSUME IInv PROVE TypeOK
    OBVIOUS
  <2>2. \A h \in 0 .. 2^cache_bits - 1 : \A i \in DOMAIN tab[h] : tab[h][i] \in Adr
    <3>1. \A h \in 0 .. 2^cache_bits - 1 : tab[h] \in Seq(Adr)
      BY <2>1, InvFields DEF Holds
    <3>2. QED
      BY <3>1, LenProperties, ElementOfSeq
  <2>3. live \subseteq Adr /\ leaked \subseteq Adr \ live
    BY <2>1 DEF IInv
  <2>4. pc \in {"idle", "got", "split"}
    BY <2>1 DEF IInv
  <2>5. QED
    BY <2>1, <2>2, <2>3, <2>4, InvFields DEF TypeOK, E
<1>2. QED
  BY <1>1, Invariant, PTL

\* Through lookups, evictions, splits and resizes the changed elements stay together at the
\* head of the list, the order by which _gdbm_cache_flush (bucket.c:760-768) ends its loop.
THEOREM ChangedComeFirst == SoundModes => (Spec => []ChangedFirst)
<1>1. IInv => ChangedFirst
  <2>1. SUFFICES ASSUME IInv, NEW i \in DOMAIN lru, NEW j \in DOMAIN lru, i < j, lru[j].changed
                 PROVE  lru[i].changed
    BY DEF ChangedFirst
  <2>2. Ordered(lru, 1) /\ i \in 1 .. Len(lru) /\ j \in 1 .. Len(lru) /\ Len(lru) \in Nat
    BY <2>1, InvFields DEF GoodList
  <2>3. QED
    BY <2>1, <2>2 DEF Ordered
<1>2. QED
  BY <1>1, Invariant, PTL

\* What cache_tab_lookup_slot (bucket.c:59-81) can find is never an older copy of a bucket,
\* also when an eviction has left an element outside the chains.
THEOREM CacheIsFresh == SoundModes => (Spec => []CacheFresh)
<1>1. IInv => CacheFresh
  BY InvFields DEF GoodList, Current, CacheFresh
<1>2. QED
  BY <1>1, Invariant, PTL

\* No change is lost: the file has the newest content of every bucket, or the next
\* _gdbm_cache_flush (bucket.c:760-769) writes it.
THEOREM AllAreWritten == SoundModes => (Spec => []AllWritten)
<1>1. IInv => AllWritten
  <2>1. SUFFICES ASSUME IInv, NEW a \in live, ~disk[a] PROVE \E i \in FlushRange(lru) : lru[i].adr = a
    BY DEF AllWritten
  <2>2. PICK i \in 1 .. Len(lru) : lru[i].changed /\ lru[i].adr = a
    BY <2>1, InvFields DEF Written
  <2>3. ASSUME NEW j \in 1 .. i PROVE lru[j].changed
    <3>1. Len(lru) \in Nat /\ Ordered(lru, 1)
      BY <2>1, InvFields DEF GoodList
    <3>2. j \in 1 .. Len(lru) /\ 1 <= j /\ (j = i \/ j < i)
      BY <3>1
    <3>3. QED
      BY <2>2, <3>1, <3>2 DEF Ordered
  <2>4. i \in FlushRange(lru)
    BY <2>1, <2>3, InvFields DEF FlushRange
  <2>5. QED
    BY <2>2, <2>4
<1>2. QED
  BY <1>1, Invariant, PTL

\* The list in order of use and the collision chains have the same elements, each once and
\* in the chain of its address, through cache_elem_free and cache_tab_resize (bucket.c:177-286).
THEOREM ListMatchesTable == SoundModes => (Spec => []ListIsTable)
<1>1. IInv => ListIsTable
  <2>1. SUFFICES ASSUME IInv PROVE ListIsTable
    OBVIOUS
  <2>2. InTab(lru) \in SUBSET Adr
    BY <2>1, InvFields, InTabType
  <2>3. Holds(tab, cache_bits, InTab(lru))
    BY <2>1, InvFields
  <2>4. ASSUME NEW h \in 0 .. 2^cache_bits - 1, NEW i \in DOMAIN tab[h]
        PROVE  /\ Index(tab[h][i], cache_bits) = h
               /\ \A j \in DOMAIN tab[h] : tab[h][i] = tab[h][j] => i = j
               /\ \E j \in DOMAIN lru : lru[j].adr = tab[h][i] /\ lru[j].intab
    <3>1. /\ Index(tab[h][i], cache_bits) = h
          /\ \A j \in DOMAIN tab[h] : tab[h][i] = tab[h][j] => i = j
          /\ tab[h][i] \in InTab(lru)
      BY <2>3 DEF Holds
    <3>2. QED
      BY <2>1, <3>1, InvFields DEF InTab
  <2>5. ASSUME NEW i \in DOMAIN lru PROVE lru[i].intab => InTable(Cache, lru[i].adr)
    <3>1. SUFFICES ASSUME lru[i].intab PROVE InTable(Cache, lru[i].adr)
      OBVIOUS
    <3>2. i \in 1 .. Len(lru) /\ lru[i] \in E
      BY <2>1, InvFields
    <3>3. PICK a \in Adr : a = lru[i].adr
      BY <3>2 DEF E
    <3>4. a \in InTab(Cache.lru)
      BY <3>1, <3>2, <3>3, CacheFields DEF InTab
    <3>5. GoodCache(Cache, live, leaked, mode.stale_slot, 1)
      BY <2>1 DEF IInv
    <3>6. InTable(Cache, a)
      BY <3>4, <3>5, LookupFinds
    <3>7. QED
      BY <3>3, <3>6
  <2>6. ASSUME NEW i \in DOMAIN lru PROVE mode.stale_slot \/ lru[i].intab
    BY <2>1, InvFields DEF GoodList, Chained, AllChained
  <2>7. QED
    BY <2>4, <2>5, <2>6 DEF ListIsTable
<1>2. QED
  BY <1>1, Invariant, PTL

\* The places marked as impossible are not reached: cache_tab_resize (bucket.c:279) never
\* finds an address entered already, and a split never gets a new bucket that is in the
\* cache already (bucket.c:486-523).
THEOREM CacheIsSound == SoundModes => (Spec => []NeverCorrupted)
<1>1. IInv => NeverCorrupted
  BY DEF IInv, NeverCorrupted
<1>2. QED
  BY <1>1, Invariant, PTL

=============================================================================
