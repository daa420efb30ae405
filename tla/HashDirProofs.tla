---------------------------- MODULE HashDirProofs ----------------------------
(***************************************************************************)
(* Proofs about module HashDir, for every set of keys, hash function,      *)
(* bucket size and depth of the directory.                                 *)
(***************************************************************************)
EXTENDS HashDir, FiniteSetTheorems, WellFoundedInduction, TLAPS

-----------------------------------------------------------------------------
(* Numbers. *)

\* A set of natural numbers has a least element.
LEMMA LeastNat ==
    ASSUME NEW S, S \subseteq Nat, S # {}
    PROVE  \E x \in S : \A y \in S : x <= y
<1>1. PICK x \in S : \A y \in S : ~(<<y, x>> \in OpToRel(<, Nat))
  BY NatLessThanWellFounded, WFMin
<1>2. \A y \in S : ~(y < x)
  BY <1>1 DEF OpToRel
<1>3. QED
  BY <1>2

\* Induction up to a bound, on the set of the numbers that have the property.
LEMMA UpTo ==
    ASSUME NEW N \in Nat, NEW T, 0 \in T, \A n \in 0 .. N - 1 : n \in T => n + 1 \in T
    PROVE  \A n \in 0 .. N : n \in T
<1> DEFINE Out == {n \in 0 .. N : n \notin T}
<1>1. ASSUME Out # {} PROVE FALSE
  <2>0. Out \subseteq Nat
    OBVIOUS
  <2>1. PICK x \in Out : \A y \in Out : x <= y
    <3> HIDE DEF Out
    <3>1. QED
      BY <1>1, <2>0, LeastNat
  <2>2. x \in 0 .. N /\ x \notin T
    BY <2>1
  <2>3. x - 1 \in 0 .. N - 1 /\ (x - 1) + 1 = x /\ ~(x <= x - 1)
    BY <2>2
  <2>4. x - 1 \notin Out
    BY <2>1, <2>3
  <2>5. QED
    BY <2>2, <2>3, <2>4
<1>2. QED
  BY <1>1

\* Recursion up to a bound: F[n][x] is the value at n when x is the one at n - 1.
Recursive(g, N, S, z, F) ==
    g \in [0 .. N -> S] /\ g[0] = z /\ \A n \in 1 .. N : g[n] = F[n][g[n - 1]]

LEMMA Recursion ==
    ASSUME NEW N \in Nat, NEW S, NEW z \in S, NEW F \in [1 .. N -> [S -> S]]
    PROVE  \E g : Recursive(g, N, S, z, F)
<1> DEFINE T == {n \in 0 .. N : \E g : Recursive(g, n, S, z, F)}
<1>1. 0 \in T
  <2> DEFINE g0 == [i \in 0 .. 0 |-> z]
  <2>1. g0 \in [0 .. 0 -> S] /\ g0[0] = z /\ \A i \in 1 .. 0 : FALSE
    OBVIOUS
  <2> HIDE DEF g0
  <2>2. Recursive(g0, 0, S, z, F)
    BY <2>1 DEF Recursive
  <2>3. QED
    BY <2>2
<1>2. ASSUME NEW n \in 0 .. N - 1, n \in T PROVE n + 1 \in T
  <2>1. PICK g : Recursive(g, n, S, z, F)
    BY <1>2
  <2> DEFINE h == [i \in 0 .. n + 1 |-> IF i <= n THEN g[i] ELSE F[n + 1][g[n]]]
  <2>2. F[n + 1][g[n]] \in S
    <3>1. g[n] \in S /\ n + 1 \in 1 .. N
      BY <2>1 DEF Recursive
    <3>2. QED
      BY <3>1
  <2>3. h \in [0 .. n + 1 -> S] /\ h[0] = z
    BY <2>1, <2>2 DEF Recursive
  <2>4. ASSUME NEW i \in 1 .. n + 1 PROVE h[i] = F[i][h[i - 1]]
    <3>1. CASE i <= n
      BY <2>1, <3>1 DEF Recursive
    <3>2. CASE i = n + 1
      BY <3>2
    <3>3. QED
      BY <3>1, <3>2
  <2> HIDE DEF h
  <2>5. Recursive(h, n + 1, S, z, F)
    BY <2>3, <2>4 DEF Recursive
  <2>6. n + 1 \in 0 .. N
    OBVIOUS
  <2>7. QED
    BY <2>5, <2>6
<1>3. N \in T
  <2> HIDE DEF T
  <2>1. N \in 0 .. N
    OBVIOUS
  <2>2. QED
    BY <1>1, <1>2, <2>1, UpTo
<1>4. QED
  BY <1>3

\* The remainder of a number less than two units above or one below zero.
LEMMA SmallMod ==
    ASSUME NEW n \in Nat \ {0}, NEW x \in Int
    PROVE  /\ x \in 0 .. n - 1 => x % n = x
           /\ x \in n .. 2 * n - 1 => x % n = x - n
           /\ x \in -n .. -1 => x % n = x + n
<1>1. /\ x % n \in Int /\ 0 <= x % n /\ x % n < n /\ x \div n \in Int
      /\ x = n * (x \div n) + (x % n)
  OBVIOUS
<1> DEFINE q == x \div n
           r == x % n
<1> HIDE DEF q, r
<1>2. q \in Int /\ r \in Int /\ 0 <= r /\ r < n /\ x = n * q + r
  BY <1>1 DEF q, r
<1>3. q >= 2 => n * q >= 2 * n
  BY <1>2
<1>4. q <= -2 => n * q <= -(2 * n)
  BY <1>2
<1>5. CASE q \in -1 .. 1
  <2>1. q = -1 \/ q = 0 \/ q = 1
    BY <1>5
  <2>2. QED
    BY <1>2, <2>1 DEF r
<1>6. CASE q \notin -1 .. 1
  BY <1>2, <1>3, <1>4, <1>6 DEF r
<1>7. QED
  BY <1>5, <1>6

-----------------------------------------------------------------------------
(* Tables: what holds of one bucket. *)

\* Slot x lies on the way from slot a, included, to slot b, excluded.
InArc(a, b, x) == IF a <= b THEN a <= x /\ x < b ELSE a <= x \/ x < b

\* Every element is reached by probing for its key, and no key is there twice.
Closed(t) == \A s \in Used(t) : Reached(t, t[s].key, s)
Unique(t) == \A s, r \in Used(t) : t[s].key = t[r].key => s = r

\* Some slot is on the way to no element: the one that was filled last, if all are.
Avoids(t, f) == \A s \in Used(t) : ~InArc(Home(t[s].key), s, f)
Cut(t) == \E f \in Slot : Avoids(t, f)

GoodTable(t) == t \in Table /\ Closed(t) /\ Unique(t) /\ Cut(t)

Elems(t) == {t[s] : s \in Used(t)}

\* The elements of a table.
LEMMA UsedFacts ==
    ASSUME NEW t \in Table, NEW s \in Slot
    PROVE  s \in Used(t) <=> t[s] \in Elem
BY ConstAssumption DEF Used, Table

LEMMA SlotFacts ==
    /\ \A i \in Slot : i \in Int /\ 0 <= i /\ i < BucketElems
    /\ \A i \in Int : 0 <= i /\ i < BucketElems => i \in Slot
    /\ BucketElems \in Nat /\ BucketElems # 0
BY ConstAssumption DEF Slot

LEMMA HomeIsSlot == \A k \in Key : Home(k) \in Slot
<1> SUFFICES ASSUME NEW k \in Key PROVE Home(k) \in Slot
  OBVIOUS
<1>1. Hash[k] \in Int
  <2>1. 2^HashBits \in Nat
    BY ConstAssumption, PowerAssumption
  <2>2. QED
    BY <2>1, ConstAssumption
<1>2. Hash[k] % BucketElems \in Int /\ 0 <= Hash[k] % BucketElems /\ Hash[k] % BucketElems < BucketElems
  BY <1>1, ConstAssumption
<1>3. QED
  BY <1>2, SlotFacts DEF Home

\* The number of steps from the home slot of k to slot s, and the slot they lead to.
Dist(k, s) == (s - Home(k)) % BucketElems

LEMMA DistFacts ==
    ASSUME NEW k \in Key, NEW s \in Slot
    PROVE  /\ Dist(k, s) \in Slot
           /\ Dist(k, s) = IF Home(k) <= s THEN s - Home(k) ELSE s - Home(k) + BucketElems
           /\ Probe(k, Dist(k, s)) = s
<1>1. Home(k) \in Int /\ 0 <= Home(k) /\ Home(k) < BucketElems
      /\ s \in Int /\ 0 <= s /\ s < BucketElems
      /\ BucketElems \in Nat \ {0}
  BY SlotFacts, HomeIsSlot
<1>2. Dist(k, s) = IF Home(k) <= s THEN s - Home(k) ELSE s - Home(k) + BucketElems
  BY <1>1, SmallMod DEF Dist
<1>3. Dist(k, s) \in Slot
  BY <1>1, <1>2, SlotFacts
<1>4. Probe(k, Dist(k, s)) = s
  <2> DEFINE x == Home(k) + Dist(k, s)
  <2>1. x \in Int /\ x \in 0 .. 2 * BucketElems - 1
    BY <1>1, <1>2
  <2>2. x = IF Home(k) <= s THEN s ELSE s + BucketElems
    BY <1>1, <1>2
  <2>3. x % BucketElems = s
    BY <1>1, <2>1, <2>2, SmallMod
  <2>4. QED
    BY <2>3 DEF Probe
<1>5. QED
  BY <1>2, <1>3, <1>4

LEMMA ProbeFacts ==
    ASSUME NEW k \in Key, NEW m \in Slot
    PROVE  /\ Probe(k, m) \in Slot
           /\ Probe(k, m) = IF Home(k) + m < BucketElems THEN Home(k) + m
                            ELSE Home(k) + m - BucketElems
           /\ Dist(k, Probe(k, m)) = m
<1>1. Home(k) \in Int /\ 0 <= Home(k) /\ Home(k) < BucketElems
      /\ m \in Int /\ 0 <= m /\ m < BucketElems
      /\ BucketElems \in Nat \ {0}
  BY SlotFacts, HomeIsSlot
<1>2. Probe(k, m) = IF Home(k) + m < BucketElems THEN Home(k) + m ELSE Home(k) + m - BucketElems
  BY <1>1, SmallMod DEF Probe
<1>3. Probe(k, m) \in Slot
  BY <1>1, <1>2, SlotFacts
<1>4. Dist(k, Probe(k, m)) = m
  BY <1>1, <1>2, <1>3, DistFacts
<1>5. QED
  BY <1>2, <1>3, <1>4

\* The slots that probing passes before it reaches s are those of the arc.
LEMMA ReachedIsArc ==
    ASSUME NEW t, NEW k \in Key, NEW s \in Slot
    PROVE  Reached(t, k, s) <=> \A x \in Slot : InArc(Home(k), s, x) => t[x] # None
<1>1. Home(k) \in Int /\ 0 <= Home(k) /\ Home(k) < BucketElems
      /\ s \in Int /\ 0 <= s /\ s < BucketElems
      /\ BucketElems \in Nat \ {0}
  BY SlotFacts, HomeIsSlot
<1>2. Dist(k, s) \in Int /\ Dist(k, s) \in Slot
      /\ Dist(k, s) = IF Home(k) <= s THEN s - Home(k) ELSE s - Home(k) + BucketElems
  BY DistFacts, SlotFacts
<1>3. ASSUME Reached(t, k, s), NEW x \in Slot, InArc(Home(k), s, x) PROVE t[x] # None
  <2>1. x \in Int /\ 0 <= x /\ x < BucketElems
    BY SlotFacts
  <2>2. /\ Dist(k, x) \in Int /\ Dist(k, x) \in Slot /\ Probe(k, Dist(k, x)) = x
        /\ Dist(k, x) = IF Home(k) <= x THEN x - Home(k) ELSE x - Home(k) + BucketElems
    BY DistFacts, SlotFacts
  <2>3. Dist(k, x) \in 0 .. Dist(k, s) - 1
    BY <1>1, <1>2, <1>3, <2>1, <2>2 DEF InArc
  <2>4. QED
    BY <1>3, <2>2, <2>3 DEF Reached, Dist
<1>4. ASSUME \A x \in Slot : InArc(Home(k), s, x) => t[x] # None,
             NEW j \in 0 .. Dist(k, s) - 1
      PROVE  t[Probe(k, j)] # None
  <2>1. j \in Slot
    BY <1>2, SlotFacts
  <2>2. /\ Probe(k, j) \in Slot
        /\ Probe(k, j) = IF Home(k) + j < BucketElems THEN Home(k) + j ELSE Home(k) + j - BucketElems
    BY <2>1, ProbeFacts
  <2>3. InArc(Home(k), s, Probe(k, j))
    BY <1>1, <1>2, <2>2 DEF InArc
  <2>4. QED
    BY <1>4, <2>2, <2>3
<1>5. QED
  BY <1>3, <1>4 DEF Reached, Dist

\* As long as there is a free slot, gdbm_store meets one.
LEMMA FreeSlotRight ==
    ASSUME NEW t \in Table, NEW k \in Key, Used(t) # Slot
    PROVE  /\ FreeSlot(t, k) \in Slot /\ t[FreeSlot(t, k)] = None
           /\ Reached(t, k, FreeSlot(t, k))
<1> DEFINE Free == {m \in Slot : t[Probe(k, m)] = None}
<1>1. Free # {}
  <2>1. PICK s \in Slot : t[s] = None
    BY DEF Used
  <2>2. QED
    BY <2>1, DistFacts
<1>2. Free \subseteq Nat
  BY SlotFacts
<1>3. PICK m \in Free : \A y \in Free : m <= y
  <2> HIDE DEF Free
  <2>1. QED
    BY <1>1, <1>2, LeastNat
<1>4. m \in Slot /\ m \in Int /\ Probe(k, m) \in Slot /\ t[Probe(k, m)] = None
      /\ Dist(k, Probe(k, m)) = m
  BY <1>3, SlotFacts, ProbeFacts
<1>5. \A j \in 0 .. m - 1 : t[Probe(k, j)] # None
  <2> SUFFICES ASSUME NEW j \in 0 .. m - 1 PROVE t[Probe(k, j)] # None
    OBVIOUS
  <2>1. j \in Slot /\ ~(m <= j)
    BY <1>4, SlotFacts
  <2>2. QED
    BY <1>3, <2>1
<1>6. Probe(k, m) \in Slot \ Used(t) /\ Reached(t, k, Probe(k, m))
  BY <1>4, <1>5 DEF Reached, Dist, Used
<1> DEFINE f == CHOOSE s \in Slot \ Used(t) : Reached(t, k, s)
<1>7. f \in Slot \ Used(t) /\ Reached(t, k, f)
  BY <1>6
<1>8. QED
  BY <1>7 DEF FreeSlot, Used

\* A new element is put where it is found, and the other elements still are.
LEMMA PutRight ==
    ASSUME NEW t, GoodTable(t), NEW e \in Elem, Used(t) # Slot,
           \A x \in Elems(t) : x.key # e.key
    PROVE  /\ GoodTable(Put(t, e))
           /\ Elems(Put(t, e)) = Elems(t) \cup {e}
           /\ \E f \in Slot : f \notin Used(t) /\ Used(Put(t, e)) = Used(t) \cup {f}
<1> DEFINE f == FreeSlot(t, e.key)
           u == [t EXCEPT ![f] = e]
<1>0. t \in Table /\ e.key \in Key
  BY DEF GoodTable, Elem
<1>1. f \in Slot /\ t[f] = None /\ Reached(t, e.key, f)
  BY <1>0, FreeSlotRight
<1> HIDE DEF f
<1>2. u \in Table /\ u[f] = e /\ \A s \in Slot \ {f} : u[s] = t[s]
  BY <1>0, <1>1 DEF Table
<1>3. e # None
  BY ConstAssumption
<1>u. Put(t, e) = u
  BY DEF Put, f
<1> HIDE DEF u
<1>4. Used(u) = Used(t) \cup {f} /\ f \notin Used(t)
  BY <1>1, <1>2, <1>3 DEF Used
<1>5. \A s \in Slot : t[s] # None => u[s] # None
  BY <1>1, <1>2, <1>3
<1>6. \A s \in Used(t) : s \in Slot /\ u[s] = t[s] /\ t[s] \in Elem /\ t[s].key \in Key
  <2> SUFFICES ASSUME NEW s \in Used(t) PROVE s \in Slot /\ u[s] = t[s] /\ t[s] \in Elem /\ t[s].key \in Key
    OBVIOUS
  <2>1. s \in Slot /\ s # f
    BY <1>4 DEF Used
  <2>2. t[s] \in Elem
    BY <1>0, <2>1, UsedFacts
  <2>3. QED
    BY <1>2, <2>1, <2>2 DEF Elem
<1>7. Closed(u)
  <2> SUFFICES ASSUME NEW s \in Used(u) PROVE Reached(u, u[s].key, s)
    BY DEF Closed
  <2>1. CASE s = f
    BY <1>0, <1>1, <1>2, <1>5, <2>1, ReachedIsArc
  <2>2. CASE s \in Used(t)
    <3>1. Reached(t, t[s].key, s)
      BY <2>2 DEF GoodTable, Closed
    <3>2. QED
      BY <1>5, <1>6, <2>2, <3>1, ReachedIsArc
  <2>3. QED
    BY <1>4, <2>1, <2>2
<1>8. Unique(u)
  <2>1. \A s \in Used(t) : t[s].key # e.key
    BY DEF Elems
  <2>2. QED
    BY <1>2, <1>4, <1>6, <2>1 DEF GoodTable, Unique
<1>9. Elems(u) = Elems(t) \cup {e}
  BY <1>2, <1>4, <1>6 DEF Elems
<1>10. Avoids(u, f)
  <2> SUFFICES ASSUME NEW s \in Used(u) PROVE ~InArc(Home(u[s].key), s, f)
    BY DEF Avoids
  <2>1. CASE s = f
    BY <1>1, <2>1, SlotFacts, HomeIsSlot, <1>0, <1>2 DEF InArc
  <2>2. CASE s \in Used(t)
    <3>1. Reached(t, t[s].key, s)
      BY <2>2 DEF GoodTable, Closed
    <3>2. QED
      BY <1>1, <1>6, <2>2, <3>1, ReachedIsArc
  <2>3. QED
    BY <1>4, <2>1, <2>2
<1>11. QED
  BY <1>1, <1>2, <1>4, <1>7, <1>8, <1>9, <1>10, <1>u DEF GoodTable, Cut

\* An empty table, and one in which the contents of an element are replaced.
LEMMA EmptyTableRight == GoodTable(EmptyTable) /\ Elems(EmptyTable) = {} /\ Used(EmptyTable) = {}
<1>1. EmptyTable \in Table /\ Used(EmptyTable) = {}
  BY DEF EmptyTable, Table, Used
<1>2. 0 \in Slot
  BY SlotFacts
<1>3. QED
  BY <1>1, <1>2 DEF GoodTable, Closed, Unique, Cut, Avoids, Elems

LEMMA ReplaceRight ==
    ASSUME NEW t, GoodTable(t), NEW s \in Used(t), NEW v \in Value
    PROVE  /\ GoodTable([t EXCEPT ![s].data = v])
           /\ Elems([t EXCEPT ![s].data = v]) = (Elems(t) \ {t[s]}) \cup {[key |-> t[s].key, data |-> v]}
           /\ Used([t EXCEPT ![s].data = v]) = Used(t)
<1> DEFINE u == [t EXCEPT ![s].data = v]
           e == [key |-> t[s].key, data |-> v]
<1>0. t \in Table /\ s \in Slot
  BY DEF GoodTable, Used
<1>1. t[s] \in Elem /\ t[s].key \in Key
  BY <1>0, UsedFacts DEF Elem
<1>2. [t[s] EXCEPT !.data = v] = e /\ e \in Elem /\ e # None
  BY <1>1, ConstAssumption DEF Elem
<1>3. u \in Table /\ u[s] = e /\ \A r \in Slot \ {s} : u[r] = t[r]
  BY <1>0, <1>2 DEF Table
<1> HIDE DEF u, e
<1>4. Used(u) = Used(t)
  BY <1>0, <1>2, <1>3 DEF Used
<1>5. \A r \in Used(t) : r \in Slot /\ t[r] \in Elem /\ t[r].key \in Key /\ u[r].key = t[r].key
  <2> SUFFICES ASSUME NEW r \in Used(t)
               PROVE r \in Slot /\ t[r] \in Elem /\ t[r].key \in Key /\ u[r].key = t[r].key
    OBVIOUS
  <2>1. r \in Slot /\ t[r] \in Elem /\ t[r].key \in Key
    BY <1>0, UsedFacts DEF Used, Elem
  <2>2. e.key = t[s].key
    BY DEF e
  <2>3. QED
    BY <1>3, <2>1, <2>2
<1>6. \A r \in Slot : t[r] # None => u[r] # None
  BY <1>2, <1>3
<1>7. Closed(u)
  <2> SUFFICES ASSUME NEW r \in Used(t) PROVE Reached(u, u[r].key, r)
    BY <1>4 DEF Closed
  <2>1. Reached(t, t[r].key, r)
    BY DEF GoodTable, Closed
  <2>2. QED
    BY <1>5, <1>6, <2>1, ReachedIsArc
<1>8. Unique(u) /\ Cut(u)
  BY <1>4, <1>5 DEF GoodTable, Unique, Cut, Avoids
<1>9. Elems(u) = (Elems(t) \ {t[s]}) \cup {e}
  <2>1. \A r \in Used(t) : r # s => u[r] = t[r] /\ t[r] # t[s]
    BY <1>3, <1>5 DEF GoodTable, Unique
  <2>2. QED
    BY <1>3, <1>4, <2>1 DEF Elems
<1>10. QED
  BY <1>3, <1>4, <1>7, <1>8, <1>9 DEF GoodTable, u, e

\* What a call finds in a good table.
LEMMA FindKeyRight ==
    ASSUME NEW t, GoodTable(t), NEW k \in Key
    PROVE  /\ FindKey(t, k) = {s \in Used(t) : t[s].key = k}
           /\ \A s \in Used(t) : t[s].key = k => FindKey(t, k) = {s}
<1>1. FindKey(t, k) = {s \in Used(t) : t[s].key = k}
  BY DEF GoodTable, Closed, FindKey
<1>2. QED
  BY <1>1 DEF GoodTable, Unique

-----------------------------------------------------------------------------
(* Closing the gap. *)

NextSlot(i) == IF i + 1 = BucketElems THEN 0 ELSE i + 1

\* One iteration of the loop of gdbm_delete.
GapStep(s, m, g) ==
    LET e == (s + m) % BucketElems
    IN IF g.ended \/ e = g.last \/ g.table[e] = None
       THEN [g EXCEPT !.ended = TRUE]
       ELSE IF MustMove(g.last, e, Home(g.table[e].key))
            THEN [g EXCEPT !.table = [@ EXCEPT ![g.last] = g.table[e], ![e] = None], !.last = e]
            ELSE g

GapState == [table : Table, last : Slot, ended : BOOLEAN]

\* The slot looked at in iteration m.
LEMMA ScanFacts ==
    ASSUME NEW s \in Slot, NEW m \in 0 .. BucketElems
    PROVE  /\ (s + m) % BucketElems \in Slot
           /\ (s + m) % BucketElems = IF s + m < BucketElems THEN s + m ELSE s + m - BucketElems
           /\ m < BucketElems => (s + m + 1) % BucketElems = NextSlot((s + m) % BucketElems)
<1>1. s \in Int /\ 0 <= s /\ s < BucketElems /\ m \in Int /\ 0 <= m /\ m <= BucketElems
      /\ BucketElems \in Nat \ {0}
  BY SlotFacts
<1>w. ASSUME NEW x \in 0 .. 2 * BucketElems - 1
      PROVE  x % BucketElems = IF x < BucketElems THEN x ELSE x - BucketElems
  <2>1. x \in Int /\ (x \in 0 .. BucketElems - 1 \/ x \in BucketElems .. 2 * BucketElems - 1)
    BY <1>1
  <2>2. /\ x \in 0 .. BucketElems - 1 => x % BucketElems = x
        /\ x \in BucketElems .. 2 * BucketElems - 1 => x % BucketElems = x - BucketElems
    BY <1>1, <2>1, SmallMod
  <2>3. QED
    BY <1>1, <2>1, <2>2
<1>2. (s + m) % BucketElems = IF s + m < BucketElems THEN s + m ELSE s + m - BucketElems
  <2>1. PICK x \in 0 .. 2 * BucketElems - 1 : x = s + m
    BY <1>1
  <2>2. x % BucketElems = IF x < BucketElems THEN x ELSE x - BucketElems
    BY <1>w
  <2>3. QED
    BY <1>1, <2>1, <2>2
<1>3. m < BucketElems => (s + m + 1) % BucketElems =
          IF s + m + 1 < BucketElems THEN s + m + 1 ELSE s + m + 1 - BucketElems
  <2> SUFFICES ASSUME m < BucketElems
               PROVE  (s + m + 1) % BucketElems =
                        IF s + m + 1 < BucketElems THEN s + m + 1 ELSE s + m + 1 - BucketElems
    OBVIOUS
  <2>1. PICK x \in 0 .. 2 * BucketElems - 1 : x = s + m + 1
    BY <1>1
  <2>2. x % BucketElems = IF x < BucketElems THEN x ELSE x - BucketElems
    BY <1>w
  <2>3. QED
    BY <1>1, <2>1, <2>2
<1>4. QED
  BY <1>1, <1>2, <1>3, SlotFacts DEF NextSlot

LEMMA GapStepType ==
    ASSUME NEW s \in Slot, NEW m \in 1 .. BucketElems, NEW g \in GapState
    PROVE  GapStep(s, m, g) \in GapState
<1> DEFINE e == (s + m) % BucketElems
<1>1. e \in Slot
  BY ScanFacts, SlotFacts
<1>2. g.table \in Table /\ g.last \in Slot /\ g.table[e] \in Elem \cup {None}
  BY <1>1 DEF GapState, Table
<1>3. [g.table EXCEPT ![g.last] = g.table[e], ![e] = None] \in Table
  BY <1>1, <1>2 DEF Table
<1> HIDE DEF e
<1>4. QED
  BY <1>1, <1>2, <1>3 DEF GapStep, GapState, e

\* The loop as a sequence of states.
LEMMA RemoveUnfolds ==
    ASSUME NEW t \in Table, NEW s \in Slot
    PROVE  \E G \in [0 .. BucketElems -> GapState] :
             /\ G[0] = [table |-> [t EXCEPT ![s] = None], last |-> s, ended |-> FALSE]
             /\ \A m \in 1 .. BucketElems : G[m] = GapStep(s, m, G[m - 1])
             /\ Remove(t, s) = G[BucketElems].table
<1> DEFINE z == [table |-> [t EXCEPT ![s] = None], last |-> s, ended |-> FALSE]
           F == [m \in 1 .. BucketElems |-> [g \in GapState |-> GapStep(s, m, g)]]
           Rec(g) == [m \in 0 .. BucketElems |-> IF m = 0 THEN z ELSE GapStep(s, m, g[m - 1])]
<1>1. z \in GapState /\ BucketElems \in Nat
  <2>1. [t EXCEPT ![s] = None] \in Table
    BY DEF Table
  <2>2. QED
    BY <2>1, SlotFacts DEF GapState
<1>2. F \in [1 .. BucketElems -> [GapState -> GapState]]
  BY GapStepType
<1>r. PICK g : Recursive(g, BucketElems, GapState, z, F)
  <2> HIDE DEF F, z
  <2>1. QED
    BY <1>1, <1>2, Recursion
<1>3. /\ g \in [0 .. BucketElems -> GapState] /\ g[0] = z
      /\ \A m \in 1 .. BucketElems : g[m] = F[m][g[m - 1]]
  <2> HIDE DEF F, z
  <2>1. QED
    BY <1>r DEF Recursive
<1>4. ASSUME NEW m \in 1 .. BucketElems PROVE g[m] = GapStep(s, m, g[m - 1])
  <2>1. g[m - 1] \in GapState
    <3> HIDE DEF F, z
    <3>1. m - 1 \in 0 .. BucketElems
      BY <1>1
    <3>2. QED
      BY <1>3, <3>1
  <2>2. QED
    BY <1>3, <2>1
<1>5. g = Rec(g)
  <2> HIDE DEF z
  <2>1. \A m \in 0 .. BucketElems : g[m] = Rec(g)[m]
    BY <1>1, <1>3, <1>4
  <2> HIDE DEF F
  <2>2. QED
    BY <1>3, <2>1
<1> DEFINE G == CHOOSE h : h = Rec(h)
<1>6. G = Rec(G)
  <2> HIDE DEF Rec
  <2>1. QED
    BY <1>5
<1>7. Remove(t, s) = G[BucketElems].table
  BY Zenon DEF Remove, GapStep
<1> HIDE DEF G
<1>8. \A m \in 1 .. BucketElems : G[m] = GapStep(s, m, G[m - 1])
  <2> HIDE DEF z
  <2>1. QED
    BY <1>1, <1>6
<1>9. G[0] = z
  <2> HIDE DEF z
  <2>1. QED
    BY <1>1, <1>6
<1>10. G \in [0 .. BucketElems -> GapState]
  <2> DEFINE T == {m \in 0 .. BucketElems : G[m] \in GapState}
  <2>1. 0 \in T
    BY <1>1, <1>9
  <2>2. ASSUME NEW m \in 0 .. BucketElems - 1, m \in T PROVE m + 1 \in T
    <3>1. m + 1 \in 1 .. BucketElems /\ (m + 1) - 1 = m /\ G[m] \in GapState
      BY <1>1, <2>2
    <3>2. G[m + 1] = GapStep(s, m + 1, G[m])
      BY <1>8, <3>1
    <3>3. QED
      BY <1>1, <3>1, <3>2, GapStepType, SMTT(30)
  <2>3. \A m \in 0 .. BucketElems : m \in T
    <3> HIDE DEF T
    <3>1. QED
      BY <1>1, <2>1, <2>2, UpTo
  <2>4. \A m \in 0 .. BucketElems : G[m] \in GapState
    BY <2>3
  <2>5. G = [m \in 0 .. BucketElems |-> G[m]]
    BY <1>6
  <2>6. QED
    BY <2>4, <2>5
<1>11. QED
  BY <1>7, <1>8, <1>9, <1>10

\* The gap on the way to the element in slot i, and the slots before that.
HomeAt(t, i) == Home(t[i].key)

\* MustMove is the test that the gap lies on the way from home to the element.
LEMMA MustMoveIsArc ==
    ASSUME NEW l \in Slot, NEW e \in Slot, NEW h \in Slot, l # e
    PROVE  MustMove(l, e, h) <=> InArc(h, e, l)
BY SlotFacts DEF InArc, MustMove

LEMMA HomeAtSlot ==
    ASSUME NEW t \in Table, NEW i \in Used(t)
    PROVE  /\ i \in Slot /\ t[i] \in Elem /\ t[i].key \in Key /\ HomeAt(t, i) \in Slot
           /\ Reached(t, t[i].key, i) <=> \A x \in Slot : InArc(HomeAt(t, i), i, x) => t[x] # None
<1>1. i \in Slot /\ t[i] \in Elem
  BY UsedFacts DEF Used
<1>2. t[i].key \in Key
  BY <1>1 DEF Elem
<1>3. QED
  BY <1>1, <1>2, HomeIsSlot, ReachedIsArc DEF HomeAt

\* The loop of gdbm_delete before it looks at slot e, with slot l emptied last: the
\* only hole on the way to an element is l, and not for the elements passed since.
Scanning(t, l, e) ==
    \A i \in Used(t) :
        /\ \A x \in Slot : InArc(HomeAt(t, i), i, x) => t[x] # None \/ x = l
        /\ InArc(HomeAt(t, i), i, l) => ~InArc(NextSlot(l), e, i)

\* The state after m iterations, when the element of slot s is taken out of t and
\* f is a slot that is on the way to no element.
GapInv(t, s, f, m, g) ==
    /\ g \in GapState
    /\ g.table[g.last] = None
    /\ Unique(g.table)
    /\ Elems(g.table) = Elems(t) \ {t[s]}
    /\ Avoids(g.table, f)
    /\ ~InArc(s, g.last, f)
    /\ m < BucketElems => g.last = (s + m) % BucketElems \/ InArc(s, (s + m) % BucketElems, g.last)
    /\ m = BucketElems /\ ~g.ended => g.last # s
    /\ IF g.ended THEN Closed(g.table)
       ELSE Scanning(g.table, g.last, NextSlot((s + m) % BucketElems))

\* The scan ends at an empty slot or at the gap: no chain has a hole left.
LEMMA ScanEnds ==
    ASSUME NEW t \in Table, NEW l \in Slot, NEW e \in Slot, t[l] = None,
           Scanning(t, l, e), e = l \/ t[e] = None
    PROVE  Closed(t)
<1> SUFFICES ASSUME NEW i \in Used(t), NEW x \in Slot, InArc(HomeAt(t, i), i, x) PROVE t[x] # None
  BY HomeAtSlot DEF Closed
<1>1. i \in Slot /\ HomeAt(t, i) \in Slot /\ t[i] # None
  BY HomeAtSlot DEF Used
<1>2. SUFFICES ASSUME x = l PROVE FALSE
  BY DEF Scanning
<1>3. ~InArc(NextSlot(l), e, i) /\ i # l
  BY <1>1, <1>2 DEF Scanning
<1>4. e # l
  BY <1>1, <1>3, SlotFacts DEF InArc, NextSlot
<1>5. InArc(HomeAt(t, i), i, e)
  <2>1. i # e
    BY <1>1, <1>4
  <2>2. QED
    BY <1>1, <1>2, <1>3, <1>4, <2>1, SlotFacts DEF InArc, NextSlot
<1>6. QED
  BY <1>4, <1>5 DEF Scanning

\* An element that does not need the gap is passed.
LEMMA ScanPasses ==
    ASSUME NEW t \in Table, NEW l \in Slot, NEW e \in Slot, l # e, e \in Used(t),
           Scanning(t, l, e), ~InArc(HomeAt(t, e), e, l)
    PROVE  Scanning(t, l, NextSlot(e))
<1> SUFFICES ASSUME NEW i \in Used(t), InArc(HomeAt(t, i), i, l), InArc(NextSlot(l), NextSlot(e), i)
             PROVE  FALSE
  BY DEF Scanning
<1>1. i \in Slot
  BY HomeAtSlot
<1>2. InArc(NextSlot(l), e, i) \/ i = e
  BY <1>1, SlotFacts DEF InArc, NextSlot
<1>3. QED
  BY <1>2 DEF Scanning

\* An element that needs the gap is moved there and leaves one behind.
LEMMA ScanMoves ==
    ASSUME NEW t \in Table, NEW l \in Slot, NEW e \in Slot, l # e, e \in Used(t), t[l] = None,
           Scanning(t, l, e), InArc(HomeAt(t, e), e, l), Unique(t),
           NEW f \in Slot, Avoids(t, f), NEW u, u = [t EXCEPT ![l] = t[e], ![e] = None]
    PROVE  /\ u \in Table /\ u[e] = None /\ Unique(u) /\ Elems(u) = Elems(t) /\ Avoids(u, f)
           /\ Scanning(u, e, NextSlot(e))
           /\ ~InArc(l, e, f)
<1>1. t[e] \in Elem /\ HomeAt(t, e) \in Slot /\ t[e] # None
  BY HomeAtSlot DEF Used
<1>2. /\ u \in Table /\ u[l] = t[e] /\ u[e] = None
      /\ \A x \in Slot : x # l /\ x # e => u[x] = t[x]
  BY <1>1 DEF Table
<1>3. Used(u) = (Used(t) \ {e}) \cup {l} /\ l \notin Used(t)
  BY <1>1, <1>2 DEF Used
<1>4. \A i \in Used(t) \ {e} : i \in Slot /\ i # l /\ i # e /\ u[i] = t[i] /\ HomeAt(u, i) = HomeAt(t, i)
  BY <1>2, <1>3, HomeAtSlot DEF HomeAt
<1>5. HomeAt(u, l) = HomeAt(t, e)
  BY <1>2 DEF HomeAt
<1>6. Elems(u) = Elems(t)
  BY <1>2, <1>3, <1>4 DEF Elems
<1>7. Unique(u)
  <2> SUFFICES ASSUME NEW i \in Used(u), NEW j \in Used(u), u[i].key = u[j].key PROVE i = j
    BY DEF Unique
  <2>1. CASE i = l /\ j \in Used(t) \ {e}
    BY <1>2, <1>4, <2>1 DEF Unique
  <2>2. CASE j = l /\ i \in Used(t) \ {e}
    BY <1>2, <1>4, <2>2 DEF Unique
  <2>3. CASE i \in Used(t) \ {e} /\ j \in Used(t) \ {e}
    BY <1>4, <2>3 DEF Unique
  <2>4. QED
    BY <1>3, <2>1, <2>2, <2>3
<1>8. \A x \in Slot : InArc(HomeAt(t, e), l, x) => InArc(HomeAt(t, e), e, x) /\ x # l /\ x # e
  BY <1>1, SlotFacts DEF InArc
<1>9. Avoids(u, f)
  <2> SUFFICES ASSUME NEW i \in Used(u) PROVE ~InArc(HomeAt(u, i), i, f)
    BY DEF Avoids, HomeAt
  <2>1. CASE i = l
    BY <1>5, <1>8, <2>1 DEF Avoids, HomeAt
  <2>2. CASE i \in Used(t) \ {e}
    BY <1>4, <2>2 DEF Avoids, HomeAt
  <2>3. QED
    BY <1>3, <2>1, <2>2
<1>10. Scanning(u, e, NextSlot(e))
  <2>1. \A i \in Slot : ~InArc(NextSlot(e), NextSlot(e), i)
    BY SlotFacts DEF InArc, NextSlot
  <2>2. ASSUME NEW i \in Used(u), NEW x \in Slot, InArc(HomeAt(u, i), i, x) PROVE u[x] # None \/ x = e
    <3>1. CASE i = l
      <4>1. InArc(HomeAt(t, e), e, x) /\ x # l /\ x # e
        BY <1>5, <1>8, <2>2, <3>1
      <4>2. QED
        BY <1>2, <4>1 DEF Scanning
    <3>2. CASE i \in Used(t) \ {e}
      <4>1. t[x] # None \/ x = l
        BY <1>4, <2>2, <3>2 DEF Scanning
      <4>2. QED
        BY <1>1, <1>2, <4>1
    <3>3. QED
      BY <1>3, <3>1, <3>2
  <2>3. \A i \in Used(u) : i \in Slot
    BY DEF Used
  <2>4. QED
    BY <2>1, <2>2, <2>3 DEF Scanning
<1>11. ~InArc(l, e, f)
  <2>1. ~InArc(HomeAt(t, e), e, f)
    BY DEF Avoids, HomeAt
  <2>2. QED
    BY <1>1, <2>1, SlotFacts DEF InArc
<1>12. QED
  BY <1>2, <1>6, <1>7, <1>9, <1>10, <1>11

\* Arcs on the way round: one slot more, two arcs in a row, and a whole turn.
LEMMA ArcMore ==
    ASSUME NEW s \in Slot, NEW c \in Slot, NEW l \in Slot, l = c \/ InArc(s, c, l), l # NextSlot(c)
    PROVE  InArc(s, NextSlot(c), l) \/ NextSlot(c) = s
BY SlotFacts DEF InArc, NextSlot

LEMMA ArcJoin ==
    ASSUME NEW s \in Slot, NEW l \in Slot, NEW e \in Slot, NEW f \in Slot,
           InArc(s, e, l) \/ e = s, ~InArc(s, l, f), ~InArc(l, e, f)
    PROVE  ~InArc(s, e, f)
BY SlotFacts DEF InArc

LEMMA ArcTurn ==
    ASSUME NEW s \in Slot, NEW l \in Slot, NEW i \in Slot, NEW f \in Slot, NEW h \in Slot,
           InArc(h, i, l), ~InArc(h, i, f), ~InArc(s, l, f), i # l, s # l
    PROVE  InArc(NextSlot(l), NextSlot(s), i)
BY SlotFacts DEF InArc, NextSlot

LEMMA ArcBoth ==
    ASSUME NEW s \in Slot, NEW l \in Slot, NEW f \in Slot, s # l
    PROVE  InArc(s, l, f) \/ InArc(l, s, f)
BY SlotFacts DEF InArc

\* Every iteration keeps the invariant.
LEMMA GapKeeps ==
    ASSUME NEW t, GoodTable(t), NEW s \in Used(t), NEW f \in Slot, Avoids(t, f),
           NEW m \in 0 .. BucketElems - 1, NEW g, GapInv(t, s, f, m, g)
    PROVE  GapInv(t, s, f, m + 1, GapStep(s, m + 1, g))
<1> DEFINE e == (s + (m + 1)) % BucketElems
           l == g.last
           u == g.table
           h == GapStep(s, m + 1, g)
<1>0. /\ s \in Slot /\ s \in Int /\ 0 <= s /\ s < BucketElems
      /\ m \in Int /\ 0 <= m /\ m < BucketElems /\ BucketElems \in Nat \ {0}
      /\ m + 1 \in 0 .. BucketElems
  BY SlotFacts DEF Used
<1>1. /\ e \in Slot /\ e = NextSlot((s + m) % BucketElems) /\ (s + m) % BucketElems \in Slot
      /\ e = IF s + (m + 1) < BucketElems THEN s + (m + 1) ELSE s + (m + 1) - BucketElems
  <2>1. /\ (s + (m + 1)) % BucketElems \in Slot
        /\ (s + (m + 1)) % BucketElems = IF s + (m + 1) < BucketElems THEN s + (m + 1)
                                         ELSE s + (m + 1) - BucketElems
    BY <1>0, ScanFacts
  <2>2. s + (m + 1) = s + m + 1
    BY <1>0
  <2>3. m \in 0 .. BucketElems
    BY <1>0
  <2>4. (s + m) % BucketElems \in Slot /\ (s + m + 1) % BucketElems = NextSlot((s + m) % BucketElems)
    BY <1>0, <2>3, ScanFacts
  <2>5. QED
    BY <2>1, <2>2, <2>4
<1> HIDE DEF e
<1>2. /\ g \in GapState /\ u \in Table /\ l \in Slot /\ u[l] = None /\ g.ended \in BOOLEAN
      /\ Unique(u) /\ Elems(u) = Elems(t) \ {t[s]} /\ Avoids(u, f) /\ ~InArc(s, l, f)
      /\ ~g.ended => Scanning(u, l, e)
      /\ g.ended => Closed(u)
  BY <1>1 DEF GapInv, GapState
<1>3. l # e => InArc(s, e, l) \/ e = s
  <2>1. l = (s + m) % BucketElems \/ InArc(s, (s + m) % BucketElems, l)
    BY <1>0 DEF GapInv
  <2>2. QED
    <3> HIDE DEF l
    <3>1. QED
      BY <1>0, <1>1, <1>2, <2>1, ArcMore
<1>4. m + 1 < BucketElems => e # s
  BY <1>0, <1>1
<1>5. CASE g.ended \/ e = l \/ u[e] = None
  <2>1. h = [g EXCEPT !.ended = TRUE]
    BY <1>5 DEF GapStep, e
  <2>2. h \in GapState /\ h.table = u /\ h.last = l /\ h.ended
    BY <1>2, <2>1 DEF GapState
  <2>3. Closed(u)
    BY <1>1, <1>2, <1>5, ScanEnds
  <2> HIDE DEF h
  <2>4. m + 1 < BucketElems => l = e \/ InArc(s, e, l)
    BY <1>3, <1>4
  <2>5. GapInv(t, s, f, m + 1, h)
    BY <1>2, <2>2, <2>3, <2>4 DEF GapInv, e
  <2>6. QED
    BY <2>5 DEF h
<1>6. CASE ~(g.ended \/ e = l \/ u[e] = None)
  <2>0. e \in Used(u) /\ e # l /\ Scanning(u, l, e)
    BY <1>1, <1>2, <1>6 DEF Used
  <2>1. HomeAt(u, e) \in Slot
    BY <1>2, <2>0, HomeAtSlot
  <2>2. CASE ~InArc(HomeAt(u, e), e, l)
    <3>1. ~MustMove(l, e, HomeAt(u, e))
      BY <1>1, <1>2, <2>0, <2>1, <2>2, MustMoveIsArc
    <3>2. h = g
      BY <1>6, <3>1 DEF GapStep, e, HomeAt
    <3>3. Scanning(u, l, NextSlot(e))
      BY <1>1, <1>2, <2>0, <2>2, ScanPasses
    <3> HIDE DEF h
    <3>4. m + 1 < BucketElems => l = e \/ InArc(s, e, l)
      BY <1>3, <1>4
    <3>x. m + 1 = BucketElems => l # s
      BY <1>0, <1>1, <1>6
    <3>5. GapInv(t, s, f, m + 1, h)
      BY <1>2, <1>6, <3>2, <3>3, <3>4, <3>x DEF GapInv, e
    <3>6. QED
      BY <3>5 DEF h
  <2>3. CASE InArc(HomeAt(u, e), e, l)
    <3> DEFINE w == [u EXCEPT ![l] = u[e], ![e] = None]
    <3>1. MustMove(l, e, HomeAt(u, e))
      BY <1>1, <1>2, <2>0, <2>1, <2>3, MustMoveIsArc
    <3>2. h = [g EXCEPT !.table = w, !.last = e]
      BY <1>6, <3>1 DEF GapStep, e, HomeAt
    <3>3. /\ w \in Table /\ w[e] = None /\ Unique(w) /\ Elems(w) = Elems(u) /\ Avoids(w, f)
          /\ Scanning(w, e, NextSlot(e)) /\ ~InArc(l, e, f)
      BY <1>1, <1>2, <2>0, <2>3, ScanMoves
    <3> HIDE DEF w
    <3>4. h \in GapState /\ h.table = w /\ h.last = e /\ ~h.ended
      BY <1>1, <1>2, <1>6, <3>2, <3>3 DEF GapState
    <3> HIDE DEF h
    <3>5. ~InArc(s, e, f)
      BY <1>0, <1>1, <1>2, <1>3, <2>0, <3>3, ArcJoin
    <3>x. e # s
      <4> HIDE DEF l
      <4>1. QED
        BY <1>0, <1>2, <2>0, <3>3, ArcBoth
    <3>6. GapInv(t, s, f, m + 1, h)
      BY <1>2, <3>3, <3>4, <3>5, <3>x DEF GapInv, e
    <3>7. QED
      BY <3>6 DEF h
  <2>4. QED
    BY <2>2, <2>3
<1>7. QED
  BY <1>5, <1>6

\* gdbm_delete takes one element out, whatever the slots of the others: those
\* are still found, also in a table that was full.
LEMMA RemoveRight ==
    ASSUME NEW t, GoodTable(t), NEW s \in Used(t)
    PROVE  /\ GoodTable(Remove(t, s))
           /\ Elems(Remove(t, s)) = Elems(t) \ {t[s]}
<1>0. t \in Table /\ s \in Slot /\ t[s] # None /\ BucketElems \in Nat /\ Closed(t) /\ Unique(t)
  BY SlotFacts DEF GoodTable, Used
<1>1. PICK f \in Slot : Avoids(t, f)
  BY DEF GoodTable, Cut
<1>2. PICK G \in [0 .. BucketElems -> GapState] :
          /\ G[0] = [table |-> [t EXCEPT ![s] = None], last |-> s, ended |-> FALSE]
          /\ \A m \in 1 .. BucketElems : G[m] = GapStep(s, m, G[m - 1])
          /\ Remove(t, s) = G[BucketElems].table
  BY <1>0, RemoveUnfolds
<1>3. GapInv(t, s, f, 0, G[0])
  <2> DEFINE u == [t EXCEPT ![s] = None]
  <2>1. G[0] \in GapState /\ G[0].table = u /\ G[0].last = s /\ ~G[0].ended
    <3>1. 0 \in 0 .. BucketElems
      BY <1>0
    <3>2. G[0] \in GapState
      BY <1>2, <3>1
    <3>3. G[0] = [table |-> u, last |-> s, ended |-> FALSE]
      BY <1>2
    <3> HIDE DEF u
    <3>4. QED
      BY <3>2, <3>3
  <2>2. u \in Table /\ u[s] = None /\ \A x \in Slot \ {s} : u[x] = t[x]
    BY <1>0 DEF Table
  <2> HIDE DEF u
  <2>3. Used(u) = Used(t) \ {s}
    BY <1>0, <2>2 DEF Used
  <2>4. \A i \in Used(u) : i \in Slot /\ i # s /\ i \in Used(t) /\ u[i] = t[i] /\ HomeAt(u, i) = HomeAt(t, i)
    BY <2>2, <2>3 DEF Used, HomeAt
  <2>5. Unique(u) /\ Avoids(u, f)
    BY <1>0, <1>1, <2>4 DEF Unique, Avoids, HomeAt
  <2>6. Elems(u) = Elems(t) \ {t[s]}
    <3>1. \A i \in Used(t) : i # s => t[i] # t[s]
      BY <1>0 DEF Unique
    <3>2. QED
      BY <2>3, <2>4, <3>1 DEF Elems
  <2>7. ~InArc(s, s, f)
    BY <1>0, SlotFacts DEF InArc
  <2>8. (s + 0) % BucketElems = s
    BY <1>0, ScanFacts, SlotFacts
  <2>9. Scanning(u, s, NextSlot(s))
    <3>1. \A i \in Slot : ~InArc(NextSlot(s), NextSlot(s), i)
      BY <1>0, SlotFacts DEF InArc, NextSlot
    <3>2. ASSUME NEW i \in Used(u), NEW x \in Slot, InArc(HomeAt(u, i), i, x) PROVE u[x] # None \/ x = s
      <4>1. t[x] # None
        BY <1>0, <2>4, <3>2, HomeAtSlot DEF Closed
      <4>2. QED
        BY <2>2, <4>1
    <3>3. QED
      BY <2>4, <3>1, <3>2 DEF Scanning
  <2>10. QED
    BY <1>0, <2>1, <2>2, <2>5, <2>6, <2>7, <2>8, <2>9, SlotFacts DEF GapInv
<1>4. GapInv(t, s, f, BucketElems, G[BucketElems])
  <2> DEFINE T == {m \in 0 .. BucketElems : GapInv(t, s, f, m, G[m])}
  <2>1. 0 \in T
    BY <1>0, <1>3
  <2>2. ASSUME NEW m \in 0 .. BucketElems - 1, m \in T PROVE m + 1 \in T
    <3>1. m + 1 \in 1 .. BucketElems /\ (m + 1) - 1 = m /\ GapInv(t, s, f, m, G[m])
      BY <1>0, <2>2
    <3>2. G[m + 1] = GapStep(s, m + 1, G[m])
      BY <1>2, <3>1
    <3>3. GapInv(t, s, f, m + 1, G[m + 1])
      BY <1>1, <3>1, <3>2, GapKeeps
    <3>4. QED
      BY <1>0, <3>1, <3>3
  <2>3. BucketElems \in 0 .. BucketElems
    BY <1>0
  <2>4. BucketElems \in T
    <3> HIDE DEF T
    <3>1. QED
      BY <1>0, <2>1, <2>2, <2>3, UpTo
  <2>5. QED
    BY <2>4
<1> DEFINE g == G[BucketElems]
           u == g.table
           l == g.last
<1>5. /\ g \in GapState /\ u \in Table /\ l \in Slot /\ u[l] = None
      /\ Unique(u) /\ Elems(u) = Elems(t) \ {t[s]} /\ Avoids(u, f) /\ ~InArc(s, l, f)
      /\ IF g.ended THEN Closed(u) ELSE Scanning(u, l, NextSlot((s + BucketElems) % BucketElems))
      /\ ~g.ended => l # s
  BY <1>4 DEF GapInv, GapState
<1>6. Closed(u)
  <2>1. CASE g.ended
    BY <1>5, <2>1
  <2>2. CASE ~g.ended
    <3>1. (s + BucketElems) % BucketElems = s
      BY <1>0, ScanFacts, SlotFacts
    <3>2. Scanning(u, l, NextSlot(s))
      BY <1>5, <2>2, <3>1
    <3> HIDE DEF u, l
    <3> SUFFICES ASSUME NEW i \in Used(u), NEW x \in Slot, InArc(HomeAt(u, i), i, x) PROVE u[x] # None
      BY <1>5, HomeAtSlot DEF Closed
    <3>3. i \in Slot /\ HomeAt(u, i) \in Slot /\ u[i] # None
      BY <1>5, HomeAtSlot DEF Used
    <3>4. SUFFICES ASSUME x = l PROVE FALSE
      BY <3>2 DEF Scanning
    <3>5. ~InArc(NextSlot(l), NextSlot(s), i) /\ i # l
      BY <1>5, <3>2, <3>3, <3>4 DEF Scanning
    <3>6. ~InArc(HomeAt(u, i), i, f)
      BY <1>5 DEF Avoids, HomeAt
    <3>7. QED
      BY <1>0, <1>1, <1>5, <2>2, <3>3, <3>4, <3>5, <3>6, ArcTurn
  <2>3. QED
    BY <2>1, <2>2
<1>7. QED
  BY <1>1, <1>2, <1>5, <1>6 DEF GoodTable, Cut

-----------------------------------------------------------------------------
(* Distributing the elements of a full bucket over two new ones. *)

BitOf(k, bits) == (Hash[k] \div 2^(HashBits - bits)) % 2

\* One iteration: slot i - 1 of t.
RStep(t, bits, bit, i, u) == IF BitOf(t[i - 1].key, bits) = bit THEN Put(u, t[i - 1]) ELSE u

LEMMA RStepType ==
    ASSUME NEW t \in Table, Used(t) = Slot, NEW bits, NEW bit, NEW i \in 1 .. BucketElems, NEW u \in Table
    PROVE  RStep(t, bits, bit, i, u) \in Table
<1>1. i - 1 \in Slot
  BY SlotFacts
<1>2. t[i - 1] \in Elem
  BY <1>1, UsedFacts
<1>3. Put(u, t[i - 1]) \in Table
  <2> DEFINE e == t[i - 1]
             f == FreeSlot(u, e.key)
  <2> HIDE DEF e, f
  <2>1. e \in Elem
    BY <1>2 DEF e
  <2>2. [u EXCEPT ![f] = e] \in Table
    BY <2>1 DEF Table
  <2>3. QED
    BY <2>2 DEF Put, e, f
<1>4. QED
  BY <1>3 DEF RStep

LEMMA RedistributeUnfolds ==
    ASSUME NEW t \in Table, Used(t) = Slot, NEW bits, NEW bit
    PROVE  \E G \in [0 .. BucketElems -> Table] :
             /\ G[0] = EmptyTable
             /\ \A i \in 1 .. BucketElems : G[i] = RStep(t, bits, bit, i, G[i - 1])
             /\ Redistribute(t, bits, bit) = G[BucketElems]
<1> DEFINE F == [i \in 1 .. BucketElems |-> [u \in Table |-> RStep(t, bits, bit, i, u)]]
           Rec(g) == [i \in 0 .. BucketElems |-> IF i = 0 THEN EmptyTable
                                                 ELSE RStep(t, bits, bit, i, g[i - 1])]
<1>1. EmptyTable \in Table /\ BucketElems \in Nat
  BY SlotFacts, EmptyTableRight DEF GoodTable
<1>2. F \in [1 .. BucketElems -> [Table -> Table]]
  BY RStepType
<1>r. PICK g : Recursive(g, BucketElems, Table, EmptyTable, F)
  <2> HIDE DEF F
  <2>1. QED
    BY <1>1, <1>2, Recursion
<1>3. /\ g \in [0 .. BucketElems -> Table] /\ g[0] = EmptyTable
      /\ \A i \in 1 .. BucketElems : g[i] = F[i][g[i - 1]]
  <2> HIDE DEF F
  <2>1. QED
    BY <1>r DEF Recursive
<1>4. ASSUME NEW i \in 1 .. BucketElems PROVE g[i] = RStep(t, bits, bit, i, g[i - 1])
  <2>1. g[i - 1] \in Table
    <3> HIDE DEF F
    <3>1. i - 1 \in 0 .. BucketElems
      BY <1>1
    <3>2. QED
      BY <1>3, <3>1
  <2>2. QED
    BY <1>3, <2>1
<1>5. g = Rec(g)
  <2>1. \A i \in 0 .. BucketElems : g[i] = Rec(g)[i]
    BY <1>1, <1>3, <1>4
  <2> HIDE DEF F
  <2>2. QED
    BY <1>3, <2>1
<1> DEFINE G == CHOOSE h : h = Rec(h)
<1>6. G = Rec(G)
  <2> HIDE DEF Rec
  <2>1. QED
    BY <1>5
<1>7. Redistribute(t, bits, bit) = G[BucketElems]
  BY Zenon DEF Redistribute, RStep, BitOf
<1> HIDE DEF G
<1>8. G[0] = EmptyTable /\ \A i \in 1 .. BucketElems : G[i] = RStep(t, bits, bit, i, G[i - 1])
  BY <1>1, <1>6
<1>9. G \in [0 .. BucketElems -> Table]
  <2> DEFINE T == {i \in 0 .. BucketElems : G[i] \in Table}
  <2>1. 0 \in T
    BY <1>1, <1>8
  <2>2. ASSUME NEW m \in 0 .. BucketElems - 1, m \in T PROVE m + 1 \in T
    <3>1. m + 1 \in 1 .. BucketElems /\ (m + 1) - 1 = m /\ G[m] \in Table
      BY <1>1, <2>2
    <3>2. G[m + 1] = RStep(t, bits, bit, m + 1, G[m])
      BY <1>8, <3>1
    <3>3. QED
      BY <1>1, <3>1, <3>2, RStepType
  <2>3. \A m \in 0 .. BucketElems : m \in T
    <3> HIDE DEF T
    <3>1. QED
      BY <1>1, <2>1, <2>2, UpTo
  <2>4. \A m \in 0 .. BucketElems : G[m] \in Table
    BY <2>3
  <2>5. G = [m \in 0 .. BucketElems |-> G[m]]
    BY <1>6
  <2>6. QED
    BY <2>4, <2>5
<1>10. QED
  BY <1>7, <1>8, <1>9

\* The table after the first i slots of t.
Moved(t, bits, bit, i, u) ==
    /\ GoodTable(u)
    /\ Elems(u) = {t[j] : j \in {n \in 0 .. i - 1 : BitOf(t[n].key, bits) = bit}}
    /\ IsFiniteSet(Used(u)) /\ Cardinality(Used(u)) <= i

LEMMA MovedStep ==
    ASSUME NEW t, GoodTable(t), Used(t) = Slot, NEW bits, NEW bit,
           NEW i \in 1 .. BucketElems, NEW u, Moved(t, bits, bit, i - 1, u)
    PROVE  Moved(t, bits, bit, i, RStep(t, bits, bit, i, u))
<1> DEFINE e == t[i - 1]
<1>1. /\ i - 1 \in Slot /\ i \in Int /\ 1 <= i /\ i <= BucketElems /\ BucketElems \in Nat
      /\ Cardinality(Used(u)) \in Nat /\ u \in Table /\ t \in Table
  BY SlotFacts, FS_CardinalityType DEF Moved, GoodTable
<1>2. e \in Elem
  BY <1>1, UsedFacts
<1>3. 0 .. i - 1 = (0 .. (i - 1) - 1) \cup {i - 1}
  BY <1>1
<1>4. CASE BitOf(e.key, bits) = bit
  <2>1. Used(u) # Slot
    <3>1. IsFiniteSet(Slot) /\ Cardinality(Slot) = BucketElems
      BY <1>1, FS_Interval DEF Slot
    <3>2. QED
      BY <1>1, <3>1 DEF Moved
  <2>2. ASSUME NEW x \in Elems(u) PROVE x.key # e.key
    <3>1. PICK j \in 0 .. (i - 1) - 1 : x = t[j]
      BY DEF Moved
    <3>2. j \in Slot /\ j # i - 1
      BY <1>1, <3>1, SlotFacts
    <3>3. QED
      BY <1>1, <3>1, <3>2 DEF GoodTable, Unique
  <2> HIDE DEF e
  <2>3. /\ GoodTable(Put(u, e))
        /\ Elems(Put(u, e)) = Elems(u) \cup {e}
        /\ \E f \in Slot : f \notin Used(u) /\ Used(Put(u, e)) = Used(u) \cup {f}
    BY <1>2, <2>1, <2>2, PutRight DEF Moved
  <2>4. IsFiniteSet(Used(Put(u, e))) /\ Cardinality(Used(Put(u, e))) <= i
    <3>1. PICK f \in Slot : f \notin Used(u) /\ Used(Put(u, e)) = Used(u) \cup {f}
      BY <2>3
    <3>2. IsFiniteSet(Used(u)) /\ Cardinality(Used(u)) <= i - 1
      BY DEF Moved
    <3>3. IsFiniteSet(Used(u) \cup {f}) /\ Cardinality(Used(u) \cup {f}) = Cardinality(Used(u)) + 1
      BY <3>1, <3>2, FS_AddElement
    <3>4. QED
      BY <1>1, <3>1, <3>2, <3>3
  <2>5. RStep(t, bits, bit, i, u) = Put(u, e)
    BY <1>4 DEF RStep, e
  <2>6. Elems(Put(u, e)) = {t[j] : j \in {n \in 0 .. i - 1 : BitOf(t[n].key, bits) = bit}}
    BY <1>3, <1>4, <2>3 DEF Moved, e
  <2>7. QED
    BY <2>3, <2>4, <2>5, <2>6 DEF Moved
<1>5. CASE BitOf(e.key, bits) # bit
  <2>1. RStep(t, bits, bit, i, u) = u
    BY <1>5 DEF RStep
  <2>2. Elems(u) = {t[j] : j \in {n \in 0 .. i - 1 : BitOf(t[n].key, bits) = bit}}
    BY <1>3, <1>5 DEF Moved
  <2>3. QED
    BY <1>1, <2>1, <2>2 DEF Moved
<1>6. QED
  BY <1>4, <1>5

\* A split loses no element of the old bucket and puts each where it is found.
LEMMA RedistributeRight ==
    ASSUME NEW t, GoodTable(t), Used(t) = Slot, NEW bits, NEW bit
    PROVE  /\ GoodTable(Redistribute(t, bits, bit))
           /\ Elems(Redistribute(t, bits, bit)) = {e \in Elems(t) : BitOf(e.key, bits) = bit}
<1>0. t \in Table /\ BucketElems \in Nat
  BY SlotFacts DEF GoodTable
<1>1. PICK G \in [0 .. BucketElems -> Table] :
          /\ G[0] = EmptyTable
          /\ \A i \in 1 .. BucketElems : G[i] = RStep(t, bits, bit, i, G[i - 1])
          /\ Redistribute(t, bits, bit) = G[BucketElems]
  BY <1>0, RedistributeUnfolds
<1> DEFINE T == {i \in 0 .. BucketElems : Moved(t, bits, bit, i, G[i])}
<1>2. 0 \in T
  <2>1. 0 .. 0 - 1 = {}
    OBVIOUS
  <2>2. IsFiniteSet({}) /\ Cardinality({}) <= 0
    BY FS_EmptySet
  <2>3. Moved(t, bits, bit, 0, EmptyTable)
    BY <2>1, <2>2, EmptyTableRight DEF Moved
  <2>4. QED
    BY <1>0, <1>1, <2>3
<1>3. ASSUME NEW m \in 0 .. BucketElems - 1, m \in T PROVE m + 1 \in T
  <2>1. m + 1 \in 1 .. BucketElems /\ (m + 1) - 1 = m /\ Moved(t, bits, bit, m, G[m])
    BY <1>0, <1>3
  <2>2. G[m + 1] = RStep(t, bits, bit, m + 1, G[m])
    BY <1>1, <2>1
  <2>3. Moved(t, bits, bit, m + 1, G[m + 1])
    BY <2>1, <2>2, MovedStep
  <2>4. QED
    BY <1>0, <2>1, <2>3
<1>4. BucketElems \in T
  <2> HIDE DEF T
  <2>1. BucketElems \in 0 .. BucketElems
    BY <1>0
  <2>2. QED
    BY <1>0, <1>2, <1>3, <2>1, UpTo
<1>5. Moved(t, bits, bit, BucketElems, Redistribute(t, bits, bit))
  BY <1>1, <1>4
<1>6. {t[j] : j \in {n \in 0 .. BucketElems - 1 : BitOf(t[n].key, bits) = bit}}
        = {e \in Elems(t) : BitOf(e.key, bits) = bit}
  BY DEF Elems, Slot
<1>7. QED
  BY <1>5, <1>6 DEF Moved

-----------------------------------------------------------------------------
(* Shifts: products and quotients of powers of two. *)

LEMMA MulMono ==
    ASSUME NEW m \in Nat, NEW a \in Nat, NEW b \in Nat, a <= b
    PROVE  m * a <= m * b /\ m * (a + 1) = m * a + m
<1>1. PICK c \in Nat : b = a + c
  <2>1. b - a \in Nat /\ b = a + (b - a)
    OBVIOUS
  <2>2. QED
    BY <2>1
<1>2. m * c \in Nat /\ m * (a + c) = m * a + m * c /\ m * a \in Nat
  OBVIOUS
<1>3. m * (a + 1) = m * a + m
  OBVIOUS
<1>4. QED
  BY <1>1, <1>2, <1>3

\* The quotient is the number of whole units.
LEMMA DivIs ==
    ASSUME NEW x \in Nat, NEW m \in Nat \ {0}
    PROVE  /\ x \div m \in Nat
           /\ m * (x \div m) <= x /\ x < m * (x \div m) + m
           /\ \A q \in Nat : m * q <= x /\ x < m * q + m => x \div m = q
<1>1. /\ x % m \in Int /\ 0 <= x % m /\ x % m < m /\ x \div m \in Int
      /\ x = m * (x \div m) + (x % m)
  OBVIOUS
<1> DEFINE d == x \div m
           r == x % m
<1> HIDE DEF d, r
<1>2. r \in Int /\ 0 <= r /\ r < m /\ d \in Int /\ x = m * d + r
  BY <1>1 DEF d, r
<1>3. d \in Nat
  <2>1. d < 0 => m * d <= -m
    <3>1. d < 0 => -d - 1 \in Nat /\ m * (-d - 1) >= 0 /\ m * (-d - 1) = -(m * d) - m
      BY <1>2
    <3>2. m * d \in Int
      BY <1>2
    <3>3. QED
      BY <3>1, <3>2
  <2>2. m * d \in Int
    BY <1>2
  <2>3. QED
    BY <1>2, <2>1, <2>2
<1>4. m * d <= x /\ x < m * d + m
  <2>1. m * d \in Nat
    BY <1>3
  <2>2. QED
    BY <1>2, <2>1
<1>5. ASSUME NEW q \in Nat, m * q <= x, x < m * q + m PROVE d = q
  <2>1. m * q \in Nat /\ m * d \in Nat
    BY <1>3
  <2>2. CASE d + 1 <= q
    <3>1. m * (d + 1) <= m * q /\ m * (d + 1) = m * d + m
      BY <1>3, <2>2, MulMono
    <3>2. QED
      BY <1>4, <1>5, <2>1, <3>1
  <2>3. CASE q + 1 <= d
    <3>1. m * (q + 1) <= m * d /\ m * (q + 1) = m * q + m
      BY <1>3, <2>3, MulMono
    <3>2. QED
      BY <1>4, <1>5, <2>1, <3>1
  <2>4. QED
    BY <1>3, <2>2, <2>3
<1>6. QED
  BY <1>3, <1>4, <1>5 DEF d

LEMMA MulFacts ==
    ASSUME NEW m \in Nat \ {0}, NEW n \in Nat \ {0}
    PROVE  m * n \in Nat \ {0} /\ m * n = n * m /\ \A q \in Int : m * (n * q) = (m * n) * q
<1>1. m * n >= m
  <2>1. m * 1 <= m * n
    BY MulMono
  <2>2. QED
    BY <2>1
<1>2. m * n \in Nat
  OBVIOUS
<1>3. QED
  BY <1>1, <1>2

\* Shifting twice is shifting once by more.
LEMMA DivDiv ==
    ASSUME NEW x \in Nat, NEW m \in Nat \ {0}, NEW n \in Nat \ {0}
    PROVE  (x \div m) \div n = x \div (m * n)
<1> DEFINE y == x \div m
           z == y \div n
<1>1. y \in Nat /\ m * y <= x /\ x < m * y + m
  BY DivIs
<1> HIDE DEF y
<1>2. z \in Nat /\ n * z <= y /\ y < n * z + n
  BY <1>1, DivIs
<1> HIDE DEF z
<1>3. m * n \in Nat \ {0} /\ m * (n * z) = (m * n) * z /\ n * z \in Nat /\ n * z + n \in Nat
  BY <1>2, MulFacts
<1>4. m * (n * z) <= m * y
  BY <1>1, <1>2, <1>3, MulMono
<1>5. m * (y + 1) <= m * (n * z + n) /\ m * (y + 1) = m * y + m
  <2>1. y + 1 <= n * z + n /\ y + 1 \in Nat
    BY <1>1, <1>2, <1>3
  <2>2. m * (y + 1) <= m * (n * z + n)
    BY <1>3, <2>1, MulMono
  <2>3. m * (y + 1) = m * y + m
    BY <1>1, MulMono
  <2>4. QED
    BY <2>2, <2>3
<1>6. m * (n * z + n) = (m * n) * z + m * n
  <2>1. PICK k \in Nat : k = n * z
    BY <1>3
  <2>2. m * (k + n) = m * k + m * n
    OBVIOUS
  <2>3. QED
    BY <1>3, <2>1, <2>2
<1>7. (m * n) * z <= x /\ x < (m * n) * z + m * n
  <2>1. m * y \in Nat /\ (m * n) * z \in Nat
    BY <1>1, <1>2, <1>3
  <2>2. QED
    BY <1>1, <1>3, <1>4, <1>5, <1>6, <2>1
<1>8. x \div (m * n) = z
  BY <1>2, <1>3, <1>7, DivIs
<1>9. QED
  BY <1>8 DEF y, z

\* The powers of two.
LEMMA Pow ==
    ASSUME NEW n \in 0 .. HashBits
    PROVE  2^n \in Nat \ {0} /\ 2^(n + 1) = 2 * 2^n
BY PowerAssumption

LEMMA PowSum ==
    ASSUME NEW a \in Nat, NEW b \in Nat, a + b <= HashBits
    PROVE  2^(a + b) = 2^a * 2^b
<1>0. HashBits \in Nat
  BY ConstAssumption
<1> DEFINE T == {n \in 0 .. b : 2^(a + n) = 2^a * 2^n}
<1>1. 0 \in T
  <2>1. 2^a \in Nat /\ 2^0 = 1 /\ a + 0 = a
    BY <1>0, Pow
  <2>2. QED
    BY <2>1
<1>2. ASSUME NEW n \in 0 .. b - 1, n \in T PROVE n + 1 \in T
  <2>1. a + n \in 0 .. HashBits /\ a \in 0 .. HashBits /\ n \in 0 .. HashBits /\ a + (n + 1) = (a + n) + 1
    BY <1>0
  <2>2. 2^((a + n) + 1) = 2 * 2^(a + n) /\ 2^(n + 1) = 2 * 2^n /\ 2^a \in Nat /\ 2^n \in Nat
    BY <2>1, Pow
  <2>3. 2^(a + n) = 2^a * 2^n
    BY <1>2
  <2>4. PICK x \in Nat, y \in Nat : x = 2^a /\ y = 2^n
    BY <2>2
  <2>5. 2 * (x * y) = x * (2 * y)
    OBVIOUS
  <2>6. 2^(a + (n + 1)) = 2^a * 2^(n + 1)
    BY <2>1, <2>2, <2>3, <2>4, <2>5
  <2>7. QED
    BY <2>6
<1>3. b \in T
  <2> HIDE DEF T
  <2>1. b \in 0 .. b
    OBVIOUS
  <2>2. QED
    BY <1>1, <1>2, <2>1, UpTo
<1>4. QED
  BY <1>3

LEMMA PowMono ==
    ASSUME NEW a \in 0 .. HashBits, NEW b \in 0 .. HashBits, a <= b
    PROVE  2^a <= 2^b
<1>1. b - a \in 0 .. HashBits /\ a \in Nat /\ b - a \in Nat /\ a + (b - a) = b /\ b <= HashBits
  BY ConstAssumption
<1>2. 2^b = 2^a * 2^(b - a)
  <2>1. PICK c \in Nat : c = b - a
    BY <1>1
  <2>2. 2^(a + c) = 2^a * 2^c
    BY <1>1, <2>1, PowSum
  <2>3. QED
    BY <1>1, <2>1, <2>2
<1>3. PICK x \in Nat, y \in Nat \ {0} : x = 2^a /\ y = 2^(b - a)
  BY <1>1, Pow
<1>4. x * 1 <= x * y
  BY MulMono
<1>5. QED
  BY <1>2, <1>3, <1>4

\* The directory entry of a hash value, and how a longer one extends a shorter.
LEMMA BucketDirFacts ==
    ASSUME NEW h \in 0 .. 2^HashBits - 1, NEW n \in 0 .. HashBits, NEW a \in 0 .. n
    PROVE  /\ BucketDir(h, n) \in DirRange(n)
           /\ BucketDir(h, n) \div 2^(n - a) = BucketDir(h, a)
<1>0. /\ HashBits \in Nat /\ n \in Nat /\ a \in Nat /\ a <= n /\ n <= HashBits
      /\ HashBits - n \in 0 .. HashBits /\ n - a \in 0 .. HashBits
      /\ HashBits - a \in 0 .. HashBits /\ (HashBits - n) + (n - a) = HashBits - a
      /\ (HashBits - n) + n = HashBits /\ HashBits \in 0 .. HashBits
  BY ConstAssumption
<1>1. /\ 2^(HashBits - n) \in Nat \ {0} /\ 2^(n - a) \in Nat \ {0} /\ 2^n \in Nat \ {0}
      /\ 2^HashBits \in Nat \ {0} /\ h \in Nat
  BY <1>0, Pow
<1>2. 2^(HashBits - a) = 2^(HashBits - n) * 2^(n - a)
  <2>1. PICK x \in Nat, y \in Nat : x = HashBits - n /\ y = n - a
    BY <1>0
  <2>2. 2^(x + y) = 2^x * 2^y
    BY <1>0, <2>1, PowSum
  <2>3. QED
    BY <1>0, <2>1, <2>2
<1>3. 2^HashBits = 2^(HashBits - n) * 2^n
  <2>1. PICK x \in Nat : x = HashBits - n
    BY <1>0
  <2>2. 2^(x + n) = 2^x * 2^n
    BY <1>0, <2>1, PowSum
  <2>3. QED
    BY <1>0, <2>1, <2>2
<1>4. BucketDir(h, n) \div 2^(n - a) = BucketDir(h, a)
  BY <1>1, <1>2, DivDiv DEF BucketDir
<1>5. BucketDir(h, n) \in DirRange(n)
  <2>1. PICK m \in Nat \ {0}, p \in Nat \ {0} : m = 2^(HashBits - n) /\ p = 2^n
    BY <1>1
  <2>2. PICK d \in Nat : d = h \div m /\ m * d <= h
    BY <1>1, DivIs
  <2>3. h < m * p
    BY <1>1, <1>3, <2>1
  <2>4. ~(p <= d)
    <3>1. p <= d => m * p <= m * d
      BY MulMono
    <3>2. m * p \in Nat /\ m * d \in Nat
      OBVIOUS
    <3>3. QED
      BY <1>1, <2>2, <2>3, <3>1, <3>2
  <2>5. d \in 0 .. p - 1
    BY <2>4
  <2>6. QED
    BY <2>1, <2>2, <2>5 DEF BucketDir, DirRange
<1>6. QED
  BY <1>4, <1>5

-----------------------------------------------------------------------------
(* The directory d of 2^n entries and the buckets bk it points to. *)

Typed(n, d, bk) ==
    /\ n \in InitDirBits .. MaxDirBits
    /\ DOMAIN bk \subseteq Adr
    /\ bk \in [DOMAIN bk -> [bits : Nat, h_table : Table]]
    /\ \A a \in DOMAIN bk : bk[a].bits <= n
    /\ d \in [DirRange(n) -> DOMAIN bk]

Width(n, bk, a) == 2^(n - bk[a].bits)

Regular(n, d, bk) ==
    /\ {d[i] : i \in DirRange(n)} = DOMAIN bk
    /\ \A i, j \in DirRange(n) :
         d[i] = d[j] <=> i \div Width(n, bk, d[i]) = j \div Width(n, bk, d[i])

\* Every element is in the bucket its hash value leads to.
Placed(n, d, bk) ==
    \A a \in DOMAIN bk : \A e \in Elems(bk[a].h_table) : d[BucketDir(Hash[e.key], n)] = a

GoodDir(n, d, bk) ==
    /\ Typed(n, d, bk)
    /\ Regular(n, d, bk)
    /\ \A a \in DOMAIN bk : GoodTable(bk[a].h_table)
    /\ Placed(n, d, bk)

AllElems(bk) == UNION {Elems(bk[a].h_table) : a \in DOMAIN bk}

LEMMA BitsFacts ==
    ASSUME NEW n, NEW d, NEW bk, Typed(n, d, bk)
    PROVE  /\ n \in 0 .. HashBits /\ n \in Nat /\ n <= MaxDirBits /\ MaxDirBits <= HashBits
           /\ MaxDirBits \in Nat /\ HashBits \in Nat
           /\ 2^n \in Nat \ {0}
           /\ \A i \in DirRange(n) : i \in Nat /\ i < 2^n /\ d[i] \in DOMAIN bk
           /\ \A i \in Nat : i < 2^n => i \in DirRange(n)
           /\ \A a \in DOMAIN bk : /\ bk[a].bits \in 0 .. n /\ n - bk[a].bits \in 0 .. n
                                   /\ bk[a].h_table \in Table
                                   /\ Width(n, bk, a) \in Nat \ {0}
<1>1. n \in 0 .. HashBits /\ n \in Nat /\ n <= MaxDirBits /\ MaxDirBits <= HashBits
      /\ MaxDirBits \in Nat /\ HashBits \in Nat
  BY ConstAssumption DEF Typed
<1>2. 2^n \in Nat \ {0}
  BY <1>1, Pow
<1>3. /\ \A i \in DirRange(n) : i \in Nat /\ i < 2^n /\ d[i] \in DOMAIN bk
      /\ \A i \in Nat : i < 2^n => i \in DirRange(n)
  BY <1>2 DEF DirRange, Typed
<1>4. ASSUME NEW a \in DOMAIN bk
      PROVE  /\ bk[a].bits \in 0 .. n /\ n - bk[a].bits \in 0 .. n /\ bk[a].h_table \in Table
             /\ Width(n, bk, a) \in Nat \ {0}
  <2>1. bk[a] \in [bits : Nat, h_table : Table] /\ bk[a].bits <= n
    BY DEF Typed
  <2>2. bk[a].bits \in Nat /\ bk[a].h_table \in Table
    BY <2>1
  <2>3. bk[a].bits \in 0 .. n /\ n - bk[a].bits \in 0 .. n
    BY <1>1, <2>1, <2>2
  <2>4. n - bk[a].bits \in 0 .. HashBits
    BY <1>1, <2>3
  <2>5. QED
    BY <2>2, <2>3, <2>4, Pow DEF Width
<1>5. QED
  BY <1>1, <1>2, <1>3, <1>4

LEMMA HashFacts ==
    ASSUME NEW t \in Table, NEW e \in Elems(t)
    PROVE  e \in Elem /\ e.key \in Key /\ Hash[e.key] \in 0 .. 2^HashBits - 1 /\ Hash[e.key] \in Nat
<1>1. e \in Elem
  BY UsedFacts DEF Elems, Used
<1>2. 2^HashBits \in Nat
  BY ConstAssumption, PowerAssumption
<1>3. QED
  BY <1>1, <1>2, ConstAssumption DEF Elem

\* Doubling the directory: every entry is there twice.
LEMMA Doubles ==
    ASSUME NEW n, NEW d, NEW bk, GoodDir(n, d, bk), n < MaxDirBits,
           NEW d1, d1 = [i \in DirRange(n + 1) |-> d[i \div 2]]
    PROVE  /\ GoodDir(n + 1, d1, bk)
           /\ \A i \in DirRange(n) : 2 * i \in DirRange(n + 1) /\ d1[2 * i] = d[i]
<1>0. Typed(n, d, bk) /\ Regular(n, d, bk)
  BY DEF GoodDir
<1>1. /\ n \in 0 .. HashBits /\ n \in Nat /\ n <= MaxDirBits /\ MaxDirBits <= HashBits
      /\ MaxDirBits \in Nat /\ HashBits \in Nat
      /\ 2^n \in Nat \ {0} /\ 2^(n + 1) = 2 * 2^n
      /\ n + 1 \in 0 .. HashBits /\ n + 1 \in InitDirBits .. MaxDirBits
  <2>1. /\ n \in 0 .. HashBits /\ n \in Nat /\ n <= MaxDirBits /\ MaxDirBits <= HashBits
        /\ MaxDirBits \in Nat /\ HashBits \in Nat
    BY <1>0, BitsFacts
  <2>2. 2^n \in Nat \ {0} /\ 2^(n + 1) = 2 * 2^n
    BY <2>1, Pow
  <2>3. n + 1 \in 0 .. HashBits /\ n + 1 \in InitDirBits .. MaxDirBits
    BY <1>0, <2>1, ConstAssumption DEF Typed
  <2>4. QED
    BY <2>1, <2>2, <2>3
<1>2. ASSUME NEW i \in DirRange(n + 1)
      PROVE  i \in Nat /\ i \div 2 \in DirRange(n) /\ d1[i] = d[i \div 2]
  <2>1. i \in Nat /\ i < 2 * 2^n
    BY <1>1 DEF DirRange
  <2>2. i \div 2 \in Nat /\ 2 * (i \div 2) <= i
    BY <2>1, DivIs
  <2>3. i \div 2 \in DirRange(n)
    BY <1>1, <2>1, <2>2 DEF DirRange
  <2>4. QED
    BY <2>1, <2>3
<1>3. ASSUME NEW i \in DirRange(n) PROVE 2 * i \in DirRange(n + 1) /\ d1[2 * i] = d[i]
  <2>1. i \in Nat /\ i < 2^n
    BY <1>1 DEF DirRange
  <2>2. 2 * i \in DirRange(n + 1)
    BY <1>1, <2>1 DEF DirRange
  <2>3. (2 * i) \div 2 = i
    BY <2>1
  <2>4. QED
    BY <1>2, <2>2, <2>3
<1>4. Typed(n + 1, d1, bk)
  <2>1. d1 \in [DirRange(n + 1) -> DOMAIN bk]
    BY <1>0, <1>2 DEF Typed
  <2>2. \A a \in DOMAIN bk : bk[a].bits <= n + 1
    BY <1>0, <1>1, BitsFacts
  <2>3. QED
    BY <1>0, <1>1, <2>1, <2>2 DEF Typed
<1>5. ASSUME NEW a \in DOMAIN bk, NEW i \in DirRange(n + 1)
      PROVE  i \div Width(n + 1, bk, a) = (i \div 2) \div Width(n, bk, a)
  <2>1. PICK c \in 0 .. n : c = n - bk[a].bits /\ (n + 1) - bk[a].bits = c + 1
    BY <1>0, <1>1, BitsFacts
  <2>2. 2^c \in Nat \ {0} /\ 2^(c + 1) = 2 * 2^c
    BY <1>1, Pow
  <2>3. (i \div 2) \div 2^c = i \div (2 * 2^c)
    BY <1>2, <2>2, DivDiv
  <2>4. QED
    BY <2>1, <2>2, <2>3 DEF Width
<1>6. Regular(n + 1, d1, bk)
  <2>1. {d1[i] : i \in DirRange(n + 1)} = DOMAIN bk
    <3>1. \A i \in DirRange(n + 1) : d1[i] \in DOMAIN bk
      BY <1>4 DEF Typed
    <3>2. \A a \in DOMAIN bk : \E i \in DirRange(n) : d[i] = a
      <4>1. SUFFICES ASSUME NEW a \in DOMAIN bk PROVE \E i \in DirRange(n) : d[i] = a
        OBVIOUS
      <4>2. {d[i] : i \in DirRange(n)} = DOMAIN bk
        BY <1>0, Zenon DEF Regular
      <4>3. a \in {d[i] : i \in DirRange(n)}
        BY <4>1, <4>2, Zenon
      <4>4. QED
        BY <4>3, Zenon
    <3>3. \A a \in DOMAIN bk : \E i \in DirRange(n + 1) : d1[i] = a
      <4>1. SUFFICES ASSUME NEW a \in DOMAIN bk PROVE \E i \in DirRange(n + 1) : d1[i] = a
        OBVIOUS
      <4>2. PICK i \in DirRange(n) : d[i] = a
        BY <3>2, <4>1, Zenon
      <4>3. 2 * i \in DirRange(n + 1) /\ d1[2 * i] = a
        BY <1>3, <4>2, Zenon
      <4>4. QED
        BY <4>3, Zenon
    <3>4. QED
      BY <3>1, <3>3
  <2>2. ASSUME NEW i \in DirRange(n + 1), NEW j \in DirRange(n + 1)
        PROVE  d1[i] = d1[j] <=> i \div Width(n + 1, bk, d1[i]) = j \div Width(n + 1, bk, d1[i])
    <3>1. PICK x \in DirRange(n), y \in DirRange(n) :
             x = i \div 2 /\ y = j \div 2 /\ d1[i] = d[x] /\ d1[j] = d[y]
      BY <1>2
    <3>2. d[x] \in DOMAIN bk
      BY <1>0 DEF Typed
    <3>3. /\ i \div Width(n + 1, bk, d[x]) = x \div Width(n, bk, d[x])
          /\ j \div Width(n + 1, bk, d[x]) = y \div Width(n, bk, d[x])
      BY <1>5, <3>1, <3>2
    <3>4. d[x] = d[y] <=> x \div Width(n, bk, d[x]) = y \div Width(n, bk, d[x])
      BY <1>0 DEF Regular
    <3>5. QED
      BY <3>1, <3>3, <3>4
  <2>3. QED
    BY <2>1, <2>2 DEF Regular
<1>7. Placed(n + 1, d1, bk)
  <2> SUFFICES ASSUME NEW a \in DOMAIN bk, NEW e \in Elems(bk[a].h_table)
               PROVE  d1[BucketDir(Hash[e.key], n + 1)] = a
    BY DEF Placed
  <2>1. Hash[e.key] \in 0 .. 2^HashBits - 1
    BY <1>0, BitsFacts, HashFacts
  <2>2. n \in 0 .. n + 1 /\ (n + 1) - n = 1 /\ 2^1 = 2
    BY <1>1
  <2>3. /\ BucketDir(Hash[e.key], n + 1) \in DirRange(n + 1)
        /\ BucketDir(Hash[e.key], n + 1) \div 2 = BucketDir(Hash[e.key], n)
    <3>1. /\ BucketDir(Hash[e.key], n + 1) \in DirRange(n + 1)
          /\ BucketDir(Hash[e.key], n + 1) \div 2^((n + 1) - n) = BucketDir(Hash[e.key], n)
      BY <1>1, <2>1, <2>2, BucketDirFacts
    <3>2. QED
      BY <2>2, <3>1
  <2>4. QED
    BY <1>2, <2>3 DEF GoodDir, Placed
<1>8. QED
  BY <1>3, <1>4, <1>6, <1>7 DEF GoodDir

\* The entries of a bucket are q * w up to q * w + w - 1 when w = 2 * p is their
\* number; p is the number of entries of each half.
LEMMA Halves ==
    ASSUME NEW p \in Nat \ {0}, NEW q \in Nat, NEW i \in Nat
    PROVE  /\ i \div (2 * p) = q <=> i \in (2 * q) * p .. (2 * q + 2) * p - 1
           /\ i \div p = 2 * q <=> i \in (2 * q) * p .. (2 * q + 1) * p - 1
           /\ i \div p = 2 * q + 1 <=> i \in (2 * q + 1) * p .. (2 * q + 2) * p - 1
<1>1. PICK x \in Nat : x = p * (2 * q)
  OBVIOUS
<1>2. /\ (2 * q) * p = x /\ (2 * q + 1) * p = x + p /\ (2 * q + 2) * p = x + 2 * p
      /\ (2 * p) * q = x /\ p * (2 * q + 1) = x + p
  <2>1. PICK y \in Nat : y = p * q
    OBVIOUS
  <2>2. p * (2 * q) = 2 * y /\ (2 * p) * q = 2 * y /\ (2 * q) * p = 2 * y
    BY <2>1
  <2>3. (2 * q + 1) * p = (2 * q) * p + p /\ (2 * q + 2) * p = (2 * q) * p + 2 * p
        /\ p * (2 * q + 1) = p * (2 * q) + p
    OBVIOUS
  <2>4. QED
    BY <1>1, <2>2, <2>3
<1>3. /\ i \div (2 * p) \in Nat
      /\ (2 * p) * (i \div (2 * p)) <= i /\ i < (2 * p) * (i \div (2 * p)) + 2 * p
      /\ (2 * p) * q <= i /\ i < (2 * p) * q + 2 * p => i \div (2 * p) = q
  <2>1. PICK w \in Nat \ {0} : w = 2 * p
    OBVIOUS
  <2>2. /\ i \div w \in Nat
        /\ w * (i \div w) <= i /\ i < w * (i \div w) + w
        /\ w * q <= i /\ i < w * q + w => i \div w = q
    BY DivIs
  <2>3. QED
    BY <2>1, <2>2
<1>4. /\ i \div p \in Nat
      /\ p * (i \div p) <= i /\ i < p * (i \div p) + p
      /\ \A r \in Nat : p * r <= i /\ i < p * r + p => i \div p = r
  BY DivIs
<1>5. i \div (2 * p) = q <=> i \in x .. x + 2 * p - 1
  <2>1. i \div (2 * p) = q => x <= i /\ i < x + 2 * p
    BY <1>2, <1>3
  <2>2. x <= i /\ i < x + 2 * p => i \div (2 * p) = q
    BY <1>2, <1>3
  <2>3. i \in x .. x + 2 * p - 1 <=> x <= i /\ i < x + 2 * p
    OBVIOUS
  <2>4. QED
    BY <2>1, <2>2, <2>3
<1>6. i \div p = 2 * q <=> i \in x .. x + p - 1
  <2>1. i \div p = 2 * q => x <= i /\ i < x + p
    BY <1>1, <1>4
  <2>2. x <= i /\ i < x + p => i \div p = 2 * q
    BY <1>1, <1>4
  <2>3. i \in x .. x + p - 1 <=> x <= i /\ i < x + p
    OBVIOUS
  <2>4. QED
    BY <2>1, <2>2, <2>3
<1>7. i \div p = 2 * q + 1 <=> i \in x + p .. x + 2 * p - 1
  <2>1. i \div p = 2 * q + 1 => x + p <= i /\ i < x + 2 * p
    BY <1>2, <1>4
  <2>2. x + p <= i /\ i < x + 2 * p => i \div p = 2 * q + 1
    BY <1>2, <1>4
  <2>3. i \in x + p .. x + 2 * p - 1 <=> x + p <= i /\ i < x + 2 * p
    OBVIOUS
  <2>4. QED
    BY <2>1, <2>2, <2>3
<1>8. QED
  BY <1>2, <1>5, <1>6, <1>7

LEMMA SplitRangeIs ==
    ASSUME NEW c \in 0 .. HashBits, NEW index \in Nat, NEW i \in Nat
    PROVE  /\ i \in SplitRange(index, c).start0 .. SplitRange(index, c).start1 - 1
              <=> i \div 2^c = 2 * (index \div (2 * 2^c))
           /\ i \in SplitRange(index, c).start1 .. SplitRange(index, c).end - 1
              <=> i \div 2^c = 2 * (index \div (2 * 2^c)) + 1
<1>1. PICK p \in Nat \ {0} : p = 2^c /\ 2^(c + 1) = 2 * p
  BY Pow
<1>2. PICK w \in Nat \ {0} : w = 2 * p
  OBVIOUS
<1>3. PICK q \in Nat : q = index \div w
  BY DivIs
<1>4. /\ SplitRange(index, c).start0 = (2 * q + 1 - 1) * p
      /\ SplitRange(index, c).start1 = (2 * q + 1) * p
      /\ SplitRange(index, c).end = (2 * q + 1 + 1) * p
  BY <1>1, <1>2, <1>3 DEF SplitRange
<1>5. 2 * q + 1 - 1 = 2 * q /\ 2 * q + 1 + 1 = 2 * q + 2
  OBVIOUS
<1>6. /\ i \div p = 2 * q <=> i \in (2 * q) * p .. (2 * q + 1) * p - 1
      /\ i \div p = 2 * q + 1 <=> i \in (2 * q + 1) * p .. (2 * q + 2) * p - 1
  BY Halves
<1>7. QED
  BY <1>1, <1>2, <1>3, <1>4, <1>5, <1>6

\* The entries of the bucket of entry index: those of the two halves, each of
\* which has some.
Halved(n, b, index, p, q) ==
    /\ p \in Nat \ {0} /\ 2 * p = 2^(n - b) /\ q \in Nat
    /\ \A i \in Nat : i \div (2 * p) = q <=> i \div p = 2 * q \/ i \div p = 2 * q + 1
    /\ \E i \in DirRange(n) : i \div p = 2 * q
    /\ \E i \in DirRange(n) : i \div p = 2 * q + 1

LEMMA HalvesOf ==
    ASSUME NEW n \in 0 .. HashBits, NEW b \in 0 .. n - 1, NEW index \in DirRange(n),
           NEW p, p = 2^(n - b - 1), NEW q, q = index \div (2 * p)
    PROVE  Halved(n, b, index, p, q)
<1>0. n \in Nat /\ b \in Nat /\ HashBits \in Nat /\ n <= HashBits
  BY ConstAssumption
<1>1. PICK c \in 0 .. HashBits : c = n - b - 1 /\ c + 1 = n - b /\ c + 1 \in 0 .. HashBits
  BY <1>0
<1>2. p \in Nat \ {0} /\ 2 * p = 2^(n - b)
  BY <1>1, Pow
<1>3. 2^n \in Nat \ {0} /\ 2^b \in Nat \ {0} /\ index \in Nat /\ index < 2^n
  <2>1. 2^n \in Nat \ {0} /\ 2^b \in Nat \ {0}
    BY <1>0, Pow
  <2>2. QED
    BY <2>1 DEF DirRange
<1>4. q \in Nat /\ (2 * p) * q <= index
  <2>1. PICK w \in Nat \ {0} : w = 2 * p
    BY <1>2
  <2>2. index \div w \in Nat /\ w * (index \div w) <= index
    BY <1>3, DivIs
  <2>3. QED
    BY <2>1, <2>2
<1>5. ASSUME NEW i \in Nat
      PROVE  i \div (2 * p) = q <=> i \div p = 2 * q \/ i \div p = 2 * q + 1
  <2>1. PICK y \in Nat : y = i \div p
    BY <1>2, DivIs
  <2>2. y \div 2 = i \div (2 * p)
    <3>1. PICK t \in Nat \ {0} : t = 2
      OBVIOUS
    <3>2. (i \div p) \div t = i \div (p * t)
      BY <1>2, DivDiv
    <3>3. p * t = 2 * p
      BY <1>2, <3>1
    <3>4. QED
      BY <2>1, <3>1, <3>2, <3>3
  <2>3. PICK z \in Nat : z = y \div 2 /\ 2 * z <= y /\ y < 2 * z + 2
    BY <2>1, DivIs
  <2>4. z = q <=> y = 2 * q \/ y = 2 * q + 1
    BY <1>4, <2>3
  <2>5. QED
    BY <2>1, <2>2, <2>3, <2>4
<1>6. (2 * p) * (q + 1) <= 2^n
  <2>1. 2^n = 2^(n - b) * 2^b
    <3>1. PICK x \in Nat : x = n - b
      BY <1>0, <1>1
    <3>2. 2^(x + b) = 2^x * 2^b /\ x + b = n
      BY <1>0, <3>1, PowSum
    <3>3. QED
      BY <3>1, <3>2
  <2>2. PICK w \in Nat \ {0}, m \in Nat \ {0} : w = 2 * p /\ m = 2^b /\ 2^n = w * m
    BY <1>2, <1>3, <2>1
  <2>3. ~(m <= q)
    <3>1. m <= q => w * m <= w * q
      BY <1>4, MulMono
    <3>2. w * m \in Nat /\ w * q \in Nat
      BY <1>4
    <3>3. QED
      BY <1>3, <1>4, <2>2, <3>1, <3>2
  <2>4. q + 1 <= m
    BY <1>4, <2>3
  <2>5. w * (q + 1) <= w * m
    BY <1>4, <2>4, MulMono
  <2>6. QED
    BY <2>2, <2>5
<1>7. PICK x \in Nat : x = p * (2 * q) /\ p * (2 * q + 1) = x + p /\ (2 * p) * (q + 1) = x + 2 * p
  <2>1. p * (2 * q) \in Nat /\ p * (2 * q + 1) = p * (2 * q) + p
    BY <1>2, <1>4
  <2>2. (2 * p) * (q + 1) = p * (2 * q) + 2 * p
    <3>1. PICK w \in Nat : w = 2 * p
      BY <1>2
    <3>2. w * (q + 1) = w * q + w
      BY <1>4
    <3>3. w * q = p * (2 * q)
      <4>1. PICK y \in Nat : y = p * q
        BY <1>2, <1>4
      <4>2. (2 * p) * q = 2 * y /\ p * (2 * q) = 2 * y
        BY <1>2, <1>4, <4>1
      <4>3. QED
        BY <3>1, <4>2
    <3>4. QED
      BY <3>1, <3>2, <3>3
  <2>3. QED
    BY <2>1, <2>2
<1>8. x \in DirRange(n) /\ x + p \in DirRange(n)
  <2>1. x + 2 * p <= 2^n
    BY <1>6, <1>7
  <2>2. QED
    BY <1>2, <1>3, <2>1 DEF DirRange
<1>9. x \div p = 2 * q
  <2>1. PICK r \in Nat : r = 2 * q
    BY <1>4
  <2>2. p * r <= x /\ x < p * r + p
    BY <1>2, <1>7, <2>1
  <2>3. QED
    BY <1>2, <2>1, <2>2, DivIs
<1>10. (x + p) \div p = 2 * q + 1
  <2>1. PICK r \in Nat : r = 2 * q + 1
    BY <1>4
  <2>2. PICK y \in Nat : y = x + p /\ p * r <= y /\ y < p * r + p
    BY <1>2, <1>7, <2>1
  <2>3. y \div p = r
    BY <1>2, <2>2, DivIs
  <2>4. QED
    BY <2>1, <2>2, <2>3
<1>11. QED
  BY <1>2, <1>4, <1>5, <1>8, <1>9, <1>10 DEF Halved

\* The bit of the hash value that is new tells the half of the entry.
HalfOf(n, b, k, p, q) ==
    /\ BitOf(k, b + 1) \in {0, 1}
    /\ BitOf(k, b + 1) = 0 <=> BucketDir(Hash[k], n) \div p = 2 * q
    /\ BitOf(k, b + 1) = 1 <=> BucketDir(Hash[k], n) \div p = 2 * q + 1

LEMMA BitTellsHalf ==
    ASSUME NEW n \in 0 .. HashBits, NEW b \in 0 .. n - 1, NEW k, Hash[k] \in 0 .. 2^HashBits - 1,
           NEW p, p = 2^(n - b - 1), NEW q \in Nat, BucketDir(Hash[k], n) \div (2 * p) = q
    PROVE  HalfOf(n, b, k, p, q)
<1>0. /\ n \in Nat /\ b \in Nat /\ HashBits \in Nat /\ n <= HashBits /\ b + 1 \in 0 .. n
      /\ n - (b + 1) = n - b - 1 /\ n - b - 1 \in 0 .. HashBits
  BY ConstAssumption
<1>1. p \in Nat \ {0}
  BY <1>0, Pow
<1>2. PICK D \in Nat : D = BucketDir(Hash[k], n)
  <2>1. BucketDir(Hash[k], n) \in DirRange(n) /\ 2^n \in Nat
    BY <1>0, BucketDirFacts, Pow
  <2>2. QED
    BY <2>1 DEF DirRange
<1>3. D \div p = BucketDir(Hash[k], b + 1)
  <2>1. D \div 2^(n - (b + 1)) = BucketDir(Hash[k], b + 1)
    BY <1>0, <1>2, BucketDirFacts
  <2>2. QED
    BY <1>0, <2>1
<1>4. PICK y \in Nat : y = D \div p
  BY <1>1, <1>2, DivIs
<1>5. y \div 2 = q
  <2>1. PICK t \in Nat \ {0} : t = 2
    OBVIOUS
  <2>2. (D \div p) \div t = D \div (p * t)
    BY <1>1, DivDiv
  <2>3. p * t = 2 * p
    BY <1>1, <2>1
  <2>4. QED
    BY <1>2, <1>4, <2>1, <2>2, <2>3
<1>6. BitOf(k, b + 1) = y % 2
  BY <1>3, <1>4 DEF BitOf, BucketDir
<1>7. y % 2 \in {0, 1} /\ y = 2 * q + (y % 2)
  BY <1>5
<1>8. QED
  <2>1. PICK r \in {0, 1} : r = y % 2 /\ y = 2 * q + r
    BY <1>7
  <2>2. (r = 0 <=> y = 2 * q) /\ (r = 1 <=> y = 2 * q + 1)
    BY <2>1
  <2>3. QED
    BY <1>2, <1>4, <1>6, <2>1, <2>2 DEF HalfOf

\* Splitting bucket old into the new buckets A0 and A1.
SplitBuckets(bk, old, A0, A1) ==
    [a \in (DOMAIN bk \ {old}) \cup {A0, A1} |->
       IF a \in {A0, A1}
       THEN [bits |-> bk[old].bits + 1,
             h_table |-> Redistribute(bk[old].h_table, bk[old].bits + 1, IF a = A0 THEN 0 ELSE 1)]
       ELSE bk[a]]

SplitDir(n, d, range, A0, A1) ==
    [i \in DirRange(n) |-> IF i \in range.start0 .. range.start1 - 1 THEN A0
                           ELSE IF i \in range.start1 .. range.end - 1 THEN A1
                           ELSE d[i]]

LEMMA Splits ==
    ASSUME NEW n, NEW d, NEW bk, GoodDir(n, d, bk), NEW index \in DirRange(n),
           NEW old, old = d[index], NEW b, b = bk[old].bits, b < n, Used(bk[old].h_table) = Slot,
           NEW A0 \in Adr, NEW A1 \in Adr, A0 \notin DOMAIN bk, A1 \notin DOMAIN bk, A0 # A1,
           NEW bk1, bk1 = SplitBuckets(bk, old, A0, A1),
           NEW d1, d1 = SplitDir(n, d, SplitRange(index, n - b - 1), A0, A1)
    PROVE  GoodDir(n, d1, bk1) /\ AllElems(bk1) = AllElems(bk)
<1>0. Typed(n, d, bk) /\ Regular(n, d, bk)
  BY DEF GoodDir
<1>1. /\ n \in 0 .. HashBits /\ n \in Nat /\ HashBits \in Nat /\ n <= HashBits
      /\ index \in Nat /\ old \in DOMAIN bk /\ b \in 0 .. n - 1 /\ b \in Nat
      /\ n - b - 1 \in 0 .. HashBits /\ (n - b - 1) + 1 = n - b /\ n - (b + 1) = n - b - 1
      /\ \A i \in DirRange(n) : i \in Nat /\ d[i] \in DOMAIN bk
  <2>1. /\ n \in 0 .. HashBits /\ n \in Nat /\ HashBits \in Nat /\ n <= HashBits
        /\ index \in Nat /\ old \in DOMAIN bk /\ b \in 0 .. n
        /\ \A i \in DirRange(n) : i \in Nat /\ d[i] \in DOMAIN bk
    BY <1>0, BitsFacts
  <2>2. QED
    BY <2>1
<1>p. PICK p : p = 2^(n - b - 1)
  OBVIOUS
<1>q. PICK q : q = index \div (2 * p)
  OBVIOUS
<1>2. /\ p \in Nat \ {0} /\ 2 * p = 2^(n - b) /\ q \in Nat
      /\ \A i \in Nat : i \div (2 * p) = q <=> i \div p = 2 * q \/ i \div p = 2 * q + 1
      /\ \E i \in DirRange(n) : i \div p = 2 * q
      /\ \E i \in DirRange(n) : i \div p = 2 * q + 1
  <2>1. Halved(n, b, index, p, q)
    BY <1>1, <1>p, <1>q, HalvesOf
  <2>2. QED
    BY <2>1 DEF Halved
<1>3. ASSUME NEW i \in DirRange(n)
      PROVE  d1[i] = IF i \div p = 2 * q THEN A0 ELSE IF i \div p = 2 * q + 1 THEN A1 ELSE d[i]
  <2>1. PICK c \in 0 .. HashBits : c = n - b - 1
    BY <1>1
  <2>2. PICK R : R = SplitRange(index, c)
    OBVIOUS
  <2>3. i \in Nat /\ index \in Nat
    BY <1>1, <1>3
  <2>4. /\ i \in R.start0 .. R.start1 - 1 <=> i \div 2^c = 2 * (index \div (2 * 2^c))
        /\ i \in R.start1 .. R.end - 1 <=> i \div 2^c = 2 * (index \div (2 * 2^c)) + 1
    BY <2>2, <2>3, SplitRangeIs, Zenon
  <2>5. p = 2^c /\ q = index \div (2 * p)
    BY <1>p, <1>q, <2>1, Zenon
  <2>6. /\ i \in R.start0 .. R.start1 - 1 <=> i \div p = 2 * q
        /\ i \in R.start1 .. R.end - 1 <=> i \div p = 2 * q + 1
    BY <2>4, <2>5, Zenon
  <2>7. d1 = SplitDir(n, d, R, A0, A1)
    BY <2>1, <2>2, Zenon
  <2>8. d1[i] = IF i \in R.start0 .. R.start1 - 1 THEN A0
                ELSE IF i \in R.start1 .. R.end - 1 THEN A1 ELSE d[i]
    BY <1>3, <2>7, Zenon DEF SplitDir
  <2>9. QED
    BY <2>6, <2>8, Zenon
<1>4. Width(n, bk, old) = 2 * p
  BY <1>2 DEF Width
<1>5. \A i \in DirRange(n) : d[i] = old <=> i \div (2 * p) = q
  BY <1>0, <1>4, <1>q DEF Regular
<1>b. \A e \in Elems(bk[old].h_table) :
        /\ e.key \in Key /\ Hash[e.key] \in 0 .. 2^HashBits - 1
        /\ BucketDir(Hash[e.key], n) \in DirRange(n) /\ BucketDir(Hash[e.key], n) \div (2 * p) = q
        /\ BitOf(e.key, b + 1) \in {0, 1}
        /\ BitOf(e.key, b + 1) = 0 <=> BucketDir(Hash[e.key], n) \div p = 2 * q
        /\ BitOf(e.key, b + 1) = 1 <=> BucketDir(Hash[e.key], n) \div p = 2 * q + 1
  <2> TAKE e \in Elems(bk[old].h_table)
  <2>1. e.key \in Key /\ Hash[e.key] \in 0 .. 2^HashBits - 1
    <3>1. bk[old].h_table \in Table
      BY <1>0, <1>1, BitsFacts
    <3>2. QED
      BY <3>1, HashFacts
  <2>2. BucketDir(Hash[e.key], n) \in DirRange(n)
    <3>1. n \in 0 .. n
      BY <1>1
    <3>2. QED
      BY <1>1, <2>1, <3>1, BucketDirFacts
  <2>3. d[BucketDir(Hash[e.key], n)] = old
    BY <1>1 DEF GoodDir, Placed
  <2>4. BucketDir(Hash[e.key], n) \div (2 * p) = q
    BY <1>5, <2>2, <2>3
  <2>5. /\ BitOf(e.key, b + 1) \in {0, 1}
        /\ BitOf(e.key, b + 1) = 0 <=> BucketDir(Hash[e.key], n) \div p = 2 * q
        /\ BitOf(e.key, b + 1) = 1 <=> BucketDir(Hash[e.key], n) \div p = 2 * q + 1
    <3>1. HalfOf(n, b, e.key, p, q)
      BY <1>1, <1>2, <1>p, <2>1, <2>4, BitTellsHalf
    <3>2. QED
      BY <3>1 DEF HalfOf
  <2>6. QED
    BY <2>1, <2>2, <2>4, <2>5
<1>w. 2^(n - (b + 1)) = p
  BY <1>1, <1>p
<1> DEFINE T0 == Redistribute(bk[old].h_table, b + 1, 0)
           T1 == Redistribute(bk[old].h_table, b + 1, 1)
<1>6. /\ GoodTable(T0) /\ Elems(T0) = {e \in Elems(bk[old].h_table) : BitOf(e.key, b + 1) = 0}
      /\ GoodTable(T1) /\ Elems(T1) = {e \in Elems(bk[old].h_table) : BitOf(e.key, b + 1) = 1}
  <2>1. GoodTable(bk[old].h_table)
    BY <1>1 DEF GoodDir
  <2>2. QED
    BY <2>1, RedistributeRight
<1>7. /\ DOMAIN bk1 = (DOMAIN bk \ {old}) \cup {A0, A1}
      /\ bk1[A0] = [bits |-> b + 1, h_table |-> T0]
      /\ bk1[A1] = [bits |-> b + 1, h_table |-> T1]
      /\ \A a \in DOMAIN bk \ {old} : bk1[a] = bk[a] /\ a # A0 /\ a # A1
  BY DEF SplitBuckets
<1> HIDE DEF T0, T1
<1>8. \A a \in DOMAIN bk1 : bk1[a] \in [bits : Nat, h_table : Table] /\ bk1[a].bits <= n /\ GoodTable(bk1[a].h_table)
  <2> SUFFICES ASSUME NEW a \in DOMAIN bk1
               PROVE  bk1[a] \in [bits : Nat, h_table : Table] /\ bk1[a].bits <= n /\ GoodTable(bk1[a].h_table)
    OBVIOUS
  <2>1. b + 1 \in Nat /\ b + 1 <= n /\ T0 \in Table /\ T1 \in Table
    BY <1>1, <1>6 DEF GoodTable
  <2>2. CASE a = A0
    BY <1>6, <1>7, <2>1, <2>2
  <2>3. CASE a = A1
    BY <1>6, <1>7, <2>1, <2>3
  <2>4. CASE a \in DOMAIN bk \ {old}
    BY <1>7, <2>4 DEF GoodDir, Typed
  <2>5. QED
    BY <1>7, <2>2, <2>3, <2>4
<1>9. \A i \in DirRange(n) : d1[i] \in DOMAIN bk1
  <2> SUFFICES ASSUME NEW i \in DirRange(n) PROVE d1[i] \in DOMAIN bk1
    OBVIOUS
  <2>1. CASE i \div p = 2 * q \/ i \div p = 2 * q + 1
    BY <1>3, <1>7, <2>1
  <2>2. CASE ~(i \div p = 2 * q \/ i \div p = 2 * q + 1)
    <3>1. d1[i] = d[i] /\ d[i] # old /\ d[i] \in DOMAIN bk
      BY <1>1, <1>2, <1>3, <1>5, <2>2
    <3>2. QED
      BY <1>7, <3>1
  <2>3. QED
    BY <2>1, <2>2
<1>10. Typed(n, d1, bk1)
  <2>1. d1 \in [DirRange(n) -> DOMAIN bk1]
    BY <1>9 DEF SplitDir
  <2>2. DOMAIN bk1 \subseteq Adr
    BY <1>0, <1>7 DEF Typed
  <2>3. bk1 = [a \in DOMAIN bk1 |-> bk1[a]]
    BY DEF SplitBuckets
  <2>4. QED
    BY <1>0, <1>8, <2>1, <2>2, <2>3 DEF Typed
<1>11. Regular(n, d1, bk1)
  <2>1. {d1[i] : i \in DirRange(n)} = DOMAIN bk1
    <3>1. \A a \in DOMAIN bk1 : \E i \in DirRange(n) : d1[i] = a
      <4> SUFFICES ASSUME NEW a \in DOMAIN bk1 PROVE \E i \in DirRange(n) : d1[i] = a
        OBVIOUS
      <4>1. CASE a = A0
        BY <1>2, <1>3, <4>1
      <4>2. CASE a = A1
        <5>1. PICK i \in DirRange(n) : i \div p = 2 * q + 1
          BY <1>2
        <5>2. 2 * q # 2 * q + 1
          BY <1>2
        <5>3. QED
          BY <1>3, <4>2, <5>1, <5>2
      <4>3. CASE a \in DOMAIN bk \ {old}
        <5>1. PICK i \in DirRange(n) : d[i] = a
          BY <1>0, <4>3 DEF Regular
        <5>2. ~(i \div p = 2 * q \/ i \div p = 2 * q + 1)
          BY <1>1, <1>2, <1>5, <4>3, <5>1
        <5>3. QED
          BY <1>3, <5>1, <5>2
      <4>4. QED
        BY <1>7, <4>1, <4>2, <4>3
    <3>2. QED
      BY <1>9, <3>1
  <2>2. ASSUME NEW i \in DirRange(n), NEW j \in DirRange(n)
        PROVE  d1[i] = d1[j] <=> i \div Width(n, bk1, d1[i]) = j \div Width(n, bk1, d1[i])
    <3>0. Width(n, bk1, A0) = p /\ Width(n, bk1, A1) = p
      BY <1>7, <1>w DEF Width
    <3>1. d[i] \in DOMAIN bk /\ d[j] \in DOMAIN bk /\ 2 * q # 2 * q + 1
      BY <1>1, <1>2
    <3>2. CASE i \div p = 2 * q
      <4>1. d1[i] = A0
        BY <1>3, <3>2
      <4>2. d1[j] = A0 <=> j \div p = 2 * q
        BY <1>3, <3>1
      <4>3. QED
        BY <3>0, <3>2, <4>1, <4>2
    <3>3. CASE i \div p = 2 * q + 1
      <4>1. d1[i] = A1
        BY <1>3, <3>1, <3>3
      <4>2. d1[j] = A1 <=> j \div p = 2 * q + 1
        BY <1>3, <3>1
      <4>3. QED
        BY <3>0, <3>3, <4>1, <4>2
    <3>4. CASE ~(i \div p = 2 * q \/ i \div p = 2 * q + 1)
      <4>1. d1[i] = d[i] /\ d[i] # old /\ d[i] # A0 /\ d[i] # A1
        BY <1>1, <1>2, <1>3, <1>5, <3>1, <3>4
      <4>2. Width(n, bk1, d[i]) = Width(n, bk, d[i])
        BY <1>7, <3>1, <4>1 DEF Width
      <4>3. d1[j] = d[i] <=> d[j] = d[i]
        <5>1. CASE j \div p = 2 * q \/ j \div p = 2 * q + 1
          <6>1. d[j] = old
            BY <1>1, <1>2, <1>5, <5>1
          <6>2. QED
            BY <1>3, <4>1, <5>1, <6>1
        <5>2. CASE ~(j \div p = 2 * q \/ j \div p = 2 * q + 1)
          BY <1>3, <5>2
        <5>3. QED
          BY <5>1, <5>2
      <4>4. d[i] = d[j] <=> i \div Width(n, bk, d[i]) = j \div Width(n, bk, d[i])
        BY <1>0 DEF Regular
      <4>5. QED
        BY <4>1, <4>2, <4>3, <4>4
    <3>5. QED
      BY <3>2, <3>3, <3>4
  <2>3. QED
    BY <2>1, <2>2 DEF Regular
<1>12. Placed(n, d1, bk1)
  <2> SUFFICES ASSUME NEW a \in DOMAIN bk1, NEW e \in Elems(bk1[a].h_table)
               PROVE  d1[BucketDir(Hash[e.key], n)] = a
    BY DEF Placed
  <2>1. CASE a = A0
    <3>1. e \in Elems(bk[old].h_table) /\ BitOf(e.key, b + 1) = 0
      BY <1>6, <1>7, <2>1
    <3>2. BucketDir(Hash[e.key], n) \in DirRange(n) /\ BucketDir(Hash[e.key], n) \div p = 2 * q
      BY <1>b, <3>1
    <3>3. QED
      BY <1>3, <2>1, <3>2
  <2>2. CASE a = A1
    <3>1. e \in Elems(bk[old].h_table) /\ BitOf(e.key, b + 1) = 1
      BY <1>6, <1>7, <2>2
    <3>2. BucketDir(Hash[e.key], n) \in DirRange(n) /\ BucketDir(Hash[e.key], n) \div p = 2 * q + 1
      BY <1>b, <3>1
    <3>3. 2 * q # 2 * q + 1
      BY <1>2
    <3>4. QED
      BY <1>3, <2>2, <3>2, <3>3
  <2>3. CASE a \in DOMAIN bk \ {old}
    <3>1. e \in Elems(bk[a].h_table) /\ a # old
      BY <1>7, <2>3
    <3>2. d[BucketDir(Hash[e.key], n)] = a
      BY <2>3, <3>1 DEF GoodDir, Placed
    <3>3. PICK i \in DirRange(n) : i = BucketDir(Hash[e.key], n)
      <4>1. Hash[e.key] \in 0 .. 2^HashBits - 1
        BY <1>0, <2>3, <3>1, BitsFacts, HashFacts
      <4>2. n \in 0 .. n
        BY <1>1
      <4>3. QED
        BY <1>1, <4>1, <4>2, BucketDirFacts
    <3>4. ~(i \div p = 2 * q \/ i \div p = 2 * q + 1)
      BY <1>1, <1>2, <1>5, <3>1, <3>2, <3>3
    <3>5. QED
      BY <1>3, <3>2, <3>3, <3>4
  <2>4. QED
    BY <1>7, <2>1, <2>2, <2>3
<1>13. AllElems(bk1) = AllElems(bk)
  <2>1. Elems(bk[old].h_table) = Elems(T0) \cup Elems(T1)
    BY <1>6, <1>b
  <2>2. bk1[A0].h_table = T0 /\ bk1[A1].h_table = T1
    BY <1>7
  <2>3. ASSUME NEW e \in AllElems(bk1) PROVE e \in AllElems(bk)
    <3>1. PICK a \in DOMAIN bk1 : e \in Elems(bk1[a].h_table)
      BY <2>3 DEF AllElems
    <3>2. CASE a \in {A0, A1}
      BY <1>1, <2>1, <2>2, <3>1, <3>2 DEF AllElems
    <3>3. CASE a \in DOMAIN bk \ {old}
      BY <1>7, <3>1, <3>3 DEF AllElems
    <3>4. QED
      BY <1>7, <3>2, <3>3
  <2>4. ASSUME NEW e \in AllElems(bk) PROVE e \in AllElems(bk1)
    <3>1. PICK a \in DOMAIN bk : e \in Elems(bk[a].h_table)
      BY <2>4 DEF AllElems
    <3>2. CASE a = old
      <4>1. e \in Elems(bk1[A0].h_table) \/ e \in Elems(bk1[A1].h_table)
        BY <2>1, <2>2, <3>1, <3>2
      <4>2. A0 \in DOMAIN bk1 /\ A1 \in DOMAIN bk1
        BY <1>7
      <4>3. QED
        BY <4>1, <4>2 DEF AllElems
    <3>3. CASE a # old
      BY <1>7, <3>1, <3>3 DEF AllElems
    <3>4. QED
      BY <3>2, <3>3
  <2>5. QED
    BY <2>3, <2>4
<1>14. QED
  BY <1>8, <1>10, <1>11, <1>12, <1>13 DEF GoodDir

-----------------------------------------------------------------------------
(* What a call finds and changes. *)

TableIn(n, d, bk, k) == bk[d[BucketDir(Hash[k], n)]].h_table
SlotsIn(n, d, bk, k) == FindKey(TableIn(n, d, bk, k), k)

LEMMA KeyEntry ==
    ASSUME NEW n, NEW d, NEW bk, GoodDir(n, d, bk), NEW k \in Key
    PROVE  /\ BucketDir(Hash[k], n) \in DirRange(n)
           /\ d[BucketDir(Hash[k], n)] \in DOMAIN bk
           /\ GoodTable(TableIn(n, d, bk, k))
<1>0. Typed(n, d, bk)
  BY DEF GoodDir
<1>1. n \in 0 .. HashBits /\ n \in 0 .. n
  BY <1>0, BitsFacts
<1>2. Hash[k] \in 0 .. 2^HashBits - 1
  BY ConstAssumption
<1>3. BucketDir(Hash[k], n) \in DirRange(n)
  BY <1>1, <1>2, BucketDirFacts
<1>4. QED
  BY <1>0, <1>3 DEF Typed, GoodDir, TableIn

\* A call finds a key exactly when some bucket holds it, and finds its element.
LEMMA Found ==
    ASSUME NEW n, NEW d, NEW bk, GoodDir(n, d, bk), NEW k \in Key
    PROVE  /\ \A s \in SlotsIn(n, d, bk, k) :
                /\ s \in Used(TableIn(n, d, bk, k)) /\ TableIn(n, d, bk, k)[s] \in AllElems(bk)
                /\ TableIn(n, d, bk, k)[s].key = k /\ SlotsIn(n, d, bk, k) = {s}
           /\ \A e \in AllElems(bk) :
                e.key = k => \E s \in SlotsIn(n, d, bk, k) : TableIn(n, d, bk, k)[s] = e
<1> DEFINE a == d[BucketDir(Hash[k], n)]
           t == TableIn(n, d, bk, k)
<1>0. a \in DOMAIN bk /\ GoodTable(t)
  BY KeyEntry
<1>1. /\ SlotsIn(n, d, bk, k) = {s \in Used(t) : t[s].key = k}
      /\ \A s \in Used(t) : t[s].key = k => SlotsIn(n, d, bk, k) = {s}
  <2> HIDE DEF t
  <2>1. /\ FindKey(t, k) = {s \in Used(t) : t[s].key = k}
        /\ \A s \in Used(t) : t[s].key = k => FindKey(t, k) = {s}
    BY <1>0, FindKeyRight
  <2>2. QED
    BY <2>1 DEF SlotsIn, t
<1>2. \A s \in Used(t) : t[s] \in AllElems(bk)
  BY <1>0 DEF AllElems, Elems, TableIn
<1>3. ASSUME NEW e \in AllElems(bk), e.key = k PROVE \E s \in Used(t) : t[s] = e
  <2>1. PICK x \in DOMAIN bk : e \in Elems(bk[x].h_table)
    BY DEF AllElems
  <2>2. x = a
    BY <1>3, <2>1 DEF GoodDir, Placed
  <2>3. QED
    BY <2>1, <2>2 DEF Elems, TableIn
<1>4. QED
  BY <1>1, <1>2, <1>3

\* Another table for one bucket.
WithTable(bk, a, u) == [bk EXCEPT ![a].h_table = u]
LeadTo(n, d, u, a) == \A e \in Elems(u) : d[BucketDir(Hash[e.key], n)] = a

LEMMA SetTableRight ==
    ASSUME NEW n, NEW d, NEW bk, GoodDir(n, d, bk), NEW a \in DOMAIN bk, NEW u, GoodTable(u),
           LeadTo(n, d, u, a), NEW bk1, bk1 = WithTable(bk, a, u)
    PROVE  /\ GoodDir(n, d, bk1)
           /\ DOMAIN bk1 = DOMAIN bk
           /\ AllElems(bk1) = (AllElems(bk) \ Elems(bk[a].h_table)) \cup Elems(u)
<1>0. Typed(n, d, bk) /\ u \in Table
  BY DEF GoodDir, GoodTable
<1>1. bk \in [DOMAIN bk -> [bits : Nat, h_table : Table]]
  BY <1>0 DEF Typed
<1>2. /\ DOMAIN bk1 = DOMAIN bk /\ bk1[a].bits = bk[a].bits /\ bk1[a].h_table = u
      /\ \A x \in DOMAIN bk : x # a => bk1[x] = bk[x]
  BY <1>1 DEF WithTable
<1>3. bk1 \in [DOMAIN bk1 -> [bits : Nat, h_table : Table]]
  BY <1>0, <1>1 DEF WithTable
<1>4. \A x \in DOMAIN bk : bk1[x].bits = bk[x].bits /\ Width(n, bk1, x) = Width(n, bk, x)
  BY <1>2 DEF Width
<1>5. Typed(n, d, bk1)
  BY <1>0, <1>2, <1>3, <1>4 DEF Typed
<1>6. Regular(n, d, bk1)
  <2>1. \A i \in DirRange(n) : d[i] \in DOMAIN bk
    BY <1>0 DEF Typed
  <2>2. \A i \in DirRange(n) : Width(n, bk1, d[i]) = Width(n, bk, d[i])
    BY <1>4, <2>1
  <2>3. Regular(n, d, bk)
    BY DEF GoodDir
  <2>4. \A i, j \in DirRange(n) :
          d[i] = d[j] <=> i \div Width(n, bk1, d[i]) = j \div Width(n, bk1, d[i])
    BY <2>2, <2>3 DEF Regular
  <2>5. {d[i] : i \in DirRange(n)} = DOMAIN bk1
    BY <1>2, <2>3 DEF Regular
  <2>6. QED
    BY <2>4, <2>5 DEF Regular
<1>7. (\A x \in DOMAIN bk1 : GoodTable(bk1[x].h_table)) /\ Placed(n, d, bk1)
  BY <1>2 DEF GoodDir, Placed, LeadTo
<1>8. AllElems(bk1) = (AllElems(bk) \ Elems(bk[a].h_table)) \cup Elems(u)
  <2>1. \A x \in DOMAIN bk : x # a => \A e \in Elems(bk[x].h_table) : e \notin Elems(bk[a].h_table)
    BY DEF GoodDir, Placed
  <2>2. ASSUME NEW e \in AllElems(bk1) PROVE e \in (AllElems(bk) \ Elems(bk[a].h_table)) \cup Elems(u)
    <3>1. PICK x \in DOMAIN bk : e \in Elems(bk1[x].h_table)
      BY <1>2, <2>2 DEF AllElems
    <3>2. QED
      BY <1>2, <2>1, <3>1 DEF AllElems
  <2>3. ASSUME NEW e \in (AllElems(bk) \ Elems(bk[a].h_table)) \cup Elems(u) PROVE e \in AllElems(bk1)
    <3>1. CASE e \in Elems(u)
      BY <1>2, <3>1 DEF AllElems
    <3>2. CASE e \in AllElems(bk) \ Elems(bk[a].h_table)
      <4>1. PICK x \in DOMAIN bk : e \in Elems(bk[x].h_table)
        BY <3>2 DEF AllElems
      <4>2. x # a
        BY <3>2, <4>1
      <4>3. QED
        BY <1>2, <4>1, <4>2 DEF AllElems
    <3>3. QED
      BY <2>3, <3>1, <3>2
  <2>4. QED
    BY <2>2, <2>3
<1>9. QED
  BY <1>2, <1>5, <1>6, <1>7, <1>8 DEF GoodDir

\* Storing a new element, in a bucket that is not full.
LEMMA StoresRight ==
    ASSUME NEW n, NEW d, NEW bk, GoodDir(n, d, bk), NEW e \in Elem,
           \A x \in AllElems(bk) : x.key # e.key,
           NEW a, a = d[BucketDir(Hash[e.key], n)], Used(bk[a].h_table) # Slot,
           NEW bk1, bk1 = WithTable(bk, a, Put(bk[a].h_table, e))
    PROVE  GoodDir(n, d, bk1) /\ AllElems(bk1) = AllElems(bk) \cup {e}
<1>0. e.key \in Key /\ a \in DOMAIN bk /\ GoodTable(bk[a].h_table)
  BY KeyEntry DEF Elem, TableIn
<1>1. \A x \in Elems(bk[a].h_table) : x \in AllElems(bk) /\ d[BucketDir(Hash[x.key], n)] = a
  BY <1>0 DEF AllElems, GoodDir, Placed
<1> DEFINE t == bk[a].h_table
           u == Put(t, e)
<1>2. GoodTable(u) /\ Elems(u) = Elems(t) \cup {e}
  BY <1>0, <1>1, PutRight
<1>3. LeadTo(n, d, u, a)
  BY <1>1, <1>2 DEF LeadTo
<1> HIDE DEF u
<1>4. bk1 = WithTable(bk, a, u)
  BY DEF u
<1>5. GoodDir(n, d, bk1) /\ AllElems(bk1) = (AllElems(bk) \ Elems(t)) \cup Elems(u)
  BY <1>0, <1>2, <1>3, <1>4, SetTableRight
<1>6. QED
  BY <1>1, <1>2, <1>5

\* Replacing the contents of a key.
Replaced(bk, bk1, e, k, v) ==
    /\ AllElems(bk1) = (AllElems(bk) \ {e}) \cup {[key |-> k, data |-> v]}
    /\ \A x \in DOMAIN bk : Used(bk1[x].h_table) = Used(bk[x].h_table)
    /\ \A x \in DOMAIN bk : \A r \in Used(bk[x].h_table) : bk1[x].h_table[r].key = bk[x].h_table[r].key

ReplaceAt(t, s, v) == [t EXCEPT ![s].data = v]

LEMMA ReplacesRight ==
    ASSUME NEW n, NEW d, NEW bk, GoodDir(n, d, bk), NEW k \in Key, NEW v \in Value,
           NEW a, a = d[BucketDir(Hash[k], n)], NEW s \in SlotsIn(n, d, bk, k),
           NEW bk1, bk1 = WithTable(bk, a, ReplaceAt(bk[a].h_table, s, v))
    PROVE  GoodDir(n, d, bk1) /\ Replaced(bk, bk1, bk[a].h_table[s], k, v)
<1>0. a \in DOMAIN bk /\ GoodTable(bk[a].h_table)
  BY KeyEntry DEF TableIn
<1> DEFINE t == bk[a].h_table
           u == [t EXCEPT ![s].data = v]
           e == [key |-> k, data |-> v]
<1>1. s \in Used(t) /\ t[s].key = k
  BY Found DEF TableIn
<1>2. GoodTable(u) /\ Elems(u) = (Elems(t) \ {t[s]}) \cup {e} /\ Used(u) = Used(t)
  <2>1. /\ GoodTable([t EXCEPT ![s].data = v])
        /\ Elems([t EXCEPT ![s].data = v]) = (Elems(t) \ {t[s]}) \cup {[key |-> t[s].key, data |-> v]}
        /\ Used([t EXCEPT ![s].data = v]) = Used(t)
    <3> HIDE DEF t
    <3>1. QED
      BY <1>0, <1>1, ReplaceRight DEF t
  <2>2. QED
    BY <1>1, <2>1
<1>3. \A x \in Elems(t) : x \in AllElems(bk) /\ d[BucketDir(Hash[x.key], n)] = a
  BY <1>0 DEF AllElems, GoodDir, Placed
<1>k. \A r \in Used(t) : u[r].key = t[r].key
  <2>0. t \in Table /\ s \in Slot /\ t[s] \in Elem
    BY <1>0, <1>1, UsedFacts DEF GoodTable, Used
  <2> SUFFICES ASSUME NEW r \in Used(t) PROVE u[r].key = t[r].key
    OBVIOUS
  <2>1. r \in Slot /\ DOMAIN t = Slot
    BY <2>0 DEF Used, Table
  <2>2. CASE r = s
    <3>1. u[s] = [t[s] EXCEPT !.data = v]
      BY <2>0, <2>1
    <3>2. [t[s] EXCEPT !.data = v].key = t[s].key
      BY <2>0 DEF Elem
    <3>3. QED
      BY <2>2, <3>1, <3>2
  <2>3. CASE r # s
    BY <2>0, <2>1, <2>3
  <2>4. QED
    BY <2>2, <2>3
<1> HIDE DEF u
<1>4. LeadTo(n, d, u, a)
  <2>1. e.key = k
    OBVIOUS
  <2> HIDE DEF e
  <2>2. QED
    BY <1>2, <1>3, <2>1 DEF LeadTo
<1>5. bk1 = WithTable(bk, a, u)
  BY DEF u, ReplaceAt
<1>6. GoodDir(n, d, bk1) /\ AllElems(bk1) = (AllElems(bk) \ Elems(t)) \cup Elems(u)
  BY <1>0, <1>2, <1>4, <1>5, SetTableRight
<1>7. AllElems(bk1) = (AllElems(bk) \ {t[s]}) \cup {e}
  <2>1. t[s] \in Elems(t)
    BY <1>1 DEF Elems
  <2> HIDE DEF e, t
  <2>2. QED
    BY <1>2, <1>3, <1>6, <2>1
<1>8. \A x \in DOMAIN bk : IF x = a THEN bk1[x].h_table = u ELSE bk1[x] = bk[x]
  <2>1. bk \in [DOMAIN bk -> [bits : Nat, h_table : Table]]
    BY DEF GoodDir, Typed
  <2>2. QED
    BY <1>5, <2>1 DEF WithTable
<1>9. QED
  BY <1>2, <1>6, <1>7, <1>8, <1>k DEF Replaced

\* Deleting a key.
LEMMA DeletesRight ==
    ASSUME NEW n, NEW d, NEW bk, GoodDir(n, d, bk), NEW k \in Key,
           NEW a, a = d[BucketDir(Hash[k], n)], NEW s \in SlotsIn(n, d, bk, k),
           NEW bk1, bk1 = WithTable(bk, a, Remove(bk[a].h_table, s))
    PROVE  GoodDir(n, d, bk1) /\ AllElems(bk1) = AllElems(bk) \ {bk[a].h_table[s]}
<1>0. a \in DOMAIN bk /\ GoodTable(bk[a].h_table)
  BY KeyEntry DEF TableIn
<1> DEFINE t == bk[a].h_table
           u == Remove(t, s)
<1>1. s \in Used(t) /\ t[s].key = k
  BY Found DEF TableIn
<1>2. GoodTable(u) /\ Elems(u) = Elems(t) \ {t[s]}
  <2> HIDE DEF t
  <2>1. QED
    BY <1>0, <1>1, RemoveRight DEF t
<1>3. \A x \in Elems(t) : x \in AllElems(bk) /\ d[BucketDir(Hash[x.key], n)] = a
  BY <1>0 DEF AllElems, GoodDir, Placed
<1> HIDE DEF u
<1>4. LeadTo(n, d, u, a)
  BY <1>2, <1>3 DEF LeadTo
<1>5. bk1 = WithTable(bk, a, u)
  BY DEF u
<1>6. GoodDir(n, d, bk1) /\ AllElems(bk1) = (AllElems(bk) \ Elems(t)) \cup Elems(u)
  BY <1>0, <1>2, <1>4, <1>5, SetTableRight
<1>7. t[s] \in Elems(t)
  BY <1>1 DEF Elems
<1>8. QED
  <2> HIDE DEF t
  <2>1. AllElems(bk1) = AllElems(bk) \ {t[s]}
    BY <1>2, <1>3, <1>6, <1>7
  <2>2. QED
    BY <1>6, <2>1 DEF t

\* There are addresses for two more buckets: the directory bounds their number.
LEMMA NewAdrRight ==
    ASSUME NEW n, NEW d, NEW bk, GoodDir(n, d, bk),
           NEW A0, A0 = NewAdr(DOMAIN bk), NEW A1, A1 = NewAdr(DOMAIN bk \cup {A0})
    PROVE  A0 \in Adr /\ A1 \in Adr /\ A0 \notin DOMAIN bk /\ A1 \notin DOMAIN bk /\ A0 # A1
<1>0. Typed(n, d, bk) /\ Regular(n, d, bk)
  BY DEF GoodDir
<1>1. /\ 2^n \in Nat \ {0} /\ 2^MaxDirBits \in Nat \ {0} /\ 2^n <= 2^MaxDirBits
  <2>1. n \in 0 .. HashBits /\ MaxDirBits \in 0 .. HashBits /\ n <= MaxDirBits
    BY <1>0, BitsFacts
  <2>2. QED
    BY <2>1, Pow, PowMono
<1>2. IsFiniteSet(DirRange(n)) /\ Cardinality(DirRange(n)) = 2^n
  <2>1. PICK m \in Nat \ {0} : m = 2^n
    BY <1>1
  <2>2. IsFiniteSet(0 .. m - 1) /\ Cardinality(0 .. m - 1) = m
    BY FS_Interval
  <2>3. QED
    BY <2>1, <2>2 DEF DirRange
<1>3. IsFiniteSet(DOMAIN bk) /\ Cardinality(DOMAIN bk) <= 2^n
  <2>1. d \in Surjection(DirRange(n), DOMAIN bk)
    BY <1>0 DEF Typed, Regular, Surjection
  <2>2. QED
    BY <1>2, <2>1, FS_Surjection
<1>4. Cardinality(DOMAIN bk) \in Nat
  BY <1>3, FS_CardinalityType
<1>5. DOMAIN bk \in SUBSET Adr /\ DOMAIN bk # Adr
  <2>1. DOMAIN bk \in SUBSET Adr
    BY <1>0 DEF Typed
  <2>2. Cardinality(DOMAIN bk) <= 2^MaxDirBits + 1
    BY <1>1, <1>3, <1>4
  <2>3. QED
    BY <2>1, <2>2, ConstAssumption
<1>6. A0 \in Adr /\ A0 \notin DOMAIN bk
  <2>1. \E a \in Adr : a \notin DOMAIN bk
    BY <1>5
  <2>2. QED
    BY <2>1 DEF NewAdr
<1>7. DOMAIN bk \cup {A0} # Adr
  <2>1. IsFiniteSet(DOMAIN bk \cup {A0}) /\ Cardinality(DOMAIN bk \cup {A0}) = Cardinality(DOMAIN bk) + 1
    BY <1>3, <1>6, FS_AddElement
  <2>2. Cardinality(DOMAIN bk \cup {A0}) <= 2^MaxDirBits + 1
    BY <1>1, <1>3, <1>4, <2>1
  <2>3. DOMAIN bk \cup {A0} \in SUBSET Adr
    BY <1>5, <1>6
  <2>4. QED
    BY <2>2, <2>3, ConstAssumption
<1>8. A1 \in Adr /\ A1 \notin DOMAIN bk \cup {A0}
  <2>1. \E a \in Adr : a \notin DOMAIN bk \cup {A0}
    BY <1>5, <1>6, <1>7
  <2>2. QED
    BY <2>1 DEF NewAdr
<1>9. QED
  BY <1>6, <1>8

-----------------------------------------------------------------------------
(* The invariant. *)

IInv ==
    /\ GoodDir(dir_bits, dir, bucket)
    /\ bucket_dir \in DirRange(dir_bits)
    /\ op \in Elem \cup {None}
    /\ need_recovery \in BOOLEAN
    /\ op # None => /\ \A e \in AllElems(bucket) : e.key # op.key
                    /\ bucket_dir = DirOf(op.key)
                    /\ ~need_recovery

LEMMA InitInv == Init => IInv
<1> SUFFICES ASSUME Init PROVE IInv
  OBVIOUS
<1> DEFINE A == NewAdr({})
           n == InitDirBits
<1>1. /\ n \in 0 .. HashBits /\ n \in InitDirBits .. MaxDirBits /\ n \in Nat
      /\ 2^n \in Nat \ {0}
  <2>1. n \in 0 .. HashBits /\ n \in InitDirBits .. MaxDirBits /\ n \in Nat
    BY ConstAssumption
  <2>2. QED
    BY <2>1, Pow
<1>2. 0 \in DirRange(n) /\ \A i \in DirRange(n) : i \in Nat /\ i < 2^n
  BY <1>1 DEF DirRange
<1>3. A \in Adr
  <2>1. {} # Adr
    <3>1. 2^MaxDirBits \in Nat
      BY ConstAssumption, Pow
    <3>2. QED
      BY <3>1, FS_EmptySet, ConstAssumption
  <2>2. QED
    BY <2>1 DEF NewAdr
<1> HIDE DEF A
<1>4. /\ dir_bits = n /\ dir = [i \in DirRange(n) |-> A]
      /\ bucket = [a \in {A} |-> [bits |-> 0, h_table |-> EmptyTable]]
      /\ bucket_dir = 0 /\ op = None /\ need_recovery = FALSE
  BY DEF Init, A
<1>5. DOMAIN bucket = {A} /\ bucket[A].bits = 0 /\ bucket[A].h_table = EmptyTable
      /\ \A i \in DirRange(n) : dir[i] = A
  BY <1>4
<1>6. Typed(n, dir, bucket)
  <2>1. EmptyTable \in Table
    BY EmptyTableRight DEF GoodTable
  <2>2. QED
    BY <1>1, <1>3, <1>4, <2>1 DEF Typed
<1>7. Regular(n, dir, bucket)
  <2>1. Width(n, bucket, A) = 2^n
    BY <1>1, <1>5 DEF Width
  <2>2. \A i \in DirRange(n) : i \div 2^n = 0
    <3> SUFFICES ASSUME NEW i \in DirRange(n) PROVE i \div 2^n = 0
      OBVIOUS
    <3>1. PICK m \in Nat \ {0} : m = 2^n
      BY <1>1
    <3>2. i \in Nat /\ m * 0 <= i /\ i < m * 0 + m
      BY <1>2, <3>1
    <3>3. i \div m = 0
      BY <3>2, DivIs
    <3>4. QED
      BY <3>1, <3>3
  <2>3. {dir[i] : i \in DirRange(n)} = DOMAIN bucket
    BY <1>2, <1>5
  <2>4. QED
    BY <1>5, <2>1, <2>2, <2>3 DEF Regular
<1>8. GoodDir(n, dir, bucket)
  BY <1>5, <1>6, <1>7, EmptyTableRight DEF GoodDir, Placed
<1>9. QED
  BY <1>2, <1>4, <1>8 DEF IInv

LEMMA SlotsAre ==
    ASSUME NEW k
    PROVE  /\ Slots(k) = SlotsIn(dir_bits, dir, bucket, k)
           /\ TableOf(k) = TableIn(dir_bits, dir, bucket, k)
           /\ TableOf(k) = bucket[dir[DirOf(k)]].h_table
           /\ DirOf(k) = BucketDir(Hash[k], dir_bits)
BY DEF Slots, TableOf, DirOf, SlotsIn, TableIn

\* The steps that change the buckets, with what they do to the elements.
LEMMA StepReplace ==
    ASSUME IInv, NEW k \in Key, NEW v \in Value, StoreExisting(k, v, TRUE)
    PROVE  /\ GoodDir(dir_bits', dir', bucket')
           /\ \E e \in AllElems(bucket) : e.key = k /\ Replaced(bucket, bucket', e, k, v)
           /\ DOMAIN bucket' = DOMAIN bucket
<1> DEFINE a == dir[BucketDir(Hash[k], dir_bits)]
           t == bucket[a].h_table
           s == CHOOSE x \in Slots(k) : TRUE
<1>1. /\ bucket' = WithTable(bucket, a, ReplaceAt(t, s, v))
      /\ dir_bits' = dir_bits /\ dir' = dir /\ Slots(k) # {}
  BY DEF StoreExisting, SetTable, WithTable, ReplaceAt, TableOf, DirOf
<1>2. s \in SlotsIn(dir_bits, dir, bucket, k)
  BY <1>1, SlotsAre
<1>3. GoodDir(dir_bits, dir, bucket)
  BY DEF IInv
<1> HIDE DEF s
<1>4. GoodDir(dir_bits, dir, bucket') /\ Replaced(bucket, bucket', t[s], k, v)
  BY <1>1, <1>2, <1>3, ReplacesRight
<1>5. t[s] \in AllElems(bucket) /\ t[s].key = k
  BY <1>2, <1>3, Found DEF TableIn
<1>6. DOMAIN bucket' = DOMAIN bucket
  BY <1>1 DEF WithTable
<1>7. QED
  BY <1>1, <1>4, <1>5, <1>6

LEMMA StepStore ==
    ASSUME IInv, NEW k \in Key, NEW v \in Value, StoreNew(k, v), ~BucketFull(dir[DirOf(k)])
    PROVE  /\ GoodDir(dir_bits', dir', bucket')
           /\ \A e \in AllElems(bucket) : e.key # k
           /\ AllElems(bucket') = AllElems(bucket) \cup {[key |-> k, data |-> v]}
<1> DEFINE a == dir[BucketDir(Hash[k], dir_bits)]
           e == [key |-> k, data |-> v]
<1>1. /\ bucket' = WithTable(bucket, a, Put(bucket[a].h_table, e))
      /\ dir_bits' = dir_bits /\ dir' = dir /\ Slots(k) = {} /\ Used(bucket[a].h_table) # Slot
  BY DEF StoreNew, SetTable, WithTable, TableOf, DirOf, BucketFull
<1>2. GoodDir(dir_bits, dir, bucket)
  BY DEF IInv
<1>3. \A x \in AllElems(bucket) : x.key # k
  BY <1>1, <1>2, Found, SlotsAre
<1>4. e \in Elem /\ e.key = k
  BY DEF Elem
<1> HIDE DEF e
<1>5. GoodDir(dir_bits, dir, bucket') /\ AllElems(bucket') = AllElems(bucket) \cup {e}
  BY <1>1, <1>2, <1>3, <1>4, StoresRight
<1>6. QED
  BY <1>1, <1>3, <1>5 DEF e

LEMMA StepStoreAfterSplit ==
    ASSUME IInv, StoreAfterSplit
    PROVE  /\ GoodDir(dir_bits', dir', bucket')
           /\ op \in Elem /\ \A e \in AllElems(bucket) : e.key # op.key
           /\ AllElems(bucket') = AllElems(bucket) \cup {op}
<1>1. op \in Elem /\ bucket_dir = BucketDir(Hash[op.key], dir_bits)
  BY DEF IInv, StoreAfterSplit, DirOf
<1> DEFINE a == dir[BucketDir(Hash[op.key], dir_bits)]
<1>2. /\ bucket' = WithTable(bucket, a, Put(bucket[a].h_table, op))
      /\ dir_bits' = dir_bits /\ dir' = dir /\ Used(bucket[a].h_table) # Slot
  BY <1>1 DEF StoreAfterSplit, SetTable, WithTable, BucketFull
<1>3. GoodDir(dir_bits, dir, bucket) /\ \A x \in AllElems(bucket) : x.key # op.key
  BY DEF IInv, StoreAfterSplit
<1>4. GoodDir(dir_bits, dir, bucket') /\ AllElems(bucket') = AllElems(bucket) \cup {op}
  BY <1>1, <1>2, <1>3, StoresRight
<1>5. QED
  BY <1>1, <1>2, <1>3, <1>4

LEMMA StepDelete ==
    ASSUME IInv, NEW k \in Key, Delete(k), Slots(k) # {}
    PROVE  /\ GoodDir(dir_bits', dir', bucket')
           /\ \E e \in AllElems(bucket) : e.key = k /\ AllElems(bucket') = AllElems(bucket) \ {e}
<1> DEFINE a == dir[BucketDir(Hash[k], dir_bits)]
           t == bucket[a].h_table
           s == CHOOSE x \in Slots(k) : TRUE
<1>1. bucket' = WithTable(bucket, a, Remove(t, s)) /\ dir_bits' = dir_bits /\ dir' = dir
  BY DEF Delete, SetTable, WithTable, TableOf, DirOf
<1>2. s \in SlotsIn(dir_bits, dir, bucket, k)
  BY SlotsAre
<1>3. GoodDir(dir_bits, dir, bucket)
  BY DEF IInv
<1> HIDE DEF s
<1>4. GoodDir(dir_bits, dir, bucket') /\ AllElems(bucket') = AllElems(bucket) \ {t[s]}
  BY <1>1, <1>2, <1>3, DeletesRight
<1>5. t[s] \in AllElems(bucket) /\ t[s].key = k
  BY <1>2, <1>3, Found DEF TableIn
<1>6. QED
  BY <1>1, <1>4, <1>5

\* An iteration of _gdbm_split_bucket loses nothing and leads to the same keys.
LEMMA StepSplit ==
    ASSUME IInv, SplitIter
    PROVE  GoodDir(dir_bits', dir', bucket') /\ AllElems(bucket') = AllElems(bucket)
<1> DEFINE old == dir[bucket_dir]
           b == bucket[old].bits
           index == IF dir_bits = b THEN 2 * bucket_dir ELSE bucket_dir
           n1 == IF dir_bits = b THEN b + 1 ELSE dir_bits
           A0 == NewAdr(DOMAIN bucket)
           A1 == NewAdr(DOMAIN bucket \cup {A0})
           d1 == Doubled(b)
<1>1. /\ Used(bucket[old].h_table) = Slot
      /\ ~(dir_bits = b /\ dir_bits >= MaxDirBits)
      /\ bucket' = SplitBuckets(bucket, old, A0, A1)
      /\ dir' = SplitDir(n1, d1, SplitRange(index, n1 - b - 1), A0, A1)
      /\ dir_bits' = n1
  BY DEF SplitIter, SplitBuckets, SplitDir, BucketFull, DirTooBig
<1>2. GoodDir(dir_bits, dir, bucket) /\ bucket_dir \in DirRange(dir_bits)
  BY DEF IInv
<1>3. Typed(dir_bits, dir, bucket)
  BY <1>2 DEF GoodDir
<1>4. old \in DOMAIN bucket /\ b \in 0 .. dir_bits /\ dir_bits \in Nat /\ MaxDirBits \in Nat
  BY <1>2, <1>3, BitsFacts
<1>5. A0 \in Adr /\ A1 \in Adr /\ A0 \notin DOMAIN bucket /\ A1 \notin DOMAIN bucket /\ A0 # A1
  BY <1>2, NewAdrRight
<1> HIDE DEF A0, A1
<1>6. GoodDir(n1, d1, bucket) /\ index \in DirRange(n1) /\ d1[index] = old /\ b < n1
  <2>1. CASE dir_bits = b
    <3>1. b < MaxDirBits /\ n1 = b + 1 /\ index = 2 * bucket_dir
          /\ d1 = [i \in DirRange(b + 1) |-> dir[i \div 2]]
      BY <1>1, <1>4, <2>1 DEF Doubled
    <3>2. PICK m : m = b
      OBVIOUS
    <3>3. PICK d2 : d2 = d1
      OBVIOUS
    <3>4. GoodDir(m, dir, bucket) /\ m < MaxDirBits /\ bucket_dir \in DirRange(m)
          /\ d2 = [i \in DirRange(m + 1) |-> dir[i \div 2]]
      BY <1>2, <2>1, <3>1, <3>2, <3>3
    <3>5. GoodDir(m + 1, d2, bucket)
          /\ 2 * bucket_dir \in DirRange(m + 1) /\ d2[2 * bucket_dir] = dir[bucket_dir]
      <4> HIDE DEF d1, b
      <4>1. QED
        BY <3>4, Doubles
    <3>6. QED
      BY <1>4, <3>1, <3>2, <3>3, <3>5
  <2>2. CASE dir_bits # b
    BY <1>2, <1>4, <2>2 DEF Doubled
  <2>3. QED
    BY <2>1, <2>2
<1> HIDE DEF d1, index, n1, old, b
<1>7. b = bucket[old].bits
  BY DEF b
<1>8. PICK bk1, dd : bk1 = bucket' /\ dd = dir'
  OBVIOUS
<1>9. GoodDir(n1, dd, bk1) /\ AllElems(bk1) = AllElems(bucket)
  BY <1>1, <1>5, <1>6, <1>7, <1>8, Splits
<1>10. QED
  BY <1>1, <1>8, <1>9

LEMMA NextInv == IInv /\ [Next]_vars => IInv'
<1> SUFFICES ASSUME IInv, [Next]_vars PROVE IInv'
  OBVIOUS
<1>0. GoodDir(dir_bits, dir, bucket) /\ bucket_dir \in DirRange(dir_bits) /\ op \in Elem \cup {None}
      /\ need_recovery \in BOOLEAN
  BY DEF IInv
<1>z. ASSUME NEW n, NEW d, NEW bk, GoodDir(n, d, bk) PROVE 0 \in DirRange(n)
  <2>1. Typed(n, d, bk)
    BY <1>z DEF GoodDir
  <2>2. 2^n \in Nat \ {0}
    BY <2>1, BitsFacts
  <2>3. QED
    BY <2>2 DEF DirRange
<1>same. ASSUME UNCHANGED <<dir_bits, dir, bucket, bucket_dir, op, need_recovery>> PROVE IInv'
  BY <1>same DEF IInv, DirOf
<1>call. ASSUME GoodDir(dir_bits', dir', bucket'), bucket_dir' \in DirRange(dir_bits'), op' = None,
                need_recovery' \in BOOLEAN
         PROVE  IInv'
  BY <1>call DEF IInv
<1>1. ASSUME NEW k \in Key, Fetch(k) PROVE IInv'
  BY <1>1, <1>same DEF Fetch
<1>2. ASSUME NEW k \in Key, Exists(k) PROVE IInv'
  BY <1>2, <1>same DEF Exists
<1>3. ASSUME NEW k \in Key, Delete(k) PROVE IInv'
  <2>1. CASE Slots(k) = {}
    BY <1>3, <1>same, <2>1 DEF Delete
  <2>2. CASE Slots(k) # {}
    <3>1. GoodDir(dir_bits', dir', bucket')
      BY <1>3, <2>2, StepDelete
    <3>2. QED
      BY <1>0, <1>3, <1>call, <3>1 DEF Delete, Callable
  <2>3. QED
    BY <2>1, <2>2
<1>4. ASSUME NEW k \in Key, NEW v \in Value, NEW replace \in BOOLEAN, StoreExisting(k, v, replace)
      PROVE  IInv'
  <2>1. CASE replace = FALSE
    BY <1>4, <1>same, <2>1 DEF StoreExisting
  <2>2. CASE replace = TRUE
    <3>1. GoodDir(dir_bits', dir', bucket')
      BY <1>4, <2>2, StepReplace
    <3>2. QED
      BY <1>0, <1>4, <1>call, <3>1 DEF StoreExisting, Callable
  <2>3. QED
    BY <2>1, <2>2
<1>5. ASSUME NEW k \in Key, NEW v \in Value, StoreNew(k, v) PROVE IInv'
  <2>1. CASE BucketFull(dir[DirOf(k)])
    <3>1. /\ op' = [key |-> k, data |-> v] /\ bucket_dir' = DirOf(k) /\ Slots(k) = {}
          /\ bucket' = bucket /\ dir_bits' = dir_bits /\ dir' = dir
          /\ need_recovery' = need_recovery /\ ~need_recovery
      BY <1>5, <2>1 DEF StoreNew, Callable
    <3>2. op' \in Elem /\ op'.key = k
      BY <3>1 DEF Elem
    <3>3. \A e \in AllElems(bucket) : e.key # k
      BY <1>0, <3>1, Found, SlotsAre
    <3>4. DirOf(k) \in DirRange(dir_bits)
      BY <1>0, KeyEntry DEF DirOf
    <3>5. bucket_dir' = BucketDir(Hash[op'.key], dir_bits')
      BY <3>1, <3>2 DEF DirOf
    <3>6. QED
      BY <1>0, <3>1, <3>2, <3>3, <3>4, <3>5 DEF IInv, DirOf
  <2>2. CASE ~BucketFull(dir[DirOf(k)])
    <3>1. GoodDir(dir_bits', dir', bucket')
      BY <1>5, <2>2, StepStore
    <3>2. QED
      BY <1>0, <1>5, <1>call, <2>2, <3>1 DEF StoreNew, Callable
  <2>3. QED
    BY <2>1, <2>2
<1>6. CASE SplitIter
  <2>1. GoodDir(dir_bits', dir', bucket') /\ AllElems(bucket') = AllElems(bucket)
    BY <1>6, StepSplit
  <2>2. /\ op' = op /\ op # None /\ op \in Elem /\ need_recovery' = need_recovery
        /\ bucket_dir' = BucketDir(Hash[op.key], dir_bits')
    BY <1>0, <1>6 DEF SplitIter
  <2>3. op.key \in Key
    BY <2>2 DEF Elem
  <2>4. bucket_dir' \in DirRange(dir_bits')
    BY <2>1, <2>2, <2>3, KeyEntry
  <2>5. QED
    BY <1>0, <2>1, <2>2, <2>4 DEF IInv, DirOf
<1>7. CASE DirOverflow
  <2>1. /\ dir_bits' = dir_bits /\ dir' = dir /\ bucket' = bucket
        /\ op' = None /\ bucket_dir' = 0 /\ need_recovery' = TRUE
    BY <1>7 DEF DirOverflow
  <2>2. QED
    BY <1>0, <1>call, <1>z, <2>1
<1>8. CASE StoreAfterSplit
  <2>1. GoodDir(dir_bits', dir', bucket')
    BY <1>8, StepStoreAfterSplit
  <2>2. QED
    BY <1>0, <1>8, <1>call, <1>z, <2>1 DEF StoreAfterSplit
<1>9. CASE FirstKey
  BY <1>9, <1>same DEF FirstKey
<1>10. CASE NextKey
  BY <1>10, <1>same DEF NextKey
<1>11. CASE Refused
  BY <1>11, <1>same DEF Refused, vars
<1>12. CASE UNCHANGED vars
  BY <1>12, <1>same DEF vars
<1>13. QED
  BY <1>1, <1>2, <1>3, <1>4, <1>5, <1>6, <1>7, <1>8, <1>9, <1>10, <1>11, <1>12 DEF Next

LEMMA Invariant == Spec => []IInv
BY InitInv, NextInv, PTL DEF Spec

\* The directory never outgrows its limit, its entries are addresses of buckets, no
\* bucket uses more bits than the directory has, and the current entry is one of the
\* directory's also in the middle of a split (_gdbm_split_bucket, bucket.c).
THEOREM TypesHold == Spec => []TypeOK
<1>1. IInv => TypeOK
  <2> SUFFICES ASSUME IInv PROVE TypeOK
    OBVIOUS
  <2>1. Typed(dir_bits, dir, bucket)
    BY DEF IInv, GoodDir
  <2>2. \A a \in DOMAIN bucket : bucket[a].bits \in 0 .. dir_bits /\ bucket[a].h_table \in Table
    BY <2>1, BitsFacts
  <2>3. QED
    BY <2>1, <2>2 DEF IInv, Typed, TypeOK
<1>2. QED
  BY Invariant, <1>1, PTL

\* After any sequence of splits and doublings, from any hash function, the entries
\* that point to a bucket are exactly those that agree in its first bits.
THEOREM DirectoryIsRegular == Spec => []DirRegular
<1>1. IInv => DirRegular
  BY DEF IInv, GoodDir, Regular, DirRegular, Width
<1>2. QED
  BY Invariant, <1>1, PTL

-----------------------------------------------------------------------------
(* gdbm_count and gdbm_bucket_count. *)

\* Induction and recursion from a bound downwards.
LEMMA DownTo ==
    ASSUME NEW N \in Nat, NEW T, N \in T,
           \A j \in 0 .. N - 1 : (\A i \in j + 1 .. N : i \in T) => j \in T
    PROVE  \A j \in 0 .. N : j \in T
<1> DEFINE All == {m \in 0 .. N : \A i \in N - m .. N : i \in T}
<1>1. 0 \in All
  BY N - 0 = N
<1>2. ASSUME NEW m \in 0 .. N - 1, m \in All PROVE m + 1 \in All
  <2>1. PICK j \in 0 .. N - 1 : j = N - (m + 1) /\ j + 1 = N - m
    OBVIOUS
  <2>2. \A i \in j + 1 .. N : i \in T
    BY <1>2, <2>1
  <2>3. j \in T
    BY <2>2
  <2>4. \A i \in j .. N : i = j \/ i \in j + 1 .. N
    OBVIOUS
  <2>5. QED
    BY <2>1, <2>2, <2>3, <2>4
<1>3. N \in All
  <2> HIDE DEF All
  <2>1. N \in 0 .. N
    OBVIOUS
  <2>2. QED
    BY <1>1, <1>2, <2>1, UpTo
<1>4. QED
  BY <1>3

Descends(g, m, N, S, z, nx, F) ==
    /\ g \in [N - m .. N -> S] /\ g[N] = z
    /\ \A j \in N - m .. N - 1 : g[j] = F[j][g[nx[j]]]

LEMMA RecursionDown ==
    ASSUME NEW N \in Nat, NEW S, NEW z \in S, NEW nx \in [0 .. N - 1 -> 0 .. N],
           \A j \in 0 .. N - 1 : j < nx[j], NEW F \in [0 .. N - 1 -> [S -> S]]
    PROVE  \E g : Descends(g, N, N, S, z, nx, F)
<1> DEFINE T == {m \in 0 .. N : \E g : Descends(g, m, N, S, z, nx, F)}
<1>1. 0 \in T
  <2> DEFINE g0 == [i \in N .. N |-> z]
  <2>1. g0 \in [N - 0 .. N -> S] /\ g0[N] = z /\ \A j \in N - 0 .. N - 1 : FALSE
    OBVIOUS
  <2> HIDE DEF g0
  <2>2. Descends(g0, 0, N, S, z, nx, F)
    BY <2>1 DEF Descends
  <2>3. QED
    BY <2>2
<1>2. ASSUME NEW m \in 0 .. N - 1, m \in T PROVE m + 1 \in T
  <2>1. PICK g : Descends(g, m, N, S, z, nx, F)
    BY <1>2
  <2>2. PICK x \in 0 .. N - 1 : x = N - (m + 1) /\ x + 1 = N - m /\ m + 1 \in 0 .. N
    OBVIOUS
  <2>3. g \in [x + 1 .. N -> S] /\ g[N] = z /\ \A j \in x + 1 .. N - 1 : g[j] = F[j][g[nx[j]]]
    BY <2>1, <2>2 DEF Descends
  <2> DEFINE h == [i \in x .. N |-> IF x < i THEN g[i] ELSE F[x][g[nx[x]]]]
  <2>4. F[x][g[nx[x]]] \in S
    <3>1. nx[x] \in x + 1 .. N
      OBVIOUS
    <3>2. g[nx[x]] \in S
      BY <2>3, <3>1
    <3>3. QED
      BY <3>2
  <2>5. h \in [x .. N -> S] /\ h[N] = z
    BY <2>3, <2>4
  <2>6. \A i \in x + 1 .. N : h[i] = g[i]
    OBVIOUS
  <2>7. h[x] = F[x][g[nx[x]]]
    OBVIOUS
  <2> HIDE DEF h
  <2>8. ASSUME NEW j \in x .. N - 1 PROVE h[j] = F[j][h[nx[j]]]
    <3>1. j \in 0 .. N - 1 /\ nx[j] \in j + 1 .. N /\ nx[j] \in x + 1 .. N
      OBVIOUS
    <3>2. h[nx[j]] = g[nx[j]]
      BY <2>6, <3>1
    <3>3. CASE j = x
      BY <2>7, <3>2, <3>3
    <3>4. CASE j \in x + 1 .. N - 1
      <4>1. h[j] = g[j]
        BY <2>6, <3>4
      <4>2. QED
        BY <2>3, <3>2, <3>4, <4>1
    <3>5. QED
      BY <3>3, <3>4
  <2>9. Descends(h, m + 1, N, S, z, nx, F)
    BY <2>2, <2>5, <2>8 DEF Descends
  <2>10. QED
    BY <2>2, <2>9
<1>3. N \in T
  <2> HIDE DEF T
  <2>1. N \in 0 .. N
    OBVIOUS
  <2>2. QED
    BY <1>1, <1>2, <2>1, UpTo
<1>4. QED
  BY <1>3

LEMMA LeastRight ==
    ASSUME NEW S, S \subseteq Nat, S # {}
    PROVE  Least(S) \in S /\ \A y \in S : Least(S) <= y
<1>1. \E x \in S : \A y \in S : x <= y
  BY LeastNat
<1>2. QED
  BY <1>1 DEF Least

\* The entries of a bucket are neighbours, so the next entry that points elsewhere
\* is past all of them.
LEMMA NextDirRight ==
    ASSUME IInv, NEW i \in DirRange(dir_bits)
    PROVE  /\ NextDir(i) \in 0 .. 2^dir_bits /\ i < NextDir(i)
           /\ \A j \in DirRange(dir_bits) : i <= j /\ j < NextDir(i) => dir[j] = dir[i]
           /\ \A j \in DirRange(dir_bits) : NextDir(i) <= j => dir[j] # dir[i]
<1> DEFINE others == {j \in DirRange(dir_bits) : j > i /\ dir[j] # dir[i]}
<1>0. Typed(dir_bits, dir, bucket) /\ Regular(dir_bits, dir, bucket)
  BY DEF IInv, GoodDir
<1>1. PICK N \in Nat \ {0} : N = 2^dir_bits
  BY <1>0, BitsFacts
<1>2. DirRange(dir_bits) = 0 .. N - 1
  BY <1>1 DEF DirRange
<1>3. i \in Nat /\ i < N
  BY <1>2
<1>4. CASE others = {}
  <2>1. NextDir(i) = N
    BY <1>1, <1>4 DEF NextDir
  <2>2. QED
    BY <1>1, <1>2, <1>3, <1>4, <2>1
<1>5. CASE others # {}
  <2>1. NextDir(i) = Least(others)
    BY <1>5 DEF NextDir
  <2>2. others \subseteq Nat
    BY <1>2
  <2>3. PICK x \in others : NextDir(i) = x /\ \A y \in others : x <= y
    <3> HIDE DEF others
    <3>1. QED
      BY <1>5, <2>1, <2>2, LeastRight
  <2>4. x \in DirRange(dir_bits) /\ x \in Nat /\ x < N /\ i < x /\ dir[x] # dir[i]
    BY <1>2, <2>3
  <2>5. \A j \in DirRange(dir_bits) : i <= j /\ j < x => dir[j] = dir[i]
    BY <1>2, <1>3, <2>3, <2>4
  <2>6. ASSUME NEW j \in DirRange(dir_bits), x <= j, dir[j] = dir[i] PROVE FALSE
    <3>1. PICK w \in Nat \ {0} : w = Width(dir_bits, bucket, dir[i])
      BY <1>0, BitsFacts
    <3>2. \A y \in DirRange(dir_bits) : dir[i] = dir[y] <=> i \div w = y \div w
      BY <1>0, <3>1 DEF Regular
    <3>3. PICK c \in Nat : c = i \div w /\ w * c <= i /\ i < w * c + w
      BY <1>3, DivIs
    <3>4. j \in Nat /\ c = j \div w
      BY <1>2, <2>6, <3>2, <3>3
    <3>5. j < w * c + w
      BY <3>4, DivIs
    <3>6. w * c \in Nat
      OBVIOUS
    <3>7. w * c <= x /\ x < w * c + w
      BY <1>3, <2>4, <2>6, <3>3, <3>4, <3>5, <3>6
    <3>8. x \div w = c
      BY <2>4, <3>7, DivIs
    <3>9. QED
      BY <2>4, <3>2, <3>3, <3>8
  <2>7. QED
    BY <1>1, <1>3, <2>3, <2>4, <2>5, <2>6
<1>6. QED
  BY <1>4, <1>5

\* The buckets of the entries from j on.
Rest(j) == {dir[i] : i \in j .. 2^dir_bits - 1}

LEMMA RestStep ==
    ASSUME IInv, NEW j \in DirRange(dir_bits)
    PROVE  Rest(j) = {dir[j]} \cup Rest(NextDir(j)) /\ dir[j] \notin Rest(NextDir(j))
<1>0. Typed(dir_bits, dir, bucket)
  BY DEF IInv, GoodDir
<1>1. PICK N \in Nat \ {0} : N = 2^dir_bits
  BY <1>0, BitsFacts
<1>2. DirRange(dir_bits) = 0 .. N - 1 /\ j \in Nat
  BY <1>1 DEF DirRange
<1>3. PICK x \in 0 .. N : x = NextDir(j)
  BY <1>1, NextDirRight
<1>4. /\ j < x
      /\ \A i \in 0 .. N - 1 : j <= i /\ i < x => dir[i] = dir[j]
      /\ \A i \in 0 .. N - 1 : x <= i => dir[i] # dir[j]
  BY <1>2, <1>3, NextDirRight
<1>5. ASSUME NEW i \in j .. N - 1 PROVE dir[i] = dir[j] \/ i \in x .. N - 1
  BY <1>2, <1>3, <1>4
<1>6. \A i \in x .. N - 1 : i \in j .. N - 1 /\ dir[i] # dir[j]
  BY <1>2, <1>3, <1>4
<1>7. j \in j .. N - 1
  BY <1>2
<1>8. QED
  BY <1>1, <1>3, <1>5, <1>6, <1>7 DEF Rest

\* A function that is the same sum at every entry: how both calls count.
Counts(g, c) ==
    /\ g \in [0 .. 2^dir_bits -> Nat]
    /\ g[2^dir_bits] = 0
    /\ \A j \in DirRange(dir_bits) : g[j] = c[j] + g[NextDir(j)]

LEMMA CountsExists ==
    ASSUME IInv, NEW c \in [DirRange(dir_bits) -> Nat]
    PROVE  \E g : Counts(g, c)
<1>0. Typed(dir_bits, dir, bucket)
  BY DEF IInv, GoodDir
<1>1. PICK N \in Nat \ {0} : N = 2^dir_bits
  BY <1>0, BitsFacts
<1>2. DirRange(dir_bits) = 0 .. N - 1
  BY <1>1 DEF DirRange
<1> DEFINE nx == [j \in 0 .. N - 1 |-> NextDir(j)]
           F == [j \in 0 .. N - 1 |-> [x \in Nat |-> c[j] + x]]
<1>3. nx \in [0 .. N - 1 -> 0 .. N] /\ \A j \in 0 .. N - 1 : j < nx[j]
  BY <1>1, <1>2, NextDirRight
<1>4. F \in [0 .. N - 1 -> [Nat -> Nat]]
  BY <1>2
<1>5. PICK g : Descends(g, N, N, Nat, 0, nx, F)
  <2> HIDE DEF nx, F
  <2>1. QED
    BY <1>3, <1>4, RecursionDown
<1>6. g \in [0 .. N -> Nat] /\ g[N] = 0 /\ \A j \in 0 .. N - 1 : g[j] = F[j][g[nx[j]]]
  <2> HIDE DEF nx, F
  <2>1. N - N = 0
    OBVIOUS
  <2>2. QED
    BY <1>5, <2>1 DEF Descends
<1>7. ASSUME NEW j \in 0 .. N - 1 PROVE g[j] = c[j] + g[NextDir(j)]
  <2>1. NextDir(j) \in 0 .. N
    BY <1>1, <1>2, NextDirRight
  <2>2. nx[j] = NextDir(j)
    OBVIOUS
  <2> HIDE DEF nx
  <2>3. g[NextDir(j)] \in Nat
    BY <1>6, <2>1
  <2>4. QED
    BY <1>6, <2>2, <2>3
<1> HIDE DEF nx, F
<1>8. Counts(g, c)
  BY <1>1, <1>2, <1>6, <1>7 DEF Counts
<1>9. QED
  BY <1>8

\* What the recursive functions of the two calls are.
CountRec(h, c) == [j \in 0 .. 2^dir_bits |-> IF j = 2^dir_bits THEN 0 ELSE c[j] + h[NextDir(j)]]

LEMMA CountRecExists ==
    ASSUME IInv, NEW c \in [DirRange(dir_bits) -> Nat]
    PROVE  \E h : h = CountRec(h, c)
<1>0. Typed(dir_bits, dir, bucket)
  BY DEF IInv, GoodDir
<1>1. PICK N \in Nat \ {0} : N = 2^dir_bits
  BY <1>0, BitsFacts
<1>2. DirRange(dir_bits) = 0 .. N - 1
  BY <1>1 DEF DirRange
<1>3. PICK g : Counts(g, c)
  BY CountsExists
<1>4. g \in [0 .. N -> Nat] /\ g[N] = 0 /\ \A j \in 0 .. N - 1 : g[j] = c[j] + g[NextDir(j)]
  BY <1>1, <1>2, <1>3 DEF Counts
<1>5. \A j \in 0 .. N : g[j] = CountRec(g, c)[j]
  BY <1>1, <1>4 DEF CountRec
<1>6. g = CountRec(g, c)
  BY <1>1, <1>4, <1>5 DEF CountRec
<1>7. QED
  BY <1>6

LEMMA CountsUnfold ==
    ASSUME IInv, NEW c \in [DirRange(dir_bits) -> Nat], NEW G, G = CountRec(G, c)
    PROVE  Counts(G, c)
<1>0. Typed(dir_bits, dir, bucket)
  BY DEF IInv, GoodDir
<1>1. PICK N \in Nat \ {0} : N = 2^dir_bits
  BY <1>0, BitsFacts
<1>2. DirRange(dir_bits) = 0 .. N - 1
  BY <1>1 DEF DirRange
<1>6. G = [j \in 0 .. N |-> IF j = N THEN 0 ELSE c[j] + G[NextDir(j)]]
  BY <1>1 DEF CountRec
<1>7. G[N] = 0 /\ \A j \in 0 .. N - 1 : G[j] = c[j] + G[NextDir(j)]
  <2>1. PICK H : H = [j \in 0 .. N |-> IF j = N THEN 0 ELSE c[j] + G[NextDir(j)]]
    OBVIOUS
  <2>2. \A j \in 0 .. N : H[j] = IF j = N THEN 0 ELSE c[j] + G[NextDir(j)]
    BY <2>1, Zenon
  <2>3. H = G
    BY <1>6, <2>1, Zenon
  <2>4. \A j \in 0 .. N : G[j] = IF j = N THEN 0 ELSE c[j] + G[NextDir(j)]
    BY <2>2, <2>3, Zenon
  <2>5. N \in 0 .. N /\ \A j \in 0 .. N - 1 : j \in 0 .. N /\ j # N
    OBVIOUS
  <2>6. QED
    BY <2>4, <2>5, Zenon
<1>8. \A j \in 0 .. N : G[j] \in Nat
  <2> DEFINE T == {j \in 0 .. N : G[j] \in Nat}
  <2>1. N \in T
    BY <1>7
  <2>2. ASSUME NEW j \in 0 .. N - 1, \A i \in j + 1 .. N : i \in T PROVE j \in T
    <3>1. NextDir(j) \in j + 1 .. N
      <4>1. NextDir(j) \in 0 .. N /\ j < NextDir(j)
        BY <1>1, <1>2, NextDirRight
      <4>2. QED
        BY <4>1
    <3>2. G[NextDir(j)] \in Nat /\ c[j] \in Nat
      BY <1>2, <2>2, <3>1
    <3>3. QED
      BY <1>7, <3>2
  <2>3. \A j \in 0 .. N : j \in T
    <3> HIDE DEF T
    <3>1. QED
      BY <2>1, <2>2, DownTo
  <2>4. QED
    BY <2>3
<1>9. G \in [0 .. N -> Nat]
  <2>1. G = [j \in 0 .. N |-> G[j]]
    BY <1>1, <1>6
  <2>2. QED
    BY <1>8, <2>1
<1>10. QED
  BY <1>1, <1>2, <1>7, <1>9 DEF Counts

\* A table has as many elements as taken slots.
LEMMA ElemsCount ==
    ASSUME NEW t, GoodTable(t)
    PROVE  /\ IsFiniteSet(Elems(t)) /\ IsFiniteSet(Used(t))
           /\ Cardinality(Elems(t)) = Cardinality(Used(t)) /\ Cardinality(Used(t)) \in Nat
<1>1. IsFiniteSet(Slot)
  BY SlotFacts, FS_Interval DEF Slot
<1>2. IsFiniteSet(Used(t))
  <2>1. Used(t) \in SUBSET Slot
    BY DEF Used
  <2>2. QED
    BY <1>1, <2>1, FS_Subset
<1> DEFINE f == [s \in Used(t) |-> t[s]]
<1>3. f \in [Used(t) -> Elems(t)] /\ \A e \in Elems(t) : \E s \in Used(t) : f[s] = e
  BY DEF Elems
<1>4. \A s, r \in Used(t) : f[s] = f[r] => s = r
  BY DEF GoodTable, Unique
<1>5. f \in Bijection(Used(t), Elems(t))
  <2> HIDE DEF f
  <2>1. QED
    BY <1>3, <1>4 DEF Bijection, Injection, IsInjective, Surjection
<1>6. ExistsBijection(Used(t), Elems(t))
  BY <1>5 DEF ExistsBijection
<1>7. QED
  BY <1>2, <1>6, FS_Bijection, FS_CardinalityType

LEMMA BucketCountRight == IInv => BucketCount = Cardinality(DOMAIN bucket)
<1> SUFFICES ASSUME IInv PROVE BucketCount = Cardinality(DOMAIN bucket)
  OBVIOUS
<1>0. Typed(dir_bits, dir, bucket) /\ Regular(dir_bits, dir, bucket)
  BY DEF IInv, GoodDir
<1>1. PICK N \in Nat \ {0} : N = 2^dir_bits
  BY <1>0, BitsFacts
<1>2. DirRange(dir_bits) = 0 .. N - 1
  BY <1>1 DEF DirRange
<1> DEFINE c == [j \in DirRange(dir_bits) |-> 1]
           G == CHOOSE h : h = [j \in 0 .. 2^dir_bits |-> IF j = 2^dir_bits THEN 0 ELSE 1 + h[NextDir(j)]]
<1>3. BucketCount = G[0]
  BY Zenon DEF BucketCount
<1>4. Counts(G, c)
  <2>1. c \in [DirRange(dir_bits) -> Nat]
    OBVIOUS
  <2>2. \A h : CountRec(h, c) = [j \in 0 .. 2^dir_bits |-> IF j = 2^dir_bits THEN 0 ELSE 1 + h[NextDir(j)]]
    <3> TAKE h
    <3>1. \A j \in 0 .. N : j # N => c[j] = 1
      BY <1>2
    <3>2. QED
      BY <1>1, <3>1 DEF CountRec
  <2> HIDE DEF c
  <2>3. G = CountRec(G, c)
    <3>1. \E h : h = CountRec(h, c)
      BY <2>1, CountRecExists
    <3>2. \E h : h = [j \in 0 .. 2^dir_bits |-> IF j = 2^dir_bits THEN 0 ELSE 1 + h[NextDir(j)]]
      BY <2>2, <3>1
    <3>3. G = [j \in 0 .. 2^dir_bits |-> IF j = 2^dir_bits THEN 0 ELSE 1 + G[NextDir(j)]]
      BY Zenon, <3>2
    <3> HIDE DEF G
    <3>4. QED
      BY <2>2, <3>3
  <2> HIDE DEF G
  <2>4. QED
    BY <2>1, <2>3, CountsUnfold
<1> HIDE DEF G
<1>5. G \in [0 .. N -> Nat] /\ G[N] = 0 /\ \A j \in 0 .. N - 1 : G[j] = 1 + G[NextDir(j)]
  <2>1. \A j \in DirRange(dir_bits) : c[j] = 1
    OBVIOUS
  <2> HIDE DEF c
  <2>2. QED
    BY <1>1, <1>2, <1>4, <2>1 DEF Counts
<1> DEFINE T == {j \in 0 .. N : IsFiniteSet(Rest(j)) /\ G[j] = Cardinality(Rest(j))}
<1>6. N \in T
  <2>1. Rest(N) = {}
    BY <1>1 DEF Rest
  <2>2. QED
    BY <1>5, <2>1, FS_EmptySet
<1>7. ASSUME NEW j \in 0 .. N - 1, \A i \in j + 1 .. N : i \in T PROVE j \in T
  <2>1. PICK x \in j + 1 .. N : x = NextDir(j)
    <3>1. NextDir(j) \in 0 .. N /\ j < NextDir(j)
      BY <1>1, <1>2, NextDirRight
    <3>2. QED
      BY <3>1
  <2>2. IsFiniteSet(Rest(x)) /\ G[x] = Cardinality(Rest(x))
    BY <1>7
  <2>3. Rest(j) = Rest(x) \cup {dir[j]} /\ dir[j] \notin Rest(x)
    BY <1>2, <2>1, RestStep
  <2>4. IsFiniteSet(Rest(x) \cup {dir[j]})
        /\ Cardinality(Rest(x) \cup {dir[j]}) = Cardinality(Rest(x)) + 1 /\ Cardinality(Rest(x)) \in Nat
    BY <2>2, <2>3, FS_AddElement, FS_CardinalityType
  <2>5. G[j] = 1 + G[x]
    BY <1>5, <2>1
  <2>6. IsFiniteSet(Rest(j)) /\ G[j] = Cardinality(Rest(j))
    BY <2>2, <2>3, <2>4, <2>5
  <2>7. QED
    BY <2>6
<1>8. 0 \in T
  <2> HIDE DEF T
  <2>1. QED
    BY <1>6, <1>7, DownTo
<1>9. Rest(0) = DOMAIN bucket
  BY <1>0 DEF Rest, Regular, DirRange
<1>10. QED
  BY <1>3, <1>8, <1>9

LEMMA CountRight == IInv => Count = Cardinality({k \in Key : Slots(k) # {}})
<1> SUFFICES ASSUME IInv PROVE Count = Cardinality({k \in Key : Slots(k) # {}})
  OBVIOUS
<1>0. /\ Typed(dir_bits, dir, bucket) /\ Regular(dir_bits, dir, bucket)
      /\ GoodDir(dir_bits, dir, bucket) /\ Placed(dir_bits, dir, bucket)
      /\ \A a \in DOMAIN bucket : GoodTable(bucket[a].h_table)
  BY DEF IInv, GoodDir
<1>1. PICK N \in Nat \ {0} : N = 2^dir_bits
  BY <1>0, BitsFacts
<1>2. DirRange(dir_bits) = 0 .. N - 1 /\ \A j \in 0 .. N - 1 : dir[j] \in DOMAIN bucket
  BY <1>0, <1>1 DEF DirRange, Typed
<1> DEFINE u(j) == Cardinality(Used(bucket[dir[j]].h_table))
           c == [j \in DirRange(dir_bits) |-> u(j)]
           G == CHOOSE h : h = [j \in 0 .. 2^dir_bits |-> IF j = 2^dir_bits THEN 0 ELSE u(j) + h[NextDir(j)]]
<1>3. Count = G[0]
  BY Zenon DEF Count
<1>u. \A j \in 0 .. N - 1 : u(j) \in Nat
  BY <1>0, <1>2, ElemsCount
<1> HIDE DEF u
<1>4. Counts(G, c)
  <2>1. c \in [DirRange(dir_bits) -> Nat]
    BY <1>2, <1>u
  <2>2. \A h : CountRec(h, c) = [j \in 0 .. 2^dir_bits |-> IF j = 2^dir_bits THEN 0 ELSE u(j) + h[NextDir(j)]]
    <3> TAKE h
    <3>1. \A j \in 0 .. N : j # N => c[j] = u(j)
      BY <1>2
    <3>2. QED
      BY <1>1, <3>1 DEF CountRec
  <2> HIDE DEF c
  <2>3. G = CountRec(G, c)
    <3>1. \E h : h = CountRec(h, c)
      BY <2>1, CountRecExists
    <3>2. \E h : h = [j \in 0 .. 2^dir_bits |-> IF j = 2^dir_bits THEN 0 ELSE u(j) + h[NextDir(j)]]
      BY <2>2, <3>1
    <3>3. G = [j \in 0 .. 2^dir_bits |-> IF j = 2^dir_bits THEN 0 ELSE u(j) + G[NextDir(j)]]
      BY Zenon, <3>2
    <3> HIDE DEF G
    <3>4. QED
      BY <2>2, <3>3
  <2> HIDE DEF G
  <2>4. QED
    BY <2>1, <2>3, CountsUnfold
<1> HIDE DEF G
<1>5. G \in [0 .. N -> Nat] /\ G[N] = 0 /\ \A j \in 0 .. N - 1 : G[j] = u(j) + G[NextDir(j)]
  <2>1. \A j \in DirRange(dir_bits) : c[j] = u(j)
    OBVIOUS
  <2> HIDE DEF c
  <2>2. QED
    BY <1>1, <1>2, <1>4, <2>1 DEF Counts
<1> DEFINE E(a) == Elems(bucket[a].h_table)
           Below(j) == UNION {E(a) : a \in Rest(j)}
           T == {j \in 0 .. N : IsFiniteSet(Below(j)) /\ G[j] = Cardinality(Below(j))}
<1>6. N \in T
  <2>1. Rest(N) = {}
    BY <1>1 DEF Rest
  <2>2. Below(N) = {}
    BY <2>1
  <2> HIDE DEF Below
  <2>3. QED
    BY <1>5, <2>2, FS_EmptySet
<1>7. ASSUME NEW j \in 0 .. N - 1, \A i \in j + 1 .. N : i \in T PROVE j \in T
  <2>1. PICK x \in j + 1 .. N : x = NextDir(j)
    <3>1. NextDir(j) \in 0 .. N /\ j < NextDir(j)
      BY <1>1, <1>2, NextDirRight
    <3>2. QED
      BY <3>1
  <2>2. IsFiniteSet(Below(x)) /\ G[x] = Cardinality(Below(x))
    BY <1>7
  <2>3. Rest(j) = {dir[j]} \cup Rest(x) /\ dir[j] \notin Rest(x)
    BY <1>2, <2>1, RestStep
  <2>r. \A a \in Rest(x) : a \in DOMAIN bucket
    BY <1>1, <1>2 DEF Rest
  <2>4. IsFiniteSet(E(dir[j])) /\ Cardinality(E(dir[j])) = u(j) /\ u(j) \in Nat
    BY <1>0, <1>2, ElemsCount DEF u
  <2>5. Below(j) = E(dir[j]) \cup Below(x)
    <3> HIDE DEF E
    <3>1. QED
      BY <2>3
  <2>6. E(dir[j]) \cap Below(x) = {}
    <3>1. \A a \in Rest(x) : \A e \in E(a) : e \notin E(dir[j])
      BY <1>0, <1>2, <2>3, <2>r DEF Placed
    <3> HIDE DEF E
    <3>2. QED
      BY <3>1
  <2> HIDE DEF Below, E
  <2>7. /\ IsFiniteSet(E(dir[j]) \cup Below(x))
        /\ Cardinality(E(dir[j]) \cup Below(x)) = u(j) + Cardinality(Below(x)) - 0
    BY <2>2, <2>4, <2>6, FS_Union, FS_EmptySet
  <2>8. Cardinality(Below(x)) \in Nat
    BY <2>2, FS_CardinalityType
  <2>9. G[j] = u(j) + G[x]
    BY <1>5, <2>1
  <2>10. IsFiniteSet(Below(j)) /\ G[j] = Cardinality(Below(j))
    BY <2>2, <2>4, <2>5, <2>7, <2>8, <2>9
  <2>11. QED
    BY <2>10
<1>8. 0 \in T
  <2> HIDE DEF T
  <2>1. QED
    BY <1>6, <1>7, DownTo
<1>9. Rest(0) = DOMAIN bucket
  BY <1>0 DEF Rest, Regular, DirRange
<1>10. Below(0) = AllElems(bucket)
  BY <1>9 DEF AllElems
<1>11. IsFiniteSet(AllElems(bucket)) /\ Count = Cardinality(AllElems(bucket))
  BY <1>3, <1>8, <1>10
<1> DEFINE K == {k \in Key : Slots(k) # {}}
           f == [e \in AllElems(bucket) |-> e.key]
<1>12. \A e \in AllElems(bucket) : e.key \in Key /\ Slots(e.key) # {}
  <2> SUFFICES ASSUME NEW e \in AllElems(bucket) PROVE e.key \in Key /\ Slots(e.key) # {}
    OBVIOUS
  <2>1. e.key \in Key
    <3>1. PICK a \in DOMAIN bucket : e \in Elems(bucket[a].h_table)
      BY DEF AllElems
    <3>2. bucket[a].h_table \in Table
      BY <1>0 DEF GoodTable
    <3>3. QED
      BY <3>1, <3>2, HashFacts
  <2>2. QED
    BY <1>0, <2>1, Found, SlotsAre
<1>13. f \in [AllElems(bucket) -> K]
  BY <1>12
<1>14. \A e, g \in AllElems(bucket) : f[e] = f[g] => e = g
  <2> SUFFICES ASSUME NEW e \in AllElems(bucket), NEW g \in AllElems(bucket), e.key = g.key PROVE e = g
    OBVIOUS
  <2>1. PICK k \in Key : k = e.key /\ k = g.key
    BY <1>12
  <2>2. PICK s \in SlotsIn(dir_bits, dir, bucket, k) : TableIn(dir_bits, dir, bucket, k)[s] = e
    BY <1>0, <2>1, Found
  <2>3. PICK r \in SlotsIn(dir_bits, dir, bucket, k) : TableIn(dir_bits, dir, bucket, k)[r] = g
    BY <1>0, <2>1, Found
  <2>4. SlotsIn(dir_bits, dir, bucket, k) = {s}
    BY <1>0, <2>2, Found
  <2>5. QED
    BY <2>2, <2>3, <2>4
<1>15. \A k \in K : \E e \in AllElems(bucket) : f[e] = k
  <2> SUFFICES ASSUME NEW k \in Key, Slots(k) # {} PROVE \E e \in AllElems(bucket) : e.key = k
    OBVIOUS
  <2>1. PICK s \in SlotsIn(dir_bits, dir, bucket, k) : TRUE
    BY SlotsAre
  <2>2. QED
    BY <1>0, <2>1, Found
<1>16. f \in Bijection(AllElems(bucket), K)
  <2> HIDE DEF f, K
  <2>1. QED
    BY <1>13, <1>14, <1>15 DEF Bijection, Injection, IsInjective, Surjection
<1>17. Cardinality(K) = Cardinality(AllElems(bucket))
  <2> HIDE DEF f, K
  <2>1. ExistsBijection(AllElems(bucket), K)
    BY <1>16 DEF ExistsBijection
  <2>2. QED
    BY <1>11, <2>1, FS_Bijection
<1>18. QED
  BY <1>11, <1>17

\* Whatever splits, doublings and deletions came before: every element is in the
\* bucket its hash value leads to and is found there by probing, no key has two
\* elements, and gdbm_count and gdbm_bucket_count, which pass over entries that
\* share a bucket, count every key and every bucket once.
THEOREM KeysAreFound == Spec => []EveryKeyFound
<1>1. IInv => EveryKeyFound
  <2> SUFFICES ASSUME IInv PROVE EveryKeyFound
    OBVIOUS
  <2>0. GoodDir(dir_bits, dir, bucket)
    BY DEF IInv
  <2>1. ASSUME NEW a \in DOMAIN bucket, NEW s \in Used(bucket[a].h_table)
        PROVE  LET k == bucket[a].h_table[s].key IN dir[DirOf(k)] = a /\ Slots(k) = {s}
    <3> DEFINE t == bucket[a].h_table
               k == t[s].key
    <3>1. GoodTable(t) /\ t[s] \in Elems(t)
      BY <2>0 DEF GoodDir, Elems
    <3>2. t \in Table
      BY <3>1 DEF GoodTable
    <3>3. k \in Key
      BY <3>1, <3>2, HashFacts
    <3>4. dir[DirOf(k)] = a
      BY <2>0, <3>1 DEF GoodDir, Placed, DirOf
    <3>5. FindKey(t, k) = {s}
      BY <3>1, <3>3, FindKeyRight
    <3>6. Slots(k) = FindKey(t, k)
      BY <3>4 DEF Slots, TableOf
    <3>7. QED
      BY <3>4, <3>5, <3>6
  <2>2. QED
    BY <2>1, BucketCountRight, CountRight DEF EveryKeyFound
<1>2. QED
  BY Invariant, <1>1, PTL

-----------------------------------------------------------------------------
(* The walk of gdbm_firstkey and gdbm_nextkey. *)

\* The entries of a bucket are neighbours.
LEMMA Between ==
    ASSUME IInv, NEW a \in DirRange(dir_bits), NEW b \in DirRange(dir_bits), NEW c \in DirRange(dir_bits),
           a <= b, b <= c, dir[a] = dir[c]
    PROVE  dir[b] = dir[a]
<1>0. Typed(dir_bits, dir, bucket)
  BY DEF IInv, GoodDir
<1>1. a \in Nat /\ b \in Nat /\ c \in Nat
  BY <1>0, BitsFacts
<1>2. PICK N \in Nat : N = 2^dir_bits
  BY <1>0, BitsFacts
<1>3. PICK x \in 0 .. N : x = NextDir(a)
  BY <1>2, NextDirRight
<1>4. /\ a <= b /\ b < x => dir[b] = dir[a]
      /\ x <= c => dir[c] # dir[a]
  BY <1>3, NextDirRight
<1>5. QED
  BY <1>1, <1>3, <1>4

\* The first entry of the bucket of entry i.
FstOf(i) == Least({j \in DirRange(dir_bits) : dir[j] = dir[i]})

LEMMA FstType ==
    ASSUME IInv, NEW i \in DirRange(dir_bits)
    PROVE  /\ FstOf(i) \in DirRange(dir_bits) /\ FstOf(i) \in Nat /\ i \in Nat
           /\ FstOf(i) <= i /\ dir[FstOf(i)] = dir[i]
           /\ \A j \in DirRange(dir_bits) : dir[j] = dir[i] => FstOf(i) <= j
<1> DEFINE S == {j \in DirRange(dir_bits) : dir[j] = dir[i]}
<1>0. Typed(dir_bits, dir, bucket)
  BY DEF IInv, GoodDir
<1>1. \A j \in DirRange(dir_bits) : j \in Nat
  BY <1>0, BitsFacts
<1>2. S \subseteq Nat /\ i \in S
  BY <1>1
<1>3. Least(S) \in S /\ \A y \in S : Least(S) <= y
  <2> HIDE DEF S
  <2>1. QED
    BY <1>2, LeastRight
<1>4. QED
  BY <1>1, <1>2, <1>3 DEF FstOf

LEMMA FstRight ==
    ASSUME IInv, NEW i \in DirRange(dir_bits), NEW j \in DirRange(dir_bits)
    PROVE  /\ FstOf(i) = FstOf(j) <=> dir[i] = dir[j]
           /\ i <= j => FstOf(i) <= FstOf(j)
<1>1. /\ FstOf(i) \in DirRange(dir_bits) /\ FstOf(i) \in Nat /\ i \in Nat /\ FstOf(i) <= i
      /\ dir[FstOf(i)] = dir[i]
  BY FstType
<1>2. /\ FstOf(j) \in DirRange(dir_bits) /\ FstOf(j) \in Nat /\ j \in Nat /\ FstOf(j) <= j
      /\ dir[FstOf(j)] = dir[j]
  BY FstType
<1>3. FstOf(i) = FstOf(j) <=> dir[i] = dir[j]
  BY <1>1, <1>2 DEF FstOf
<1>4. ASSUME i <= j, dir[i] # dir[j] PROVE FstOf(i) <= FstOf(j)
  <2>1. ~(FstOf(j) <= i)
    BY <1>2, <1>4, Between
  <2>2. QED
    BY <1>1, <1>2, <2>1
<1>5. QED
  BY <1>1, <1>2, <1>3, <1>4

LaterSlots(j, after) == {x \in Used(bucket[dir[j]].h_table) : x > after}

LEMMA LaterFacts ==
    ASSUME NEW j, NEW after
    PROVE  /\ LaterSlots(j, after) \subseteq Slot
           /\ LaterSlots(j, after) # {} =>
                /\ Least(LaterSlots(j, after)) \in LaterSlots(j, after)
                /\ \A x \in LaterSlots(j, after) : Least(LaterSlots(j, after)) <= x
           /\ LaterSlots(j, -1) = Used(bucket[dir[j]].h_table)
<1>1. LaterSlots(j, after) \subseteq Slot
  BY DEF LaterSlots, Used
<1>2. Slot \subseteq Nat
  BY SlotFacts
<1>3. LaterSlots(j, -1) = Used(bucket[dir[j]].h_table)
  BY SlotFacts DEF LaterSlots, Used
<1>4. QED
  BY <1>1, <1>2, <1>3, LeastRight

FromRec(h) ==
    [j \in 0 .. 2^dir_bits |->
       IF j = 2^dir_bits THEN [index |-> j, slot |-> 0]
       ELSE IF LaterSlots(j, -1) # {} THEN [index |-> j, slot |-> Least(LaterSlots(j, -1))]
       ELSE h[NextDir(j)]]

LEMMA FromRecExists ==
    ASSUME IInv
    PROVE  \E h : h = FromRec(h)
<1>0. Typed(dir_bits, dir, bucket)
  BY DEF IInv, GoodDir
<1>1. PICK N \in Nat \ {0} : N = 2^dir_bits
  BY <1>0, BitsFacts
<1>2. DirRange(dir_bits) = 0 .. N - 1
  BY <1>1 DEF DirRange
<1> DEFINE S == [index : 0 .. N, slot : Slot]
           z == [index |-> N, slot |-> 0]
           Here(j) == [index |-> j, slot |-> Least(LaterSlots(j, -1))]
           Step(j, x) == IF LaterSlots(j, -1) # {} THEN Here(j) ELSE x
           nx == [j \in 0 .. N - 1 |-> NextDir(j)]
           F == [j \in 0 .. N - 1 |-> [x \in S |-> Step(j, x)]]
<1>3. z \in S
  BY SlotFacts
<1>4. \A j \in 0 .. N - 1 : \A x \in S : Step(j, x) \in S
  <2> SUFFICES ASSUME NEW j \in 0 .. N - 1, NEW x \in S PROVE Step(j, x) \in S
    OBVIOUS
  <2>1. CASE LaterSlots(j, -1) # {}
    <3>1. Least(LaterSlots(j, -1)) \in Slot
      BY <2>1, LaterFacts
    <3>2. QED
      BY <2>1, <3>1
  <2>2. CASE LaterSlots(j, -1) = {}
    BY <2>2
  <2>3. QED
    BY <2>1, <2>2
<1>5. nx \in [0 .. N - 1 -> 0 .. N] /\ \A j \in 0 .. N - 1 : j < nx[j]
  BY <1>1, <1>2, NextDirRight
<1> HIDE DEF Step, S, z
<1>6. F \in [0 .. N - 1 -> [S -> S]]
  BY <1>4
<1>7. PICK g : Descends(g, N, N, S, z, nx, F)
  <2> HIDE DEF nx, F
  <2>1. QED
    BY <1>3, <1>5, <1>6, RecursionDown
<1>8. g \in [0 .. N -> S] /\ g[N] = z /\ \A j \in 0 .. N - 1 : g[j] = F[j][g[nx[j]]]
  <2> HIDE DEF nx, F
  <2>1. N - N = 0
    OBVIOUS
  <2>2. QED
    BY <1>7, <2>1 DEF Descends
<1>9. ASSUME NEW j \in 0 .. N - 1 PROVE g[j] = Step(j, g[NextDir(j)])
  <2>1. NextDir(j) \in 0 .. N
    BY <1>1, <1>2, NextDirRight
  <2>2. nx[j] = NextDir(j)
    OBVIOUS
  <2> HIDE DEF nx
  <2>3. g[NextDir(j)] \in S
    BY <1>8, <2>1
  <2>4. QED
    BY <1>8, <2>2, <2>3
<1> HIDE DEF nx, F
<1>10. FromRec(g) = [j \in 0 .. N |-> IF j = N THEN z ELSE Step(j, g[NextDir(j)])]
  BY <1>1 DEF FromRec, Step, z
<1>11. g = [j \in 0 .. N |-> g[j]]
  BY <1>8
<1>12. [j \in 0 .. N |-> g[j]] = [j \in 0 .. N |-> IF j = N THEN z ELSE Step(j, g[NextDir(j)])]
  <2>1. \A j \in 0 .. N : g[j] = IF j = N THEN z ELSE Step(j, g[NextDir(j)])
    BY <1>8, <1>9
  <2>2. QED
    BY <2>1
<1>13. g = FromRec(g)
  BY <1>10, <1>11, <1>12
<1>14. QED
  BY <1>13

\* The position p is the first taken slot of the entries from j on.
FirstFrom(j, p) ==
    /\ p.index \in j .. 2^dir_bits
    /\ p.index # 2^dir_bits => /\ p.slot \in Used(bucket[dir[p.index]].h_table)
                               /\ \A x \in Used(bucket[dir[p.index]].h_table) : p.slot <= x
    /\ \A i \in j .. p.index - 1 : Used(bucket[dir[i]].h_table) = {}

LEMMA FromRight ==
    ASSUME IInv, NEW G, G = FromRec(G), NEW j0 \in 0 .. 2^dir_bits
    PROVE  FirstFrom(j0, G[j0])
<1>0. Typed(dir_bits, dir, bucket)
  BY DEF IInv, GoodDir
<1>1. PICK N \in Nat \ {0} : N = 2^dir_bits
  BY <1>0, BitsFacts
<1>2. DirRange(dir_bits) = 0 .. N - 1
  BY <1>1 DEF DirRange
<1>3. /\ G[N] = [index |-> N, slot |-> 0]
      /\ \A j \in 0 .. N - 1 :
           G[j] = IF LaterSlots(j, -1) # {} THEN [index |-> j, slot |-> Least(LaterSlots(j, -1))]
                  ELSE G[NextDir(j)]
  <2>1. G = [j \in 0 .. N |-> IF j = N THEN [index |-> j, slot |-> 0]
                              ELSE IF LaterSlots(j, -1) # {}
                              THEN [index |-> j, slot |-> Least(LaterSlots(j, -1))]
                              ELSE G[NextDir(j)]]
    BY <1>1 DEF FromRec
  <2> DEFINE z(j) == [index |-> j, slot |-> 0]
             Taken(j) == LaterSlots(j, -1) # {}
             Here(j) == [index |-> j, slot |-> Least(LaterSlots(j, -1))]
  <2>2. G = [j \in 0 .. N |-> IF j = N THEN z(j) ELSE IF Taken(j) THEN Here(j) ELSE G[NextDir(j)]]
    BY <2>1
  <2> HIDE DEF z, Taken, Here
  <2>3. G[N] = z(N) /\ \A j \in 0 .. N - 1 : G[j] = IF Taken(j) THEN Here(j) ELSE G[NextDir(j)]
    BY <2>2
  <2>4. QED
    BY Zenon, <2>3 DEF z, Taken, Here
<1> DEFINE T == {j \in 0 .. N : FirstFrom(j, G[j])}
<1>4. N \in T
  BY <1>1, <1>3 DEF FirstFrom
<1>5. ASSUME NEW j \in 0 .. N - 1, \A i \in j + 1 .. N : i \in T PROVE j \in T
  <2>1. CASE LaterSlots(j, -1) # {}
    <3>1. G[j].index = j /\ G[j].slot = Least(LaterSlots(j, -1))
      <4>1. G[j] = [index |-> j, slot |-> Least(LaterSlots(j, -1))]
        BY Zenon, <1>3, <2>1
      <4>2. QED
        BY <4>1
    <3>2. /\ G[j].slot \in Used(bucket[dir[j]].h_table)
          /\ \A x \in Used(bucket[dir[j]].h_table) : G[j].slot <= x
      BY <2>1, <3>1, LaterFacts
    <3>3. j \in j .. N /\ j .. j - 1 = {}
      OBVIOUS
    <3>4. FirstFrom(j, G[j])
      BY <1>1, <3>1, <3>2, <3>3 DEF FirstFrom
    <3>5. QED
      BY <3>4
  <2>2. CASE LaterSlots(j, -1) = {}
    <3>1. PICK x \in j + 1 .. N : x = NextDir(j)
      <4>1. NextDir(j) \in 0 .. N /\ j < NextDir(j)
        BY <1>1, <1>2, NextDirRight
      <4>2. QED
        BY <4>1
    <3>2. G[j] = G[x] /\ FirstFrom(x, G[x])
      BY <1>3, <1>5, <2>2, <3>1
    <3>3. PICK p : p = G[x]
      OBVIOUS
    <3>4. Used(bucket[dir[j]].h_table) = {}
      BY <2>2, LaterFacts
    <3>5. \A i \in j .. x - 1 : dir[i] = dir[j]
      BY <1>2, <3>1, NextDirRight
    <3>6. p.index \in x .. N /\ \A i \in x .. p.index - 1 : Used(bucket[dir[i]].h_table) = {}
      BY <1>1, <3>2, <3>3 DEF FirstFrom
    <3>7. \A i \in j .. p.index - 1 : i \in j .. x - 1 \/ i \in x .. p.index - 1
      BY <3>6
    <3>8. p.index \in j .. N
      BY <3>1, <3>6
    <3>9. FirstFrom(j, p)
      BY <1>1, <3>2, <3>3, <3>4, <3>5, <3>6, <3>7, <3>8 DEF FirstFrom
    <3>10. QED
      BY <3>2, <3>3, <3>9
  <2>3. QED
    BY <2>1, <2>2
<1>6. \A j \in 0 .. N : j \in T
  <2> HIDE DEF T
  <2>1. QED
    BY <1>4, <1>5, DownTo
<1>7. QED
  BY <1>1, <1>6

LexLess(a, x, b, y) == a < b \/ (a = b /\ x < y)

\* get_next_key finds the next taken slot in the order of the buckets and slots.
LEMMA NextPosRight ==
    ASSUME IInv, NEW i \in DirRange(dir_bits), NEW s \in Int, NEW p, p = NextPos(i, s)
    PROVE  /\ p.index \in 0 .. 2^dir_bits
           /\ p.index # 2^dir_bits =>
                /\ p.index \in DirRange(dir_bits)
                /\ p.slot \in Used(bucket[dir[p.index]].h_table)
                /\ LexLess(FstOf(i), s, FstOf(p.index), p.slot)
           /\ \A j \in DirRange(dir_bits) : \A x \in Used(bucket[dir[j]].h_table) :
                LexLess(FstOf(i), s, FstOf(j), x) =>
                   p.index # 2^dir_bits /\ ~LexLess(FstOf(j), x, FstOf(p.index), p.slot)
<1>0. Typed(dir_bits, dir, bucket)
  BY DEF IInv, GoodDir
<1>1. PICK N \in Nat \ {0} : N = 2^dir_bits
  BY <1>0, BitsFacts
<1>2. DirRange(dir_bits) = 0 .. N - 1
  BY <1>1 DEF DirRange
<1>f. \A j \in DirRange(dir_bits) : FstOf(j) \in Nat /\ j \in Nat /\ j < N
  BY <1>2, FstType
<1>s. \A j : Used(bucket[dir[j]].h_table) \subseteq Int
  BY SlotFacts DEF Used
<1> DEFINE G == CHOOSE h : h = FromRec(h)
<1>3. G = FromRec(G)
  BY FromRecExists
<1>4. p = IF LaterSlots(i, s) # {} THEN [index |-> i, slot |-> Least(LaterSlots(i, s))]
          ELSE G[NextDir(i)]
  BY Zenon DEF NextPos, LaterSlots, FromRec
<1> HIDE DEF G
<1>5. CASE LaterSlots(i, s) # {}
  <2>1. p.index = i /\ p.slot = Least(LaterSlots(i, s))
    <3>1. p = [index |-> i, slot |-> Least(LaterSlots(i, s))]
      BY Zenon, <1>4, <1>5
    <3>2. QED
      BY <3>1
  <2>2. /\ p.slot \in LaterSlots(i, s) /\ \A x \in LaterSlots(i, s) : p.slot <= x
    BY <1>5, <2>1, LaterFacts
  <2>3. p.slot \in Used(bucket[dir[i]].h_table) /\ s < p.slot /\ p.slot \in Int
    BY <1>s, <2>2 DEF LaterSlots
  <2>4. ASSUME NEW j \in DirRange(dir_bits), NEW x \in Used(bucket[dir[j]].h_table),
               LexLess(FstOf(i), s, FstOf(j), x)
        PROVE  ~LexLess(FstOf(j), x, FstOf(i), p.slot)
    <3>1. x \in Int
      BY <1>s
    <3>2. CASE FstOf(j) = FstOf(i)
      <4>1. dir[j] = dir[i]
        BY <3>2, FstRight
      <4>2. s < x
        BY <1>f, <2>4, <3>2 DEF LexLess
      <4>3. x \in LaterSlots(i, s)
        BY <4>1, <4>2 DEF LaterSlots
      <4>4. QED
        BY <1>f, <2>2, <2>3, <3>1, <3>2, <4>3 DEF LexLess
    <3>3. CASE FstOf(j) # FstOf(i)
      BY <1>f, <2>4, <3>3 DEF LexLess
    <3>4. QED
      BY <3>2, <3>3
  <2>5. i # N /\ i \in 0 .. N
    BY <1>f
  <2>6. LexLess(FstOf(i), s, FstOf(i), p.slot)
    BY <2>3 DEF LexLess
  <2>7. QED
    BY <1>1, <2>1, <2>3, <2>4, <2>5, <2>6
<1>6. CASE LaterSlots(i, s) = {}
  <2>1. PICK y \in 0 .. N : y = NextDir(i) /\ i < y
    BY <1>1, NextDirRight
  <2>2. p = G[y]
    BY <1>4, <1>6, <2>1
  <2>3. FirstFrom(y, p)
    BY <1>1, <1>3, <2>2, FromRight
  <2>4. /\ p.index \in y .. N
        /\ p.index # N => /\ p.slot \in Used(bucket[dir[p.index]].h_table)
                          /\ \A x \in Used(bucket[dir[p.index]].h_table) : p.slot <= x
        /\ \A j \in y .. p.index - 1 : Used(bucket[dir[j]].h_table) = {}
    BY <1>1, <2>3 DEF FirstFrom
  <2>5. ASSUME p.index # N
        PROVE  /\ p.index \in DirRange(dir_bits) /\ i <= p.index /\ p.slot \in Int
               /\ FstOf(i) < FstOf(p.index)
    <3>1. PICK q \in DirRange(dir_bits) : q = p.index /\ y <= q /\ i <= q
      BY <1>2, <1>f, <2>1, <2>4, <2>5
    <3>2. dir[q] # dir[i]
      BY <2>1, <3>1, NextDirRight
    <3>3. FstOf(i) # FstOf(q) /\ FstOf(i) <= FstOf(q)
      BY <3>1, <3>2, FstRight
    <3>4. p.slot \in Int
      BY <1>s, <2>4, <2>5
    <3>5. FstOf(i) < FstOf(q)
      BY <1>f, <3>3
    <3>6. QED
      BY <3>1, <3>4, <3>5
  <2>6. ASSUME NEW j \in DirRange(dir_bits), NEW x \in Used(bucket[dir[j]].h_table),
               LexLess(FstOf(i), s, FstOf(j), x)
        PROVE  p.index # N /\ ~LexLess(FstOf(j), x, FstOf(p.index), p.slot)
    <3>1. x \in Int
      BY <1>s
    <3>2. FstOf(j) # FstOf(i)
      <4>1. ASSUME FstOf(j) = FstOf(i) PROVE FALSE
        <5>1. dir[j] = dir[i]
          BY <4>1, FstRight
        <5>2. s < x
          BY <1>f, <2>6, <4>1 DEF LexLess
        <5>3. x \in LaterSlots(i, s)
          BY <5>1, <5>2 DEF LaterSlots
        <5>4. QED
          BY <1>6, <5>3
      <4>2. QED
        BY <4>1
    <3>3. FstOf(i) < FstOf(j)
      BY <1>f, <2>6, <3>2 DEF LexLess
    <3>4. i < j
      <4>1. j <= i => FstOf(j) <= FstOf(i)
        BY FstRight
      <4>2. QED
        BY <1>f, <3>3, <4>1
    <3>5. y <= j
      <4>1. i <= j /\ j < y => dir[j] = dir[i]
        BY <2>1, NextDirRight
      <4>2. dir[j] # dir[i]
        BY <3>2, FstRight
      <4>3. QED
        BY <1>f, <2>1, <3>4, <4>1, <4>2
    <3>6. p.index <= j
      <4>1. j \notin y .. p.index - 1
        BY <2>4
      <4>2. QED
        BY <1>f, <2>1, <2>4, <3>5, <4>1
    <3>7. p.index # N
      BY <1>f, <3>6
    <3>8. PICK q \in DirRange(dir_bits) : q = p.index
      BY <2>5, <3>7
    <3>9. FstOf(q) <= FstOf(j)
      BY <3>6, <3>8, FstRight
    <3>10. FstOf(q) = FstOf(j) => p.slot <= x
      <4>1. FstOf(q) = FstOf(j) => dir[q] = dir[j]
        BY FstRight
      <4>2. QED
        BY <2>4, <3>7, <3>8, <4>1
    <3>11. QED
      BY <1>f, <2>5, <3>1, <3>7, <3>8, <3>9, <3>10 DEF LexLess
  <2>7. p.index \in 0 .. N
    BY <2>1, <2>4
  <2>8. p.index # N => LexLess(FstOf(i), s, FstOf(p.index), p.slot)
    BY <2>5 DEF LexLess
  <2>9. QED
    BY <1>1, <2>4, <2>5, <2>6, <2>7, <2>8
<1>7. QED
  BY <1>5, <1>6

\* Where a key is.
SlotOf(k) == CHOOSE s \in Slots(k) : TRUE
Present == {k \in Key : Slots(k) # {}}
UpToPos(b, y) == {k \in Present : ~LexLess(b, y, FstOf(DirOf(k)), SlotOf(k))}

LEMMA KeyAt ==
    ASSUME IInv, NEW j \in DirRange(dir_bits), NEW x \in Used(bucket[dir[j]].h_table),
           NEW k, k = bucket[dir[j]].h_table[x].key
    PROVE  k \in Present /\ dir[DirOf(k)] = dir[j] /\ Slots(k) = {x} /\ SlotOf(k) = x
<1> DEFINE t == bucket[dir[j]].h_table
<1>0. GoodDir(dir_bits, dir, bucket) /\ dir[j] \in DOMAIN bucket
  BY DEF IInv, GoodDir, Typed
<1>1. GoodTable(t) /\ t[x] \in Elems(t)
  BY <1>0 DEF GoodDir, Elems
<1>2. t \in Table
  BY <1>1 DEF GoodTable
<1>3. k \in Key
  BY <1>1, <1>2, HashFacts
<1>4. dir[DirOf(k)] = dir[j]
  BY <1>0, <1>1 DEF GoodDir, Placed, DirOf
<1>5. FindKey(t, k) = {x}
  BY <1>1, <1>3, FindKeyRight
<1>6. Slots(k) = {x}
  BY <1>4, <1>5 DEF Slots, TableOf
<1>7. QED
  BY <1>3, <1>4, <1>6 DEF Present, SlotOf

LEMMA PresentAt ==
    ASSUME IInv, NEW k \in Present
    PROVE  /\ k \in Key /\ DirOf(k) \in DirRange(dir_bits) /\ FstOf(DirOf(k)) \in Nat
           /\ SlotOf(k) \in Slots(k) /\ SlotOf(k) \in Used(bucket[dir[DirOf(k)]].h_table)
           /\ SlotOf(k) \in Int /\ 0 <= SlotOf(k)
           /\ bucket[dir[DirOf(k)]].h_table[SlotOf(k)].key = k
<1>0. GoodDir(dir_bits, dir, bucket)
  BY DEF IInv
<1>1. k \in Key /\ SlotOf(k) \in Slots(k)
  BY DEF Present, SlotOf
<1>2. DirOf(k) \in DirRange(dir_bits)
  BY <1>0, <1>1, KeyEntry DEF DirOf
<1>3. /\ SlotOf(k) \in Used(bucket[dir[DirOf(k)]].h_table)
      /\ bucket[dir[DirOf(k)]].h_table[SlotOf(k)].key = k
  BY <1>0, <1>1, Found, SlotsAre
<1>4. SlotOf(k) \in Slot
  BY <1>3 DEF Used
<1>5. QED
  BY <1>1, <1>2, <1>3, <1>4, FstType, SlotFacts

LEMMA LexFacts ==
    ASSUME NEW a \in Int, NEW x \in Int, NEW b \in Int, NEW y \in Int, NEW c \in Int, NEW z \in Int
    PROVE  /\ ~LexLess(a, x, a, x)
           /\ LexLess(a, x, b, y) /\ ~LexLess(a, x, c, z) => ~LexLess(b, y, c, z)
           /\ ~LexLess(a, x, b, y) /\ ~LexLess(b, y, a, x) => a = b /\ x = y
BY DEF LexLess

\* The key found is the one after those up to the position.
LEMMA VisitsNext ==
    ASSUME IInv, NEW i \in DirRange(dir_bits), NEW s \in Int, NEW p, p = NextPos(i, s)
    PROVE  /\ p.index = 2^dir_bits => Present \subseteq UpToPos(FstOf(i), s)
           /\ p.index # 2^dir_bits =>
                \A k : k = bucket[dir[p.index]].h_table[p.slot].key =>
                   /\ k \in Present \ UpToPos(FstOf(i), s)
                   /\ UpToPos(FstOf(i), s) \cup {k} = UpToPos(FstOf(DirOf(k)), SlotOf(k))
<1>1. /\ p.index # 2^dir_bits =>
           /\ p.index \in DirRange(dir_bits)
           /\ p.slot \in Used(bucket[dir[p.index]].h_table)
           /\ LexLess(FstOf(i), s, FstOf(p.index), p.slot)
      /\ \A j \in DirRange(dir_bits) : \A x \in Used(bucket[dir[j]].h_table) :
           LexLess(FstOf(i), s, FstOf(j), x) =>
              p.index # 2^dir_bits /\ ~LexLess(FstOf(j), x, FstOf(p.index), p.slot)
  BY NextPosRight
<1>2. FstOf(i) \in Int
  BY FstType
<1>3. p.index = 2^dir_bits => Present \subseteq UpToPos(FstOf(i), s)
  BY <1>1, PresentAt DEF UpToPos
<1>4. ASSUME p.index # 2^dir_bits, NEW k, k = bucket[dir[p.index]].h_table[p.slot].key
      PROVE  /\ k \in Present \ UpToPos(FstOf(i), s)
             /\ UpToPos(FstOf(i), s) \cup {k} = UpToPos(FstOf(DirOf(k)), SlotOf(k))
  <2>1. PICK q \in DirRange(dir_bits) : q = p.index
    BY <1>1, <1>4
  <2>2. k \in Present /\ dir[DirOf(k)] = dir[q] /\ SlotOf(k) = p.slot
    BY <1>1, <1>4, <2>1, KeyAt
  <2>3. /\ DirOf(k) \in DirRange(dir_bits) /\ FstOf(DirOf(k)) \in Int /\ SlotOf(k) \in Int
        /\ SlotOf(k) \in Used(bucket[dir[DirOf(k)]].h_table)
    BY <2>2, PresentAt
  <2>4. FstOf(DirOf(k)) = FstOf(q)
    BY <2>2, <2>3, FstRight
  <2>5. LexLess(FstOf(i), s, FstOf(DirOf(k)), SlotOf(k))
    BY <1>1, <1>4, <2>1, <2>2, <2>4
  <2>6. ASSUME NEW m \in Present
        PROVE  ~LexLess(FstOf(DirOf(k)), SlotOf(k), FstOf(DirOf(m)), SlotOf(m))
               <=> ~LexLess(FstOf(i), s, FstOf(DirOf(m)), SlotOf(m)) \/ m = k
    <3>1. /\ DirOf(m) \in DirRange(dir_bits) /\ FstOf(DirOf(m)) \in Int /\ SlotOf(m) \in Int
          /\ SlotOf(m) \in Used(bucket[dir[DirOf(m)]].h_table)
          /\ bucket[dir[DirOf(m)]].h_table[SlotOf(m)].key = m
      BY PresentAt
    <3>2. LexLess(FstOf(i), s, FstOf(DirOf(m)), SlotOf(m)) =>
             ~LexLess(FstOf(DirOf(m)), SlotOf(m), FstOf(DirOf(k)), SlotOf(k))
      BY <1>1, <2>1, <2>2, <2>4, <3>1
    <3>3. FstOf(DirOf(m)) = FstOf(DirOf(k)) /\ SlotOf(m) = SlotOf(k) => m = k
      <4>1. FstOf(DirOf(m)) = FstOf(DirOf(k)) => dir[DirOf(m)] = dir[DirOf(k)]
        BY <2>3, <3>1, FstRight
      <4>2. bucket[dir[DirOf(k)]].h_table[SlotOf(k)].key = k
        BY <2>2, PresentAt
      <4>3. QED
        BY <3>1, <4>1, <4>2
    <3>4. QED
      BY <1>2, <2>3, <2>5, <3>1, <3>2, <3>3, LexFacts
  <2>7. UpToPos(FstOf(i), s) \cup {k} = UpToPos(FstOf(DirOf(k)), SlotOf(k))
    BY <2>2, <2>6 DEF UpToPos
  <2>8. k \notin UpToPos(FstOf(i), s)
    BY <2>5 DEF UpToPos
  <2>9. QED
    BY <2>2, <2>7, <2>8
<1>5. QED
  BY <1>3, <1>4

-----------------------------------------------------------------------------
(* What the caller sees: the contents, and which keys are there. *)

ContentsIn(n, d, bk) ==
    [k \in Key |-> IF SlotsIn(n, d, bk, k) = {} THEN None
                   ELSE TableIn(n, d, bk, k)[CHOOSE s \in SlotsIn(n, d, bk, k) : TRUE].data]

LEMMA ContentsAre ==
    /\ Contents = ContentsIn(dir_bits, dir, bucket)
    /\ Contents' = ContentsIn(dir_bits', dir', bucket')
BY DEF Contents, ContentsIn, Slots, TableOf, DirOf, SlotsIn, TableIn

\* The contents are told by the elements alone, not by where they are.
LEMMA ContentsByElems ==
    ASSUME NEW n, NEW d, NEW bk, GoodDir(n, d, bk)
    PROVE  /\ \A e \in AllElems(bk) : /\ e.key \in Key /\ e.data \in Value
                                      /\ ContentsIn(n, d, bk)[e.key] = e.data
           /\ \A k \in Key : /\ SlotsIn(n, d, bk, k) = {} <=> ContentsIn(n, d, bk)[k] = None
                             /\ (\A e \in AllElems(bk) : e.key # k) => ContentsIn(n, d, bk)[k] = None
           /\ DOMAIN ContentsIn(n, d, bk) = Key
           /\ ContentsIn(n, d, bk) = [k \in Key |-> ContentsIn(n, d, bk)[k]]
<1>1. ASSUME NEW e \in AllElems(bk) PROVE e \in Elem /\ e.key \in Key /\ e.data \in Value /\ e.data # None
  <2>1. PICK a \in DOMAIN bk : e \in Elems(bk[a].h_table)
    BY DEF AllElems
  <2>2. bk[a].h_table \in Table
    BY <2>1 DEF GoodDir, GoodTable
  <2>3. e \in Elem
    BY <2>1, <2>2, HashFacts
  <2>4. QED
    BY <2>3, ConstAssumption DEF Elem
<1>2. \A k \in Key : SlotsIn(n, d, bk, k) = {} => ContentsIn(n, d, bk)[k] = None
  BY DEF ContentsIn
<1>3. ASSUME NEW k \in Key, SlotsIn(n, d, bk, k) # {}
      PROVE  \E e \in AllElems(bk) : e.key = k /\ ContentsIn(n, d, bk)[k] = e.data
  <2>1. PICK s : s = CHOOSE x \in SlotsIn(n, d, bk, k) : TRUE
    OBVIOUS
  <2>2. s \in SlotsIn(n, d, bk, k)
    BY <1>3, <2>1
  <2>3. ContentsIn(n, d, bk)[k] = TableIn(n, d, bk, k)[s].data
    BY <1>3, <2>1 DEF ContentsIn
  <2>4. TableIn(n, d, bk, k)[s] \in AllElems(bk) /\ TableIn(n, d, bk, k)[s].key = k
    BY <2>2, Found
  <2>5. QED
    BY <2>3, <2>4
<1>4. ASSUME NEW e \in AllElems(bk) PROVE ContentsIn(n, d, bk)[e.key] = e.data
  <2>1. PICK k \in Key : k = e.key
    BY <1>1
  <2>2. PICK s \in SlotsIn(n, d, bk, k) : TableIn(n, d, bk, k)[s] = e
    BY <2>1, Found
  <2>3. SlotsIn(n, d, bk, k) = {s}
    BY <2>2, Found
  <2>4. (CHOOSE x \in SlotsIn(n, d, bk, k) : TRUE) = s
    BY <2>3
  <2>5. ContentsIn(n, d, bk)[k] = TableIn(n, d, bk, k)[CHOOSE x \in SlotsIn(n, d, bk, k) : TRUE].data
    BY <2>2 DEF ContentsIn
  <2>6. QED
    BY <2>1, <2>2, <2>4, <2>5
<1>5. DOMAIN ContentsIn(n, d, bk) = Key /\ ContentsIn(n, d, bk) = [k \in Key |-> ContentsIn(n, d, bk)[k]]
  BY DEF ContentsIn
<1>6. QED
  BY <1>1, <1>2, <1>3, <1>4, <1>5

\* The contents change as the elements do.
LEMMA SameContents ==
    ASSUME NEW n, NEW d, NEW bk, GoodDir(n, d, bk), NEW m, NEW c, NEW bj, GoodDir(m, c, bj),
           AllElems(bj) = AllElems(bk)
    PROVE  ContentsIn(m, c, bj) = ContentsIn(n, d, bk)
<1>1. PICK f : f = ContentsIn(n, d, bk)
  OBVIOUS
<1>2. PICK g : g = ContentsIn(m, c, bj)
  OBVIOUS
<1>3. \A k \in Key : g[k] = f[k]
  BY <1>1, <1>2, ContentsByElems
<1>4. DOMAIN f = Key /\ DOMAIN g = Key /\ f = [k \in Key |-> f[k]] /\ g = [k \in Key |-> g[k]]
  BY <1>1, <1>2, ContentsByElems
<1>5. QED
  BY <1>1, <1>2, <1>3, <1>4

\* Elements P with a key other than k, and at most one with key k: replaced by v,
\* or None.
LEMMA OneChanged ==
    ASSUME NEW n, NEW d, NEW bk, GoodDir(n, d, bk), NEW m, NEW c, NEW bj, GoodDir(m, c, bj),
           NEW k \in Key, NEW v,
           \A e : e.key # k => (e \in AllElems(bj) <=> e \in AllElems(bk)),
           \/ v = None /\ \A e \in AllElems(bj) : e.key # k
           \/ \E e \in AllElems(bj) : e.key = k /\ e.data = v
    PROVE  ContentsIn(m, c, bj) = [ContentsIn(n, d, bk) EXCEPT ![k] = v]
<1>1. PICK f : f = ContentsIn(n, d, bk)
  OBVIOUS
<1>2. PICK g : g = ContentsIn(m, c, bj)
  OBVIOUS
<1>3. \A x \in Key : x # k => g[x] = f[x]
  BY <1>1, <1>2, ContentsByElems
<1>4. g[k] = v
  BY <1>2, ContentsByElems
<1>5. DOMAIN f = Key /\ DOMAIN g = Key /\ f = [x \in Key |-> f[x]] /\ g = [x \in Key |-> g[x]]
  BY <1>1, <1>2, ContentsByElems
<1>6. g = [f EXCEPT ![k] = v]
  BY <1>3, <1>4, <1>5
<1>7. QED
  BY <1>1, <1>2, <1>6

LEMMA ReplaceKeepsSlots ==
    ASSUME NEW n, NEW d, NEW bk, GoodDir(n, d, bk), NEW bj, GoodDir(n, d, bj),
           NEW e, NEW j, NEW v, Replaced(bk, bj, e, j, v), NEW k \in Key
    PROVE  SlotsIn(n, d, bj, k) = SlotsIn(n, d, bk, k)
<1>1. PICK a \in DOMAIN bk : a = d[BucketDir(Hash[k], n)]
  BY KeyEntry
<1>2. PICK t, u : t = bk[a].h_table /\ u = bj[a].h_table
  OBVIOUS
<1>3. GoodTable(t) /\ GoodTable(u)
  BY <1>1, <1>2, KeyEntry DEF TableIn
<1>4. FindKey(t, k) = {s \in Used(t) : t[s].key = k} /\ FindKey(u, k) = {s \in Used(u) : u[s].key = k}
  BY <1>3, FindKeyRight
<1>5. Used(u) = Used(t) /\ \A r \in Used(t) : u[r].key = t[r].key
  BY <1>1, <1>2 DEF Replaced
<1>6. FindKey(t, k) = FindKey(u, k)
  BY <1>4, <1>5
<1>7. QED
  BY <1>1, <1>2, <1>6 DEF SlotsIn, TableIn

\* The walk has visited the keys up to the last one's place.
Walk == at # None /\ op = None => at \in Present /\ seen = UpToPos(FstOf(DirOf(at)), SlotOf(at))

\* What moves no key leaves the walk where it is.
LEMMA WalkStays ==
    ASSUME Walk, op = None, dir_bits' = dir_bits, dir' = dir, at' = at, seen' = seen,
           \A k \in Key : SlotsIn(dir_bits', dir', bucket', k) = SlotsIn(dir_bits, dir, bucket, k)
    PROVE  Walk'
<1>1. ASSUME NEW k \in Key PROVE Slots(k)' = Slots(k) /\ DirOf(k)' = DirOf(k)
  BY <1>1 DEF Slots, TableOf, DirOf, SlotsIn, TableIn
<1>2. ASSUME NEW k \in Key PROVE SlotOf(k)' = SlotOf(k)
  BY <1>1 DEF SlotOf
<1>3. Present' = Present
  BY <1>1 DEF Present
<1>4. ASSUME NEW i PROVE FstOf(i)' = FstOf(i)
  BY DEF FstOf
<1>5. ASSUME NEW b, NEW y PROVE UpToPos(b, y)' = UpToPos(b, y)
  <2>1. ASSUME NEW k \in Present PROVE FstOf(DirOf(k))' = FstOf(DirOf(k)) /\ SlotOf(k)' = SlotOf(k)
    <3>1. k \in Key
      BY DEF Present
    <3>2. QED
      BY <1>1, <1>2, <1>4, <3>1 DEF FstOf
  <2>2. UpToPos(b, y)' = {k \in Present : (~LexLess(b, y, FstOf(DirOf(k)), SlotOf(k)))'}
    BY <1>3 DEF UpToPos
  <2>3. UpToPos(b, y) = {k \in Present : ~LexLess(b, y, FstOf(DirOf(k)), SlotOf(k))}
    BY DEF UpToPos
  <2>4. QED
    BY <2>1, <2>2, <2>3 DEF LexLess
<1>6. CASE at = None
  BY <1>6 DEF Walk
<1>7. CASE at # None
  <2>1. PICK k : k = at
    OBVIOUS
  <2>2. k \in Present /\ k \in Key
    BY <1>7, <2>1 DEF Walk, Present
  <2>3. PICK b, y : b = FstOf(DirOf(k)) /\ y = SlotOf(k)
    OBVIOUS
  <2>4. seen = UpToPos(b, y)
    BY <1>7, <2>1, <2>3 DEF Walk
  <2>5. FstOf(DirOf(k))' = b /\ SlotOf(k)' = y
    BY <1>1, <1>2, <2>2, <2>3 DEF FstOf
  <2>6. seen' = UpToPos(b, y)'
    BY <1>5, <2>4
  <2>7. k = at' /\ k \in Present'
    BY <1>3, <2>1, <2>2
  <2>8. UpToPos(FstOf(DirOf(at)), SlotOf(at))' = UpToPos(b, y)'
    <3>1. FstOf(DirOf(at))' = b /\ SlotOf(at)' = y
      BY <2>5, <2>7 DEF FstOf, DirOf, SlotOf, Slots, TableOf
    <3>2. QED
      BY <3>1 DEF UpToPos
  <2>9. QED
    BY <2>6, <2>7, <2>8 DEF Walk
<1>8. QED
  BY <1>6, <1>7

\* A walk starts before every key.
LEMMA NoneBefore ==
    ASSUME IInv
    PROVE  0 \in DirRange(dir_bits) /\ UpToPos(FstOf(0), -1) = {}
<1>0. Typed(dir_bits, dir, bucket)
  BY DEF IInv, GoodDir
<1>1. 0 \in DirRange(dir_bits)
  BY <1>0, BitsFacts
<1>2. FstOf(0) \in Nat /\ FstOf(0) <= 0
  BY <1>1, FstType
<1>3. ASSUME NEW k \in Present PROVE LexLess(FstOf(0), -1, FstOf(DirOf(k)), SlotOf(k))
  <2>1. PICK b \in Nat, y \in Int : b = FstOf(DirOf(k)) /\ y = SlotOf(k) /\ 0 <= y
    BY PresentAt
  <2>2. QED
    BY <1>2, <2>1 DEF LexLess
<1>4. QED
  BY <1>1, <1>3 DEF UpToPos

\* A call of gdbm_firstkey or gdbm_nextkey that continues a walk from a position.
LEMMA WalkGoes ==
    ASSUME IInv, NEW i \in DirRange(dir_bits), NEW s \in Int,
           Visit(NextPos(i, s), UpToPos(FstOf(i), s)),
           UNCHANGED <<dir_bits, dir, bucket, op>>
    PROVE  /\ Walk'
           /\ \/ \E k \in Present \ UpToPos(FstOf(i), s) :
                   ret' = k /\ at' = k /\ seen' = UpToPos(FstOf(i), s) \cup {k}
              \/ ret' = "not_found" /\ seen' = {None} /\ at' = None /\ Present \subseteq UpToPos(FstOf(i), s)
<1>1. PICK p, U : p = NextPos(i, s) /\ U = UpToPos(FstOf(i), s)
  OBVIOUS
<1>2. /\ p.index = 2^dir_bits => Present \subseteq U
      /\ p.index # 2^dir_bits =>
           \A k : k = bucket[dir[p.index]].h_table[p.slot].key =>
              k \in Present \ U /\ U \cup {k} = UpToPos(FstOf(DirOf(k)), SlotOf(k))
  BY <1>1, VisitsNext
<1>3. Visit(p, U)
  BY <1>1
<1>4. CASE p.index = 2^dir_bits
  <2>1. ret' = "not_found" /\ seen' = {None} /\ at' = None /\ Present \subseteq U
    BY <1>2, <1>3, <1>4, Zenon DEF Visit, NoWalk
  <2>2. QED
    BY <1>1, <2>1 DEF Walk
<1>5. CASE p.index # 2^dir_bits
  <2>1. PICK k : k = bucket[dir[p.index]].h_table[p.slot].key
    OBVIOUS
  <2>2. seen' = U \cup {k} /\ at' = k /\ ret' = k
    BY <1>3, <1>5, <2>1, Zenon DEF Visit
  <2>3. k \in Present \ U /\ seen' = UpToPos(FstOf(DirOf(k)), SlotOf(k))
    BY <1>2, <1>5, <2>1, <2>2
  <2>4. at' \in Present'
    BY <2>2, <2>3 DEF Present, Slots, TableOf, DirOf
  <2>5. seen' = UpToPos(FstOf(DirOf(at)), SlotOf(at))'
    <3>1. UpToPos(FstOf(DirOf(k)), SlotOf(k)) = UpToPos(FstOf(DirOf(k)), SlotOf(k))'
      BY DEF UpToPos, FstOf, DirOf, SlotOf, Present, Slots, TableOf
    <3>2. UpToPos(FstOf(DirOf(k)), SlotOf(k))' = UpToPos(FstOf(DirOf(at)), SlotOf(at))'
      BY <2>2 DEF UpToPos, FstOf, DirOf, SlotOf, Present, Slots, TableOf
    <3>3. QED
      BY <2>3, <3>1, <3>2
  <2>6. QED
    BY <1>1, <2>2, <2>3, <2>4, <2>5 DEF Walk
<1>6. QED
  BY <1>4, <1>5

LEMMA FirstWalks ==
    ASSUME IInv, FirstKey
    PROVE  /\ Walk'
           /\ \/ \E k \in Present : ret' = k /\ at' = k /\ seen' = {k}
              \/ ret' = "not_found" /\ seen' = {None} /\ at' = None /\ Present = {}
<1>1. Visit(NextPos(0, -1), UpToPos(FstOf(0), -1)) /\ UNCHANGED <<dir_bits, dir, bucket, op>>
  BY NoneBefore DEF FirstKey
<1>2. PICK s \in Int : s = -1
  OBVIOUS
<1>3. 0 \in DirRange(dir_bits) /\ Visit(NextPos(0, s), UpToPos(FstOf(0), s)) /\ UpToPos(FstOf(0), s) = {}
  BY <1>1, <1>2, NoneBefore
<1>4. /\ Walk'
      /\ \/ \E k \in Present \ UpToPos(FstOf(0), s) :
              ret' = k /\ at' = k /\ seen' = UpToPos(FstOf(0), s) \cup {k}
         \/ ret' = "not_found" /\ seen' = {None} /\ at' = None /\ Present \subseteq UpToPos(FstOf(0), s)
  BY <1>1, <1>3, WalkGoes
<1>5. QED
  BY <1>3, <1>4

LEMMA NextWalks ==
    ASSUME IInv, Walk, NextKey
    PROVE  /\ Walk'
           /\ \/ \E k \in Present \ seen : ret' = k /\ at' = k /\ seen' = seen \cup {k}
              \/ ret' = "not_found" /\ seen' = {None} /\ at' = None /\ Present \subseteq seen
<1>1. /\ at \in Present /\ seen = UpToPos(FstOf(DirOf(at)), SlotOf(at))
      /\ Visit(NextPos(DirOf(at), SlotOf(at)), seen) /\ UNCHANGED <<dir_bits, dir, bucket, op>>
  BY DEF NextKey, Callable, Walk, SlotOf
<1>2. PICK i \in DirRange(dir_bits), s \in Int : i = DirOf(at) /\ s = SlotOf(at)
  BY <1>1, PresentAt
<1>3. seen = UpToPos(FstOf(i), s) /\ Visit(NextPos(i, s), UpToPos(FstOf(i), s))
  BY <1>1, <1>2
<1>4. /\ Walk'
      /\ \/ \E k \in Present \ UpToPos(FstOf(i), s) :
              ret' = k /\ at' = k /\ seen' = UpToPos(FstOf(i), s) \cup {k}
         \/ ret' = "not_found" /\ seen' = {None} /\ at' = None /\ Present \subseteq UpToPos(FstOf(i), s)
  BY <1>1, <1>3, WalkGoes
<1>5. QED
  BY <1>3, <1>4

-----------------------------------------------------------------------------
(* HashDir implements KVStore. *)

\* Steps of a store, a replacement and a deletion on the contents.
LEMMA InsertChanges ==
    ASSUME NEW n, NEW d, NEW bk, GoodDir(n, d, bk), NEW m, NEW c, NEW bj, GoodDir(m, c, bj),
           NEW e \in Elem, \A x \in AllElems(bk) : x.key # e.key, AllElems(bj) = AllElems(bk) \cup {e}
    PROVE  /\ ContentsIn(n, d, bk)[e.key] = None
           /\ ContentsIn(m, c, bj) = [ContentsIn(n, d, bk) EXCEPT ![e.key] = e.data]
<1>1. e.key \in Key
  BY DEF Elem
<1>a. PICK k \in Key : k = e.key
  BY <1>1
<1>2. PICK v : k = e.key /\ v = e.data
  BY <1>a
<1>3. \A x : x.key # k => (x \in AllElems(bj) <=> x \in AllElems(bk))
  BY <1>2
<1>4. \E x \in AllElems(bj) : x.key = k /\ x.data = v
  BY <1>2
<1>5. ContentsIn(m, c, bj) = [ContentsIn(n, d, bk) EXCEPT ![k] = v]
  BY <1>3, <1>4, OneChanged
<1>6. ContentsIn(n, d, bk)[k] = None
  BY <1>2, ContentsByElems
<1>7. QED
  BY <1>2, <1>5, <1>6

LEMMA DeleteChanges ==
    ASSUME NEW n, NEW d, NEW bk, GoodDir(n, d, bk), NEW m, NEW c, NEW bj, GoodDir(m, c, bj),
           NEW k \in Key, NEW e \in AllElems(bk), e.key = k, AllElems(bj) = AllElems(bk) \ {e}
    PROVE  ContentsIn(m, c, bj) = [ContentsIn(n, d, bk) EXCEPT ![k] = None]
<1>1. \A x \in AllElems(bk) : x.key = k => x = e
  BY Found
<1>2. \A x \in AllElems(bj) : x.key # k
  BY <1>1
<1>3. \A x : x.key # k => (x \in AllElems(bj) <=> x \in AllElems(bk))
  OBVIOUS
<1>4. QED
  BY <1>2, <1>3, OneChanged

LEMMA ReplaceChanges ==
    ASSUME NEW n, NEW d, NEW bk, GoodDir(n, d, bk), NEW m, NEW c, NEW bj, GoodDir(m, c, bj),
           NEW k \in Key, NEW v, NEW e \in AllElems(bk), e.key = k, Replaced(bk, bj, e, k, v)
    PROVE  ContentsIn(m, c, bj) = [ContentsIn(n, d, bk) EXCEPT ![k] = v]
<1>1. PICK f : f = [key |-> k, data |-> v]
  OBVIOUS
<1>2. f.key = k /\ f.data = v
  BY <1>1
<1>3. AllElems(bj) = (AllElems(bk) \ {e}) \cup {f}
  BY <1>1 DEF Replaced
<1>4. \A x : x.key # k => (x \in AllElems(bj) <=> x \in AllElems(bk))
  BY <1>2, <1>3
<1>5. \E x \in AllElems(bj) : x.key = k /\ x.data = v
  BY <1>2, <1>3
<1>6. QED
  BY <1>4, <1>5, OneChanged

\* What the state says of the contents: a key without one is a key not found.
LEMMA ContentsFacts ==
    ASSUME IInv
    PROVE  /\ \A k \in Key : Slots(k) = {} <=> Contents[k] = None
           /\ \A k \in Key : Slots(k) # {} =>
                Contents[k] = TableOf(k)[CHOOSE s \in Slots(k) : TRUE].data
           /\ Present = {k \in Key : Contents[k] # None}
<1>1. \A k \in Key : SlotsIn(dir_bits, dir, bucket, k) = {} <=> Contents[k] = None
  BY ContentsByElems, ContentsAre DEF IInv
<1>2. \A k \in Key : Slots(k) = {} <=> Contents[k] = None
  BY <1>1, SlotsAre
<1>3. QED
  BY <1>2 DEF Contents, Present

LEMMA InitContents ==
    ASSUME Init
    PROVE  Contents = [k \in Key |-> None]
<1>1. IInv
  BY InitInv
<1>2. \A a \in DOMAIN bucket : Elems(bucket[a].h_table) = {}
  BY EmptyTableRight DEF Init
<1>3. AllElems(bucket) = {}
  BY <1>2 DEF AllElems
<1>4. \A k \in Key : Contents[k] = None
  BY <1>1, <1>3, ContentsByElems, ContentsAre DEF IInv
<1>5. Contents = [k \in Key |-> Contents[k]]
  BY DEF Contents
<1>6. QED
  BY <1>4, <1>5

\* The walk's invariant.
LEMMA WalkInv == IInv /\ IInv' /\ Walk /\ [Next]_vars => Walk'
<1> SUFFICES ASSUME IInv, IInv', Walk, [Next]_vars PROVE Walk'
  OBVIOUS
<1>same. ASSUME UNCHANGED <<dir_bits, dir, bucket, op, seen, at>>, op = None PROVE Walk'
  BY <1>same, WalkStays
<1>ends. ASSUME at' = None PROVE Walk'
  BY <1>ends DEF Walk
<1>held. ASSUME op' # None PROVE Walk'
  BY <1>held DEF Walk
<1>1. ASSUME NEW k \in Key, Fetch(k) PROVE Walk'
  BY <1>1, <1>same DEF Fetch, Callable
<1>2. ASSUME NEW k \in Key, Exists(k) PROVE Walk'
  BY <1>2, <1>same DEF Exists, Callable
<1>3. ASSUME NEW k \in Key, Delete(k) PROVE Walk'
  BY <1>3, <1>same, <1>ends DEF Delete, Callable, NoWalk
<1>4. ASSUME NEW k \in Key, NEW v \in Value, NEW replace \in BOOLEAN, StoreExisting(k, v, replace)
      PROVE  Walk'
  <2>1. CASE replace = FALSE
    BY <1>4, <1>same, <2>1 DEF StoreExisting, Callable
  <2>2. CASE replace = TRUE
    <3>1. StoreExisting(k, v, TRUE)
      BY <1>4, <2>2
    <3>2. /\ op = None /\ dir_bits' = dir_bits /\ dir' = dir /\ at' = at /\ seen' = seen
      BY <3>1 DEF StoreExisting, Callable
    <3>3. PICK e \in AllElems(bucket) : e.key = k /\ Replaced(bucket, bucket', e, k, v)
      BY <3>1, StepReplace
    <3>4. GoodDir(dir_bits, dir, bucket) /\ GoodDir(dir_bits, dir, bucket')
      BY <3>2 DEF IInv
    <3>5. \A j \in Key : SlotsIn(dir_bits, dir, bucket', j) = SlotsIn(dir_bits, dir, bucket, j)
      BY <3>3, <3>4, ReplaceKeepsSlots
    <3>6. QED
      BY <3>2, <3>5, WalkStays
  <2>3. QED
    BY <2>1, <2>2
<1>5. ASSUME NEW k \in Key, NEW v \in Value, StoreNew(k, v) PROVE Walk'
  <2>1. CASE BucketFull(dir[DirOf(k)])
    <3>1. op' = [key |-> k, data |-> v]
      BY <1>5, <2>1 DEF StoreNew
    <3>2. op' # None
      BY <3>1, ConstAssumption DEF Elem
    <3>3. QED
      BY <1>held, <3>2
  <2>2. CASE ~BucketFull(dir[DirOf(k)])
    BY <1>5, <1>ends, <2>2 DEF StoreNew, NoWalk
  <2>3. QED
    BY <2>1, <2>2
<1>6. CASE SplitIter
  BY <1>6, <1>held DEF SplitIter
<1>7. CASE DirOverflow
  BY <1>7, <1>ends DEF DirOverflow, NoWalk
<1>8. CASE StoreAfterSplit
  BY <1>8, <1>ends DEF StoreAfterSplit, NoWalk
<1>9. CASE FirstKey
  BY <1>9, FirstWalks
<1>10. CASE NextKey
  BY <1>10, NextWalks
<1>11. CASE UNCHANGED vars
  <2>1. UNCHANGED <<dir_bits, dir, bucket, op, seen, at>>
    BY <1>11 DEF vars
  <2>2. QED
    BY <1>same, <1>held, <2>1
<1>12. CASE Refused
  BY <1>11, <1>12 DEF Refused
<1>13. QED
  BY <1>1, <1>2, <1>3, <1>4, <1>5, <1>6, <1>7, <1>8, <1>9, <1>10, <1>11, <1>12 DEF Next

\* Every step of HashDir is a step of KVStore or changes nothing the caller sees.
LEMMA StepRefines == IInv /\ IInv' /\ Walk /\ [Next]_vars => [Abstract!Next]_(Abstract!vars)
<1> SUFFICES ASSUME IInv, IInv', Walk, [Next]_vars PROVE [Abstract!Next]_(Abstract!vars)
  OBVIOUS
<1>good. GoodDir(dir_bits, dir, bucket) /\ GoodDir(dir_bits', dir', bucket')
  BY DEF IInv
<1>none. \A k \in Key : Slots(k) = {} <=> Contents[k] = None
  BY ContentsFacts
<1>keys. Abstract!Keys = Present
  BY ContentsFacts DEF Abstract!Keys
<1>same. ASSUME UNCHANGED <<dir_bits, dir, bucket>> PROVE Contents' = Contents
  BY <1>same DEF Contents, Slots, TableOf, DirOf
<1>stutter. ASSUME Contents' = Contents, UNCHANGED <<seen, at, ret, need_recovery>>
            PROVE  UNCHANGED Abstract!vars
  BY <1>stutter DEF Abstract!vars
<1>1. ASSUME NEW k \in Key, Fetch(k) PROVE Abstract!Fetch(k)
  <2>1. ~need_recovery /\ UNCHANGED <<dir_bits, dir, bucket, seen, at, need_recovery>>
    BY <1>1 DEF Fetch, Callable
  <2>2. ret' = IF Slots(k) = {} THEN "not_found" ELSE TableOf(k)[CHOOSE s \in Slots(k) : TRUE].data
    BY <1>1 DEF Fetch
  <2>3. ret' = IF Contents[k] = None THEN "not_found" ELSE Contents[k]
    BY <2>2, ContentsFacts
  <2>4. QED
    BY <1>same, <2>1, <2>3 DEF Abstract!Fetch
<1>2. ASSUME NEW k \in Key, Exists(k) PROVE Abstract!Exists(k)
  <2>1. /\ ~need_recovery /\ UNCHANGED <<dir_bits, dir, bucket, seen, at, need_recovery>>
        /\ ret' = IF Slots(k) = {} THEN "no" ELSE "yes"
    BY <1>2 DEF Exists, Callable
  <2>2. QED
    BY <1>same, <1>none, <2>1 DEF Abstract!Exists
<1>3. ASSUME NEW k \in Key, Delete(k) PROVE Abstract!Delete(k) \/ Abstract!DeleteMissing(k)
  <2>1. CASE Slots(k) = {}
    <3>1. /\ ~need_recovery /\ UNCHANGED <<dir_bits, dir, bucket, seen, at, need_recovery>>
          /\ ret' = "not_found"
      BY <1>3, <2>1 DEF Delete, Callable
    <3>2. QED
      BY <1>same, <1>none, <2>1, <3>1 DEF Abstract!DeleteMissing
  <2>2. CASE Slots(k) # {}
    <3>1. /\ ~need_recovery /\ UNCHANGED need_recovery /\ ret' = "deleted"
          /\ seen' = {None} /\ at' = None
      BY <1>3, <2>2 DEF Delete, Callable, NoWalk
    <3>2. PICK e \in AllElems(bucket) : e.key = k /\ AllElems(bucket') = AllElems(bucket) \ {e}
      BY <1>3, <2>2, StepDelete
    <3>3. Contents' = [Contents EXCEPT ![k] = None]
      BY <1>good, <3>2, DeleteChanges, ContentsAre
    <3>4. Contents[k] # None
      BY <1>none, <2>2
    <3>5. QED
      BY <3>1, <3>3, <3>4 DEF Abstract!Delete, Abstract!NoWalk
  <2>3. QED
    BY <2>1, <2>2
<1>4. ASSUME NEW k \in Key, NEW v \in Value, NEW replace \in BOOLEAN, StoreExisting(k, v, replace)
      PROVE  Abstract!Replace(k, v) \/ Abstract!Refuse(k)
  <2>0. ~need_recovery /\ UNCHANGED <<seen, at, need_recovery>> /\ Contents[k] # None
    BY <1>4, <1>none DEF StoreExisting, Callable
  <2>1. CASE replace = FALSE
    <3>1. ret' = "cannot_replace" /\ UNCHANGED <<dir_bits, dir, bucket>>
      BY <1>4, <2>1 DEF StoreExisting
    <3>2. QED
      BY <1>same, <2>0, <3>1 DEF Abstract!Refuse
  <2>2. CASE replace = TRUE
    <3>1. StoreExisting(k, v, TRUE)
      BY <1>4, <2>2
    <3>2. ret' = "stored"
      BY <3>1 DEF StoreExisting
    <3>3. PICK e \in AllElems(bucket) : e.key = k /\ Replaced(bucket, bucket', e, k, v)
      BY <3>1, StepReplace
    <3>4. Contents' = [Contents EXCEPT ![k] = v]
      BY <1>good, <3>3, ReplaceChanges, ContentsAre
    <3>5. QED
      BY <2>0, <3>2, <3>4 DEF Abstract!Replace
  <2>3. QED
    BY <2>1, <2>2
<1>5. ASSUME NEW k \in Key, NEW v \in Value, StoreNew(k, v)
      PROVE  Abstract!Insert(k, v) \/ UNCHANGED Abstract!vars
  <2>1. CASE BucketFull(dir[DirOf(k)])
    <3>1. UNCHANGED <<dir_bits, dir, bucket, seen, at, ret, need_recovery>>
      BY <1>5, <2>1 DEF StoreNew
    <3>2. QED
      BY <1>same, <1>stutter, <3>1
  <2>2. CASE ~BucketFull(dir[DirOf(k)])
    <3>1. /\ ~need_recovery /\ UNCHANGED need_recovery /\ ret' = "stored"
          /\ seen' = {None} /\ at' = None
      BY <1>5, <2>2 DEF StoreNew, Callable, NoWalk
    <3>2. PICK e : e = [key |-> k, data |-> v]
      OBVIOUS
    <3>3. e \in Elem /\ e.key = k /\ e.data = v
      BY <3>2 DEF Elem
    <3>4. (\A x \in AllElems(bucket) : x.key # e.key) /\ AllElems(bucket') = AllElems(bucket) \cup {e}
      BY <1>5, <2>2, <3>2, <3>3, StepStore
    <3>5. /\ ContentsIn(dir_bits, dir, bucket)[e.key] = None
          /\ ContentsIn(dir_bits', dir', bucket') = [ContentsIn(dir_bits, dir, bucket) EXCEPT ![e.key] = e.data]
      BY <1>good, <3>3, <3>4, InsertChanges
    <3>6. Contents[k] = None /\ Contents' = [Contents EXCEPT ![k] = v]
      BY <3>3, <3>5, ContentsAre
    <3>7. QED
      BY <3>1, <3>6 DEF Abstract!Insert, Abstract!NoWalk
  <2>3. QED
    BY <2>1, <2>2
<1>6. CASE SplitIter
  <2>1. AllElems(bucket') = AllElems(bucket)
    BY <1>6, StepSplit
  <2>2. Contents' = Contents
    BY <1>good, <2>1, SameContents, ContentsAre
  <2>3. UNCHANGED <<seen, at, ret, need_recovery>>
    BY <1>6 DEF SplitIter
  <2>4. QED
    BY <1>stutter, <2>2, <2>3
<1>7. CASE DirOverflow
  <2>1. /\ ~need_recovery /\ need_recovery' = TRUE /\ ret' = "directory_overflow"
        /\ seen' = {None} /\ at' = None /\ UNCHANGED <<dir_bits, dir, bucket>>
    BY <1>7 DEF DirOverflow, NoWalk, IInv
  <2>2. Abstract!Break
    BY <1>same, <2>1 DEF Abstract!Break, Abstract!NoWalk
  <2>3. QED
    BY <2>2 DEF Abstract!Next
<1>8. CASE StoreAfterSplit
  <2>1. /\ ~need_recovery /\ UNCHANGED need_recovery /\ ret' = "stored" /\ seen' = {None} /\ at' = None
    BY <1>8 DEF StoreAfterSplit, NoWalk, IInv
  <2>2. op \in Elem /\ (\A x \in AllElems(bucket) : x.key # op.key)
        /\ AllElems(bucket') = AllElems(bucket) \cup {op}
    BY <1>8, StepStoreAfterSplit
  <2>3. PICK k \in Key, v \in Value : k = op.key /\ v = op.data
    BY <2>2 DEF Elem
  <2>4. /\ ContentsIn(dir_bits, dir, bucket)[op.key] = None
        /\ ContentsIn(dir_bits', dir', bucket') = [ContentsIn(dir_bits, dir, bucket) EXCEPT ![op.key] = op.data]
    BY <1>good, <2>2, InsertChanges
  <2>5. Contents[k] = None /\ Contents' = [Contents EXCEPT ![k] = v]
    BY <2>3, <2>4, ContentsAre
  <2>6. Abstract!Insert(k, v)
    BY <2>1, <2>5 DEF Abstract!Insert, Abstract!NoWalk
  <2>7. QED
    BY <2>6 DEF Abstract!Next
<1>9. CASE FirstKey
  <2>1. ~need_recovery /\ UNCHANGED <<dir_bits, dir, bucket, need_recovery>>
    BY <1>9 DEF FirstKey, Callable
  <2>2. \/ \E k \in Present : ret' = k /\ at' = k /\ seen' = {k}
        \/ ret' = "not_found" /\ seen' = {None} /\ at' = None /\ Present = {}
    BY <1>9, FirstWalks
  <2>3. Abstract!Visit({})
    BY <1>keys, <2>2 DEF Abstract!Visit, Abstract!NoWalk
  <2>4. Abstract!FirstKey
    BY <1>same, <2>1, <2>3 DEF Abstract!FirstKey
  <2>5. QED
    BY <2>4 DEF Abstract!Next
<1>10. CASE NextKey
  <2>1. ~need_recovery /\ at # None /\ UNCHANGED <<dir_bits, dir, bucket, need_recovery>>
    BY <1>10 DEF NextKey, Callable
  <2>2. \/ \E k \in Present \ seen : ret' = k /\ at' = k /\ seen' = seen \cup {k}
        \/ ret' = "not_found" /\ seen' = {None} /\ at' = None /\ Present \subseteq seen
    BY <1>10, NextWalks
  <2>3. Abstract!Visit(seen)
    BY <1>keys, <2>2 DEF Abstract!Visit, Abstract!NoWalk
  <2>4. Abstract!NextKey
    BY <1>same, <2>1, <2>3 DEF Abstract!NextKey
  <2>5. QED
    BY <2>4 DEF Abstract!Next
<1>11. CASE Refused \/ UNCHANGED vars
  <2>1. UNCHANGED <<dir_bits, dir, bucket, seen, at, ret, need_recovery>>
    BY <1>11 DEF Refused, vars
  <2>2. QED
    BY <1>same, <1>stutter, <2>1
<1>12. ASSUME NEW k \in Key, Fetch(k) \/ Exists(k) \/ Delete(k) PROVE Abstract!Next
  BY <1>1, <1>2, <1>3, <1>12 DEF Abstract!Next
<1>13. ASSUME NEW k \in Key, NEW v \in Value, StoreNew(k, v) \/ \E replace \in BOOLEAN : StoreExisting(k, v, replace)
       PROVE  Abstract!Next \/ UNCHANGED Abstract!vars
  BY <1>4, <1>5, <1>13 DEF Abstract!Next
<1>14. QED
  BY <1>6, <1>7, <1>8, <1>9, <1>10, <1>11, <1>12, <1>13 DEF Next

LEMMA InitRefines == Init => Abstract!Init /\ Walk
<1> SUFFICES ASSUME Init PROVE Abstract!Init /\ Walk
  OBVIOUS
<1>1. Contents = [k \in Key |-> None]
  BY InitContents
<1>2. seen = {None} /\ at = None /\ ret = "none" /\ need_recovery = FALSE
  BY DEF Init
<1>3. QED
  BY <1>1, <1>2 DEF Abstract!Init, Walk

\* The hash file, with its splits, doublings and probing, is to its caller the map
\* of module KVStore: nothing is lost, changed or made up by any call, and a walk of
\* gdbm_firstkey and gdbm_nextkey returns every key exactly once (gdbmseq.c).
THEOREM ImplementsKVStore == Spec => IsKVStore
<1>1. Spec => []Walk
  <2>1. Init => Walk
    BY InitRefines
  <2>2. QED
    BY Invariant, <2>1, WalkInv, PTL DEF Spec
<1>2. QED
  BY Invariant, <1>1, InitRefines, StepRefines, PTL DEF Spec, IsKVStore, Abstract!Spec

=============================================================================
