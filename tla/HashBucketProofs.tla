-------------------------- MODULE HashBucketProofs --------------------------
(***************************************************************************)
(* Proofs about HashBucket, for every table size, every set of keys and    *)
(* every hash function.                                                    *)
(***************************************************************************)
EXTENDS HashBucket, FiniteSetTheorems, TLAPS

(* Circular arithmetic. *)

\* Slots are numbers and the table is not empty.
LEMMA SlotFacts ==
    /\ \A i \in Slot : i \in Int /\ 0 <= i /\ i < BucketElems
    /\ \A i \in Int : 0 <= i /\ i < BucketElems => i \in Slot
    /\ 0 \in Slot
    /\ -1 \notin Slot
  BY BucketElemsAssumption DEF Slot

\* The home position of a hash value is a slot.
LEMMA HomeIsSlot == \A h \in Nat : HomeOf(h) \in Slot
  BY BucketElemsAssumption DEF HomeOf, Slot

\* So is the position after a slot.
LEMMA NextIsSlot == \A i \in Slot : NextLoc(i) \in Slot
  BY BucketElemsAssumption DEF NextLoc, Slot

\* Going one slot further adds that slot to the arc and nothing else.
LEMMA ArcStep ==
    ASSUME NEW a \in Slot, NEW e \in Slot, NEW x \in Slot,
           InArc(a, NextLoc(e), x)
    PROVE  InArc(a, e, x) \/ x = e
  BY SlotFacts DEF InArc, NextLoc

\* Coming back to the start means that every slot has been passed.
LEMMA ArcFull ==
    ASSUME NEW a \in Slot, NEW e \in Slot, NEW x \in Slot, NextLoc(e) = a
    PROVE  InArc(a, e, x) \/ x = e
  BY SlotFacts DEF InArc, NextLoc

\* A slot that the arc from h to e has not reached lies beyond e.
LEMMA ArcBeyond ==
    ASSUME NEW h \in Slot, NEW e \in Slot, NEW i \in Slot,
           ~InArc(h, e, i), i # e
    PROVE  InArc(h, i, e)
  BY SlotFacts DEF InArc

\* MustMove is the test that the gap lies on the way from home to the element.
LEMMA MustMoveIsArc ==
    ASSUME NEW l \in Slot, NEW e \in Slot, NEW h \in Slot, l # e
    PROVE  MustMove(l, e, h) <=> InArc(h, e, l)
  BY SlotFacts DEF InArc, MustMove

-----------------------------------------------------------------------------
(* Types. *)

CacheType == [elem_loc : Slot \cup {-1}, hash_val : Nat \cup {-1}, datum : Datum]

\* The arguments of a call have their types.
LEMMA CallFacts ==
    \A c \in Calls :
        /\ c.key \in Key
        /\ Hash[c.key] \in Nat
        /\ HomeOf(Hash[c.key]) \in Slot
        /\ c.kind \in {"insert", "replace"} => c.data \in Value
  <1>1. \A c \in Calls : c.key \in Key /\ (c.kind \in {"insert", "replace"} => c.data \in Value)
    BY DEF Calls
  <1> QED BY <1>1, HashAssumption, HomeIsSlot

\* The values that stand for "no call" and "nothing cached" are well typed.
LEMMA DefaultFacts ==
    /\ NoCall \in Calls
    /\ NoData \in CacheType
    /\ NoData.elem_loc = -1
  <1>1. PICK d \in Datum : TRUE
    BY AdrAssumption
  <1>2. [kind |-> "fetch", key |-> d.key] \in Calls
    BY <1>1 DEF Calls, Datum
  <1>3. NoCall \in Calls
    BY <1>2 DEF NoCall
  <1>4. (CHOOSE x \in Datum : TRUE) \in Datum
    BY <1>1
  <1> QED BY <1>3, <1>4 DEF NoData, CacheType

\* An empty bucket has the types of TypeOK.
LEMMA TypeInit == Init => TypeOK
  <1> SUFFICES ASSUME Init PROVE TypeOK
    OBVIOUS
  <1>1. h_table \in [Slot -> Elem \cup {NoElem}] /\ count \in Int /\ inuse \subseteq Adr
    BY DEF Init
  <1>2. file \in [Adr -> Datum]
    BY AdrAssumption DEF Init
  <1>3. ca_data \in CacheType /\ op \in Calls
    BY DefaultFacts DEF Init
  <1>4. elem_loc \in Slot /\ last_loc \in Slot
    BY SlotFacts DEF Init
  <1> QED BY <1>1, <1>2, <1>3, <1>4 DEF TypeOK, CacheType, Init

\* Every step keeps the types.
LEMMA TypeStep == IInv /\ [Next]_vars => TypeOK'
  <1> SUFFICES ASSUME IInv, [Next]_vars PROVE TypeOK'
    OBVIOUS
  <1>t. /\ h_table \in [Slot -> Elem \cup {NoElem}] /\ count \in Int
        /\ file \in [Adr -> Datum] /\ inuse \subseteq Adr
        /\ ca_data \in CacheType /\ op \in Calls
        /\ elem_loc \in Slot /\ last_loc \in Slot
    BY DEF IInv, TypeOK, CacheType
  <1>c. op.key \in Key /\ HomeOf(Hash[op.key]) \in Slot /\ NextLoc(elem_loc) \in Slot
    BY <1>t, CallFacts, NextIsSlot
  <1>r. ASSUME NEW r, Return(r)
        PROVE  /\ pc' = "idle" /\ op' \in Calls /\ elem_loc' \in Slot /\ last_loc' \in Slot
    BY <1>r, DefaultFacts, SlotFacts DEF Return
  <1>w. WriteBucket => ca_data' \in CacheType
    BY DefaultFacts DEF WriteBucket
  <1>e. \A i \in Slot : Occupied(i) => h_table[i] \in Elem /\ h_table[i].data_pointer \in Adr
    BY <1>t DEF Occupied, Elem
  <1>1. ASSUME NEW c \in Calls, Call(c) PROVE TypeOK'
    <2>1. c.key \in Key /\ HomeOf(Hash[c.key]) \in Slot
      BY CallFacts
    <2>2. CacheHit(c.key) => ca_data.elem_loc \in Slot
      BY <1>t DEF CacheHit, CacheType
    <2> QED BY <1>1, <1>t, <2>1, <2>2 DEF Call, TypeOK, CacheType
  <1>2. CASE ProbeEmpty
    BY <1>2, <1>t DEF ProbeEmpty, TypeOK, CacheType
  <1>3. CASE ProbeOther
    BY <1>3, <1>t, <1>c DEF ProbeOther, Advance, TypeOK, CacheType
  <1>4. CASE ProbeRead
    <2>1. h_table[elem_loc] \in Elem /\ DatumAt(elem_loc) \in Datum
      BY <1>4, <1>t, <1>e DEF ProbeRead, Candidate, DatumAt
    <2>2. ca_data' \in CacheType
      BY <1>4, <2>1, <1>t DEF ProbeRead, ReadEntry, CacheType, Elem
    <2> QED BY <1>4, <2>2, <1>t, <1>c DEF ProbeRead, Advance, TypeOK, CacheType
  <1>5. CASE Fetch
    BY <1>5, <1>t, <1>r DEF Fetch, TypeOK, CacheType
  <1>6. CASE StoreRefused
    BY <1>6, <1>t, <1>r DEF StoreRefused, TypeOK, CacheType
  <1>7. CASE StoreReplace
    <2>1. op.data \in Value
      BY <1>7, <1>t, CallFacts DEF StoreReplace
    <2>2. PICK a \in ReplacementArea(h_table[elem_loc].data_pointer, op.data) :
             /\ inuse' = (inuse \ {h_table[elem_loc].data_pointer}) \cup {a}
             /\ h_table' = [h_table EXCEPT ![elem_loc].data_pointer = a]
             /\ file' = [file EXCEPT ![a] = [key |-> op.key, data |-> op.data]]
      BY <1>7 DEF StoreReplace
    <2>3. h_table[elem_loc] \in Elem /\ a \in Adr
      BY <1>7, <1>e, <1>t DEF StoreReplace, ReplacementArea, IInv, SearchRight
    <2>4. [h_table[elem_loc] EXCEPT !.data_pointer = a] \in Elem
      BY <2>3 DEF Elem
    <2>5. h_table' \in [Slot -> Elem \cup {NoElem}]
      BY <2>2, <2>4, <1>t
    <2>6. file' \in [Adr -> Datum] /\ inuse' \subseteq Adr
      BY <2>1, <2>2, <2>3, <1>t, <1>c DEF Datum
    <2> QED BY <1>7, <1>t, <1>r, <1>w, <2>5, <2>6 DEF StoreReplace, TypeOK, CacheType
  <1>8. CASE StoreSplit
    BY <1>8, <1>t, <1>r DEF StoreSplit, TypeOK, CacheType
  <1>9. CASE StoreNew
    BY <1>9, <1>t, <1>c DEF StoreNew, TypeOK, CacheType
  <1>10. CASE PlaceNext
    BY <1>10, <1>t, <1>c DEF PlaceNext, TypeOK, CacheType
  <1>11. CASE PlaceHere
    <2>1. PICK a \in Adr \ inuse :
             /\ inuse' = inuse \cup {a}
             /\ file' = [file EXCEPT ![a] = [key |-> op.key, data |-> op.data]]
             /\ h_table' = [h_table EXCEPT ![elem_loc] =
                              [hash_value |-> Hash[op.key],
                               key_start |-> Stub[op.key],
                               data_pointer |-> a]]
      BY <1>11 DEF PlaceHere
    <2>2. op.data \in Value
      BY <1>11, <1>t, CallFacts DEF PlaceHere, IInv, ProbeRight
    <2>3. h_table' \in [Slot -> Elem \cup {NoElem}]
      BY <2>1, <1>t, <1>c, HashAssumption, StubAssumption DEF Elem
    <2>4. file' \in [Adr -> Datum] /\ inuse' \subseteq Adr /\ count' \in Int
      BY <1>11, <2>1, <2>2, <1>t, <1>c DEF Datum, PlaceHere
    <2> QED BY <1>11, <1>t, <1>r, <1>w, <2>3, <2>4 DEF PlaceHere, TypeOK, CacheType
  <1>12. CASE DeleteMissing
    BY <1>12, <1>t, <1>r DEF DeleteMissing, TypeOK, CacheType
  <1>13. CASE DeleteElem
    <2>1. h_table' \in [Slot -> Elem \cup {NoElem}] /\ inuse' \subseteq Adr
      BY <1>13, <1>t DEF DeleteElem
    <2>2. last_loc' \in Slot /\ elem_loc' \in Slot
      BY <1>13, <1>t, <1>c DEF DeleteElem
    <2>3. pc' = "close gap" /\ file' = file /\ ca_data' = ca_data /\ op' = op
      BY <1>13 DEF DeleteElem
    <2>4. count' \in Int
      <3>1. count' = count - 1
        BY <1>13 DEF DeleteElem
      <3> QED BY <3>1, <1>t
    <2> QED BY <1>t, <2>1, <2>2, <2>3, <2>4 DEF TypeOK, CacheType
  <1>14. CASE CloseGap
    BY <1>14, <1>t, <1>c DEF CloseGap, TypeOK, CacheType
  <1>15. CASE DeleteDone
    BY <1>15, <1>t, <1>r, <1>w DEF DeleteDone, TypeOK, CacheType
  <1>16. CASE UNCHANGED vars
    BY <1>16, <1>t DEF vars, TypeOK, CacheType, IInv
  <1> QED
    BY <1>1, <1>2, <1>3, <1>4, <1>5, <1>6, <1>7, <1>8, <1>9, <1>10, <1>11, <1>12,
       <1>13, <1>14, <1>15, <1>16 DEF Next, Step

-----------------------------------------------------------------------------
(* What the four steps that change the table do to it. *)

\* An element is a record: its fields and its area are well typed.
LEMMA ElemFacts ==
    ASSUME TypeOK, NEW i \in Slot, Occupied(i)
    PROVE  /\ h_table[i] \in Elem
           /\ h_table[i].hash_value \in Nat
           /\ h_table[i].data_pointer \in Adr
           /\ HomeOf(h_table[i].hash_value) \in Slot
           /\ DatumAt(i) \in Datum
           /\ DatumAt(i).key \in Key
  <1>1. h_table[i] \in Elem
    BY DEF TypeOK, Occupied
  <1>2. h_table[i].hash_value \in Nat /\ h_table[i].data_pointer \in Adr
    BY <1>1 DEF Elem
  <1>3. DatumAt(i) \in Datum
    BY <1>2 DEF TypeOK, DatumAt
  <1> QED BY <1>1, <1>2, <1>3, HomeIsSlot DEF Datum

\* A replacement changes the area and the content of one element, not its key.
LEMMA ReplaceFacts ==
    ASSUME IInv, StoreReplace, NEW e \in Slot, e = elem_loc
    PROVE  \E a \in Adr :
             /\ Occupied(e)
             /\ a = h_table[e].data_pointer \/ a \notin inuse
             /\ inuse' = (inuse \ {h_table[e].data_pointer}) \cup {a}
             /\ h_table'[e].data_pointer = a
             /\ DatumAt(e).key = op.key /\ DatumAt(e)'.key = op.key
             /\ h_table'[e].hash_value = h_table[e].hash_value
             /\ h_table'[e].key_start = h_table[e].key_start
             /\ \A i \in Slot : Occupied(i)' <=> Occupied(i)
             /\ \A i \in Slot : i # e => h_table'[i] = h_table[i]
             /\ \A i \in Slot : i # e /\ Occupied(i) => DatumAt(i)' = DatumAt(i)
  <1>1. Occupied(e) /\ DatumAt(e).key = op.key
    BY DEF IInv, SearchRight, StoreReplace
  <1>2. h_table[e] \in Elem /\ h_table[e].data_pointer \in Adr
    BY <1>1, ElemFacts DEF IInv
  <1>3. PICK a \in ReplacementArea(h_table[e].data_pointer, op.data) :
           /\ inuse' = (inuse \ {h_table[e].data_pointer}) \cup {a}
           /\ h_table' = [h_table EXCEPT ![e].data_pointer = a]
           /\ file' = [file EXCEPT ![a] = [key |-> op.key, data |-> op.data]]
    BY DEF StoreReplace
  <1>4. a \in Adr /\ (a = h_table[e].data_pointer \/ a \notin inuse)
    BY <1>2, <1>3 DEF ReplacementArea
  <1>5. h_table \in [Slot -> Elem \cup {NoElem}] /\ file \in [Adr -> Datum]
    BY DEF IInv, TypeOK
  <1>6. h_table'[e] = [h_table[e] EXCEPT !.data_pointer = a]
    BY <1>3, <1>5
  <1>7. /\ h_table'[e].data_pointer = a
        /\ h_table'[e].hash_value = h_table[e].hash_value
        /\ h_table'[e].key_start = h_table[e].key_start
        /\ h_table'[e] \in Elem
    BY <1>2, <1>4, <1>6 DEF Elem
  <1>8. \A i \in Slot : i # e => h_table'[i] = h_table[i]
    BY <1>3, <1>5
  <1>9. \A i \in Slot : Occupied(i)' <=> Occupied(i)
    BY <1>1, <1>7, <1>8, NoElemAssumption DEF Occupied
  <1>10. file'[a] = [key |-> op.key, data |-> op.data]
    BY <1>3, <1>4, <1>5
  <1>11. DatumAt(e)'.key = op.key
    BY <1>7, <1>10 DEF DatumAt
  <1>12. \A i \in Slot : i # e /\ Occupied(i) => h_table[i].data_pointer # a
    BY <1>1, <1>4 DEF IInv, OneAreaPerKey
  <1>13. \A i \in Slot : i # e /\ Occupied(i) => DatumAt(i)' = DatumAt(i)
    <2> SUFFICES ASSUME NEW i \in Slot, i # e, Occupied(i) PROVE file'[h_table'[i].data_pointer] = file[h_table[i].data_pointer]
      BY DEF DatumAt
    <2>1. h_table[i].data_pointer # a /\ h_table[i].data_pointer \in Adr
      BY <1>12, ElemFacts DEF IInv
    <2> QED BY <2>1, <1>3, <1>5, <1>8
  <1> QED BY <1>1, <1>3, <1>4, <1>7, <1>8, <1>9, <1>11, <1>13

\* A new element takes a free slot and a fresh area.
LEMMA PlaceFacts ==
    ASSUME IInv, PlaceHere, NEW e \in Slot, e = elem_loc
    PROVE  \E a \in Adr \ inuse :
             /\ ~Occupied(e) /\ Occupied(e)'
             /\ inuse' = inuse \cup {a}
             /\ h_table'[e].data_pointer = a
             /\ h_table'[e].hash_value = Hash[op.key]
             /\ h_table'[e].key_start = Stub[op.key]
             /\ DatumAt(e)'.key = op.key
             /\ \A i \in Slot : i # e => h_table'[i] = h_table[i]
             /\ \A i \in Slot : i # e => (Occupied(i)' <=> Occupied(i))
             /\ \A i \in Slot : i # e /\ Occupied(i) => DatumAt(i)' = DatumAt(i)
  <1>1. PICK a \in Adr \ inuse :
             /\ inuse' = inuse \cup {a}
             /\ file' = [file EXCEPT ![a] = [key |-> op.key, data |-> op.data]]
             /\ h_table' = [h_table EXCEPT ![e] =
                              [hash_value |-> Hash[op.key],
                               key_start |-> Stub[op.key],
                               data_pointer |-> a]]
    BY DEF PlaceHere
  <1>2. h_table \in [Slot -> Elem \cup {NoElem}] /\ file \in [Adr -> Datum] /\ op.key \in Key
    BY CallFacts DEF IInv, TypeOK
  <1>3. h_table'[e] = [hash_value |-> Hash[op.key], key_start |-> Stub[op.key], data_pointer |-> a]
    BY <1>1, <1>2
  <1>4. h_table'[e] \in Elem
    BY <1>1, <1>2, <1>3, HashAssumption, StubAssumption DEF Elem
  <1>5. ~Occupied(e) /\ Occupied(e)'
    BY <1>4, NoElemAssumption DEF PlaceHere, Occupied
  <1>6. \A i \in Slot : i # e => h_table'[i] = h_table[i]
    BY <1>1, <1>2
  <1>7. file'[a] = [key |-> op.key, data |-> op.data]
    BY <1>1, <1>2
  <1>8. DatumAt(e)'.key = op.key
    BY <1>3, <1>7 DEF DatumAt
  <1>9. \A i \in Slot : i # e /\ Occupied(i) => DatumAt(i)' = DatumAt(i)
    <2> SUFFICES ASSUME NEW i \in Slot, i # e, Occupied(i) PROVE file'[h_table'[i].data_pointer] = file[h_table[i].data_pointer]
      BY DEF DatumAt
    <2>1. h_table[i].data_pointer \in inuse /\ h_table[i].data_pointer \in Adr
      BY ElemFacts DEF IInv, OneAreaPerKey
    <2> QED BY <2>1, <1>1, <1>2, <1>6
  <1> QED BY <1>1, <1>3, <1>5, <1>6, <1>8, <1>9 DEF Occupied

\* gdbm_delete empties one slot.
LEMMA DeleteFacts ==
    ASSUME IInv, DeleteElem, NEW e \in Slot, e = elem_loc
    PROVE  /\ Occupied(e) /\ ~Occupied(e)'
           /\ inuse' = inuse \ {h_table[e].data_pointer}
           /\ \A i \in Slot : i # e => h_table'[i] = h_table[i]
           /\ \A i \in Slot : i # e => (Occupied(i)' <=> Occupied(i))
           /\ \A i \in Slot : i # e => DatumAt(i)' = DatumAt(i)
  <1>1. Occupied(e)
    BY DEF IInv, SearchRight, DeleteElem
  <1>2. h_table \in [Slot -> Elem \cup {NoElem}]
    BY DEF IInv, TypeOK
  <1>3. h_table'[e] = NoElem /\ \A i \in Slot : i # e => h_table'[i] = h_table[i]
    BY <1>2 DEF DeleteElem
  <1> QED BY <1>1, <1>3 DEF DeleteElem, Occupied, DatumAt

\* The moving loop carries an element, area and all, from slot e to slot l.
LEMMA MoveFacts ==
    ASSUME IInv, CloseGap, NEW e \in Slot, NEW l \in Slot, e = elem_loc, l = last_loc,
           MustMove(l, e, HomeOf(h_table[e].hash_value))
    PROVE  /\ e # l /\ Occupied(e) /\ ~Occupied(l)
           /\ Occupied(l)' /\ ~Occupied(e)'
           /\ h_table'[l] = h_table[e]
           /\ DatumAt(l)' = DatumAt(e)
           /\ \A i \in Slot : i # e /\ i # l => h_table'[i] = h_table[i]
           /\ \A i \in Slot : i # e /\ i # l => (Occupied(i)' <=> Occupied(i))
           /\ \A i \in Slot : i # e /\ i # l => DatumAt(i)' = DatumAt(i)
  <1>1. e # l /\ Occupied(e) /\ ~Occupied(l)
    BY DEF IInv, GapRight, CloseGap
  <1>2. h_table \in [Slot -> Elem \cup {NoElem}]
    BY DEF IInv, TypeOK
  <1>3. h_table' = [h_table EXCEPT ![l] = h_table[e], ![e] = NoElem]
    BY DEF CloseGap
  <1>4. h_table'[l] = h_table[e] /\ h_table'[e] = NoElem
    BY <1>1, <1>2, <1>3
  <1>5. \A i \in Slot : i # e /\ i # l => h_table'[i] = h_table[i]
    BY <1>2, <1>3
  <1> QED BY <1>1, <1>4, <1>5 DEF CloseGap, Occupied, DatumAt

\* All other steps leave the table, the file and the allocator alone.
Quiet == UNCHANGED <<h_table, count, file, inuse>>

\* Every step is quiet or one of the four that change the table.
LEMMA QuietSteps ==
    ASSUME [Next]_vars
    PROVE  \/ Quiet \/ StoreReplace \/ PlaceHere \/ DeleteElem
           \/ (CloseGap /\ MustMove(last_loc, elem_loc, HomeOf(h_table[elem_loc].hash_value)))
  BY DEF Quiet, Next, Step, vars, Call, ProbeEmpty, ProbeOther, ProbeRead, Fetch,
         StoreRefused, StoreSplit, StoreNew, PlaceNext, DeleteMissing, DeleteDone, CloseGap

-----------------------------------------------------------------------------
(* The conjuncts of the invariant, one group at a time. *)

\* A slot keeps the hash value and the stub of its key.
LEMMA ElemsStep == IInv /\ [Next]_vars => ElemsRight'
  <1> SUFFICES ASSUME IInv, [Next]_vars, NEW i \in Slot, Occupied(i)'
               PROVE  /\ h_table'[i].hash_value = Hash[DatumAt(i)'.key]
                      /\ h_table'[i].key_start = Stub[DatumAt(i)'.key]
    BY DEF ElemsRight, DatumAt
  <1>0. \A x \in Slot : Occupied(x) => /\ h_table[x].hash_value = Hash[DatumAt(x).key]
                                         /\ h_table[x].key_start = Stub[DatumAt(x).key]
    BY DEF IInv, ElemsRight
  <1>t. elem_loc \in Slot /\ last_loc \in Slot
    BY DEF IInv, TypeOK
  <1>1. CASE Quiet
    BY <1>1, <1>0 DEF Quiet, Occupied, DatumAt
  <1>2. CASE StoreReplace
    BY <1>2, <1>0, <1>t, ReplaceFacts
  <1>3. CASE PlaceHere
    BY <1>3, <1>0, <1>t, PlaceFacts
  <1>4. CASE DeleteElem
    BY <1>4, <1>0, <1>t, DeleteFacts
  <1>5. CASE CloseGap /\ MustMove(last_loc, elem_loc, HomeOf(h_table[elem_loc].hash_value))
    BY <1>5, <1>0, <1>t, MoveFacts
  <1> QED BY <1>1, <1>2, <1>3, <1>4, <1>5, QuietSteps

\* No key twice, no area shared.
LEMMA DistinctStep ==
    ASSUME IInv, [Next]_vars, NEW i \in Slot, NEW j \in Slot, i # j,
           Occupied(i)', Occupied(j)'
    PROVE  /\ DatumAt(i)'.key # DatumAt(j)'.key
           /\ h_table'[i].data_pointer # h_table'[j].data_pointer
  <1>0. \A x, y \in Slot : Occupied(x) /\ Occupied(y) /\ x # y =>
          /\ DatumAt(x).key # DatumAt(y).key
          /\ h_table[x].data_pointer # h_table[y].data_pointer
    BY DEF IInv, OneAreaPerKey
  <1>u. \A x \in Slot : Occupied(x) => h_table[x].data_pointer \in inuse
    BY DEF IInv, OneAreaPerKey
  <1>t. elem_loc \in Slot /\ last_loc \in Slot
    BY DEF IInv, TypeOK
  <1>1. CASE Quiet
    BY <1>1, <1>0 DEF Quiet, Occupied, DatumAt
  <1>2. CASE StoreReplace
    BY <1>2, <1>0, <1>u, <1>t, ReplaceFacts
  <1>3. CASE PlaceHere
    <2>1. \A x \in Slot : Occupied(x) => DatumAt(x).key # op.key
      BY <1>3 DEF IInv, SearchRight, PlaceHere
    <2> QED BY <1>3, <2>1, <1>0, <1>u, <1>t, PlaceFacts
  <1>4. CASE DeleteElem
    BY <1>4, <1>0, <1>t, DeleteFacts
  <1>5. CASE CloseGap /\ MustMove(last_loc, elem_loc, HomeOf(h_table[elem_loc].hash_value))
    BY <1>5, <1>0, <1>t, MoveFacts
  <1> QED BY <1>1, <1>2, <1>3, <1>4, <1>5, QuietSteps

\* The areas in use are those of the elements.
LEMMA AreasStep == IInv /\ [Next]_vars => OneAreaPerKey'
  <1> SUFFICES ASSUME IInv, [Next]_vars PROVE OneAreaPerKey'
    OBVIOUS
  <1> DEFINE U == {h_table[i].data_pointer : i \in {j \in Slot : Occupied(j)}}
  <1>0. inuse = U
    BY DEF IInv, OneAreaPerKey
  <1>d. \A x, y \in Slot : Occupied(x) /\ Occupied(y) /\ x # y =>
          h_table[x].data_pointer # h_table[y].data_pointer
    BY DEF IInv, OneAreaPerKey
  <1>t. elem_loc \in Slot /\ last_loc \in Slot
    BY DEF IInv, TypeOK
  <1>u. inuse' = U'
    <2>1. CASE Quiet
      BY <2>1, <1>0 DEF Quiet, Occupied
    <2>2. CASE StoreReplace
      BY <2>2, <1>0, <1>d, <1>t, ReplaceFacts
    <2>3. CASE PlaceHere
      BY <2>3, <1>0, <1>t, PlaceFacts
    <2>4. CASE DeleteElem
      BY <2>4, <1>0, <1>d, <1>t, DeleteFacts
    <2>5. CASE CloseGap /\ MustMove(last_loc, elem_loc, HomeOf(h_table[elem_loc].hash_value))
      <3>1. inuse' = inuse
        BY <2>5 DEF CloseGap
      <3> QED BY <2>5, <3>1, <1>0, <1>t, MoveFacts
    <2> QED BY <2>1, <2>2, <2>3, <2>4, <2>5, QuietSteps
  <1> QED BY <1>u, DistinctStep DEF OneAreaPerKey

\* count follows the number of elements, and a bucket that is not full has a
\* free slot for the loop of gdbm_store to find.
LEMMA CountStep == IInv /\ [Next]_vars => CountRight'
  <1> SUFFICES ASSUME IInv, [Next]_vars PROVE CountRight'
    OBVIOUS
  <1> DEFINE Occ == {i \in Slot : Occupied(i)}
  <1>t. elem_loc \in Slot /\ last_loc \in Slot /\ pc # "bad hash table"
    BY DEF IInv, TypeOK, CountRight
  <1>0. count = Cardinality(Occ)
    BY DEF IInv, CountRight
  <1>f. IsFiniteSet(Slot) /\ Cardinality(Slot) = BucketElems
    BY FS_Interval, BucketElemsAssumption DEF Slot
  <1>o. IsFiniteSet(Occ) /\ IsFiniteSet(Occ') /\ Cardinality(Occ) \in Nat
    BY <1>f, FS_Subset, FS_CardinalityType
  <1>1. count' = Cardinality(Occ')
    <2>1. CASE Quiet
      BY <2>1, <1>0 DEF Quiet, Occupied
    <2>2. CASE StoreReplace
      <3>1. Occ' = Occ
        BY <2>2, <1>t, ReplaceFacts
      <3> QED BY <2>2, <3>1, <1>0 DEF StoreReplace
    <2>3. CASE PlaceHere
      <3>1. PICK e \in Slot : e = elem_loc
        BY <1>t
      <3>2. Occ' = Occ \cup {e} /\ e \notin Occ
        BY <2>3, <3>1, PlaceFacts
      <3>3. Cardinality(Occ') = Cardinality(Occ) + 1
        BY <3>2, <1>o, FS_AddElement
      <3> QED BY <2>3, <3>3, <1>0 DEF PlaceHere
    <2>4. CASE DeleteElem
      <3>1. PICK e \in Slot : e = elem_loc
        BY <1>t
      <3>2. Occ' = Occ \ {e} /\ e \in Occ
        BY <2>4, <3>1, DeleteFacts
      <3>3. Cardinality(Occ') = Cardinality(Occ) - 1
        BY <3>2, <1>o, FS_RemoveElement
      <3> QED BY <2>4, <3>3, <1>0 DEF DeleteElem
    <2>5. CASE CloseGap /\ MustMove(last_loc, elem_loc, HomeOf(h_table[elem_loc].hash_value))
      <3>1. PICK e \in Slot, l \in Slot : e = elem_loc /\ l = last_loc
        BY <1>t
      <3>2. /\ e # l /\ e \in Occ /\ l \notin Occ
            /\ Occ' = (Occ \ {e}) \cup {l}
        BY <2>5, <3>1, MoveFacts
      <3>3. IsFiniteSet(Occ \ {e}) /\ Cardinality(Occ \ {e}) = Cardinality(Occ) - 1
        BY <3>2, <1>o, FS_RemoveElement
      <3>4. Cardinality((Occ \ {e}) \cup {l}) = Cardinality(Occ \ {e}) + 1
        BY <3>2, <3>3, FS_AddElement
      <3>5. Cardinality((Occ \ {e}) \cup {l}) = Cardinality(Occ)
        BY <3>3, <3>4, <1>o
      <3>6. Cardinality(Occ') = Cardinality(Occ)
        BY <3>2, <3>5, Zenon
      <3> QED BY <2>5, <3>6, <1>0 DEF CloseGap
    <2> QED BY <2>1, <2>2, <2>3, <2>4, <2>5, QuietSteps
  <1>2. pc' # "bad hash table"
    <2>1. CASE PlaceNext
      <3>1. SUFFICES ASSUME NextLoc(elem_loc) = HomeOf(Hash[op.key]) PROVE FALSE
        BY <2>1 DEF PlaceNext
      <3>2. HomeOf(Hash[op.key]) \in Slot
        BY CallFacts DEF IInv, TypeOK
      <3>3. \A x \in Slot : InArc(HomeOf(Hash[op.key]), elem_loc, x) => Occupied(x)
        BY <2>1 DEF PlaceNext, IInv, ProbeRight
      <3>4. \A x \in Slot : Occupied(x)
        BY <2>1, <3>1, <3>2, <3>3, <1>t, ArcFull DEF PlaceNext
      <3>5. Occ = Slot
        BY <3>4
      <3>6. count # BucketElems
        BY <2>1 DEF PlaceNext, IInv, ProbeRight
      <3> QED BY <3>5, <3>6, <1>0, <1>f
    <2>2. CASE ~PlaceNext
      BY <2>2, <1>t DEF Next, Step, vars, Call, ProbeEmpty, ProbeOther, ProbeRead, Fetch, Return,
         Advance, StoreRefused, StoreReplace, StoreSplit, StoreNew, PlaceHere, DeleteMissing,
         DeleteElem, CloseGap, DeleteDone
    <2> QED BY <2>1, <2>2
  <1> QED BY <1>1, <1>2 DEF CountRight

\* The hole the loop of gdbm_delete leaves behind never cuts a probe chain.
LEMMA ChainsStep == IInv /\ [Next]_vars => ChainsClosed' /\ GapRight'
  <1> SUFFICES ASSUME IInv, [Next]_vars PROVE ChainsClosed' /\ GapRight'
    OBVIOUS
  <1>t. elem_loc \in Slot /\ last_loc \in Slot /\ TypeOK
    BY DEF IInv, TypeOK
  <1>h. \A i \in Slot : Occupied(i) => HomeOf(h_table[i].hash_value) \in Slot
    BY <1>t, ElemFacts
  <1>1. CASE pc # "close gap" /\ pc' # "close gap"
    <2>c. \A i \in Slot : Occupied(i) =>
            \A x \in Slot : InArc(HomeOf(h_table[i].hash_value), i, x) => Occupied(x)
      BY <1>1 DEF IInv, ChainsClosed
    <2>g. ChainsClosed'
      <3> SUFFICES ASSUME NEW i \in Slot, Occupied(i)', NEW x \in Slot,
                          InArc(HomeOf(h_table'[i].hash_value), i, x)
                   PROVE  Occupied(x)'
        BY DEF ChainsClosed
      <3>1. CASE Quiet
        BY <3>1, <2>c DEF Quiet, Occupied
      <3>2. CASE StoreReplace
        BY <3>2, <2>c, <1>t, ReplaceFacts
      <3>3. CASE PlaceHere
        <4>1. PICK e \in Slot : e = elem_loc
          BY <1>t
        <4>2. CASE i # e
          <5>1. h_table'[i] = h_table[i] /\ Occupied(i)
          BY <3>3, <4>1, <4>2, PlaceFacts
        <5>2. Occupied(x)
          BY <5>1, <2>c
        <5> QED BY <5>2, <3>3, <4>1, PlaceFacts
        <4>3. CASE i = e
          <5>1. h_table'[i].hash_value = Hash[op.key]
            BY <3>3, <4>1, <4>3, PlaceFacts
          <5>2. Occupied(x)
            BY <3>3, <4>1, <4>3, <5>1 DEF IInv, ProbeRight, PlaceHere
          <5> QED BY <5>2, <3>3, <4>1, PlaceFacts
        <4> QED BY <4>2, <4>3
      <3>4. CASE DeleteElem \/ CloseGap
        BY <3>4, <1>1 DEF DeleteElem, CloseGap
      <3> QED BY <3>1, <3>2, <3>3, <3>4, QuietSteps
    <2> QED BY <2>g, <1>1 DEF GapRight
  <1>2. CASE pc # "close gap" /\ pc' = "close gap"
    <2>1. DeleteElem
      BY <1>2 DEF Next, Step, vars, Call, ProbeEmpty, ProbeOther, ProbeRead, Fetch, Return,
         Advance, StoreRefused, StoreReplace, StoreSplit, StoreNew, PlaceNext, PlaceHere,
         DeleteMissing, CloseGap, DeleteDone
    <2>2. PICK e \in Slot : e = elem_loc
      BY <1>t
    <2>3. last_loc' = e /\ elem_loc' = NextLoc(e)
      BY <2>1, <2>2 DEF DeleteElem
    <2>4. \A x \in Slot : ~InArc(NextLoc(e), NextLoc(e), x)
      BY SlotFacts, NextIsSlot DEF InArc
    <2>c. \A i \in Slot : Occupied(i) =>
            \A x \in Slot : InArc(HomeOf(h_table[i].hash_value), i, x) => Occupied(x)
      BY <1>2 DEF IInv, ChainsClosed
    <2>5. ~Occupied(e)' /\ \A i \in Slot : i # e => h_table'[i] = h_table[i] /\ (Occupied(i)' <=> Occupied(i))
      BY <2>1, <2>2, DeleteFacts
    <2> QED BY <1>2, <2>3, <2>4, <2>5, <2>c DEF ChainsClosed, GapRight
  <1>3. CASE pc = "close gap" /\ pc' = "close gap"
    <2>g. /\ ~Occupied(last_loc)
          /\ \A x \in Slot : InArc(NextLoc(last_loc), elem_loc, x) => Occupied(x)
          /\ \A i \in Slot : Occupied(i) =>
               /\ \A x \in Slot : InArc(HomeOf(h_table[i].hash_value), i, x)
                                   => Occupied(x) \/ x = last_loc
               /\ InArc(HomeOf(h_table[i].hash_value), i, last_loc)
                     => ~InArc(NextLoc(last_loc), elem_loc, i)
      BY <1>3 DEF IInv, GapRight
    <2>1. PICK e \in Slot, l \in Slot : e = elem_loc /\ l = last_loc
      BY <1>t
    <2> DEFINE home == HomeOf(h_table[e].hash_value)
    <2>2. CASE UNCHANGED vars
      <3>1. h_table' = h_table /\ last_loc' = last_loc /\ elem_loc' = elem_loc
        BY <2>2 DEF vars
      <3> QED BY <3>1, <1>3, <2>g DEF ChainsClosed, GapRight, Occupied
    <2>3. CASE CloseGap /\ ~MustMove(l, e, home)
      <3>1. h_table' = h_table /\ last_loc' = l /\ elem_loc' = NextLoc(e) /\ Occupied(e) /\ e # l
        BY <2>1, <2>3 DEF CloseGap
      <3>2. ~InArc(home, e, l)
        BY <2>3, <3>1, <1>h, MustMoveIsArc
      <3>3. \A x \in Slot : InArc(NextLoc(l), NextLoc(e), x) => InArc(NextLoc(l), e, x) \/ x = e
        BY ArcStep, NextIsSlot
      <3> QED BY <1>3, <2>g, <2>1, <3>1, <3>2, <3>3 DEF ChainsClosed, GapRight, Occupied
    <2>4. CASE CloseGap /\ MustMove(l, e, home)
      <3>1. last_loc' = e /\ elem_loc' = NextLoc(e) /\ Occupied(e) /\ e # l
        BY <2>1, <2>4 DEF CloseGap
      <3>2. InArc(home, e, l) /\ home \in Slot
        BY <2>4, <3>1, <1>h, MustMoveIsArc
      <3>3. \A x \in Slot : ~InArc(NextLoc(e), NextLoc(e), x)
        BY SlotFacts, NextIsSlot DEF InArc
      <3>4. \A x \in Slot : InArc(home, l, x) => InArc(home, e, x) /\ x # l /\ x # e
        BY <3>2, SlotFacts DEF InArc
      <3>5. /\ Occupied(l)' /\ ~Occupied(e)' /\ h_table'[l] = h_table[e]
            /\ \A i \in Slot : i # e /\ i # l => h_table'[i] = h_table[i] /\ (Occupied(i)' <=> Occupied(i))
        BY <2>1, <2>4, MoveFacts
      <3>6. ASSUME NEW i \in Slot, Occupied(i)', NEW x \in Slot,
                   InArc(HomeOf(h_table'[i].hash_value), i, x)
            PROVE  Occupied(x)' \/ x = e
        <4>1. CASE i = l
          <5>1. InArc(home, l, x)
            BY <3>6, <4>1, <3>5
          <5>2. Occupied(x) /\ x # l /\ x # e
            BY <5>1, <3>4, <3>1, <2>g, <2>1
          <5> QED BY <5>2, <3>5
        <4>2. CASE i # l
          <5>1. i # e /\ Occupied(i) /\ h_table'[i] = h_table[i]
            BY <3>6, <4>2, <3>5
          <5>2. Occupied(x) \/ x = l
            BY <5>1, <3>6, <2>g, <2>1
          <5> QED BY <5>2, <3>5
        <4> QED BY <4>1, <4>2
      <3> QED BY <1>3, <3>1, <3>3, <3>5, <3>6 DEF ChainsClosed, GapRight
    <2> QED BY <1>3, <2>1, <2>2, <2>3, <2>4 DEF Next, Step, Call, ProbeEmpty, ProbeOther, ProbeRead,
         Fetch, StoreRefused, StoreReplace, StoreSplit, StoreNew, PlaceNext, PlaceHere,
         DeleteMissing, DeleteElem, DeleteDone, Return
  <1>4. CASE pc = "close gap" /\ pc' # "close gap"
    <2>1. DeleteDone
      BY <1>4 DEF Next, Step, vars, Call, ProbeEmpty, ProbeOther, ProbeRead, Fetch,
         StoreRefused, StoreReplace, StoreSplit, StoreNew, PlaceNext, PlaceHere,
         DeleteMissing, DeleteElem, CloseGap
    <2>2. h_table' = h_table /\ (elem_loc = last_loc \/ ~Occupied(elem_loc))
      BY <2>1 DEF DeleteDone
    <2>3. PICK e \in Slot, l \in Slot : e = elem_loc /\ l = last_loc
      BY <1>t
    <2>g. /\ ~Occupied(l)
          /\ \A i \in Slot : Occupied(i) =>
               /\ \A x \in Slot : InArc(HomeOf(h_table[i].hash_value), i, x)
                                   => Occupied(x) \/ x = l
               /\ InArc(HomeOf(h_table[i].hash_value), i, l) => ~InArc(NextLoc(l), e, i)
      BY <1>4, <2>3 DEF IInv, GapRight
    <2>4. ASSUME NEW i \in Slot, Occupied(i), NEW x \in Slot,
                 InArc(HomeOf(h_table[i].hash_value), i, x)
          PROVE  Occupied(x)
      <3>1. SUFFICES ASSUME x = l PROVE FALSE
        BY <2>4, <2>g
      <3> DEFINE home == HomeOf(h_table[i].hash_value)
      <3>2. home \in Slot /\ InArc(home, i, l) /\ ~InArc(NextLoc(l), e, i) /\ i # l
        BY <2>4, <3>1, <2>g, <1>h
      <3>3. e # l /\ ~Occupied(e) /\ i # e
        <4>1. e # l
          BY <3>2, SlotFacts DEF InArc, NextLoc
        <4> QED BY <4>1, <2>2, <2>3, <2>4
      <3>4. InArc(home, i, e)
        BY <3>2, <3>3, SlotFacts DEF InArc, NextLoc
      <3> QED BY <3>3, <3>4, <2>4, <2>g
    <2> QED BY <1>4, <2>2, <2>4 DEF ChainsClosed, GapRight, Occupied
  <1> QED BY <1>1, <1>2, <1>3, <1>4

\* What the two search loops have passed stays passed.
LEMMA ProbeStep == IInv /\ [Next]_vars => ProbeRight' /\ SearchRight'
  <1> SUFFICES ASSUME IInv, [Next]_vars PROVE ProbeRight' /\ SearchRight'
    OBVIOUS
  <1>t. /\ elem_loc \in Slot /\ op \in Calls /\ op.key \in Key
        /\ HomeOf(Hash[op.key]) \in Slot /\ NextLoc(elem_loc) \in Slot
        /\ ca_data.elem_loc \in Slot \cup {-1}
    BY CallFacts, NextIsSlot DEF IInv, TypeOK
  <1>a. \A h \in Slot : \A x \in Slot : ~InArc(h, h, x)
    BY SlotFacts DEF InArc
  <1> DEFINE home == HomeOf(Hash[op.key])
  <1>1. ASSUME NEW c \in Calls, Call(c) PROVE ProbeRight' /\ SearchRight'
    <2>1. op' = c /\ h_table' = h_table /\ file' = file /\ ca_data' = ca_data
      BY <1>1 DEF Call
    <2>2. CASE CacheHit(c.key)
      <3>1. pc' = "found" /\ elem_loc' = ca_data.elem_loc
        BY <1>1, <2>2 DEF Call
      <3>2. /\ Occupied(ca_data.elem_loc) /\ ca_data.datum = DatumAt(ca_data.elem_loc)
            /\ ca_data.datum.key = c.key
        BY <1>1, <2>2 DEF IInv, CacheCoherent, CacheHit, Call
      <3> QED BY <2>1, <3>1, <3>2 DEF ProbeRight, SearchRight, Occupied, DatumAt
    <2>3. CASE ~CacheHit(c.key)
      <3>1. pc' = "probe" /\ elem_loc' = HomeOf(Hash[c.key]) /\ HomeOf(Hash[c.key]) \in Slot
        BY <1>1, <2>3, CallFacts DEF Call
      <3> QED BY <2>1, <3>1, <1>a DEF ProbeRight, SearchRight
    <2> QED BY <2>2, <2>3
  <1>p. ASSUME pc = "probe"
        PROVE  /\ \A x \in Slot : InArc(home, elem_loc, x) => Occupied(x) /\ DatumAt(x).key # op.key
               /\ \A i \in Slot : Occupied(i) /\ DatumAt(i).key = op.key =>
                     /\ h_table[i].hash_value = Hash[op.key]
                     /\ h_table[i].key_start = Stub[op.key]
                     /\ \A x \in Slot : InArc(home, i, x) => Occupied(x)
    BY <1>p DEF IInv, ProbeRight, ElemsRight, ChainsClosed
  <1>2. CASE ProbeEmpty
    <2>1. pc = "probe" /\ ~Occupied(elem_loc) /\ pc' = "missed"
      BY <1>2 DEF ProbeEmpty
    <2>2. \A i \in Slot : Occupied(i) => DatumAt(i).key # op.key
      BY <2>1, <1>p, <1>t, ArcBeyond
    <2> QED BY <1>2, <2>1, <2>2 DEF ProbeEmpty, ProbeRight, SearchRight, Occupied, DatumAt
  <1>q. ASSUME pc = "probe", Occupied(elem_loc), DatumAt(elem_loc).key # op.key, Advance,
               UNCHANGED <<h_table, file, op>>
        PROVE  ProbeRight' /\ SearchRight'
    <2>1. CASE NextLoc(elem_loc) = home
      <3>1. pc' = "missed"
        BY <1>q, <2>1 DEF Advance
      <3>2. \A i \in Slot : DatumAt(i).key # op.key
        BY <1>q, <1>p, <1>t, <2>1, ArcFull
      <3> QED BY <1>q, <3>1, <3>2 DEF ProbeRight, SearchRight, Occupied, DatumAt
    <2>2. CASE NextLoc(elem_loc) # home
      <3>1. pc' = "probe" /\ elem_loc' = NextLoc(elem_loc)
        BY <1>q, <2>2 DEF Advance
      <3>2. \A x \in Slot : InArc(home, NextLoc(elem_loc), x) => Occupied(x) /\ DatumAt(x).key # op.key
        BY <1>q, <1>p, <1>t, ArcStep
      <3> QED BY <1>q, <3>1, <3>2 DEF ProbeRight, SearchRight, Occupied, DatumAt
    <2> QED BY <2>1, <2>2
  <1>3. CASE ProbeOther
    <2>1. pc = "probe" /\ Occupied(elem_loc) /\ Advance /\ UNCHANGED <<h_table, file, op>>
      BY <1>3 DEF ProbeOther
    <2>2. DatumAt(elem_loc).key # op.key
      BY <1>3, <2>1, <1>p, <1>t DEF ProbeOther, Candidate
    <2> QED BY <2>1, <2>2, <1>q
  <1>4. CASE ProbeRead
    <2>1. pc = "probe" /\ Occupied(elem_loc) /\ UNCHANGED <<h_table, file, op>>
      BY <1>4 DEF ProbeRead, Candidate
    <2>2. ca_data'.datum = DatumAt(elem_loc) /\ ca_data'.elem_loc = elem_loc
      BY <1>4, <2>1, <1>t, SlotFacts DEF ProbeRead, ReadEntry, IInv, CacheCoherent
    <2>3. CASE DatumAt(elem_loc).key = op.key
      <3>1. pc' = "found" /\ elem_loc' = elem_loc
        BY <1>4, <2>2, <2>3 DEF ProbeRead
      <3> QED BY <2>1, <2>2, <2>3, <3>1 DEF ProbeRight, SearchRight, Occupied, DatumAt
    <2>4. CASE DatumAt(elem_loc).key # op.key
      <3>1. Advance
        BY <1>4, <2>2, <2>4 DEF ProbeRead
      <3> QED BY <2>1, <2>4, <3>1, <1>q
    <2> QED BY <2>3, <2>4
  <1>m. pc = "missed" \/ pc = "place" => \A i \in Slot : Occupied(i) => DatumAt(i).key # op.key
    BY DEF IInv, SearchRight
  <1>5. CASE StoreNew
    <2>1. /\ pc = "missed" /\ pc' = "place" /\ elem_loc' = home
          /\ op.kind \in {"insert", "replace"} /\ count # BucketElems
          /\ UNCHANGED <<h_table, file, op, count>>
      BY <1>5 DEF StoreNew
    <2> QED BY <2>1, <1>m, <1>a, <1>t DEF ProbeRight, SearchRight, Occupied, DatumAt
  <1>6. CASE PlaceNext
    <2>1. /\ pc = "place" /\ Occupied(elem_loc) /\ elem_loc' = NextLoc(elem_loc)
          /\ pc' \in {"place", "bad hash table"}
          /\ UNCHANGED <<h_table, file, op, count>>
      BY <1>6 DEF PlaceNext
    <2>2. /\ op.kind \in {"insert", "replace"} /\ count # BucketElems
          /\ \A x \in Slot : InArc(home, elem_loc, x) => Occupied(x)
      BY <2>1 DEF IInv, ProbeRight
    <2>3. \A x \in Slot : InArc(home, NextLoc(elem_loc), x) => Occupied(x)
      BY <2>1, <2>2, <1>t, ArcStep
    <2> QED BY <2>1, <2>2, <2>3, <1>m DEF ProbeRight, SearchRight, Occupied, DatumAt
  <1>7. CASE pc' \in {"idle", "close gap"}
    BY <1>7 DEF ProbeRight, SearchRight
  <1>8. CASE UNCHANGED vars
    <2>1. UNCHANGED <<h_table, count, file, ca_data, op, pc, elem_loc>>
      BY <1>8 DEF vars
    <2>2. ProbeRight /\ SearchRight
      BY DEF IInv
    <2> QED BY <2>1, <2>2 DEF ProbeRight, SearchRight, Occupied, DatumAt
  <1> QED
    BY <1>1, <1>2, <1>3, <1>4, <1>5, <1>6, <1>7, <1>8 DEF Next, Step, Fetch, StoreRefused,
       StoreReplace, StoreSplit, PlaceHere, DeleteMissing, DeleteElem, CloseGap, DeleteDone, Return

\* What is cached for a slot is what the file holds.
LEMMA CacheStep == IInv /\ [Next]_vars => CacheCoherent'
  <1> SUFFICES ASSUME IInv, [Next]_vars, pc' # "close gap", ca_data'.elem_loc # -1
               PROVE  /\ Occupied(ca_data.elem_loc)'
                      /\ ca_data'.hash_val = h_table'[ca_data'.elem_loc].hash_value
                      /\ ca_data'.datum = DatumAt(ca_data.elem_loc)'
    BY DEF CacheCoherent
  <1>1. CASE WriteBucket
    BY <1>1, DefaultFacts DEF WriteBucket
  <1>2. CASE ProbeRead
    <2>1. Occupied(elem_loc) /\ elem_loc \in Slot /\ pc = "probe" /\ ca_data' = ReadEntry(elem_loc)
          /\ h_table' = h_table /\ file' = file
      BY <1>2 DEF ProbeRead, Candidate, IInv, TypeOK
    <2>2. CASE ca_data.elem_loc = elem_loc
      <3>1. ca_data' = ca_data
        BY <2>1, <2>2 DEF ReadEntry
      <3> QED BY <2>1, <2>2, <3>1, SlotFacts DEF IInv, CacheCoherent, Occupied, DatumAt
    <2>3. CASE ca_data.elem_loc # elem_loc
      <3>1. ca_data' = [elem_loc |-> elem_loc, hash_val |-> h_table[elem_loc].hash_value, datum |-> DatumAt(elem_loc)]
        BY <2>1, <2>3 DEF ReadEntry
      <3>2. ca_data'.elem_loc = elem_loc /\ ca_data'.hash_val = h_table[elem_loc].hash_value
            /\ ca_data'.datum = DatumAt(elem_loc)
        BY <3>1
      <3> QED BY <2>1, <3>2 DEF Occupied, DatumAt
    <2> QED BY <2>2, <2>3
  <1>3. CASE UNCHANGED <<h_table, file, ca_data>> /\ pc # "close gap"
    BY <1>3 DEF IInv, CacheCoherent, Occupied, DatumAt
  <1>4. CASE UNCHANGED vars
    BY <1>4 DEF vars, IInv, CacheCoherent, Occupied, DatumAt
  <1> QED
    BY <1>1, <1>2, <1>3, <1>4 DEF Next, Step, Call, ProbeEmpty, ProbeOther, Fetch, StoreRefused,
       StoreReplace, StoreSplit, StoreNew, PlaceNext, PlaceHere, DeleteMissing, DeleteElem,
       CloseGap, DeleteDone

-----------------------------------------------------------------------------
\* An empty bucket satisfies the inductive invariant.
LEMMA InvInit == Init => IInv
  <1> SUFFICES ASSUME Init PROVE IInv
    OBVIOUS
  <1>1. \A i \in Slot : ~Occupied(i)
    BY DEF Init, Occupied
  <1>2. {i \in Slot : Occupied(i)} = {}
    BY <1>1
  <1>3. CountRight
    BY <1>2, FS_EmptySet DEF CountRight, Init
  <1>4. OneAreaPerKey
    BY <1>1, <1>2 DEF OneAreaPerKey, Init
  <1>5. CacheCoherent
    BY DefaultFacts DEF CacheCoherent, Init
  <1>6. ElemsRight /\ ChainsClosed
    BY <1>1 DEF ElemsRight, ChainsClosed
  <1>7. GapRight /\ ProbeRight /\ SearchRight
    BY DEF Init, GapRight, ProbeRight, SearchRight
  <1> QED BY <1>3, <1>4, <1>5, <1>6, <1>7, TypeInit DEF IInv

\* The inductive invariant holds in every reachable state of every bucket.
THEOREM Invariance == Spec => []IInv
  <1>1. Init => IInv
    BY InvInit
  <1>2. IInv /\ [Next]_vars => IInv'
    BY TypeStep, ElemsStep, AreasStep, CountStep, ChainsStep, ProbeStep, CacheStep DEF IInv
  <1> QED BY <1>1, <1>2, PTL DEF Spec

\* Type correctness, for every table size, key set and hash function.
THEOREM TypeCorrect == Spec => []TypeOK
  <1>1. IInv => TypeOK
    BY DEF IInv
  <1> QED BY <1>1, Invariance, PTL

\* Between calls no probe chain has a hole, whatever was deleted before.
THEOREM ChainsStayClosed == Spec => []ChainsClosed
  <1>1. IInv => ChainsClosed
    BY DEF IInv
  <1> QED BY <1>1, Invariance, PTL

\* _gdbm_findkey finds every key that is there, returns the slot that holds it,
\* and reports "not found" only for keys that are not there.
THEOREM SearchIsRight == Spec => []SearchRight
  <1>1. IInv => SearchRight
    BY DEF IInv
  <1> QED BY <1>1, Invariance, PTL

\* The data cache of the bucket is never stale between calls.
THEOREM CacheIsCoherent == Spec => []CacheCoherent
  <1>1. IInv => CacheCoherent
    BY DEF IInv
  <1> QED BY <1>1, Invariance, PTL

\* Keys are unique, areas are not shared and none is leaked.
THEOREM AreasAreExclusive == Spec => []OneAreaPerKey
  <1>1. IInv => OneAreaPerKey
    BY DEF IInv
  <1> QED BY <1>1, Invariance, PTL

\* count is right, and gdbm_store never ends in GDBM_BAD_HASH_TABLE.
THEOREM CountIsRight == Spec => []CountRight
  <1>1. IInv => CountRight
    BY DEF IInv
  <1> QED BY <1>1, Invariance, PTL
=============================================================================
