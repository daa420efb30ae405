--------------------------- MODULE MappedIOProofs ---------------------------
(***************************************************************************)
(* Proofs about module MappedIO, for every size of pages, limit of the     *)
(* mapping, and list of areas: a call reaches the bytes it was asked for,  *)
(* in memory that is mapped, the size kept of the file is right, and a     *)
(* sync reaches all that was written while no limit was set.               *)
(***************************************************************************)
EXTENDS MappedIO, TLAPS

\* A window, as far as its place in the file is concerned.
IsWindow(w) == w \in [region : BOOLEAN, size : Int, pos : Int, off : Int]

\* Where the call under way is in the file.
Here == IF memory_mapping THEN Pos(m) ELSE fd_pos

Types ==
    /\ IsWindow(m) /\ fd_pos \in Int /\ size \in Int /\ next_block \in Int
    /\ mapped_size_max \in Int /\ memory_mapping \in BOOLEAN
    /\ got \in Seq(Int)
    /\ op.adr \in Int /\ op.len \in Int

\* Between two iterations of the loop the place in the file is that of the next byte.
InPlace == op # Idle => Len(got) <= op.len /\ Here = op.adr + Len(got)

IInv == Types /\ InPlace /\ RightBytes /\ (op = Idle => got = <<>>)

\* Aligning an offset to a page takes the remainder off.
LEMMA PageAligned ==
    ASSUME NEW x \in Int
    PROVE  (x \div PageSize) * PageSize \in Int /\ x % PageSize \in Int
           /\ (x \div PageSize) * PageSize + (x % PageSize) = x
BY ConstAssumption

\* _gdbm_internal_remap keeps the place in the file.
LEMMA WindowPlace ==
    ASSUME NEW w, IsWindow(w), NEW n \in Int
    PROVE  IsWindow(Window(w, n)) /\ Pos(Window(w, n)) = Pos(w)
<1>1. w.off \in Int /\ w.pos \in Int
  BY DEF IsWindow
<1>2. CASE n = 0
  BY <1>2 DEF Window, IsWindow, Pos
<1>3. CASE n # 0
  <2> DEFINE o == (w.off \div PageSize) * PageSize
             p == w.pos + (w.off % PageSize)
  <2>1. o \in Int /\ p \in Int /\ o + p = w.off + w.pos
    BY <1>1, PageAligned
  <2> HIDE DEF o, p
  <2>2. Window(w, n) = [region |-> TRUE, size |-> n, pos |-> p, off |-> o]
    BY <1>3 DEF Window, o, p
  <2>3. QED
    BY <2>1, <2>2 DEF IsWindow, Pos
<1>4. QED
  BY <1>2, <1>3

\* Giving a window another place.
LEMMA Repositioned ==
    ASSUME IsWindow(m), NEW q \in Int, NEW k \in Int
    PROVE  /\ IsWindow([m EXCEPT !.pos = q, !.off = k])
           /\ IsWindow([m EXCEPT !.off = q, !.pos = k])
           /\ Pos([m EXCEPT !.pos = q, !.off = k]) = q + k
           /\ Pos([m EXCEPT !.off = q, !.pos = k]) = q + k
<1>1. /\ IsWindow([m EXCEPT !.pos = q, !.off = k])
      /\ IsWindow([m EXCEPT !.off = q, !.pos = k])
  BY DEF IsWindow
<1>2. /\ [m EXCEPT !.pos = q, !.off = k].pos = q /\ [m EXCEPT !.pos = q, !.off = k].off = k
      /\ [m EXCEPT !.off = q, !.pos = k].pos = k /\ [m EXCEPT !.off = q, !.pos = k].off = q
  BY DEF IsWindow
<1>3. QED
  BY <1>1, <1>2 DEF Pos

\* So does the choice of the window in _gdbm_mapped_remap.
LEMMA PlacedPlace ==
    ASSUME IsWindow(m), NEW n \in Int, NEW fs \in Int, NEW max \in Int
    PROVE  /\ IsWindow(Placed(n, fs, max).w) /\ Placed(n, fs, max).n \in Int
           /\ Pos(Placed(n, fs, max).w) = Pos(m)
<1>1. m.off \in Int /\ m.pos \in Int /\ Pos(m) = m.off + m.pos
  BY DEF IsWindow, Pos
<1> DEFINE q == Pos(m)
           z == 0
           w0 == [m EXCEPT !.pos = q, !.off = z]
           w1 == [m EXCEPT !.off = q, !.pos = z]
<1>q. q \in Int /\ z \in Int /\ q + z = q
  BY <1>1
<1> HIDE DEF q, z
<1>2. IsWindow(w0) /\ Pos(w0) = q
  BY <1>q, Repositioned
<1>3. IsWindow(w1) /\ Pos(w1) = q
  BY <1>q, Repositioned
<1> HIDE DEF w0, w1
<1>4. CASE n > max
  <2> DEFINE k == IF Pos(m) + max > fs THEN fs - Pos(m) ELSE max
  <2>1. k \in Int
    BY <1>1
  <2>2. Placed(n, fs, max) = [w |-> w1, n |-> k]
    BY <1>4 DEF Placed, w1, q, z
  <2> HIDE DEF k
  <2>3. QED
    BY <1>3, <2>1, <2>2 DEF q
<1>5. CASE ~(n > max)
  <2>1. Placed(n, fs, max) = [w |-> w0, n |-> n]
    BY <1>5 DEF Placed, w0, q, z
  <2>2. QED
    BY <1>2, <2>1 DEF q
<1>6. QED
  BY <1>4, <1>5

\* _gdbm_mapped_remap: whatever window it chooses and whichever of its system calls
\* fails, the window is one, and it is at the same place if there was no error.
LEMMA RemapPlace ==
    ASSUME Types, NEW want \in Int, NEW flag, NEW max \in Int, NEW fail
    PROVE  LET r == Remap(want, flag, max, fail)
           IN IsWindow(r.m) /\ r.size \in Int /\ (r.rc = 0 => Pos(r.m) = Pos(m))
<1> DEFINE n0 == IF flag = "end" /\ want < size THEN size ELSE want
           grows == ~reader /\ n0 > size /\ flag # "default"
           n == IF reader /\ n0 > size THEN size
                ELSE IF grows /\ n0 < next_block THEN next_block ELSE n0
           fs == IF grows THEN Extended(n) ELSE size
           place == Placed(n, fs, max)
           same == [rc |-> 0, m |-> m, pages |-> pages, size |-> size, fatal |-> FALSE]
           moved == Window(place.w, place.n)
           left == IF m.region THEN NoMap ELSE m
           r == Remap(want, flag, max, fail)
<1>1. /\ IsWindow(m) /\ size \in Int /\ max \in Int /\ n \in Int /\ fs \in Int
  BY DEF Types, Extended
<1> HIDE DEF n, fs
<1>2. IsWindow(place.w) /\ place.n \in Int /\ Pos(place.w) = Pos(m)
  BY <1>1, PlacedPlace
<1> HIDE DEF place
<1>3. IsWindow(moved) /\ Pos(moved) = Pos(m)
  BY <1>2, WindowPlace
<1> HIDE DEF moved
<1>4. IsWindow([moved EXCEPT !.region = FALSE])
  BY <1>3 DEF IsWindow
<1>5. \/ r = same
      \/ r = [same EXCEPT !.rc = -1, !.m = left, !.pages = 0]
      \/ r = [same EXCEPT !.rc = -1]
      \/ r = [same EXCEPT !.rc = -1, !.fatal = TRUE]
      \/ r = [same EXCEPT !.rc = -1, !.m = place.w, !.size = fs, !.fatal = TRUE]
      \/ r = [same EXCEPT !.rc = -1, !.m = [moved EXCEPT !.region = FALSE], !.pages = 0, !.size = fs]
      \/ r = [same EXCEPT !.m = moved, !.pages = RoundUp(moved.size, PageSize), !.size = fs]
  BY DEF Remap, place, moved, n, fs, left
<1>l. IsWindow(left)
  BY <1>1 DEF IsWindow, NoMap
<1> HIDE DEF r, left
<1>6. IsWindow(r.m) /\ r.size \in Int /\ (r.rc = 0 => Pos(r.m) = Pos(m))
  <2>1. \/ r.m = m /\ r.size = size
        \/ r.m = left /\ r.size = size /\ r.rc = -1
        \/ r.m = place.w /\ r.size = fs
        \/ r.m = [moved EXCEPT !.region = FALSE] /\ r.size = fs /\ r.rc = -1
        \/ r.m = moved /\ r.size = fs
    <3>1. /\ same.m = m /\ same.size = size
          /\ [same EXCEPT !.rc = -1, !.fatal = TRUE].m = m
          /\ [same EXCEPT !.rc = -1, !.fatal = TRUE].size = size
          /\ [same EXCEPT !.rc = -1].m = m
          /\ [same EXCEPT !.rc = -1].size = size
          /\ [same EXCEPT !.rc = -1, !.m = left, !.pages = 0].m = left
          /\ [same EXCEPT !.rc = -1, !.m = left, !.pages = 0].size = size
          /\ [same EXCEPT !.rc = -1, !.m = left, !.pages = 0].rc = -1
      OBVIOUS
    <3>2. \A w, f : /\ [same EXCEPT !.rc = -1, !.m = w, !.size = f, !.fatal = TRUE].m = w
                    /\ [same EXCEPT !.rc = -1, !.m = w, !.size = f, !.fatal = TRUE].size = f
      OBVIOUS
    <3>3. \A w, f : /\ [same EXCEPT !.rc = -1, !.m = w, !.pages = 0, !.size = f].m = w
                    /\ [same EXCEPT !.rc = -1, !.m = w, !.pages = 0, !.size = f].size = f
                    /\ [same EXCEPT !.rc = -1, !.m = w, !.pages = 0, !.size = f].rc = -1
      OBVIOUS
    <3>4. \A w, k, f : /\ [same EXCEPT !.m = w, !.pages = k, !.size = f].m = w
                       /\ [same EXCEPT !.m = w, !.pages = k, !.size = f].size = f
      OBVIOUS
    <3> HIDE DEF same
    <3>5. CASE r = same \/ r = [same EXCEPT !.rc = -1, !.fatal = TRUE] \/ r = [same EXCEPT !.rc = -1]
      BY <3>1, <3>5
    <3>0. CASE r = [same EXCEPT !.rc = -1, !.m = left, !.pages = 0]
      BY <3>1, <3>0
    <3>6. CASE r = [same EXCEPT !.rc = -1, !.m = place.w, !.size = fs, !.fatal = TRUE]
      BY <3>2, <3>6
    <3>7. CASE r = [same EXCEPT !.rc = -1, !.m = [moved EXCEPT !.region = FALSE], !.pages = 0, !.size = fs]
      BY <3>3, <3>7
    <3>8. CASE r = [same EXCEPT !.m = moved, !.pages = RoundUp(moved.size, PageSize), !.size = fs]
      BY <3>4, <3>8
    <3>9. QED
      BY <1>5, <3>0, <3>5, <3>6, <3>7, <3>8
  <2>0. CASE r.m = left /\ r.size = size /\ r.rc = -1
    BY <1>1, <1>l, <2>0
  <2>2. CASE r.m = m /\ r.size = size
    BY <1>1, <2>2
  <2>3. CASE r.m = place.w /\ r.size = fs
    BY <1>1, <1>2, <2>3
  <2>4. CASE r.m = [moved EXCEPT !.region = FALSE] /\ r.size = fs /\ r.rc = -1
    BY <1>1, <1>4, <2>4
  <2>5. CASE r.m = moved /\ r.size = fs
    BY <1>1, <1>3, <2>5
  <2>6. QED
    BY <2>0, <2>1, <2>2, <2>3, <2>4, <2>5
<1>7. QED
  BY <1>6 DEF r

\* _gdbm_mapped_lseek
LEMMA SoughtPlace ==
    ASSUME IsWindow(m), NEW a \in Int
    PROVE  IsWindow(Sought(a)) /\ Pos(Sought(a)) = a
BY DEF Sought, IsWindow, Pos

\* nbytes is not negative and not more than what is left.
LEMMA PieceFits ==
    ASSUME NEW w, IsWindow(w), Left \in Int, Left > 0
    PROVE  Piece(w) \in 0 .. Left
<1>1. w.pos \in Int /\ w.size \in Int
  BY DEF IsWindow
<1>2. CASE w.pos > w.size
  BY <1>1, <1>2 DEF Piece
<1>3. CASE ~(w.pos > w.size)
  <2> DEFINE d == w.size - w.pos
  <2>1. d \in Int /\ d >= 0
    BY <1>1, <1>3
  <2> HIDE DEF d
  <2>2. \E x \in {Left, d} : \A y \in {Left, d} : x <= y
    BY <2>1
  <2>3. Min({Left, d}) \in {Left, d} /\ Min({Left, d}) <= Left
    BY <2>2 DEF Min
  <2>4. Piece(w) = Min({Left, d})
    BY <1>3 DEF Piece, d
  <2>5. QED
    BY <2>1, <2>3, <2>4
<1>4. QED
  BY <1>2, <1>3

\* Reaching the next cnt bytes from the right place.
LEMMA ReachRight ==
    ASSUME Types, op # Idle, RightBytes, NEW from \in Int, NEW cnt \in 0 .. Left,
           from = op.adr + Len(got), Reach(from, cnt), op' = op
    PROVE  /\ got' \in Seq(Int) /\ Len(got') = Len(got) + cnt /\ Len(got') <= op.len
           /\ RightBytes'
<1> DEFINE more == [i \in 1 .. cnt |-> from + i - 1]
<1>1. Left \in Int /\ Len(got) \in Nat /\ op.adr \in Int /\ op.len \in Int /\ cnt \in Nat
  BY DEF Types, Left
<1>2. more \in Seq(Int) /\ Len(more) = cnt
  BY <1>1
<1>3. got' = got \o more
  BY DEF Reach
<1>4. got' \in Seq(Int) /\ Len(got') = Len(got) + cnt
  BY <1>2, <1>3 DEF Types
<1>5. Len(got') <= op.len
  BY <1>1, <1>4 DEF Left
<1>6. ASSUME NEW i \in 1 .. Len(got') PROVE got'[i] = op.adr + i - 1
  <2>1. CASE i <= Len(got)
    <3>1. got'[i] = got[i] /\ i \in 1 .. Len(got)
      BY <1>1, <1>2, <1>3, <1>4, <2>1 DEF Types
    <3>2. got[i] = op.adr + i - 1
      BY <3>1 DEF RightBytes
    <3>3. QED
      BY <3>1, <3>2
  <2>2. CASE i > Len(got)
    <3>1. got'[i] = more[i - Len(got)] /\ i - Len(got) \in 1 .. cnt
      BY <1>1, <1>2, <1>3, <1>4, <2>2 DEF Types
    <3>2. more[i - Len(got)] = from + (i - Len(got)) - 1
      BY <3>1
    <3> HIDE DEF more
    <3>3. i \in Int
      BY <1>1, <1>4
    <3>4. QED
      BY <1>1, <3>1, <3>2, <3>3, SMTT(30)
  <2>3. QED
    BY <1>1, <1>4, <2>1, <2>2
<1>7. QED
  BY <1>4, <1>5, <1>6 DEF RightBytes

\* Sizes rounded up are numbers.
LEMMA RoundUpInt ==
    ASSUME NEW n \in Int, NEW u \in Nat \ {0}
    PROVE  RoundUp(n, u) \in Int
BY DEF RoundUp

\* So is a limit.
LEMMA LimitInt ==
    ASSUME NEW n \in Int
    PROVE  Limit(n) \in Int
BY RoundUpInt, ConstAssumption DEF Limit

\* When no call is under way there is nothing to show about bytes.
LEMMA IdleRight ==
    ASSUME op' = Idle, got' = <<>>, IsWindow(m)', fd_pos' \in Int, size' \in Int,
           next_block' \in Int, mapped_size_max' \in Int, memory_mapping' \in BOOLEAN
    PROVE  IInv'
<1>1. Idle.adr = 0 /\ Idle.len = 0 /\ <<>> \in Seq(Int)
  BY DEF Idle
<1>2. QED
  <2>1. Types'
    BY <1>1 DEF Types
  <2>2. InPlace' /\ RightBytes'
    BY DEF InPlace, RightBytes
  <2>3. QED
    BY <2>1, <2>2 DEF IInv

\* One iteration through the window.
LEMMA MappedStepRight == ASSUME IInv, MappedStep PROVE IInv'
<1>1. PICK fail \in Faults :
         LET want == m.off + m.size + Left
             r == IF NeedRemap THEN Remap(want, Flag, mapped_size_max, fail)
                  ELSE [rc |-> 0, m |-> m, pages |-> pages, size |-> size, fatal |-> FALSE]
         IN /\ size' = r.size
            /\ CASE r.rc = 0 /\ ~Exhausted(r.m) ->
                      /\ Copy(r.m, r.pages)
                      /\ fd_pos' = Descriptor(r)
                      /\ UNCHANGED <<op, memory_mapping>>
                 [] r.rc = 0 /\ Exhausted(r.m) ->
                      /\ m' = r.m
                      /\ Finish
                      /\ UNCHANGED <<memory_mapping, dirty, fault>>
                 [] r.rc # 0 /\ r.fatal ->
                      /\ m' = r.m
                      /\ Finish
                      /\ UNCHANGED <<memory_mapping, dirty, fault>>
                 [] OTHER ->
                      /\ m' = r.m
                      /\ memory_mapping' = FALSE
                      /\ fd_pos' = FallBack(r)
                      /\ UNCHANGED <<op, got, dirty, fault>>
            /\ UNCHANGED <<reader, next_block, mapped_size_max>>
  BY DEF MappedStep
<1> DEFINE want == m.off + m.size + Left
           r == IF NeedRemap THEN Remap(want, Flag, mapped_size_max, fail)
                ELSE [rc |-> 0, m |-> m, pages |-> pages, size |-> size, fatal |-> FALSE]
<1>2. /\ Types /\ op # Idle /\ memory_mapping /\ Left > 0 /\ Left \in Int /\ RightBytes
      /\ Pos(m) = op.adr + Len(got) /\ Len(got) <= op.len /\ Len(got) \in Nat
  BY DEF MappedStep, IInv, Types, InPlace, Here, Left
<1>3. want \in Int /\ Pos(m) \in Int /\ IsWindow(m)
  BY <1>2 DEF Types, IsWindow, Pos
<1> HIDE DEF want
<1>4. IsWindow(r.m) /\ r.size \in Int /\ (r.rc = 0 => Pos(r.m) = Pos(m))
  <2>1. CASE NeedRemap
    BY <1>2, <1>3, <2>1, RemapPlace DEF Types
  <2>2. CASE ~NeedRemap
    BY <1>2, <2>2 DEF Types
  <2>3. QED
    BY <2>1, <2>2
<1>5. /\ size' = r.size
      /\ \/ r.rc = 0 /\ Copy(r.m, r.pages) /\ fd_pos' = Descriptor(r) /\ UNCHANGED <<op, memory_mapping>>
         \/ m' = r.m /\ Finish /\ UNCHANGED memory_mapping
         \/ m' = r.m /\ memory_mapping' = FALSE /\ fd_pos' = Pos(m) /\ UNCHANGED <<op, got>>
      /\ UNCHANGED <<reader, next_block, mapped_size_max>>
  BY <1>1 DEF want, FallBack
<1> HIDE DEF r
<1>6. CASE r.rc = 0 /\ Copy(r.m, r.pages) /\ fd_pos' = Descriptor(r) /\ UNCHANGED <<op, memory_mapping>>
  <2> DEFINE cnt == Piece(r.m)
  <2>1. cnt \in 0 .. Left
    BY <1>2, <1>4, PieceFits
  <2>2. Reach(Pos(r.m), cnt) /\ m' = [r.m EXCEPT !.pos = @ + cnt]
    BY <1>6 DEF Copy
  <2> HIDE DEF cnt
  <2>3. /\ got' \in Seq(Int) /\ Len(got') = Len(got) + cnt /\ Len(got') <= op.len /\ RightBytes'
    BY <1>2, <1>3, <1>4, <1>6, <2>1, <2>2, ReachRight
  <2>4. IsWindow(m)' /\ Pos(m)' = Pos(m) + cnt
    <3>1. r.m.off \in Int /\ r.m.pos \in Int /\ cnt \in Int /\ Pos(m) = r.m.off + r.m.pos
      BY <1>2, <1>4, <1>6, <2>1 DEF IsWindow, Pos
    <3>2. IsWindow(m') /\ m'.off = r.m.off /\ m'.pos = r.m.pos + cnt
      BY <1>4, <2>2, <3>1 DEF IsWindow
    <3>3. QED
      BY <3>1, <3>2 DEF IsWindow, Pos
  <2>5. Types'
    BY <1>2, <1>4, <1>5, <1>6, <2>3, <2>4 DEF Types, Descriptor
  <2>6. InPlace'
    <3>1. Here' = Pos(m)'
      BY <1>2, <1>6 DEF Here
    <3>2. Pos(m)' = op.adr + Len(got')
      <4>1. op.adr \in Int /\ cnt \in Int
        BY <1>2, <2>1 DEF Types
      <4>2. QED
        BY <1>2, <2>3, <2>4, <4>1
    <3>3. QED
      BY <1>6, <2>3, <3>1, <3>2 DEF InPlace
  <2>7. QED
    BY <1>2, <1>6, <2>3, <2>5, <2>6 DEF IInv
<1>7. CASE m' = r.m /\ Finish /\ UNCHANGED memory_mapping
  BY <1>2, <1>4, <1>5, <1>7, IdleRight DEF Finish, Types, IsWindow
<1>8. CASE m' = r.m /\ memory_mapping' = FALSE /\ fd_pos' = Pos(m) /\ UNCHANGED <<op, got>>
  <2>1. IsWindow(m)'
    BY <1>4, <1>8 DEF IsWindow
  <2>2. Types'
    BY <1>2, <1>3, <1>4, <1>5, <1>8, <2>1 DEF Types
  <2>3. InPlace'
    BY <1>2, <1>8 DEF InPlace, Here
  <2>4. RightBytes'
    BY <1>2, <1>8 DEF RightBytes
  <2>5. QED
    BY <1>2, <1>8, <2>2, <2>3, <2>4 DEF IInv
<1>9. QED
  BY <1>5, <1>6, <1>7, <1>8

\* One call of read or write.
LEMMA PlainStepRight == ASSUME IInv, PlainStep PROVE IInv'
<1>1. PICK cnt \in {1, Left} : Reach(fd_pos, cnt) /\ fd_pos' = fd_pos + cnt /\ size' = Extended(fd_pos + cnt)
  BY DEF PlainStep
<1>2. /\ Types /\ op # Idle /\ ~memory_mapping /\ Left > 0 /\ Left \in Int /\ RightBytes
      /\ fd_pos = op.adr + Len(got) /\ fd_pos \in Int /\ op.adr \in Int /\ Len(got) \in Nat
  BY DEF PlainStep, IInv, Types, InPlace, Here, Left
<1>3. cnt \in 0 .. Left /\ cnt \in Int
  BY <1>1, <1>2
<1>4. UNCHANGED <<next_block, m, memory_mapping, mapped_size_max, op>>
  BY DEF PlainStep
<1>5. /\ got' \in Seq(Int) /\ Len(got') = Len(got) + cnt /\ Len(got') <= op.len /\ RightBytes'
  BY <1>1, <1>2, <1>3, <1>4, ReachRight
<1>6. fd_pos' \in Int /\ size' \in Int
  BY <1>1, <1>2, <1>3 DEF Extended, Types
<1>7. Types'
  BY <1>2, <1>4, <1>5, <1>6 DEF Types, IsWindow
<1>8. fd_pos' = op.adr + Len(got')
  BY <1>1, <1>2, <1>3, <1>5
<1>9. InPlace'
  BY <1>2, <1>4, <1>5, <1>8 DEF InPlace, Here
<1>10. QED
  BY <1>2, <1>4, <1>5, <1>7, <1>9 DEF IInv

\* A call begins: it seeks to its area.
LEMMA BeginRight ==
    ASSUME IInv, NEW kind, NEW area \in Areas, Begin(kind, area[1], area[2])
    PROVE  IInv'
<1> DEFINE a == area[1]
           len == area[2]
<1>1. a \in Int /\ len \in Int /\ len > 0 /\ Block \in Nat \ {0}
  BY ConstAssumption
<1> HIDE DEF a, len
<1>2. Begin(kind, a, len)
  BY DEF a, len
<1>3. Types /\ IsWindow(m) /\ got = <<>>
  BY <1>2 DEF Begin, Usable, IInv, Types
<1>4. /\ op' = [kind |-> kind, adr |-> a, len |-> len] /\ got' = <<>>
      /\ UNCHANGED <<size, memory_mapping, mapped_size_max>>
      /\ next_block' = IF a + len <= next_block THEN next_block ELSE RoundUp(a + len, Block)
      /\ \/ memory_mapping /\ m' = Sought(a) /\ fd_pos' = fd_pos
         \/ ~memory_mapping /\ fd_pos' = a /\ m' = m
  BY <1>2, <1>3 DEF Begin
<1>5. op'.adr = a /\ op'.len = len
  BY <1>4
<1>6. next_block' \in Int
  BY <1>1, <1>3, <1>4, RoundUpInt DEF Types
<1>7. IsWindow(m)' /\ fd_pos' \in Int
  BY <1>1, <1>3, <1>4, SoughtPlace DEF Types, IsWindow
<1>8. Here' = a
  <2>1. CASE memory_mapping
    BY <1>1, <1>3, <1>4, <2>1, SoughtPlace DEF Here, Pos
  <2>2. CASE ~memory_mapping
    BY <1>4, <2>2 DEF Here
  <2>3. QED
    BY <2>1, <2>2
<1>9. got' \in Seq(Int) /\ Len(got') = 0
  BY <1>4
<1>10. Types'
  BY <1>1, <1>3, <1>4, <1>5, <1>6, <1>7, <1>9 DEF Types
<1>11. InPlace' /\ RightBytes'
  BY <1>1, <1>5, <1>8, <1>9 DEF InPlace, RightBytes
<1>12. QED
  BY <1>4, <1>10, <1>11 DEF IInv

\* _gdbm_mapped_init, called by the options.
LEMMA MappedInitWindow ==
    ASSUME Types, NEW max \in Int, NEW rc, MappedInit(max, rc)
    PROVE  IsWindow(m)'
<1>1. PICK fail : m' = Remap(0, "end", max, fail).m
  BY DEF MappedInit
<1>2. IsWindow(Remap(0, "end", max, fail).m)
  BY RemapPlace
<1>3. QED
  BY <1>1, <1>2 DEF IsWindow

\* Every step keeps the call in its place.
LEMMA PlaceStep == IInv /\ [Next]_vars => IInv'
<1> SUFFICES ASSUME IInv, [Next]_vars PROVE IInv'
  OBVIOUS
<1>t. Types /\ NoMap \in [region : BOOLEAN, size : Int, pos : Int, off : Int]
  BY DEF IInv, NoMap
<1>1. ASSUME NEW kind, NEW area \in Areas, Begin(kind, area[1], area[2]) PROVE IInv'
  BY <1>1, BeginRight
<1>2. CASE MappedStep
  BY <1>2, MappedStepRight
<1>3. CASE PlainStep
  BY <1>3, PlainStepRight
<1>p. CASE PlainFails
  BY <1>p, <1>t, IdleRight DEF PlainFails, Finish, Types, IsWindow
<1>4. CASE Done
  BY <1>4, <1>t, IdleRight DEF Done, Finish, Types, IsWindow
<1>5. CASE Sync
  BY <1>5, <1>t, IdleRight DEF Sync, IInv, Types, IsWindow
<1>6. ASSUME NEW on \in BOOLEAN, SetMmap(on) PROVE IInv'
  <2>1. /\ op' = Idle /\ got' = <<>> /\ UNCHANGED <<size, next_block, mapped_size_max, fd_pos>>
        /\ \/ m' \in {m, NoMap}
           \/ \E rc : MappedInit(mapped_size_max, rc)
        /\ memory_mapping' \in BOOLEAN
    <3>1. op' = Idle /\ got' = <<>> /\ UNCHANGED <<size, next_block, mapped_size_max, fd_pos>>
      BY <1>6 DEF SetMmap, Usable, IInv
    <3>2. CASE on = memory_mapping
      BY <1>6, <1>t, <3>1, <3>2, Zenon DEF SetMmap, Types
    <3>3. CASE on # memory_mapping
      <4>1. memory_mapping \in BOOLEAN
        BY <1>t DEF Types
      <4>2. \/ \E rc \in {0, -1} : MappedInit(mapped_size_max, rc) /\ memory_mapping' = (rc = 0)
            \/ m' = (IF m.region THEN NoMap ELSE m) /\ memory_mapping' = FALSE
        <5>1. CASE on
          <6>1. ~memory_mapping /\ on /\ ~(~on /\ memory_mapping)
            BY <3>3, <4>1, <5>1
          <6>2. QED
            BY <1>6, <3>3, <6>1 DEF SetMmap
        <5>2. CASE ~on
          <6>1. memory_mapping
            BY <3>3, <4>1, <5>2
          <6>2. QED
            BY <1>6, <3>3, <5>2, <6>1 DEF SetMmap
        <5>3. QED
          BY <5>1, <5>2
      <4>3. QED
        BY <3>1, <4>2
    <3>4. QED
      BY <3>2, <3>3
  <2>2. IsWindow(m)'
    <3>1. CASE m' \in {m, NoMap}
      BY <1>t, <3>1 DEF Types, IsWindow
    <3>2. CASE \E rc : MappedInit(mapped_size_max, rc)
      BY <1>t, <3>2, MappedInitWindow DEF Types
    <3>3. QED
      BY <2>1, <3>1, <3>2
  <2>3. QED
    BY <1>t, <2>1, <2>2, IdleRight DEF Types
<1>7. ASSUME NEW n \in Limits, SetMaxMapSize(n) PROVE IInv'
  <2>1. Limit(n) \in Int
    BY ConstAssumption, LimitInt
  <2>2. /\ op' = Idle /\ got' = <<>> /\ UNCHANGED <<size, next_block, fd_pos, memory_mapping>>
        /\ mapped_size_max' = Limit(n)
        /\ \E rc : MappedInit(Limit(n), rc)
    BY <1>7 DEF SetMaxMapSize, Usable, IInv
  <2>3. IsWindow(m)'
    BY <1>t, <2>1, <2>2, MappedInitWindow
  <2>4. QED
    BY <1>t, <2>1, <2>2, <2>3, IdleRight DEF Types
<1>8. CASE UNCHANGED vars
  <2>1. Types' /\ InPlace' /\ RightBytes'
    BY <1>8 DEF vars, IInv, Types, IsWindow, InPlace, Here, Pos, RightBytes
  <2>2. QED
    BY <1>8, <2>1 DEF vars, IInv
<1>9. QED
  BY <1>1, <1>2, <1>3, <1>p, <1>4, <1>5, <1>6, <1>7, <1>8 DEF Next, Step

\* The database has just been opened and mapped as a whole.
LEMMA PlaceInit == Init => IInv
<1> SUFFICES ASSUME Init PROVE IInv
  OBVIOUS
<1>1. /\ m = [region |-> TRUE, size |-> InitSize, pos |-> 0, off |-> 0]
      /\ InitSize \in Int /\ SizeMax \in Int /\ op = Idle /\ got = <<>>
      /\ size = InitSize /\ next_block = InitSize /\ mapped_size_max = SizeMax /\ fd_pos = 0
  BY ConstAssumption DEF Init
<1>2. IsWindow(m)
  BY <1>1 DEF IsWindow
<1>3. Idle.adr = 0 /\ Idle.len = 0 /\ <<>> \in Seq(Int)
  BY DEF Idle
<1>4. memory_mapping \in BOOLEAN
  BY Zenon DEF Init
<1>5. Types
  BY <1>1, <1>2, <1>3, <1>4 DEF Types
<1>6. QED
  BY <1>1, <1>5 DEF IInv, InPlace, RightBytes

\* A call of _gdbm_full_read or _gdbm_full_write reaches exactly the bytes of its area,
\* in order, for every size of pages, every limit of the mapping and every sequence of
\* moves, failures and switches of the mapping (mmap.c:99-100, 239-276, 302-330).
THEOREM BytesAreRight == Spec => []RightBytes
<1>1. IInv => RightBytes
  BY DEF IInv
<1>2. QED
  BY PlaceInit, PlaceStep, <1>1, PTL DEF Spec
-----------------------------------------------------------------------------
(* The size kept in dbf->file_size. *)

IsPlace(w) == IsWindow(w) /\ w.size >= 0 /\ w.pos >= 0 /\ w.off >= 0

\* Offsets and sizes are not negative; only a writer writes; a call that is not at its
\* end has not passed the end of the window.
Sizes ==
    /\ IsPlace(m) /\ size >= 0 /\ next_block >= 0 /\ mapped_size_max >= 0
    /\ op.kind \in {"idle", "read", "write"}
    /\ op = Idle <=> op.kind = "idle"
    /\ op.kind = "write" => ~reader
    /\ op # Idle /\ memory_mapping /\ Left > 0 => m.pos <= m.size

\* While a call writes, dbf->file_size is reset, or the file already holds the area.
SizeKept == ~starved =>
    /\ file_size \in {-1, size}
    /\ op.kind = "write" /\ file_size = size => op.adr + op.len <= size

SInv == IInv /\ Sizes /\ SizeKept

LEMMA WindowPlaced ==
    ASSUME NEW w, IsPlace(w), NEW n \in Int, n >= 0
    PROVE  IsPlace(Window(w, n)) /\ Window(w, n).size = n
<1>1. w.off \in Int /\ w.pos \in Int /\ w.off >= 0 /\ w.pos >= 0
  BY DEF IsPlace, IsWindow
<1>2. CASE n = 0
  BY <1>2 DEF Window, IsWindow, IsPlace
<1>3. CASE n # 0
  <2> DEFINE o == (w.off \div PageSize) * PageSize
             p == w.pos + (w.off % PageSize)
  <2>1. /\ w.off \div PageSize \in Nat /\ w.off % PageSize \in Nat /\ PageSize \in Nat
    BY <1>1, ConstAssumption
  <2>2. o \in Int /\ p \in Int /\ o >= 0 /\ p >= 0
    <3>1. \A x, y \in Nat : x * y \in Int /\ x * y >= 0
      OBVIOUS
    <3>2. QED
      BY <1>1, <2>1, <3>1
  <2> HIDE DEF o, p
  <2>3. Window(w, n) = [region |-> TRUE, size |-> n, pos |-> p, off |-> o]
    BY <1>3 DEF Window, o, p
  <2>4. QED
    BY <2>2, <2>3 DEF IsWindow, IsPlace
<1>4. QED
  BY <1>2, <1>3

LEMMA PlacedSize ==
    ASSUME IsPlace(m), NEW n \in Int, NEW fs \in Int, NEW max \in Int, n >= 0, max >= 0
    PROVE  /\ IsPlace(Placed(n, fs, max).w) /\ Placed(n, fs, max).n \in Int
           /\ Pos(m) <= fs => Placed(n, fs, max).n >= 0
<1>1. m.off \in Int /\ m.pos \in Int /\ Pos(m) = m.off + m.pos /\ m.off >= 0 /\ m.pos >= 0
  BY DEF IsPlace, IsWindow, Pos
<1>2. PICK q \in Int : q = Pos(m) /\ q >= 0
  BY <1>1
<1>3. PICK k \in Int : k = IF q + max > fs THEN fs - q ELSE max
  BY <1>2
<1>4. Placed(n, fs, max) = IF n > max THEN [w |-> [m EXCEPT !.off = q, !.pos = 0], n |-> k]
                                      ELSE [w |-> [m EXCEPT !.pos = q, !.off = 0], n |-> n]
  BY <1>2, <1>3 DEF Placed
<1>5. IsPlace([m EXCEPT !.off = q, !.pos = 0]) /\ IsPlace([m EXCEPT !.pos = q, !.off = 0])
  <2>0. PICK z \in Int : z = 0
    OBVIOUS
  <2>1. IsWindow([m EXCEPT !.off = q, !.pos = z]) /\ IsWindow([m EXCEPT !.pos = q, !.off = z])
    <3>1. z \in Int /\ q \in Int /\ IsWindow(m)
      BY <1>2, <2>0 DEF IsPlace
    <3>2. QED
      BY <3>1 DEF IsWindow
  <2>2. /\ [m EXCEPT !.off = q, !.pos = z].size = m.size /\ [m EXCEPT !.pos = q, !.off = z].size = m.size
        /\ [m EXCEPT !.pos = q, !.off = z].pos = q /\ [m EXCEPT !.pos = q, !.off = z].off = z
        /\ [m EXCEPT !.off = q, !.pos = z].pos = z /\ [m EXCEPT !.off = q, !.pos = z].off = q
    BY DEF IsPlace, IsWindow
  <2>3. m.size >= 0
    BY DEF IsPlace
  <2>4. IsPlace([m EXCEPT !.off = q, !.pos = z]) /\ IsPlace([m EXCEPT !.pos = q, !.off = z])
    BY <1>2, <2>0, <2>1, <2>2, <2>3 DEF IsPlace
  <2>5. QED
    BY <2>0, <2>4
<1>6. CASE n > max
  BY <1>2, <1>3, <1>4, <1>5, <1>6
<1>7. CASE ~(n > max)
  BY <1>2, <1>4, <1>5, <1>7
<1>8. QED
  BY <1>6, <1>7

\* What _gdbm_mapped_remap does to the size of the file: nothing unless it is to extend
\* it, and then the file holds what is asked for.
LEMMA RemapSizes ==
    ASSUME Types, Sizes, NEW want \in Int, NEW flag, NEW max \in Int, NEW fail,
           want >= 0, max >= 0, NEW r, r = Remap(want, flag, max, fail)
    PROVE  /\ IsPlace(r.m) /\ r.size \in Int /\ r.size >= size
           /\ flag = "default" \/ (flag = "end" /\ want = 0) => r.size = size
           /\ /\ flag = "extend" /\ ~reader /\ want >= m.size /\ ~(r.rc = -1 /\ r.fatal)
              /\ ~Unknown(fail) /\ fail # "calloc"
              => want <= r.size
<1> DEFINE n0 == IF flag = "end" /\ want < size THEN size ELSE want
           grows == ~reader /\ n0 > size /\ flag # "default"
           n == IF reader /\ n0 > size THEN size
                ELSE IF grows /\ n0 < next_block THEN next_block ELSE n0
           fs == IF grows THEN Extended(n) ELSE size
           place == Placed(n, fs, max)
           same == [rc |-> 0, m |-> m, pages |-> pages, size |-> size, fatal |-> FALSE]
           moved == Window(place.w, place.n)
           asked == want >= m.size /\ ~Unknown(fail)
           left == IF m.region THEN NoMap ELSE m
<1>1. /\ IsPlace(m) /\ size \in Int /\ size >= 0 /\ next_block \in Int /\ next_block >= 0
      /\ m.size \in Int
  BY DEF Types, Sizes, IsPlace, IsWindow
<1>2. /\ n \in Int /\ fs \in Int /\ n >= 0 /\ fs >= size
      /\ flag = "default" \/ (flag = "end" /\ want = 0) => fs = size
      /\ flag = "extend" /\ ~reader => want <= fs
      /\ ~reader /\ n0 > size /\ flag = "default" => flag # "extend"
  BY <1>1 DEF Extended
<1>3. \/ r = same /\ (want < m.size \/ flag = "default" \/ reader)
      \/ r = [same EXCEPT !.rc = -1, !.m = left, !.pages = 0] /\ Unknown(fail)
      \/ r = [same EXCEPT !.rc = -1] /\ fail = "calloc"
      \/ r = [same EXCEPT !.rc = -1, !.fatal = TRUE]
      \/ r = [same EXCEPT !.rc = -1, !.m = place.w, !.size = fs, !.fatal = TRUE]
      \/ /\ r = [same EXCEPT !.rc = -1, !.m = [moved EXCEPT !.region = FALSE], !.pages = 0, !.size = fs]
         /\ ~(Pos(m) > fs)
      \/ /\ r = [same EXCEPT !.m = moved, !.pages = RoundUp(moved.size, PageSize), !.size = fs]
         /\ ~(Pos(m) > fs)
  <2>1. r = CASE want < m.size -> same
              [] want >= m.size /\ Unknown(fail) -> [same EXCEPT !.rc = -1, !.m = left, !.pages = 0]
              [] asked /\ ~reader /\ n0 > size /\ flag = "default" -> same
              [] asked /\ reader /\ n = m.off + m.size -> same
              [] asked /\ grows /\ fail = "calloc" -> [same EXCEPT !.rc = -1]
              [] asked /\ grows /\ fail = "write" -> [same EXCEPT !.rc = -1, !.fatal = TRUE]
              [] OTHER ->
                   IF Pos(m) > fs
                   THEN [same EXCEPT !.rc = -1, !.m = place.w, !.size = fs, !.fatal = TRUE]
                   ELSE IF fail = "mmap" /\ place.n # 0
                   THEN [same EXCEPT !.rc = -1, !.m = [moved EXCEPT !.region = FALSE],
                                     !.pages = 0, !.size = fs]
                   ELSE [same EXCEPT !.m = moved, !.pages = RoundUp(moved.size, PageSize), !.size = fs]
    BY DEF Remap
  <2> HIDE DEF same, n0, n, grows, fs, place, moved, left
  <2>2. QED
    BY <2>1
<1>l. IsPlace(left)
  BY <1>1 DEF IsPlace, IsWindow, NoMap
<1> HIDE DEF n0, grows, n, fs, left
<1>4. IsPlace(place.w) /\ place.n \in Int /\ (Pos(m) <= fs => place.n >= 0)
  BY <1>1, <1>2, PlacedSize
<1> HIDE DEF place
<1>5. Pos(m) \in Int
  BY <1>1 DEF IsPlace, IsWindow, Pos
<1>6. ~(Pos(m) > fs) => IsPlace(moved) /\ IsPlace([moved EXCEPT !.region = FALSE])
  <2>1. ~(Pos(m) > fs) => IsPlace(moved)
    BY <1>2, <1>4, <1>5, WindowPlaced
  <2> HIDE DEF moved
  <2>2. QED
    BY <2>1 DEF IsPlace, IsWindow
<1> HIDE DEF moved
<1>7. CASE r = same /\ (want < m.size \/ flag = "default" \/ reader)
  BY <1>1, <1>2, <1>7
<1>u. CASE r = [same EXCEPT !.rc = -1, !.m = left, !.pages = 0] /\ Unknown(fail)
  BY <1>1, <1>2, <1>l, <1>u
<1>c. CASE r = [same EXCEPT !.rc = -1] /\ fail = "calloc"
  BY <1>1, <1>2, <1>c
<1>8. CASE r = [same EXCEPT !.rc = -1, !.fatal = TRUE]
  BY <1>1, <1>2, <1>8
<1>9. CASE r = [same EXCEPT !.rc = -1, !.m = place.w, !.size = fs, !.fatal = TRUE]
  BY <1>1, <1>2, <1>4, <1>9
<1>10. CASE /\ r = [same EXCEPT !.rc = -1, !.m = [moved EXCEPT !.region = FALSE], !.pages = 0, !.size = fs]
            /\ ~(Pos(m) > fs)
  <2>1. PICK w : w = [moved EXCEPT !.region = FALSE]
    OBVIOUS
  <2>2. r.m = w /\ r.size = fs
    BY <1>10, <2>1
  <2>3. QED
    BY <1>1, <1>2, <1>6, <1>10, <2>1, <2>2
<1>11. CASE /\ r = [same EXCEPT !.m = moved, !.pages = RoundUp(moved.size, PageSize), !.size = fs]
            /\ ~(Pos(m) > fs)
  <2>1. r.m = moved /\ r.size = fs
    BY <1>11
  <2>2. QED
    BY <1>1, <1>2, <1>6, <1>11, <2>1
<1>12. QED
  BY <1>3, <1>7, <1>u, <1>c, <1>8, <1>9, <1>10, <1>11

LEMMA IdleKind == Idle.kind = "idle" /\ Idle.adr = 0 /\ Idle.len = 0
BY DEF Idle

\* A piece that is not all that is left ends at the end of the window.
LEMMA PieceEnds ==
    ASSUME NEW w, IsWindow(w), Left \in Int, Left > 0, Piece(w) # Left
    PROVE  w.pos <= w.size /\ w.pos + Piece(w) = w.size
<1>1. w.pos \in Int /\ w.size \in Int /\ ~(w.pos > w.size)
  BY DEF IsWindow, Piece
<1>2. PICK d \in Int : d = w.size - w.pos
  BY <1>1
<1>3. \E x \in {Left, d} : \A y \in {Left, d} : x <= y
  BY <1>2
<1>4. Min({Left, d}) \in {Left, d}
  BY <1>3 DEF Min
<1>5. Piece(w) = Min({Left, d})
  BY <1>1, <1>2 DEF Piece
<1>6. QED
  BY <1>1, <1>2, <1>4, <1>5

LEMMA SizesAtEnd ==
    ASSUME op' = Idle, IsPlace(m'), size' \in Int, size' >= 0, next_block' >= 0, mapped_size_max' >= 0,
           ~starved' => file_size' \in {-1, size'}
    PROVE  Sizes' /\ SizeKept'
BY IdleKind DEF Sizes, SizeKept, IsPlace, IsWindow

LEMMA MappedStepSizes == ASSUME SInv, MappedStep PROVE Sizes' /\ SizeKept'
<1>0. PICK fail \in Faults :
         LET want == m.off + m.size + Left
             r == IF NeedRemap THEN Remap(want, Flag, mapped_size_max, fail)
                  ELSE [rc |-> 0, m |-> m, pages |-> pages, size |-> size, fatal |-> FALSE]
         IN /\ size' = r.size
            /\ file_size' = IF ~NeedRemap \/ Unknown(fail) THEN file_size
                           ELSE IF r.size # size \/ fail = "write" THEN Invalid(size) ELSE size
            /\ starved' = (starved \/ fail = "calloc")
            /\ CASE r.rc = 0 /\ ~Exhausted(r.m) ->
                      /\ Copy(r.m, r.pages)
                      /\ fd_pos' = Descriptor(r)
                      /\ UNCHANGED <<op, memory_mapping>>
                 [] r.rc = 0 /\ Exhausted(r.m) ->
                      /\ m' = r.m
                      /\ Finish
                      /\ UNCHANGED <<memory_mapping, dirty, fault>>
                 [] r.rc # 0 /\ r.fatal ->
                      /\ m' = r.m
                      /\ Finish
                      /\ UNCHANGED <<memory_mapping, dirty, fault>>
                 [] OTHER ->
                      /\ m' = r.m
                      /\ memory_mapping' = FALSE
                      /\ fd_pos' = FallBack(r)
                      /\ UNCHANGED <<op, got, dirty, fault>>
            /\ UNCHANGED <<reader, next_block, mapped_size_max>>
  BY DEF MappedStep
<1> DEFINE want == m.off + m.size + Left
           r == IF NeedRemap THEN Remap(want, Flag, mapped_size_max, fail)
                ELSE [rc |-> 0, m |-> m, pages |-> pages, size |-> size, fatal |-> FALSE]
<1>1. /\ size' = r.size
      /\ file_size' = IF ~NeedRemap \/ Unknown(fail) THEN file_size
                     ELSE IF r.size # size \/ fail = "write" THEN Invalid(size) ELSE size
      /\ starved' = (starved \/ fail = "calloc")
      /\ UNCHANGED <<reader, next_block, mapped_size_max>>
  BY <1>0
<1>12. \/ r.rc = 0 /\ Copy(r.m, r.pages) /\ UNCHANGED <<op, memory_mapping>>
       \/ m' = r.m /\ Finish
       \/ /\ ~(r.rc = -1 /\ r.fatal) /\ m' = r.m /\ memory_mapping' = FALSE /\ UNCHANGED <<op, got>>
  BY <1>0
<1>2. /\ Types /\ Sizes /\ op # Idle /\ memory_mapping /\ Left > 0 /\ Left \in Int
      /\ Pos(m) = op.adr + Len(got) /\ Len(got) \in Nat /\ m.pos <= m.size /\ SizeKept
  <2>1. /\ Types /\ op # Idle /\ memory_mapping /\ Left > 0 /\ Left \in Int /\ Sizes /\ SizeKept
        /\ Pos(m) = op.adr + Len(got) /\ Len(got) \in Nat
    <3>1. IInv /\ Sizes /\ SizeKept
      BY DEF SInv
    <3>2. op # Idle /\ memory_mapping /\ Left > 0
      BY DEF MappedStep
    <3>3. QED
      BY <3>1, <3>2 DEF IInv, Types, InPlace, Here, Left
  <2>2. m.pos <= m.size
    BY <2>1 DEF Sizes
  <2>3. QED
    BY <2>1, <2>2
<1>3. /\ m.off \in Int /\ m.size \in Int /\ m.pos \in Int /\ m.off >= 0 /\ m.size >= 0 /\ size \in Int
      /\ op.adr \in Int /\ op.len \in Int /\ size >= 0 /\ mapped_size_max \in Int /\ mapped_size_max >= 0
      /\ next_block >= 0 /\ IsPlace(m)
  BY <1>2 DEF Types, Sizes, IsPlace, IsWindow
<1>4. want \in Int /\ want >= 0 /\ want >= m.size /\ op.adr + op.len <= want
  <2>1. PICK g \in Nat : g = Len(got)
    BY <1>2
  <2>2. Left = op.len - g /\ m.off + m.pos = op.adr + g
    BY <1>2, <2>1 DEF Pos, Left
  <2>3. PICK l \in Int : l = Left /\ l > 0
    BY <1>2
  <2>4. want = m.off + m.size + l
    BY <2>3
  <2>5. op.adr + op.len = m.off + m.pos + l
    BY <1>3, <2>2, <2>3
  <2>6. l \in Int /\ l > 0 /\ m.pos <= m.size
    BY <1>2, <2>3
  <2> HIDE DEF want
  <2>7. QED
    BY <1>3, <2>4, <2>5, <2>6
<1> HIDE DEF want
<1>5. /\ IsPlace(r.m) /\ r.size \in Int /\ r.size >= size
      /\ op.kind = "read" => r.size = size
      /\ ~NeedRemap => r.size = size
      /\ /\ NeedRemap /\ op.kind = "write" /\ ~(r.rc = -1 /\ r.fatal)
         /\ ~Unknown(fail) /\ fail # "calloc"
         => op.adr + op.len <= r.size
  <2>1. CASE NeedRemap
    <3>1. r = Remap(want, Flag, mapped_size_max, fail)
      BY <2>1
    <3>2. /\ IsPlace(r.m) /\ r.size \in Int /\ r.size >= size
          /\ Flag = "default" \/ (Flag = "end" /\ want = 0) => r.size = size
          /\ /\ Flag = "extend" /\ ~reader /\ want >= m.size /\ ~(r.rc = -1 /\ r.fatal)
             /\ ~Unknown(fail) /\ fail # "calloc"
             => want <= r.size
      BY <1>2, <1>3, <1>4, <3>1, RemapSizes
    <3>3. op.kind = "write" => ~reader
      BY <1>2 DEF Sizes
    <3>4. QED
      BY <1>3, <1>4, <2>1, <3>2, <3>3 DEF Flag
  <2>2. CASE ~NeedRemap
    BY <1>3, <2>2
  <2>3. QED
    BY <2>1, <2>2
<1> HIDE DEF r
<1>6. /\ ~starved' => ~starved /\ fail # "calloc" /\ file_size' \in {-1, size'}
      /\ ~NeedRemap \/ Unknown(fail) => file_size' = file_size
  BY <1>1, <1>2, <1>5 DEF Invalid, SizeKept, Unknown
<1>7. /\ size' \in Int /\ size' >= 0 /\ next_block' >= 0 /\ mapped_size_max' >= 0 /\ UNCHANGED reader
  BY <1>1, <1>3, <1>5
<1>8. CASE m' = r.m /\ Finish
  BY <1>5, <1>6, <1>7, <1>8, SizesAtEnd DEF Finish
<1>9. ASSUME ~(r.rc = -1 /\ r.fatal), UNCHANGED op PROVE SizeKept'
  BY <1>1, <1>2, <1>3, <1>5, <1>6, <1>9 DEF SizeKept, Unknown
<1>10. CASE r.rc = 0 /\ Copy(r.m, r.pages) /\ UNCHANGED <<op, memory_mapping>>
  <2>1. PICK cnt : cnt = Piece(r.m)
    OBVIOUS
  <2>2. cnt \in 0 .. Left
    BY <1>2, <1>5, <2>1, PieceFits DEF IsPlace
  <2>3. m' = [r.m EXCEPT !.pos = @ + cnt] /\ got' = got \o [i \in 1 .. cnt |-> Pos(r.m) + i - 1]
    BY <1>10, <2>1 DEF Copy, Reach
  <2>4. /\ r.m.pos \in Int /\ r.m.size \in Int /\ r.m.pos >= 0 /\ IsWindow(r.m)
    BY <1>5 DEF IsPlace, IsWindow
  <2>5. IsPlace(m') /\ m'.pos = r.m.pos + cnt /\ m'.size = r.m.size
    <3>1. cnt \in Int /\ cnt >= 0
      BY <1>2, <2>2
    <3>2. PICK q \in Int : q = r.m.pos + cnt /\ q >= 0
      BY <2>4, <3>1
    <3>3. m' = [r.m EXCEPT !.pos = q]
      BY <2>3, <3>2
    <3>4. QED
      BY <1>5, <3>2, <3>3 DEF IsPlace, IsWindow
  <2>6. Left' = Left - cnt
    <3>1. Len(got') = Len(got) + cnt
      <4>1. PICK x \in Int : x = Pos(r.m)
        BY <1>5 DEF IsPlace, IsWindow, Pos
      <4>2. [i \in 1 .. cnt |-> x + i - 1] \in Seq(Int) /\ Len([i \in 1 .. cnt |-> x + i - 1]) = cnt
        BY <1>2, <2>2
      <4>3. PICK more : more = [i \in 1 .. cnt |-> x + i - 1]
        OBVIOUS
      <4>4. got' = got \o more /\ more \in Seq(Int) /\ Len(more) = cnt
        BY <2>3, <4>1, <4>2, <4>3
      <4>5. got \in Seq(Int)
        BY <1>2 DEF Types
      <4>6. \A u, v \in Seq(Int) : Len(u \o v) = Len(u) + Len(v)
        OBVIOUS
      <4>7. Len(got \o more) = Len(got) + Len(more)
        BY <4>4, <4>5, <4>6
      <4>8. QED
        BY <4>4, <4>7
    <3>2. QED
      BY <1>2, <1>3, <1>10, <2>2, <3>1 DEF Left
  <2>7. Left' > 0 => m'.pos <= m'.size
    <3>1. Left' > 0 => Piece(r.m) # Left
      BY <1>2, <2>1, <2>2, <2>6
    <3>2. Left' > 0 => r.m.pos + Piece(r.m) = r.m.size
      BY <1>2, <2>4, <3>1, PieceEnds
    <3>3. QED
      BY <2>1, <2>2, <2>4, <2>5, <3>2
  <2>8. Sizes'
    BY <1>2, <1>7, <1>10, <2>5, <2>7 DEF Sizes
  <2>9. QED
    BY <1>9, <1>10, <2>8
<1>11. CASE /\ ~(r.rc = -1 /\ r.fatal) /\ m' = r.m /\ memory_mapping' = FALSE /\ UNCHANGED <<op, got>>
  <2>1. Sizes'
    BY <1>2, <1>5, <1>7, <1>11 DEF Sizes
  <2>2. QED
    BY <1>9, <1>11, <2>1
<1>13. QED
  BY <1>8, <1>10, <1>11, <1>12

LEMMA RoundUpNat ==
    ASSUME NEW n \in Nat, NEW u \in Nat \ {0}
    PROVE  RoundUp(n, u) \in Nat /\ RoundUp(n, u) >= n
<1>1. PICK q \in Nat : q = (n + u - 1) \div u /\ n + u - 1 < u * q + u
  <2>1. (n + u - 1) \div u \in Nat /\ n + u - 1 < u * ((n + u - 1) \div u) + u
    <3>1. PICK x \in Nat : x = n + u - 1
      OBVIOUS
    <3>2. x \div u \in Nat /\ x < u * (x \div u) + u
      BY <3>1
    <3>3. QED
      BY <3>1, <3>2
  <2>2. QED
    BY <2>1
<1>2. RoundUp(n, u) = q * u
  BY <1>1 DEF RoundUp
<1>3. q * u \in Nat /\ u * q = q * u
  OBVIOUS
<1>4. QED
  BY <1>1, <1>2, <1>3

LEMMA LimitNat ==
    ASSUME NEW n \in Nat
    PROVE  Limit(n) \in Nat
BY RoundUpNat, ConstAssumption DEF Limit

LEMMA BeginSizes ==
    ASSUME SInv, NEW kind \in {"read", "write"}, NEW area \in Areas, Begin(kind, area[1], area[2])
    PROVE  Sizes' /\ SizeKept'
<1> DEFINE a == area[1]
           len == area[2]
<1>1. a \in Nat /\ len \in Nat /\ len > 0 /\ Block \in Nat \ {0}
  BY ConstAssumption
<1> HIDE DEF a, len
<1>2. Begin(kind, a, len)
  BY DEF a, len
<1>3. Types /\ Sizes /\ SizeKept
  BY DEF SInv, IInv
<1>4. /\ op' = [kind |-> kind, adr |-> a, len |-> len] /\ (kind = "write" => ~reader)
      /\ file_size' = IF kind = "write" THEN Invalid(file_size) ELSE file_size
      /\ UNCHANGED starved /\ ~starved
      /\ UNCHANGED <<reader, size, memory_mapping, mapped_size_max>>
      /\ next_block' = IF a + len <= next_block THEN next_block ELSE RoundUp(a + len, Block)
      /\ \/ memory_mapping /\ m' = Sought(a)
         \/ ~memory_mapping /\ m' = m
      /\ op = Idle
  BY <1>2 DEF Begin, Usable
<1>5. op'.kind = kind /\ op' # Idle
  <2>1. op'.kind = kind
    BY <1>4
  <2>2. QED
    BY <2>1, IdleKind
<1>6. next_block' >= 0
  <2>1. a + len \in Nat /\ next_block \in Int /\ next_block >= 0
    BY <1>1, <1>3 DEF Types, Sizes
  <2>2. RoundUp(a + len, Block) \in Nat
    BY <1>1, <2>1, RoundUpNat
  <2>3. QED
    BY <1>4, <2>1, <2>2
<1>7. IsPlace(m') /\ (memory_mapping => m'.pos <= m'.size)
  <2>1. IsPlace(m)
    BY <1>3 DEF Sizes
  <2>2. IsPlace(Sought(a)) /\ Sought(a).pos <= Sought(a).size
    BY <1>1, <2>1 DEF Sought, IsPlace, IsWindow
  <2>3. QED
    BY <1>4, <2>1, <2>2
<1>8. Sizes'
  BY <1>3, <1>4, <1>5, <1>6, <1>7 DEF Sizes
<1>9. SizeKept'
  <2>1. size \in Int /\ size >= 0 /\ file_size \in {-1, size}
    BY <1>3, <1>4 DEF Types, Sizes, SizeKept
  <2>2. QED
    BY <1>4, <1>5, <2>1 DEF SizeKept, Invalid
<1>10. QED
  BY <1>8, <1>9

LEMMA PlainStepSizes == ASSUME SInv, PlainStep PROVE Sizes' /\ SizeKept'
<1>1. PICK cnt \in {1, Left} : /\ op.kind = "read" => fd_pos + cnt <= size
                               /\ size' = Extended(fd_pos + cnt)
  BY DEF PlainStep
<1>2. op # Idle /\ ~memory_mapping /\ Left > 0
      /\ UNCHANGED <<reader, file_size, starved, next_block, m, memory_mapping, mapped_size_max, op>>
  BY DEF PlainStep
<1>3. IInv /\ Types /\ Sizes /\ SizeKept
  BY DEF SInv, IInv
<1>4. /\ fd_pos \in Int /\ size \in Int /\ size >= 0 /\ Left \in Int /\ op.adr \in Int /\ op.len \in Int
      /\ Len(got) \in Nat /\ fd_pos = op.adr + Len(got) /\ Left = op.len - Len(got)
  BY <1>2, <1>3 DEF IInv, Types, InPlace, Here, Left, Sizes
<1>5. cnt \in Int /\ cnt <= Left /\ fd_pos + cnt <= op.adr + op.len
  <2>1. PICK g \in Nat, l \in Int : g = Len(got) /\ l = Left
    BY <1>4
  <2>2. cnt \in Int /\ cnt <= l
    BY <1>1, <1>2, <2>1
  <2>3. fd_pos = op.adr + g /\ l = op.len - g /\ op.adr \in Int /\ op.len \in Int
    BY <1>4, <2>1
  <2>4. fd_pos + cnt <= op.adr + op.len
    BY <2>2, <2>3
  <2>5. QED
    BY <2>1, <2>2, <2>4
<1>6. size' \in Int /\ size' >= size /\ (fd_pos + cnt <= size => size' = size)
  <2>1. PICK x \in Int : x = fd_pos + cnt
    BY <1>4, <1>5
  <2>2. size' = IF size < x THEN x ELSE size
    BY <1>1, <2>1 DEF Extended
  <2>3. size \in Int
    BY <1>4
  <2>4. size' \in Int /\ size' >= size /\ (x <= size => size' = size)
    BY <2>2, <2>3
  <2>5. QED
    BY <2>1, <2>4
<1>7. Sizes'
  BY <1>2, <1>3, <1>4, <1>6 DEF Sizes
<1>8. op.kind \in {"read", "write"}
  BY <1>2, <1>3 DEF Sizes
<1>9. SizeKept'
  <2> SUFFICES ASSUME ~starved PROVE SizeKept'
    BY <1>2 DEF SizeKept
  <2>1. PICK x \in Int, e \in Int : x = fd_pos + cnt /\ e = op.adr + op.len /\ x <= e
    <3>1. fd_pos \in Int /\ cnt \in Int /\ op.adr \in Int /\ op.len \in Int
      BY <1>4, <1>5
    <3>2. fd_pos + cnt \in Int /\ op.adr + op.len \in Int
      BY <3>1
    <3>3. QED
      BY <1>5, <3>2, Zenon
  <2>2. op.kind = "read" => size' = size
    BY <1>1, <1>6, <2>1
  <2>3. op.kind = "write" /\ file_size = size => size' = size
    <3>1. op.kind = "write" /\ file_size = size => e <= size
      BY <1>3, <2>1 DEF SizeKept
    <3>2. \A y \in Int : e <= y => x <= y
      BY <2>1
    <3>4. size \in Int
      BY <1>4
    <3>3. QED
      BY <1>6, <2>1, <3>1, <3>2, <3>4
  <2>4. file_size \in {-1, size} /\ (op.kind = "write" /\ file_size = size => op.adr + op.len <= size)
    BY <1>3 DEF SizeKept
  <2>5. size' # -1
    BY <1>4, <1>6
  <2>6. file_size' \in {-1, size'}
    BY <1>2, <1>8, <2>2, <2>3, <2>4
  <2>7. op'.kind = "write" /\ file_size' = size' => op'.adr + op'.len <= size'
    BY <1>2, <2>3, <2>4, <2>5
  <2>8. QED
    BY <2>6, <2>7 DEF SizeKept
<1>10. QED
  BY <1>7, <1>9

LEMMA MappedInitSizes ==
    ASSUME SInv, op = Idle, ~starved, NEW max \in Nat, NEW rc, MappedInit(max, rc)
    PROVE  IsPlace(m') /\ file_size' \in {-1, size}
<1>1. PICK fail : /\ m' = Remap(0, "end", max, fail).m
                 /\ file_size' = IF m.size # 0 \/ Unknown(fail) THEN file_size ELSE size
  BY DEF MappedInit
<1>2. Types /\ Sizes /\ SizeKept
  BY DEF SInv, IInv
<1>3. PICK z \in Int : z = 0
  OBVIOUS
<1>4. PICK r : r = Remap(z, "end", max, fail)
  OBVIOUS
<1>5. IsPlace(r.m)
  BY <1>2, <1>3, <1>4, RemapSizes
<1>6. QED
  BY <1>1, <1>2, <1>3, <1>4, <1>5 DEF SizeKept

LEMMA SizesStep == SInv /\ [Next]_vars => SInv'
<1> SUFFICES ASSUME SInv, [Next]_vars PROVE SInv'
  OBVIOUS
<1>0. IInv /\ IInv' /\ Types /\ Sizes /\ SizeKept
  BY PlaceStep DEF SInv, IInv
<1>t. /\ IsPlace(m) /\ size \in Int /\ size >= 0 /\ next_block >= 0 /\ mapped_size_max \in Nat
      /\ (~starved => file_size \in {-1, size}) /\ memory_mapping \in BOOLEAN
  BY <1>0 DEF Types, Sizes, SizeKept
<1> SUFFICES Sizes' /\ SizeKept'
  BY <1>0 DEF SInv
<1>1. ASSUME NEW kind \in {"read", "write"}, NEW area \in Areas, Begin(kind, area[1], area[2])
      PROVE  Sizes' /\ SizeKept'
  BY <1>1, BeginSizes
<1>2. CASE MappedStep
  BY <1>2, MappedStepSizes
<1>3. CASE PlainStep
  BY <1>3, PlainStepSizes
<1>p. CASE PlainFails
  <2>1. op' = Idle /\ UNCHANGED <<size, file_size, starved, next_block, m, mapped_size_max>>
    BY <1>p DEF PlainFails, Finish
  <2>2. QED
    BY <1>t, <2>1, SizesAtEnd
<1>4. CASE Done
  <2>1. op' = Idle /\ UNCHANGED <<size, file_size, starved, next_block, m, mapped_size_max>>
    BY <1>4 DEF Done, Finish
  <2>2. QED
    BY <1>t, <2>1, SizesAtEnd
<1>5. CASE Sync
  <2>1. op' = Idle /\ UNCHANGED <<size, file_size, starved, next_block, m, mapped_size_max>>
    BY <1>5 DEF Sync
  <2>2. QED
    BY <1>t, <2>1, SizesAtEnd
<1>6. ASSUME NEW on \in BOOLEAN, SetMmap(on) PROVE Sizes' /\ SizeKept'
  <2>1. op' = Idle /\ op = Idle /\ ~starved /\ UNCHANGED <<size, starved, next_block, mapped_size_max>>
    BY <1>6 DEF SetMmap, Usable
  <2>2. \/ m' = m /\ file_size' = file_size
        \/ \E rc : MappedInit(mapped_size_max, rc)
        \/ m' \in {m, NoMap} /\ file_size' = file_size
    <3>1. CASE on = memory_mapping
      BY <1>6, <3>1, Zenon DEF SetMmap
    <3>2. CASE on /\ ~memory_mapping
      <4>1. on # memory_mapping
        BY <3>2, Zenon
      <4>2. \E rc \in {0, -1} : MappedInit(mapped_size_max, rc)
        BY <1>6, <3>2, <4>1 DEF SetMmap
      <4>3. QED
        BY <4>2
    <3>3. CASE ~on /\ memory_mapping
      <4>1. on # memory_mapping
        BY <3>3
      <4>2. m' = (IF m.region THEN NoMap ELSE m) /\ UNCHANGED file_size
        BY <1>6, <3>3, <4>1 DEF SetMmap
      <4>3. QED
        BY <4>2
    <3>4. QED
      BY <1>t, <3>1, <3>2, <3>3
  <2>3. IsPlace(NoMap)
    BY DEF NoMap, IsPlace, IsWindow
  <2>4. IsPlace(m') /\ file_size' \in {-1, size}
    BY <1>t, <2>1, <2>2, <2>3, MappedInitSizes
  <2>5. QED
    BY <1>t, <2>1, <2>4, SizesAtEnd
<1>7. ASSUME NEW n \in Limits, SetMaxMapSize(n) PROVE Sizes' /\ SizeKept'
  <2>1. /\ op' = Idle /\ op = Idle /\ ~starved /\ UNCHANGED <<size, starved, next_block>>
        /\ mapped_size_max' = Limit(n) /\ \E rc : MappedInit(Limit(n), rc)
    BY <1>7 DEF SetMaxMapSize, Usable
  <2>2. Limit(n) \in Nat
    BY LimitNat, ConstAssumption
  <2>3. IsPlace(m') /\ file_size' \in {-1, size}
    BY <2>1, <2>2, MappedInitSizes
  <2>4. QED
    BY <1>t, <2>1, <2>2, <2>3, SizesAtEnd
<1>8. CASE UNCHANGED vars
  BY <1>0, <1>8 DEF vars, Sizes, SizeKept, Left
<1>9. QED
  BY <1>1, <1>2, <1>3, <1>p, <1>4, <1>5, <1>6, <1>7, <1>8 DEF Next, Step

LEMMA SizesInit == Init => SInv
<1> SUFFICES ASSUME Init PROVE SInv
  OBVIOUS
<1>1. /\ m = [region |-> TRUE, size |-> InitSize, pos |-> 0, off |-> 0]
      /\ InitSize \in Nat /\ SizeMax \in Nat /\ op = Idle
      /\ size = InitSize /\ next_block = InitSize /\ mapped_size_max = SizeMax /\ file_size = InitSize
  BY ConstAssumption DEF Init
<1>2. IsPlace(m)
  BY <1>1 DEF IsPlace, IsWindow
<1>3. Sizes /\ SizeKept
  BY <1>1, <1>2, IdleKind DEF Sizes, SizeKept
<1>4. QED
  BY <1>3, PlaceInit DEF SInv

\* Whatever calls extend the file, through the window or without it, and whichever of
\* fstat, mmap, read and write fails, also when mmap fails after the file has been
\* extended, the size _gdbm_file_size keeps is the size of the file when a call has
\* returned (fullio.c:58, 110; mmap.c:175).
THEOREM SizeIsRight == Spec => []CachedSizeRight
<1>1. SInv => CachedSizeRight
  BY DEF SInv, SizeKept, CachedSizeRight
<1>2. QED
  BY SizesInit, SizesStep, <1>1, PTL DEF Spec

-----------------------------------------------------------------------------
(* The pages behind the window. *)

\* A quotient is known from a product and a remainder.
LEMMA QuotientIs ==
    ASSUME NEW P \in Nat \ {0}, NEW d \in Int, NEW s \in Int, 0 <= s, s < P, NEW x \in Int, x = d * P + s
    PROVE  x \div P = d
<1>1. PICK e \in Int, t \in Int : e = x \div P /\ x = e * P + t /\ 0 <= t /\ t < P
  <2>1. /\ x \div P \in Int /\ x % P \in Int /\ x = (x \div P) * P + (x % P) /\ 0 <= x % P /\ x % P < P
    OBVIOUS
  <2>2. QED
    BY <2>1
<1>2. \A a, b \in Int : a < b => a * P + P <= b * P
  <2>1. SUFFICES ASSUME NEW a \in Int, NEW b \in Int, a < b PROVE a * P + P <= b * P
    OBVIOUS
  <2>2. PICK c \in Nat : b = a + 1 + c
    <3>1. b - a - 1 \in Nat /\ b = a + 1 + (b - a - 1)
      BY <2>1
    <3>2. QED
      BY <3>1
  <2>3. b * P = a * P + P + c * P /\ c * P >= 0 /\ c * P \in Int /\ a * P \in Int
    BY <2>2
  <2>4. QED
    BY <2>3
<1>3. d * P \in Int /\ e * P \in Int
  OBVIOUS
<1>4. ~(d < e) /\ ~(e < d)
  BY <1>1, <1>2, <1>3
<1>5. QED
  BY <1>1, <1>4

\* What is between an offset and the end of a file that ends at a page, rounded up, begins
\* at the page of the offset.
LEMMA RoundUpRest ==
    ASSUME NEW f \in Nat, NEW q \in Nat, q <= f, f % PageSize = 0
    PROVE  RoundUp(f - q, PageSize) = (f - q) + (q % PageSize)
<1>1. PICK P \in Nat \ {0} : P = PageSize
  BY ConstAssumption
<1>2. PICK j \in Int : f = j * P
  <2>1. f \div P \in Int /\ f = (f \div P) * P + (f % P) /\ (f \div P) * P \in Int
    OBVIOUS
  <2>2. f % P = 0
    BY <1>1
  <2>3. f = (f \div P) * P
    BY <2>1, <2>2
  <2>4. QED
    BY <2>1, <2>3
<1>3. PICK k \in Int, r \in Int : q = k * P + r /\ 0 <= r /\ r < P /\ r = q % P
  <2>1. q \div P \in Int /\ q % P \in Int /\ q = (q \div P) * P + (q % P) /\ 0 <= q % P /\ q % P < P
    OBVIOUS
  <2>2. QED
    BY <2>1
<1>4. PICK d \in Int, s \in Int, x \in Int : d = j - k /\ s = P - 1 - r /\ x = f - q + P - 1
  OBVIOUS
<1>5. d * P = j * P - k * P /\ j * P \in Int /\ k * P \in Int /\ d * P \in Int
  <2>1. j * P \in Int /\ k * P \in Int /\ d * P \in Int
    OBVIOUS
  <2>2. j = d + k
    BY <1>4
  <2>3. (d + k) * P = d * P + k * P
    OBVIOUS
  <2>4. j * P = d * P + k * P
    BY <2>2, <2>3
  <2>5. QED
    BY <2>1, <2>4
<1>6. x = d * P + s /\ 0 <= s /\ s < P /\ d * P = (f - q) + r
  <2>1. PICK u \in Int, v \in Int, w \in Int : u = j * P /\ v = k * P /\ w = d * P
    BY <1>5
  <2>2. w = u - v /\ f = u /\ q = v + r
    BY <1>2, <1>3, <1>5, <2>1
  <2>5. 0 <= r /\ r < P
    BY <1>3
  <2>6. s = P - 1 - r /\ x = f - q + P - 1
    BY <1>4
  <2>3. x = w + s /\ 0 <= s /\ s < P /\ w = (f - q) + r
    BY <2>2, <2>5, <2>6
  <2>4. QED
    BY <2>1, <2>3
<1>7. x \div P = d
  BY <1>6, QuotientIs
<1>8. RoundUp(f - q, P) = d * P
  BY <1>4, <1>7 DEF RoundUp
<1>9. QED
  BY <1>1, <1>3, <1>6, <1>8

\* What is behind the window is mapped, a limit is at least a page, and reads stay inside
\* the file.
Backed ==
    /\ pages \in Int
    /\ m.region => m.size <= pages
    /\ mapped_size_max >= PageSize
    /\ op.kind = "read" => op.adr + op.len <= size

IsBacked(w, k) == k \in Int /\ (w.region => w.size <= k)

LEMMA PlacedFields ==
    ASSUME IsPlace(m), NEW n \in Int, NEW fs \in Int, NEW max \in Int
    PROVE  /\ Placed(n, fs, max).w.region = m.region /\ Placed(n, fs, max).w.size = m.size
           /\ n > max => /\ Placed(n, fs, max).w.off = Pos(m) /\ Placed(n, fs, max).w.pos = 0
                         /\ Placed(n, fs, max).n = IF Pos(m) + max > fs THEN fs - Pos(m) ELSE max
           /\ ~(n > max) => /\ Placed(n, fs, max).w.off = 0 /\ Placed(n, fs, max).w.pos = Pos(m)
                            /\ Placed(n, fs, max).n = n
<1>1. PICK q, k : q = Pos(m) /\ k = IF q + max > fs THEN fs - q ELSE max
  OBVIOUS
<1>2. Placed(n, fs, max) = IF n > max THEN [w |-> [m EXCEPT !.off = q, !.pos = 0], n |-> k]
                                      ELSE [w |-> [m EXCEPT !.pos = q, !.off = 0], n |-> n]
  BY <1>1 DEF Placed
<1>3. /\ [m EXCEPT !.off = q, !.pos = 0].size = m.size /\ [m EXCEPT !.pos = q, !.off = 0].size = m.size
      /\ [m EXCEPT !.off = q, !.pos = 0].region = m.region /\ [m EXCEPT !.pos = q, !.off = 0].region = m.region
      /\ [m EXCEPT !.pos = q, !.off = 0].pos = q /\ [m EXCEPT !.pos = q, !.off = 0].off = 0
      /\ [m EXCEPT !.off = q, !.pos = 0].pos = 0 /\ [m EXCEPT !.off = q, !.pos = 0].off = q
  BY DEF IsPlace, IsWindow
<1>4. CASE n > max
  <2>1. Placed(n, fs, max).w = [m EXCEPT !.off = q, !.pos = 0] /\ Placed(n, fs, max).n = k
    BY <1>2, <1>4
  <2>2. QED
    BY <1>1, <1>3, <1>4, <2>1
<1>5. CASE ~(n > max)
  <2>1. Placed(n, fs, max).w = [m EXCEPT !.pos = q, !.off = 0] /\ Placed(n, fs, max).n = n
    BY <1>2, <1>5
  <2>2. QED
    BY <1>1, <1>3, <1>5, <2>1
<1>6. QED
  BY <1>4, <1>5

\* Whatever _gdbm_mapped_remap does, there are pages behind a window.
LEMMA RemapBacked ==
    ASSUME Types, Sizes, Backed, NEW want \in Int, NEW flag, NEW max \in Int, NEW fail,
           want >= 0, max >= 0, NEW r, r = Remap(want, flag, max, fail)
    PROVE  IsBacked(r.m, r.pages)
<1> DEFINE n0 == IF flag = "end" /\ want < size THEN size ELSE want
           grows == ~reader /\ n0 > size /\ flag # "default"
           n == IF reader /\ n0 > size THEN size
                ELSE IF grows /\ n0 < next_block THEN next_block ELSE n0
           fs == IF grows THEN Extended(n) ELSE size
           place == Placed(n, fs, max)
           same == [rc |-> 0, m |-> m, pages |-> pages, size |-> size, fatal |-> FALSE]
           moved == Window(place.w, place.n)
           asked == want >= m.size /\ ~Unknown(fail)
           left == IF m.region THEN NoMap ELSE m
<1>1. /\ IsPlace(m) /\ size \in Int /\ size >= 0 /\ next_block \in Int /\ next_block >= 0
      /\ m.size \in Int /\ pages \in Int /\ (m.region => m.size <= pages)
  BY DEF Types, Sizes, IsPlace, IsWindow, Backed
<1>2. n \in Int /\ fs \in Int /\ n >= 0
  BY <1>1 DEF Extended
<1>3. \/ r = same
      \/ r = [same EXCEPT !.rc = -1, !.m = left, !.pages = 0]
      \/ r = [same EXCEPT !.rc = -1]
      \/ r = [same EXCEPT !.rc = -1, !.fatal = TRUE]
      \/ r = [same EXCEPT !.rc = -1, !.m = place.w, !.size = fs, !.fatal = TRUE]
      \/ r = [same EXCEPT !.rc = -1, !.m = [moved EXCEPT !.region = FALSE], !.pages = 0, !.size = fs]
      \/ /\ r = [same EXCEPT !.m = moved, !.pages = RoundUp(moved.size, PageSize), !.size = fs]
         /\ ~(Pos(m) > fs)
  <2>1. r = CASE want < m.size -> same
              [] want >= m.size /\ Unknown(fail) -> [same EXCEPT !.rc = -1, !.m = left, !.pages = 0]
              [] asked /\ ~reader /\ n0 > size /\ flag = "default" -> same
              [] asked /\ reader /\ n = m.off + m.size -> same
              [] asked /\ grows /\ fail = "calloc" -> [same EXCEPT !.rc = -1]
              [] asked /\ grows /\ fail = "write" -> [same EXCEPT !.rc = -1, !.fatal = TRUE]
              [] OTHER ->
                   IF Pos(m) > fs
                   THEN [same EXCEPT !.rc = -1, !.m = place.w, !.size = fs, !.fatal = TRUE]
                   ELSE IF fail = "mmap" /\ place.n # 0
                   THEN [same EXCEPT !.rc = -1, !.m = [moved EXCEPT !.region = FALSE],
                                     !.pages = 0, !.size = fs]
                   ELSE [same EXCEPT !.m = moved, !.pages = RoundUp(moved.size, PageSize), !.size = fs]
    BY DEF Remap
  <2> HIDE DEF same, n0, n, grows, fs, place, moved, left
  <2>2. QED
    BY <2>1
<1>l. ~left.region
  BY <1>1 DEF NoMap, IsPlace, IsWindow
<1> HIDE DEF n0, grows, n, fs, left
<1>4. /\ IsPlace(place.w) /\ place.n \in Int /\ (Pos(m) <= fs => place.n >= 0)
      /\ place.w.region = m.region /\ place.w.size = m.size
  BY <1>1, <1>2, PlacedSize, PlacedFields
<1> HIDE DEF place
<1>5. Pos(m) \in Int
  BY <1>1 DEF IsPlace, IsWindow, Pos
<1>6. ASSUME ~(Pos(m) > fs) PROVE moved.size \in Nat
  <2>1. place.n \in Int /\ place.n >= 0 /\ IsPlace(place.w)
    BY <1>2, <1>4, <1>5, <1>6
  <2>2. moved.size = place.n
    BY <2>1, WindowPlaced
  <2> HIDE DEF moved
  <2>3. QED
    BY <2>1, <2>2
<1>7. IsWindow(moved)
  <2>1. IsWindow(place.w)
    BY <1>4 DEF IsPlace
  <2>2. QED
    BY <1>4, <2>1, WindowPlace
<1> HIDE DEF moved
<1>u. CASE r = [same EXCEPT !.rc = -1, !.m = left, !.pages = 0]
  <2>1. r.m = left /\ r.pages = 0
    BY <1>u
  <2>2. QED
    BY <1>l, <2>1 DEF IsBacked
<1>8. CASE r = same \/ r = [same EXCEPT !.rc = -1] \/ r = [same EXCEPT !.rc = -1, !.fatal = TRUE]
  <2>0. /\ same.m = m /\ same.pages = pages
        /\ [same EXCEPT !.rc = -1, !.fatal = TRUE].m = m
        /\ [same EXCEPT !.rc = -1, !.fatal = TRUE].pages = pages
        /\ [same EXCEPT !.rc = -1].m = m /\ [same EXCEPT !.rc = -1].pages = pages
    OBVIOUS
  <2>1. r.m = m /\ r.pages = pages
    <3> HIDE DEF same
    <3> QED
      BY <1>8, <2>0
  <2>2. QED
    BY <1>1, <2>1 DEF IsBacked
<1>9. CASE r = [same EXCEPT !.rc = -1, !.m = place.w, !.size = fs, !.fatal = TRUE]
  <2>1. r.m = place.w /\ r.pages = pages
    BY <1>9
  <2>2. QED
    BY <1>1, <1>4, <2>1 DEF IsBacked
<1>10. CASE r = [same EXCEPT !.rc = -1, !.m = [moved EXCEPT !.region = FALSE], !.pages = 0, !.size = fs]
  <2>1. PICK w : w = [moved EXCEPT !.region = FALSE]
    OBVIOUS
  <2>2. ~w.region
    BY <1>7, <2>1 DEF IsWindow
  <2>3. r.m = w /\ r.pages = 0
    BY <1>10, <2>1
  <2>4. QED
    BY <2>2, <2>3 DEF IsBacked
<1>11. CASE /\ r = [same EXCEPT !.m = moved, !.pages = RoundUp(moved.size, PageSize), !.size = fs]
            /\ ~(Pos(m) > fs)
  <2>0. PICK z \in Nat : z = moved.size
    BY <1>6, <1>11
  <2>1. PICK k : z = moved.size /\ k = RoundUp(z, PageSize)
    BY <2>0
  <2>2. k \in Nat /\ k >= z
    BY <2>1, RoundUpNat, ConstAssumption
  <2>3. r.m = moved /\ r.pages = k
    BY <1>11, <2>1
  <2>4. QED
    BY <2>1, <2>2, <2>3 DEF IsBacked
<1>12. QED
  BY <1>3, <1>u, <1>8, <1>9, <1>10, <1>11

\* A piece that begins inside the window ends inside it.
LEMMA PieceInside ==
    ASSUME NEW w, IsWindow(w), Left \in Int, Left > 0, w.pos <= w.size
    PROVE  Piece(w) \in Int /\ w.pos + Piece(w) <= w.size /\ (w.pos = w.size => Piece(w) = 0)
<1>1. w.pos \in Int /\ w.size \in Int
  BY DEF IsWindow
<1>2. PICK d \in Int : d = w.size - w.pos /\ d >= 0
  BY <1>1
<1>3. \E x \in {Left, d} : \A y \in {Left, d} : x <= y
  BY <1>2
<1>4. Min({Left, d}) \in {Left, d} /\ Min({Left, d}) <= d /\ Min({Left, d}) <= Left
  BY <1>3 DEF Min
<1>5. Piece(w) = Min({Left, d})
  BY <1>1, <1>2 DEF Piece
<1>6. QED
  BY <1>1, <1>2, <1>4, <1>5

LEMMA WindowFields ==
    ASSUME NEW w, IsWindow(w), NEW n, n # 0
    PROVE  /\ Window(w, n).region = TRUE /\ Window(w, n).size = n
           /\ Window(w, n).pos = w.pos + (w.off % PageSize)
BY DEF Window

\* The memory that memcpy touches is mapped.
Covered(w, k) == w.region /\ w.pos + Piece(w) <= k

\* The window is moved to a place q, from which at least as much is left of the file as of
\* the call.
LEMMA MovedCovers ==
    ASSUME IsPlace(m), NEW q \in Nat, q = Pos(m), NEW l \in Nat, l > 0, Left = l,
           NEW n \in Int, NEW fs \in Nat, NEW max \in Int, max >= PageSize,
           q + l <= fs, q + l <= n, fs % PageSize = 0,
           NEW w, w = Window(Placed(n, fs, max).w, Placed(n, fs, max).n)
    PROVE  Covered(w, RoundUp(w.size, PageSize))
<1>1. PICK x, k : x = Placed(n, fs, max).w /\ k = Placed(n, fs, max).n
  OBVIOUS
<1>2. /\ IsPlace(x) /\ IsWindow(x) /\ k \in Int /\ w = Window(x, k) /\ k >= 0
  <2>1. n >= 0 /\ max >= 0 /\ q <= fs
    BY ConstAssumption
  <2>2. IsPlace(x) /\ k \in Int /\ k >= 0
    BY <1>1, <2>1, PlacedSize, SMTT(30)
  <2>3. QED
    BY <1>1, <2>2 DEF IsPlace
<1>3. /\ n > max => x.off = q /\ x.pos = 0 /\ k = IF q + max > fs THEN fs - q ELSE max
      /\ ~(n > max) => x.off = 0 /\ x.pos = q /\ k = n
  <2>1. /\ [m EXCEPT !.pos = q, !.off = 0].pos = q /\ [m EXCEPT !.pos = q, !.off = 0].off = 0
        /\ [m EXCEPT !.off = q, !.pos = 0].pos = 0 /\ [m EXCEPT !.off = q, !.pos = 0].off = q
    BY DEF IsPlace, IsWindow
  <2>2. CASE n > max
    <3>1. PICK z : z = IF q + max > fs THEN fs - q ELSE max
      OBVIOUS
    <3>2. Placed(n, fs, max) = [w |-> [m EXCEPT !.off = q, !.pos = 0], n |-> z]
      BY <2>2, <3>1 DEF Placed
    <3>3. x = [m EXCEPT !.off = q, !.pos = 0] /\ k = z
      BY <1>1, <3>2
    <3>4. QED
      BY <2>1, <2>2, <3>1, <3>3
  <2>3. CASE ~(n > max)
    <3>1. Placed(n, fs, max) = [w |-> [m EXCEPT !.pos = q, !.off = 0], n |-> n]
      BY <2>3 DEF Placed
    <3>2. x = [m EXCEPT !.pos = q, !.off = 0] /\ k = n
      BY <1>1, <3>1
    <3>3. QED
      BY <2>1, <2>3, <3>2
  <2>4. QED
    BY <2>2, <2>3
<1>4. IsWindow(w)
  BY <1>2, WindowPlace
<1>5. k > 0 /\ k # 0
  <2>1. PageSize \in Nat /\ PageSize > 0
    BY ConstAssumption
  <2>2. CASE n > max
    BY <1>3, <2>1, <2>2
  <2>3. CASE ~(n > max)
    BY <1>3, <2>3
  <2>4. QED
    BY <2>2, <2>3
<1>6. w.region = TRUE /\ w.size = k /\ w.pos = x.pos + (x.off % PageSize)
  <2>1. /\ Window(x, k).region = TRUE /\ Window(x, k).size = k
        /\ Window(x, k).pos = x.pos + (x.off % PageSize)
    BY <1>2, <1>5, WindowFields
  <2>2. QED
    BY <1>2, <2>1
<1>7. ASSUME w.pos <= w.size PROVE Covered(w, RoundUp(w.size, PageSize))
  <2>0. Left \in Int /\ Left > 0
    OBVIOUS
  <2>1. Piece(w) \in Int /\ w.pos + Piece(w) <= w.size
    BY <1>4, <1>7, <2>0, PieceInside
  <2>2. RoundUp(k, PageSize) \in Nat /\ RoundUp(k, PageSize) >= k
    <3>1. PICK kk \in Nat : kk = k
      BY <1>2, <1>5
    <3>2. PageSize \in Nat \ {0}
      BY ConstAssumption
    <3>3. RoundUp(kk, PageSize) \in Nat /\ RoundUp(kk, PageSize) >= kk
      BY <3>2, RoundUpNat
    <3>4. QED
      BY <3>1, <3>3
  <2>3. PICK g \in Nat : g = RoundUp(w.size, PageSize) /\ g >= w.size
    BY <1>6, <2>2
  <2>4. w.pos \in Int /\ w.size \in Int
    BY <1>4 DEF IsWindow
  <2>5. w.pos + Piece(w) <= g
    BY <2>1, <2>3, <2>4
  <2>6. QED
    BY <1>6, <2>3, <2>5 DEF Covered
<1>8. CASE ~(n > max)
  <2>1. PICK P \in Nat \ {0} : P = PageSize
    BY ConstAssumption
  <2>2. 0 % P = 0
    OBVIOUS
  <2>3. w.pos = q /\ w.size = n
    BY <1>3, <1>6, <1>8, <2>1, <2>2
  <2>4. QED
    BY <1>7, <2>3
<1>9. CASE n > max
  <2>1. PICK r \in Int : r = q % PageSize /\ 0 <= r /\ r < PageSize
    <3>1. PICK P \in Nat \ {0} : P = PageSize
      BY ConstAssumption
    <3>2. q % P \in Int /\ 0 <= q % P /\ q % P < P
      OBVIOUS
    <3>3. QED
      BY <3>1, <3>2
  <2>2. w.pos = r
    BY <1>3, <1>6, <1>9, <2>1
  <2>3. CASE ~(q + max > fs)
    <3>1. w.size = max
      BY <1>3, <1>6, <1>9, <2>3
    <3>2. PageSize \in Nat
      BY ConstAssumption
    <3>3. QED
      BY <1>7, <2>1, <2>2, <3>1, <3>2
  <2>4. CASE q + max > fs
    <3>1. w.size = fs - q
      BY <1>3, <1>6, <1>9, <2>4
    <3>2. CASE w.pos > w.size
      <4>1. Piece(w) = l
        BY <3>2 DEF Piece
      <4>2. RoundUp(fs - q, PageSize) = (fs - q) + r
        BY <2>1, RoundUpRest
      <4>3. PICK g \in Int : g = RoundUp(w.size, PageSize) /\ g = (fs - q) + r
        BY <3>1, <4>2
      <4>4. w.pos + Piece(w) <= g
        BY <2>2, <4>1, <4>3
      <4>5. QED
        BY <1>6, <4>3, <4>4 DEF Covered
    <3>3. CASE ~(w.pos > w.size)
      <4>1. w.pos <= w.size
        BY <2>2, <3>1, <3>3
      <4>2. QED
        BY <1>7, <4>1
    <3>4. QED
      BY <3>2, <3>3
  <2>5. QED
    BY <2>3, <2>4
<1>10. QED
  BY <1>8, <1>9

\* The results _gdbm_mapped_remap may have: the window is as it was, an error, or it is
\* moved and all of it has pages.
Outcome(r, want, flag, max) ==
    LET n0 == IF flag = "end" /\ want < size THEN size ELSE want
        grows == ~reader /\ n0 > size /\ flag # "default"
        n == IF reader /\ n0 > size THEN size
             ELSE IF grows /\ n0 < next_block THEN next_block ELSE n0
        fs == IF grows THEN Extended(n) ELSE size
        moved == Window(Placed(n, fs, max).w, Placed(n, fs, max).n)
    IN \/ r.m = m
       \/ r.rc = -1
       \/ r.m = moved /\ r.pages = RoundUp(moved.size, PageSize) /\ r.size = fs

LEMMA RemapOutcome ==
    ASSUME NEW want, NEW flag, NEW max, NEW fail, NEW r, r = Remap(want, flag, max, fail)
    PROVE  Outcome(r, want, flag, max)
<1> DEFINE n0 == IF flag = "end" /\ want < size THEN size ELSE want
           grows == ~reader /\ n0 > size /\ flag # "default"
           n == IF reader /\ n0 > size THEN size
                ELSE IF grows /\ n0 < next_block THEN next_block ELSE n0
           fs == IF grows THEN Extended(n) ELSE size
           place == Placed(n, fs, max)
           same == [rc |-> 0, m |-> m, pages |-> pages, size |-> size, fatal |-> FALSE]
           moved == Window(place.w, place.n)
           asked == want >= m.size /\ ~Unknown(fail)
           left == IF m.region THEN NoMap ELSE m
<1>1. \/ r = same
      \/ r = [same EXCEPT !.rc = -1, !.m = left, !.pages = 0]
      \/ r = [same EXCEPT !.rc = -1]
      \/ r = [same EXCEPT !.rc = -1, !.fatal = TRUE]
      \/ r = [same EXCEPT !.rc = -1, !.m = place.w, !.size = fs, !.fatal = TRUE]
      \/ r = [same EXCEPT !.rc = -1, !.m = [moved EXCEPT !.region = FALSE], !.pages = 0, !.size = fs]
      \/ r = [same EXCEPT !.m = moved, !.pages = RoundUp(moved.size, PageSize), !.size = fs]
  <2>1. r = CASE want < m.size -> same
              [] want >= m.size /\ Unknown(fail) -> [same EXCEPT !.rc = -1, !.m = left, !.pages = 0]
              [] asked /\ ~reader /\ n0 > size /\ flag = "default" -> same
              [] asked /\ reader /\ n = m.off + m.size -> same
              [] asked /\ grows /\ fail = "calloc" -> [same EXCEPT !.rc = -1]
              [] asked /\ grows /\ fail = "write" -> [same EXCEPT !.rc = -1, !.fatal = TRUE]
              [] OTHER ->
                   IF Pos(m) > fs
                   THEN [same EXCEPT !.rc = -1, !.m = place.w, !.size = fs, !.fatal = TRUE]
                   ELSE IF fail = "mmap" /\ place.n # 0
                   THEN [same EXCEPT !.rc = -1, !.m = [moved EXCEPT !.region = FALSE],
                                     !.pages = 0, !.size = fs]
                   ELSE [same EXCEPT !.m = moved, !.pages = RoundUp(moved.size, PageSize), !.size = fs]
    BY DEF Remap
  <2> HIDE DEF same, n0, n, grows, fs, place, moved, left
  <2>2. QED
    BY <2>1
<1>2. \/ r.m = m
      \/ r.rc = -1
      \/ r.m = moved /\ r.pages = RoundUp(moved.size, PageSize) /\ r.size = fs
  <2> HIDE DEF n0, grows, n, fs, place, moved, left
  <2>u. CASE r = [same EXCEPT !.rc = -1, !.m = left, !.pages = 0]
    BY <2>u
  <2>c. CASE r = [same EXCEPT !.rc = -1]
    BY <2>c
  <2>1. CASE r = same
    BY <2>1
  <2>2. CASE r = [same EXCEPT !.rc = -1, !.fatal = TRUE]
    BY <2>2
  <2>3. CASE r = [same EXCEPT !.rc = -1, !.m = place.w, !.size = fs, !.fatal = TRUE]
    BY <2>3
  <2>4. CASE r = [same EXCEPT !.rc = -1, !.m = [moved EXCEPT !.region = FALSE], !.pages = 0, !.size = fs]
    BY <2>4
  <2>5. CASE r = [same EXCEPT !.m = moved, !.pages = RoundUp(moved.size, PageSize), !.size = fs]
    BY <2>5
  <2>6. QED
    BY <1>1, <2>u, <2>c, <2>1, <2>2, <2>3, <2>4, <2>5, Zenon
<1>3. QED
  BY <1>2, Zenon DEF Outcome

\* A writer that may not extend the file leaves the window as it is.
LEMMA RemapRefused ==
    ASSUME NEW want \in Int, m.size \in Int, want >= m.size, ~reader, want > size, NEW max, NEW fail,
           NEW r, r = Remap(want, "default", max, fail), r.rc = 0
    PROVE  r.m = m
BY DEF Remap

\* After _gdbm_mapped_remap has moved the window for the rest of the call, that rest is
\* behind it, or as much of it as the window shows.
LEMMA RemapCovers ==
    ASSUME Types, Sizes, NEW l \in Nat, l > 0, Left = l, m.pos = m.size,
           NEW want \in Int, want = m.off + m.size + l, NEW flag \in {"default", "extend"},
           reader => want <= size, NEW max \in Int, max >= PageSize, NEW fail,
           NEW r, r = Remap(want, flag, max, fail), r.rc = 0, r.size % PageSize = 0
    PROVE  r.m = m \/ Covered(r.m, r.pages)
<1> DEFINE n0 == IF flag = "end" /\ want < size THEN size ELSE want
           grows == ~reader /\ n0 > size /\ flag # "default"
           n == IF reader /\ n0 > size THEN size
                ELSE IF grows /\ n0 < next_block THEN next_block ELSE n0
           fs == IF grows THEN Extended(n) ELSE size
           moved == Window(Placed(n, fs, max).w, Placed(n, fs, max).n)
<1>1. /\ IsPlace(m) /\ size \in Int /\ size >= 0 /\ next_block \in Int /\ m.off \in Int /\ m.size \in Int
      /\ m.pos \in Int /\ m.off >= 0 /\ m.pos >= 0
  BY DEF Types, Sizes, IsPlace, IsWindow
<1>2. PICK q \in Nat : q = Pos(m) /\ q + l = want
  <2>1. m.off + m.pos \in Nat /\ m.off + m.pos + l = want
    BY <1>1
  <2>2. QED
    BY <2>1 DEF Pos
<1>3. want >= m.size /\ ~(flag = "end") /\ ~(reader /\ want > size)
  BY <1>1
<1>4. Outcome(r, want, flag, max)
  BY RemapOutcome
<1>5. \/ r.m = m
      \/ r.rc = -1
      \/ r.m = moved /\ r.pages = RoundUp(moved.size, PageSize) /\ r.size = fs
  BY <1>4, Zenon DEF Outcome
<1>6. ASSUME ~reader, want > size, flag = "default" PROVE r.m = m
  BY <1>1, <1>3, <1>6, RemapRefused
<1>7. CASE r.m = moved /\ r.pages = RoundUp(moved.size, PageSize) /\ r.size = fs /\ r.m # m
  <2>1. n \in Int /\ want <= n /\ fs \in Nat /\ want <= fs
    <3>1. n0 = want
      BY <1>3
    <3> HIDE DEF n0
    <3>2. ~(~reader /\ want > size /\ flag = "default")
      BY <1>6, <1>7
    <3>3. QED
      BY <1>1, <1>3, <3>1, <3>2 DEF Extended
  <2> HIDE DEF n, fs
  <2>2. q + l <= fs /\ q + l <= n
    BY <1>2, <2>1
  <2>3. fs % PageSize = 0
    <3> HIDE DEF moved
    <3> QED
      BY <1>7
  <2>4. PICK w : w = moved
    OBVIOUS
  <2>5. Covered(w, RoundUp(w.size, PageSize))
    BY <1>1, <1>2, <2>1, <2>2, <2>3, <2>4, MovedCovers
  <2> HIDE DEF moved
  <2>6. QED
    BY <1>7, <2>4, <2>5
<1>8. QED
  <2> HIDE DEF moved, fs
  <2> QED
    BY <1>5, <1>7

\* The condition of PagesEnough for one step.
Apart == fault' /\ ~fault => size' % PageSize # 0 \/ (~m.region /\ m.size > 0)

\* A copy keeps region and size of the window; only memory that is not mapped is a fault.
LEMMA CopyBacked ==
    ASSUME NEW w, IsWindow(w), NEW k, IsBacked(w, k), Left \in Int, Left > 0, Copy(w, k)
    PROVE  IsBacked(m', k) /\ (fault' /\ ~fault => ~Covered(w, k))
<1>1. PICK cnt \in Int : cnt = Piece(w)
  BY PieceFits
<1>2. PICK q \in Int : q = w.pos + cnt
  BY DEF IsWindow
<1>3. m' = [w EXCEPT !.pos = q] /\ fault' = (fault \/ ~w.region \/ q > k)
  BY <1>1, <1>2 DEF Copy
<1>4. m'.region = w.region /\ m'.size = w.size
  BY <1>3 DEF IsWindow
<1>5. IsBacked(m', k)
  BY <1>4 DEF IsBacked
<1>6. fault' /\ ~fault => ~w.region \/ q > k
  BY <1>3, Zenon
<1>7. q > k => ~(q <= k)
  BY <1>2 DEF IsBacked
<1>8. QED
  BY <1>1, <1>2, <1>5, <1>6, <1>7, Zenon DEF Covered

LEMMA MappedStepBacked == ASSUME SInv, Backed, MappedStep PROVE Backed' /\ Apart
<1>0. PICK fail \in Faults :
         LET want == m.off + m.size + Left
             r == IF NeedRemap THEN Remap(want, Flag, mapped_size_max, fail)
                  ELSE [rc |-> 0, m |-> m, pages |-> pages, size |-> size, fatal |-> FALSE]
         IN /\ size' = r.size
            /\ pages' = r.pages
            /\ CASE r.rc = 0 /\ ~Exhausted(r.m) ->
                      /\ Copy(r.m, r.pages)
                      /\ fd_pos' = Descriptor(r)
                      /\ UNCHANGED <<op, memory_mapping>>
                 [] r.rc = 0 /\ Exhausted(r.m) ->
                      /\ m' = r.m
                      /\ Finish
                      /\ UNCHANGED <<memory_mapping, dirty, fault>>
                 [] r.rc # 0 /\ r.fatal ->
                      /\ m' = r.m
                      /\ Finish
                      /\ UNCHANGED <<memory_mapping, dirty, fault>>
                 [] OTHER ->
                      /\ m' = r.m
                      /\ memory_mapping' = FALSE
                      /\ fd_pos' = FallBack(r)
                      /\ UNCHANGED <<op, got, dirty, fault>>
            /\ UNCHANGED <<reader, next_block, mapped_size_max>>
  BY DEF MappedStep
<1> DEFINE want == m.off + m.size + Left
           r == IF NeedRemap THEN Remap(want, Flag, mapped_size_max, fail)
                ELSE [rc |-> 0, m |-> m, pages |-> pages, size |-> size, fatal |-> FALSE]
<1>1. size' = r.size /\ pages' = r.pages /\ UNCHANGED mapped_size_max
  BY <1>0
<1>2. \/ r.rc = 0 /\ ~Exhausted(r.m) /\ Copy(r.m, r.pages) /\ UNCHANGED op
      \/ m' = r.m /\ UNCHANGED fault /\ (op' = op \/ op' = Idle)
  BY <1>0 DEF Finish
<1>3. /\ Types /\ Sizes /\ op # Idle /\ memory_mapping /\ Left > 0 /\ Left \in Int
      /\ m.pos <= m.size /\ IsPlace(m) /\ size \in Int /\ Pos(m) = op.adr + Len(got) /\ Len(got) \in Nat
      /\ op.adr \in Int /\ op.len \in Int /\ mapped_size_max \in Int
  <2>1. IInv /\ Sizes
    BY DEF SInv
  <2>2. op # Idle /\ memory_mapping /\ Left > 0
    BY DEF MappedStep
  <2>3. QED
    BY <2>1, <2>2 DEF IInv, Types, InPlace, Here, Left, Sizes
<1>4. PICK l \in Nat : l = Left /\ l > 0
  BY <1>3
<1>5. want \in Int /\ want = m.off + m.size + l /\ want >= 0
  BY <1>3, <1>4 DEF IsPlace, IsWindow
<1>6. PageSize \in Nat /\ mapped_size_max >= PageSize /\ mapped_size_max >= 0
  <2>1. PageSize \in Nat /\ mapped_size_max >= PageSize
    BY ConstAssumption DEF Backed
  <2>2. QED
    BY <1>3, <2>1
<1> HIDE DEF want
<1>7. IsBacked(r.m, r.pages) /\ IsPlace(r.m) /\ r.size \in Int /\ r.size >= size
  <2>1. CASE NeedRemap
    <3>1. r = Remap(want, Flag, mapped_size_max, fail)
      BY <2>1
    <3> HIDE DEF r
    <3>2. IsBacked(r.m, r.pages)
      BY <1>3, <1>5, <1>6, <3>1, RemapBacked
    <3>3. IsPlace(r.m) /\ r.size \in Int /\ r.size >= size
      BY <1>3, <1>5, <1>6, <3>1, RemapSizes
    <3>4. QED
      BY <3>2, <3>3
  <2>2. CASE ~NeedRemap
    BY <1>3, <2>2 DEF Backed, IsBacked
  <2>3. QED
    BY <2>1, <2>2
<1>8. ASSUME r.rc = 0, ~Exhausted(r.m), r.size % PageSize = 0, ~(~m.region /\ m.size > 0)
      PROVE  Covered(r.m, r.pages)
  <2>1. IsWindow(m) /\ m.size \in Int /\ m.pos \in Int /\ m.size >= 0 /\ m.pos >= 0 /\ m.off \in Int
    BY <1>3 DEF IsPlace, IsWindow
  <2>2. CASE ~NeedRemap
    <3>1. r.m = m /\ r.pages = pages
      BY <2>2
    <3>2. m.region /\ m.size <= pages /\ pages \in Int
      BY <2>2 DEF NeedRemap, Backed
    <3>3. Piece(m) \in Int /\ m.pos + Piece(m) <= m.size
      BY <1>3, <2>1, PieceInside
    <3>4. m.pos + Piece(m) <= pages
      BY <2>1, <3>2, <3>3
    <3> HIDE DEF r
    <3>5. QED
      BY <3>1, <3>2, <3>4 DEF Covered
  <2>3. CASE NeedRemap
    <3>1. r = Remap(want, Flag, mapped_size_max, fail)
      BY <2>3
    <3> HIDE DEF r
    <3>2. m.pos = m.size
      <4>1. CASE m.pos = m.size
        BY <4>1
      <4>2. CASE ~m.region
        <5>1. ~(m.size > 0)
          BY <1>8, <4>2
        <5>2. QED
          BY <1>3, <2>1, <5>1
      <4>3. QED
        BY <2>3, <4>1, <4>2 DEF NeedRemap
    <3>3. Piece(m) = 0
      BY <1>3, <2>1, <3>2, PieceInside
    <3>4. r.m # m
      BY <1>8, <3>3 DEF Exhausted
    <3>5. reader => want <= size
      <4>1. PICK g \in Nat : g = Len(got)
        BY <1>3
      <4>2. Left = op.len - g /\ m.off + m.pos = op.adr + g
        BY <1>3, <4>1 DEF Left, Pos
      <4>3. want = op.adr + op.len
        BY <1>3, <1>4, <1>5, <2>1, <3>2, <4>2, SMTT(30)
      <4>4. reader => op.kind = "read"
        BY <1>3 DEF Sizes
      <4>5. QED
        BY <4>3, <4>4 DEF Backed
    <3>6. Flag \in {"default", "extend"}
      BY DEF Flag
    <3>7. r.rc = 0 /\ r.size % PageSize = 0
      BY <1>8
    <3>8. r.m = m \/ Covered(r.m, r.pages)
      BY <1>3, <1>4, <1>5, <1>6, <3>1, <3>2, <3>5, <3>6, <3>7, RemapCovers
    <3>9. QED
      BY <3>4, <3>8
  <2>4. QED
    BY <2>2, <2>3
<1> HIDE DEF r
<1>9. CASE r.rc = 0 /\ ~Exhausted(r.m) /\ Copy(r.m, r.pages) /\ UNCHANGED op
  <2>1. PICK w, k : w = r.m /\ k = r.pages
    OBVIOUS
  <2>2. IsWindow(w) /\ IsBacked(w, k) /\ Copy(w, k)
    BY <1>7, <1>9, <2>1 DEF IsPlace
  <2>3. IsBacked(m', k) /\ (fault' /\ ~fault => ~Covered(w, k))
    BY <1>3, <2>2, CopyBacked
  <2>4. Apart
    <3>1. SUFFICES ASSUME fault', ~fault, ~(~m.region /\ m.size > 0), size' % PageSize = 0 PROVE FALSE
      BY Zenon DEF Apart
    <3>2. r.size % PageSize = 0
      BY <1>1, <3>1
    <3>3. Covered(r.m, r.pages)
      BY <1>8, <1>9, <3>1, <3>2
    <3>4. QED
      BY <2>1, <2>3, <3>1, <3>3, Zenon
  <2>5. Backed'
    <3>1. op.kind = "read" => op.adr + op.len <= size'
      BY <1>1, <1>3, <1>7 DEF Backed
    <3>2. QED
      BY <1>1, <1>6, <1>9, <2>1, <2>3, <3>1 DEF Backed, IsBacked
  <2>6. QED
    BY <2>4, <2>5
<1>10. CASE m' = r.m /\ UNCHANGED fault /\ (op' = op \/ op' = Idle)
  <2>1. Apart
    BY <1>10, Zenon DEF Apart
  <2>2. op'.kind = "read" => op'.adr + op'.len <= size'
    <3>1. op.kind = "read" => op.adr + op.len <= size'
      BY <1>1, <1>3, <1>7 DEF Backed
    <3>2. QED
      BY <1>10, <3>1, IdleKind
  <2>3. Backed'
    BY <1>1, <1>6, <1>7, <1>10, <2>2 DEF Backed, IsBacked
  <2>4. QED
    BY <2>1, <2>3
<1>11. QED
  BY <1>2, <1>9, <1>10

LEMMA BeginBacked ==
    ASSUME SInv, Backed, NEW kind \in {"read", "write"}, NEW area \in Areas, Begin(kind, area[1], area[2])
    PROVE  Backed' /\ UNCHANGED fault
<1> DEFINE a == area[1]
           len == area[2]
<1>1. a \in Nat /\ len \in Nat
  BY ConstAssumption
<1> HIDE DEF a, len
<1>2. Begin(kind, a, len)
  BY DEF a, len
<1>3. /\ op' = [kind |-> kind, adr |-> a, len |-> len] /\ (kind = "read" => a + len <= size)
      /\ UNCHANGED <<size, mapped_size_max, fault>>
      /\ \/ m' = Sought(a) /\ pages' = IF m'.region THEN pages ELSE 0
         \/ m' = m /\ pages' = pages
  BY <1>2 DEF Begin
<1>4. op'.kind = kind /\ op'.adr = a /\ op'.len = len
  BY <1>3
<1>5. pages' \in Int /\ (m'.region => m'.size <= pages')
  <2>1. IsWindow(m) /\ pages \in Int /\ (m.region => m.size <= pages)
    BY DEF SInv, Sizes, IsPlace, Backed
  <2>2. Sought(a).region => m.region /\ Sought(a).size = m.size
    BY <2>1 DEF Sought, IsWindow
  <2>3. QED
    BY <1>3, <2>1, <2>2
<1>6. QED
  BY <1>3, <1>4, <1>5 DEF Backed

LEMMA MappedInitBacked ==
    ASSUME SInv, Backed, NEW max \in Nat, NEW rc, MappedInit(max, rc)
    PROVE  IsBacked(m', pages')
<1>1. PICK fail : /\ m' = Remap(0, "end", max, fail).m
                 /\ pages' = Remap(0, "end", max, fail).pages
  BY DEF MappedInit
<1>2. Types /\ Sizes
  BY DEF SInv, IInv
<1>3. PICK z \in Int : z = 0
  OBVIOUS
<1>4. PICK r : r = Remap(z, "end", max, fail)
  OBVIOUS
<1>5. IsBacked(r.m, r.pages)
  BY <1>2, <1>3, <1>4, RemapBacked
<1>6. QED
  BY <1>1, <1>3, <1>4, <1>5

\* A size that is not zero takes at least a page.
LEMMA RoundUpPage ==
    ASSUME NEW n \in Nat \ {0}
    PROVE  RoundUp(n, PageSize) \in Nat /\ RoundUp(n, PageSize) >= PageSize
<1>1. PICK P \in Nat \ {0} : P = PageSize
  BY ConstAssumption
<1>2. PICK x \in Nat : x = n + P - 1 /\ x >= P
  OBVIOUS
<1>3. PICK d \in Int, s \in Int : d = x \div P /\ x = d * P + s /\ 0 <= s /\ s < P
  <2>1. x \div P \in Int /\ x % P \in Int /\ x = (x \div P) * P + (x % P) /\ 0 <= x % P /\ x % P < P
    OBVIOUS
  <2>2. QED
    BY <2>1
<1>4. d >= 1
  <2>1. SUFFICES ASSUME d <= 0 PROVE FALSE
    OBVIOUS
  <2>2. PICK e \in Nat : d = -e
    <3>1. -d \in Nat /\ d = -(-d)
      BY <2>1
    <3>2. QED
      BY <3>1
  <2>3. e * P \in Nat /\ d * P = -(e * P)
    BY <2>2
  <2>4. QED
    BY <1>2, <1>3, <2>3
<1>5. d * P \in Int /\ d * P >= P
  <2>1. PICK e \in Nat : d = e + 1
    <3>1. d - 1 \in Nat /\ d = (d - 1) + 1
      BY <1>4
    <3>2. QED
      BY <3>1
  <2>2. e * P \in Nat /\ (e + 1) * P = e * P + P
    OBVIOUS
  <2>3. QED
    BY <2>1, <2>2
<1>6. RoundUp(n, P) = d * P
  BY <1>2, <1>3 DEF RoundUp
<1>7. QED
  BY <1>1, <1>5, <1>6

\* A limit is at least a page, also when it is lifted.
LEMMA LimitPage ==
    ASSUME NEW n \in Nat
    PROVE  Limit(n) \in Nat /\ Limit(n) >= PageSize
<1>1. CASE n = 0
  <2>1. PICK P \in Nat \ {0} : P = PageSize
    BY ConstAssumption
  <2>2. PICK d \in Int, s \in Int, x \in Int : d = 0 /\ s = P - 1 /\ x = d * P + s /\ x = n + P - 1
    BY <1>1
  <2>3. x \div P = d
    BY <2>2, QuotientIs
  <2>4. RoundUp(n, P) = 0
    BY <2>2, <2>3 DEF RoundUp
  <2>5. QED
    BY <2>1, <2>4, ConstAssumption DEF Limit
<1>2. CASE n # 0
  <2>1. RoundUp(n, PageSize) \in Nat /\ RoundUp(n, PageSize) >= PageSize
    BY <1>2, RoundUpPage
  <2>2. QED
    BY <2>1, ConstAssumption DEF Limit
<1>3. QED
  BY <1>1, <1>2

LEMMA PlainStepBacked == ASSUME SInv, Backed, PlainStep PROVE Backed' /\ UNCHANGED fault
<1>1. PICK cnt \in {1, Left} : size' = Extended(fd_pos + cnt)
  BY DEF PlainStep
<1>2. UNCHANGED <<m, pages, mapped_size_max, op, fault>>
  BY DEF PlainStep
<1>3. Types
  BY DEF SInv, IInv
<1>4. size \in Int /\ fd_pos \in Int /\ Left \in Int /\ op.adr \in Int /\ op.len \in Int
  BY <1>3 DEF Types, Left
<1>5. PICK x \in Int : x = fd_pos + cnt
  BY <1>1, <1>4
<1>6. size' = IF size < x THEN x ELSE size
  BY <1>1, <1>5 DEF Extended
<1>7. PICK e \in Int : e = op.adr + op.len
  BY <1>4
<1>8. e <= size => e <= size'
  BY <1>4, <1>6
<1>9. QED
  BY <1>2, <1>7, <1>8 DEF Backed

PInv == SInv /\ Backed

LEMMA BackedStep == PInv /\ [Next]_vars => PInv' /\ Apart
<1> SUFFICES ASSUME PInv, [Next]_vars PROVE PInv' /\ Apart
  OBVIOUS
<1>0. SInv /\ SInv' /\ Backed
  BY SizesStep DEF PInv
<1>t. pages \in Int /\ (m.region => m.size <= pages) /\ mapped_size_max \in Nat /\ mapped_size_max >= PageSize
      /\ memory_mapping \in BOOLEAN
  BY <1>0 DEF Backed, SInv, Sizes, IInv, Types
<1>a. UNCHANGED fault => Apart
  BY Zenon DEF Apart
<1>i. op' = Idle => op'.kind # "read"
  BY IdleKind
<1> SUFFICES Backed' /\ Apart
  BY <1>0 DEF PInv
<1>1. ASSUME NEW kind \in {"read", "write"}, NEW area \in Areas, Begin(kind, area[1], area[2])
      PROVE  Backed' /\ Apart
  BY <1>0, <1>1, <1>a, BeginBacked
<1>2. CASE MappedStep
  BY <1>0, <1>2, MappedStepBacked
<1>3. CASE PlainStep
  BY <1>0, <1>3, <1>a, PlainStepBacked
<1>p. CASE PlainFails
  <2>1. op' = Idle /\ UNCHANGED <<m, pages, mapped_size_max, fault>>
    BY <1>p DEF PlainFails, Finish
  <2>2. QED
    BY <1>t, <1>a, <1>i, <2>1 DEF Backed
<1>4. CASE Done
  <2>1. op' = Idle /\ UNCHANGED <<m, pages, mapped_size_max, fault>>
    BY <1>4 DEF Done, Finish
  <2>2. QED
    BY <1>t, <1>a, <1>i, <2>1 DEF Backed
<1>5. CASE Sync
  <2>1. op' = Idle /\ UNCHANGED <<m, pages, mapped_size_max, fault>>
    BY <1>5 DEF Sync
  <2>2. QED
    BY <1>t, <1>a, <1>i, <2>1 DEF Backed
<1>6. ASSUME NEW on \in BOOLEAN, SetMmap(on) PROVE Backed' /\ Apart
  <2>1. op' = Idle /\ UNCHANGED <<mapped_size_max, fault>>
    BY <1>6 DEF SetMmap, Usable
  <2>2. IsBacked(m', pages')
    <3>1. CASE on = memory_mapping
      <4>1. m' = m /\ pages' = pages
        BY <1>6, <3>1, Zenon DEF SetMmap
      <4>2. QED
        BY <1>t, <4>1 DEF IsBacked
    <3>2. CASE on /\ ~memory_mapping
      <4>1. on # memory_mapping
        BY <3>2, Zenon
      <4>2. \E rc \in {0, -1} : MappedInit(mapped_size_max, rc)
        BY <1>6, <3>2, <4>1 DEF SetMmap
      <4>3. QED
        BY <1>0, <1>t, <4>2, MappedInitBacked
    <3>3. CASE ~on /\ memory_mapping
      <4>1. on # memory_mapping
        BY <3>3
      <4>2. m' = (IF m.region THEN NoMap ELSE m) /\ pages' = 0
        BY <1>6, <3>3, <4>1 DEF SetMmap
      <4>3. ~m'.region
        BY <4>2 DEF NoMap
      <4>4. QED
        BY <4>2, <4>3 DEF IsBacked
    <3>4. QED
      BY <1>t, <3>1, <3>2, <3>3
  <2>3. QED
    BY <1>t, <1>a, <1>i, <2>1, <2>2 DEF Backed, IsBacked
<1>7. ASSUME NEW n \in Limits, SetMaxMapSize(n) PROVE Backed' /\ Apart
  <2>1. /\ op' = Idle /\ UNCHANGED fault
        /\ mapped_size_max' = Limit(n) /\ \E rc : MappedInit(Limit(n), rc)
    BY <1>7 DEF SetMaxMapSize, Usable
  <2>2. Limit(n) \in Nat /\ Limit(n) >= PageSize
    BY LimitPage, ConstAssumption
  <2>3. IsBacked(m', pages')
    BY <1>0, <2>1, <2>2, MappedInitBacked
  <2>4. QED
    BY <1>a, <1>i, <2>1, <2>2, <2>3 DEF Backed, IsBacked
<1>8. CASE UNCHANGED vars
  <2>1. UNCHANGED <<m, pages, mapped_size_max, op, size, fault>>
    BY <1>8 DEF vars
  <2>2. QED
    BY <1>0, <1>a, <2>1 DEF Backed
<1>9. QED
  BY <1>1, <1>2, <1>3, <1>p, <1>4, <1>5, <1>6, <1>7, <1>8 DEF Next, Step

LEMMA BackedInit == Init => PInv
<1> SUFFICES ASSUME Init PROVE PInv
  OBVIOUS
<1>1. /\ m = [region |-> TRUE, size |-> InitSize, pos |-> 0, off |-> 0] /\ pages = RoundUp(InitSize, PageSize)
      /\ op = Idle /\ mapped_size_max = SizeMax
  BY DEF Init
<1>2. InitSize \in Nat /\ PageSize \in Nat \ {0} /\ SizeMax >= PageSize
  BY ConstAssumption
<1>3. RoundUp(InitSize, PageSize) \in Nat /\ RoundUp(InitSize, PageSize) >= InitSize
  BY <1>2, RoundUpNat
<1>4. m.size = InitSize /\ op.kind # "read"
  BY <1>1, IdleKind
<1>5. Backed
  BY <1>1, <1>2, <1>3, <1>4 DEF Backed
<1>6. QED
  BY <1>5, SizesInit DEF PInv

\* Wherever the window is moved to, aligned to a page and cut at the end of the file or at
\* the limit, the memcpy of _gdbm_mapped_read and _gdbm_mapped_write (mmap.c:271, 324) stays
\* inside the pages that are mapped, even where mapped_pos has passed mapped_size: provided
\* the file ends at a page and mapped_size is not left over from an mmap that failed.
THEOREM MemoryIsMapped == Spec => PagesEnough
<1>1. PInv /\ [Next]_vars => PInv'
  BY BackedStep
<1>2. PInv /\ [Next]_vars => [Apart]_vars
  BY BackedStep
<1>3. QED
  BY BackedInit, <1>1, <1>2, PTL DEF Spec, PagesEnough, Apart

-----------------------------------------------------------------------------
(* What a sync covers. *)

\* A bound on the size of the file after k failures of system calls: it grows with what is
\* written, and by a size that a failed mmap has left behind.
Grown(k) == InitSize + (k + 1) * MaxSize

\* The window w is that of a failed mmap.
LeftOver(w) == ~w.region /\ w.size > 0

\* Window w and a file of s bytes keep to the bound.
Bounded(w, s, k) ==
    IF LeftOver(w)
    THEN k > 0 /\ s <= Grown(k - 1) /\ w.size <= Grown(k - 1)
    ELSE s <= Grown(k)

\* The window begins at the start of the file and has all the bytes D.
Shows(w, D) == w.region => w.off = 0 /\ D \subseteq Bytes(0, w.size)

\* The window was given up for an access behind it, of which nothing is done yet.
GivenUp ==
    /\ op # Idle /\ got = <<>> /\ m.size = 0
    /\ dirty \subseteq Bytes(0, m.off)

\* The window shows all that was written, or is given up before any of it is used.
Unlimited ==
    /\ Shows(m, dirty)
    /\ ~memory_mapping => ~m.region
    /\ memory_mapping /\ ~m.region /\ ~need_recovery => dirty = {} \/ GivenUp
    /\ ~need_recovery => Bounded(m, size, fails)

\* Only a writer writes, inside the space the header counts.
Writes ==
    /\ fails \in 0 .. MaxFails
    /\ reader => dirty = {}
    /\ op # Idle => next_block <= MaxSize /\ op.len > 0 /\ ~need_recovery
    /\ op.kind = "write" => op.adr + op.len <= next_block

\* That is so as long as no limit was set, and until calloc fails.
Whole == ~limited /\ ~starved => mapped_size_max = SizeMax /\ Unlimited

WInv == PInv /\ Writes /\ Whole

LEMMA GrownIs ==
    ASSUME NEW k \in Nat
    PROVE  /\ Grown(k) \in Nat /\ Grown(k + 1) = Grown(k) + MaxSize
           /\ InitSize <= Grown(k) /\ MaxSize <= Grown(k)
<1>1. PICK S \in Nat, I \in Nat : S = MaxSize /\ I = InitSize
  BY ConstAssumption
<1>2. PICK x \in Nat : x = k * S
  OBVIOUS
<1>3. (k + 1) * S = x + S
  BY <1>2
<1>4. ((k + 1) + 1) * S = (x + S) + S
  BY <1>2
<1>5. Grown(k) = I + (x + S)
  BY <1>1, <1>3 DEF Grown
<1>6. Grown(k + 1) = I + ((x + S) + S)
  BY <1>1, <1>4 DEF Grown
<1>7. QED
  BY <1>1, <1>5, <1>6

LEMMA GrownFits ==
    ASSUME NEW k \in 0 .. MaxFails
    PROVE  Grown(k) \in Nat /\ Grown(k) <= SizeMax
<1>1. PICK S \in Nat, I \in Nat, M \in Nat : S = MaxSize /\ I = InitSize /\ M = MaxFails
  BY ConstAssumption
<1>2. PICK c \in Nat : M = k + c
  <2>1. M - k \in Nat /\ M = k + (M - k)
    BY <1>1
  <2>2. QED
    BY <2>1
<1>3. PICK x \in Nat, y \in Nat : x = (k + 1) * S /\ y = c * S
  OBVIOUS
<1>4. (M + 1) * S = x + y
  <2>1. ((k + 1) + c) * S = (k + 1) * S + c * S
    OBVIOUS
  <2>2. M + 1 = (k + 1) + c
    BY <1>2
  <2>3. QED
    BY <1>3, <2>1, <2>2
<1>5. I + (x + y) <= SizeMax /\ SizeMax \in Nat
  BY <1>1, <1>4, SizeMaxAssumption, ConstAssumption
<1>6. Grown(k) = I + x
  BY <1>1, <1>3 DEF Grown
<1>7. QED
  BY <1>5, <1>6

\* Bounded, with the bound of the present and of the failure before.
LEMMA BoundedIs ==
    ASSUME NEW w, w.size \in Int, NEW s \in Int, NEW k \in Nat, Bounded(w, s, k)
    PROVE  /\ s <= Grown(k)
           /\ LeftOver(w) => w.size + MaxSize <= Grown(k)
           /\ Bounded(w, s, k + 1)
           /\ \A t \in Int : t <= s \/ t <= MaxSize => Bounded(w, t, k)
<1>1. PICK S \in Nat : S = MaxSize
  BY ConstAssumption
<1>2. PICK g \in Nat : g = Grown(k) /\ Grown(k + 1) = g + S /\ S <= g
  BY <1>1, GrownIs
<1>3. CASE LeftOver(w)
  <2>1. k > 0 /\ s <= Grown(k - 1) /\ w.size <= Grown(k - 1)
    BY <1>3 DEF Bounded
  <2>2. PICK j \in Nat : j = k - 1 /\ j + 1 = k
    BY <2>1
  <2>3. PICK h \in Nat : h = Grown(k - 1) /\ g = h + S /\ S <= h
    <3>1. Grown(j) \in Nat /\ Grown(j + 1) = Grown(j) + MaxSize /\ MaxSize <= Grown(j)
      BY GrownIs
    <3>2. QED
      BY <1>1, <1>2, <2>2, <3>1
  <2>4. s <= h /\ w.size <= h
    BY <2>1, <2>3
  <2>5. s <= g /\ w.size <= g /\ w.size + S <= g
    BY <2>3, <2>4
  <2>6. Bounded(w, s, k + 1)
    <3>1. k + 1 > 0 /\ (k + 1) - 1 = k
      OBVIOUS
    <3>2. QED
      BY <1>2, <1>3, <2>5, <3>1 DEF Bounded
  <2>7. ASSUME NEW t \in Int, t <= s \/ t <= MaxSize PROVE Bounded(w, t, k)
    <3>1. t <= h
      BY <1>1, <2>3, <2>4, <2>7
    <3>2. QED
      BY <1>3, <2>1, <2>3, <3>1 DEF Bounded
  <2>8. QED
    BY <1>1, <1>2, <2>5, <2>6, <2>7
<1>4. CASE ~LeftOver(w)
  <2>1. s <= g
    BY <1>2, <1>4 DEF Bounded
  <2>2. s <= g + S
    BY <2>1
  <2>3. Bounded(w, s, k + 1)
    BY <1>2, <1>4, <2>2 DEF Bounded
  <2>4. ASSUME NEW t \in Int, t <= s \/ t <= MaxSize PROVE Bounded(w, t, k)
    <3>1. t <= g
      BY <1>1, <1>2, <2>1, <2>4
    <3>2. QED
      BY <1>2, <1>4, <3>1 DEF Bounded
  <2>5. QED
    BY <1>2, <1>4, <2>1, <2>3, <2>4
<1>5. QED
  BY <1>3, <1>4

\* A window that begins at the start of the file.
LEMMA FromStart ==
    ASSUME NEW w, IsPlace(w), w.off = 0, NEW n \in Nat, NEW v, v = Window(w, n)
    PROVE  v.off = 0 /\ v.size = n /\ v.pos = w.pos /\ (v.region <=> n # 0)
<1>1. w.off \in Int /\ w.pos \in Int
  BY DEF IsPlace, IsWindow
<1>2. CASE n = 0
  BY <1>2 DEF Window, IsWindow, IsPlace
<1>3. CASE n # 0
  <2>1. PICK o \in Int, p \in Int : /\ o = (w.off \div PageSize) * PageSize /\ p = w.off % PageSize
                                    /\ o + p = w.off
    BY <1>1, PageAligned
  <2>2. p = 0
    <3>1. PICK P \in Nat \ {0} : P = PageSize
      BY ConstAssumption
    <3>2. 0 % P = 0
      OBVIOUS
    <3>3. QED
      BY <2>1, <3>1, <3>2
  <2>3. o = 0
    BY <2>1, <2>2
  <2>4. v = [region |-> TRUE, size |-> n, pos |-> w.pos + p, off |-> o]
    BY <1>3, <2>1 DEF Window
  <2>5. QED
    BY <1>1, <1>3, <2>2, <2>3, <2>4
<1>4. QED
  BY <1>2, <1>3

\* The results of _gdbm_mapped_remap without a limit, unless calloc fails: nothing to do,
\* a fatal error, a failing fstat, a failing mmap, before which the file may have been
\* extended, or a window from the start of the file to what is wanted or its end.
Remapped(r, want, flag, B) ==
    \/ /\ r.rc = 0 /\ ~r.fatal /\ r.m = m /\ r.size = size
       /\ want < m.size \/ reader \/ (flag = "default" /\ want > size)
    \/ /\ r.rc = -1 /\ r.fatal
       /\ r.m.region = m.region /\ r.m.size = m.size /\ r.m.off \in {m.off, 0}
    \/ r.rc = -1 /\ ~r.fatal /\ r.m.region = FALSE /\ (r.m.size = 0 \/ r.m = m) /\ r.size = size
    \/ r.rc = -1 /\ ~r.fatal /\ r.m.region = FALSE /\ r.m.size <= B /\ r.size <= B
    \/ /\ r.rc = 0 /\ ~r.fatal /\ r.size <= B
       /\ r.m.off = 0 /\ r.m.pos = Pos(m) /\ (r.m.region <=> r.m.size # 0)
       /\ reader \/ want <= r.m.size

LEMMA RemapWhole ==
    ASSUME Types, Sizes, NEW want \in Int, want >= 0, NEW flag, NEW fail, fail # "calloc",
           NEW B \in Nat, B <= SizeMax, size <= B,
           ~reader /\ flag # "default" /\ want > size => want <= B /\ next_block <= B,
           NEW r, r = Remap(want, flag, SizeMax, fail)
    PROVE  Remapped(r, want, flag, B) /\ (r.rc = -1 /\ ~r.fatal => fail # "none")
<1> DEFINE n0 == IF flag = "end" /\ want < size THEN size ELSE want
           grows == ~reader /\ n0 > size /\ flag # "default"
           n == IF reader /\ n0 > size THEN size
                ELSE IF grows /\ n0 < next_block THEN next_block ELSE n0
           fs == IF grows THEN Extended(n) ELSE size
           place == Placed(n, fs, SizeMax)
           same == [rc |-> 0, m |-> m, pages |-> pages, size |-> size, fatal |-> FALSE]
           moved == Window(place.w, place.n)
           asked == want >= m.size /\ ~Unknown(fail)
           left == IF m.region THEN NoMap ELSE m
           allowed == ~reader /\ flag = "default" => ~(n0 > size)
<1>1. /\ IsPlace(m) /\ size \in Int /\ size >= 0 /\ next_block \in Int /\ next_block >= 0
      /\ m.size \in Int /\ m.size >= 0
  BY DEF Types, Sizes, IsPlace, IsWindow
<1>2. \/ r = same /\ (want < m.size \/ reader \/ (flag = "default" /\ want > size))
      \/ r = [same EXCEPT !.rc = -1, !.m = left, !.pages = 0] /\ fail # "none"
      \/ r = [same EXCEPT !.rc = -1, !.fatal = TRUE]
      \/ r = [same EXCEPT !.rc = -1, !.m = place.w, !.size = fs, !.fatal = TRUE] /\ allowed
      \/ /\ r = [same EXCEPT !.rc = -1, !.m = [moved EXCEPT !.region = FALSE], !.pages = 0, !.size = fs]
         /\ fail # "none" /\ allowed
      \/ /\ r = [same EXCEPT !.m = moved, !.pages = RoundUp(moved.size, PageSize), !.size = fs]
         /\ allowed
  <2>1. n0 > size /\ flag = "default" => want > size
    OBVIOUS
  <2>2. r = CASE want < m.size -> same
              [] want >= m.size /\ Unknown(fail) -> [same EXCEPT !.rc = -1, !.m = left, !.pages = 0]
              [] asked /\ ~reader /\ n0 > size /\ flag = "default" -> same
              [] asked /\ reader /\ n = m.off + m.size -> same
              [] asked /\ grows /\ fail = "calloc" -> [same EXCEPT !.rc = -1]
              [] asked /\ grows /\ fail = "write" -> [same EXCEPT !.rc = -1, !.fatal = TRUE]
              [] OTHER ->
                   IF Pos(m) > fs
                   THEN [same EXCEPT !.rc = -1, !.m = place.w, !.size = fs, !.fatal = TRUE]
                   ELSE IF fail = "mmap" /\ place.n # 0
                   THEN [same EXCEPT !.rc = -1, !.m = [moved EXCEPT !.region = FALSE],
                                     !.pages = 0, !.size = fs]
                   ELSE [same EXCEPT !.m = moved, !.pages = RoundUp(moved.size, PageSize), !.size = fs]
    BY DEF Remap
  <2>3. want < m.size \/ want >= m.size
    BY <1>1
  <2>4. Unknown(fail) => fail # "none"
    BY DEF Unknown
  <2> HIDE DEF same, n0, n, grows, fs, place, moved, left
  <2>5. QED
    BY <2>1, <2>2, <2>3, <2>4
<1>3. /\ n \in Int /\ fs \in Int /\ n >= 0
      /\ (allowed => n <= B /\ fs <= B)
      /\ reader \/ want <= n
  BY <1>1 DEF Extended
<1>l. left.region = FALSE /\ (left.size = 0 \/ left = m)
  BY <1>1 DEF NoMap, IsPlace, IsWindow
<1> HIDE DEF n0, grows, n, fs, allowed, left
<1>4. PICK x : x = place.w
  OBVIOUS
<1>5. ASSUME allowed
      PROVE  /\ IsPlace(x) /\ x.region = m.region /\ x.size = m.size
             /\ x.off = 0 /\ x.pos = Pos(m) /\ place.n = n /\ n \in Nat /\ n <= B /\ fs <= B
  <2>1. SizeMax \in Int /\ SizeMax >= 0
    BY ConstAssumption
  <2>2. n \in Nat /\ n <= B /\ fs <= B /\ ~(n > SizeMax)
    BY <1>3, <1>5, <2>1
  <2>0. IsPlace(m) /\ n \in Int /\ fs \in Int /\ n >= 0
    BY <1>1, <1>3
  <2>3. PICK M \in Int : M = SizeMax /\ M >= 0 /\ ~(n > M)
    BY <2>1, <2>2
  <2>4. IsPlace(Placed(n, fs, M).w)
    BY <2>0, <2>3, PlacedSize
  <2>5. /\ Placed(n, fs, M).w.region = m.region /\ Placed(n, fs, M).w.size = m.size
        /\ Placed(n, fs, M).w.off = 0 /\ Placed(n, fs, M).w.pos = Pos(m) /\ Placed(n, fs, M).n = n
    BY <2>0, <2>3, PlacedFields
  <2>6. QED
    BY <1>4, <2>2, <2>3, <2>4, <2>5
<1> HIDE DEF place
<1>6. PICK v : v = moved
  OBVIOUS
<1>7. ASSUME allowed
      PROVE  /\ IsWindow(v) /\ v.off = 0 /\ v.size = n /\ v.pos = Pos(m) /\ (v.region <=> n # 0)
  <2>1. v = Window(x, n) /\ IsWindow(x) /\ n \in Int
    BY <1>4, <1>5, <1>6, <1>7 DEF IsPlace
  <2>2. v.off = 0 /\ v.size = n /\ v.pos = x.pos /\ (v.region <=> n # 0)
    BY <1>5, <1>7, <2>1, FromStart
  <2>3. IsWindow(v)
    BY <2>1, WindowPlace
  <2>4. QED
    BY <1>5, <1>7, <2>2, <2>3
<1> HIDE DEF moved
<1>8. CASE r = same /\ (want < m.size \/ reader \/ (flag = "default" /\ want > size))
  BY <1>8 DEF Remapped
<1>u. CASE r = [same EXCEPT !.rc = -1, !.m = left, !.pages = 0] /\ fail # "none"
  <2>1. r.m = left /\ r.size = size /\ r.rc = -1 /\ r.fatal = FALSE
    BY <1>u
  <2>2. QED
    BY <1>l, <1>u, <2>1 DEF Remapped
<1>9. CASE r = [same EXCEPT !.rc = -1, !.fatal = TRUE]
  BY <1>9 DEF Remapped
<1>10. CASE r = [same EXCEPT !.rc = -1, !.m = place.w, !.size = fs, !.fatal = TRUE] /\ allowed
  <2>1. r.m = x /\ r.rc = -1 /\ r.fatal = TRUE
    BY <1>4, <1>10
  <2>2. QED
    BY <1>5, <1>10, <2>1 DEF Remapped
<1>11. CASE /\ r = [same EXCEPT !.rc = -1, !.m = [moved EXCEPT !.region = FALSE], !.pages = 0, !.size = fs]
            /\ fail # "none" /\ allowed
  <2>1. PICK w : w = [v EXCEPT !.region = FALSE]
    OBVIOUS
  <2>2. w.region = FALSE /\ w.size = n
    BY <1>7, <1>11, <2>1 DEF IsWindow
  <2>3. r.m = w /\ r.size = fs /\ r.rc = -1 /\ r.fatal = FALSE
    BY <1>6, <1>11, <2>1
  <2>4. QED
    BY <1>5, <1>11, <2>2, <2>3 DEF Remapped
<1>12. CASE /\ r = [same EXCEPT !.m = moved, !.pages = RoundUp(moved.size, PageSize), !.size = fs]
            /\ allowed
  <2>1. r.m = v /\ r.size = fs /\ r.rc = 0 /\ r.fatal = FALSE
    BY <1>6, <1>12
  <2>2. QED
    BY <1>3, <1>5, <1>7, <1>12, <2>1 DEF Remapped
<1>13. QED
  BY <1>2, <1>8, <1>u, <1>9, <1>10, <1>11, <1>12

\* What the rest of an iteration relies on: the window shows what was written; if there
\* is none then the call may not go on, or nothing was written and it only reads.
Ready(r, k) ==
    /\ IsPlace(r.m) /\ Shows(r.m, dirty) /\ r.size \in Int
    /\ r.rc = 0 => /\ ~r.fatal
                   /\ r.m.region \/ (dirty = {} /\ op.kind # "write")
                   /\ op.kind = "write" => r.m.pos <= r.m.size
    /\ r.rc # 0 => r.fatal \/ ~r.m.region
    /\ ~r.fatal => Bounded(r.m, r.size, k)

\* Result r of an iteration's _gdbm_mapped_remap, after which k system
\* calls have failed, but not calloc.
InStep(r, fail, k) ==
    /\ op # Idle /\ memory_mapping /\ Left > 0
    /\ fail # "calloc" /\ (fail = "none" \/ (NeedRemap /\ fails < MaxFails))
    /\ k = IF fail = "none" THEN fails ELSE fails + 1
    /\ r = IF NeedRemap THEN Remap(m.off + m.size + Left, Flag, SizeMax, fail)
           ELSE [rc |-> 0, m |-> m, pages |-> pages, size |-> size, fatal |-> FALSE]

LEMMA StepReady ==
    ASSUME WInv, ~limited, ~starved, NEW fail, NEW k, NEW r, InStep(r, fail, k)
    PROVE  Ready(r, k)
<1>1. /\ IInv /\ Types /\ Sizes /\ Backed /\ Writes /\ Unlimited
      /\ op # Idle /\ memory_mapping /\ Left > 0 /\ ~need_recovery
  BY DEF WInv, Whole, PInv, SInv, IInv, InStep, Writes
<1>2. PICK f \in 0 .. MaxFails : f = fails /\ k = IF fail = "none" THEN f ELSE f + 1
  BY <1>1 DEF Writes, InStep
<1>3. f \in Nat
  BY ConstAssumption
<1>4. PICK B \in Nat : B = Grown(f) /\ B <= SizeMax /\ MaxSize <= B
  BY <1>3, GrownFits, GrownIs
<1>5. PICK s \in Nat : s = size
  BY <1>1 DEF Types, Sizes
<1>6. /\ IsPlace(m) /\ m.off \in Nat /\ m.size \in Nat /\ m.pos \in Nat /\ m.pos <= m.size
      /\ m.region \in BOOLEAN /\ Pos(m) = m.off + m.pos
  BY <1>1 DEF Sizes, IsPlace, IsWindow, Pos
<1>7. Bounded(m, s, f) /\ Shows(m, dirty) /\ (m.region \/ dirty = {} \/ GivenUp)
  BY <1>1, <1>2, <1>5 DEF Unlimited
<1>8. /\ s <= B /\ (LeftOver(m) => m.size + MaxSize <= B)
      /\ Bounded(m, s, f + 1)
  BY <1>3, <1>4, <1>5, <1>6, <1>7, BoundedIs
<1>9. Bounded(m, s, k)
  BY <1>2, <1>7, <1>8
<1>10. PICK l \in Nat, a \in Int, e \in Int :
         l = Left /\ l > 0 /\ a = op.adr /\ e = op.adr + op.len /\ Pos(m) + l = e
         /\ (got = <<>> => Pos(m) = a)
  <2>1. /\ Len(got) \in Nat /\ op.adr \in Int /\ op.len \in Int
        /\ Left = op.len - Len(got) /\ Pos(m) = op.adr + Len(got)
    BY <1>1 DEF IInv, Types, InPlace, Here, Left
  <2>2. PICK g \in Nat, x \in Int, y \in Int : g = Len(got) /\ x = op.adr /\ y = op.len
    BY <2>1
  <2>3. Left = y - g /\ Pos(m) = x + g /\ y - g > 0
    BY <1>1, <2>1, <2>2
  <2>4. got = <<>> => g = 0
    BY <2>2
  <2>0. y - g > 0
    BY <2>3
  <2>5. y - g \in Nat /\ (x + g) + (y - g) = x + y /\ x + y \in Int
    BY <2>0
  <2>6. QED
    BY <2>2, <2>3, <2>4, <2>5
<1>11. PICK want \in Int : /\ want = m.off + m.size + Left /\ want >= 0 /\ want >= m.size /\ want > 0
                           /\ want >= e /\ (m.pos = m.size => want = e) /\ (m.size = 0 => want = e)
                           /\ want <= e + m.size
  <2>1. PICK o \in Nat, z \in Nat, p \in Nat : o = m.off /\ z = m.size /\ p = m.pos /\ p <= z
    BY <1>6
  <2>2. o + p + l = e /\ m.off + m.size + Left = o + z + l
    BY <1>6, <1>10, <2>1
  <2>3. PICK w \in Int : w = o + z + l
    BY <2>1
  <2>4. o + p + l = e /\ l > 0
    BY <1>10, <2>2
  <2>5. /\ w >= 0 /\ w >= z /\ w > 0 /\ w >= e
        /\ (p = z => w = e) /\ (z = 0 => w = e) /\ w <= e + z
    BY <2>1, <2>3, <2>4
  <2>6. w = m.off + m.size + Left
    BY <2>2, <2>3
  <2>7. QED
    BY <2>1, <2>5, <2>6
<1>12. /\ op.kind \in {"read", "write"} /\ (op.kind = "write" => ~reader)
       /\ (op.kind = "write" => e <= next_block) /\ next_block <= MaxSize
       /\ (op.kind = "read" => e <= s) /\ (reader => dirty = {})
       /\ next_block \in Int
  BY <1>1, <1>5, <1>10 DEF Sizes, Writes, Backed, Types
<1>13. CASE ~NeedRemap
  <2>1. m.region
    BY <1>13 DEF NeedRemap
  <2>2. r.rc = 0 /\ r.m = m /\ r.size = size /\ r.fatal = FALSE
    BY <1>13 DEF InStep
  <2>3. QED
    BY <1>5, <1>6, <1>7, <1>9, <2>1, <2>2 DEF Ready
<1>14. CASE NeedRemap
  <2>1. r = Remap(want, Flag, SizeMax, fail) /\ fail # "calloc"
    BY <1>11, <1>14 DEF InStep
  <2>2. m.region => want = e
    BY <1>11, <1>14 DEF NeedRemap
  <2>3. Flag # "default" => op.kind = "write"
    BY DEF Flag
  <2>4. op.kind = "write" => want <= B /\ next_block <= B
    <3>1. SUFFICES ASSUME op.kind = "write" PROVE want <= B /\ next_block <= B
      OBVIOUS
    <3>2. PICK S \in Nat : S = MaxSize /\ S <= B /\ e <= S /\ next_block <= S
      <4>1. MaxSize \in Nat
        BY ConstAssumption
      <4>2. PICK b \in Int : b = next_block
        BY <1>12
      <4>3. e <= b /\ b <= MaxSize
        BY <1>12, <3>1, <4>2
      <4>4. e <= MaxSize
        BY <4>1, <4>3
      <4>5. QED
        BY <1>4, <1>12, <4>1, <4>4
    <3>3. next_block <= B
      BY <1>12, <3>2
    <3>4. CASE want = e
      BY <3>2, <3>3, <3>4
    <3>5. CASE want # e
      <4>1. LeftOver(m)
        BY <1>6, <1>11, <2>2, <3>5 DEF LeftOver
      <4>2. PICK z \in Nat : z = m.size /\ z + S <= B
        BY <1>6, <1>8, <3>2, <4>1
      <4>3. want <= B
        BY <1>11, <3>2, <4>2
      <4>4. QED
        BY <3>3, <4>3
    <3>6. QED
      BY <3>4, <3>5
  <2>5. Remapped(r, want, Flag, B) /\ (r.rc = -1 /\ ~r.fatal => fail # "none")
    <3>1. ~reader /\ Flag # "default" /\ want > size => want <= B /\ next_block <= B
      BY <2>3, <2>4
    <3>2. B <= SizeMax /\ size <= B /\ want >= 0
      BY <1>4, <1>5, <1>8, <1>11
    <3>3. QED
      BY <1>1, <2>1, <3>1, <3>2, RemapWhole
  <2>6. IsPlace(r.m) /\ r.size \in Int
    <3>1. SizeMax \in Int /\ SizeMax >= 0 /\ want >= 0
      BY <1>11, ConstAssumption
    <3>2. QED
      BY <1>1, <2>1, <3>1, RemapSizes
  <2>7. CASE /\ r.rc = 0 /\ ~r.fatal /\ r.m = m /\ r.size = size
             /\ want < m.size \/ reader \/ (Flag = "default" /\ want > size)
    <3>1. reader \/ (op.kind = "read" /\ want > s)
      <4>1. ~(want < m.size)
        BY <1>6, <1>11
      <4>2. Flag = "default" => op.kind = "read"
        BY <1>12 DEF Flag
      <4>3. QED
        BY <1>5, <2>7, <4>1, <4>2
    <3>2. op.kind = "read"
      BY <1>12, <3>1
    <3>3. ~m.region => dirty = {}
      <4>1. SUFFICES ASSUME GivenUp PROVE dirty = {}
        BY <1>7
      <4>2. m.size = 0
        BY <4>1 DEF GivenUp
      <4>3. ~(want > s)
        BY <1>11, <1>12, <3>2, <4>2
      <4>4. QED
        BY <1>12, <3>1, <4>3
    <3>4. QED
      BY <1>5, <1>7, <1>9, <2>6, <2>7, <3>2, <3>3 DEF Ready
  <2>8. CASE /\ r.rc = -1 /\ r.fatal
             /\ r.m.region = m.region /\ r.m.size = m.size /\ r.m.off \in {m.off, 0}
    <3>1. Shows(r.m, dirty)
      BY <1>7, <2>8 DEF Shows
    <3>2. QED
      BY <2>6, <2>8, <3>1 DEF Ready
  <2>u. CASE r.rc = -1 /\ ~r.fatal /\ r.m.region = FALSE /\ (r.m.size = 0 \/ r.m = m) /\ r.size = size
    <3>1. k = f + 1
      BY <1>2, <2>5, <2>u
    <3>2. Bounded(r.m, s, k)
      <4>1. CASE r.m = m
        BY <1>8, <3>1, <4>1
      <4>2. CASE r.m.size = 0
        <5>1. s <= Grown(f + 1)
          <6>1. Grown(f + 1) = B + MaxSize /\ MaxSize \in Nat
            BY <1>3, <1>4, GrownIs, ConstAssumption
          <6>2. QED
            BY <1>8, <6>1
        <5>2. ~LeftOver(r.m)
          BY <4>2 DEF LeftOver
        <5>3. QED
          BY <3>1, <5>1, <5>2 DEF Bounded
      <4>3. QED
        BY <2>u, <4>1, <4>2
    <3>3. QED
      BY <1>5, <2>6, <2>u, <3>2 DEF Ready, Shows
  <2>9. CASE r.rc = -1 /\ ~r.fatal /\ r.m.region = FALSE /\ r.m.size <= B /\ r.size <= B
    <3>1. k = f + 1
      BY <1>2, <2>5, <2>9
    <3>2. k > 0 /\ k - 1 = f
      BY <1>3, <3>1
    <3>3. r.size <= Grown(k)
      <4>1. Grown(f + 1) = B + MaxSize /\ MaxSize \in Nat
        BY <1>3, <1>4, GrownIs, ConstAssumption
      <4>2. QED
        BY <2>6, <2>9, <3>1, <4>1
    <3>4. Bounded(r.m, r.size, k)
      BY <1>4, <2>9, <3>2, <3>3 DEF Bounded
    <3>5. QED
      BY <2>6, <2>9, <3>4 DEF Ready, Shows
  <2>10. CASE /\ r.rc = 0 /\ ~r.fatal /\ r.size <= B
              /\ r.m.off = 0 /\ r.m.pos = Pos(m) /\ (r.m.region <=> r.m.size # 0)
              /\ reader \/ want <= r.m.size
    <3>1. PICK n \in Nat : n = r.m.size
      BY <2>6 DEF IsPlace, IsWindow
    <3>2. ~reader => r.m.region
      BY <1>11, <2>10, <3>1
    <3>3. dirty \subseteq Bytes(0, n)
      <4>1. CASE reader
        BY <1>12, <4>1
      <4>2. CASE ~reader
        <5>1. want <= n
          BY <2>10, <3>1, <4>2
        <5>2. CASE m.region
          <6>1. PICK z \in Nat : z = m.size /\ z <= n
            BY <1>6, <1>11, <3>1, <5>1
          <6>2. dirty \subseteq Bytes(0, z)
            BY <1>7, <5>2, <6>1 DEF Shows
          <6>3. Bytes(0, z) \subseteq Bytes(0, n)
            BY <6>1 DEF Bytes
          <6>4. QED
            BY <6>2, <6>3
        <5>3. CASE GivenUp
          <6>1. PICK o \in Nat : o = m.off
            BY <1>6
          <6>2. o <= n
            <7>1. m.size = 0
              BY <5>3 DEF GivenUp
            <7>2. want = o + 0 + l
              BY <1>10, <1>11, <6>1, <7>1
            <7>3. QED
              BY <5>1, <7>2
          <6>3. dirty \subseteq Bytes(0, o)
            BY <5>3, <6>1 DEF GivenUp
          <6>4. Bytes(0, o) \subseteq Bytes(0, n)
            BY <6>1, <6>2 DEF Bytes
          <6>5. QED
            BY <6>3, <6>4
        <5>4. QED
          BY <1>7, <5>2, <5>3
      <4>3. QED
        BY <4>1, <4>2
    <3>4. Shows(r.m, dirty)
      BY <2>10, <3>1, <3>3 DEF Shows
    <3>5. op.kind = "write" => r.m.pos <= r.m.size
      <4>1. SUFFICES ASSUME op.kind = "write" PROVE r.m.pos <= n
        BY <3>1
      <4>2. want <= n
        BY <1>12, <2>10, <3>1, <4>1
      <4>3. PICK q \in Int : q = Pos(m) /\ q + l = e
        BY <1>6, <1>10
      <4>4. q <= n
        BY <1>10, <1>11, <4>2, <4>3
      <4>5. QED
        BY <2>10, <4>3, <4>4
    <3>6. Bounded(r.m, r.size, k)
      <4>1. ~LeftOver(r.m)
        BY <2>10, <3>1 DEF LeftOver
      <4>2. r.size <= Grown(k)
        <5>1. Grown(f + 1) = B + MaxSize /\ MaxSize \in Nat
          BY <1>3, <1>4, GrownIs, ConstAssumption
        <5>2. B + MaxSize \in Nat /\ r.size <= B + MaxSize
          BY <2>6, <2>10, <5>1
        <5>3. QED
          BY <1>2, <1>4, <2>10, <5>1, <5>2
      <4>3. QED
        BY <4>1, <4>2 DEF Bounded
    <3>7. r.m.region \/ (dirty = {} /\ op.kind # "write")
      BY <1>12, <3>2
    <3>8. QED
      BY <2>6, <2>10, <3>4, <3>5, <3>6, <3>7 DEF Ready
  <2>11. QED
    BY <2>5, <2>7, <2>8, <2>u, <2>9, <2>10 DEF Remapped
<1>15. QED
  BY <1>13, <1>14

\* Only an error of _gdbm_mapped_remap asks for recovery.
LEMMA RemapFatal ==
    ASSUME NEW want, NEW flag, NEW max, NEW fail, NEW r, r = Remap(want, flag, max, fail)
    PROVE  r.rc = 0 => ~r.fatal
<1> DEFINE n0 == IF flag = "end" /\ want < size THEN size ELSE want
           grows == ~reader /\ n0 > size /\ flag # "default"
           n == IF reader /\ n0 > size THEN size
                ELSE IF grows /\ n0 < next_block THEN next_block ELSE n0
           fs == IF grows THEN Extended(n) ELSE size
           place == Placed(n, fs, max)
           same == [rc |-> 0, m |-> m, pages |-> pages, size |-> size, fatal |-> FALSE]
           moved == Window(place.w, place.n)
           asked == want >= m.size /\ ~Unknown(fail)
           left == IF m.region THEN NoMap ELSE m
<1>1. \/ r = same
      \/ r = [same EXCEPT !.rc = -1, !.m = left, !.pages = 0]
      \/ r = [same EXCEPT !.rc = -1]
      \/ r = [same EXCEPT !.rc = -1, !.fatal = TRUE]
      \/ r = [same EXCEPT !.rc = -1, !.m = place.w, !.size = fs, !.fatal = TRUE]
      \/ r = [same EXCEPT !.rc = -1, !.m = [moved EXCEPT !.region = FALSE], !.pages = 0, !.size = fs]
      \/ r = [same EXCEPT !.m = moved, !.pages = RoundUp(moved.size, PageSize), !.size = fs]
  <2>1. r = CASE want < m.size -> same
              [] want >= m.size /\ Unknown(fail) -> [same EXCEPT !.rc = -1, !.m = left, !.pages = 0]
              [] asked /\ ~reader /\ n0 > size /\ flag = "default" -> same
              [] asked /\ reader /\ n = m.off + m.size -> same
              [] asked /\ grows /\ fail = "calloc" -> [same EXCEPT !.rc = -1]
              [] asked /\ grows /\ fail = "write" -> [same EXCEPT !.rc = -1, !.fatal = TRUE]
              [] OTHER ->
                   IF Pos(m) > fs
                   THEN [same EXCEPT !.rc = -1, !.m = place.w, !.size = fs, !.fatal = TRUE]
                   ELSE IF fail = "mmap" /\ place.n # 0
                   THEN [same EXCEPT !.rc = -1, !.m = [moved EXCEPT !.region = FALSE],
                                     !.pages = 0, !.size = fs]
                   ELSE [same EXCEPT !.m = moved, !.pages = RoundUp(moved.size, PageSize), !.size = fs]
    BY DEF Remap
  <2> HIDE DEF same, n0, n, grows, fs, place, moved, left
  <2>2. QED
    BY <2>1
<1> HIDE DEF n0, grows, n, fs, place, moved, left
<1>2. CASE r = same
  BY <1>2
<1>u. CASE r = [same EXCEPT !.rc = -1, !.m = left, !.pages = 0]
  BY <1>u
<1>c. CASE r = [same EXCEPT !.rc = -1]
  BY <1>c
<1>3. CASE r = [same EXCEPT !.rc = -1, !.fatal = TRUE]
  BY <1>3
<1>4. CASE r = [same EXCEPT !.rc = -1, !.m = place.w, !.size = fs, !.fatal = TRUE]
  BY <1>4
<1>5. CASE r = [same EXCEPT !.rc = -1, !.m = [moved EXCEPT !.region = FALSE], !.pages = 0, !.size = fs]
  BY <1>5
<1>6. CASE r = [same EXCEPT !.m = moved, !.pages = RoundUp(moved.size, PageSize), !.size = fs]
  BY <1>6
<1>7. QED
  BY <1>1, <1>2, <1>u, <1>c, <1>3, <1>4, <1>5, <1>6, Zenon

\* Bytes inside the window are shown when they are written.
LEMMA CopyShows ==
    ASSUME NEW w, IsPlace(w), Shows(w, dirty), Left \in Int, Left > 0, NEW k, Copy(w, k),
           op.kind = "write" => w.region /\ w.pos <= w.size
    PROVE  /\ Shows(m', dirty') /\ m'.region = w.region /\ m'.size = w.size
           /\ op.kind # "write" => dirty' = dirty
<1>1. PICK cnt \in Int : cnt = Piece(w)
  BY PieceFits DEF IsPlace
<1>2. PICK q \in Int, p \in Nat, z \in Int : q = p + cnt /\ p = w.pos /\ z = w.size
  BY DEF IsPlace, IsWindow
<1>3. m' = [w EXCEPT !.pos = q] /\ Reach(Pos(w), cnt)
  BY <1>1, <1>2 DEF Copy
<1>4. m'.region = w.region /\ m'.size = w.size /\ m'.off = w.off
  BY <1>3 DEF IsPlace, IsWindow
<1>5. CASE op.kind = "write"
  <2>1. w.region /\ p <= z /\ w.off = 0 /\ dirty \subseteq Bytes(0, z)
    BY <1>2, <1>5 DEF Shows
  <2>2. q <= z
    BY <1>1, <1>2, <2>1, PieceInside DEF IsPlace
  <2>3. Pos(w) = p
    BY <1>2, <2>1 DEF Pos
  <2>4. dirty' = dirty \cup Bytes(p, q)
    BY <1>2, <1>3, <1>5, <2>3 DEF Reach
  <2>5. Bytes(p, q) \subseteq Bytes(0, z)
    BY <2>2 DEF Bytes
  <2>6. QED
    BY <1>2, <1>4, <1>5, <2>1, <2>4, <2>5 DEF Shows
<1>6. CASE op.kind # "write"
  <2>1. dirty' = dirty
    BY <1>3, <1>6 DEF Reach
  <2>2. QED
    BY <1>4, <2>1 DEF Shows
<1>7. QED
  BY <1>5, <1>6

LEMMA MappedStepWhole == ASSUME WInv, MappedStep PROVE Writes' /\ Whole'
<1>1. PICK fail \in Faults :
         LET want == m.off + m.size + Left
             r == IF NeedRemap THEN Remap(want, Flag, mapped_size_max, fail)
                  ELSE [rc |-> 0, m |-> m, pages |-> pages, size |-> size, fatal |-> FALSE]
         IN /\ fail = "none" \/ (NeedRemap /\ fails < MaxFails)
            /\ fails' = IF fail = "none" THEN fails ELSE fails + 1
            /\ starved' = (starved \/ fail = "calloc")
            /\ size' = r.size
            /\ need_recovery' = (need_recovery \/ r.fatal)
            /\ CASE r.rc = 0 /\ ~Exhausted(r.m) ->
                      /\ Copy(r.m, r.pages)
                      /\ fd_pos' = Descriptor(r)
                      /\ UNCHANGED <<op, memory_mapping>>
                 [] r.rc = 0 /\ Exhausted(r.m) ->
                      /\ m' = r.m
                      /\ Finish
                      /\ UNCHANGED <<memory_mapping, dirty, fault>>
                 [] r.rc # 0 /\ r.fatal ->
                      /\ m' = r.m
                      /\ Finish
                      /\ UNCHANGED <<memory_mapping, dirty, fault>>
                 [] OTHER ->
                      /\ m' = r.m
                      /\ memory_mapping' = FALSE
                      /\ fd_pos' = FallBack(r)
                      /\ UNCHANGED <<op, got, dirty, fault>>
            /\ UNCHANGED <<reader, next_block, mapped_size_max, limited>>
  BY DEF MappedStep
<1> DEFINE want == m.off + m.size + Left
           r == IF NeedRemap THEN Remap(want, Flag, mapped_size_max, fail)
                ELSE [rc |-> 0, m |-> m, pages |-> pages, size |-> size, fatal |-> FALSE]
<1>2. PICK x : x = r
  OBVIOUS
<1>3. /\ IInv /\ Types /\ Sizes /\ Writes /\ op # Idle /\ memory_mapping /\ Left > 0 /\ ~need_recovery
      /\ Left \in Int /\ (op.kind = "write" => ~reader)
  BY DEF WInv, PInv, SInv, IInv, MappedStep, Writes, Sizes, Types, Left
<1>4. x.rc = 0 => ~x.fatal
  <2>1. CASE NeedRemap
    BY <1>2, <2>1, RemapFatal
  <2>2. CASE ~NeedRemap
    BY <1>2, <2>2
  <2>3. QED
    BY <2>1, <2>2
<1>5. /\ size' = x.size /\ need_recovery' = (need_recovery \/ x.fatal)
      /\ UNCHANGED <<reader, next_block, mapped_size_max, limited>>
      /\ \/ x.rc = 0 /\ Copy(x.m, x.pages) /\ UNCHANGED <<op, memory_mapping>>
         \/ (x.rc = 0 \/ x.fatal) /\ m' = x.m /\ Finish /\ UNCHANGED <<memory_mapping, dirty>>
         \/ x.rc # 0 /\ ~x.fatal /\ m' = x.m /\ memory_mapping' = FALSE /\ UNCHANGED <<op, got, dirty>>
  BY <1>1, <1>2
<1>6. fail = "none" \/ (NeedRemap /\ fails < MaxFails)
  BY <1>1, Zenon
<1>7. fails' = IF fail = "none" THEN fails ELSE fails + 1
  BY <1>1, Zenon
<1>s. ~starved' => ~starved /\ fail # "calloc"
  BY <1>1, Zenon
<1>8. ~limited /\ ~starved' => Ready(x, fails')
  <2>1. SUFFICES ASSUME ~limited, ~starved' PROVE Ready(x, fails')
    OBVIOUS
  <2>2. InStep(x, fail, fails')
    BY <1>2, <1>3, <1>6, <1>7, <1>s, <2>1 DEF InStep, WInv, Whole
  <2>3. QED
    BY <1>s, <2>1, <2>2, StepReady
<1> HIDE DEF r, want
<1>9. fails' \in 0 .. MaxFails
  BY <1>3, <1>6, <1>7, ConstAssumption DEF Writes
<1>10. CASE x.rc = 0 /\ Copy(x.m, x.pages) /\ UNCHANGED <<op, memory_mapping>>
  <2>1. op.kind # "write" => dirty' = dirty
    BY <1>10 DEF Copy, Reach
  <2>2. ~need_recovery'
    BY <1>3, <1>4, <1>5, <1>10
  <2>3. Writes'
    BY <1>3, <1>5, <1>9, <1>10, <2>1, <2>2 DEF Writes
  <2>4. ASSUME ~limited, ~starved' PROVE Unlimited'
    <3>1. Ready(x, fails')
      BY <1>8, <2>4
    <3>2. /\ IsPlace(x.m) /\ Shows(x.m, dirty) /\ (x.m.region \/ (dirty = {} /\ op.kind # "write"))
          /\ (op.kind = "write" => x.m.pos <= x.m.size) /\ Bounded(x.m, x.size, fails')
      BY <1>4, <1>10, <3>1 DEF Ready
    <3>3. /\ Shows(m', dirty') /\ m'.region = x.m.region /\ m'.size = x.m.size
          /\ op.kind # "write" => dirty' = dirty
      BY <1>3, <1>10, <3>2, CopyShows
    <3>4. Bounded(m', size', fails')
      BY <1>5, <3>2, <3>3 DEF Bounded, LeftOver
    <3>5. m'.region \/ dirty' = {}
      BY <3>2, <3>3
    <3>6. QED
      BY <1>3, <1>10, <3>3, <3>4, <3>5 DEF Unlimited
  <2>5. QED
    BY <1>5, <1>s, <2>3, <2>4 DEF WInv, Whole
<1>11. CASE (x.rc = 0 \/ x.fatal) /\ m' = x.m /\ Finish /\ UNCHANGED <<memory_mapping, dirty>>
  <2>1. op' = Idle
    BY <1>11 DEF Finish
  <2>2. Writes'
    BY <1>3, <1>5, <1>9, <1>11, <2>1, IdleKind DEF Writes
  <2>3. ASSUME ~limited, ~starved' PROVE Unlimited'
    <3>1. Ready(x, fails')
      BY <1>8, <2>3
    <3>2. Shows(m', dirty')
      BY <1>11, <3>1 DEF Ready
    <3>3. ASSUME ~need_recovery' PROVE (m'.region \/ dirty' = {}) /\ Bounded(m', size', fails')
      <4>1. x.rc = 0 /\ ~x.fatal
        BY <1>4, <1>5, <1>11, <3>3
      <4>2. QED
        BY <1>5, <1>11, <3>1, <4>1 DEF Ready
    <3>4. QED
      BY <1>3, <1>11, <3>2, <3>3 DEF Unlimited
  <2>4. QED
    BY <1>5, <1>s, <2>2, <2>3 DEF WInv, Whole
<1>12. CASE x.rc # 0 /\ ~x.fatal /\ m' = x.m /\ memory_mapping' = FALSE /\ UNCHANGED <<op, got, dirty>>
  <2>1. ~need_recovery'
    BY <1>3, <1>5, <1>12
  <2>2. Writes'
    BY <1>3, <1>5, <1>9, <1>12, <2>1 DEF Writes
  <2>3. ASSUME ~limited, ~starved' PROVE Unlimited'
    <3>1. Ready(x, fails')
      BY <1>8, <2>3
    <3>2. Shows(m', dirty') /\ ~m'.region /\ Bounded(m', size', fails')
      BY <1>5, <1>12, <3>1 DEF Ready
    <3>3. QED
      BY <1>12, <3>2 DEF Unlimited
  <2>4. QED
    BY <1>5, <1>s, <2>2, <2>3 DEF WInv, Whole
<1>13. QED
  BY <1>5, <1>10, <1>11, <1>12

\* msync of a window that shows all that was written leaves nothing behind.
LEMMA ShownIsSynced ==
    ASSUME IsPlace(m), Shows(m, dirty)
    PROVE  Unsynced = {}
<1>1. CASE m.region
  <2>1. m.off = 0 /\ dirty \subseteq Bytes(0, m.size)
    BY <1>1 DEF Shows
  <2>2. m.off + m.size = m.size
    BY <2>1 DEF IsPlace, IsWindow
  <2>3. QED
    BY <1>1, <2>1, <2>2 DEF Unsynced
<1>2. QED
  BY <1>1 DEF Unsynced

\* A seek keeps what the window shows, or gives it up.
LEMMA SoughtWhole ==
    ASSUME IsPlace(m), NEW a \in Nat, Shows(m, dirty), m.region \/ dirty = {},
           NEW w, w = Sought(a), NEW s \in Int, NEW k \in Nat, Bounded(m, s, k)
    PROVE  /\ Shows(w, dirty) /\ Bounded(w, s, k)
           /\ \/ w.region \/ dirty = {}
              \/ w.size = 0 /\ dirty \subseteq Bytes(0, w.off)
<1>1. PICK o \in Nat, z \in Nat : o = m.off /\ z = m.size
  BY DEF IsPlace, IsWindow
<1>2. CASE o <= a /\ a - o < z
  <2>1. PICK p : p = a - m.off
    OBVIOUS
  <2>2. w = [m EXCEPT !.pos = p]
    BY <1>1, <1>2, <2>1 DEF Sought
  <2>3. w.region = m.region /\ w.size = m.size /\ w.off = m.off
    BY <2>2 DEF IsPlace, IsWindow
  <2>4. QED
    BY <2>3 DEF Shows, Bounded, LeftOver
<1>3. CASE ~(o <= a /\ a - o < z)
  <2>1. w = [region |-> FALSE, size |-> IF m.region THEN 0 ELSE m.size, pos |-> 0, off |-> a]
    BY <1>1, <1>3 DEF Sought
  <2>2. w.region = FALSE /\ w.off = a /\ w.size = IF m.region THEN 0 ELSE m.size
    BY <2>1
  <2>3. CASE m.region
    <3>1. w.size = 0 /\ ~LeftOver(w) /\ ~LeftOver(m)
      BY <2>2, <2>3 DEF LeftOver
    <3>2. o = 0 /\ dirty \subseteq Bytes(0, z)
      BY <1>1, <2>3 DEF Shows
    <3>3. z <= a
      BY <1>3, <3>2
    <3>4. Bytes(0, z) \subseteq Bytes(0, a)
      BY <3>3 DEF Bytes
    <3>5. Bounded(w, s, k)
      BY <3>1 DEF Bounded
    <3>6. QED
      BY <2>2, <3>1, <3>2, <3>4, <3>5 DEF Shows
  <2>4. CASE ~m.region
    <3>1. w.size = m.size /\ (LeftOver(w) <=> LeftOver(m))
      BY <2>2, <2>4 DEF LeftOver
    <3>2. Bounded(w, s, k)
      BY <3>1 DEF Bounded
    <3>3. QED
      BY <2>2, <2>4, <3>2 DEF Shows
  <2>5. QED
    BY <2>3, <2>4
<1>4. QED
  BY <1>2, <1>3

LEMMA BeginWhole ==
    ASSUME WInv, NEW kind \in {"read", "write"}, NEW area \in Areas, Begin(kind, area[1], area[2])
    PROVE  Writes' /\ Whole'
<1> DEFINE a == area[1]
           len == area[2]
<1>1. a \in Nat /\ len \in Nat /\ len > 0 /\ Block \in Nat \ {0}
  BY ConstAssumption
<1> HIDE DEF a, len
<1>2. Begin(kind, a, len)
  BY DEF a, len
<1>3. IInv /\ Types /\ Sizes /\ Writes
  BY DEF WInv, PInv, SInv, IInv
<1>4. /\ op' = [kind |-> kind, adr |-> a, len |-> len] /\ (kind = "write" => ~reader)
      /\ op = Idle /\ ~need_recovery /\ ~starved /\ next_block' <= MaxSize
      /\ next_block' = IF a + len <= next_block THEN next_block ELSE RoundUp(a + len, Block)
      /\ UNCHANGED <<reader, size, memory_mapping, mapped_size_max, limited, got, dirty, starved,
                     need_recovery, fails>>
      /\ \/ memory_mapping /\ m' = Sought(a)
         \/ ~memory_mapping /\ m' = m
  BY <1>2 DEF Begin, Usable
<1>5. op'.kind = kind /\ op'.adr = a /\ op'.len = len /\ op' # Idle
  <2>1. op'.kind = kind /\ op'.adr = a /\ op'.len = len
    BY <1>4
  <2>2. QED
    BY <2>1, IdleKind
<1>6. a + len <= next_block'
  <2>1. a + len \in Nat /\ next_block \in Int
    BY <1>1, <1>3 DEF Types
  <2>2. RoundUp(a + len, Block) \in Nat /\ RoundUp(a + len, Block) >= a + len
    BY <1>1, <2>1, RoundUpNat
  <2>3. QED
    BY <1>4, <2>1, <2>2
<1>7. Writes'
  <2>1. op'.len > 0 /\ op'.adr + op'.len <= next_block'
    BY <1>1, <1>5, <1>6
  <2>2. QED
    BY <1>3, <1>4, <2>1 DEF Writes
<1>8. ASSUME ~limited, ~starved PROVE Unlimited'
  <2>1. Unlimited /\ IsPlace(m) /\ size \in Int /\ fails \in Nat /\ got = <<>>
    BY <1>3, <1>4, <1>8, ConstAssumption DEF WInv, Whole, Sizes, Types, IInv, Writes
  <2>2. Shows(m, dirty) /\ Bounded(m, size, fails)
    BY <1>4, <2>1 DEF Unlimited
  <2>3. CASE memory_mapping /\ m' = Sought(a)
    <3>1. m.region \/ dirty = {}
      BY <1>4, <2>1, <2>3 DEF Unlimited, GivenUp
    <3>2. PICK w : w = m'
      OBVIOUS
    <3>3. /\ Shows(w, dirty) /\ Bounded(w, size, fails)
          /\ \/ w.region \/ dirty = {}
             \/ w.size = 0 /\ dirty \subseteq Bytes(0, w.off)
      BY <1>1, <2>1, <2>2, <2>3, <3>1, <3>2, SoughtWhole
    <3>4. m'.region \/ dirty' = {} \/ GivenUp'
      BY <1>4, <1>5, <2>1, <3>2, <3>3 DEF GivenUp
    <3>5. QED
      BY <1>4, <2>3, <3>2, <3>3, <3>4 DEF Unlimited
  <2>4. CASE ~memory_mapping /\ m' = m
    BY <1>4, <2>1, <2>2, <2>4 DEF Unlimited
  <2>5. QED
    BY <1>4, <2>3, <2>4
<1>9. QED
  BY <1>4, <1>7, <1>8 DEF WInv, Whole

LEMMA PlainStepWhole == ASSUME WInv, PlainStep PROVE Writes' /\ Whole'
<1>1. PICK cnt \in {1, Left} :
         /\ op.kind = "read" => fd_pos + cnt <= size
         /\ Reach(fd_pos, cnt)
         /\ size' = Extended(fd_pos + cnt)
  BY DEF PlainStep
<1>2. UNCHANGED <<reader, next_block, m, memory_mapping, mapped_size_max, limited, op, starved,
                need_recovery, fails>>
  BY DEF PlainStep
<1>3. /\ IInv /\ Types /\ Sizes /\ Writes /\ op # Idle /\ ~memory_mapping /\ Left > 0 /\ ~need_recovery
      /\ op.kind \in {"read", "write"} /\ (op.kind = "write" => ~reader)
  BY DEF WInv, PInv, SInv, IInv, PlainStep, Writes, Sizes
<1>4. op.kind # "write" => dirty' = dirty
  BY <1>1 DEF Reach
<1>5. Writes'
  BY <1>2, <1>3, <1>4 DEF Writes
<1>6. ASSUME ~limited, ~starved PROVE Unlimited'
  <2>1. Unlimited /\ IsPlace(m) /\ m.size \in Int /\ size \in Int /\ fails \in Nat
    BY <1>3, <1>6, ConstAssumption DEF WInv, Whole, Sizes, Types, Writes, IsPlace, IsWindow
  <2>2. ~m.region /\ Bounded(m, size, fails)
    BY <1>3, <2>1 DEF Unlimited
  <2>3. PICK p \in Int : p = fd_pos + cnt /\ p <= op.adr + op.len
    <3>1. /\ Len(got) \in Nat /\ op.adr \in Int /\ op.len \in Int
          /\ Left = op.len - Len(got) /\ fd_pos = op.adr + Len(got)
      BY <1>3 DEF IInv, Types, InPlace, Here, Left
    <3>2. cnt \in Int /\ cnt <= Left
      BY <1>1, <1>3, <3>1
    <3>3. PICK g \in Nat, x \in Int, y \in Int : g = Len(got) /\ x = op.adr /\ y = op.len
      BY <3>1
    <3>4. fd_pos = x + g /\ cnt <= y - g
      BY <3>1, <3>2, <3>3
    <3>c. PICK c \in Int : c = cnt /\ c <= y - g
      BY <3>2, <3>4
    <3>d. x + g + c <= x + y
      BY <3>c
    <3>5. fd_pos + cnt \in Int /\ fd_pos + cnt <= x + y
      BY <3>4, <3>c, <3>d
    <3>6. QED
      BY <3>3, <3>5
  <2>4. p <= size \/ p <= MaxSize
    <3>1. CASE op.kind = "read"
      BY <1>1, <2>3, <3>1
    <3>2. CASE op.kind = "write"
      <4>1. op.adr + op.len <= next_block /\ next_block <= MaxSize
        BY <1>3, <3>2 DEF Writes
      <4>2. op.adr + op.len \in Int /\ next_block \in Int /\ MaxSize \in Int
        BY <1>3, ConstAssumption DEF Types
      <4>3. QED
        BY <2>3, <4>1, <4>2
    <3>3. QED
      BY <1>3, <3>1, <3>2
  <2>5. size' \in Int /\ (size' <= size \/ size' <= MaxSize)
    BY <1>1, <2>1, <2>3, <2>4 DEF Extended
  <2>6. Bounded(m, size', fails)
    BY <2>1, <2>2, <2>5, BoundedIs
  <2>7. QED
    BY <1>2, <1>3, <2>2, <2>6 DEF Unlimited, Shows
<1>7. QED
  BY <1>2, <1>5, <1>6 DEF WInv, Whole

\* A plain call that fails.
LEMMA PlainFailsWhole == ASSUME WInv, PlainFails PROVE Writes' /\ Whole'
<1>1. /\ ~memory_mapping /\ fails < MaxFails /\ fails' = fails + 1 /\ op' = Idle
      /\ UNCHANGED <<reader, size, next_block, m, memory_mapping, mapped_size_max, limited, dirty, starved>>
  BY DEF PlainFails, Finish
<1>2. op # Idle /\ ~need_recovery /\ Writes /\ IsPlace(m) /\ Types /\ fails \in Nat
  BY ConstAssumption DEF PlainFails, WInv, PInv, SInv, IInv, Sizes, Writes
<1>3. fails' \in 0 .. MaxFails
  BY <1>1, <1>2, ConstAssumption DEF Writes
<1>4. Writes'
  BY <1>1, <1>2, <1>3, IdleKind DEF Writes
<1>5. ASSUME ~limited, ~starved PROVE Unlimited'
  <2>1. Unlimited
    BY <1>5 DEF WInv, Whole
  <2>2. Bounded(m, size, fails) /\ m.size \in Int /\ size \in Int
    BY <1>2, <2>1 DEF Unlimited, IsPlace, IsWindow, Types
  <2>3. Bounded(m, size, fails + 1)
    BY <1>2, <2>2, BoundedIs
  <2>4. QED
    BY <1>1, <2>1, <2>3 DEF Unlimited
<1>6. QED
  BY <1>1, <1>4, <1>5 DEF WInv, Whole

\* A call that is done has done something.
LEMMA DoneWhole == ASSUME WInv, Done PROVE Writes' /\ Whole'
<1>1. /\ op # Idle /\ Left = 0 /\ op' = Idle
      /\ UNCHANGED <<reader, size, next_block, m, memory_mapping, mapped_size_max, limited, dirty, starved,
                     need_recovery, fails>>
  BY DEF Done, Finish
<1>2. /\ IInv /\ Types /\ Sizes /\ Writes /\ op.len > 0
  BY <1>1 DEF WInv, PInv, SInv, IInv, Writes
<1>3. Writes'
  BY <1>1, <1>2, IdleKind DEF Writes
<1>4. ~GivenUp
  <2>1. got = <<>> => Left = op.len
    BY <1>2 DEF Left, Types
  <2>2. QED
    BY <1>1, <1>2, <2>1 DEF GivenUp, Types
<1>5. ASSUME ~limited, ~starved PROVE Unlimited'
  <2>1. Unlimited
    BY <1>5 DEF WInv, Whole
  <2>2. QED
    BY <1>1, <1>4, <2>1 DEF Unlimited
<1>6. QED
  BY <1>1, <1>3, <1>5 DEF WInv, Whole

LEMMA SyncStepWhole == ASSUME WInv, Sync PROVE Writes' /\ Whole'
<1>1. /\ op = Idle /\ op' = Idle /\ ~reader /\ dirty' = Unsynced
      /\ UNCHANGED <<reader, size, next_block, m, memory_mapping, mapped_size_max, limited, starved,
                     need_recovery, fails>>
  BY DEF Sync
<1>2. Writes /\ IsPlace(m)
  BY DEF WInv, PInv, SInv, Sizes
<1>3. Writes'
  BY <1>1, <1>2, IdleKind DEF Writes
<1>4. ASSUME ~limited, ~starved PROVE Unlimited'
  <2>1. Unlimited
    BY <1>4 DEF WInv, Whole
  <2>2. dirty' = {}
    BY <1>1, <1>2, <2>1, ShownIsSynced DEF Unlimited
  <2>3. QED
    BY <1>1, <2>1, <2>2 DEF Unlimited, Shows
<1>5. QED
  BY <1>1, <1>3, <1>4 DEF WInv, Whole

\* Failures of the calls of _gdbm_mapped_init are counted.
LEMMA MappedInitFails ==
    ASSUME Writes, NEW max, NEW rc, MappedInit(max, rc)
    PROVE  fails' \in 0 .. MaxFails
<1>1. PICK fail : /\ fail = "none" \/ fails < MaxFails
                 /\ fails' = IF fail = "none" THEN fails ELSE fails + 1
  BY DEF MappedInit
<1>2. fails \in 0 .. MaxFails /\ MaxFails \in Nat
  BY ConstAssumption DEF Writes
<1>3. QED
  BY <1>1, <1>2

\* Without a limit a new window begins at the start of the file.
LEMMA MappedInitWhole ==
    ASSUME WInv, ~limited, ~starved, op = Idle, ~need_recovery, ~m.region,
           NEW rc, MappedInit(SizeMax, rc)
    PROVE  /\ Shows(m', {}) /\ (rc # 0 => ~m'.region)
           /\ ~need_recovery' => Bounded(m', size, fails')
<1>1. PICK fail \in {"none", "fstat", "mmap"} :
         /\ fails' = IF fail = "none" THEN fails ELSE fails + 1
         /\ m' = Remap(0, "end", SizeMax, fail).m
         /\ need_recovery' = (need_recovery \/ Remap(0, "end", SizeMax, fail).fatal)
         /\ rc = Remap(0, "end", SizeMax, fail).rc
  BY DEF MappedInit
<1>z. PICK z \in Int : z = 0
  OBVIOUS
<1>2. PICK r : r = Remap(z, "end", SizeMax, fail)
  OBVIOUS
<1>3. /\ m' = r.m /\ rc = r.rc /\ need_recovery' = (need_recovery \/ r.fatal)
  BY <1>1, <1>2, <1>z
<1>4. Types /\ Sizes /\ Writes /\ Unlimited
  BY DEF WInv, Whole, PInv, SInv, IInv
<1>5. PICK f \in Nat : f = fails /\ fails' = IF fail = "none" THEN f ELSE f + 1
  BY <1>1, <1>4, ConstAssumption DEF Writes
<1>6. f <= MaxFails
  BY <1>4, <1>5, ConstAssumption DEF Writes
<1>7. PICK B \in Nat : B = Grown(f) /\ B <= SizeMax
  BY <1>4, <1>5, GrownFits, GrownIs DEF Writes
<1>8. PICK s \in Nat : s = size
  BY <1>4 DEF Types, Sizes
<1>9. m.size \in Int /\ Bounded(m, s, f)
  BY <1>4, <1>5, <1>8 DEF Unlimited, Sizes, IsPlace, IsWindow
<1>10. s <= B /\ Bounded(m, s, f + 1)
  BY <1>5, <1>7, <1>8, <1>9, BoundedIs
<1>11. Remapped(r, z, "end", B) /\ (r.rc = -1 /\ ~r.fatal => fail # "none")
  BY <1>2, <1>z, <1>4, <1>7, <1>8, <1>10, RemapWhole
<1>12. CASE r.rc = 0 /\ ~r.fatal /\ r.m = m /\ r.size = size
  BY <1>3, <1>5, <1>8, <1>9, <1>10, <1>12 DEF Shows
<1>13. CASE r.rc = -1 /\ r.fatal /\ r.m.region = m.region
  BY <1>3, <1>13 DEF Shows
<1>g. s <= Grown(f + 1)
  <2>1. PICK S \in Nat : S = MaxSize /\ Grown(f + 1) = B + S
    BY <1>7, GrownIs, ConstAssumption
  <2>2. QED
    BY <1>10, <2>1
<1>u. CASE r.rc = -1 /\ ~r.fatal /\ r.m.region = FALSE /\ (r.m.size = 0 \/ r.m = m) /\ r.size = size
  <2>1. fails' = f + 1
    BY <1>5, <1>11, <1>u
  <2>2. Bounded(r.m, s, f + 1)
    <3>1. r.m.size = 0 => ~LeftOver(r.m)
      BY DEF LeftOver
    <3>2. QED
      BY <1>10, <1>g, <1>u, <3>1 DEF Bounded
  <2>3. QED
    BY <1>3, <1>8, <1>u, <2>1, <2>2 DEF Shows
<1>14. CASE r.rc = -1 /\ ~r.fatal /\ r.m.region = FALSE /\ r.m.size <= B /\ r.size <= B
  <2>1. fails' = f + 1 /\ f + 1 > 0 /\ (f + 1) - 1 = f
    BY <1>5, <1>11, <1>14
  <2>2. Bounded(r.m, s, f + 1)
    BY <1>7, <1>10, <1>14, <1>g, <2>1 DEF Bounded
  <2>3. QED
    BY <1>3, <1>8, <1>14, <2>1, <2>2 DEF Shows
<1>15. CASE r.rc = 0 /\ ~r.fatal /\ r.m.off = 0 /\ (r.m.region <=> r.m.size # 0)
  <2>1. ~LeftOver(r.m)
    <3>1. SUFFICES ASSUME LeftOver(r.m) PROVE FALSE
      OBVIOUS
    <3>2. ~r.m.region /\ r.m.size > 0 /\ r.m.size = 0
      BY <1>15, <3>1 DEF LeftOver
    <3>3. QED
      BY <3>2
  <2>2. ~LeftOver(r.m) => Bounded(r.m, s, fails')
    <3>1. PICK S \in Nat : S = MaxSize /\ Grown(f + 1) = B + S
      BY <1>7, GrownIs, ConstAssumption
    <3>2. s <= Grown(f + 1) /\ s <= Grown(f)
      BY <1>7, <1>10, <3>1
    <3>3. s <= Grown(fails')
      BY <1>5, <3>2
    <3>4. QED
      BY <3>3 DEF Bounded
  <2>3. QED
    BY <1>3, <1>8, <1>15, <2>1, <2>2 DEF Shows
<1>16. QED
  BY <1>11, <1>12, <1>13, <1>u, <1>14, <1>15 DEF Remapped

LEMMA SetMmapWhole ==
    ASSUME WInv, NEW on \in BOOLEAN, SetMmap(on)
    PROVE  Writes' /\ Whole'
<1>1. /\ op = Idle /\ op' = Idle /\ ~need_recovery /\ ~starved /\ dirty' = Unsynced
      /\ UNCHANGED <<reader, size, next_block, mapped_size_max, limited, starved>>
  BY DEF SetMmap, Usable
<1>2. /\ Types /\ Writes /\ IsPlace(m) /\ fails \in Nat
  BY ConstAssumption DEF WInv, PInv, SInv, IInv, Sizes, Writes
<1>3. dirty' \subseteq dirty
  BY <1>1 DEF Unsynced
<1>4. \/ UNCHANGED <<m, memory_mapping, need_recovery, fails>>
      \/ /\ ~memory_mapping
         /\ \E rc \in {0, -1} : MappedInit(mapped_size_max, rc) /\ memory_mapping' = (rc = 0)
      \/ /\ m' = (IF m.region THEN NoMap ELSE m) /\ memory_mapping' = FALSE
         /\ UNCHANGED <<need_recovery, fails>>
  <2>1. CASE on = memory_mapping
    BY <1>1, <2>1, Zenon DEF SetMmap
  <2>2. CASE on /\ ~memory_mapping
    <3>1. on # memory_mapping
      BY <2>2, Zenon
    <3>2. \E rc \in {0, -1} : MappedInit(mapped_size_max, rc) /\ memory_mapping' = (rc = 0)
      BY <2>2, <3>1 DEF SetMmap
    <3>3. QED
      BY <2>2, <3>2
  <2>3. CASE ~on /\ memory_mapping
    <3>1. on # memory_mapping
      BY <2>3
    <3>2. QED
      BY <2>3, <3>1 DEF SetMmap
  <2>4. memory_mapping \in BOOLEAN
    BY <1>2 DEF Types
  <2>5. QED
    BY <2>1, <2>2, <2>3, <2>4
<1>5. fails' \in 0 .. MaxFails
  <2>1. fails \in 0 .. MaxFails
    BY <1>2 DEF Writes
  <2>2. QED
    BY <1>2, <1>4, <2>1, MappedInitFails
<1>6. Writes'
  BY <1>1, <1>2, <1>3, <1>5, IdleKind DEF Writes
<1>7. ASSUME ~limited, ~starved PROVE Unlimited'
  <2>1. Unlimited
    BY <1>7 DEF WInv, Whole
  <2>2. dirty' = {}
    BY <1>1, <1>2, <2>1, ShownIsSynced DEF Unlimited
  <2>3. Bounded(m, size, fails) /\ (~memory_mapping => ~m.region)
    BY <1>1, <2>1 DEF Unlimited
  <2>4. CASE UNCHANGED <<m, memory_mapping, need_recovery, fails>>
    BY <1>1, <2>1, <2>2, <2>4 DEF Unlimited, Shows
  <2>5. ASSUME ~memory_mapping, NEW rc \in {0, -1}, MappedInit(mapped_size_max, rc), memory_mapping' = (rc = 0)
        PROVE  Unlimited'
    <3>1. /\ Shows(m', {}) /\ (rc # 0 => ~m'.region)
          /\ ~need_recovery' => Bounded(m', size, fails')
      BY <1>1, <1>7, <2>3, <2>5, MappedInitWhole DEF WInv, Whole
    <3>2. ~memory_mapping' => ~m'.region
      BY <2>5, <3>1
    <3>3. QED
      BY <1>1, <2>2, <3>1, <3>2 DEF Unlimited
  <2>6. CASE /\ m' = (IF m.region THEN NoMap ELSE m) /\ memory_mapping' = FALSE
             /\ UNCHANGED <<need_recovery, fails>>
    <3>1. ~m'.region
      BY <2>6 DEF NoMap
    <3>2. Bounded(m', size, fails)
      <4>1. CASE m.region
        <5>1. m' = NoMap /\ ~LeftOver(m) /\ ~LeftOver(m')
          BY <2>6, <4>1 DEF NoMap, LeftOver
        <5>2. QED
          BY <2>3, <5>1 DEF Bounded
      <4>2. CASE ~m.region
        BY <2>3, <2>6, <4>2
      <4>3. QED
        BY <4>1, <4>2
    <3>3. QED
      BY <1>1, <2>6, <3>1, <3>2 DEF Unlimited, Shows
  <2>7. QED
    BY <1>4, <2>4, <2>5, <2>6
<1>8. QED
  BY <1>1, <1>6, <1>7 DEF WInv, Whole

LEMMA SetMaxMapSizeWhole ==
    ASSUME WInv, NEW n \in Limits, SetMaxMapSize(n)
    PROVE  Writes' /\ Whole'
<1>1. /\ op = Idle /\ op' = Idle /\ UNCHANGED <<reader, next_block, dirty>>
      /\ limited' = TRUE /\ \E rc \in {0, -1} : MappedInit(Limit(n), rc)
  BY DEF SetMaxMapSize, Usable
<1>2. Writes
  BY DEF WInv
<1>3. fails' \in 0 .. MaxFails
  BY <1>1, <1>2, MappedInitFails
<1>4. Writes'
  BY <1>1, <1>2, <1>3, IdleKind DEF Writes
<1>5. QED
  BY <1>1, <1>4 DEF Whole

LEMMA WholeStep == WInv /\ [Next]_vars => WInv'
<1> SUFFICES ASSUME WInv, [Next]_vars PROVE WInv'
  OBVIOUS
<1>0. PInv'
  BY BackedStep DEF WInv
<1> SUFFICES Writes' /\ Whole'
  BY <1>0 DEF WInv
<1>1. ASSUME NEW kind \in {"read", "write"}, NEW area \in Areas, Begin(kind, area[1], area[2])
      PROVE  Writes' /\ Whole'
  BY <1>1, BeginWhole
<1>2. CASE MappedStep
  BY <1>2, MappedStepWhole
<1>3. CASE PlainStep
  BY <1>3, PlainStepWhole
<1>p. CASE PlainFails
  BY <1>p, PlainFailsWhole
<1>4. CASE Done
  BY <1>4, DoneWhole
<1>5. CASE Sync
  BY <1>5, SyncStepWhole
<1>6. ASSUME NEW on \in BOOLEAN, SetMmap(on)
      PROVE  Writes' /\ Whole'
  BY <1>6, SetMmapWhole
<1>7. ASSUME NEW n \in Limits, SetMaxMapSize(n)
      PROVE  Writes' /\ Whole'
  BY <1>7, SetMaxMapSizeWhole
<1>8. CASE UNCHANGED vars
  <2>1. UNCHANGED <<reader, size, next_block, m, memory_mapping, mapped_size_max, limited, op, got, dirty,
                    starved, need_recovery, fails>>
    BY <1>8 DEF vars
  <2>2. Writes'
    BY <2>1 DEF WInv, Writes
  <2>3. Unlimited => Unlimited'
    BY <2>1 DEF Unlimited, GivenUp
  <2>4. QED
    BY <2>1, <2>2, <2>3 DEF WInv, Whole
<1>9. QED
  BY <1>1, <1>2, <1>3, <1>p, <1>4, <1>5, <1>6, <1>7, <1>8 DEF Next, Step

LEMMA WholeInit == Init => WInv
<1> SUFFICES ASSUME Init PROVE WInv
  OBVIOUS
<1>1. /\ m = [region |-> TRUE, size |-> InitSize, pos |-> 0, off |-> 0]
      /\ op = Idle /\ dirty = {} /\ size = InitSize /\ memory_mapping = TRUE /\ fails = 0
      /\ mapped_size_max = SizeMax
  BY DEF Init
<1>2. m.region /\ m.off = 0 /\ op.kind = "idle"
  BY <1>1, IdleKind
<1>3. Writes
  BY <1>1, <1>2, ConstAssumption DEF Writes
<1>4. Shows(m, dirty)
  BY <1>1, <1>2 DEF Shows
<1>5. Bounded(m, size, fails)
  <2>1. PICK k \in Nat : k = 0
    OBVIOUS
  <2>2. InitSize <= Grown(k)
    BY GrownIs
  <2>3. QED
    BY <1>1, <1>2, <2>1, <2>2 DEF Bounded, LeftOver
<1>6. Unlimited
  BY <1>1, <1>2, <1>4, <1>5 DEF Unlimited
<1>7. QED
  BY <1>1, <1>3, <1>6, BackedInit DEF WInv, Whole

\* As long as no limit was set to the size of the mapping, whatever was written, through
\* the window or by plain calls after fstat or mmap has failed, also with the file
\* extended just before, and wherever the window was given up, moved or mapped anew, the
\* msync or fsync of _gdbm_mapped_sync (mmap.c:394) reaches all of it; unless calloc failed.
THEOREM SyncReachesAll == Spec => []SyncCovers
<1>1. WInv => SyncCovers
  <2>1. SUFFICES ASSUME WInv, ~limited, ~starved PROVE Unsynced = {}
    BY DEF SyncCovers
  <2>2. IsPlace(m) /\ Shows(m, dirty)
    BY <2>1 DEF WInv, PInv, SInv, Sizes, Unlimited, Whole
  <2>3. QED
    BY <2>2, ShownIsSynced
<1>2. QED
  BY WholeInit, WholeStep, <1>1, PTL DEF Spec

=============================================================================
