-------------------------- MODULE WaterFallProofs ---------------------------
(***************************************************************************)
(* Proofs about WaterFall for any number of columns and posts and any      *)
(* heights, gap and insets.                                                *)
(***************************************************************************)
EXTENDS WaterFall, TLAPS

-----------------------------------------------------------------------------
(* The inductive invariant.  A column ends where its last frame does, and  *)
(* the first posts take the columns in order: that is why index >= cols    *)
(* stands for "the column is not empty".                                   *)
ColumnsEnd ==
  /\ \A c \in Columns : yArray[c] >= Top
  /\ \A i \in 1..Len(frames) :
       frames[i].y >= Top /\ MaxY(frames[i]) <= yArray[frames[i].col]
  /\ \A c \in Columns : (\A i \in 1..Len(frames) : frames[i].col # c) => yArray[c] = Top

InOrder == \A i \in 1..Len(frames) : i <= Cols => frames[i].col = i - 1

LoopOK == laying => index = Len(frames)

Inv == TypeOK /\ LoopOK /\ ColumnsEnd /\ InOrder

-----------------------------------------------------------------------------
(* Facts about the shortest column                                         *)

(* As long as a column is empty the next post begins the next column, and  *)
(* afterwards no column is empty.                                          *)
LEMMA NextColumn ==
  ASSUME Inv, laying, NEW c \in Columns, Shortest(c)
  PROVE  /\ index < Cols => c = index /\ yArray[c] = Top
                              /\ \A i \in 1..Len(frames) : frames[i].col # c
         /\ index >= Cols => \E i \in 1..Len(frames) : frames[i].col = c
<1> USE ColsAssumption, HeightsAssumption, InsetsAssumption
<1>1. index = Len(frames) /\ index \in Nat /\ yArray \in [Columns -> Int]
      /\ Len(frames) \in Nat /\ \A i \in 1..Len(frames) : frames[i] \in Frame
  BY DEF Inv, TypeOK, LoopOK
<1>2. ASSUME index < Cols
      PROVE  c = index /\ yArray[c] = Top /\ \A i \in 1..Len(frames) : frames[i].col # c
  <2>1. index \in Columns
    BY <1>1, <1>2 DEF Columns
  <2>2. \A i \in 1..Len(frames) : frames[i].col = i - 1
    BY <1>1, <1>2 DEF Inv, InOrder
  <2>3. \A i \in 1..Len(frames) : frames[i].col # index
    BY <2>2, <1>1
  <2>4. yArray[index] = Top
    BY <2>1, <2>3 DEF Inv, ColumnsEnd
  <2>5. ASSUME c < index PROVE FALSE
    <3>1. c + 1 \in 1..Len(frames) /\ c \in Nat
      BY <2>5, <1>1 DEF Columns
    <3>2. frames[c + 1].col = c /\ frames[c + 1] \in Frame
      BY <3>1, <2>2, <1>1
    <3>3. frames[c + 1].y >= Top /\ MaxY(frames[c + 1]) <= yArray[c]
      BY <3>1, <3>2 DEF Inv, ColumnsEnd
    <3>4. frames[c + 1].y \in Int /\ frames[c + 1].height \in Nat \ {0}
      BY <3>2 DEF Frame
    <3>5. yArray[c] > Top
      BY <3>3, <3>4, <1>1 DEF MaxY
    <3> QED  BY <3>5, <2>4, <2>1, <1>1 DEF Shortest
  <2>6. ASSUME index < c PROVE FALSE
    <3>1. yArray[c] < Top /\ yArray[c] >= Top
      BY <2>6, <2>1, <2>4 DEF Shortest, Inv, ColumnsEnd
    <3> QED  BY <3>1, <1>1
  <2>7. c = index
    BY <2>5, <2>6, <1>1 DEF Columns
  <2> QED  BY <2>7, <2>3, <2>4
<1>3. ASSUME index >= Cols
      PROVE  \E i \in 1..Len(frames) : frames[i].col = c
  <2>1. c + 1 \in 1..Len(frames) /\ c + 1 <= Cols /\ c \in Int
    BY <1>1, <1>3 DEF Columns
  <2>2. frames[c + 1].col = (c + 1) - 1
    BY <2>1 DEF Inv, InOrder
  <2> QED  BY <2>1, <2>2
<1> QED  BY <1>2, <1>3

(* What placing a post does to the frames and the columns.                 *)
LEMMA Placed ==
  ASSUME Inv, NEW h \in Heights, NEW c \in Columns, Shortest(c), laying,
         frames' = Append(frames, [col |-> c, y |-> ItemY(c), height |-> h]),
         yArray' = [yArray EXCEPT ![c] = ItemY(c) + h]
  PROVE  /\ Len(frames') = Len(frames) + 1
         /\ \A i \in 1..Len(frames) : frames'[i] = frames[i]
         /\ frames'[Len(frames) + 1] = [col |-> c, y |-> ItemY(c), height |-> h]
         /\ ItemY(c) \in Int /\ ItemY(c) >= yArray[c] /\ ItemY(c) <= yArray[c] + Gap
         /\ yArray'[c] = ItemY(c) + h /\ \A d \in Columns : d # c => yArray'[d] = yArray[d]
         /\ frames' \in Seq(Frame) /\ yArray' \in [Columns -> Int]
<1> USE ColsAssumption, HeightsAssumption, InsetsAssumption
<1>1. frames \in Seq(Frame) /\ yArray \in [Columns -> Int] /\ index \in Nat
  BY DEF Inv, TypeOK
<1>2. ItemY(c) \in Int /\ ItemY(c) >= yArray[c] /\ ItemY(c) <= yArray[c] + Gap
  BY <1>1 DEF ItemY
<1>3. [col |-> c, y |-> ItemY(c), height |-> h] \in Frame
  BY <1>2 DEF Frame
<1>4. frames' \in Seq(Frame) /\ Len(frames') = Len(frames) + 1
      /\ (\A i \in 1..Len(frames) : frames'[i] = frames[i])
      /\ frames'[Len(frames) + 1] = [col |-> c, y |-> ItemY(c), height |-> h]
  BY <1>1, <1>3
<1>5. yArray' \in [Columns -> Int] /\ yArray'[c] = ItemY(c) + h
      /\ \A d \in Columns : d # c => yArray'[d] = yArray[d]
  BY <1>1, <1>2
<1> QED  BY <1>2, <1>4, <1>5

-----------------------------------------------------------------------------
(* Type correctness and the inductive invariant                            *)

LEMMA InvInit == Init => Inv
<1> SUFFICES ASSUME Init PROVE Inv
  OBVIOUS
<1> USE ColsAssumption, InsetsAssumption, ItemsAssumption
<1>1. frames = <<>> /\ Len(frames) = 0 /\ 1..Len(frames) = {}
  BY DEF Init
<1>2. TypeOK /\ LoopOK
  <2>1. frames \in Seq(Frame)
    BY <1>1
  <2>2. yArray \in [Columns -> Int]
    BY DEF Init
  <2>3. items \in 0..MaxItems /\ index \in Nat /\ maxHeight \in Int
    BY DEF Init
  <2>4. stale \in BOOLEAN /\ laying \in BOOLEAN /\ ~laying
    <3>1. stale = TRUE /\ laying = FALSE
      BY DEF Init
    <3> QED  BY <3>1
  <2> QED  BY <2>1, <2>2, <2>3, <2>4 DEF TypeOK, LoopOK
<1>3. ColumnsEnd /\ InOrder
  BY <1>1 DEF Init, ColumnsEnd, InOrder
<1> QED  BY <1>2, <1>3 DEF Inv

LEMMA PlaceInv ==
  ASSUME Inv, NEW h \in Heights, Place(h)
  PROVE  Inv'
<1> USE ColsAssumption, HeightsAssumption, InsetsAssumption, ItemsAssumption
<1>1. PICK c \in Columns :
        /\ Shortest(c)
        /\ frames' = Append(frames, [col |-> c, y |-> ItemY(c), height |-> h])
        /\ yArray' = [yArray EXCEPT ![c] = ItemY(c) + h]
  BY DEF Place
<1>2. /\ laying /\ laying' /\ index < items /\ index' = index + 1
      /\ UNCHANGED <<items, stale, maxHeight>>
  BY DEF Place
<1> DEFINE f == [col |-> c, y |-> ItemY(c), height |-> h]
<1>3. /\ Len(frames') = Len(frames) + 1
      /\ \A i \in 1..Len(frames) : frames'[i] = frames[i]
      /\ frames'[Len(frames) + 1] = f
      /\ ItemY(c) \in Int /\ ItemY(c) >= yArray[c] /\ ItemY(c) <= yArray[c] + Gap
      /\ yArray'[c] = ItemY(c) + h /\ \A d \in Columns : d # c => yArray'[d] = yArray[d]
      /\ frames' \in Seq(Frame) /\ yArray' \in [Columns -> Int]
  BY <1>1, <1>2, Placed
<1>4. /\ index < Cols => c = index
      /\ index = Len(frames) /\ index \in Nat /\ items \in Nat
      /\ yArray \in [Columns -> Int] /\ h \in Nat \ {0}
      /\ \A i \in 1..Len(frames) : frames[i] \in Frame
  BY <1>1, <1>2, NextColumn DEF Inv, TypeOK, LoopOK
<1>5. TypeOK' /\ LoopOK'
  BY <1>2, <1>3, <1>4 DEF Inv, TypeOK, LoopOK
<1>6. ColumnsEnd'
  <2>1. ASSUME NEW d \in Columns PROVE yArray'[d] >= yArray[d] /\ yArray'[d] >= Top
    <3>1. yArray[d] >= Top /\ yArray[d] \in Int
      BY <1>4 DEF Inv, ColumnsEnd
    <3>2. CASE d = c
      BY <3>1, <3>2, <1>3, <1>4
    <3>3. CASE d # c
      BY <3>1, <3>3, <1>3
    <3> QED  BY <3>2, <3>3
  <2>2. ASSUME NEW i \in 1..Len(frames')
        PROVE  frames'[i].y >= Top /\ MaxY(frames'[i]) <= yArray'[frames'[i].col]
    <3>1. CASE i \in 1..Len(frames)
      <4>1. frames'[i] = frames[i] /\ frames[i].col \in Columns /\ frames[i].y \in Int
            /\ frames[i].height \in Nat
        BY <3>1, <1>3, <1>4 DEF Frame
      <4>2. frames[i].y >= Top /\ MaxY(frames[i]) <= yArray[frames[i].col]
        BY <3>1 DEF Inv, ColumnsEnd
      <4>3. yArray'[frames[i].col] >= yArray[frames[i].col]
            /\ yArray[frames[i].col] \in Int /\ yArray'[frames[i].col] \in Int
        BY <4>1, <2>1, <1>3, <1>4
      <4> QED  BY <4>1, <4>2, <4>3 DEF MaxY
    <3>2. CASE i = Len(frames) + 1
      <4>1. frames'[i].y = ItemY(c) /\ frames'[i].height = h /\ frames'[i].col = c
        BY <3>2, <1>3
      <4>2. yArray[c] >= Top /\ yArray[c] \in Int
        BY <1>4 DEF Inv, ColumnsEnd
      <4> QED  BY <4>1, <4>2, <1>3, <1>4 DEF MaxY
    <3> QED  BY <3>1, <3>2, <1>3, <1>4
  <2>3. ASSUME NEW d \in Columns, \A i \in 1..Len(frames') : frames'[i].col # d
        PROVE  yArray'[d] = Top
    <3>1. d # c
      <4>1. Len(frames) + 1 \in 1..Len(frames')
        BY <1>3, <1>4
      <4> QED  BY <4>1, <2>3, <1>3
    <3>2. \A i \in 1..Len(frames) : frames[i].col # d
      <4> SUFFICES ASSUME NEW i \in 1..Len(frames) PROVE frames[i].col # d
        OBVIOUS
      <4>1. i \in 1..Len(frames') /\ frames'[i] = frames[i]
        BY <1>3, <1>4
      <4> QED  BY <4>1, <2>3
    <3> QED  BY <3>1, <3>2, <1>3 DEF Inv, ColumnsEnd
  <2> QED  BY <2>1, <2>2, <2>3 DEF ColumnsEnd
<1>7. InOrder'
  <2> SUFFICES ASSUME NEW i \in 1..Len(frames'), i <= Cols PROVE frames'[i].col = i - 1
    BY DEF InOrder
  <2>1. CASE i \in 1..Len(frames)
    BY <2>1, <1>3 DEF Inv, InOrder
  <2>2. CASE i = Len(frames) + 1
    <3>1. index < Cols /\ c = i - 1
      BY <2>2, <1>4
    <3> QED  BY <3>1, <2>2, <1>3
  <2> QED  BY <2>1, <2>2, <1>3, <1>4
<1> QED  BY <1>5, <1>6, <1>7 DEF Inv

LEMMA InvNext == Inv /\ [Next]_vars => Inv'
<1> SUFFICES ASSUME Inv, [Next]_vars PROVE Inv'
  OBVIOUS
<1> USE ColsAssumption, InsetsAssumption, ItemsAssumption DEF Inv
<1>1. ASSUME NEW n \in 0..MaxItems, Reload(n) PROVE Inv'
  BY <1>1 DEF Reload, TypeOK, LoopOK, ColumnsEnd, InOrder
<1>2. ASSUME NEW h \in Heights, Place(h) PROVE Inv'
  BY <1>2, PlaceInv
<1>3. CASE Prepare
  <2>1. TypeOK' /\ LoopOK'
    <3>1. UNCHANGED <<items, frames, yArray, maxHeight>> /\ stale' \in BOOLEAN
      BY <1>3 DEF Prepare
    <3>2. CASE items > Len(frames)
      <4>1. laying' = TRUE /\ index' = Len(frames)
        BY <1>3, <3>2 DEF Prepare
      <4>2. Len(frames) \in Nat /\ items \in Nat
        BY DEF TypeOK
      <4> QED  BY <3>1, <3>2, <4>1, <4>2 DEF TypeOK, LoopOK
    <3>3. CASE ~(items > Len(frames))
      <4>1. UNCHANGED <<laying, index>>
        BY <1>3, <3>3 DEF Prepare
      <4> QED  BY <3>1, <4>1 DEF TypeOK, LoopOK
    <3> QED  BY <3>2, <3>3
  <2>2. UNCHANGED <<frames, yArray>>
    BY <1>3 DEF Prepare
  <2> QED  BY <2>1, <2>2 DEF ColumnsEnd, InOrder
<1>4. CASE Finish
  <2>1. PICK c \in Columns : Tallest(c) /\ maxHeight' = yArray[c] + Bottom
    BY <1>4 DEF Finish
  <2>2. UNCHANGED <<frames, yArray, items, stale, index>> /\ laying' = FALSE /\ maxHeight' \in Int
    BY <1>4, <2>1 DEF Finish, TypeOK
  <2>3. TypeOK'
    <3>1. laying' \in BOOLEAN /\ (laying' => index' <= items')
      BY <2>2
    <3>2. items' \in 0..MaxItems /\ stale' \in BOOLEAN /\ index' \in Nat
          /\ frames' \in Seq(Frame) /\ yArray' \in [Columns -> Int]
      BY <2>2 DEF TypeOK
    <3> QED  BY <2>2, <3>1, <3>2 DEF TypeOK
  <2>4. LoopOK' /\ ColumnsEnd' /\ InOrder'
    BY <2>2 DEF LoopOK, ColumnsEnd, InOrder
  <2> QED  BY <2>3, <2>4
<1>5. CASE UNCHANGED vars
  BY <1>5 DEF vars, TypeOK, LoopOK, ColumnsEnd, InOrder
<1> QED  BY <1>1, <1>2, <1>3, <1>4, <1>5 DEF Next

LEMMA Invariance == Spec => []Inv
<1> QED  BY InvInit, InvNext, PTL DEF Spec

(* The layout's state is well formed and its loop stays within the posts.  *)
THEOREM LayoutTypes == Spec => []TypeOK
<1>1. Inv => TypeOK
  BY DEF Inv
<1> QED  BY <1>1, Invariance, PTL

-----------------------------------------------------------------------------
(* The frames                                                              *)

(* A step that places no post leaves the frames and the columns alone.     *)
LEMMA OnlyPlaceDraws ==
  ASSUME [Next]_vars
  PROVE  UNCHANGED <<frames, yArray>> \/ \E h \in Heights : Place(h)
BY DEF Next, vars, Reload, Prepare, Finish

(* A post placed in a column that is not empty lies Gap below every frame  *)
(* of it; in an empty column it lies at the top.                           *)
LEMMA WherePlaced ==
  ASSUME Inv, NEW c \in Columns, Shortest(c), laying
  PROVE  /\ \A i \in 1..Len(frames) : frames[i].col = c => MaxY(frames[i]) + Gap <= ItemY(c)
         /\ IF \E i \in 1..Len(frames) : frames[i].col = c
            THEN ItemY(c) >= Top + Gap ELSE ItemY(c) = Top
<1> USE ColsAssumption, HeightsAssumption, InsetsAssumption
<1>1. /\ index < Cols => yArray[c] = Top /\ \A i \in 1..Len(frames) : frames[i].col # c
      /\ index >= Cols => \E i \in 1..Len(frames) : frames[i].col = c
  BY NextColumn
<1>2. /\ yArray[c] \in Int /\ yArray[c] >= Top /\ index \in Nat
      /\ \A i \in 1..Len(frames) : frames[i] \in Frame
  BY DEF Inv, TypeOK, ColumnsEnd
<1>3. CASE index < Cols
  <2>1. ItemY(c) = yArray[c]
    BY <1>3, <1>2 DEF ItemY
  <2> QED  BY <2>1, <1>1, <1>3
<1>4. CASE index >= Cols
  <2>1. ItemY(c) = yArray[c] + Gap
    BY <1>4 DEF ItemY
  <2>2. ASSUME NEW i \in 1..Len(frames), frames[i].col = c
        PROVE  MaxY(frames[i]) + Gap <= ItemY(c)
    <3>1. MaxY(frames[i]) <= yArray[c]
      BY <2>2 DEF Inv, ColumnsEnd
    <3>2. MaxY(frames[i]) \in Int
      <4>1. frames[i] \in Frame
        BY <1>2
      <4>2. frames[i].y \in Int /\ frames[i].height \in Nat
        BY <4>1 DEF Frame
      <4> QED  BY <4>2 DEF MaxY
    <3> QED  BY <3>1, <3>2, <2>1, <1>2
  <2> QED  BY <2>1, <2>2, <1>1, <1>2, <1>4
<1> QED  BY <1>3, <1>4, <1>2

LEMMA OverlapPlace ==
  ASSUME Inv, NoOverlap, NEW h \in Heights, Place(h)
  PROVE  NoOverlap'
<1>1. PICK c \in Columns :
        /\ Shortest(c)
        /\ frames' = Append(frames, [col |-> c, y |-> ItemY(c), height |-> h])
        /\ yArray' = [yArray EXCEPT ![c] = ItemY(c) + h]
  BY DEF Place
<1>2. laying /\ Len(frames) \in Nat
  BY DEF Place, Inv, TypeOK
<1>3. /\ Len(frames') = Len(frames) + 1
      /\ \A i \in 1..Len(frames) : frames'[i] = frames[i]
      /\ frames'[Len(frames) + 1] = [col |-> c, y |-> ItemY(c), height |-> h]
  BY <1>1, <1>2, Placed
<1>4. \A i \in 1..Len(frames) : frames[i].col = c => MaxY(frames[i]) + Gap <= ItemY(c)
  BY <1>1, <1>2, WherePlaced
<1> SUFFICES ASSUME NEW i \in 1..Len(frames'), NEW j \in 1..Len(frames'),
                    i < j, frames'[i].col = frames'[j].col
             PROVE  MaxY(frames'[i]) + Gap <= frames'[j].y
  BY DEF NoOverlap, MaxY
<1>5. i \in 1..Len(frames) /\ frames'[i] = frames[i]
  BY <1>2, <1>3
<1>6. CASE j \in 1..Len(frames)
  BY <1>3, <1>5, <1>6 DEF NoOverlap
<1>7. CASE j = Len(frames) + 1
  BY <1>3, <1>4, <1>5, <1>7
<1> QED  BY <1>6, <1>7, <1>2, <1>3

(* Frames of one column never overlap, whatever heights are drawn and      *)
(* however often the list is reloaded.                                     *)
THEOREM NeverOverlap == Spec => []NoOverlap
<1>1. Init => NoOverlap
  <2> SUFFICES ASSUME Init PROVE NoOverlap
    OBVIOUS
  <2>1. 1..Len(frames) = {}
    BY DEF Init
  <2> QED  BY <2>1 DEF NoOverlap
<1>2. Inv /\ NoOverlap /\ [Next]_vars => NoOverlap'
  <2> SUFFICES ASSUME Inv, NoOverlap, [Next]_vars PROVE NoOverlap'
    OBVIOUS
  <2>1. CASE UNCHANGED <<frames, yArray>>
    BY <2>1 DEF NoOverlap, MaxY
  <2> QED  BY <2>1, OnlyPlaceDraws, OverlapPlace
<1> QED  BY <1>1, <1>2, Invariance, PTL DEF Spec

LEMMA TopRowPlace ==
  ASSUME Inv, TopRow, NEW h \in Heights, Place(h)
  PROVE  TopRow'
<1>1. PICK c \in Columns :
        /\ Shortest(c)
        /\ frames' = Append(frames, [col |-> c, y |-> ItemY(c), height |-> h])
        /\ yArray' = [yArray EXCEPT ![c] = ItemY(c) + h]
  BY DEF Place
<1>2. laying /\ Len(frames) \in Nat
  BY DEF Place, Inv, TypeOK
<1>3. /\ Len(frames') = Len(frames) + 1
      /\ \A i \in 1..Len(frames) : frames'[i] = frames[i]
      /\ frames'[Len(frames) + 1].col = c /\ frames'[Len(frames) + 1].y = ItemY(c)
  BY <1>1, <1>2, Placed
<1>4. IF \E i \in 1..Len(frames) : frames[i].col = c
      THEN ItemY(c) >= Top + Gap ELSE ItemY(c) = Top
  BY <1>1, <1>2, WherePlaced
<1> SUFFICES ASSUME NEW j \in 1..Len(frames')
             PROVE  IF \E i \in 1..(j - 1) : frames'[i].col = frames'[j].col
                    THEN frames'[j].y >= Top + Gap ELSE frames'[j].y = Top
  BY DEF TopRow
<1>5. \A i \in 1..(j - 1) : i \in 1..Len(frames) /\ frames'[i] = frames[i]
  BY <1>2, <1>3
<1>6. CASE j \in 1..Len(frames)
  <2>1. frames'[j] = frames[j]
    BY <1>3, <1>6
  <2> QED  BY <2>1, <1>5, <1>6 DEF TopRow
<1>7. CASE j = Len(frames) + 1
  <2>1. 1..(j - 1) = 1..Len(frames)
    BY <1>2, <1>7
  <2> QED  BY <2>1, <1>3, <1>4, <1>5, <1>7
<1> QED  BY <1>6, <1>7, <1>2, <1>3

(* The first post of a column, and no other, lies at the top.              *)
THEOREM TopRowAlways == Spec => []TopRow
<1>1. Init => TopRow
  <2> SUFFICES ASSUME Init PROVE TopRow
    OBVIOUS
  <2>1. 1..Len(frames) = {}
    BY DEF Init
  <2> QED  BY <2>1 DEF TopRow
<1>2. Inv /\ TopRow /\ [Next]_vars => TopRow'
  <2> SUFFICES ASSUME Inv, TopRow, [Next]_vars PROVE TopRow'
    OBVIOUS
  <2>1. CASE UNCHANGED <<frames, yArray>>
    BY <2>1 DEF TopRow
  <2> QED  BY <2>1, OnlyPlaceDraws, TopRowPlace
<1> QED  BY <1>1, <1>2, Invariance, PTL DEF Spec

-----------------------------------------------------------------------------
(* The columns                                                             *)

LEMMA BalancedPlace ==
  ASSUME Inv, Balanced, NEW h \in Heights, Place(h)
  PROVE  Balanced'
<1> USE HeightsAssumption, InsetsAssumption
<1>1. PICK c \in Columns :
        /\ Shortest(c)
        /\ frames' = Append(frames, [col |-> c, y |-> ItemY(c), height |-> h])
        /\ yArray' = [yArray EXCEPT ![c] = ItemY(c) + h]
  BY DEF Place
<1>2. laying /\ yArray \in [Columns -> Int] /\ h \in Nat
  BY DEF Place, Inv, TypeOK
<1>3. /\ ItemY(c) \in Int /\ ItemY(c) >= yArray[c] /\ ItemY(c) <= yArray[c] + Gap
      /\ yArray'[c] = ItemY(c) + h /\ \A d \in Columns : d # c => yArray'[d] = yArray[d]
  BY <1>1, <1>2, Placed
<1> SUFFICES ASSUME NEW a \in Columns, NEW b \in Columns
             PROVE  \E k \in Heights : yArray'[a] <= yArray'[b] + k + Gap
  BY DEF Balanced
<1>4. CASE a = c
  <2>1. CASE b = c
    BY <1>4, <2>1, <1>2, <1>3
  <2>2. CASE b # c
    <3>1. yArray[c] <= yArray[b] /\ yArray'[b] = yArray[b]
          /\ yArray[c] \in Int /\ yArray[b] \in Int
      BY <2>2, <1>1, <1>2, <1>3 DEF Shortest
    <3>2. yArray'[a] <= yArray'[b] + h + Gap
      BY <3>1, <1>2, <1>3, <1>4
    <3> QED  BY <3>2
  <2> QED  BY <2>1, <2>2
<1>5. CASE a # c
  <2>1. PICK k \in Heights : yArray[a] <= yArray[b] + k + Gap
    BY DEF Balanced
  <2>2. yArray'[a] = yArray[a] /\ yArray[a] \in Int /\ yArray[b] \in Int /\ k \in Nat
    BY <1>2, <1>3, <1>5
  <2>3. yArray'[b] >= yArray[b] /\ yArray'[b] \in Int
    <3>1. CASE b = c
      BY <3>1, <1>2, <1>3
    <3>2. CASE b # c
      BY <3>2, <2>2, <1>3
    <3> QED  BY <3>1, <3>2
  <2> QED  BY <2>1, <2>2, <2>3
<1> QED  BY <1>4, <1>5

(* No column gets ahead of another by more than a post and its gap.        *)
THEOREM BalancedAlways == Spec => []Balanced
<1>1. Init => Balanced
  <2> SUFFICES ASSUME Init, NEW c \in Columns, NEW d \in Columns
               PROVE  \E h \in Heights : yArray[c] <= yArray[d] + h + Gap
    BY DEF Balanced
  <2>1. PICK h \in Heights : TRUE
    BY HeightsAssumption
  <2>2. yArray[c] = Top /\ yArray[d] = Top /\ h \in Nat
    BY HeightsAssumption DEF Init
  <2> QED  BY <2>2, InsetsAssumption
<1>2. Inv /\ Balanced /\ [Next]_vars => Balanced'
  <2> SUFFICES ASSUME Inv, Balanced, [Next]_vars PROVE Balanced'
    OBVIOUS
  <2>1. CASE UNCHANGED <<frames, yArray>>
    BY <2>1 DEF Balanced
  <2> QED  BY <2>1, OnlyPlaceDraws, BalancedPlace
<1> QED  BY <1>1, <1>2, Invariance, PTL DEF Spec

(* The content always reaches below every frame.                           *)
THEOREM ScrollsToAllAlways == Spec => []ScrollsToAll
<1> USE HeightsAssumption, InsetsAssumption
<1>1. Init => ScrollsToAll
  <2> SUFFICES ASSUME Init PROVE ScrollsToAll
    OBVIOUS
  <2>1. 1..Len(frames) = {}
    BY DEF Init
  <2> QED  BY <2>1 DEF ScrollsToAll
<1>2. Inv /\ ScrollsToAll /\ [Next]_vars => ScrollsToAll'
  <2> SUFFICES ASSUME Inv, ScrollsToAll, [Next]_vars PROVE ScrollsToAll'
    OBVIOUS
  <2>1. ASSUME NEW n \in 0..MaxItems, Reload(n) PROVE ScrollsToAll'
    BY <2>1 DEF Reload, ScrollsToAll, MaxY
  <2>2. ASSUME NEW h \in Heights, Place(h) PROVE ScrollsToAll'
    BY <2>2 DEF Place, ScrollsToAll
  <2>3. CASE Prepare
    BY <2>3 DEF Prepare, ScrollsToAll, MaxY
  <2>4. CASE Finish
    <3>1. PICK c \in Columns : Tallest(c) /\ maxHeight' = yArray[c] + Bottom
      BY <2>4 DEF Finish
    <3>2. frames' = frames /\ yArray \in [Columns -> Int]
          /\ \A i \in 1..Len(frames) : frames[i] \in Frame
      BY <2>4 DEF Finish, Inv, TypeOK
    <3>3. ASSUME NEW i \in 1..Len(frames)
          PROVE  MaxY(frames[i]) + Bottom <= maxHeight'
      <4>1. frames[i].col \in Columns /\ MaxY(frames[i]) \in Int
        <5>1. frames[i] \in Frame
          BY <3>2
        <5>2. frames[i].col \in Columns /\ frames[i].y \in Int /\ frames[i].height \in Nat
          BY <5>1 DEF Frame
        <5> QED  BY <5>2 DEF MaxY
      <4>2. MaxY(frames[i]) <= yArray[frames[i].col]
        BY DEF Inv, ColumnsEnd
      <4>3. yArray[frames[i].col] <= yArray[c]
        BY <3>1, <4>1 DEF Tallest
      <4> QED  BY <3>1, <3>2, <4>1, <4>2, <4>3
    <3> QED  BY <3>2, <3>3 DEF ScrollsToAll, MaxY
  <2>5. CASE UNCHANGED vars
    BY <2>5 DEF vars, ScrollsToAll, MaxY
  <2> QED  BY <2>1, <2>2, <2>3, <2>4, <2>5 DEF Next
<1> QED  BY <1>1, <1>2, Invariance, PTL DEF Spec

-----------------------------------------------------------------------------
(* A pass that adds frames starts where the frames end and ends with one   *)
(* for every post, whatever the list was before.                           *)
THEOREM FramePerPostAlways == Spec => FramePerPost
<1>1. Inv /\ [Next]_vars => [laying /\ ~laying' => Len(frames) = items]_vars
  <2> SUFFICES ASSUME Inv, Next, laying, ~laying' PROVE Len(frames) = items
    OBVIOUS
  <2>1. /\ Len(frames) \in Nat /\ items \in Nat
        /\ index = Len(frames) /\ index <= items
    BY ItemsAssumption DEF Inv, TypeOK, LoopOK
  <2>2. Finish
    BY DEF Next, Reload, Place, Prepare
  <2> QED  BY <2>1, <2>2 DEF Finish
<1> QED  BY <1>1, Invariance, PTL DEF Spec, FramePerPost
=============================================================================
