----------------------------- MODULE WaterFall ------------------------------
(***************************************************************************)
(* The layout of the list of posts: every post is put under the shortest   *)
(* column, with a height drawn at random.  The layout keeps its frames as  *)
(* long as it lives, whatever happens to the posts.                        *)
(*                                                                         *)
(* prepare() runs in one go on the main queue; its loop takes one step per *)
(* post here, and nothing comes in between.  The columns' horizontal       *)
(* position and width are left out.                                        *)
(***************************************************************************)
EXTENDS Integers, Sequences

CONSTANTS
  Cols,          \* WaterFallFlowLayout.cols
  Heights,       \* those the delegate may draw
  Gap,           \* minimumInteritemSpacing
  Top, Bottom,   \* sectionInset
  MaxItems       \* bound: posts in the list

ASSUME ColsAssumption == Cols \in Nat \ {0}
ASSUME HeightsAssumption == Heights \subseteq Nat \ {0} /\ Heights # {}
ASSUME InsetsAssumption == Gap \in Nat /\ Top \in Nat /\ Bottom \in Nat
ASSUME ItemsAssumption == MaxItems \in Nat

VARIABLES
  items,         \* how many posts the list has
  stale,         \* the list was reloaded since the layout was prepared
  laying,        \* the loop of prepare() runs
  index,         \* the post it is at
  frames,        \* layoutAttributeArray
  yArray,        \* where each column ends
  maxHeight      \* height of the content

vars == <<items, stale, laying, index, frames, yArray, maxHeight>>

Columns == 0..(Cols - 1)
Frame == [col : Columns, y : Int, height : Heights]
MaxY(f) == f.y + f.height

Init ==
  /\ items = 0 /\ stale = TRUE /\ laying = FALSE /\ index = 0
  /\ frames = <<>> /\ yArray = [c \in Columns |-> Top] /\ maxHeight = 0

(* posts' didSet: reloadData invalidates the layout, not its frames.       *)
Reload(n) ==
  /\ ~laying /\ items' = n /\ stale' = TRUE
  /\ UNCHANGED <<laying, index, frames, yArray, maxHeight>>

(* prepare, up to its loop                                                 *)
FromTheStart ==                          \* mutant: every post is placed again
  /\ stale /\ ~laying /\ stale' = FALSE
  /\ IF items > Len(frames) THEN laying' = TRUE /\ index' = 0
     ELSE UNCHANGED <<laying, index>>
  /\ UNCHANGED <<items, frames, yArray, maxHeight>>

Prepare ==
  /\ stale /\ ~laying /\ stale' = FALSE
  /\ IF items > Len(frames) THEN laying' = TRUE /\ index' = Len(frames)
     ELSE UNCHANGED <<laying, index>>
  /\ UNCHANGED <<items, frames, yArray, maxHeight>>

Shortest(c) ==
  /\ \A d \in Columns : yArray[c] <= yArray[d]
  /\ \A d \in Columns : d < c => yArray[c] < yArray[d]

ItemY(c) == yArray[c] + (IF index >= Cols THEN Gap ELSE 0)

(* The body of the loop                                                    *)
OneTooMany(h) ==                         \* mutant: the range is closed
  /\ laying /\ index <= items /\ index' = index + 1
  /\ \E c \in Columns :
       /\ Shortest(c)
       /\ frames' = Append(frames, [col |-> c, y |-> ItemY(c), height |-> h])
       /\ yArray' = [yArray EXCEPT ![c] = ItemY(c) + h]
  /\ UNCHANGED <<items, stale, laying, maxHeight>>

GapForgotten(h) ==                       \* mutant: the column grows by the height
  /\ laying /\ index < items /\ index' = index + 1
  /\ \E c \in Columns :
       /\ Shortest(c)
       /\ frames' = Append(frames, [col |-> c, y |-> ItemY(c), height |-> h])
       /\ yArray' = [yArray EXCEPT ![c] = @ + h]
  /\ UNCHANGED <<items, stale, laying, maxHeight>>

Place(h) ==
  /\ laying /\ index < items /\ index' = index + 1
  /\ \E c \in Columns :
       /\ Shortest(c)
       /\ frames' = Append(frames, [col |-> c, y |-> ItemY(c), height |-> h])
       /\ yArray' = [yArray EXCEPT ![c] = ItemY(c) + h]
  /\ UNCHANGED <<items, stale, laying, maxHeight>>

LastColumn(c) ==                         \* mutant: where the last post ends
  c = frames[Len(frames)].col
Tallest(c) == \A d \in Columns : yArray[d] <= yArray[c]

(* The end of prepare                                                      *)
Finish ==
  /\ laying /\ index >= items /\ laying' = FALSE
  /\ \E c \in Columns : Tallest(c) /\ maxHeight' = yArray[c] + Bottom
  /\ UNCHANGED <<items, stale, index, frames, yArray>>

Next ==
  \/ \E n \in 0..MaxItems : Reload(n)
  \/ \E h \in Heights : Place(h)
  \/ Prepare \/ Finish

Spec == Init /\ [][Next]_vars

-----------------------------------------------------------------------------
(* Every variable holds a value of its kind, and the loop stays within the *)
(* posts.                                                                  *)
TypeOK ==
  /\ items \in 0..MaxItems /\ stale \in BOOLEAN /\ laying \in BOOLEAN
  /\ index \in Nat /\ (laying => index <= items)
  /\ frames \in Seq(Frame) /\ yArray \in [Columns -> Int] /\ maxHeight \in Int

(* Frames of one column never overlap, and lie at least Gap apart.         *)
NoOverlap ==
  \A i, j \in 1..Len(frames) :
    i < j /\ frames[i].col = frames[j].col => MaxY(frames[i]) + Gap <= frames[j].y

(* The posts that begin a column, and only they, lie at the top: the code  *)
(* takes index >= cols for "the column is not empty".                      *)
TopRow ==
  \A j \in 1..Len(frames) :
    IF \E i \in 1..(j - 1) : frames[i].col = frames[j].col
    THEN frames[j].y >= Top + Gap ELSE frames[j].y = Top

(* No column gets ahead of another by more than one post and its gap.      *)
Balanced ==
  \A c, d \in Columns : \E h \in Heights : yArray[c] <= yArray[d] + h + Gap

(* The content is high enough to scroll to every frame, with the inset     *)
(* below it.                                                               *)
ScrollsToAll ==
  ~laying => \A i \in 1..Len(frames) : MaxY(frames[i]) + Bottom <= maxHeight

(* A pass of the layout that adds frames ends with one for every post and  *)
(* no more, however often the list shrank and grew before.                 *)
FramePerPost == [][laying /\ ~laying' => Len(frames) = items]_vars
=============================================================================
