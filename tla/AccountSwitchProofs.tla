-------------------------- MODULE AccountSwitchProofs --------------------------
(***************************************************************************)
(* Theorems about AccountSwitch for every number of accounts, posts and    *)
(* taps.  ListsInv is inductive as it stands; EditsInv adds what the HUD   *)
(* guarantees and needs HudShows.  HudHeld says what the HUD waits for.    *)
(***************************************************************************)
EXTENDS AccountSwitch, WellFoundedInduction, TLAPS

(* A nonempty set of natural numbers has a least element, and Min is it.   *)
LEMMA MinOfNat ==
  ASSUME NEW S \in SUBSET Nat, S # {}
  PROVE  Min(S) \in S /\ \A y \in S : Min(S) <= y
<1>1. IsWellFoundedOn(OpToRel(<, Nat), Nat)
  BY NatLessThanWellFounded
<1>2. PICK x \in S : \A y \in S : ~(<<y, x>> \in OpToRel(<, Nat))
  BY <1>1, WFMin
<1>3. \A y \in S : x <= y
  <2> SUFFICES ASSUME NEW y \in S PROVE x <= y
    OBVIOUS
  <2>1. ~(y < x)
    <3>1. <<y, x>> \notin OpToRel(<, Nat)
      BY <1>2
    <3>2. <<y, x>> \in Nat \X Nat
      OBVIOUS
    <3>3. <<y, x>>[1] = y /\ <<y, x>>[2] = x
      OBVIOUS
    <3> QED
      BY <3>1, <3>2, <3>3 DEF OpToRel
  <2> QED
    BY <2>1
<1> QED
  BY <1>3 DEF Min

(* A nonempty set of numbers up to n has a greatest, and Max is it.        *)
LEMMA MaxOfInterval ==
  ASSUME NEW n \in Nat, NEW S \in SUBSET (1..n), S # {}
  PROVE  Max(S) \in S /\ \A y \in S : y <= Max(S)
<1> DEFINE T == {n - y : y \in S}
<1>1. T \in SUBSET Nat /\ T # {}
  <2>1. \A y \in S : n - y \in Nat
    OBVIOUS
  <2>2. PICK y \in S : TRUE
    OBVIOUS
  <2>3. n - y \in T
    OBVIOUS
  <2> QED
    BY <2>1, <2>3
<1>2. Min(T) \in T /\ \A z \in T : Min(T) <= z
  BY <1>1, MinOfNat
<1>3. PICK x \in S : Min(T) = n - x
  BY <1>2
<1>4. \A y \in S : y <= x
  <2> SUFFICES ASSUME NEW y \in S PROVE y <= x
    OBVIOUS
  <2>1. n - x <= n - y
    BY <1>2, <1>3
  <2> QED
    BY <2>1
<1> QED
  BY <1>4 DEF Max

-----------------------------------------------------------------------------
(* No write is queued twice.                                               *)
QueuedOnce ==
  \A u, v \in Users : \A i \in 1..Len(writes[u]), j \in 1..Len(writes[v]) :
    writes[u][i] = writes[v][j] => u = v /\ i = j

(* What a tap has come to: a save or unsave is for the account that tapped *)
(* it, and what it writes is made of that account's own saves; an edit     *)
(* carries the avatar of the account that tapped Done; a post has an       *)
(* author.                                                                 *)
OpFine(t, o) ==
  /\ o.kind \in Lists =>
       /\ o.by \in Accounts /\ o.target = o.by /\ o.image \in Images
       /\ o.step = "writing" => o.list \subseteq SavedBy(o.by)
  /\ o.kind = "edit" =>
       /\ o.by \in Accounts /\ o.value = AvatarURL(o.by, t)
       /\ o.step = "writing" => o.target \in Accounts
  /\ o.kind = "publish" /\ o.step = "writing" => o.value \in Authors
  /\ o.step = "reading" => o.kind \in Lists

ListsInv ==
  /\ TypeOK /\ QueuedOnce
  /\ \A t \in Taps : OpFine(t, op[t])
  /\ ServerOwn

-----------------------------------------------------------------------------
(* A tap keeps its kind, its author and its image, so that what a saved    *)
(* only grows.                                                             *)
LEMMA OpMoves ==
  ASSUME ListsInv, NEW t \in Taps, NEW o \in Ops, op' = [op EXCEPT ![t] = o],
         \/ op[t].kind = "none"
         \/ o.kind = op[t].kind /\ o.by = op[t].by /\ o.image = op[t].image,
         OpFine(t, o)
  PROVE  /\ \A a \in Accounts : SavedBy(a) \subseteq SavedBy(a)'
         /\ \A s \in Taps : OpFine(s, op[s])'
<1>1. op \in [Taps -> Ops] /\ op'[t] = o /\ \A s \in Taps \ {t} : op'[s] = op[s]
  BY DEF ListsInv, TypeOK
<1>2. \A a \in Accounts : SavedBy(a) \subseteq SavedBy(a)'
  <2> SUFFICES ASSUME NEW a \in Accounts, NEW s \in Taps, op[s].kind = "save", op[s].by = a
               PROVE  op[s].image \in SavedBy(a)'
    BY DEF SavedBy
  <2>1. op'[s].kind = "save" /\ op'[s].by = a /\ op'[s].image = op[s].image
    BY <1>1
  <2> QED
    BY <2>1 DEF SavedBy
<1>3. \A s \in Taps : OpFine(s, op'[s])
  BY <1>1 DEF ListsInv
<1>4. \A s \in Taps : OpFine(s, op[s])'
  <2> SUFFICES ASSUME NEW s \in Taps PROVE OpFine(s, op[s])'
    OBVIOUS
  <2>1. OpFine(s, op'[s])
    BY <1>3
  <2> QED
    BY <2>1, <1>2 DEF OpFine, AvatarURL, Authors, URLs
<1> QED
  BY <1>2, <1>4

LEMMA SamePlace ==
  ASSUME QueuedOnce, NEW u \in Users, NEW v \in Users,
         NEW i \in 1..Len(writes[u]), NEW j \in 1..Len(writes[v]),
         writes[u][i] = writes[v][j]
  PROVE  u = v /\ i = j
  BY DEF QueuedOnce

(* A step that changes op at t alone, and neither from nor to "writing",   *)
(* leaves the queues in order.                                             *)
LEMMA QueuesKept ==
  ASSUME TypeOK, QueuedOnce, NEW t \in Taps, NEW o \in Ops,
         op[t].step # "writing", op' = [op EXCEPT ![t] = o], writes' = writes
  PROVE  /\ op' \in [Taps -> Ops] /\ writes' \in [Users -> Seq(Taps)]
         /\ \A u \in Users : \A i \in 1..Len(writes'[u]) : op'[writes'[u][i]].step = "writing"
         /\ QueuedOnce'
<1>1. op' \in [Taps -> Ops]
  BY DEF TypeOK
<1>2. \A u \in Users : \A i \in 1..Len(writes'[u]) : op'[writes'[u][i]].step = "writing"
  <2> SUFFICES ASSUME NEW u \in Users, NEW i \in 1..Len(writes[u])
               PROVE  op'[writes[u][i]].step = "writing"
    OBVIOUS
  <2>1. writes[u] \in Seq(Taps) /\ op[writes[u][i]].step = "writing"
    BY DEF TypeOK
  <2>2. writes[u][i] \in Taps /\ writes[u][i] # t
    BY <2>1
  <2> QED
    BY <2>1, <2>2 DEF TypeOK
<1> QED
  BY <1>1, <1>2 DEF QueuedOnce, TypeOK

(* A new write joins the queue of the current user.                        *)
LEMMA QueuesGrow ==
  ASSUME TypeOK, QueuedOnce, NEW t \in Taps, NEW o \in Ops,
         op[t].step # "writing", Enqueue(t, o)
  PROVE  /\ op' \in [Taps -> Ops] /\ writes' \in [Users -> Seq(Taps)]
         /\ \A u \in Users : \A i \in 1..Len(writes'[u]) : op'[writes'[u][i]].step = "writing"
         /\ QueuedOnce'
<1> DEFINE w == [o EXCEPT !.step = "writing"]
<1>1. w \in Ops /\ w.step = "writing"
  BY DEF Ops
<1>2. op' = [op EXCEPT ![t] = w] /\ op' \in [Taps -> Ops]
  BY <1>1 DEF Enqueue, Become, TypeOK
<1>3. /\ writes' \in [Users -> Seq(Taps)]
      /\ \A u \in Users \ {authUser} : writes'[u] = writes[u]
      /\ writes'[authUser] = Append(writes[authUser], t)
      /\ authUser \in Users /\ writes[authUser] \in Seq(Taps)
  BY DEF Enqueue, TypeOK
<1>4. \A u \in Users : \A i \in 1..Len(writes[u]) :
        writes[u][i] \in Taps /\ writes[u][i] # t /\ op[writes[u][i]].step = "writing"
  BY DEF TypeOK
<1>5. \A u \in Users : \A i \in 1..Len(writes'[u]) :
        \/ i \in 1..Len(writes[u]) /\ writes'[u][i] = writes[u][i]
        \/ u = authUser /\ i = Len(writes[u]) + 1 /\ writes'[u][i] = t
  <2> SUFFICES ASSUME NEW u \in Users, NEW i \in 1..Len(writes'[u])
               PROVE  \/ i \in 1..Len(writes[u]) /\ writes'[u][i] = writes[u][i]
                      \/ u = authUser /\ i = Len(writes[u]) + 1 /\ writes'[u][i] = t
    OBVIOUS
  <2>1. CASE u = authUser
    BY <2>1, <1>3
  <2>2. CASE u # authUser
    BY <2>2, <1>3
  <2> QED
    BY <2>1, <2>2
<1>6. \A u \in Users : \A i \in 1..Len(writes'[u]) : op'[writes'[u][i]].step = "writing"
  BY <1>1, <1>2, <1>4, <1>5 DEF TypeOK
<1>7. QueuedOnce'
  <2> SUFFICES ASSUME NEW u \in Users, NEW v \in Users,
                      NEW i \in 1..Len(writes'[u]), NEW j \in 1..Len(writes'[v]),
                      writes'[u][i] = writes'[v][j]
               PROVE  u = v /\ i = j
    BY DEF QueuedOnce
  <2>1. CASE i \in 1..Len(writes[u]) /\ writes'[u][i] = writes[u][i]
    <3>1. writes'[v][j] # t
      BY <2>1, <1>4
    <3>2. j \in 1..Len(writes[v]) /\ writes'[v][j] = writes[v][j]
      BY <3>1, <1>5
    <3>3. writes[u][i] = writes[v][j]
      BY <2>1, <3>2
    <3> QED
      BY <2>1, <3>2, <3>3, SamePlace
  <2>2. CASE u = authUser /\ i = Len(writes[u]) + 1 /\ writes'[u][i] = t
    <3>1. ~(j \in 1..Len(writes[v]) /\ writes'[v][j] = writes[v][j])
      BY <2>2, <1>4
    <3>2. v = authUser /\ j = Len(writes[v]) + 1
      BY <3>1, <1>5
    <3> QED
      BY <2>2, <3>2
  <2> QED
    BY <2>1, <2>2, <1>5
<1> QED
  BY <1>2, <1>3, <1>6, <1>7

(* The server's answer takes the oldest write of the current user away.    *)
LEMMA QueuesShrink ==
  ASSUME TypeOK, QueuedOnce, NEW ok \in BOOLEAN, Answered(ok)
  PROVE  LET t == Head(writes[authUser]) IN
         /\ t \in Taps /\ op[t].step = "writing"
         /\ op' = [op EXCEPT ![t].step = "done"]
         /\ op' \in [Taps -> Ops] /\ writes' \in [Users -> Seq(Taps)]
         /\ \A u \in Users : \A i \in 1..Len(writes'[u]) : op'[writes'[u][i]].step = "writing"
         /\ QueuedOnce'
<1> DEFINE t == Head(writes[authUser])
<1>1. /\ authUser \in Users /\ writes[authUser] \in Seq(Taps) /\ writes[authUser] # <<>>
      /\ 1 \in 1..Len(writes[authUser]) /\ t = writes[authUser][1]
  BY DEF TypeOK, Answered
<1>2. t \in Taps /\ op[t].step = "writing"
  BY <1>1 DEF TypeOK
<1>3. op' = [op EXCEPT ![t].step = "done"] /\ op' \in [Taps -> Ops]
  <2>1. op \in [Taps -> Ops] /\ op' = [op EXCEPT ![t].step = "done"]
    BY DEF Answered, Finish, TypeOK
  <2>2. [op[t] EXCEPT !.step = "done"] \in Ops
    BY <2>1, <1>2 DEF Ops
  <2> QED
    BY <2>1, <2>2
<1>4. /\ writes' \in [Users -> Seq(Taps)]
      /\ \A u \in Users \ {authUser} : writes'[u] = writes[u]
      /\ writes'[authUser] = Tail(writes[authUser])
  BY <1>1 DEF Answered, TypeOK
<1>5. \A u \in Users : \A i \in 1..Len(writes'[u]) :
        \/ u # authUser /\ i \in 1..Len(writes[u]) /\ writes'[u][i] = writes[u][i]
        \/ /\ u = authUser /\ i + 1 \in 1..Len(writes[u]) /\ i \in 1..Len(writes[u])
           /\ writes'[u][i] = writes[u][i + 1]
  <2> SUFFICES ASSUME NEW u \in Users, NEW i \in 1..Len(writes'[u])
               PROVE  \/ u # authUser /\ i \in 1..Len(writes[u]) /\ writes'[u][i] = writes[u][i]
                      \/ /\ u = authUser /\ i + 1 \in 1..Len(writes[u]) /\ i \in 1..Len(writes[u])
                         /\ writes'[u][i] = writes[u][i + 1]
    OBVIOUS
  <2>1. CASE u = authUser
    BY <2>1, <1>1, <1>4
  <2>2. CASE u # authUser
    BY <2>2, <1>4
  <2> QED
    BY <2>1, <2>2
<1>6. \A u \in Users : \A i \in 1..Len(writes'[u]) :
        writes'[u][i] \in Taps /\ op[writes'[u][i]].step = "writing" /\ writes'[u][i] # t
  <2> SUFFICES ASSUME NEW u \in Users, NEW i \in 1..Len(writes'[u])
               PROVE  writes'[u][i] \in Taps /\ op[writes'[u][i]].step = "writing"
                      /\ writes'[u][i] # t
    OBVIOUS
  <2>1. writes[u] \in Seq(Taps)
    BY DEF TypeOK
  <2>2. CASE u # authUser /\ i \in 1..Len(writes[u]) /\ writes'[u][i] = writes[u][i]
    BY <2>1, <2>2, <1>1 DEF TypeOK, QueuedOnce
  <2>3. CASE /\ u = authUser /\ i + 1 \in 1..Len(writes[u]) /\ i \in 1..Len(writes[u])
             /\ writes'[u][i] = writes[u][i + 1]
    <3>1. i + 1 # 1
      BY <2>3, <2>1
    <3>2. writes[u][i + 1] # t
      BY <3>1, <2>3, <1>1 DEF QueuedOnce
    <3> QED
      BY <2>1, <2>3, <3>2 DEF TypeOK
  <2> QED
    BY <1>5, <2>2, <2>3
<1>7. \A u \in Users : \A i \in 1..Len(writes'[u]) : op'[writes'[u][i]].step = "writing"
  BY <1>3, <1>6 DEF TypeOK
<1>8. QueuedOnce'
  <2> SUFFICES ASSUME NEW u \in Users, NEW v \in Users,
                      NEW i \in 1..Len(writes'[u]), NEW j \in 1..Len(writes'[v]),
                      writes'[u][i] = writes'[v][j]
               PROVE  u = v /\ i = j
    BY DEF QueuedOnce
  <2>1. i \in Int /\ j \in Int
    BY <1>4
  <2>2. CASE u = authUser /\ v = authUser
    BY <2>1, <2>2, <1>5 DEF QueuedOnce
  <2>3. CASE u # authUser /\ v # authUser
    BY <2>3, <1>5 DEF QueuedOnce
  <2>4. CASE u # authUser /\ v = authUser
    BY <2>4, <1>5 DEF QueuedOnce
  <2>5. CASE u = authUser /\ v # authUser
    BY <2>5, <1>5 DEF QueuedOnce
  <2> QED
    BY <2>2, <2>3, <2>4, <2>5
<1> QED
  BY <1>2, <1>3, <1>4, <1>7, <1>8

(* The pending writes on a document, if there are any, have a last one.    *)
LEMMA LastPending ==
  ASSUME TypeOK, NEW u \in Users, NEW a, NEW K, PendingOn(u, a, K) # {}
  PROVE  LET t == LastOn(u, a, K) IN
         /\ t \in Taps /\ op[t].step = "writing"
         /\ op[t].target = a /\ op[t].kind \in K
         /\ \E i \in 1..Len(writes[u]) : t = writes[u][i]
<1> DEFINE S == PendingOn(u, a, K)
<1>1. writes[u] \in Seq(Taps) /\ Len(writes[u]) \in Nat
  BY DEF TypeOK
<1>2. S \in SUBSET (1..Len(writes[u]))
  BY DEF PendingOn
<1>3. Max(S) \in S
  BY <1>1, <1>2, MaxOfInterval
<1>4. Max(S) \in 1..Len(writes[u])
  BY <1>2, <1>3
<1>5. \A i \in S : op[writes[u][i]].target = a /\ op[writes[u][i]].kind \in K
  BY DEF PendingOn
<1>6. LastOn(u, a, K) = writes[u][Max(S)]
  BY DEF LastOn
<1>7. \A i \in 1..Len(writes[u]) : writes[u][i] \in Taps /\ op[writes[u][i]].step = "writing"
  BY <1>1 DEF TypeOK
<1> HIDE DEF S
<1> QED
  BY <1>3, <1>4, <1>5, <1>6, <1>7

(* Whoever reads it, with whatever writes pending, the list of a is made   *)
(* of what a saved.                                                        *)
LEMMA ViewOwn ==
  ASSUME ListsInv, NEW u \in Users, NEW a \in Accounts
  PROVE  SavedView(u, a) \subseteq SavedBy(a) /\ SavedView(u, a) \subseteq Images
<1>1. CASE PendingOn(u, a, Lists) = {}
  BY <1>1 DEF SavedView, ListsInv, ServerOwn, TypeOK, Documents
<1>2. CASE PendingOn(u, a, Lists) # {}
  <2> DEFINE t == LastOn(u, a, Lists)
  <2>1. t \in Taps /\ op[t].step = "writing" /\ op[t].target = a /\ op[t].kind \in Lists
    BY <1>2, LastPending DEF ListsInv
  <2>2. op[t] \in Ops /\ OpFine(t, op[t])
    BY <2>1 DEF ListsInv, TypeOK
  <2> QED
    BY <1>2, <2>1, <2>2 DEF SavedView, OpFine, Ops
<1> QED
  BY <1>1, <1>2

LEMMA ViewAvatar ==
  ASSUME ListsInv, NEW u \in Users, NEW a \in Accounts
  PROVE  AvatarView(u, a) \in URLs
<1>1. CASE PendingOn(u, a, {"edit"}) = {}
  BY <1>1 DEF AvatarView, ListsInv, TypeOK, Documents
<1>2. CASE PendingOn(u, a, {"edit"}) # {}
  <2> DEFINE t == LastOn(u, a, {"edit"})
  <2>1. t \in Taps /\ op[t].kind = "edit"
    BY <1>2, LastPending DEF ListsInv
  <2>2. OpFine(t, op[t])
    BY <2>1 DEF ListsInv
  <2> QED
    BY <1>2, <2>1, <2>2 DEF AvatarView, OpFine, AvatarURL, URLs
<1> QED
  BY <1>1, <1>2

-----------------------------------------------------------------------------
(* The steps *)

LEMMA ListsInit == Init => ListsInv
<1> SUFFICES ASSUME Init PROVE ListsInv
  OBVIOUS
<1>1. Untouched \in Ops /\ OpFine(None, Untouched)
  BY DEF Untouched, Ops, Users, OpFine, Lists
<1>2. \A a \in Accounts : AvatarURL(a, None) \in URLs
  BY DEF AvatarURL, URLs
<1>3. TypeOK
  <2>1. doc \in [Accounts -> Documents]
    BY <1>2 DEF Init, Documents
  <2>2. writes \in [Users -> Seq(Taps)] /\ \A u \in Users : Len(writes[u]) = 0
    BY DEF Init
  <2>3. op \in [Taps -> Ops]
    BY <1>1 DEF Init
  <2>4. \A u \in Users : \A i \in 1..Len(writes[u]) : FALSE
    BY <2>2
  <2> QED
    BY <2>1, <2>2, <2>3, <2>4 DEF Init, TypeOK, Users
<1>4. QueuedOnce /\ ServerOwn
  BY DEF Init, QueuedOnce, ServerOwn
<1>5. \A t \in Taps : OpFine(t, op[t])
  BY DEF Init, OpFine, Untouched, Lists
<1> QED
  BY <1>3, <1>4, <1>5 DEF ListsInv

(* A session step touches neither the taps nor the server.                 *)
LEMMA SessionStep ==
  ASSUME ListsInv, UNCHANGED <<serverVars, writes, op, hud>>,
         authUser' \in Users, appUser' \in Profiles \cup {None},
         deleting' \in Users, deleted' \subseteq Accounts
  PROVE  ListsInv'
<1>1. \A a \in Accounts : SavedBy(a)' = SavedBy(a)
  BY DEF SavedBy
<1>2. TypeOK' /\ QueuedOnce'
  BY DEF ListsInv, TypeOK, QueuedOnce, serverVars
<1>3. \A t \in Taps : OpFine(t, op[t])'
  <2> SUFFICES ASSUME NEW t \in Taps PROVE OpFine(t, op[t])'
    OBVIOUS
  <2> QED
    BY <1>1 DEF ListsInv, OpFine, AvatarURL, Authors, URLs
<1>4. ServerOwn'
  BY <1>1 DEF ListsInv, ServerOwn, serverVars
<1> QED
  BY <1>2, <1>3, <1>4 DEF ListsInv

(* A tap, or a callback that ends one, changes op at t.                    *)
LEMMA OpStep ==
  ASSUME ListsInv, NEW t \in Taps, NEW o \in Ops, op[t].step # "writing",
         op' = [op EXCEPT ![t] = o], UNCHANGED <<sessionVars, serverVars, writes>>,
         hud' \in BOOLEAN,
         \/ op[t].kind = "none"
         \/ o.kind = op[t].kind /\ o.by = op[t].by /\ o.image = op[t].image,
         OpFine(t, o)
  PROVE  ListsInv'
<1>1. TypeOK' /\ QueuedOnce'
  BY QueuesKept DEF ListsInv, TypeOK, sessionVars, serverVars
<1>2. /\ \A a \in Accounts : SavedBy(a) \subseteq SavedBy(a)'
      /\ \A s \in Taps : OpFine(s, op[s])'
  BY OpMoves
<1>3. ServerOwn'
  BY <1>2 DEF ListsInv, ServerOwn, serverVars
<1> QED
  BY <1>1, <1>2, <1>3 DEF ListsInv

(* A callback that sends a write.                                          *)
LEMMA SendStep ==
  ASSUME ListsInv, NEW t \in Taps, NEW o \in Ops, op[t].step # "writing",
         Enqueue(t, o), UNCHANGED <<sessionVars, serverVars, hud>>,
         o.kind = op[t].kind, o.by = op[t].by, o.image = op[t].image,
         OpFine(t, [o EXCEPT !.step = "writing"])
  PROVE  ListsInv'
<1> DEFINE w == [o EXCEPT !.step = "writing"]
<1>0. /\ w \in Ops /\ w.kind = op[t].kind /\ w.by = op[t].by /\ w.image = op[t].image
      /\ op' = [op EXCEPT ![t] = w] /\ OpFine(t, w)
  BY DEF Ops, Enqueue, Become
<1>1. TypeOK' /\ QueuedOnce'
  BY QueuesGrow DEF ListsInv, TypeOK, sessionVars, serverVars
<1> HIDE DEF w
<1>2. /\ \A a \in Accounts : SavedBy(a) \subseteq SavedBy(a)'
      /\ \A s \in Taps : OpFine(s, op[s])'
  BY <1>0, OpMoves
<1>3. ServerOwn'
  BY <1>2 DEF ListsInv, ServerOwn, serverVars
<1> QED
  BY <1>1, <1>2, <1>3 DEF ListsInv

LEMMA ListsTouches == ListsInv /\ Touches => ListsInv'
<1> SUFFICES ASSUME ListsInv, Touches PROVE ListsInv'
  OBVIOUS
<1> USE DEF Lists
<1>1. ASSUME NEW a \in Accounts, SignIn(a) PROVE ListsInv'
  <2>1. appUser' \in Profiles
    BY <1>1, ViewOwn, ViewAvatar DEF SignIn, Profiles, Users
  <2> QED
    BY <1>1, <2>1, SessionStep DEF SignIn, ListsInv, TypeOK, Users
<1>2. CASE SignOut
  BY <1>2, SessionStep DEF SignOut, ListsInv, TypeOK, Users
<1>3. CASE DeleteAccount
  BY <1>3, SessionStep DEF DeleteAccount, ListsInv, TypeOK
<1>4. ASSUME NEW t \in Taps, TapPost(t) PROVE ListsInv'
  <2> DEFINE o == [Untouched EXCEPT
                     !.kind = "publish", !.by = authUser, !.target = authUser,
                     !.step = IF authUser = None THEN "done" ELSE "uploading"]
  <2>1. o \in Ops /\ OpFine(t, o) /\ op' = [op EXCEPT ![t] = o]
    BY <1>4 DEF TapPost, Become, Untouched, Ops, OpFine, ListsInv, TypeOK, Users
  <2>2. op[t].step # "writing" /\ op[t].kind = "none"
    BY <1>4 DEF TapPost, Untouched
  <2> QED
    BY <1>4, <2>1, <2>2, OpStep DEF TapPost, ListsInv, TypeOK, sessionVars
<1>5. ASSUME NEW t \in Taps, TapDone(t) PROVE ListsInv'
  <2> DEFINE o == [Untouched EXCEPT !.kind = "edit", !.step = "uploading",
                                    !.by = authUser,
                                    !.value = AvatarURL(authUser, t)]
  <2>1. authUser \in Accounts /\ AvatarURL(authUser, t) \in URLs
    BY <1>5 DEF TapDone, AvatarURL, URLs, ListsInv, TypeOK, Users
  <2>2. o \in Ops /\ OpFine(t, o) /\ op' = [op EXCEPT ![t] = o]
    BY <1>5, <2>1 DEF TapDone, Become, Untouched, Ops, OpFine, Users
  <2>3. op[t].step # "writing" /\ op[t].kind = "none"
    BY <1>5 DEF TapDone, Untouched
  <2> QED
    BY <1>5, <2>2, <2>3, FlagAssumption, OpStep DEF TapDone, ListsInv, TypeOK, sessionVars
<1>6. ASSUME NEW t \in Taps, NEW p \in Images, TapSave(t, p) PROVE ListsInv'
  <2> DEFINE o == [kind |-> IF appUser # None /\ p \in appUser.saved
                            THEN "unsave" ELSE "save",
                   step |-> "reading", by |-> authUser, target |-> authUser,
                   image |-> p, list |-> {}, value |-> None]
  <2>1. authUser \in Accounts /\ op' = [op EXCEPT ![t] = o]
    BY <1>6 DEF TapSave, Become, ListsInv, TypeOK, Users
  <2>2. o \in Ops /\ OpFine(t, o)
    BY <2>1 DEF Ops, OpFine, Users
  <2>3. op[t].step # "writing" /\ op[t].kind = "none"
    BY <1>6 DEF TapSave, Untouched
  <2> QED
    BY <1>6, <2>1, <2>2, <2>3, OpStep DEF TapSave, ListsInv, TypeOK, sessionVars
<1> QED
  BY <1>1, <1>2, <1>3, <1>4, <1>5, <1>6 DEF Touches

LEMMA ListsCallbacks ==
  ASSUME ListsInv, NEW t \in Taps, Callbacks(t) PROVE ListsInv'
<1> USE DEF Lists
<1>0. op[t] \in Ops /\ OpFine(t, op[t]) /\ authUser \in Users
  BY DEF ListsInv, TypeOK
<1>1. CASE DocumentRead(t)
  <2> DEFINE old == SavedView(authUser, op[t].target)
             new == IF op[t].kind = "save" THEN old \cup {op[t].image}
                    ELSE old \ {op[t].image}
             o == [op[t] EXCEPT !.list = new]
  <2>1. /\ op[t].step = "reading" /\ op[t].kind \in Lists /\ op[t].by \in Accounts
        /\ op[t].target = op[t].by /\ op[t].image \in Images
    BY <1>0, <1>1 DEF DocumentRead, OpFine
  <2>2. old \subseteq SavedBy(op[t].by) /\ old \subseteq Images
    BY <1>0, <2>1, ViewOwn
  <2>3. op[t].kind = "save" => op[t].image \in SavedBy(op[t].by)
    BY DEF SavedBy
  <2>4. new \subseteq SavedBy(op[t].by) /\ new \subseteq Images
    BY <2>1, <2>2, <2>3
  <2> HIDE DEF new
  <2>5. o \in Ops /\ OpFine(t, [o EXCEPT !.step = "writing"])
    BY <1>0, <2>1, <2>4 DEF Ops, OpFine
  <2>6. Enqueue(t, o)
    BY <1>1 DEF DocumentRead, new
  <2>7. o.kind = op[t].kind /\ o.by = op[t].by /\ o.image = op[t].image
    BY <1>0 DEF Ops
  <2> HIDE DEF o
  <2> QED
    BY <1>1, <2>1, <2>5, <2>6, <2>7, SendStep DEF DocumentRead
<1> DEFINE d == [op[t] EXCEPT !.step = "done"]
<1>2. /\ d \in Ops /\ OpFine(t, d)
      /\ d.kind = op[t].kind /\ d.by = op[t].by /\ d.image = op[t].image
  BY <1>0 DEF Ops, OpFine
<1>3. Finish(t) => op' = [op EXCEPT ![t] = d]
  BY DEF Finish
<1> HIDE DEF d
<1>4. CASE ReadFails(t)
  BY <1>4, <1>2, <1>3, OpStep DEF ReadFails, ListsInv, TypeOK
<1>5. CASE ImageFails(t)
  BY <1>5, <1>2, <1>3, OpStep DEF ImageFails, ListsInv, TypeOK
<1>6. CASE AvatarFails(t)
  BY <1>6, <1>2, <1>3, OpStep DEF AvatarFails, ListsInv, TypeOK
<1>7. CASE ImageUploaded(t)
  <2>1. CASE appUser = None
    BY <1>7, <2>1, <1>2, <1>3, OpStep DEF ImageUploaded, ListsInv, TypeOK
  <2>2. CASE appUser # None
    <3> DEFINE o == [op[t] EXCEPT !.value = [id |-> appUser.id, avatar |-> appUser.avatar]]
    <3>1. appUser \in Profiles
      BY <2>2 DEF ListsInv, TypeOK
    <3>2. [id |-> appUser.id, avatar |-> appUser.avatar] \in Authors
      BY <3>1 DEF Profiles, Authors
    <3>3. op[t].step = "uploading" /\ op[t].kind = "publish" /\ Enqueue(t, o)
      BY <1>7, <2>2 DEF ImageUploaded
    <3>4. o \in Ops /\ OpFine(t, [o EXCEPT !.step = "writing"])
      BY <1>0, <3>2, <3>3 DEF Ops, OpFine
    <3>5. o.kind = op[t].kind /\ o.by = op[t].by /\ o.image = op[t].image
      BY <1>0 DEF Ops
    <3> HIDE DEF o
    <3> QED
      BY <1>7, <3>3, <3>4, <3>5, SendStep DEF ImageUploaded
  <2> QED
    BY <2>1, <2>2
<1>8. CASE AvatarUploaded(t)
  <2>1. CASE authUser = None
    BY <1>8, <2>1, <1>2, <1>3, OpStep DEF AvatarUploaded, ListsInv, TypeOK
  <2>2. CASE authUser # None
    <3> DEFINE o == [op[t] EXCEPT !.target = authUser]
    <3>1. authUser \in Accounts
      BY <1>0, <2>2 DEF Users
    <3>2. op[t].step = "uploading" /\ op[t].kind = "edit" /\ Enqueue(t, o)
      BY <1>8, <2>2 DEF AvatarUploaded
    <3>3. o \in Ops /\ OpFine(t, [o EXCEPT !.step = "writing"])
      BY <1>0, <3>1, <3>2 DEF Ops, OpFine
    <3>4. o.kind = op[t].kind /\ o.by = op[t].by /\ o.image = op[t].image
      BY <1>0 DEF Ops
    <3> HIDE DEF o
    <3> QED
      BY <1>8, <3>2, <3>3, <3>4, SendStep DEF AvatarUploaded
  <2> QED
    BY <2>1, <2>2
<1> QED
  BY <1>1, <1>4, <1>5, <1>6, <1>7, <1>8 DEF Callbacks

LEMMA ListsAnswered ==
  ASSUME ListsInv, NEW ok \in BOOLEAN, Answered(ok) PROVE ListsInv'
<1> USE DEF Lists
<1> DEFINE t == Head(writes[authUser])
           d == [op[t] EXCEPT !.step = "done"]
<1>1. /\ t \in Taps /\ op[t].step = "writing" /\ op' = [op EXCEPT ![t] = d]
      /\ op' \in [Taps -> Ops] /\ writes' \in [Users -> Seq(Taps)]
      /\ \A u \in Users : \A i \in 1..Len(writes'[u]) : op'[writes'[u][i]].step = "writing"
      /\ QueuedOnce'
  BY QueuesShrink DEF ListsInv
<1>2. /\ IF ok THEN Stored(t) /\ appUser' = Cached(t)
         ELSE UNCHANGED <<serverVars, appUser>>
      /\ hud' = (hud /\ op[t].kind # "edit")
      /\ UNCHANGED <<authUser, deleting, deleted>>
  BY DEF Answered
<1> HIDE DEF t
<1>3. op[t] \in Ops /\ OpFine(t, op[t])
  BY <1>1 DEF ListsInv, TypeOK
<1>4. /\ d \in Ops /\ OpFine(t, d)
      /\ d.kind = op[t].kind /\ d.by = op[t].by /\ d.image = op[t].image
  BY <1>3 DEF Ops, OpFine
<1> HIDE DEF d
<1>5. /\ \A a \in Accounts : SavedBy(a) \subseteq SavedBy(a)'
      /\ \A s \in Taps : OpFine(s, op[s])'
  BY <1>1, <1>4, OpMoves
<1>6. /\ op[t].kind \in Lists => /\ op[t].target \in Accounts /\ op[t].list \subseteq Images
                                /\ op[t].list \subseteq SavedBy(op[t].target)
      /\ op[t].kind = "edit" => op[t].target \in Accounts /\ op[t].value \in URLs
      /\ op[t].kind = "publish" => op[t].value \in Authors
  BY <1>1, <1>3 DEF OpFine, Ops, AvatarURL, URLs
<1>7. doc' \in [Accounts -> Documents] /\ ServerOwn'
  <2>0. doc \in [Accounts -> Documents] /\ ServerOwn
    BY DEF ListsInv, TypeOK
  <2>1. CASE doc' = doc
    BY <2>0, <2>1, <1>5 DEF ServerOwn
  <2>2. CASE op[t].kind \in Lists /\ doc' = [doc EXCEPT ![op[t].target].saved = op[t].list]
    <3>1. doc' \in [Accounts -> Documents]
      BY <2>0, <2>2, <1>6 DEF Documents
    <3>2. \A a \in Accounts : doc'[a].saved \subseteq SavedBy(a)
      BY <2>0, <2>2, <1>6 DEF ServerOwn, Documents
    <3> QED
      BY <3>1, <3>2, <1>5 DEF ServerOwn
  <2>3. CASE op[t].kind = "edit" /\ doc' = [doc EXCEPT ![op[t].target].avatar = op[t].value]
    <3>1. doc' \in [Accounts -> Documents]
      BY <2>0, <2>3, <1>6 DEF Documents
    <3>2. \A a \in Accounts : doc'[a].saved \subseteq SavedBy(a)
      BY <2>0, <2>3, <1>6 DEF ServerOwn, Documents
    <3> QED
      BY <3>1, <3>2, <1>5 DEF ServerOwn
  <2> QED
    BY <2>1, <2>2, <2>3, <1>2 DEF Stored, serverVars
<1>8. appUser' \in Profiles \cup {None}
  BY <1>2, <1>6 DEF Cached, Profiles, ListsInv, TypeOK
<1>9. posts' \subseteq [tap : Taps, author : Authors]
  BY <1>1, <1>2, <1>6 DEF Stored, serverVars, ListsInv, TypeOK
<1>10. hud' \in BOOLEAN
  BY <1>2 DEF ListsInv, TypeOK
<1> QED
  BY <1>1, <1>2, <1>5, <1>7, <1>8, <1>9, <1>10 DEF ListsInv, TypeOK

LEMMA ListsStep == ListsInv /\ [Next]_vars => ListsInv'
<1> SUFFICES ASSUME ListsInv, [Next]_vars PROVE ListsInv'
  OBVIOUS
<1>1. CASE Touches
  BY <1>1, ListsTouches
<1>2. ASSUME NEW t \in Taps, Callbacks(t) PROVE ListsInv'
  BY <1>2, ListsCallbacks
<1>3. ASSUME NEW ok \in BOOLEAN, Answered(ok) PROVE ListsInv'
  BY <1>3, ListsAnswered
<1>4. ASSUME NEW ok \in BOOLEAN, DeleteAnswered(ok) PROVE ListsInv'
  BY <1>4, SessionStep DEF DeleteAnswered, ListsInv, TypeOK, Users
<1>5. CASE UNCHANGED vars
  BY <1>5, SessionStep DEF vars, sessionVars, ListsInv, TypeOK
<1> QED
  BY <1>1, <1>2, <1>3, <1>4, <1>5 DEF Next

(* The state of a device with many accounts is well formed, whatever       *)
(* outlives a session: in particular each queue holds only taps that wait. *)
THEOREM SwitchTypes == Spec => []TypeOK
<1>1. ListsInv => TypeOK
  BY DEF ListsInv
<1> QED
  BY <1>1, ListsInit, ListsStep, PTL DEF Spec

(* No account's list on the server ever holds what another account saved,  *)
(* with or without a HUD: savePost and unsavePost fix the document at the  *)
(* tap and compute the list from that document.                            *)
THEOREM ServerOwnAlways == Spec => []ServerOwn
<1>1. ListsInv => ServerOwn
  BY DEF ListsInv
<1> QED
  BY <1>1, ListsInit, ListsStep, PTL DEF Spec

-----------------------------------------------------------------------------
(* What the HUD guarantees *)

(* An edited profile that has not been answered.                           *)
Editing(t) == op[t].kind = "edit" /\ op[t].step \in {"uploading", "writing"}

(* One edit at a time, under the HUD: before updateProfile is called       *)
(* nobody else can have signed in, and afterwards the document is fixed.   *)
EditsOrderly ==
  /\ \A t \in Taps : Editing(t) => hud
  /\ \A s, t \in Taps : Editing(s) /\ Editing(t) => s = t
  /\ \A t \in Taps : op[t].kind = "edit" /\ op[t].step = "uploading"
                      => authUser \in {op[t].by, None}
  /\ \A t \in Taps : op[t].kind = "edit" /\ op[t].step = "writing"
                      => op[t].target = op[t].by
  /\ \A u \in Users : \A i \in 1..Len(writes[u]) :
       op[writes[u][i]].kind = "edit" => op[writes[u][i]].by = u

(* The cached profile is that of whoever is signed in.                     *)
OwnCache == authUser # None /\ appUser # None => appUser.id = authUser

(* Every copy of an account's avatar is its one URL.                       *)
SameAvatars ==
  /\ appUser # None => appUser.avatar = AvatarURL(appUser.id, None)
  /\ \A a \in Accounts : doc[a].avatar = AvatarURL(a, None)
  /\ \A t \in Taps : op[t].kind = "publish" /\ op[t].step = "writing"
                      => op[t].value.avatar = AvatarURL(op[t].value.id, None)
  /\ \A x \in posts : x.author.avatar = AvatarURL(x.author.id, None)

EditsInv == ListsInv /\ EditsOrderly /\ OwnCache /\ SameAvatars

LEMMA ViewOwnAvatar ==
  ASSUME EditsInv, NEW a \in Accounts
  PROVE  AvatarView(a, a) = AvatarURL(a, None)
<1>1. CASE PendingOn(a, a, {"edit"}) = {}
  BY <1>1 DEF AvatarView, EditsInv, SameAvatars
<1>2. CASE PendingOn(a, a, {"edit"}) # {}
  <2> DEFINE t == LastOn(a, a, {"edit"})
  <2>0. a \in Users /\ TypeOK
    BY DEF Users, EditsInv, ListsInv
  <2>1. t \in Taps /\ op[t].kind = "edit" /\ op[t].step = "writing" /\ op[t].target = a
    BY <1>2, <2>0, LastPending
  <2>2. OpFine(t, op[t]) /\ op[t].by = a
    BY <2>1 DEF EditsInv, ListsInv, EditsOrderly
  <2> QED
    BY <1>2, <2>1, <2>2 DEF AvatarView, OpFine, AvatarURL
<1> QED
  BY <1>1, <1>2

LEMMA EditsInit == Init => EditsInv
<1> SUFFICES ASSUME Init PROVE EditsInv
  OBVIOUS
<1>1. \A u \in Users : writes[u] = <<>>
  BY DEF Init
<1>2. \A t \in Taps : op[t] = Untouched
  BY DEF Init
<1>3. EditsOrderly
  BY <1>1, <1>2 DEF EditsOrderly, Editing, Untouched
<1>4. OwnCache /\ SameAvatars
  BY <1>2 DEF Init, OwnCache, SameAvatars, Untouched
<1> QED
  BY <1>3, <1>4, ListsInit DEF EditsInv

LEMMA QueuedNotIdle ==
  ASSUME TypeOK, NEW t \in Taps, op[t].step # "writing"
  PROVE  \A u \in Users : \A i \in 1..Len(writes[u]) : writes[u][i] \in Taps \ {t}
<1> SUFFICES ASSUME NEW u \in Users, NEW i \in 1..Len(writes[u])
             PROVE  writes[u][i] \in Taps \ {t}
  OBVIOUS
<1>1. writes[u] \in Seq(Taps) /\ op[writes[u][i]].step = "writing"
  BY DEF TypeOK
<1> QED
  BY <1>1

(* A tap that is not an edit about to be sent, and sends nothing, does not *)
(* disturb the others.                                                     *)
LEMMA OtherTapsKept ==
  ASSUME EditsInv, NEW t \in Taps, op[t].step # "writing", op'[t].step # "writing",
         op'[t].kind # "edit" \/ op'[t].step = "done",
         \A s \in Taps \ {t} : op'[s] = op[s],
         UNCHANGED <<sessionVars, serverVars, writes, hud>>
  PROVE  EditsOrderly' /\ OwnCache' /\ SameAvatars'
<1>1. \A u \in Users : \A i \in 1..Len(writes[u]) : writes[u][i] \in Taps \ {t}
  BY QueuedNotIdle DEF EditsInv, ListsInv
<1>2. EditsOrderly'
  BY <1>1 DEF EditsInv, EditsOrderly, Editing, sessionVars
<1> QED
  BY <1>2 DEF EditsInv, OwnCache, SameAvatars, sessionVars, serverVars

LEMMA EditsTouches ==
  ASSUME EditsInv, HudShows, Touches PROVE EditsOrderly' /\ OwnCache' /\ SameAvatars'
<1>0. TypeOK /\ ListsInv
  BY DEF EditsInv, ListsInv
<1>1. ASSUME NEW a \in Accounts, SignIn(a) PROVE EditsOrderly' /\ OwnCache' /\ SameAvatars'
  <2>1. EditsOrderly'
    BY <1>1 DEF SignIn, Touchable, EditsInv, EditsOrderly, Editing
  <2>2. appUser' # None => appUser'.id = a /\ appUser'.avatar = AvatarURL(a, None)
    BY <1>1, ViewOwnAvatar DEF SignIn
  <2> QED
    BY <1>1, <2>1, <2>2 DEF SignIn, EditsInv, OwnCache, SameAvatars, serverVars
<1>2. CASE SignOut
  <2>1. EditsOrderly'
    BY <1>2 DEF SignOut, Touchable, EditsInv, EditsOrderly, Editing
  <2> QED
    BY <1>2, <2>1 DEF SignOut, EditsInv, OwnCache, SameAvatars, serverVars
<1>3. CASE DeleteAccount
  BY <1>3 DEF DeleteAccount, EditsInv, EditsOrderly, Editing, OwnCache, SameAvatars, serverVars
<1>4. ASSUME NEW t \in Taps, TapPost(t) PROVE EditsOrderly' /\ OwnCache' /\ SameAvatars'
  <2>1. /\ op \in [Taps -> Ops] /\ op'[t].kind = "publish" /\ op'[t].step \in {"done", "uploading"}
        /\ op[t].step = "idle" /\ \A s \in Taps \ {t} : op'[s] = op[s]
    BY <1>4, <1>0 DEF TapPost, Become, Untouched, TypeOK
  <2> QED
    BY <1>4, <2>1, <1>0, OtherTapsKept DEF TapPost, EditsInv
<1>5. ASSUME NEW t \in Taps, TapDone(t) PROVE EditsOrderly' /\ OwnCache' /\ SameAvatars'
  <2>1. /\ op'[t].kind = "edit" /\ op'[t].step = "uploading" /\ op'[t].by = authUser
        /\ op[t].step = "idle" /\ \A s \in Taps \ {t} : op'[s] = op[s]
    BY <1>5, <1>0 DEF TapDone, Become, Untouched, TypeOK
  <2>2. hud' /\ authUser' = authUser /\ writes' = writes /\ \A s \in Taps : ~Editing(s)
    BY <1>5 DEF TapDone, Touchable, EditsInv, EditsOrderly, sessionVars
  <2>3. \A u \in Users : \A i \in 1..Len(writes[u]) : writes[u][i] \in Taps \ {t}
    BY <2>1, <1>0, QueuedNotIdle
  <2>4. EditsOrderly'
    BY <2>1, <2>2, <2>3 DEF EditsInv, EditsOrderly, Editing
  <2> QED
    BY <1>5, <2>1, <2>4 DEF TapDone, EditsInv, OwnCache, SameAvatars, serverVars, sessionVars
<1>6. ASSUME NEW t \in Taps, NEW p \in Images, TapSave(t, p)
      PROVE  EditsOrderly' /\ OwnCache' /\ SameAvatars'
  <2>1. /\ op'[t].kind \in {"save", "unsave"} /\ op'[t].step = "reading"
        /\ op[t].step = "idle" /\ \A s \in Taps \ {t} : op'[s] = op[s]
    BY <1>6, <1>0 DEF TapSave, Become, Untouched, TypeOK
  <2> QED
    BY <1>6, <2>1, <1>0, OtherTapsKept DEF TapSave, EditsInv
<1> QED
  BY <1>1, <1>2, <1>3, <1>4, <1>5, <1>6 DEF Touches

LEMMA QueueAfter ==
  ASSUME TypeOK, NEW t \in Taps, NEW o, op[t].step # "writing", Enqueue(t, o)
  PROVE  /\ op'[t] = [o EXCEPT !.step = "writing"]
         /\ \A s \in Taps \ {t} : op'[s] = op[s]
         /\ \A u \in Users : \A i \in 1..Len(writes'[u]) :
              \/ i \in 1..Len(writes[u]) /\ writes'[u][i] = writes[u][i]
                 /\ writes[u][i] \in Taps \ {t}
              \/ u = authUser /\ writes'[u][i] = t
<1>1. op'[t] = [o EXCEPT !.step = "writing"] /\ \A s \in Taps \ {t} : op'[s] = op[s]
  BY DEF Enqueue, Become, TypeOK
<1>2. \A u \in Users : \A i \in 1..Len(writes[u]) : writes[u][i] \in Taps \ {t}
  BY QueuedNotIdle
<1>3. /\ \A u \in Users \ {authUser} : writes'[u] = writes[u]
      /\ writes'[authUser] = Append(writes[authUser], t) /\ writes[authUser] \in Seq(Taps)
  BY DEF Enqueue, TypeOK
<1>4. ASSUME NEW u \in Users, NEW i \in 1..Len(writes'[u])
      PROVE  \/ i \in 1..Len(writes[u]) /\ writes'[u][i] = writes[u][i]
                /\ writes[u][i] \in Taps \ {t}
             \/ u = authUser /\ writes'[u][i] = t
  <2>1. CASE u = authUser
    BY <2>1, <1>2, <1>3
  <2>2. CASE u # authUser
    BY <2>2, <1>2, <1>3
  <2> QED
    BY <2>1, <2>2
<1> QED
  BY <1>1, <1>4

LEMMA EditsCallbacks ==
  ASSUME EditsInv, NEW t \in Taps, Callbacks(t)
  PROVE  EditsOrderly' /\ OwnCache' /\ SameAvatars'
<1>0. /\ TypeOK /\ op \in [Taps -> Ops] /\ authUser \in Users
      /\ writes \in [Users -> Seq(Taps)] /\ OpFine(t, op[t])
  BY DEF EditsInv, ListsInv, TypeOK
<1>1. Finish(t) => /\ op'[t].step = "done" /\ op'[t].kind = op[t].kind
                   /\ \A s \in Taps \ {t} : op'[s] = op[s]
  BY <1>0 DEF Finish, Ops
<1>2. CASE Finish(t) /\ op[t].step # "writing" /\ UNCHANGED <<sessionVars, serverVars, writes, hud>>
  BY <1>1, <1>2, OtherTapsKept
<1>4. CASE DocumentRead(t)
  <2>1. PICK L : Enqueue(t, [op[t] EXCEPT !.list = L])
    BY <1>4 DEF DocumentRead
  <2> DEFINE o == [op[t] EXCEPT !.list = L]
  <2>2. op[t].step = "reading" /\ op[t].kind \in Lists
    BY <1>4, <1>0 DEF DocumentRead, OpFine
  <2>3. op'[t].kind = op[t].kind /\ \A s \in Taps \ {t} : op'[s] = op[s]
    BY <2>1, <1>0 DEF Enqueue, Become, Ops
  <2>4. \A u \in Users : \A i \in 1..Len(writes'[u]) :
          \/ i \in 1..Len(writes[u]) /\ writes'[u][i] = writes[u][i]
             /\ writes[u][i] \in Taps \ {t}
          \/ u = authUser /\ writes'[u][i] = t
    BY <2>1, <2>2, <1>0, QueueAfter
  <2>5. op'[t].kind # "edit" /\ op'[t].kind # "publish"
    BY <2>2, <2>3 DEF Lists
  <2>6. EditsOrderly'
    BY <1>4, <2>3, <2>4, <2>5 DEF DocumentRead, EditsInv, EditsOrderly, Editing, sessionVars
  <2> QED
    BY <1>4, <2>3, <2>5, <2>6 DEF DocumentRead, EditsInv, OwnCache, SameAvatars,
                                  sessionVars, serverVars
<1>5. CASE ReadFails(t) \/ ImageFails(t)
  BY <1>5, <1>2 DEF ReadFails, ImageFails
<1>6. CASE AvatarFails(t)
  <2>1. \A s \in Taps : Editing(s)' => FALSE
    BY <1>6, <1>1 DEF AvatarFails, EditsInv, EditsOrderly, Editing
  <2>2. \A u \in Users : \A i \in 1..Len(writes[u]) : writes[u][i] \in Taps \ {t}
    BY <1>6, <1>0, QueuedNotIdle DEF AvatarFails
  <2>3. EditsOrderly'
    BY <1>6, <1>1, <2>1, <2>2 DEF AvatarFails, EditsInv, EditsOrderly, Editing, sessionVars
  <2> QED
    BY <1>6, <1>1, <2>3 DEF AvatarFails, EditsInv, OwnCache, SameAvatars, sessionVars, serverVars
<1>7. CASE ImageUploaded(t)
  <2>1. CASE appUser = None
    BY <1>7, <2>1, <1>2 DEF ImageUploaded
  <2>2. CASE appUser # None
    <3> DEFINE o == [op[t] EXCEPT !.value = [id |-> appUser.id, avatar |-> appUser.avatar]]
    <3>1. op[t].step = "uploading" /\ op[t].kind = "publish" /\ Enqueue(t, o)
      BY <1>7, <2>2 DEF ImageUploaded
    <3>2. /\ op'[t].kind = "publish" /\ op'[t].value.avatar = appUser.avatar
          /\ op'[t].value.id = appUser.id
      <4>1. op'[t] = [o EXCEPT !.step = "writing"]
        BY <3>1, <1>0, QueueAfter
      <4>2. op[t] \in Ops
        BY <1>0
      <4> QED
        BY <3>1, <4>1, <4>2 DEF Ops
    <3>3. \A s \in Taps \ {t} : op'[s] = op[s]
      BY <3>1, <1>0, QueueAfter
    <3>4. \A u \in Users : \A i \in 1..Len(writes'[u]) :
            \/ i \in 1..Len(writes[u]) /\ writes'[u][i] = writes[u][i]
               /\ writes[u][i] \in Taps \ {t}
            \/ u = authUser /\ writes'[u][i] = t
      BY <3>1, <1>0, QueueAfter
    <3>5. EditsOrderly'
      BY <1>7, <3>2, <3>3, <3>4 DEF ImageUploaded, EditsInv, EditsOrderly, Editing, sessionVars
    <3>6. appUser.avatar = AvatarURL(appUser.id, None)
      BY <2>2 DEF EditsInv, SameAvatars
    <3>7. SameAvatars'
      BY <1>7, <3>2, <3>3, <3>6 DEF ImageUploaded, EditsInv, SameAvatars, sessionVars, serverVars
    <3> QED
      BY <1>7, <3>5, <3>7 DEF ImageUploaded, EditsInv, OwnCache, sessionVars
  <2> QED
    BY <2>1, <2>2
<1>8. CASE AvatarUploaded(t)
  <2>1. CASE authUser = None
    BY <1>8, <2>1, <1>2 DEF AvatarUploaded
  <2>2. CASE authUser # None
    <3> DEFINE o == [op[t] EXCEPT !.target = authUser]
    <3>1. op[t].step = "uploading" /\ op[t].kind = "edit" /\ Enqueue(t, o)
      BY <1>8, <2>2 DEF AvatarUploaded
    <3>2. op[t].by = authUser /\ hud /\ \A s \in Taps \ {t} : ~Editing(s)
      BY <3>1, <2>2 DEF EditsInv, EditsOrderly, Editing
    <3>3. /\ op'[t].kind = "edit" /\ op'[t].target = authUser /\ op'[t].by = authUser
          /\ op'[t].step = "writing"
      <4>1. op'[t] = [o EXCEPT !.step = "writing"]
        BY <3>1, <1>0, QueueAfter
      <4>2. op[t] \in Ops
        BY <1>0
      <4> QED
        BY <3>1, <3>2, <4>1, <4>2 DEF Ops
    <3>4. \A s \in Taps \ {t} : op'[s] = op[s]
      BY <3>1, <1>0, QueueAfter
    <3>5. \A u \in Users : \A i \in 1..Len(writes'[u]) :
            \/ i \in 1..Len(writes[u]) /\ writes'[u][i] = writes[u][i]
               /\ writes[u][i] \in Taps \ {t}
            \/ u = authUser /\ writes'[u][i] = t
      BY <3>1, <1>0, QueueAfter
    <3>6. EditsOrderly'
      BY <1>8, <3>2, <3>3, <3>4, <3>5 DEF AvatarUploaded, EditsInv, EditsOrderly, Editing, sessionVars
    <3> QED
      BY <1>8, <3>3, <3>4, <3>6 DEF AvatarUploaded, EditsInv, OwnCache, SameAvatars,
                                    sessionVars, serverVars
  <2> QED
    BY <2>1, <2>2
<1> QED
  BY <1>4, <1>5, <1>6, <1>7, <1>8 DEF Callbacks

LEMMA EditsAnswered ==
  ASSUME EditsInv, NEW ok \in BOOLEAN, Answered(ok)
  PROVE  EditsOrderly' /\ OwnCache' /\ SameAvatars'
<1> DEFINE t == Head(writes[authUser])
<1>0. TypeOK /\ QueuedOnce /\ op \in [Taps -> Ops] /\ authUser \in Users
  BY DEF EditsInv, ListsInv, TypeOK
<1>1. /\ t \in Taps /\ op[t].step = "writing" /\ op' = [op EXCEPT ![t].step = "done"]
      /\ t = writes[authUser][1] /\ 1 \in 1..Len(writes[authUser])
      /\ \A u \in Users : \A i \in 1..Len(writes'[u]) : op'[writes'[u][i]].step = "writing"
  <2>1. writes[authUser] \in Seq(Taps) /\ writes[authUser] # <<>>
    BY <1>0 DEF Answered, TypeOK
  <2>2. t = writes[authUser][1] /\ 1 \in 1..Len(writes[authUser])
    BY <2>1
  <2> QED
    BY <2>2, <1>0, QueuesShrink
<1>2. /\ IF ok THEN Stored(t) /\ appUser' = Cached(t)
         ELSE UNCHANGED <<serverVars, appUser>>
      /\ hud' = (hud /\ op[t].kind # "edit")
      /\ UNCHANGED <<authUser, deleting, deleted>>
      /\ writes' = [writes EXCEPT ![authUser] = Tail(@)]
  BY DEF Answered
<1> HIDE DEF t
<1>3. /\ op'[t].kind = op[t].kind /\ op'[t].step = "done" /\ op'[t].by = op[t].by
      /\ \A s \in Taps \ {t} : op'[s] = op[s]
  BY <1>0, <1>1 DEF Ops
<1>4. OpFine(t, op[t])
  BY <1>1 DEF EditsInv, ListsInv
<1>5. op[t].kind = "edit" => /\ op[t].by = authUser /\ op[t].target = authUser
                             /\ authUser \in Accounts
                             /\ op[t].value = AvatarURL(authUser, None)
  BY <1>0, <1>1, <1>4 DEF EditsInv, EditsOrderly, OpFine, AvatarURL
<1>6. \A s \in Taps : Editing(s)' => Editing(s) /\ s # t
  BY <1>3 DEF Editing
<1>7. \A s \in Taps : Editing(s)' => hud'
  <2> SUFFICES ASSUME NEW s \in Taps, Editing(s), s # t PROVE hud'
    BY <1>6
  <2>1. hud /\ ~Editing(t)
    BY <1>1 DEF EditsInv, EditsOrderly
  <2>2. op[t].kind # "edit"
    BY <2>1, <1>1 DEF Editing
  <2> QED
    BY <1>2, <2>1, <2>2
<1>8. \A u \in Users : \A i \in 1..Len(writes'[u]) :
        op'[writes'[u][i]].kind = "edit" => op'[writes'[u][i]].by = u
  <2> SUFFICES ASSUME NEW u \in Users, NEW i \in 1..Len(writes'[u])
               PROVE  op'[writes'[u][i]].kind = "edit" => op'[writes'[u][i]].by = u
    OBVIOUS
  <2>1. writes \in [Users -> Seq(Taps)]
    BY <1>0 DEF TypeOK
  <2>2. \E j \in 1..Len(writes[u]) : writes'[u][i] = writes[u][j]
    <3>1. CASE u = authUser
      <4>1. writes'[u] = Tail(writes[u]) /\ writes[u] \in Seq(Taps) /\ writes[u] # <<>>
        BY <3>1, <2>1, <1>2 DEF Answered
      <4>2. i + 1 \in 1..Len(writes[u]) /\ writes'[u][i] = writes[u][i + 1]
        BY <4>1
      <4> QED
        BY <4>2
    <3>2. CASE u # authUser
      BY <3>2, <2>1, <1>2
    <3> QED
      BY <3>1, <3>2
  <2>3. writes'[u][i] \in Taps
    BY <2>1, <2>2
  <2>4. /\ op'[writes'[u][i]].kind = op[writes'[u][i]].kind
        /\ op'[writes'[u][i]].by = op[writes'[u][i]].by
    BY <2>3, <1>3
  <2> QED
    BY <2>2, <2>4 DEF EditsInv, EditsOrderly
<1>9. EditsOrderly'
  BY <1>2, <1>3, <1>6, <1>7, <1>8 DEF EditsInv, EditsOrderly
<1>10. OwnCache' /\ (appUser' # None => appUser'.avatar = AvatarURL(appUser'.id, None))
  <2>0. appUser # None => appUser \in Profiles
    BY <1>0 DEF TypeOK
  <2>1. CASE appUser = None \/ ~ok
    BY <2>1, <1>2 DEF Cached, EditsInv, OwnCache, SameAvatars
  <2>2. CASE appUser # None /\ ok /\ op[t].kind \in Lists
    <3>1. appUser' = [appUser EXCEPT !.saved = op[t].list]
      BY <2>2, <1>2 DEF Cached, Lists
    <3>2. appUser \in Profiles
      BY <2>0, <2>2
    <3>3. appUser'.id = appUser.id /\ appUser'.avatar = appUser.avatar
      BY <3>1, <3>2 DEF Profiles
    <3> QED
      BY <2>2, <3>3, <1>2 DEF EditsInv, OwnCache, SameAvatars
  <2>3. CASE appUser # None /\ ok /\ op[t].kind = "edit"
    <3>1. appUser' = [appUser EXCEPT !.avatar = op[t].value]
      BY <2>3, <1>2 DEF Cached, Lists
    <3>2. appUser'.id = appUser.id /\ appUser'.avatar = op[t].value
      BY <3>1, <2>0, <2>3 DEF Profiles
    <3>3. appUser.id = authUser
      BY <2>3, <1>5, NoneAssumption DEF EditsInv, OwnCache
    <3> QED
      BY <2>3, <3>2, <3>3, <1>2, <1>5 DEF OwnCache
  <2>4. CASE appUser # None /\ ok /\ op[t].kind \notin Lists /\ op[t].kind # "edit"
    BY <2>4, <1>2 DEF Cached, EditsInv, OwnCache, SameAvatars
  <2> QED
    BY <2>1, <2>2, <2>3, <2>4
<1>11. \A a \in Accounts : doc'[a].avatar = AvatarURL(a, None)
  <2>0. doc \in [Accounts -> Documents] /\ \A a \in Accounts : doc[a].avatar = AvatarURL(a, None)
    BY <1>0 DEF TypeOK, EditsInv, SameAvatars
  <2>1. CASE op[t].kind \in Lists /\ doc' = [doc EXCEPT ![op[t].target].saved = op[t].list]
    BY <2>0, <2>1 DEF Documents
  <2>2. CASE op[t].kind = "edit" /\ doc' = [doc EXCEPT ![op[t].target].avatar = op[t].value]
    BY <2>0, <2>2, <1>5 DEF Documents
  <2>3. CASE doc' = doc
    BY <2>0, <2>3
  <2> QED
    BY <2>1, <2>2, <2>3, <1>2 DEF Stored, serverVars
<1>12. \A x \in posts' : x.author.avatar = AvatarURL(x.author.id, None)
  <2>1. CASE posts' = posts
    BY <2>1 DEF EditsInv, SameAvatars
  <2>2. CASE op[t].kind = "publish" /\ posts' = posts \cup {[tap |-> t, author |-> op[t].value]}
    BY <2>2, <1>1 DEF EditsInv, SameAvatars
  <2> QED
    BY <2>1, <2>2, <1>2 DEF Stored, serverVars
<1>13. \A s \in Taps : op'[s].kind = "publish" /\ op'[s].step = "writing"
                      => op'[s].value.avatar = AvatarURL(op'[s].value.id, None)
  BY <1>3 DEF EditsInv, SameAvatars
<1> QED
  BY <1>9, <1>10, <1>11, <1>12, <1>13 DEF SameAvatars, AvatarURL

LEMMA EditsStep == HudShows /\ EditsInv /\ [Next]_vars => EditsInv'
<1> SUFFICES ASSUME HudShows, EditsInv, [Next]_vars
             PROVE  EditsOrderly' /\ OwnCache' /\ SameAvatars'
  BY ListsStep DEF EditsInv
<1>1. CASE Touches
  BY <1>1, EditsTouches
<1>2. ASSUME NEW t \in Taps, Callbacks(t) PROVE EditsOrderly' /\ OwnCache' /\ SameAvatars'
  BY <1>2, EditsCallbacks
<1>3. ASSUME NEW ok \in BOOLEAN, Answered(ok) PROVE EditsOrderly' /\ OwnCache' /\ SameAvatars'
  BY <1>3, EditsAnswered
<1>4. ASSUME NEW ok \in BOOLEAN, DeleteAnswered(ok)
      PROVE  EditsOrderly' /\ OwnCache' /\ SameAvatars'
  BY <1>4 DEF DeleteAnswered, EditsInv, EditsOrderly, Editing, OwnCache, SameAvatars, serverVars
<1>5. CASE UNCHANGED vars
  BY <1>5 DEF vars, sessionVars, serverVars, EditsInv, EditsOrderly, Editing, OwnCache, SameAvatars
<1> QED
  BY <1>1, <1>2, <1>3, <1>4, <1>5 DEF Next

(* Where the HUD always appears, nobody's document ever shows another      *)
(* account's avatar, although updateProfile asks who is signed in only     *)
(* after the upload.                                                       *)
THEOREM AvatarOwnAlways == ASSUME HudShows PROVE Spec => []AvatarOwn
<1>1. EditsInv => AvatarOwn
  <2> SUFFICES ASSUME EditsInv, NEW a \in Accounts PROVE doc[a].avatar.owner = a
    BY DEF AvatarOwn
  <2>1. doc[a].avatar = [owner |-> a, token |-> None]
    BY DEF EditsInv, SameAvatars, AvatarURL
  <2> QED
    BY <2>1
<1>2. EditsInv /\ [Next]_vars => EditsInv'
  BY EditsStep
<1> QED
  BY <1>1, <1>2, EditsInit, PTL DEF Spec

(* Where the HUD always appears, the author of a post equals what the      *)
(* author's document says, so that comparing whole authors finds it.       *)
THEOREM OwnPostsFoundAlways == ASSUME HudShows PROVE Spec => []OwnPostsFound
<1>1. EditsInv => OwnPostsFound
  <2> SUFFICES ASSUME EditsInv, NEW x \in posts
               PROVE  x.author.avatar = doc[x.author.id].avatar
    BY DEF OwnPostsFound
  <2>1. x.author.id \in Accounts
    BY DEF EditsInv, ListsInv, TypeOK, Authors
  <2> QED
    BY <2>1 DEF EditsInv, SameAvatars
<1>2. EditsInv /\ [Next]_vars => EditsInv'
  BY EditsStep
<1> QED
  BY <1>1, <1>2, EditsInit, PTL DEF Spec

-----------------------------------------------------------------------------
(* The HUD of "Done" waits for nothing that is not on its way: as long as  *)
(* nobody has deleted an account, an edit is being uploaded or its write   *)
(* is in the queue of whoever is signed in, which is the one the server    *)
(* answers.  The safety behind EditReleased, whether or not the HUD shows. *)
Held(t) ==
  /\ op[t].kind = "edit"
  /\ \/ op[t].step = "uploading"
     \/ op[t].step = "writing" /\ \E i \in 1..Len(writes[authUser]) : writes[authUser][i] = t

HudHeld == hud /\ deleted = {} => authUser # None /\ \E t \in Taps : Held(t)

LEMMA HeldStays ==
  ASSUME TypeOK, HudHeld, UNCHANGED <<hud, deleted, authUser>>,
         NEW s \in Taps, ~Held(s), \A t \in Taps : t # s => op'[t] = op[t],
         writes' = writes \/ writes' = [writes EXCEPT ![authUser] = Append(@, s)]
  PROVE  HudHeld'
<1> SUFFICES ASSUME hud, deleted = {} PROVE authUser # None /\ \E t \in Taps : Held(t)'
  BY DEF HudHeld
<1>1. PICK t \in Taps : Held(t) /\ authUser # None
  BY DEF HudHeld
<1>2. op'[t] = op[t] /\ authUser' = authUser
  BY <1>1
<1>3. writes[authUser] \in Seq(Taps)
  BY DEF TypeOK
<1>4. writes'[authUser] = writes[authUser] \/ writes'[authUser] = Append(writes[authUser], s)
  BY DEF TypeOK
<1>5. \A i \in 1..Len(writes[authUser]) :
        i \in 1..Len(writes'[authUser]) /\ writes'[authUser][i] = writes[authUser][i]
  BY <1>3, <1>4
<1> QED
  BY <1>1, <1>2, <1>5 DEF Held

LEMMA HeldCallbacks ==
  ASSUME TypeOK, HudHeld, NEW s \in Taps, Callbacks(s) PROVE HudHeld'
<1>0. ASSUME NEW o, Enqueue(s, o)
      PROVE  /\ \A t \in Taps : t # s => op'[t] = op[t]
             /\ writes' = [writes EXCEPT ![authUser] = Append(@, s)]
  BY <1>0 DEF Enqueue, Become, TypeOK
<1>1. ASSUME Finish(s) PROVE \A t \in Taps : t # s => op'[t] = op[t]
  BY <1>1 DEF Finish, TypeOK
<1>2. CASE DocumentRead(s)
  <2>1. ~Held(s)
    BY <1>2 DEF DocumentRead, Held
  <2> QED
    BY <1>0, <1>2, <2>1, HeldStays DEF DocumentRead, sessionVars
<1>3. CASE ReadFails(s) \/ ImageFails(s)
  <2>1. ~Held(s) /\ Finish(s) /\ writes' = writes
    BY <1>3 DEF ReadFails, ImageFails, Held
  <2> QED
    BY <1>1, <1>3, <2>1, HeldStays DEF ReadFails, ImageFails, sessionVars
<1>4. CASE ImageUploaded(s)
  <2>1. ~Held(s)
    BY <1>4 DEF ImageUploaded, Held
  <2> QED
    BY <1>0, <1>1, <1>4, <2>1, HeldStays DEF ImageUploaded, sessionVars
<1>5. CASE AvatarUploaded(s)
  <2> SUFFICES ASSUME hud, deleted = {} PROVE authUser' # None /\ Held(s)'
    BY <1>5 DEF AvatarUploaded, HudHeld, sessionVars
  <2>1. authUser # None /\ authUser' = authUser
    BY <1>5 DEF AvatarUploaded, HudHeld, sessionVars
  <2>2. /\ op' = [op EXCEPT ![s] = [[op[s] EXCEPT !.target = authUser] EXCEPT !.step = "writing"]]
        /\ writes' = [writes EXCEPT ![authUser] = Append(@, s)]
    BY <1>5, <2>1 DEF AvatarUploaded, Enqueue, Become
  <2>3. op'[s].kind = "edit" /\ op'[s].step = "writing"
    BY <1>5, <2>2 DEF AvatarUploaded, TypeOK, Ops
  <2>4. writes[authUser] \in Seq(Taps) /\ writes'[authUser] = Append(writes[authUser], s)
    BY <2>2 DEF TypeOK
  <2>5. \E i \in 1..Len(writes'[authUser]) : writes'[authUser][i] = s
    <3>1. Len(writes'[authUser]) \in 1..Len(writes'[authUser])
          /\ writes'[authUser][Len(writes'[authUser])] = s
      BY <2>4
    <3> QED
      BY <3>1
  <2> QED
    BY <2>1, <2>3, <2>5 DEF Held
<1>6. CASE AvatarFails(s)
  BY <1>6 DEF AvatarFails, HudHeld
<1> QED
  BY <1>2, <1>3, <1>4, <1>5, <1>6 DEF Callbacks

LEMMA HeldAnswered ==
  ASSUME TypeOK, HudHeld, NEW ok \in BOOLEAN, Answered(ok) PROVE HudHeld'
<1> SUFFICES ASSUME hud', deleted' = {} PROVE authUser' # None /\ \E t \in Taps : Held(t)'
  BY DEF HudHeld
<1>1. /\ hud /\ deleted = {} /\ authUser' = authUser /\ writes[authUser] # <<>>
      /\ writes' = [writes EXCEPT ![authUser] = Tail(@)]
      /\ op[Head(writes[authUser])].kind # "edit" /\ Finish(Head(writes[authUser]))
  BY DEF Answered
<1>2. PICK t \in Taps : Held(t) /\ authUser # None
  BY <1>1 DEF HudHeld
<1>3. PICK h : h = Head(writes[authUser])
  OBVIOUS
<1>4. writes[authUser] \in Seq(Taps) /\ writes'[authUser] = Tail(writes[authUser])
  BY <1>1 DEF TypeOK
<1>5. h # t /\ op'[t] = op[t]
  <2>1. h # t /\ op' = [op EXCEPT ![h].step = "done"]
    BY <1>1, <1>2, <1>3 DEF Held, Finish
  <2> QED
    BY <2>1 DEF TypeOK
<1>6. \A i \in 1..Len(writes[authUser]) : writes[authUser][i] = t =>
        i - 1 \in 1..Len(writes'[authUser]) /\ writes'[authUser][i - 1] = t
  <2> SUFFICES ASSUME NEW i \in 1..Len(writes[authUser]), writes[authUser][i] = t
               PROVE  i - 1 \in 1..Len(Tail(writes[authUser]))
                      /\ Tail(writes[authUser])[i - 1] = t
    BY <1>4
  <2>1. i # 1
    BY <1>3, <1>4, <1>5
  <2> QED
    BY <1>4, <2>1
<1> QED
  BY <1>1, <1>2, <1>5, <1>6 DEF Held

(* The HUD over an edited profile waits for an upload, or for a write the  *)
(* server will answer, as long as nobody has deleted an account.           *)
THEOREM HudHeldAlways == Spec => []HudHeld
<1>1. Init => HudHeld
  BY DEF Init, HudHeld
<1>2. TypeOK /\ HudHeld /\ [Next]_vars => HudHeld'
  <2> SUFFICES ASSUME TypeOK, HudHeld, [Next]_vars PROVE HudHeld'
    OBVIOUS
  <2>1. ASSUME NEW t \in Taps, TapDone(t) PROVE HudHeld'
    <3>1. authUser' # None /\ op'[t].kind = "edit" /\ op'[t].step = "uploading"
      BY <2>1 DEF TapDone, Become, Untouched, TypeOK, sessionVars
    <3> QED
      BY <3>1 DEF HudHeld, Held
  <2>2. ASSUME \/ SignOut \/ DeleteAccount \/ \E a \in Accounts : SignIn(a)
               \/ \E t \in Taps : TapPost(t) \/ \E p \in Images : TapSave(t, p)
        PROVE  HudHeld'
    BY <2>2 DEF SignOut, DeleteAccount, SignIn, TapPost, TapSave, Touchable, HudHeld
  <2>3. ASSUME NEW ok \in BOOLEAN, DeleteAnswered(ok) PROVE HudHeld'
    BY <2>3 DEF DeleteAnswered, HudHeld, Held
  <2>4. CASE UNCHANGED vars
    BY <2>4 DEF vars, sessionVars, HudHeld, Held
  <2> QED
    BY <2>1, <2>2, <2>3, <2>4, HeldCallbacks, HeldAnswered DEF Next, Touches
<1> QED
  BY <1>1, <1>2, SwitchTypes, PTL DEF Spec
=============================================================================
