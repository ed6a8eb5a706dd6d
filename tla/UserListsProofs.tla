-------------------------- MODULE UserListsProofs --------------------------
(***************************************************************************)
(* Theorems about UserLists for any devices, taps, items, lists and bounds:*)
(* its type invariant; AtRestAgreement; on one device that what was        *)
(* answered is kept (BlocksKept, SavesKept), that no list gets an item     *)
(* twice and that the alert agrees with the button; and, one tap at a time *)
(* and online, that it implements AtomicLists on any devices; and, for     *)
(* every overlap, that answers are true and come from the queue.           *)
(***************************************************************************)
EXTENDS UserLists, Integers, SequenceTheorems, FiniteSetTheorems,
        WellFoundedInduction, TLAPS

(* Facts about least and greatest numbers and about lists.                *)

(* A nonempty set of natural numbers has a least element, and Min is it.   *)
LEMMA MinOfNat ==
  ASSUME NEW S \in SUBSET Nat, S # {}
  PROVE  Min(S) \in S /\ \A y \in S : Min(S) <= y
<1>1. IsWellFoundedOn(OpToRel(<, Nat), Nat)
  BY NatLessThanWellFounded
<1>2. PICK x \in S : \A y \in S : ~(<<y, x>> \in OpToRel(<, Nat))
  BY <1>1, WFMin
<1>3. \A y \in S : x <= y
  <2> SUFFICES ASSUME NEW y \in S PROVE x <= y
    OBVIOUS
  <2>1. ~(y < x)
    <3>1. <<y, x>> \notin OpToRel(<, Nat)
      BY <1>2
    <3>2. <<y, x>> \in Nat \X Nat
      OBVIOUS
    <3>3. <<y, x>>[1] = y /\ <<y, x>>[2] = x
      OBVIOUS
    <3> QED
      BY <3>1, <3>2, <3>3 DEF OpToRel
  <2> QED
    BY <2>1
<1> QED
  BY <1>3 DEF Min

(* A nonempty set of numbers up to n has a greatest, and Max is it.        *)
LEMMA MaxOfInterval ==
  ASSUME NEW n \in Nat, NEW S \in SUBSET (1..n), S # {}
  PROVE  Max(S) \in S /\ \A y \in S : y <= Max(S)
<1> DEFINE T == {n - y : y \in S}
<1>1. T \in SUBSET Nat /\ T # {}
  <2>1. \A y \in S : n - y \in Nat
    OBVIOUS
  <2>2. PICK y \in S : TRUE
    OBVIOUS
  <2>3. n - y \in T
    OBVIOUS
  <2> QED
    BY <2>1, <2>3
<1>2. Min(T) \in T /\ \A z \in T : Min(T) <= z
  BY <1>1, MinOfNat
<1>3. PICK x \in S : Min(T) = n - x
  BY <1>2
<1>4. \A y \in S : y <= x
  <2> SUFFICES ASSUME NEW y \in S PROVE y <= x
    OBVIOUS
  <2>1. n - x <= n - y
    BY <1>2, <1>3
  <2> QED
    BY <2>1
<1> QED
  BY <1>4 DEF Max

(* Taking out the first entry equal to e leaves a list of the same type.   *)
LEMMA RemoveFirstType ==
  ASSUME NEW S, NEW s \in Seq(S), NEW e
  PROVE  RemoveFirst(s, e) \in Seq(S)
<1> DEFINE I == {i \in 1..Len(s) : s[i] = e}
<1>1. CASE I = {}
  BY <1>1 DEF RemoveFirst
<1>2. CASE I # {}
  <2>1. Min(I) \in I
    <3>1. I \in SUBSET Nat
      OBVIOUS
    <3> HIDE DEF I
    <3> QED
      BY <1>2, <3>1, MinOfNat
  <2>2. RemoveFirst(s, e) = RemoveAt(s, Min(I))
    BY <1>2 DEF RemoveFirst, SelectInSeq
  <2>3. \A i \in 1..Len(s) : RemoveAt(s, i) \in Seq(S)
    BY DEF RemoveAt
  <2> QED
    BY <2>1, <2>2, <2>3
<1> QED
  BY <1>1, <1>2

-----------------------------------------------------------------------------
(* The type invariant.                                                     *)

(* A queued tap was tapped, so it has a request.                           *)
LEMMA QueuedRequest ==
  ASSUME TypeOK, NEW d \in Devices, NEW k \in 1..Len(queue[d])
  PROVE  queue[d][k] \in Taps /\ req[queue[d][k]] \in Requests
<1>1. queue[d][k] \in Taps
  BY DEF TypeOK
<1>2. req[queue[d][k]] # None
  BY <1>1 DEF TypeOK
<1> QED
  BY <1>1, <1>2 DEF TypeOK

(* What a snapshot shows of a field is a list.                             *)
LEMMA LocalViewType ==
  ASSUME TypeOK, NEW d \in Devices, NEW f, NEW base \in Lists
  PROVE  LocalView(d, f, base) \in Lists
<1> DEFINE mine == {k \in 1..Len(queue[d]) : req[queue[d][k]].field = f}
<1>1. CASE mine = {}
  BY <1>1 DEF LocalView
<1>2. CASE mine # {}
  <2>1. Max(mine) \in 1..Len(queue[d])
    <3>1. mine \in SUBSET (1..Len(queue[d])) /\ Len(queue[d]) \in Nat
      BY DEF TypeOK
    <3> HIDE DEF mine
    <3> QED
      BY <1>2, <3>1, MaxOfInterval
  <2>2. list[queue[d][Max(mine)]] \in Lists
    BY <2>1, QueuedRequest DEF TypeOK
  <2> QED
    BY <1>2, <2>2 DEF LocalView
<1> QED
  BY <1>1, <1>2

LEMMA NewListType ==
  ASSUME NEW r \in Requests, NEW l \in Lists
  PROVE  NewList(r, l) \in Lists
BY RemoveFirstType DEF NewList, Requests, Lists

LEMMA TypeInit == Init => TypeOK
BY ListsAssumption, BoundsAssumption DEF Init, TypeOK, Lists, Phases

LEMMA TypeStep == TypeOK /\ [Next]_vars => TypeOK'
<1> SUFFICES ASSUME TypeOK, [Next]_vars PROVE TypeOK'
  OBVIOUS
<1> USE BoundsAssumption DEF Phases, Live
<1>1. ASSUME NEW t \in Taps, NEW d \in Devices, NEW f \in Fields,
             NEW i \in Items, Tap(t, d, f, i)
      PROVE  TypeOK'
  <2>1. req' \in [Taps -> Requests \cup {None}] /\ req'[t] # None
    <3>1. req'[t] \in Requests
      BY <1>1 DEF Tap, TypeOK, Requests
    <3> QED
      BY <1>1, <3>1, NoneAssumption DEF Tap, TypeOK
  <2> QED
    BY <1>1, <2>1 DEF Tap, TypeOK, sdkVars, ghostVars, envVars
<1>2. ASSUME NEW t \in Taps, SnapshotOnline(t) PROVE TypeOK'
  <2>1. req[t] \in Requests
    BY <1>2 DEF SnapshotOnline, TypeOK
  <2>2. LocalView(req[t].dev, req[t].field, doc[req[t].field]) \in Lists
    BY <2>1, LocalViewType DEF TypeOK, Requests
  <2>3. list' \in [Taps -> Lists] /\ remote' \in [Devices -> [Fields -> Lists]]
    BY <1>2, <2>1, <2>2 DEF SnapshotOnline, TypeOK, Requests
  <2> QED
    BY <1>2, <2>1, <2>3 DEF SnapshotOnline, TypeOK, Requests, ghostVars, envVars
<1>3. ASSUME NEW t \in Taps, SnapshotOffline(t) PROVE TypeOK'
  <2>1. req[t] \in Requests
    BY <1>3 DEF SnapshotOffline, TypeOK
  <2>2. LocalView(req[t].dev, req[t].field, remote[req[t].dev][req[t].field])
          \in Lists
    BY <2>1, LocalViewType DEF TypeOK, Requests
  <2> QED
    BY <1>3, <2>2 DEF SnapshotOffline, TypeOK, sdkVars, ghostVars, envVars
<1>4. ASSUME NEW t \in Taps, GetFails(t) PROVE TypeOK'
  BY <1>4 DEF GetFails, TypeOK, sdkVars, ghostVars, envVars
<1>5. ASSUME NEW t \in Taps, Callback(t) PROVE TypeOK'
  <2>1. req[t] \in Requests /\ req[t].dev \in Devices
    BY <1>5 DEF Callback, TypeOK, Requests
  <2>2. NewList(req[t], list[t]) \in Lists
    BY <2>1, NewListType DEF TypeOK
  <2>3. list' \in [Taps -> Lists]
    BY <1>5, <2>2 DEF Callback, TypeOK
  <2>4. queue' \in [Devices -> Seq(Taps)]
    BY <1>5, <2>1 DEF Callback, TypeOK
  <2>5. \A d \in Devices : Len(queue'[d]) >= Len(queue[d])
    BY <1>5, <2>1 DEF Callback, TypeOK
  <2>6. ASSUME NEW d \in Devices, NEW k \in 1..Len(queue'[d])
        PROVE  phase'[queue'[d][k]] # "untapped"
    <3>1. CASE queue'[d][k] = t
      BY <1>5, <3>1 DEF Callback, TypeOK
    <3>2. CASE queue'[d][k] # t
      <4>1. k \in 1..Len(queue[d]) /\ queue'[d][k] = queue[d][k]
        BY <1>5, <2>1, <2>6, <3>2 DEF Callback, TypeOK
      <4>2. queue[d][k] \in Taps /\ phase[queue[d][k]] # "untapped"
        BY <4>1 DEF TypeOK
      <4> QED
        BY <1>5, <3>2, <4>1, <4>2 DEF Callback, TypeOK
    <3> QED
      BY <3>1, <3>2
  <2> QED
    <3>1. phase' \in [Taps -> Phases]
          /\ \A u \in Taps : phase'[u] # "untapped" => phase[u] # "untapped"
      BY <1>5 DEF Callback, TypeOK
    <3>2. \A d \in Devices : committed[d] <= Len(queue'[d])
      BY <2>4, <2>5 DEF TypeOK
    <3> QED
      BY <1>5, <2>3, <2>4, <2>6, <3>1, <3>2
      DEF Callback, TypeOK, ghostVars, envVars
<1>6. ASSUME NEW d \in Devices, Commit(d) PROVE TypeOK'
  <2> DEFINE t == queue[d][committed[d] + 1]
  <2>1. t \in Taps /\ req[t] \in Requests
    BY <1>6, QueuedRequest DEF Commit, Sendable, TypeOK
  <2>2. doc' \in [Fields -> Lists] /\ writer' \in [Fields -> Devices \cup {None}]
        /\ applied' \subseteq Taps
    BY <1>6, <2>1 DEF Commit, TypeOK, Requests
  <2> QED
    BY <1>6, <2>2 DEF Commit, Sendable, TypeOK, envVars
<1>7. ASSUME NEW d \in Devices, Ack(d) PROVE TypeOK'
  <2> DEFINE t == queue[d][1]
  <2>1. Len(queue[d]) >= 1 /\ Head(queue[d]) = t
    BY <1>7 DEF Ack, TypeOK
  <2>2. t \in Taps /\ req[t] \in Requests
    BY <2>1, QueuedRequest DEF TypeOK
  <2>3. remote' \in [Devices -> [Fields -> Lists]]
    BY <1>7, <2>1, <2>2 DEF Ack, TypeOK, Requests
  <2>4. cache' \in [Devices -> [Fields -> Lists]]
    BY <1>7, <2>1, <2>2 DEF Ack, TypeOK, Requests
  <2>5. phase' \in [Taps -> Phases]
        /\ \A u \in Taps : phase'[u] = "untapped" <=> phase[u] = "untapped"
    BY <1>7, <2>1, <2>2 DEF Ack, TypeOK, Completed
  <2>6. queue' = [queue EXCEPT ![d] = Tail(@)]
        /\ queue' \in [Devices -> Seq(Taps)]
        /\ Len(queue'[d]) = Len(queue[d]) - 1
    BY <1>7, <2>1 DEF Ack, TypeOK
  <2>7. ASSUME NEW e \in Devices, NEW k \in 1..Len(queue'[e])
        PROVE  queue'[e][k] \in Taps /\ phase'[queue'[e][k]] # "untapped"
    <3>1. \E j \in 1..Len(queue[e]) : queue'[e][k] = queue[e][j]
      <4>1. CASE e = d
        <5>1. k + 1 \in 1..Len(queue[d]) /\ queue'[d][k] = queue[d][k + 1]
          BY <2>1, <2>6, <2>7, <4>1 DEF TypeOK
        <5> QED
          BY <4>1, <5>1
      <4>2. CASE e # d
        BY <2>6, <2>7, <4>2 DEF TypeOK
      <4> QED
        BY <4>1, <4>2
    <3> QED
      BY <2>5, <3>1 DEF TypeOK
  <2>8. /\ committed' \in [Devices -> Nat] /\ seen' \in [Devices -> Nat]
        /\ \A e \in Devices : committed'[e] <= Len(queue'[e]) /\ seen'[e] <= committed'[e]
    BY <1>7, <2>1, <2>6 DEF Ack, TypeOK
  <2> QED
    <3>1. \A u \in Taps : phase'[u] # "untapped" => req[u] # None
      BY <2>5 DEF TypeOK
    <3>2. UNCHANGED <<doc, req, list, applied, writer, resets, restarts>>
      BY <1>7 DEF Ack, ghostVars, envVars
    <3> QED
      BY <2>3, <2>4, <2>5, <2>6, <2>7, <2>8, <3>1, <3>2 DEF TypeOK
<1>8. ASSUME NEW d \in Devices, Reject(d) PROVE TypeOK'
  <2> DEFINE t == queue[d][1]
  <2>1. Len(queue[d]) >= 1 /\ Head(queue[d]) = t
    BY <1>8 DEF Reject, TypeOK
  <2>5. phase' \in [Taps -> Phases]
        /\ \A u \in Taps : phase'[u] = "untapped" <=> phase[u] = "untapped"
    BY <1>8, <2>1 DEF Reject, TypeOK, Completed
  <2>6. queue' = [queue EXCEPT ![d] = Tail(@)]
        /\ queue' \in [Devices -> Seq(Taps)]
        /\ Len(queue'[d]) = Len(queue[d]) - 1
    BY <1>8, <2>1 DEF Reject, TypeOK
  <2>7. ASSUME NEW e \in Devices, NEW k \in 1..Len(queue'[e])
        PROVE  queue'[e][k] \in Taps /\ phase'[queue'[e][k]] # "untapped"
    <3>1. \E j \in 1..Len(queue[e]) : queue'[e][k] = queue[e][j]
      <4>1. CASE e = d
        <5>1. k + 1 \in 1..Len(queue[d]) /\ queue'[d][k] = queue[d][k + 1]
          BY <2>1, <2>6, <2>7, <4>1 DEF TypeOK
        <5> QED
          BY <4>1, <5>1
      <4>2. CASE e # d
        BY <2>6, <2>7, <4>2 DEF TypeOK
      <4> QED
        BY <4>1, <4>2
    <3> QED
      BY <2>5, <3>1 DEF TypeOK
  <2>8. \A e \in Devices : committed[e] <= Len(queue'[e])
    BY <1>8, <2>1, <2>6 DEF Reject, TypeOK
  <2> QED
    BY <1>8, <2>5, <2>6, <2>7, <2>8 DEF Reject, TypeOK, ghostVars, envVars
<1>9. ASSUME NEW d \in Devices, StreamReset(d) PROVE TypeOK'
  BY <1>9 DEF StreamReset, TypeOK, ghostVars
<1>10. ASSUME NEW d \in Devices, Restart(d) PROVE TypeOK'
  BY <1>10 DEF Restart, TypeOK, ghostVars, InFlight
<1>11. CASE UNCHANGED vars
  BY <1>11 DEF vars, sdkVars, ghostVars, envVars, TypeOK
<1> QED
  BY <1>1, <1>2, <1>3, <1>4, <1>5, <1>6, <1>7, <1>8, <1>9, <1>10, <1>11
  DEF Next, TapStep, DeviceStep

(* The variables of UserLists keep their types, the counters of a write    *)
(* stream stay within its queue, and queued taps have requests.            *)
THEOREM TypeCorrect == Spec => []TypeOK
<1>1. Init => TypeOK
  BY TypeInit
<1>2. TypeOK /\ [Next]_vars => TypeOK'
  BY TypeStep
<1> QED
  BY <1>1, <1>2, PTL DEF Spec

-----------------------------------------------------------------------------
(* The invariant behind AtRestAgreement.                                   *)

(* A device's queue holds its own writes, each once, and while their       *)
(* callbacks live they wait for the answer.                                *)
QueueInv ==
  \A d \in Devices : \A k \in 1..Len(queue[d]) :
    /\ req[queue[d][k]].dev = d
    /\ phase[queue[d][k]] \in {"writing", "lost"}
    /\ restarts[d] = 0 => phase[queue[d][k]] = "writing"
    /\ \A j \in 1..Len(queue[d]) : queue[d][j] = queue[d][k] => j = k

(* What a stream has committed is applied, and its field has a writer.     *)
CommittedInv ==
  \A d \in Devices : \A k \in 1..committed[d] :
    queue[d][k] \in applied /\ writer[req[queue[d][k]].field] # None

(* No write of f that the server may have applied awaits its answer.       *)
NoneApplied(d, f) ==
  \A k \in 1..Len(queue[d]) :
    req[queue[d][k]].field = f => queue[d][k] \notin applied

CacheInv ==
  \A d \in Devices, f \in Fields :
    restarts[d] = 0 /\ writer[f] \in {None, d} /\ NoneApplied(d, f)
      => cache[d][f] = doc[f]

(* Position k of d's queue is the last write of f the server has applied.  *)
LastCommitted(d, f, k) ==
  /\ req[queue[d][k]].field = f
  /\ \A j \in 1..committed[d] : j > k => req[queue[d][j]].field # f

(* Unless another device wrote f since, that write is what the server has. *)
DocInv ==
  \A d \in Devices, f \in Fields : \A k \in 1..committed[d] :
    writer[f] = d /\ LastCommitted(d, f, k) => doc[f] = list[queue[d][k]]

RestInv == QueueInv /\ CommittedInv /\ CacheInv /\ DocInv

LEMMA AtRestInit == Init => RestInv
<1> SUFFICES ASSUME Init PROVE RestInv
  OBVIOUS
<1>1. \A d \in Devices : queue[d] = <<>> /\ committed[d] = 0
  BY DEF Init
<1>2. \A d \in Devices, f \in Fields : cache[d][f] = doc[f]
  BY DEF Init
<1> QED
  BY <1>1, <1>2 DEF RestInv, QueueInv, CommittedInv, CacheInv, DocInv

(* Steps before a write is queued: what the queues say stays as it is.     *)
LEMMA AtRestFrame ==
  ASSUME TypeOK, RestInv,
         UNCHANGED <<doc, queue, committed, cache, applied, writer, restarts>>,
         \A d \in Devices : \A k \in 1..Len(queue[d]) :
           /\ req'[queue[d][k]] = req[queue[d][k]]
           /\ list'[queue[d][k]] = list[queue[d][k]]
           /\ phase'[queue[d][k]] = phase[queue[d][k]]
  PROVE  RestInv'
<1>1. QueueInv'
  BY DEF RestInv, QueueInv
<1>2. \A d \in Devices : \A k \in 1..committed[d] : k \in 1..Len(queue[d])
  BY DEF TypeOK
<1>3. CommittedInv'
  BY <1>2 DEF RestInv, CommittedInv
<1>4. CacheInv'
  <2> SUFFICES ASSUME NEW d \in Devices, NEW f \in Fields,
                      restarts[d] = 0, writer[f] \in {None, d}, NoneApplied(d, f)'
               PROVE  cache[d][f] = doc[f]
    BY DEF CacheInv
  <2>1. NoneApplied(d, f)
    BY DEF NoneApplied
  <2> QED
    BY <2>1 DEF RestInv, CacheInv
<1>5. DocInv'
  <2> SUFFICES ASSUME NEW d \in Devices, NEW f \in Fields,
                      NEW k \in 1..committed[d],
                      writer[f] = d, LastCommitted(d, f, k)'
               PROVE  doc[f] = list[queue[d][k]]
    BY <1>2 DEF DocInv
  <2>1. LastCommitted(d, f, k)
    BY <1>2 DEF LastCommitted
  <2> QED
    BY <2>1 DEF RestInv, DocInv
<1> QED
  BY <1>1, <1>3, <1>4, <1>5 DEF RestInv

(* A tap that is not writing is in no queue.                               *)
LEMMA NotQueued ==
  ASSUME RestInv, NEW t \in Taps, phase[t] \notin {"writing", "lost"},
         NEW d \in Devices, NEW k \in 1..Len(queue[d])
  PROVE  queue[d][k] # t
BY DEF RestInv, QueueInv

LEMMA AtRestCallback ==
  ASSUME TypeOK, RestInv, NEW t \in Taps, Callback(t)
  PROVE  RestInv'
<1> DEFINE e == req[t].dev
<1>1. e \in Devices /\ phase[t] = "got"
  BY DEF Callback, TypeOK, Requests
<1>2. /\ UNCHANGED <<doc, committed, cache, req, applied, writer, restarts>>
      /\ queue' = [queue EXCEPT ![e] = Append(@, t)]
      /\ phase' = [phase EXCEPT ![t] = "writing"]
      /\ \A u \in Taps : u # t => list'[u] = list[u]
  BY DEF Callback, ghostVars, envVars, TypeOK
<1>3. \A d \in Devices : \A k \in 1..Len(queue[d]) :
        /\ k \in 1..Len(queue'[d]) /\ queue'[d][k] = queue[d][k]
        /\ queue[d][k] # t /\ queue[d][k] \in Taps
  <2> SUFFICES ASSUME NEW d \in Devices, NEW k \in 1..Len(queue[d])
               PROVE  /\ k \in 1..Len(queue'[d]) /\ queue'[d][k] = queue[d][k]
                      /\ queue[d][k] # t /\ queue[d][k] \in Taps
    OBVIOUS
  <2>1. queue[d] \in Seq(Taps) /\ queue[d][k] \in Taps
    BY DEF TypeOK
  <2>2. queue[d][k] # t
    BY <1>1, NotQueued
  <2>3. queue'[d] = IF d = e THEN Append(queue[d], t) ELSE queue[d]
    BY <1>1, <1>2 DEF TypeOK
  <2> QED
    BY <2>1, <2>2, <2>3
<1>4. \A d \in Devices : \A k \in 1..Len(queue'[d]) :
        k \notin 1..Len(queue[d]) => d = e /\ k = Len(queue[e]) + 1 /\ queue'[d][k] = t
  BY <1>1, <1>2 DEF TypeOK
<1>5. QueueInv'
  <2> SUFFICES ASSUME NEW d \in Devices, NEW k \in 1..Len(queue'[d])
               PROVE  /\ req[queue'[d][k]].dev = d
                      /\ phase'[queue'[d][k]] \in {"writing", "lost"}
                      /\ restarts[d] = 0 => phase'[queue'[d][k]] = "writing"
                      /\ \A j \in 1..Len(queue'[d]) :
                           queue'[d][j] = queue'[d][k] => j = k
    BY <1>2 DEF QueueInv
  <2>1. CASE k \in 1..Len(queue[d])
    <3>1. \A j \in 1..Len(queue'[d]) : queue'[d][j] = queue'[d][k] => j = k
      BY <2>1, <1>3, <1>4 DEF RestInv, QueueInv
    <3>2. phase'[queue'[d][k]] = phase[queue[d][k]]
      BY <2>1, <1>2, <1>3 DEF TypeOK
    <3> QED
      BY <2>1, <1>3, <3>1, <3>2 DEF RestInv, QueueInv
  <2>2. CASE k \notin 1..Len(queue[d])
    <3>1. \A j \in 1..Len(queue'[d]) : queue'[d][j] = queue'[d][k] => j = k
      BY <2>2, <1>3, <1>4
    <3>2. phase'[t] = "writing"
      BY <1>2 DEF TypeOK
    <3> QED
      BY <2>2, <1>4, <3>1, <3>2
  <2> QED
    BY <2>1, <2>2
<1>6. \A d \in Devices : \A k \in 1..committed[d] : k \in 1..Len(queue[d])
  BY DEF TypeOK
<1>7. CommittedInv'
  BY <1>2, <1>3, <1>6 DEF RestInv, CommittedInv
<1>8. CacheInv'
  <2> SUFFICES ASSUME NEW d \in Devices, NEW f \in Fields,
                      restarts[d] = 0, writer[f] \in {None, d}, NoneApplied(d, f)'
               PROVE  cache[d][f] = doc[f]
    BY <1>2 DEF CacheInv
  <2>1. NoneApplied(d, f)
    BY <1>2, <1>3 DEF NoneApplied
  <2> QED
    BY <2>1 DEF RestInv, CacheInv
<1>9. DocInv'
  <2> SUFFICES ASSUME NEW d \in Devices, NEW f \in Fields,
                      NEW k \in 1..committed[d],
                      writer[f] = d, LastCommitted(d, f, k)'
               PROVE  doc[f] = list'[queue'[d][k]]
    BY <1>2 DEF DocInv
  <2>1. LastCommitted(d, f, k)
    BY <1>2, <1>3, <1>6 DEF LastCommitted
  <2>2. list'[queue'[d][k]] = list[queue[d][k]]
    BY <1>2, <1>3, <1>6
  <2> QED
    BY <2>1, <2>2 DEF RestInv, DocInv
<1> QED
  BY <1>5, <1>7, <1>8, <1>9 DEF RestInv

LEMMA AtRestCommit ==
  ASSUME TypeOK, RestInv, NEW e \in Devices, Commit(e)
  PROVE  RestInv'
<1> DEFINE n == committed[e] + 1
           t == queue[e][n]
           g == req[t].field
<1>1. n \in 1..Len(queue[e]) /\ committed[e] \in Nat
  BY DEF Commit, Sendable, TypeOK
<1>2. t \in Taps /\ g \in Fields
  BY <1>1, QueuedRequest DEF Requests
<1>3. /\ UNCHANGED <<queue, cache, req, list, phase, restarts>>
      /\ doc' = [doc EXCEPT ![g] = list[t]]
      /\ writer' = [writer EXCEPT ![g] = e]
      /\ applied' = applied \cup {t}
      /\ committed' = [committed EXCEPT ![e] = n]
  BY DEF Commit, envVars
<1>4. /\ doc'[g] = list[t] /\ writer'[g] = e
      /\ \A f \in Fields : f # g => doc'[f] = doc[f] /\ writer'[f] = writer[f]
      /\ committed'[e] = n
      /\ \A d \in Devices : d # e => committed'[d] = committed[d]
  BY <1>2, <1>3 DEF TypeOK
<1>9. \A d \in Devices :
        /\ committed[d] \in Nat /\ committed'[d] \in Nat
        /\ committed[d] <= committed'[d] /\ committed'[d] <= Len(queue[d])
  <2> SUFFICES ASSUME NEW d \in Devices
               PROVE  /\ committed[d] \in Nat /\ committed'[d] \in Nat
                      /\ committed[d] <= committed'[d]
                      /\ committed'[d] <= Len(queue[d])
    OBVIOUS
  <2>1. committed[d] \in Nat /\ committed[d] <= Len(queue[d])
    BY DEF TypeOK
  <2> QED
    BY <1>1, <1>4, <2>1
<1> HIDE DEF n, t, g
<1>5. QueueInv'
  BY <1>3 DEF RestInv, QueueInv
<1>6. CommittedInv'
  <2> SUFFICES ASSUME NEW d \in Devices, NEW k \in 1..committed'[d]
               PROVE  queue[d][k] \in applied' /\ writer'[req[queue[d][k]].field] # None
    BY <1>3 DEF CommittedInv
  <2>1. k \in 1..Len(queue[d])
    BY <1>9 DEF TypeOK
  <2>2. req[queue[d][k]].field \in Fields
    BY <2>1, QueuedRequest DEF Requests
  <2>3. CASE d = e /\ k = n
    BY <1>3, <1>4, <2>3, NoneAssumption DEF t, g
  <2>4. CASE ~(d = e /\ k = n)
    <3>1. k \in 1..committed[d]
      BY <1>1, <1>4, <2>4 DEF n, TypeOK
    <3>2. queue[d][k] \in applied /\ writer[req[queue[d][k]].field] # None
      BY <3>1 DEF RestInv, CommittedInv
    <3> QED
      BY <1>3, <1>4, <2>2, <3>2, NoneAssumption
  <2> QED
    BY <2>3, <2>4
<1>7. CacheInv'
  <2> SUFFICES ASSUME NEW d \in Devices, NEW f \in Fields,
                      restarts[d] = 0, writer'[f] \in {None, d}, NoneApplied(d, f)'
               PROVE  cache[d][f] = doc'[f]
    BY <1>3 DEF CacheInv
  <2>1. f # g
    <3> SUFFICES ASSUME f = g PROVE FALSE
      OBVIOUS
    <3>1. d = e
      BY <1>4, NoneAssumption
    <3>2. t \notin applied'
      BY <1>1, <1>3, <3>1 DEF NoneApplied, t, g
    <3> QED
      BY <1>3, <3>2
  <2>2. NoneApplied(d, f)
    BY <1>3 DEF NoneApplied
  <2> QED
    BY <1>4, <2>1, <2>2 DEF RestInv, CacheInv
<1>8. DocInv'
  <2> SUFFICES ASSUME NEW d \in Devices, NEW f \in Fields,
                      NEW k \in 1..committed'[d],
                      writer'[f] = d, LastCommitted(d, f, k)'
               PROVE  doc'[f] = list[queue[d][k]]
    BY <1>3 DEF DocInv
  <2>1. CASE f = g
    <3>1. d = e
      BY <1>4, <2>1
    <3>2. k = n
      <4>1. n \in 1..committed'[d] /\ req[queue[d][n]].field = g
        BY <1>1, <1>4, <3>1 DEF n, t, g
      <4>2. ~(n > k)
        BY <1>3, <2>1, <4>1 DEF LastCommitted
      <4> QED
        BY <1>1, <1>4, <3>1, <4>2 DEF n
    <3> QED
      BY <1>4, <2>1, <3>1, <3>2 DEF t
  <2>2. CASE f # g
    <3>1. k \in 1..committed[d]
      <4>1. ~(d = e /\ k = n)
        BY <1>3, <2>2 DEF LastCommitted, t, g
      <4> QED
        BY <1>1, <1>4, <4>1 DEF n, TypeOK
    <3>2. \A j \in 1..committed[d] : j \in 1..committed'[d]
      BY <1>9
    <3>3. LastCommitted(d, f, k)
      BY <1>3, <3>2 DEF LastCommitted
    <3> QED
      BY <1>4, <2>2, <3>1, <3>3 DEF RestInv, DocInv
  <2> QED
    BY <2>1, <2>2
<1> QED
  BY <1>5, <1>6, <1>7, <1>8 DEF RestInv

(* A stream that starts over forgets what it had committed, no more.       *)
LEMMA AtRestReset ==
  ASSUME TypeOK, RestInv, NEW e \in Devices, StreamReset(e)
  PROVE  RestInv'
<1>1. /\ UNCHANGED <<doc, queue, cache, phase, req, list, applied, writer, restarts>>
      /\ committed' = [committed EXCEPT ![e] = 0]
  BY DEF StreamReset, ghostVars
<1>2. \A d \in Devices : committed'[d] = IF d = e THEN 0 ELSE committed[d]
  BY <1>1 DEF TypeOK
<1>3. QueueInv'
  BY <1>1 DEF RestInv, QueueInv
<1>4. CommittedInv'
  BY <1>1, <1>2 DEF RestInv, CommittedInv
<1>5. CacheInv'
  BY <1>1 DEF RestInv, CacheInv, NoneApplied
<1>6. DocInv'
  BY <1>1, <1>2 DEF RestInv, DocInv, LastCommitted
<1> QED
  BY <1>3, <1>4, <1>5, <1>6 DEF RestInv

LEMMA AtRestRestart ==
  ASSUME TypeOK, RestInv, NEW e \in Devices, Restart(e)
  PROVE  RestInv'
<1>1. /\ UNCHANGED <<doc, queue, cache, req, list, applied, writer>>
      /\ committed' = [committed EXCEPT ![e] = 0]
      /\ restarts' = [restarts EXCEPT ![e] = @ + 1]
      /\ phase' = [t \in Taps |-> IF InFlight(t) /\ req[t].dev = e
                                  THEN "lost" ELSE phase[t]]
  BY DEF Restart, ghostVars
<1>2. \A d \in Devices :
        /\ committed'[d] = IF d = e THEN 0 ELSE committed[d]
        /\ restarts'[d] = IF d = e THEN restarts[d] + 1 ELSE restarts[d]
        /\ restarts[d] \in Nat
  BY <1>1, BoundsAssumption DEF TypeOK
<1>3. QueueInv'
  <2> SUFFICES ASSUME NEW d \in Devices, NEW k \in 1..Len(queue[d])
               PROVE  /\ phase'[queue[d][k]] \in {"writing", "lost"}
                      /\ restarts'[d] = 0 => phase'[queue[d][k]] = "writing"
    BY <1>1 DEF RestInv, QueueInv
  <2>1. /\ queue[d][k] \in Taps /\ req[queue[d][k]].dev = d
        /\ phase[queue[d][k]] \in {"writing", "lost"}
        /\ restarts[d] = 0 => phase[queue[d][k]] = "writing"
    BY DEF RestInv, QueueInv, TypeOK
  <2> QED
    BY <1>1, <1>2, <2>1
<1>4. CommittedInv'
  BY <1>1, <1>2 DEF RestInv, CommittedInv
<1>5. CacheInv'
  BY <1>1, <1>2 DEF RestInv, CacheInv, NoneApplied
<1>6. DocInv'
  BY <1>1, <1>2 DEF RestInv, DocInv, LastCommitted
<1> QED
  BY <1>3, <1>4, <1>5, <1>6 DEF RestInv

(* The oldest write leaves the queue, refused or acknowledged: the other   *)
(* entries move up one place and keep what is said of them.                *)
LEMMA QueuePop ==
  ASSUME TypeOK, RestInv, NEW e \in Devices, queue[e] # <<>>,
         queue' = [queue EXCEPT ![e] = Tail(@)], UNCHANGED <<req, restarts>>,
         \A u \in Taps : u # queue[e][1] => phase'[u] = phase[u]
  PROVE  /\ QueueInv'
         /\ 1 \in 1..Len(queue[e]) /\ Head(queue[e]) = queue[e][1]
         /\ \A d \in Devices : d # e => queue'[d] = queue[d]
         /\ \A k \in 1..Len(queue[e]) : k # 1 =>
              k - 1 \in 1..Len(queue'[e]) /\ queue'[e][k - 1] = queue[e][k]
         /\ \A k \in 1..Len(queue'[e]) :
              k + 1 \in 1..Len(queue[e]) /\ queue'[e][k] = queue[e][k + 1]
<1> DEFINE t == queue[e][1]
<1>1. queue[e] \in Seq(Taps) /\ Len(queue[e]) \in Nat /\ Len(queue[e]) >= 1
  BY DEF TypeOK
<1>2. queue'[e] = Tail(queue[e])
  BY DEF TypeOK
<1>3. \A d \in Devices : d # e => queue'[d] = queue[d]
  BY DEF TypeOK
<1>9. /\ Len(queue'[e]) = Len(queue[e]) - 1
      /\ \A k \in 1..Len(queue[e]) - 1 : queue'[e][k] = queue[e][k + 1]
  BY <1>1, <1>2, queue[e] # <<>>, HeadTailProperties
<1>4. ASSUME NEW k \in 1..Len(queue'[e])
      PROVE  k + 1 \in 1..Len(queue[e]) /\ queue'[e][k] = queue[e][k + 1]
  BY <1>1, <1>9, <1>4
<1>5. ASSUME NEW k \in 1..Len(queue[e]), k # 1
      PROVE  k - 1 \in 1..Len(queue'[e]) /\ queue'[e][k - 1] = queue[e][k]
  <2>1. k - 1 \in 1..Len(queue[e]) - 1 /\ (k - 1) + 1 = k
    BY <1>1, <1>5
  <2> QED
    BY <1>9, <2>1
<1>6. 1 \in 1..Len(queue[e]) /\ Head(queue[e]) = queue[e][1]
  BY <1>1
<1>7. req[t].dev = e
  BY <1>6 DEF RestInv, QueueInv
<1>8. QueueInv'
  <2> SUFFICES ASSUME NEW d \in Devices, NEW k \in 1..Len(queue'[d])
               PROVE  /\ req'[queue'[d][k]].dev = d
                      /\ phase'[queue'[d][k]] \in {"writing", "lost"}
                      /\ restarts'[d] = 0 => phase'[queue'[d][k]] = "writing"
                      /\ \A j \in 1..Len(queue'[d]) :
                           queue'[d][j] = queue'[d][k] => j = k
    BY DEF QueueInv
  <2>1. CASE d = e
    <3>1. /\ k + 1 \in 1..Len(queue[e]) /\ queue'[e][k] = queue[e][k + 1]
          /\ k \in Nat /\ k >= 1
      BY <1>4, <2>1
    <3>2. queue[e][k + 1] # t /\ queue[e][k + 1] \in Taps
      <4>1. queue[e][k + 1] = t => k + 1 = 1
        BY <1>6, <3>1 DEF RestInv, QueueInv
      <4> QED
        BY <1>1, <3>1, <4>1
    <3>3. phase'[queue'[d][k]] = phase[queue[e][k + 1]]
      BY <2>1, <3>1, <3>2
    <3>4. \A j \in 1..Len(queue'[e]) : queue'[e][j] = queue'[e][k] => j = k
      <4> SUFFICES ASSUME NEW j \in 1..Len(queue'[e]), queue'[e][j] = queue'[e][k]
                   PROVE  j = k
        OBVIOUS
      <4>1. j + 1 \in 1..Len(queue[e]) /\ queue[e][j + 1] = queue[e][k + 1]
        BY <1>4, <3>1
      <4>2. j + 1 = k + 1
        BY <3>1, <4>1 DEF RestInv, QueueInv
      <4> QED
        BY <3>1, <4>2
    <3> QED
      BY <2>1, <3>1, <3>3, <3>4 DEF RestInv, QueueInv
  <2>2. CASE d # e
    <3>1. k \in 1..Len(queue[d]) /\ queue'[d] = queue[d] /\ queue[d][k] \in Taps
      BY <1>3, <2>2 DEF TypeOK
    <3>2. queue[d][k] # t
      BY <1>7, <2>2, <3>1 DEF RestInv, QueueInv
    <3>3. phase'[queue'[d][k]] = phase[queue[d][k]]
      BY <3>1, <3>2
    <3> QED
      BY <3>1, <3>3 DEF RestInv, QueueInv
  <2> QED
    BY <2>1, <2>2
<1> QED
  BY <1>3, <1>4, <1>5, <1>6, <1>8

LEMMA AtRestReject ==
  ASSUME TypeOK, RestInv, NEW e \in Devices, Reject(e)
  PROVE  RestInv'
<1> DEFINE t == queue[e][1]
<1>1. /\ UNCHANGED <<doc, committed, cache, req, list, applied, writer, restarts>>
      /\ queue[e] # <<>> /\ committed[e] = 0 /\ Head(queue[e]) \notin applied
      /\ queue' = [queue EXCEPT ![e] = Tail(@)]
      /\ phase' = Completed(Head(queue[e]), "failed")
  BY DEF Reject, ghostVars, envVars
<1>2. Head(queue[e]) = t
  BY <1>1 DEF TypeOK
<1>3. \A u \in Taps : u # t => phase'[u] = phase[u]
  BY <1>1, <1>2 DEF Completed, TypeOK
<1>4. /\ QueueInv'
      /\ \A d \in Devices : d # e => queue'[d] = queue[d]
      /\ \A k \in 1..Len(queue[e]) : k # 1 =>
           k - 1 \in 1..Len(queue'[e]) /\ queue'[e][k - 1] = queue[e][k]
  BY <1>1, <1>3, QueuePop
<1>5. \A d \in Devices : \A k \in 1..committed[d] : d # e
  BY <1>1
<1>6. CommittedInv'
  BY <1>1, <1>4, <1>5 DEF RestInv, CommittedInv
<1>7. CacheInv'
  <2> SUFFICES ASSUME NEW d \in Devices, NEW f \in Fields,
                      restarts[d] = 0, writer[f] \in {None, d}, NoneApplied(d, f)'
               PROVE  cache[d][f] = doc[f]
    BY <1>1 DEF CacheInv
  <2>1. ASSUME NEW k \in 1..Len(queue[d]), req[queue[d][k]].field = f
        PROVE  queue[d][k] \notin applied
    <3>1. CASE d = e /\ k = 1
      BY <1>1, <1>2, <3>1
    <3>2. CASE d = e /\ k # 1
      <4>1. k - 1 \in 1..Len(queue'[e]) /\ queue'[e][k - 1] = queue[e][k]
        BY <1>4, <3>2
      <4>2. \A i \in 1..Len(queue'[d]) :
              req[queue'[d][i]].field = f => queue'[d][i] \notin applied
        <5>1. req' = req /\ applied' = applied
          BY <1>1
        <5> QED
          BY <5>1 DEF NoneApplied
      <4> QED
        BY <2>1, <3>2, <4>1, <4>2
    <3>3. CASE d # e
      BY <1>1, <1>4, <2>1, <3>3 DEF NoneApplied
    <3> QED
      BY <3>1, <3>2, <3>3
  <2> QED
    BY <2>1 DEF RestInv, CacheInv, NoneApplied
<1>8. DocInv'
  BY <1>1, <1>4, <1>5 DEF RestInv, DocInv, LastCommitted
<1> QED
  BY <1>4, <1>6, <1>7, <1>8 DEF RestInv

LEMMA AtRestAck ==
  ASSUME TypeOK, RestInv, NEW e \in Devices, Ack(e)
  PROVE  RestInv'
<1> DEFINE t == queue[e][1]
           g == req[t].field
<1>1. /\ UNCHANGED <<doc, req, list, applied, writer, restarts>>
      /\ queue' = [queue EXCEPT ![e] = Tail(@)]
      /\ committed' = [committed EXCEPT ![e] = @ - 1]
  BY DEF Ack, ghostVars, envVars
<1>2. /\ committed[e] \in Nat /\ committed[e] >= 1
      /\ committed[e] <= Len(queue[e]) /\ queue[e] # <<>>
  BY DEF Ack, TypeOK
<1>3. Head(queue[e]) = t /\ t \in Taps /\ 1 \in 1..Len(queue[e])
  BY <1>2 DEF TypeOK
<1>4. g \in Fields
  BY <1>3, QueuedRequest DEF Requests
<1>5. /\ phase' = Completed(t, "done")
      /\ cache' = IF phase[t] = "writing"
                  THEN [cache EXCEPT ![e][g] = list[t]] ELSE cache
  BY <1>3 DEF Ack
<1>6. \A u \in Taps : u # t => phase'[u] = phase[u]
  BY <1>5 DEF Completed, TypeOK
<1>7. /\ QueueInv'
      /\ \A d \in Devices : d # e => queue'[d] = queue[d]
      /\ \A k \in 1..Len(queue[e]) : k # 1 =>
           k - 1 \in 1..Len(queue'[e]) /\ queue'[e][k - 1] = queue[e][k]
      /\ \A k \in 1..Len(queue'[e]) :
           k + 1 \in 1..Len(queue[e]) /\ queue'[e][k] = queue[e][k + 1]
  BY <1>1, <1>2, <1>6, QueuePop
<1>8. /\ committed'[e] = committed[e] - 1
      /\ \A d \in Devices : d # e => committed'[d] = committed[d]
      /\ \A d \in Devices : committed[d] \in Nat /\ committed[d] <= Len(queue[d])
  BY <1>1 DEF TypeOK
<1>9. /\ restarts[e] = 0 => cache'[e][g] = list[t]
      /\ \A d \in Devices, f \in Fields :
           ~(d = e /\ f = g) => cache'[d][f] = cache[d][f]
  <2>1. restarts[e] = 0 => phase[t] = "writing"
    BY <1>3 DEF RestInv, QueueInv
  <2>2. cache \in [Devices -> [Fields -> Lists]]
    BY DEF TypeOK
  <2> QED
    BY <1>4, <1>5, <2>1, <2>2
<1> HIDE DEF t, g
(* Every entry the stream still counts as committed was so before.         *)
<1>10. \A k \in 1..committed'[e] :
         /\ k + 1 \in 1..committed[e] /\ k \in 1..Len(queue'[e])
         /\ queue'[e][k] = queue[e][k + 1]
  <2> SUFFICES ASSUME NEW k \in 1..committed'[e]
               PROVE  /\ k + 1 \in 1..committed[e] /\ k \in 1..Len(queue'[e])
                      /\ queue'[e][k] = queue[e][k + 1]
    OBVIOUS
  <2>1. k + 1 \in 1..committed[e] /\ k + 1 \in 1..Len(queue[e]) /\ k + 1 # 1
        /\ (k + 1) - 1 = k
    BY <1>2, <1>8
  <2>2. k \in 1..Len(queue'[e])
    BY <1>7, <2>1
  <2> QED
    BY <1>7, <2>1, <2>2
<1>11. CommittedInv'
  BY <1>1, <1>7, <1>8, <1>10 DEF RestInv, CommittedInv
<1>12. CacheInv'
  <2> SUFFICES ASSUME NEW d \in Devices, NEW f \in Fields,
                      restarts[d] = 0, writer[f] \in {None, d}, NoneApplied(d, f)'
               PROVE  cache'[d][f] = doc[f]
    BY <1>1 DEF CacheInv
  <2>1. CASE d = e /\ f = g
    <3>1. 1 \in 1..committed[e]
      BY <1>2
    <3>2. writer[g] # None
      BY <3>1 DEF RestInv, CommittedInv, t, g
    <3>3. LastCommitted(e, g, 1)
      <4> SUFFICES ASSUME NEW j \in 1..committed[e], j > 1,
                          req[queue[e][j]].field = g
                   PROVE  FALSE
        BY DEF LastCommitted, t, g
      <4>1. j \in 1..Len(queue[e]) /\ j # 1
        BY <1>8
      <4>2. queue[e][j] \in applied
        BY DEF RestInv, CommittedInv
      <4>3. j - 1 \in 1..Len(queue'[e]) /\ queue'[e][j - 1] = queue[e][j]
        BY <1>7, <4>1
      <4>4. \A i \in 1..Len(queue'[d]) :
              req[queue'[d][i]].field = f => queue'[d][i] \notin applied
        <5>1. req' = req /\ applied' = applied
          BY <1>1
        <5> QED
          BY <5>1 DEF NoneApplied
      <4> QED
        BY <2>1, <4>2, <4>3, <4>4
    <3>4. doc[g] = list[t]
      BY <1>4, <2>1, <3>1, <3>2, <3>3 DEF RestInv, DocInv, t
    <3> QED
      BY <1>9, <2>1, <3>4
  <2>2. CASE ~(d = e /\ f = g)
    <3>1. ASSUME NEW k \in 1..Len(queue[d]), req[queue[d][k]].field = f
          PROVE  queue[d][k] \notin applied
      <4>1. CASE d = e
        <5>1. k # 1
          BY <2>2, <3>1, <4>1 DEF t, g
        <5> QED
          BY <1>1, <1>7, <3>1, <4>1, <5>1 DEF NoneApplied
      <4>2. CASE d # e
        BY <1>1, <1>7, <3>1, <4>2 DEF NoneApplied
      <4> QED
        BY <4>1, <4>2
    <3> QED
      BY <1>9, <2>2, <3>1 DEF RestInv, CacheInv, NoneApplied
  <2> QED
    BY <2>1, <2>2
<1>13. DocInv'
  <2> SUFFICES ASSUME NEW d \in Devices, NEW f \in Fields,
                      NEW k \in 1..committed'[d],
                      writer[f] = d, LastCommitted(d, f, k)'
               PROVE  doc[f] = list[queue'[d][k]]
    BY <1>1 DEF DocInv
  <2>1. CASE d = e
    <3>1. k + 1 \in 1..committed[e] /\ queue'[e][k] = queue[e][k + 1]
      BY <1>10, <2>1
    <3>2. LastCommitted(e, f, k + 1)
      <4> SUFFICES ASSUME NEW j \in 1..committed[e], j > k + 1
                   PROVE  req[queue[e][j]].field # f
        BY <1>1, <2>1, <3>1 DEF LastCommitted
      <4>1. j - 1 \in 1..committed'[e] /\ j - 1 > k /\ (j - 1) + 1 = j
        BY <1>2, <1>8, <2>1
      <4>2. queue'[e][j - 1] = queue[e][j]
        BY <1>10, <4>1
      <4> QED
        BY <1>1, <2>1, <4>1, <4>2 DEF LastCommitted
    <3> QED
      BY <2>1, <3>1, <3>2 DEF RestInv, DocInv
  <2>2. CASE d # e
    BY <1>1, <1>7, <1>8, <2>2 DEF RestInv, DocInv, LastCommitted
  <2> QED
    BY <2>1, <2>2
<1> QED
  BY <1>7, <1>11, <1>12, <1>13 DEF RestInv

LEMMA AtRestStep == TypeOK /\ RestInv /\ [Next]_vars => RestInv'
<1> SUFFICES ASSUME TypeOK, RestInv, [Next]_vars PROVE RestInv'
  OBVIOUS
<1>1. ASSUME NEW t \in Taps, NEW d \in Devices, NEW f \in Fields,
             NEW i \in Items, Tap(t, d, f, i)
      PROVE  RestInv'
  <2>1. \A u \in Taps : u # t => req'[u] = req[u] /\ phase'[u] = phase[u]
    BY <1>1 DEF Tap, TypeOK
  <2>2. \A e \in Devices : \A k \in 1..Len(queue[e]) :
          queue[e][k] \in Taps /\ queue[e][k] # t
    BY <1>1, NotQueued DEF Tap, TypeOK
  <2> QED
    BY <1>1, <2>1, <2>2, AtRestFrame DEF Tap, sdkVars, ghostVars, envVars
<1>2. ASSUME NEW t \in Taps,
             SnapshotOnline(t) \/ SnapshotOffline(t) \/ GetFails(t)
      PROVE  RestInv'
  <2>1. \A u \in Taps : u # t => list'[u] = list[u] /\ phase'[u] = phase[u]
    BY <1>2 DEF SnapshotOnline, SnapshotOffline, GetFails, TypeOK
  <2>2. \A e \in Devices : \A k \in 1..Len(queue[e]) :
          queue[e][k] \in Taps /\ queue[e][k] # t
    <3>1. phase[t] = "getting"
      BY <1>2 DEF SnapshotOnline, SnapshotOffline, GetFails
    <3>2. phase[t] \notin {"writing", "lost"}
      BY <3>1
    <3>3. \A e \in Devices : \A k \in 1..Len(queue[e]) : queue[e][k] # t
      BY <3>2, NotQueued
    <3> QED
      BY <3>3 DEF TypeOK
  <2>3. UNCHANGED <<doc, queue, committed, cache, req, applied, writer, restarts>>
    BY <1>2 DEF SnapshotOnline, SnapshotOffline, GetFails, sdkVars, ghostVars, envVars
  <2> QED
    BY <2>1, <2>2, <2>3, AtRestFrame
<1>3. ASSUME NEW t \in Taps, Callback(t) PROVE RestInv'
  BY <1>3, AtRestCallback
<1>4. ASSUME NEW d \in Devices, DeviceStep(d) PROVE RestInv'
  BY <1>4, AtRestCommit, AtRestAck, AtRestReject, AtRestReset, AtRestRestart
  DEF DeviceStep
<1>5. CASE UNCHANGED vars
  BY <1>5, AtRestFrame DEF vars, sdkVars, ghostVars, envVars
<1> QED
  BY <1>1, <1>2, <1>3, <1>4, <1>5 DEF Next, TapStep

(* On a device that was not restarted, once nothing of a list is under way *)
(* and unless another device wrote it since, appUser and the server agree. *)
THEOREM ButtonTellsTruth == Spec => []AtRestAgreement
<1>1. Init => TypeOK /\ RestInv
  BY TypeInit, AtRestInit
<1>2. (TypeOK /\ RestInv) /\ [Next]_vars => (TypeOK /\ RestInv)'
  BY TypeStep, AtRestStep
<1>3. TypeOK /\ RestInv => AtRestAgreement
  <2> SUFFICES ASSUME TypeOK, RestInv, NEW d \in Devices, NEW f \in Fields,
                      restarts[d] = 0, Quiet(d, f), writer[f] \in {None, d}
               PROVE  cache[d][f] = doc[f]
    BY DEF AtRestAgreement
  <2>1. NoneApplied(d, f)
    BY DEF NoneApplied, Quiet
  <2> QED
    BY <2>1 DEF RestInv, CacheInv
<1> QED
  BY <1>1, <1>2, <1>3, PTL DEF Spec

-----------------------------------------------------------------------------
(* Where the entries of a list go.                                         *)

(* Where an entry of a list goes when the first entry equal to e is taken  *)
(* out: one entry at most disappears, and it is equal to e.                *)
LEMMA RemoveFirstEntries ==
  ASSUME NEW S, NEW s \in Seq(S), NEW e
  PROVE  \/ /\ ~Contains(s, e) /\ RemoveFirst(s, e) = s
         \/ \E m \in 1..Len(s) :
              /\ s[m] = e
              /\ Len(RemoveFirst(s, e)) = Len(s) - 1
              /\ \A i \in 1..(m - 1) : RemoveFirst(s, e)[i] = s[i]
              /\ \A i \in m..(Len(s) - 1) : RemoveFirst(s, e)[i] = s[i + 1]
<1> DEFINE I == {i \in 1..Len(s) : s[i] = e}
<1>1. CASE I = {}
  BY <1>1 DEF RemoveFirst, Contains
<1>2. CASE I # {}
  <2>1. Min(I) \in I
    <3>1. I \in SUBSET Nat
      OBVIOUS
    <3> HIDE DEF I
    <3> QED
      BY <1>2, <3>1, MinOfNat
  <2>2. RemoveFirst(s, e) = RemoveAt(s, Min(I))
    BY <1>2 DEF RemoveFirst, SelectInSeq
  <2>3. PICK m \in 1..Len(s) : s[m] = e /\ RemoveFirst(s, e) = RemoveAt(s, m)
    BY <2>1, <2>2
  <2> DEFINE a == SubSeq(s, 1, m - 1)
             b == SubSeq(s, m + 1, Len(s))
  <2>4. /\ a \in Seq(S) /\ Len(a) = m - 1
        /\ \A i \in 1..(m - 1) : a[i] = s[i]
    <3>1. m - 1 \in 0..Len(s) /\ 1 \in 1..(Len(s) + 1)
      OBVIOUS
    <3> QED
      BY <3>1, SubSeqProperties
  <2>5. /\ b \in Seq(S) /\ Len(b) = Len(s) - m
        /\ \A i \in 1..(Len(s) - m) : b[i] = s[m + i]
    <3>1. m + 1 \in 1..(Len(s) + 1) /\ Len(s) \in 0..Len(s)
      OBVIOUS
    <3> QED
      BY <3>1, SubSeqProperties
  <2>6. RemoveFirst(s, e) = a \o b
    BY <2>3 DEF RemoveAt
  <2> HIDE DEF a, b
  <2>7. /\ Len(RemoveFirst(s, e)) = Len(s) - 1
        /\ \A i \in 1..(Len(s) - 1) :
             RemoveFirst(s, e)[i] = IF i <= m - 1 THEN a[i] ELSE b[i - (m - 1)]
    <3>1. (m - 1) + (Len(s) - m) = Len(s) - 1
      OBVIOUS
    <3>2. /\ Len(a \o b) = Len(a) + Len(b)
          /\ \A i \in 1..(Len(a) + Len(b)) :
               (a \o b)[i] = IF i <= Len(a) THEN a[i] ELSE b[i - Len(a)]
      BY <2>4, <2>5, ConcatProperties
    <3> QED
      BY <2>4, <2>5, <2>6, <3>1, <3>2
  <2>8. \A i \in 1..(m - 1) : RemoveFirst(s, e)[i] = s[i]
    BY <2>4, <2>7
  <2>9. \A i \in m..(Len(s) - 1) : RemoveFirst(s, e)[i] = s[i + 1]
    <3> SUFFICES ASSUME NEW i \in m..(Len(s) - 1) PROVE RemoveFirst(s, e)[i] = s[i + 1]
      OBVIOUS
    <3>1. RemoveFirst(s, e)[i] = b[i - (m - 1)]
      BY <2>7
    <3>2. i - (m - 1) \in 1..(Len(s) - m) /\ m + (i - (m - 1)) = i + 1
      OBVIOUS
    <3> QED
      BY <2>5, <3>1, <3>2
  <2> QED
    BY <2>3, <2>7, <2>8, <2>9
<1> QED
  BY <1>1, <1>2

(* Every other entry is kept.                                              *)
LEMMA RemoveFirstKeeps ==
  ASSUME NEW S, NEW s \in Seq(S), NEW e, NEW p, Contains(s, p), p # e
  PROVE  Contains(RemoveFirst(s, e), p)
<1>1. CASE RemoveFirst(s, e) = s
  BY <1>1
<1>2. ASSUME NEW m \in 1..Len(s), s[m] = e,
             Len(RemoveFirst(s, e)) = Len(s) - 1,
             \A i \in 1..(m - 1) : RemoveFirst(s, e)[i] = s[i],
             \A i \in m..(Len(s) - 1) : RemoveFirst(s, e)[i] = s[i + 1]
      PROVE  Contains(RemoveFirst(s, e), p)
  <2>1. PICK i \in 1..Len(s) : s[i] = p
    BY DEF Contains
  <2>2. i # m
    BY <1>2, <2>1
  <2>3. CASE i < m
    <3>1. i \in 1..(m - 1) /\ i \in 1..(Len(s) - 1)
      BY <2>3
    <3> QED
      BY <1>2, <2>1, <3>1 DEF Contains
  <2>4. CASE i > m
    <3>1. i - 1 \in m..(Len(s) - 1) /\ i - 1 \in 1..(Len(s) - 1) /\ (i - 1) + 1 = i
      BY <2>4
    <3>2. RemoveFirst(s, e)[i - 1] = p
      BY <1>2, <2>1, <3>1
    <3> QED
      BY <1>2, <3>1, <3>2 DEF Contains
  <2> QED
    BY <2>2, <2>3, <2>4
<1> QED
  BY <1>1, <1>2, RemoveFirstEntries

(* A list without an entry twice loses the entry that is taken out, and    *)
(* still has none twice.                                                   *)
LEMMA RemoveFirstInjective ==
  ASSUME NEW S, NEW s \in Seq(S), NEW e, IsInjective(s)
  PROVE  IsInjective(RemoveFirst(s, e)) /\ ~Contains(RemoveFirst(s, e), e)
<1> DEFINE r == RemoveFirst(s, e)
<1>1. CASE ~Contains(s, e) /\ r = s
  BY <1>1
<1>2. ASSUME NEW m \in 1..Len(s), s[m] = e, Len(r) = Len(s) - 1,
             \A i \in 1..(m - 1) : r[i] = s[i],
             \A i \in m..(Len(s) - 1) : r[i] = s[i + 1]
      PROVE  IsInjective(r) /\ ~Contains(r, e)
  <2>1. r \in Seq(S) /\ DOMAIN r = 1..(Len(s) - 1) /\ DOMAIN s = 1..Len(s)
    BY <1>2, RemoveFirstType
  <2> HIDE DEF r
  <2>2. \A a, b \in 1..Len(s) : s[a] = s[b] => a = b
    BY <2>1 DEF IsInjective
  <2> DEFINE was(i) == IF i < m THEN i ELSE i + 1
  <2>3. \A i \in 1..(Len(s) - 1) : was(i) \in 1..Len(s) /\ was(i) # m /\ r[i] = s[was(i)]
    BY <1>2
  <2>4. \A i, j \in 1..(Len(s) - 1) : was(i) = was(j) => i = j
    BY <1>2
  <2> HIDE DEF was
  <2>5. \A i, j \in 1..(Len(s) - 1) : r[i] = r[j] => i = j
    BY <2>2, <2>3, <2>4
  <2>6. \A i \in 1..(Len(s) - 1) : r[i] # e
    BY <1>2, <2>2, <2>3
  <2> QED
    BY <1>2, <2>1, <2>5, <2>6 DEF IsInjective, Contains
<1> QED
  BY <1>1, <1>2, RemoveFirstEntries

(* What is appended is in the list, and so is what was there.              *)
LEMMA AppendEntries ==
  ASSUME NEW S, NEW s \in Seq(S), NEW e \in S, NEW p
  PROVE  /\ Contains(Append(s, e), e)
         /\ Contains(s, p) => Contains(Append(s, e), p)
         /\ IsInjective(s) /\ ~Contains(s, e) => IsInjective(Append(s, e))
<1> DEFINE r == Append(s, e)
<1>1. /\ r \in Seq(S) /\ Len(r) = Len(s) + 1 /\ Len(s) \in Nat
      /\ \A i \in 1..Len(s) : r[i] = s[i]
      /\ r[Len(s) + 1] = e
  BY AppendProperties
<1>2. DOMAIN r = 1..(Len(s) + 1) /\ DOMAIN s = 1..Len(s)
  BY <1>1
<1> HIDE DEF r
<1>3. Contains(r, e)
  BY <1>1 DEF Contains
<1>4. Contains(s, p) => Contains(r, p)
  BY <1>1 DEF Contains
<1>5. ASSUME IsInjective(s), ~Contains(s, e) PROVE IsInjective(r)
  <2>1. \A a, b \in 1..Len(s) : s[a] = s[b] => a = b
    BY <1>2, <1>5 DEF IsInjective
  <2>2. \A a \in 1..Len(s) : s[a] # e
    BY <1>5 DEF Contains
  <2>3. \A a, b \in 1..(Len(s) + 1) : r[a] = r[b] => a = b
    <3> SUFFICES ASSUME NEW a \in 1..(Len(s) + 1), NEW b \in 1..(Len(s) + 1), r[a] = r[b]
                 PROVE  a = b
      OBVIOUS
    <3>1. \A i \in 1..(Len(s) + 1) : i \in 1..Len(s) \/ i = Len(s) + 1
      BY <1>1
    <3> QED
      BY <1>1, <2>1, <2>2, <3>1
  <2> QED
    BY <1>2, <2>3 DEF IsInjective
<1> QED
  BY <1>3, <1>4, <1>5 DEF r

(* What a request leaves in a list and what it puts there.                 *)
LEMMA NewListKeeps ==
  ASSUME NEW r \in Requests, NEW l \in Lists, NEW p, Contains(l, p),
         r.kind = "remove" => r.item # p
  PROVE  Contains(NewList(r, l), p)
<1>1. r.item \in Items /\ r.kind \in {"add", "remove"} /\ l \in Seq(Items)
  BY DEF Requests, Lists
<1>2. CASE r.kind = "add"
  BY <1>1, <1>2, AppendEntries DEF NewList
<1>3. CASE r.kind = "remove"
  BY <1>1, <1>3, RemoveFirstKeeps DEF NewList
<1> QED
  BY <1>1, <1>2, <1>3

LEMMA NewListAdds ==
  ASSUME NEW r \in Requests, NEW l \in Lists, r.kind = "add"
  PROVE  Contains(NewList(r, l), r.item)
<1>1. r.item \in Items /\ l \in Seq(Items)
  BY DEF Requests, Lists
<1> QED
  BY <1>1, AppendEntries DEF NewList

(* A toggle decided on a list without an entry twice keeps it so.          *)
LEMMA NewListInjective ==
  ASSUME NEW r \in Requests, NEW l \in Lists, IsInjective(l),
         r.kind = "add" <=> ~Contains(l, r.item)
  PROVE  /\ IsInjective(NewList(r, l))
         /\ r.kind = "add" <=> Contains(NewList(r, l), r.item)
<1>1. r.item \in Items /\ r.kind \in {"add", "remove"} /\ l \in Seq(Items)
  BY DEF Requests, Lists
<1>2. CASE r.kind = "add"
  BY <1>1, <1>2, AppendEntries DEF NewList
<1>3. CASE r.kind = "remove"
  BY <1>1, <1>3, RemoveFirstInjective DEF NewList
<1> QED
  BY <1>1, <1>2, <1>3

(* What a tap asked for stays, and only tapping puts a tap under way.      *)
LEMMA RequestsStay ==
  ASSUME TypeOK, [Next]_vars, NEW u \in Taps
  PROVE  /\ phase[u] # "untapped" => phase'[u] # "untapped" /\ req'[u] = req[u]
         /\ InFlight(u)' /\ (\A d \in Devices, f \in Fields, i \in Items : ~Tap(u, d, f, i))
              => InFlight(u) /\ req'[u] = req[u]
<1> USE DEF InFlight, Live
<1>1. ASSUME NEW t \in Taps, NEW d \in Devices, NEW f \in Fields, NEW i \in Items,
             Tap(t, d, f, i)
      PROVE  /\ u # t => phase'[u] = phase[u] /\ req'[u] = req[u]
             /\ phase[t] = "untapped"
  BY <1>1 DEF Tap, TypeOK
<1>2. ASSUME NEW t \in Taps, SnapshotOnline(t) \/ SnapshotOffline(t) \/ GetFails(t) \/ Callback(t)
      PROVE  /\ u # t => phase'[u] = phase[u]
             /\ req'[u] = req[u] /\ InFlight(t)
             /\ phase'[t] \in {"got", "failed", "writing"}
  BY <1>2 DEF SnapshotOnline, SnapshotOffline, GetFails, Callback, TypeOK
<1>3. ASSUME NEW d \in Devices, Commit(d) \/ StreamReset(d)
      PROVE  phase'[u] = phase[u] /\ req'[u] = req[u]
  BY <1>3 DEF Commit, StreamReset
<1>4. ASSUME NEW d \in Devices, Ack(d) \/ Reject(d)
      PROVE  /\ req'[u] = req[u]
             /\ phase'[u] = phase[u] \/ (phase[u] = "writing" /\ phase'[u] \in {"done", "failed"})
  <2>1. \E r \in {"done", "failed"} : phase' = Completed(Head(queue[d]), r)
    BY <1>4 DEF Ack, Reject
  <2>2. req' = req
    BY <1>4 DEF Ack, Reject
  <2> QED
    BY <2>1, <2>2 DEF Completed, TypeOK
<1>5. ASSUME NEW d \in Devices, Restart(d)
      PROVE  /\ req'[u] = req[u]
             /\ phase'[u] = phase[u] \/ (phase'[u] = "lost" /\ phase[u] # "untapped")
  BY <1>5 DEF Restart
<1>6. CASE UNCHANGED vars
  BY <1>6 DEF vars
<1> QED
  BY <1>1, <1>2, <1>3, <1>4, <1>5, <1>6 DEF Next, TapStep, DeviceStep

(* The server applies what is written, and an answer finds it written.     *)
AppliedInv == \A t \in applied : phase[t] \in {"writing", "done", "lost"}

LEMMA AppliedStep ==
  ASSUME TypeOK, RestInv, AppliedInv, [Next]_vars
  PROVE  AppliedInv'
<1>1. ASSUME NEW t \in Taps, TapStep(t) PROVE AppliedInv'
  <2>1. applied' = applied /\ phase[t] \in {"untapped", "getting", "got"}
    BY <1>1 DEF TapStep, Tap, SnapshotOnline, SnapshotOffline, GetFails, Callback, ghostVars
  <2>2. \A u \in Taps : u # t => phase'[u] = phase[u]
    BY <1>1 DEF TapStep, Tap, SnapshotOnline, SnapshotOffline, GetFails, Callback, TypeOK
  <2> QED
    BY <2>1, <2>2 DEF AppliedInv, TypeOK
<1>2. ASSUME NEW d \in Devices, Commit(d) PROVE AppliedInv'
  <2>1. committed[d] + 1 \in 1..Len(queue[d])
    BY <1>2 DEF Commit, Sendable, TypeOK
  <2>2. phase[queue[d][committed[d] + 1]] \in {"writing", "lost"}
    BY <2>1 DEF RestInv, QueueInv
  <2> QED
    BY <1>2, <2>2 DEF Commit, AppliedInv
<1>3. ASSUME NEW d \in Devices, Ack(d) \/ Reject(d) PROVE AppliedInv'
  <2>1. CASE Ack(d)
    <3>1. applied' = applied /\ phase' = Completed(Head(queue[d]), "done")
      BY <2>1 DEF Ack, ghostVars
    <3> QED
      BY <3>1 DEF AppliedInv, Completed, TypeOK
  <2>2. CASE Reject(d)
    <3>1. /\ applied' = applied /\ phase' = Completed(Head(queue[d]), "failed")
          /\ Head(queue[d]) \notin applied
      BY <2>2 DEF Reject, ghostVars
    <3> QED
      BY <3>1 DEF AppliedInv, Completed, TypeOK
  <2> QED
    BY <1>3, <2>1, <2>2
<1>4. ASSUME NEW d \in Devices, StreamReset(d) \/ Restart(d) PROVE AppliedInv'
  BY <1>4 DEF StreamReset, Restart, AppliedInv, InFlight, TypeOK, ghostVars
<1>5. CASE UNCHANGED vars
  BY <1>5 DEF vars, ghostVars, AppliedInv
<1> QED
  BY <1>1, <1>2, <1>3, <1>4, <1>5 DEF Next, DeviceStep

(* The invariant all that follows starts from.                             *)
BaseInv == TypeOK /\ RestInv /\ AppliedInv

LEMMA BaseInit == Init => BaseInv
BY TypeInit, AtRestInit DEF BaseInv, AppliedInv, Init

LEMMA BaseStep == BaseInv /\ [Next]_vars => BaseInv'
BY TypeStep, AtRestStep, AppliedStep DEF BaseInv

-----------------------------------------------------------------------------
(* One tap at a time on a list.                                            *)

SingleDevice == \A d, e \in Devices : d = e

Serial(f) ==
  \A t, u \in Taps : InFlight(t) /\ InFlight(u) /\ req[t].field = f /\ req[u].field = f
                       => t = u

(* Who makes it so: the user who waits, or the HUD of the only device.     *)
OneByOne(f) == MaxInFlight <= 1 \/ (f = "blocked_accounts" /\ SingleDevice)

(* A tap finds nothing of its list under way.                              *)
LEMMA TapAlone ==
  ASSUME TypeOK, NEW f \in Fields, Serial(f), OneByOne(f),
         NEW t \in Taps, NEW d \in Devices, NEW i \in Items, Tap(t, d, f, i),
         NEW u \in Taps, InFlight(u), req[u].field = f
  PROVE  FALSE
<1>1. CASE MaxInFlight <= 1
  <2> DEFINE S == {v \in Taps : InFlight(v) /\ req[v].field = f}
  <2>1. S = {u}
    BY DEF Serial
  <2>2. Cardinality(S) < MaxInFlight
    BY DEF Tap
  <2>3. Cardinality(S) = 1
    BY <2>1, FS_Singleton
  <2> QED
    BY <1>1, <2>2, <2>3, BoundsAssumption
<1>2. CASE f = "blocked_accounts" /\ SingleDevice
  <2>1. req[u] \in Requests
    BY DEF TypeOK, InFlight, Live
  <2>2. req[u].dev = d
    BY <1>2, <2>1 DEF SingleDevice, Requests
  <2> QED
    BY <1>2, <2>2 DEF Tap, HudUp
<1> QED
  BY <1>1, <1>2 DEF OneByOne

LEMMA SerialStep ==
  ASSUME TypeOK, NEW f \in Fields, Serial(f), OneByOne(f), [Next]_vars
  PROVE  Serial(f)'
<1> SUFFICES ASSUME NEW t \in Taps, NEW u \in Taps, InFlight(t)', InFlight(u)',
                    req'[t].field = f, req'[u].field = f, t # u
             PROVE  FALSE
  BY DEF Serial
<1>1. ASSUME NEW v \in Taps, NEW w \in Taps, v # w, req'[v].field = f, req'[w].field = f,
             InFlight(w)',
             NEW d \in Devices, NEW g \in Fields, NEW i \in Items, Tap(v, d, g, i)
      PROVE  FALSE
  <2>1. g = f /\ phase'[w] = phase[w] /\ req'[w] = req[w]
    BY <1>1 DEF Tap, TypeOK
  <2>2. InFlight(w) /\ req[w].field = f
    BY <1>1, <2>1 DEF InFlight
  <2> QED
    BY <1>1, <2>1, <2>2, TapAlone
<1>2. \A d \in Devices, g \in Fields, i \in Items : ~Tap(t, d, g, i) /\ ~Tap(u, d, g, i)
  BY <1>1
<1> QED
  BY <1>2, RequestsStay DEF Serial

LEMMA SerialInit == Init => \A f : Serial(f)
BY DEF Init, Serial, InFlight, Live

-----------------------------------------------------------------------------
(* What was promised is kept: BlocksKept and SavesKept on one device.      *)

(* What the device has promised and nobody asked to take back: the items   *)
(* of the answered taps, and those of the first k writes in the queue.     *)
AddedBy(t, f, p) == req[t].field = f /\ req[t].kind = "add" /\ req[t].item = p

Unremoved(f, p) ==
  \A u \in Taps : phase[u] # "untapped" /\ req[u].kind = "remove"
                    => req[u].field # f \/ req[u].item # p

Stored(f, p) == \E t \in Taps : Acknowledged(t) /\ AddedBy(t, f, p)

Wanted(d, f, k) ==
  {p \in Items : /\ Unremoved(f, p)
                 /\ Stored(f, p) \/ \E j \in 1..k : AddedBy(queue[d][j], f, p)}

Has(l, S) == \A p \in S : Contains(l, p)

(* The server's list has what was answered or committed, the cached one    *)
(* what was answered or seen, each list in the queue what was answered or  *)
(* is queued up to it, and a snapshot all of it.                           *)
KeptInv(d, f) ==
  /\ Has(doc[f], Wanted(d, f, committed[d]))
  /\ Has(remote[d][f], Wanted(d, f, seen[d]))
  /\ \A k \in 1..Len(queue[d]) :
       req[queue[d][k]].field = f => Has(list[queue[d][k]], Wanted(d, f, k))
  /\ \A t \in Taps :
       phase[t] = "got" /\ req[t].field = f
         => Has(list[t], Wanted(d, f, Len(queue[d])))

LEMMA WantedGrows ==
  ASSUME NEW d, NEW f, NEW j \in Nat, NEW k \in Nat, j <= k
  PROVE  Wanted(d, f, j) \subseteq Wanted(d, f, k)
<1>1. 1..j \subseteq 1..k
  OBVIOUS
<1> QED
  BY <1>1 DEF Wanted

LEMMA HasLess ==
  ASSUME NEW l, NEW S, NEW T, Has(l, S), T \subseteq S
  PROVE  Has(l, T)
BY DEF Has

LEMMA UnremovedBefore ==
  ASSUME TypeOK, [Next]_vars, NEW f, NEW p, Unremoved(f, p)'
  PROVE  Unremoved(f, p)
BY RequestsStay DEF Unremoved

(* Who was tapped, and so keeps its request.                               *)
LEMMA Tapped ==
  ASSUME BaseInv, [Next]_vars
  PROVE  /\ \A t \in applied : t \in Taps /\ req'[t] = req[t]
         /\ \A d \in Devices : \A k \in 1..Len(queue[d]) :
              queue[d][k] \in Taps /\ req'[queue[d][k]] = req[queue[d][k]]
<1>1. ASSUME NEW t \in applied PROVE t \in Taps /\ req'[t] = req[t]
  BY RequestsStay DEF BaseInv, AppliedInv, TypeOK
<1>2. ASSUME NEW d \in Devices, NEW k \in 1..Len(queue[d])
      PROVE  queue[d][k] \in Taps /\ req'[queue[d][k]] = req[queue[d][k]]
  <2>1. queue[d][k] \in Taps /\ phase[queue[d][k]] # "untapped"
    BY DEF BaseInv, TypeOK
  <2> QED
    BY <2>1, RequestsStay DEF BaseInv
<1> QED
  BY <1>1, <1>2

(* While the queue stays, no promise is added.                             *)
LEMMA WantedFrame ==
  ASSUME BaseInv, [Next]_vars, NEW d \in Devices, NEW f, queue' = queue,
         applied' \subseteq applied \cup {t \in Taps : Contains(queue[d], t)},
         NEW k \in 0..Len(queue[d])
  PROVE  Wanted(d, f, k)' \subseteq Wanted(d, f, k)
<1> SUFFICES ASSUME NEW p \in Wanted(d, f, k)' PROVE p \in Wanted(d, f, k)
  OBVIOUS
<1>1. p \in Items /\ Unremoved(f, p)' /\ Unremoved(f, p)
  BY UnremovedBefore DEF Wanted, BaseInv
<1>2. ASSUME NEW t \in Taps, Acknowledged(t)', AddedBy(t, f, p)'
      PROVE  Stored(f, p)
  <2>1. t \in applied' /\ \A e \in Devices : ~Contains(queue[e], t)
    BY <1>2 DEF Acknowledged
  <2>2. t \in applied
    BY <2>1
  <2>3. Acknowledged(t) /\ AddedBy(t, f, p)
    BY <1>2, <2>1, <2>2, Tapped DEF Acknowledged, AddedBy
  <2> QED
    BY <2>3 DEF Stored
<1>3. ASSUME NEW j \in 1..k, AddedBy(queue[d][j], f, p)'
      PROVE  AddedBy(queue[d][j], f, p)
  <2>1. j \in 1..Len(queue[d])
    BY DEF BaseInv, TypeOK
  <2> QED
    BY <1>3, <2>1, Tapped DEF AddedBy
<1> QED
  BY <1>1, <1>2, <1>3 DEF Wanted, Stored

LEMMA WantedAppend ==
  ASSUME BaseInv, [Next]_vars, NEW d \in Devices, NEW f, NEW t \in Taps,
         queue' = [queue EXCEPT ![d] = Append(@, t)], applied' = applied,
         NEW k \in 0..Len(queue[d]), NEW n, n = Len(queue[d])
  PROVE  /\ Wanted(d, f, k)' \subseteq Wanted(d, f, k)
         /\ \A p \in Wanted(d, f, n + 1)' : p \in Wanted(d, f, n) \/ AddedBy(t, f, p)'
<1>1. queue \in [Devices -> Seq(Taps)] /\ Len(queue[d]) \in Nat
  BY DEF BaseInv, TypeOK
<1>2. /\ queue'[d] = Append(queue[d], t)
      /\ \A j \in 1..Len(queue[d]) : queue'[d][j] = queue[d][j]
      /\ queue'[d][Len(queue[d]) + 1] = t
      /\ Len(queue'[d]) = Len(queue[d]) + 1
  BY <1>1
<1>3. \A e \in Devices, u \in Taps : Contains(queue[e], u) => Contains(queue'[e], u)
  <2> SUFFICES ASSUME NEW e \in Devices, NEW u \in Taps, Contains(queue[e], u)
               PROVE  Contains(queue'[e], u)
    OBVIOUS
  <2>1. CASE e = d
    BY <1>1, <1>2, <2>1 DEF Contains
  <2>2. CASE e # d
    BY <1>1, <2>2
  <2> QED
    BY <2>1, <2>2
<1>4. ASSUME NEW p \in Items, Stored(f, p)' PROVE Stored(f, p)
  <2>1. PICK u \in Taps : Acknowledged(u)' /\ AddedBy(u, f, p)'
    BY <1>4 DEF Stored
  <2>2. Acknowledged(u) /\ AddedBy(u, f, p)
    BY <1>3, <2>1, Tapped DEF Acknowledged, AddedBy
  <2> QED
    BY <2>2 DEF Stored
<1>5. ASSUME NEW p, NEW j \in 1..Len(queue[d]), AddedBy(queue[d][j], f, p)'
      PROVE  AddedBy(queue[d][j], f, p)
  BY <1>2, <1>5, Tapped DEF AddedBy
<1>6. ASSUME NEW m \in 0..Len(queue[d]) PROVE Wanted(d, f, m)' \subseteq Wanted(d, f, m)
  <2> SUFFICES ASSUME NEW p \in Wanted(d, f, m)' PROVE p \in Wanted(d, f, m)
    OBVIOUS
  <2>1. p \in Items /\ Unremoved(f, p)
    BY UnremovedBefore DEF Wanted, BaseInv
  <2>2. 1..m \subseteq 1..Len(queue[d])
    BY <1>1
  <2> QED
    BY <1>4, <1>5, <2>1, <2>2 DEF Wanted
<1>7. ASSUME NEW p \in Wanted(d, f, n + 1)'
      PROVE  p \in Wanted(d, f, n) \/ AddedBy(t, f, p)'
  <2>1. p \in Items /\ Unremoved(f, p)
    BY UnremovedBefore DEF Wanted, BaseInv
  <2>2. \A j \in 1..(n + 1) : j \in 1..n \/ j = n + 1
    BY <1>1
  <2>3. Stored(f, p)' \/ \E j \in 1..(n + 1) : AddedBy(queue[d][j], f, p)'
    BY DEF Wanted
  <2>4. CASE Stored(f, p)'
    BY <1>4, <2>1, <2>4 DEF Wanted
  <2>5. ASSUME NEW j \in 1..(n + 1), AddedBy(queue[d][j], f, p)'
        PROVE  p \in Wanted(d, f, n) \/ AddedBy(t, f, p)'
    <3>1. CASE j \in 1..n
      <4>1. AddedBy(queue[d][j], f, p)
        BY <1>5, <2>5, <3>1
      <4> QED
        BY <2>1, <3>1, <4>1 DEF Wanted
    <3>2. CASE j = n + 1
      <4>1. queue'[d][j] = t
        BY <1>2, <3>2
      <4> QED
        BY <2>5, <4>1 DEF AddedBy
    <3> QED
      BY <2>2, <3>1, <3>2
  <2> QED
    BY <2>3, <2>4, <2>5
<1> QED
  BY <1>6, <1>7

(* Writes of another list add nothing.                                     *)
LEMMA WantedSkip ==
  ASSUME NEW d, NEW f, NEW j \in Nat, NEW k \in Nat,
         \A i \in 1..k : i > j => req[queue[d][i]].field # f
  PROVE  Wanted(d, f, k) \subseteq Wanted(d, f, j)
<1> SUFFICES ASSUME NEW p \in Wanted(d, f, k) PROVE p \in Wanted(d, f, j)
  OBVIOUS
<1>1. ASSUME NEW i \in 1..k, AddedBy(queue[d][i], f, p) PROVE i \in 1..j
  BY <1>1 DEF AddedBy
<1> QED
  BY <1>1 DEF Wanted

(* The oldest write leaves the queue: it is acknowledged, or never was.    *)
LEMMA WantedPop ==
  ASSUME BaseInv, [Next]_vars, SingleDevice, NEW d \in Devices, NEW f,
         queue[d] # <<>>, queue' = [queue EXCEPT ![d] = Tail(@)],
         applied' = applied, NEW k \in 0..Len(queue[d]) - 1
  PROVE  /\ Wanted(d, f, k)' \subseteq Wanted(d, f, k + 1)
         /\ queue[d][1] \notin applied \/ req[queue[d][1]].field # f
              => Wanted(d, f, 0)' \subseteq Wanted(d, f, 0)
<1>1. queue[d] \in Seq(Taps) /\ Len(queue[d]) \in Nat /\ Len(queue[d]) >= 1
  BY DEF BaseInv, TypeOK
<1>2. queue'[d] = Tail(queue[d])
  BY DEF BaseInv, TypeOK
<1>3. /\ Len(queue'[d]) = Len(queue[d]) - 1
      /\ \A i \in 1..Len(queue[d]) - 1 : queue'[d][i] = queue[d][i + 1]
  BY <1>1, <1>2, HeadTailProperties
<1>4. ASSUME NEW u \in Taps, Acknowledged(u)'
      PROVE  u \in applied /\ (Acknowledged(u) \/ u = queue[d][1])
  <2>1. u \in applied /\ ~Contains(queue'[d], u)
    BY <1>4 DEF Acknowledged
  <2>2. ASSUME NEW e \in Devices, Contains(queue[e], u) PROVE u = queue[d][1]
    <3>1. PICK m \in 1..Len(queue[d]) : queue[d][m] = u
      BY <2>2 DEF SingleDevice, Contains
    <3>2. CASE m = 1
      BY <3>1, <3>2
    <3>3. CASE m # 1
      <4>1. m - 1 \in 1..Len(queue[d]) - 1 /\ (m - 1) + 1 = m
        BY <1>1, <3>3
      <4>2. queue'[d][m - 1] = u
        BY <1>3, <3>1, <4>1
      <4> QED
        BY <1>3, <2>1, <4>1, <4>2 DEF Contains
    <3> QED
      BY <3>2, <3>3
  <2> QED
    BY <2>1, <2>2 DEF Acknowledged
<1>5. ASSUME NEW p, Stored(f, p)'
      PROVE  \/ Stored(f, p)
             \/ queue[d][1] \in applied /\ AddedBy(queue[d][1], f, p)
  <2>1. PICK u \in Taps : Acknowledged(u)' /\ AddedBy(u, f, p)'
    BY <1>5 DEF Stored
  <2>2. u \in applied /\ (Acknowledged(u) \/ u = queue[d][1])
    BY <1>4, <2>1
  <2>3. AddedBy(u, f, p)
    BY <2>1, <2>2, Tapped DEF AddedBy
  <2> QED
    BY <2>2, <2>3 DEF Stored
<1>6. ASSUME NEW p, NEW i \in 1..k, AddedBy(queue[d][i], f, p)'
      PROVE  i + 1 \in 1..(k + 1) /\ AddedBy(queue[d][i + 1], f, p)
  <2>1. i \in 1..Len(queue[d]) - 1 /\ i + 1 \in 1..Len(queue[d]) /\ i + 1 \in 1..(k + 1)
    BY <1>1
  <2>2. queue'[d][i] = queue[d][i + 1]
    BY <1>3, <2>1
  <2> QED
    BY <1>6, <2>1, <2>2, Tapped DEF AddedBy
<1>7. Wanted(d, f, k)' \subseteq Wanted(d, f, k + 1)
  <2> SUFFICES ASSUME NEW p \in Wanted(d, f, k)' PROVE p \in Wanted(d, f, k + 1)
    OBVIOUS
  <2>1. p \in Items /\ Unremoved(f, p)
    BY UnremovedBefore DEF Wanted, BaseInv
  <2>2. Stored(f, p)' \/ \E i \in 1..k : AddedBy(queue[d][i], f, p)'
    BY DEF Wanted
  <2>3. 1 \in 1..(k + 1)
    OBVIOUS
  <2> QED
    BY <1>5, <1>6, <2>1, <2>2, <2>3 DEF Wanted
<1>8. ASSUME queue[d][1] \notin applied \/ req[queue[d][1]].field # f,
             NEW p \in Wanted(d, f, 0)'
      PROVE  p \in Wanted(d, f, 0)
  <2>1. p \in Items /\ Unremoved(f, p)
    BY UnremovedBefore DEF Wanted, BaseInv
  <2>2. Stored(f, p)'
    BY DEF Wanted
  <2>3. Stored(f, p)
    BY <1>5, <1>8, <2>2 DEF AddedBy
  <2> QED
    BY <2>1, <2>3 DEF Wanted
<1> QED
  BY <1>7, <1>8

(* A snapshot has all that its base and the queue have.                    *)
LEMMA LocalViewKeeps ==
  ASSUME TypeOK, NEW d \in Devices, NEW f, KeptInv(d, f),
         NEW k \in 0..Len(queue[d]), NEW base, Has(base, Wanted(d, f, k))
  PROVE  Has(LocalView(d, f, base), Wanted(d, f, Len(queue[d])))
<1> DEFINE mine == {i \in 1..Len(queue[d]) : req[queue[d][i]].field = f}
<1>1. Len(queue[d]) \in Nat /\ mine \in SUBSET (1..Len(queue[d]))
  BY DEF TypeOK
<1>2. CASE mine = {}
  <2>1. Wanted(d, f, Len(queue[d])) \subseteq Wanted(d, f, k)
    BY <1>1, <1>2, WantedSkip
  <2> QED
    BY <1>2, <2>1 DEF LocalView, Has
<1>3. CASE mine # {}
  <2> DEFINE m == Max(mine)
  <2>1. m \in mine /\ \A i \in mine : i <= m
    <3> HIDE DEF mine
    <3> QED
      BY <1>1, <1>3, MaxOfInterval
  <2>2. LocalView(d, f, base) = list[queue[d][m]]
    BY <1>3 DEF LocalView
  <2> HIDE DEF m
  <2>3. m \in 1..Len(queue[d]) /\ m \in Nat /\ req[queue[d][m]].field = f
    BY <1>1, <2>1
  <2>4. Has(list[queue[d][m]], Wanted(d, f, m))
    BY <2>3 DEF KeptInv
  <2>5. \A i \in 1..Len(queue[d]) : i > m => req[queue[d][i]].field # f
    BY <2>1, <2>3
  <2>6. Wanted(d, f, Len(queue[d])) \subseteq Wanted(d, f, m)
    BY <1>1, <2>3, <2>5, WantedSkip
  <2> QED
    BY <2>2, <2>4, <2>6 DEF Has
<1> QED
  BY <1>2, <1>3

(* The invariant after a step, with its counters named.                    *)
LEMMA KeptNext ==
  ASSUME NEW d, NEW f,
         \A c : c = committed'[d] => Has(doc'[f], Wanted(d, f, c)'),
         \A s : s = seen'[d] => Has(remote'[d][f], Wanted(d, f, s)'),
         \A k \in 1..Len(queue'[d]) : req'[queue'[d][k]].field = f
                           => Has(list'[queue'[d][k]], Wanted(d, f, k)'),
         \A t \in Taps : \A n : phase'[t] = "got" /\ req'[t].field = f /\ n = Len(queue'[d])
                              => Has(list'[t], Wanted(d, f, n)')
  PROVE  KeptInv(d, f)'
BY DEF KeptInv, Wanted, Stored, Unremoved, Acknowledged, AddedBy

(* A step that leaves the lists alone, and the queue; the counters of the  *)
(* stream may only start over.                                             *)
LEMMA KeptFrame ==
  ASSUME BaseInv, [Next]_vars, NEW d \in Devices, NEW f, KeptInv(d, f),
         UNCHANGED <<doc, remote, queue, applied>>,
         committed'[d] \in {committed[d], 0}, seen'[d] \in {seen[d], 0},
         \A k \in 1..Len(queue[d]) : list'[queue[d][k]] = list[queue[d][k]],
         \A t \in Taps : phase'[t] = "got" /\ req'[t].field = f =>
            Has(list'[t], Wanted(d, f, Len(queue[d])))
  PROVE  KeptInv(d, f)'
<1>1. /\ Len(queue[d]) \in Nat /\ committed[d] \in 0..Len(queue[d])
      /\ seen[d] \in 0..Len(queue[d])
  BY DEF BaseInv, TypeOK
<1>2. \A k \in 0..Len(queue[d]) : Wanted(d, f, k)' \subseteq Wanted(d, f, k)
  BY WantedFrame
<1>3. \A k \in 0..Len(queue[d]) : Wanted(d, f, 0) \subseteq Wanted(d, f, k)
  BY <1>1, WantedGrows
<1>4. \A k \in 1..Len(queue[d]) : req'[queue[d][k]] = req[queue[d][k]] /\ k \in 0..Len(queue[d])
  BY Tapped
<1>5. ASSUME NEW c, c = committed'[d] PROVE Has(doc'[f], Wanted(d, f, c)')
  <2>1. c \in 0..Len(queue[d]) /\ Wanted(d, f, c) \subseteq Wanted(d, f, committed[d])
    BY <1>1, <1>3, <1>5
  <2> QED
    BY <1>2, <2>1 DEF KeptInv, Has
<1>6. ASSUME NEW s, s = seen'[d] PROVE Has(remote'[d][f], Wanted(d, f, s)')
  <2>1. s \in 0..Len(queue[d]) /\ Wanted(d, f, s) \subseteq Wanted(d, f, seen[d])
    BY <1>1, <1>3, <1>6
  <2> QED
    BY <1>2, <2>1 DEF KeptInv, Has
<1>7. \A k \in 1..Len(queue'[d]) : req'[queue'[d][k]].field = f
                           => Has(list'[queue'[d][k]], Wanted(d, f, k)')
  BY <1>2, <1>4 DEF KeptInv, Has
<1>8. ASSUME NEW t \in Taps, NEW n,
             phase'[t] = "got" /\ req'[t].field = f /\ n = Len(queue'[d])
      PROVE  Has(list'[t], Wanted(d, f, n)')
  <2>1. n \in 0..Len(queue[d]) /\ n = Len(queue[d])
    BY <1>1, <1>8
  <2> QED
    BY <1>2, <1>8, <2>1 DEF Has
<1> QED
  BY <1>5, <1>6, <1>7, <1>8, KeptNext

(* A tap before it writes: a snapshot has what was answered and what is    *)
(* queued.                                                                 *)
LEMMA KeptTap ==
  ASSUME BaseInv, SingleDevice, NEW d \in Devices, NEW f \in Fields, KeptInv(d, f),
         NEW t \in Taps, TapStep(t), ~Callback(t), [Next]_vars
  PROVE  KeptInv(d, f)'
<1>1. TypeOK /\ RestInv /\ Len(queue[d]) \in Nat
  BY DEF BaseInv, TypeOK
<1>2. phase[t] \in {"untapped", "getting"}
  BY DEF TapStep, Tap, SnapshotOnline, SnapshotOffline, GetFails
<1>3. \A k \in 1..Len(queue[d]) : queue[d][k] # t /\ queue[d][k] \in Taps
  <2>1. phase[t] \notin {"writing", "lost"}
    BY <1>2
  <2> QED
    BY <1>1, <2>1, NotQueued, QueuedRequest
<1>4. \A u \in Taps : u # t => phase'[u] = phase[u] /\ req'[u] = req[u] /\ list'[u] = list[u]
  BY <1>1 DEF TapStep, Tap, SnapshotOnline, SnapshotOffline, GetFails, TypeOK
<1>5. \A k \in 1..Len(queue[d]) : list'[queue[d][k]] = list[queue[d][k]]
  BY <1>3, <1>4
<1>6. CASE (\E e \in Devices, g \in Fields, i \in Items : Tap(t, e, g, i)) \/ GetFails(t)
  <2>1. /\ UNCHANGED <<doc, remote, queue, applied, committed, seen>>
        /\ phase'[t] # "got"
    BY <1>1, <1>6 DEF Tap, GetFails, TypeOK, sdkVars, ghostVars
  <2>2. \A u \in Taps : phase'[u] = "got" /\ req'[u].field = f
                          => Has(list'[u], Wanted(d, f, Len(queue[d])))
    BY <1>4, <2>1 DEF KeptInv
  <2> QED
    BY <1>5, <2>1, <2>2, KeptFrame
<1>7. CASE SnapshotOffline(t)
  <2>1. /\ UNCHANGED <<doc, remote, queue, applied, committed, seen, req>>
        /\ list'[t] = LocalView(req[t].dev, req[t].field, remote[req[t].dev][req[t].field])
        /\ req[t] \in Requests
    BY <1>1, <1>7 DEF SnapshotOffline, TypeOK, sdkVars, ghostVars
  <2>2. req[t].dev = d
    BY <2>1 DEF SingleDevice, Requests
  <2>3. ASSUME req[t].field = f PROVE Has(list'[t], Wanted(d, f, Len(queue[d])))
    <3>1. Has(remote[d][f], Wanted(d, f, seen[d])) /\ seen[d] \in 0..Len(queue[d])
      BY <1>1 DEF KeptInv, TypeOK
    <3> QED
      BY <1>1, <2>1, <2>2, <2>3, <3>1, LocalViewKeeps
  <2>4. \A u \in Taps : phase'[u] = "got" /\ req'[u].field = f
                          => Has(list'[u], Wanted(d, f, Len(queue[d])))
    BY <1>4, <2>1, <2>3 DEF KeptInv
  <2> QED
    BY <1>5, <2>1, <2>4, KeptFrame
<1>8. CASE SnapshotOnline(t)
  <2>1. /\ UNCHANGED <<doc, queue, applied, committed, req>>
        /\ list'[t] = LocalView(req[t].dev, req[t].field, doc[req[t].field])
        /\ req[t] \in Requests
    BY <1>1, <1>8 DEF SnapshotOnline, TypeOK, ghostVars
  <2>2. req[t].dev = d
    BY <2>1 DEF SingleDevice, Requests
  <2>3. remote'[d] = doc /\ seen'[d] = committed[d]
    BY <1>1, <1>8, <2>2 DEF SnapshotOnline, TypeOK
  <2>4. Has(doc[f], Wanted(d, f, committed[d])) /\ committed[d] \in 0..Len(queue[d])
    BY <1>1 DEF KeptInv, TypeOK
  <2>5. ASSUME req[t].field = f PROVE Has(list'[t], Wanted(d, f, Len(queue[d])))
    BY <1>1, <2>1, <2>2, <2>4, <2>5, LocalViewKeeps
  <2>6. \A u \in Taps : phase'[u] = "got" /\ req'[u].field = f
                          => Has(list'[u], Wanted(d, f, Len(queue[d])))
    BY <1>4, <2>1, <2>5 DEF KeptInv
  <2>7. \A k \in 0..Len(queue[d]) : Wanted(d, f, k)' \subseteq Wanted(d, f, k)
    BY <2>1, WantedFrame
  <2>8. Has(doc'[f], Wanted(d, f, committed[d])) /\ Has(remote'[d][f], Wanted(d, f, committed[d]))
    BY <2>1, <2>3, <2>4
  <2>9. ASSUME NEW c, c = committed[d]
        PROVE  Has(doc'[f], Wanted(d, f, c)') /\ Has(remote'[d][f], Wanted(d, f, c)')
    BY <2>4, <2>7, <2>8, <2>9 DEF Has
  <2>10. \A k \in 1..Len(queue'[d]) : req'[queue'[d][k]].field = f
                           => Has(list'[queue'[d][k]], Wanted(d, f, k)')
    BY <1>5, <2>1, <2>7 DEF KeptInv, Has
  <2>11. ASSUME NEW u \in Taps, NEW n,
                phase'[u] = "got" /\ req'[u].field = f /\ n = Len(queue'[d])
         PROVE  Has(list'[u], Wanted(d, f, n)')
    <3>1. n \in 0..Len(queue[d]) /\ n = Len(queue[d])
      BY <1>1, <2>1, <2>11
    <3> QED
      BY <2>6, <2>7, <2>11, <3>1 DEF Has
  <2>12. committed'[d] = committed[d] /\ seen'[d] = committed[d]
    BY <2>1, <2>3
  <2> QED
    BY <2>9, <2>10, <2>11, <2>12, KeptNext
<1> QED
  BY <1>6, <1>7, <1>8 DEF TapStep

LEMMA KeptCallback ==
  ASSUME BaseInv, SingleDevice, NEW d \in Devices, NEW f \in Fields, KeptInv(d, f), Serial(f),
         NEW t \in Taps, Callback(t), [Next]_vars
  PROVE  KeptInv(d, f)'
<1>1. TypeOK /\ RestInv /\ Len(queue[d]) \in Nat /\ queue[d] \in Seq(Taps)
  BY DEF BaseInv, TypeOK
<1>2. phase[t] = "got" /\ req[t] \in Requests
  BY <1>1 DEF Callback, TypeOK
<1>3. req[t].dev = d
  BY <1>2 DEF SingleDevice, Requests
<1>4. /\ UNCHANGED <<doc, remote, committed, seen, req, applied>>
      /\ queue' = [queue EXCEPT ![d] = Append(@, t)]
      /\ list'[t] = NewList(req[t], list[t])
      /\ phase'[t] = "writing"
      /\ \A u \in Taps : u # t => list'[u] = list[u] /\ phase'[u] = phase[u]
  BY <1>1, <1>3 DEF Callback, TypeOK, ghostVars
<1>5. /\ Len(queue'[d]) = Len(queue[d]) + 1
      /\ \A k \in 1..Len(queue[d]) : queue'[d][k] = queue[d][k]
      /\ queue'[d][Len(queue[d]) + 1] = t
  <2>1. queue'[d] = Append(queue[d], t)
    BY <1>1, <1>4 DEF TypeOK
  <2> QED
    BY <1>1, <2>1
<1>6. \A k \in 1..Len(queue[d]) : queue[d][k] # t /\ queue[d][k] \in Taps
  <2>1. phase[t] \notin {"writing", "lost"}
    BY <1>2
  <2> QED
    BY <1>1, <2>1, NotQueued, QueuedRequest
<1>7. \A k \in 0..Len(queue[d]) : Wanted(d, f, k)' \subseteq Wanted(d, f, k)
  BY <1>4, WantedAppend
<1>8. ASSUME NEW n, n = Len(queue[d])
      PROVE  \A p \in Wanted(d, f, n + 1)' : p \in Wanted(d, f, n) \/ AddedBy(t, f, p)'
  <2>1. 0 \in 0..Len(queue[d])
    BY <1>1
  <2> QED
    BY <1>4, <1>8, <2>1, WantedAppend
<1>9. ASSUME req[t].field = f, NEW n, n = Len(queue[d])
      PROVE  Has(list'[t], Wanted(d, f, n + 1)')
  <2> SUFFICES ASSUME NEW p \in Wanted(d, f, n + 1)' PROVE Contains(list'[t], p)
    BY DEF Has
  <2>1. list[t] \in Lists
    BY <1>1 DEF TypeOK
  <2>2. CASE AddedBy(t, f, p)'
    <3>1. req[t].kind = "add" /\ req[t].item = p
      BY <1>4, <2>2 DEF AddedBy
    <3> QED
      BY <1>2, <1>4, <2>1, <3>1, NewListAdds
  <2>3. CASE p \in Wanted(d, f, n)
    <3>1. Contains(list[t], p)
      BY <1>2, <1>9, <2>3 DEF KeptInv, Has
    <3>2. Unremoved(f, p)
      BY <2>3 DEF Wanted
    <3>3. req[t].kind = "remove" => req[t].item # p
      BY <1>2, <1>9, <3>2 DEF Unremoved
    <3> QED
      BY <1>2, <1>4, <2>1, <3>1, <3>3, NewListKeeps
  <2> QED
    BY <1>8, <1>9, <2>2, <2>3
<1>10. ASSUME NEW k \in 1..Len(queue'[d]), req'[queue'[d][k]].field = f
       PROVE  Has(list'[queue'[d][k]], Wanted(d, f, k)')
  <2>1. CASE k \in 1..Len(queue[d])
    BY <1>4, <1>5, <1>6, <1>7, <1>10, <2>1 DEF KeptInv, Has
  <2>2. CASE k = Len(queue[d]) + 1
    <3>1. queue'[d][k] = t /\ req[t].field = f
      BY <1>4, <1>5, <1>10, <2>2
    <3>2. \A n : n = Len(queue[d]) => Has(list'[t], Wanted(d, f, n + 1)')
      BY <1>9, <3>1
    <3>3. ASSUME NEW n, n = Len(queue[d]) PROVE Has(list'[queue'[d][k]], Wanted(d, f, k)')
      <4>1. k = n + 1
        BY <2>2, <3>3
      <4> QED
        BY <3>1, <3>2, <3>3, <4>1
    <3> QED
      BY <3>3
  <2> QED
    BY <1>1, <1>5, <2>1, <2>2
<1>11. ASSUME NEW u \in Taps, NEW n,
              phase'[u] = "got" /\ req'[u].field = f /\ n = Len(queue'[d])
       PROVE  Has(list'[u], Wanted(d, f, n)')
  <2>1. u # t /\ phase[u] = "got" /\ req[u].field = f
    BY <1>4, <1>11
  <2>2. req[t].field # f
    BY <1>2, <2>1 DEF Serial, InFlight, Live
  <2>3. Has(list[u], Wanted(d, f, Len(queue[d])))
    BY <2>1 DEF KeptInv
  <2>4. ASSUME NEW m, m = Len(queue[d]) PROVE Has(list'[u], Wanted(d, f, n)')
    <3>1. n = m + 1
      BY <1>5, <1>11, <2>4
    <3>2. \A p \in Wanted(d, f, n)' : p \in Wanted(d, f, m) \/ AddedBy(t, f, p)'
      BY <1>8, <2>4, <3>1
    <3>3. \A p : ~AddedBy(t, f, p)'
      BY <1>4, <2>2 DEF AddedBy
    <3> QED
      BY <1>4, <2>1, <2>3, <2>4, <3>2, <3>3 DEF Has
  <2> QED
    BY <2>4
<1>12. committed[d] \in 0..Len(queue[d]) /\ seen[d] \in 0..Len(queue[d])
  BY <1>1 DEF TypeOK
<1>13. ASSUME NEW c, c = committed'[d] PROVE Has(doc'[f], Wanted(d, f, c)')
  BY <1>4, <1>7, <1>12, <1>13 DEF KeptInv, Has
<1>14. ASSUME NEW s, s = seen'[d] PROVE Has(remote'[d][f], Wanted(d, f, s)')
  BY <1>4, <1>7, <1>12, <1>14 DEF KeptInv, Has
<1> QED
  BY <1>10, <1>11, <1>13, <1>14, KeptNext

LEMMA KeptCommit ==
  ASSUME BaseInv, SingleDevice, NEW d \in Devices, NEW f \in Fields, KeptInv(d, f),
         Commit(d), [Next]_vars
  PROVE  KeptInv(d, f)'
<1> DEFINE m == committed[d] + 1
           t == queue[d][m]
<1>1. TypeOK /\ Len(queue[d]) \in Nat /\ committed[d] \in Nat /\ m \in 1..Len(queue[d])
      /\ seen[d] \in 0..Len(queue[d])
  BY DEF BaseInv, Commit, Sendable, TypeOK
<1>2. t \in Taps /\ req[t] \in Requests /\ req[t].field \in Fields
  BY <1>1, QueuedRequest DEF Requests
<1>3. /\ UNCHANGED <<remote, queue, seen, phase, req, list>>
      /\ doc' = [doc EXCEPT ![req[t].field] = list[t]]
      /\ applied' = applied \cup {t}
      /\ committed'[d] = m
  BY <1>1 DEF Commit, TypeOK
<1>4. Contains(queue[d], t)
  BY <1>1 DEF Contains
<1>5. \A k \in 0..Len(queue[d]) : Wanted(d, f, k)' \subseteq Wanted(d, f, k)
  <2>1. applied' \subseteq applied \cup {u \in Taps : Contains(queue[d], u)}
    BY <1>2, <1>3, <1>4
  <2>2. queue' = queue
    BY <1>3
  <2> QED
    BY <2>1, <2>2, WantedFrame
<1> HIDE DEF m, t
<1>6. Has(doc'[f], Wanted(d, f, m))
  <2>1. CASE req[t].field = f
    <3>1. Has(list[t], Wanted(d, f, m))
      BY <1>1, <2>1 DEF KeptInv, t
    <3> QED
      BY <1>1, <1>3, <2>1, <3>1 DEF TypeOK
  <2>2. CASE req[t].field # f
    <3>1. \A i \in 1..m : i > committed[d] => i = m
      BY <1>1 DEF m
    <3>2. Wanted(d, f, m) \subseteq Wanted(d, f, committed[d])
      <4>1. \A i \in 1..m : i > committed[d] => req[queue[d][i]].field # f
        BY <2>2, <3>1 DEF t
      <4> QED
        BY <1>1, <4>1, WantedSkip
    <3>3. doc'[f] = doc[f]
      BY <1>1, <1>2, <1>3, <2>2 DEF TypeOK
    <3> QED
      BY <3>2, <3>3 DEF KeptInv, Has
  <2> QED
    BY <2>1, <2>2
<1>7. ASSUME NEW c, c = committed'[d] PROVE Has(doc'[f], Wanted(d, f, c)')
  <2>1. c = m /\ c \in 0..Len(queue[d])
    BY <1>1, <1>3, <1>7
  <2> QED
    BY <1>5, <1>6, <2>1 DEF Has
<1>8. ASSUME NEW s, s = seen'[d] PROVE Has(remote'[d][f], Wanted(d, f, s)')
  BY <1>1, <1>3, <1>5, <1>8 DEF KeptInv, Has
<1>9. \A k \in 1..Len(queue'[d]) : req'[queue'[d][k]].field = f
                           => Has(list'[queue'[d][k]], Wanted(d, f, k)')
  BY <1>3, <1>5 DEF KeptInv, Has
<1>10. ASSUME NEW u \in Taps, NEW n,
              phase'[u] = "got" /\ req'[u].field = f /\ n = Len(queue'[d])
       PROVE  Has(list'[u], Wanted(d, f, n)')
  <2>1. n \in 0..Len(queue[d]) /\ n = Len(queue[d])
    BY <1>1, <1>3, <1>10
  <2> QED
    BY <1>3, <1>5, <1>10, <2>1 DEF KeptInv, Has
<1> QED
  BY <1>7, <1>8, <1>9, <1>10, KeptNext

(* The oldest write leaves the queue; the rest moves up.                   *)
LEMMA KeptPop ==
  ASSUME BaseInv, SingleDevice, NEW d \in Devices, NEW f \in Fields, KeptInv(d, f),
         [Next]_vars, queue[d] # <<>>, queue' = [queue EXCEPT ![d] = Tail(@)],
         UNCHANGED <<applied, req, list, restarts>>,
         \A u \in Taps : u # queue[d][1] => phase'[u] = phase[u],
         phase'[queue[d][1]] # "got",
         \A c : c = committed'[d] => Has(doc'[f], Wanted(d, f, c)'),
         \A s : s = seen'[d] => Has(remote'[d][f], Wanted(d, f, s)')
  PROVE  KeptInv(d, f)'
<1>1. TypeOK /\ RestInv /\ queue[d] \in Seq(Taps) /\ Len(queue[d]) \in Nat
  BY DEF BaseInv, TypeOK
<1>2. \A k \in 1..Len(queue'[d]) :
        k + 1 \in 1..Len(queue[d]) /\ queue'[d][k] = queue[d][k + 1]
  BY <1>1, QueuePop
<1>3. Len(queue[d]) >= 1 /\ Len(queue'[d]) = Len(queue[d]) - 1
  BY <1>1 DEF TypeOK
<1>4. \A k \in 0..Len(queue[d]) - 1 : Wanted(d, f, k)' \subseteq Wanted(d, f, k + 1)
  BY WantedPop
<1>5. ASSUME NEW k \in 1..Len(queue'[d]), req'[queue'[d][k]].field = f
      PROVE  Has(list'[queue'[d][k]], Wanted(d, f, k)')
  <2>1. /\ k + 1 \in 1..Len(queue[d]) /\ queue'[d][k] = queue[d][k + 1]
        /\ k \in 0..Len(queue[d]) - 1
    BY <1>2, <1>3
  <2>2. req[queue[d][k + 1]].field = f
    BY <1>5, <2>1
  <2>3. Has(list[queue[d][k + 1]], Wanted(d, f, k + 1))
    BY <2>1, <2>2 DEF KeptInv
  <2> QED
    BY <1>4, <2>1, <2>3 DEF Has
<1>6. ASSUME NEW u \in Taps, NEW n,
             phase'[u] = "got" /\ req'[u].field = f /\ n = Len(queue'[d])
      PROVE  Has(list'[u], Wanted(d, f, n)')
  <2>1. n \in 0..Len(queue[d]) - 1 /\ n + 1 = Len(queue[d])
    BY <1>1, <1>3, <1>6
  <2>2. phase[u] = "got" /\ req[u].field = f
    BY <1>6
  <2>3. Has(list[u], Wanted(d, f, n + 1))
    BY <2>1, <2>2 DEF KeptInv
  <2> QED
    BY <1>4, <2>1, <2>3 DEF Has
<1> QED
  BY <1>5, <1>6, KeptNext

LEMMA KeptReject ==
  ASSUME BaseInv, SingleDevice, NEW d \in Devices, NEW f \in Fields, KeptInv(d, f),
         Reject(d), [Next]_vars
  PROVE  KeptInv(d, f)'
<1>1. TypeOK /\ queue[d] \in Seq(Taps) /\ Len(queue[d]) \in Nat
  BY DEF BaseInv, TypeOK
<1>2. /\ UNCHANGED <<doc, remote, committed, seen, req, list, applied, restarts>>
      /\ queue[d] # <<>> /\ committed[d] = 0
      /\ queue' = [queue EXCEPT ![d] = Tail(@)]
      /\ queue[d][1] \notin applied
      /\ phase' = Completed(queue[d][1], "failed")
  BY <1>1 DEF Reject, ghostVars, envVars
<1>3. seen[d] = 0 /\ 0 \in 0..Len(queue[d]) - 1 /\ queue[d][1] \in Taps
  BY <1>1, <1>2 DEF TypeOK
<1>4. (\A u \in Taps : u # queue[d][1] => phase'[u] = phase[u]) /\ phase'[queue[d][1]] # "got"
  <2>1. phase[queue[d][1]] # "got"
    <3>1. 1 \in 1..Len(queue[d])
      BY <1>3
    <3> QED
      BY <3>1 DEF BaseInv, RestInv, QueueInv
  <2> QED
    BY <1>1, <1>2, <1>3, <2>1 DEF Completed, TypeOK
<1>5. Wanted(d, f, 0)' \subseteq Wanted(d, f, 0)
  <2>1. queue[d][1] \notin applied \/ req[queue[d][1]].field # f
    BY <1>2
  <2> QED
    BY <1>2, <1>3, <2>1, WantedPop
<1>6. Has(doc'[f], Wanted(d, f, 0)') /\ Has(remote'[d][f], Wanted(d, f, 0)')
  BY <1>2, <1>3, <1>5 DEF KeptInv, Has
<1>7. committed'[d] = 0 /\ seen'[d] = 0
  BY <1>2, <1>3
<1> QED
  BY <1>2, <1>4, <1>6, <1>7, KeptPop

LEMMA KeptAck ==
  ASSUME BaseInv, SingleDevice, NEW d \in Devices, NEW f \in Fields, KeptInv(d, f),
         Ack(d), [Next]_vars
  PROVE  KeptInv(d, f)'
<1> DEFINE t == queue[d][1]
<1>1. /\ TypeOK /\ queue[d] \in Seq(Taps) /\ Len(queue[d]) \in Nat
      /\ committed[d] \in 1..Len(queue[d]) /\ seen[d] \in 0..committed[d]
  BY DEF BaseInv, TypeOK, Ack
<1>2. queue[d] # <<>> /\ Head(queue[d]) = t /\ 1 \in 1..Len(queue[d])
  BY <1>1
<1>3. t \in Taps /\ req[t] \in Requests /\ req[t].field \in Fields
  BY <1>1, <1>2, QueuedRequest DEF Requests
<1>4. /\ UNCHANGED <<doc, req, list, applied, restarts>>
      /\ queue' = [queue EXCEPT ![d] = Tail(@)]
      /\ phase' = Completed(t, "done")
      /\ committed'[d] = committed[d] - 1
      /\ seen'[d] = IF seen[d] > 0 THEN seen[d] - 1 ELSE 0
      /\ remote' = IF seen[d] > 0 THEN remote ELSE [remote EXCEPT ![d][req[t].field] = list[t]]
  BY <1>1, <1>2 DEF Ack, TypeOK, ghostVars, envVars
<1>5. (\A u \in Taps : u # t => phase'[u] = phase[u]) /\ phase'[t] # "got"
  <2>1. phase[t] # "got"
    BY <1>2 DEF BaseInv, RestInv, QueueInv
  <2> QED
    BY <1>1, <1>3, <1>4, <2>1 DEF Completed, TypeOK
<1>6. \A k \in 0..Len(queue[d]) - 1 : Wanted(d, f, k)' \subseteq Wanted(d, f, k + 1)
  BY <1>2, <1>4, WantedPop
<1>7. ASSUME NEW c, c = committed'[d] PROVE Has(doc'[f], Wanted(d, f, c)')
  <2>1. c \in 0..Len(queue[d]) - 1 /\ c + 1 = committed[d]
    BY <1>1, <1>4, <1>7
  <2>2. Has(doc[f], Wanted(d, f, c + 1))
    BY <2>1 DEF KeptInv
  <2> QED
    BY <1>4, <1>6, <2>1, <2>2 DEF Has
<1>8. ASSUME NEW s, s = seen'[d] PROVE Has(remote'[d][f], Wanted(d, f, s)')
  <2>1. CASE seen[d] > 0
    <3>1. s \in 0..Len(queue[d]) - 1 /\ s + 1 = seen[d] /\ remote' = remote
      BY <1>1, <1>4, <1>8, <2>1
    <3>2. Has(remote[d][f], Wanted(d, f, s + 1))
      BY <3>1 DEF KeptInv
    <3> QED
      BY <1>6, <3>1, <3>2 DEF Has
  <2>2. CASE seen[d] = 0
    <3>1. s = 0 /\ 0 \in 0..Len(queue[d]) - 1 /\ 0 + 1 = 1
      BY <1>1, <1>4, <1>8, <2>2
    <3>2. remote' = [remote EXCEPT ![d][req[t].field] = list[t]]
      BY <1>4, <2>2
    <3>3. CASE req[t].field = f
      <4>1. remote'[d][f] = list[t]
        BY <1>1, <3>2, <3>3 DEF TypeOK
      <4>2. Has(list[t], Wanted(d, f, 1))
        BY <1>2, <3>3 DEF KeptInv
      <4>3. Wanted(d, f, 0)' \subseteq Wanted(d, f, 1)
        BY <1>6, <3>1
      <4> QED
        BY <3>1, <4>1, <4>2, <4>3 DEF Has
    <3>4. CASE req[t].field # f
      <4>1. remote'[d][f] = remote[d][f]
        BY <1>1, <3>2, <3>4 DEF TypeOK
      <4>2. Wanted(d, f, 0)' \subseteq Wanted(d, f, 0)
        BY <1>2, <1>4, <3>1, <3>4, WantedPop
      <4>3. Has(remote[d][f], Wanted(d, f, 0))
        BY <2>2 DEF KeptInv
      <4> QED
        BY <3>1, <4>1, <4>2, <4>3 DEF Has
    <3> QED
      BY <3>3, <3>4
  <2> QED
    BY <1>1, <2>1, <2>2
<1> QED
  BY <1>2, <1>4, <1>5, <1>7, <1>8, KeptPop

LEMMA KeptStep ==
  ASSUME BaseInv, SingleDevice, NEW d \in Devices, NEW f \in Fields, KeptInv(d, f),
         Serial(f), [Next]_vars
  PROVE  KeptInv(d, f)'
<1>1. ASSUME NEW t \in Taps, TapStep(t) PROVE KeptInv(d, f)'
  BY <1>1, KeptTap, KeptCallback
<1>2. ASSUME NEW e \in Devices, Commit(e) \/ Ack(e) \/ Reject(e) PROVE KeptInv(d, f)'
  <2>1. e = d
    BY DEF SingleDevice
  <2> QED
    BY <1>2, <2>1, KeptCommit, KeptAck, KeptReject
<1>3. ASSUME \/ \E e \in Devices : StreamReset(e) \/ Restart(e)
             \/ UNCHANGED vars
      PROVE  KeptInv(d, f)'
  <2>1. /\ UNCHANGED <<doc, remote, queue, applied, req, list>>
        /\ committed'[d] \in {committed[d], 0} /\ seen'[d] \in {seen[d], 0}
        /\ \A u \in Taps : phase'[u] = "got" => phase[u] = "got"
    <3>1. CASE \E e \in Devices : StreamReset(e)
      BY <3>1 DEF StreamReset, ghostVars, BaseInv, TypeOK
    <3>2. CASE \E e \in Devices : Restart(e)
      BY <3>2 DEF Restart, ghostVars, BaseInv, TypeOK
    <3>3. CASE UNCHANGED vars
      BY <3>3 DEF vars, sdkVars, ghostVars
    <3> QED
      BY <1>3, <3>1, <3>2, <3>3
  <2>2. \A u \in Taps : phase'[u] = "got" /\ req'[u].field = f
                          => Has(list'[u], Wanted(d, f, Len(queue[d])))
    BY <2>1 DEF KeptInv
  <2> QED
    BY <2>1, <2>2, KeptFrame
<1> QED
  BY <1>1, <1>2, <1>3 DEF Next, DeviceStep

(* Nothing is promised at the start.                                       *)
LEMMA KeptInit ==
  ASSUME Init, NEW d \in Devices, NEW f
  PROVE  KeptInv(d, f)
<1>1. /\ queue[d] = <<>> /\ committed[d] = 0 /\ seen[d] = 0 /\ applied = {}
      /\ \A t \in Taps : phase[t] = "untapped"
  BY DEF Init
<1>2. Wanted(d, f, 0) = {}
  BY <1>1 DEF Wanted, Stored, Acknowledged
<1> QED
  BY <1>1, <1>2 DEF KeptInv, Has

(* On the only device a list keeps what was promised, when its taps come   *)
(* one at a time.                                                          *)
PromisesInv(f) == BaseInv /\ Serial(f) /\ \A d \in Devices : KeptInv(d, f)

LEMMA PromisesInductive ==
  ASSUME SingleDevice, NEW f \in Fields, OneByOne(f)
  PROVE  /\ Init => PromisesInv(f)
         /\ PromisesInv(f) /\ [Next]_vars => PromisesInv(f)'
<1>1. Init => PromisesInv(f)
  BY BaseInit, SerialInit, KeptInit DEF PromisesInv
<1>2. ASSUME PromisesInv(f), [Next]_vars PROVE PromisesInv(f)'
  <2>1. TypeOK /\ Serial(f)' /\ BaseInv'
    BY <1>2, BaseStep, SerialStep DEF PromisesInv, BaseInv
  <2>2. \A d \in Devices : KeptInv(d, f)'
    BY <1>2, KeptStep DEF PromisesInv
  <2> QED
    BY <2>1, <2>2 DEF PromisesInv
<1> QED
  BY <1>1, <1>2

LEMMA PromisesKept ==
  ASSUME NEW f \in Fields, PromisesInv(f)
  PROVE  Kept(f)
<1> SUFFICES ASSUME NEW t \in Taps, Acknowledged(t), req[t].field = f, req[t].kind = "add",
                    Unremoved(f, req[t].item)
             PROVE  Contains(doc[f], req[t].item)
  BY DEF Kept, Unremoved
<1>1. phase[t] # "untapped"
  BY DEF PromisesInv, BaseInv, AppliedInv, Acknowledged
<1>2. req[t].item \in Items /\ req[t].dev \in Devices
  BY <1>1 DEF PromisesInv, BaseInv, TypeOK, Requests
<1>3. PICK d \in Devices : TRUE
  BY <1>2
<1>4. req[t].item \in Wanted(d, f, committed[d])
  BY <1>2 DEF Wanted, Stored, AddedBy
<1> QED
  BY <1>4 DEF PromisesInv, KeptInv, Has

(* A user whose blocking was answered stays blocked: as long as the        *)
(* account is on one device, whatever the interleaving of taps with        *)
(* restarts, offline reads, refused writes and replayed write streams.     *)
(* (blockUser writes the list it read, and the HUD covers it.)             *)
THEOREM BlocksKeptAlways ==
  ASSUME SingleDevice
  PROVE  Spec => []BlocksKept
<1>1. CASE "blocked_accounts" \in Fields
  <2> DEFINE Inv == PromisesInv("blocked_accounts")
  <2>1. Init => Inv
    BY <1>1, PromisesInductive DEF OneByOne
  <2>2. Inv /\ [Next]_vars => Inv'
    BY <1>1, PromisesInductive DEF OneByOne
  <2>3. Inv => BlocksKept
    BY <1>1, PromisesKept DEF BlocksKept
  <2> HIDE DEF Inv
  <2> QED
    BY <2>1, <2>2, <2>3, PTL DEF Spec
<1>2. CASE "blocked_accounts" \notin Fields
  <2>1. BlocksKept
    BY <1>2 DEF BlocksKept
  <2> QED
    BY <2>1, PTL
<1> QED
  BY <1>1, <1>2

-----------------------------------------------------------------------------
(* Several devices, online: every request is an atomic edit.               *)

(* One request at a time on every list, on any devices, online and never   *)
(* killed: between its snapshot and its answer nobody else writes the list.*)
Patient == MaxInFlight <= 1 /\ MaxRestarts = 0 /\ OfflineReads = FALSE

(* A snapshot is the server's list, the list that is written is its edit,  *)
(* and once the server has it, it is the server's list.                    *)
EditOf(t) ==
  /\ phase[t] = "got" => list[t] = doc[req[t].field]
  /\ phase[t] = "writing" /\ t \notin applied => list[t] = NewList(req[t], doc[req[t].field])
  /\ phase[t] = "writing" /\ t \in applied => doc[req[t].field] = list[t]

(* What an applied request added and none removed is in the list.          *)
AppliedKept(f) ==
  \A p \in Items, t \in applied :
    Unremoved(f, p) /\ AddedBy(t, f, p) => Contains(doc[f], p)

AtomicInv ==
  /\ BaseInv
  /\ NothingLost
  /\ \A f \in Fields : Serial(f) /\ AppliedKept(f)
  /\ \A t \in Taps : EditOf(t)

(* A pending write is a request in flight, alone on its list.              *)
LEMMA QueuedAlone ==
  ASSUME TypeOK, RestInv, NothingLost, NEW d \in Devices, NEW k \in 1..Len(queue[d])
  PROVE  /\ queue[d][k] \in Taps /\ phase[queue[d][k]] = "writing"
         /\ InFlight(queue[d][k])
         /\ req[queue[d][k]] \in Requests /\ req[queue[d][k]].field \in Fields
<1>1. queue[d][k] \in Taps /\ req[queue[d][k]] \in Requests
  BY QueuedRequest
<1>2. phase[queue[d][k]] \in {"writing", "lost"}
  BY DEF RestInv, QueueInv
<1>3. phase[queue[d][k]] # "lost"
  BY <1>1 DEF NothingLost
<1> QED
  BY <1>1, <1>2, <1>3 DEF InFlight, Live, Requests

(* So the snapshot of a request alone on its list lays nothing over it.    *)
LEMMA NoOverlayAlone ==
  ASSUME TypeOK, RestInv, NothingLost, NEW f, Serial(f), NEW t \in Taps,
         phase[t] = "getting", req[t].field = f, NEW d \in Devices, NEW base
  PROVE  LocalView(d, f, base) = base
<1>1. ASSUME NEW k \in 1..Len(queue[d]), req[queue[d][k]].field = f PROVE FALSE
  <2>1. queue[d][k] \in Taps /\ phase[queue[d][k]] = "writing" /\ InFlight(queue[d][k])
    BY QueuedAlone
  <2>2. InFlight(t)
    BY DEF InFlight, Live
  <2> QED
    BY <1>1, <2>1, <2>2 DEF Serial
<1> QED
  BY <1>1 DEF LocalView

(* A step that leaves the server's lists alone.                            *)
LEMMA AtomicFrame ==
  ASSUME AtomicInv, BaseInv', NothingLost', \A f \in Fields : Serial(f)', [Next]_vars,
         doc' = doc, applied' = applied, NEW S \in SUBSET Taps,
         \A u \in Taps \ S : /\ phase'[u] \in {phase[u], "done", "failed"}
                             /\ req'[u] = req[u] /\ list'[u] = list[u],
         \A u \in S : EditOf(u)'
  PROVE  AtomicInv'
<1>1. ASSUME NEW f \in Fields PROVE AppliedKept(f)'
  <2> SUFFICES ASSUME NEW p \in Items, NEW u \in applied, Unremoved(f, p)', AddedBy(u, f, p)'
               PROVE  Contains(doc[f], p)
    BY DEF AppliedKept
  <2>1. Unremoved(f, p)
    BY UnremovedBefore DEF AtomicInv, BaseInv
  <2>2. AddedBy(u, f, p)
    BY Tapped DEF AddedBy, AtomicInv
  <2> QED
    BY <2>1, <2>2 DEF AtomicInv, AppliedKept
<1>2. ASSUME NEW u \in Taps \ S PROVE EditOf(u)'
  <2>1. /\ phase'[u] \in {phase[u], "done", "failed"} /\ req'[u] = req[u]
        /\ list'[u] = list[u]
    BY <1>2
  <2>2. EditOf(u)
    BY DEF AtomicInv
  <2> QED
    BY <2>1, <2>2 DEF EditOf
<1> QED
  BY <1>1, <1>2 DEF AtomicInv

LEMMA AtomicTap ==
  ASSUME Patient, AtomicInv, BaseInv', \A f \in Fields : Serial(f)', [Next]_vars,
         NEW t \in Taps, TapStep(t)
  PROVE  AtomicInv'
<1>1. TypeOK /\ RestInv /\ NothingLost /\ \A f \in Fields : Serial(f)
  BY DEF AtomicInv, BaseInv
<1>2. phase[t] \in {"untapped", "getting", "got"}
  BY DEF TapStep, Tap, SnapshotOnline, SnapshotOffline, GetFails, Callback
<1>3. t \notin applied
  BY <1>2 DEF AtomicInv, BaseInv, AppliedInv
<1>4. doc' = doc /\ applied' = applied
  BY DEF TapStep, Tap, SnapshotOnline, SnapshotOffline, GetFails, Callback, ghostVars
<1>5. \A u \in Taps : u # t => phase'[u] = phase[u] /\ req'[u] = req[u] /\ list'[u] = list[u]
  BY <1>1 DEF TapStep, Tap, SnapshotOnline, SnapshotOffline, GetFails, Callback, TypeOK
<1>6. EditOf(t)' /\ phase'[t] # "lost"
  <2>1. CASE (\E d \in Devices, f \in Fields, i \in Items : Tap(t, d, f, i)) \/ GetFails(t)
    <3>1. phase'[t] \in {"getting", "failed"}
      BY <1>1, <2>1 DEF Tap, GetFails, TypeOK
    <3> QED
      BY <3>1 DEF EditOf
  <2>2. CASE SnapshotOnline(t)
    <3>1. req[t] \in Requests /\ req[t].dev \in Devices /\ req[t].field \in Fields /\ phase[t] = "getting"
      BY <1>1, <2>2 DEF SnapshotOnline, TypeOK, Requests
    <3>2. /\ phase'[t] = "got" /\ req' = req
          /\ list'[t] = LocalView(req[t].dev, req[t].field, doc[req[t].field])
      BY <1>1, <2>2 DEF SnapshotOnline, TypeOK
    <3>3. list'[t] = doc[req[t].field]
      BY <1>1, <3>1, <3>2, NoOverlayAlone
    <3> QED
      BY <1>4, <3>2, <3>3 DEF EditOf
  <2>3. CASE SnapshotOffline(t)
    BY <2>3 DEF SnapshotOffline, Patient
  <2>4. CASE Callback(t)
    <3>1. phase'[t] = "writing" /\ req' = req /\ list'[t] = NewList(req[t], list[t]) /\ phase[t] = "got"
      BY <1>1, <2>4 DEF Callback, TypeOK
    <3>2. list[t] = doc[req[t].field]
      BY <3>1 DEF AtomicInv, EditOf
    <3> QED
      BY <1>3, <1>4, <3>1, <3>2 DEF EditOf
  <2> QED
    BY <2>1, <2>2, <2>3, <2>4 DEF TapStep
<1>7. NothingLost'
  BY <1>1, <1>5, <1>6 DEF NothingLost
<1>8. /\ {t} \in SUBSET Taps /\ \A u \in {t} : EditOf(u)'
      /\ \A u \in Taps \ {t} : /\ phase'[u] \in {phase[u], "done", "failed"}
                              /\ req'[u] = req[u] /\ list'[u] = list[u]
  BY <1>5, <1>6
<1> QED
  BY <1>4, <1>7, <1>8, AtomicFrame

(* The server applies a write, for the first time or again.                *)
LEMMA CommitEdits ==
  ASSUME AtomicInv, NEW d \in Devices, Commit(d), NEW t, t = queue[d][committed[d] + 1]
  PROVE  /\ t \in Taps /\ phase[t] = "writing" /\ InFlight(t)
         /\ req[t] \in Requests /\ req[t].field \in Fields
         /\ doc' = [doc EXCEPT ![req[t].field] =
                      IF t \in applied THEN @ ELSE NewList(req[t], @)]
         /\ doc'[req[t].field] = list[t]
         /\ applied' = applied \cup {t}
         /\ UNCHANGED <<phase, req, list>>
<1>1. TypeOK /\ RestInv /\ NothingLost /\ EditOf(t)
  <2>1. t \in Taps
    BY QueuedRequest DEF Commit, Sendable, TypeOK, AtomicInv, BaseInv
  <2> QED
    BY <2>1 DEF AtomicInv, BaseInv
<1>2. committed[d] + 1 \in 1..Len(queue[d])
  BY <1>1 DEF Commit, Sendable, TypeOK
<1>3. /\ t \in Taps /\ phase[t] = "writing" /\ InFlight(t)
      /\ req[t] \in Requests /\ req[t].field \in Fields
  BY <1>1, <1>2, QueuedAlone
<1>4. /\ doc' = [doc EXCEPT ![req[t].field] = list[t]]
      /\ applied' = applied \cup {t} /\ UNCHANGED <<phase, req, list>>
  BY DEF Commit
<1>5. list[t] = IF t \in applied THEN doc[req[t].field] ELSE NewList(req[t], doc[req[t].field])
  BY <1>1, <1>3 DEF EditOf
<1>6. doc \in [Fields -> Lists]
  BY <1>1 DEF TypeOK
<1> QED
  BY <1>3, <1>4, <1>5, <1>6

LEMMA AtomicCommit ==
  ASSUME AtomicInv, BaseInv', \A f \in Fields : Serial(f)', [Next]_vars,
         NEW d \in Devices, Commit(d)
  PROVE  AtomicInv'
<1> DEFINE t == queue[d][committed[d] + 1]
           g == req[t].field
<1>1. /\ t \in Taps /\ phase[t] = "writing" /\ InFlight(t)
      /\ req[t] \in Requests /\ g \in Fields
      /\ doc' = [doc EXCEPT ![g] = IF t \in applied THEN @ ELSE NewList(req[t], @)]
      /\ doc'[g] = list[t]
      /\ applied' = applied \cup {t}
      /\ UNCHANGED <<phase, req, list>>
  BY CommitEdits
<1> HIDE DEF t
<1>2. TypeOK /\ NothingLost /\ Serial(g) /\ doc \in [Fields -> Lists]
  BY <1>1 DEF AtomicInv, BaseInv, TypeOK
<1>3. \A f \in Fields : f # g => doc'[f] = doc[f]
  BY <1>1, <1>2
<1>4. ASSUME NEW u \in Taps PROVE EditOf(u)'
  <2>1. CASE u = t
    BY <1>1, <2>1 DEF EditOf
  <2>2. CASE u # t
    <3>1. ASSUME InFlight(u) PROVE EditOf(u)'
      <4>1. req[u].field # g /\ req[u] \in Requests
        BY <1>1, <1>2, <2>2, <3>1 DEF Serial, TypeOK, InFlight, Live
      <4>2. doc'[req[u].field] = doc[req[u].field]
        BY <1>3, <4>1 DEF Requests
      <4>3. EditOf(u)
        BY DEF AtomicInv
      <4> QED
        BY <1>1, <2>2, <4>2, <4>3 DEF EditOf
    <3>2. ASSUME ~InFlight(u) PROVE EditOf(u)'
      BY <1>1, <3>2 DEF EditOf, InFlight, Live
    <3> QED
      BY <3>1, <3>2
  <2> QED
    BY <2>1, <2>2
<1>5. ASSUME NEW f \in Fields PROVE AppliedKept(f)'
  <2> SUFFICES ASSUME NEW p \in Items, NEW u \in applied', Unremoved(f, p), AddedBy(u, f, p)
               PROVE  Contains(doc'[f], p)
    BY <1>1 DEF AppliedKept, Unremoved, AddedBy
  <2>1. CASE f # g \/ t \in applied
    <3>1. doc'[f] = doc[f]
      BY <1>1, <1>2, <2>1
    <3>2. u \in applied
      BY <1>1, <2>1 DEF AddedBy
    <3> QED
      BY <3>1, <3>2 DEF AtomicInv, AppliedKept
  <2>2. CASE f = g /\ t \notin applied
    <3>1. doc'[f] = NewList(req[t], doc[f]) /\ doc[f] \in Lists
      BY <1>1, <1>2, <2>2
    <3>2. CASE u = t
      BY <1>1, <3>1, <3>2, NewListAdds DEF AddedBy
    <3>3. CASE u # t
      <4>1. u \in applied
        BY <1>1, <3>3
      <4>2. Contains(doc[f], p)
        BY <4>1 DEF AtomicInv, AppliedKept
      <4>3. req[t].kind = "remove" => req[t].item # p
        BY <1>1, <2>2 DEF Unremoved
      <4> QED
        BY <1>1, <3>1, <4>2, <4>3, NewListKeeps
    <3> QED
      BY <3>2, <3>3
  <2> QED
    BY <2>1, <2>2
<1>6. NothingLost'
  BY <1>1, <1>2 DEF NothingLost
<1> QED
  BY <1>4, <1>5, <1>6 DEF AtomicInv

(* The oldest write is answered.                                           *)
LEMMA AtomicAnswer ==
  ASSUME AtomicInv, BaseInv', \A f \in Fields : Serial(f)', [Next]_vars,
         NEW d \in Devices, Ack(d) \/ Reject(d)
  PROVE  AtomicInv'
<1>1. /\ doc' = doc /\ applied' = applied /\ req' = req /\ list' = list
      /\ \E r \in {"done", "failed"} : phase' = Completed(Head(queue[d]), r)
  BY DEF Ack, Reject, ghostVars
<1>2. \A u \in Taps : phase'[u] \in {phase[u], "done", "failed"}
  BY <1>1 DEF Completed, AtomicInv, BaseInv, TypeOK
<1>3. NothingLost'
  BY <1>2 DEF NothingLost, AtomicInv
<1>4. /\ {} \in SUBSET Taps /\ \A u \in {} : EditOf(u)'
      /\ \A u \in Taps \ {} : /\ phase'[u] \in {phase[u], "done", "failed"}
                             /\ req'[u] = req[u] /\ list'[u] = list[u]
  BY <1>1, <1>2
<1> QED
  BY <1>1, <1>3, <1>4, AtomicFrame

LEMMA AtomicInit == Init => AtomicInv
<1> SUFFICES ASSUME Init PROVE AtomicInv
  OBVIOUS
<1>1. BaseInv /\ \A f : Serial(f)
  BY BaseInit, SerialInit
<1>2. applied = {} /\ \A t \in Taps : phase[t] = "untapped"
  BY DEF Init
<1> QED
  BY <1>1, <1>2 DEF AtomicInv, NothingLost, AppliedKept, EditOf

LEMMA AtomicStep ==
  ASSUME Patient
  PROVE  AtomicInv /\ [Next]_vars => AtomicInv'
<1> SUFFICES ASSUME AtomicInv, [Next]_vars PROVE AtomicInv'
  OBVIOUS
<1>1. BaseInv' /\ TypeOK
  BY BaseStep DEF AtomicInv, BaseInv
<1>2. \A f \in Fields : Serial(f)'
  BY <1>1, SerialStep DEF AtomicInv, OneByOne, Patient
<1>3. ASSUME NEW t \in Taps, TapStep(t) PROVE AtomicInv'
  BY <1>1, <1>2, <1>3, AtomicTap
<1>4. ASSUME NEW d \in Devices, Commit(d) \/ Ack(d) \/ Reject(d) PROVE AtomicInv'
  BY <1>1, <1>2, <1>4, AtomicCommit, AtomicAnswer
<1>5. ASSUME NEW d \in Devices, Restart(d) PROVE FALSE
  BY <1>1, <1>5 DEF Restart, Patient, TypeOK
<1>6. CASE UNCHANGED vars \/ \E d \in Devices : StreamReset(d)
  <2>1. UNCHANGED <<doc, applied, phase, req, list>>
    BY <1>6 DEF vars, StreamReset, ghostVars
  <2>2. /\ {} \in SUBSET Taps /\ \A u \in {} : EditOf(u)'
        /\ \A u \in Taps \ {} : /\ phase'[u] \in {phase[u], "done", "failed"}
                               /\ req'[u] = req[u] /\ list'[u] = list[u]
    BY <2>1
  <2>3. NothingLost'
    BY <2>1 DEF NothingLost, AtomicInv
  <2> QED
    BY <1>1, <1>2, <2>1, <2>2, <2>3, AtomicFrame
<1> QED
  BY <1>3, <1>4, <1>5, <1>6 DEF Next, DeviceStep

-----------------------------------------------------------------------------
(* The steps of AtomicLists.                                               *)

LEMMA OutcomeOf ==
  ASSUME NEW t \in Taps
  PROVE  /\ AbsOutcome[t] = IF phase[t] = "untapped" THEN "none"
                            ELSE IF phase[t] = "done" THEN "ok"
                            ELSE IF phase[t] = "failed" THEN "error"
                            ELSE IF InFlight(t) /\ t \in applied THEN "applied" ELSE "asked"
         /\ AbsOutcome'[t] = IF phase'[t] = "untapped" THEN "none"
                             ELSE IF phase'[t] = "done" THEN "ok"
                             ELSE IF phase'[t] = "failed" THEN "error"
                             ELSE IF InFlight(t)' /\ t \in applied' THEN "applied" ELSE "asked"
BY DEF AbsOutcome, InFlight, Live

(* A step in which one request, if any, moves.                             *)
LEMMA OneMoves ==
  ASSUME NEW t \in Taps,
         \A u \in Taps : u # t => /\ phase'[u] = phase[u] /\ req'[u] = req[u]
                                  /\ u \in applied' <=> u \in applied
  PROVE  /\ AbsAsk' = [AbsAsk EXCEPT ![t] = AbsAsk'[t]]
         /\ AbsOutcome' = [AbsOutcome EXCEPT ![t] = AbsOutcome'[t]]
<1>1. \A u \in Taps : u # t => AbsAsk'[u] = AbsAsk[u]
  BY DEF AbsAsk
<1>2. \A u \in Taps : u # t => AbsOutcome'[u] = AbsOutcome[u]
  BY OutcomeOf DEF InFlight
<1>3. /\ AbsAsk = [u \in Taps |-> AbsAsk[u]] /\ AbsAsk' = [u \in Taps |-> AbsAsk'[u]]
      /\ AbsOutcome = [u \in Taps |-> AbsOutcome[u]]
      /\ AbsOutcome' = [u \in Taps |-> AbsOutcome'[u]]
  BY DEF AbsAsk, AbsOutcome
<1> QED
  BY <1>1, <1>2, <1>3

LEMMA AtomicAsk ==
  ASSUME AtomicInv, NEW t \in Taps, NEW d \in Devices, NEW f \in Fields, NEW i \in Items,
         Tap(t, d, f, i)
  PROVE  Atomic!Ask(t)
<1>1. TypeOK /\ t \notin applied /\ phase[t] = "untapped"
  BY DEF AtomicInv, BaseInv, AppliedInv, Tap
<1>2. /\ phase' = [phase EXCEPT ![t] = "getting"] /\ doc' = doc /\ applied' = applied
      /\ req' = [req EXCEPT ![t] = [dev |-> d, field |-> f, item |-> i,
                    kind |-> IF Adds(d, f, i) THEN "add" ELSE "remove"]]
  BY DEF Tap, ghostVars
<1> DEFINE k == IF Adds(d, f, i) THEN "add" ELSE "remove"
<1>3. AbsOutcome[t] = "none" /\ AbsOutcome'[t] = "asked"
  <2>1. phase'[t] = "getting" /\ t \notin applied'
    BY <1>1, <1>2 DEF TypeOK
  <2> QED
    BY <1>1, <2>1, OutcomeOf
<1>4. AbsAsk'[t] = [field |-> f, kind |-> k, item |-> i]
  <2>1. /\ req'[t] \in Requests /\ req'[t].field = f /\ req'[t].kind = k /\ req'[t].item = i
    BY <1>1, <1>2 DEF Requests, TypeOK
  <2> HIDE DEF k
  <2> QED
    BY <2>1, NoneAssumption DEF AbsAsk
<1>5. AbsAsk'[t] \in Atomic!Asks
  BY <1>4 DEF Atomic!Asks
<1>6. \A u \in Taps : u # t => /\ phase'[u] = phase[u] /\ req'[u] = req[u]
                               /\ u \in applied' <=> u \in applied
  BY <1>1, <1>2 DEF TypeOK
<1>7. /\ AbsAsk' = [AbsAsk EXCEPT ![t] = AbsAsk'[t]]
      /\ AbsOutcome' = [AbsOutcome EXCEPT ![t] = "asked"]
  BY <1>3, <1>6, OneMoves
<1> QED
  BY <1>2, <1>3, <1>5, <1>7 DEF Atomic!Ask

(* A step of a tap that changes only where its callbacks are.              *)
LEMMA AtomicSame ==
  ASSUME UNCHANGED <<doc, req, applied>>,
         \A u \in Taps : phase'[u] = phase[u]
                         \/ (phase[u] \in Live /\ phase'[u] \in Live)
  PROVE  UNCHANGED Atomic!vars
<1>1. AbsAsk' = AbsAsk
  BY DEF AbsAsk
<1>2. ASSUME NEW u \in Taps PROVE AbsOutcome'[u] = AbsOutcome[u]
  BY OutcomeOf DEF InFlight, Live
<1>3. AbsOutcome = [u \in Taps |-> AbsOutcome[u]] /\ AbsOutcome' = [u \in Taps |-> AbsOutcome'[u]]
  BY DEF AbsOutcome
<1> QED
  BY <1>1, <1>2, <1>3 DEF Atomic!vars

LEMMA AtomicFailed ==
  ASSUME TypeOK, NEW t \in Taps, t \notin applied, InFlight(t), UNCHANGED <<doc, req, applied>>,
         phase' = [phase EXCEPT ![t] = "failed"]
  PROVE  Atomic!Drop(t)
<1>1. phase'[t] = "failed" /\ \A u \in Taps : u # t => phase'[u] = phase[u]
  BY DEF TypeOK
<1>2. AbsOutcome[t] = "asked" /\ AbsOutcome'[t] = "error"
  BY <1>1, OutcomeOf DEF InFlight, Live
<1>3. AbsOutcome' = [AbsOutcome EXCEPT ![t] = "error"]
  BY <1>1, <1>2, OneMoves
<1>4. AbsAsk' = AbsAsk
  BY DEF AbsAsk
<1> QED
  BY <1>2, <1>3, <1>4 DEF Atomic!Drop

LEMMA AtomicApply ==
  ASSUME AtomicInv, NEW d \in Devices, Commit(d)
  PROVE  UNCHANGED Atomic!vars \/ \E t \in Taps : Atomic!Apply(t)
<1>1. PICK t \in Taps :
        /\ phase[t] = "writing" /\ InFlight(t)
        /\ req[t] \in Requests /\ req[t].field \in Fields
        /\ doc' = [doc EXCEPT ![req[t].field] = IF t \in applied THEN @ ELSE NewList(req[t], @)]
        /\ applied' = applied \cup {t}
        /\ UNCHANGED <<phase, req, list>>
  BY CommitEdits
<1>2. TypeOK /\ doc \in [Fields -> Lists]
  BY DEF AtomicInv, BaseInv, TypeOK
<1>3. CASE t \in applied
  <2>1. applied' = applied /\ doc' = doc
    BY <1>1, <1>2, <1>3
  <2>2. UNCHANGED <<doc, req, applied>>
    BY <1>1, <2>1
  <2>3. \A u \in Taps : phase'[u] = phase[u] \/ (phase[u] \in Live /\ phase'[u] \in Live)
    BY <1>1
  <2> QED
    BY <2>2, <2>3, AtomicSame
<1>4. CASE t \notin applied
  <2>1. AbsAsk[t] = [field |-> req[t].field, kind |-> req[t].kind, item |-> req[t].item]
    BY <1>1, NoneAssumption DEF AbsAsk
  <2>2. ASSUME NEW l PROVE NewList(req[t], l) = Atomic!Edited(AbsAsk[t], l)
    <3>1. AbsAsk[t].kind = req[t].kind /\ AbsAsk[t].item = req[t].item
      BY <2>1
    <3> QED
      BY <3>1 DEF NewList, Atomic!Edited, RemoveFirst, Atomic!RemoveFirst, SelectInSeq,
                  Atomic!SelectInSeq, RemoveAt, Atomic!RemoveAt, Min, Atomic!Min
  <2>3. doc' = [doc EXCEPT ![AbsAsk[t].field] = Atomic!Edited(AbsAsk[t], @)]
    <3>1. AbsAsk[t].field = req[t].field
      BY <2>1
    <3>2. doc' = [doc EXCEPT ![req[t].field] = NewList(req[t], doc[req[t].field])]
      BY <1>1, <1>4
    <3> QED
      BY <2>2, <3>1, <3>2
  <2>4. AbsOutcome[t] = "asked" /\ AbsOutcome'[t] = "applied"
    <3>1. t \in applied' /\ InFlight(t)' /\ phase'[t] = phase[t]
      BY <1>1 DEF InFlight
    <3> QED
      BY <1>1, <1>4, <3>1, OutcomeOf
  <2>5. \A u \in Taps : u # t => /\ phase'[u] = phase[u] /\ req'[u] = req[u]
                                 /\ u \in applied' <=> u \in applied
    BY <1>1
  <2>6. AbsOutcome' = [AbsOutcome EXCEPT ![t] = "applied"]
    BY <1>1, <2>4, <2>5, OneMoves
  <2>7. AbsAsk' = AbsAsk
    BY <1>1 DEF AbsAsk
  <2>8. Atomic!Apply(t)
    BY <2>3, <2>4, <2>6, <2>7 DEF Atomic!Apply
  <2> QED
    BY <1>1, <2>8
<1> QED
  BY <1>3, <1>4

LEMMA AtomicAnswered ==
  ASSUME AtomicInv, NEW d \in Devices, Ack(d) \/ Reject(d)
  PROVE  \E t \in Taps : Atomic!Answer(t) \/ Atomic!Drop(t)
<1> DEFINE t == queue[d][1]
<1>1. TypeOK /\ RestInv /\ NothingLost
  BY DEF AtomicInv, BaseInv
<1>2. queue[d] \in Seq(Taps) /\ Len(queue[d]) \in Nat /\ 1 \in 1..Len(queue[d]) /\ Head(queue[d]) = t
  BY <1>1 DEF Ack, Reject, TypeOK
<1>3. t \in Taps /\ phase[t] = "writing" /\ InFlight(t)
  BY <1>1, <1>2, QueuedAlone
<1>4. CASE Ack(d)
  <2>1. /\ UNCHANGED <<doc, req, applied>> /\ phase' = Completed(t, "done")
    BY <1>2, <1>4 DEF Ack, ghostVars
  <2>2. t \in applied
    <3>1. 1 \in 1..committed[d]
      BY <1>1, <1>4 DEF Ack, TypeOK
    <3> QED
      BY <1>1, <3>1 DEF RestInv, CommittedInv
  <2>3. phase'[t] = "done" /\ \A u \in Taps : u # t => phase'[u] = phase[u]
    BY <1>1, <1>3, <2>1 DEF Completed, TypeOK
  <2>4. AbsOutcome[t] = "applied" /\ AbsOutcome'[t] = "ok"
    BY <1>3, <2>2, <2>3, OutcomeOf
  <2>5. AbsOutcome' = [AbsOutcome EXCEPT ![t] = "ok"]
    BY <1>3, <2>1, <2>3, <2>4, OneMoves
  <2>6. AbsAsk' = AbsAsk
    BY <2>1 DEF AbsAsk
  <2>7. Atomic!Answer(t)
    BY <2>1, <2>4, <2>5, <2>6 DEF Atomic!Answer
  <2> QED
    BY <1>3, <2>7
<1>5. CASE Reject(d)
  <2>1. /\ UNCHANGED <<doc, req, applied>> /\ phase' = Completed(t, "failed") /\ t \notin applied
    BY <1>2, <1>5 DEF Reject, ghostVars
  <2>2. phase' = [phase EXCEPT ![t] = "failed"]
    BY <1>1, <1>3, <2>1 DEF Completed, TypeOK
  <2> QED
    BY <1>1, <1>3, <2>1, <2>2, AtomicFailed
<1> QED
  BY <1>4, <1>5

LEMMA AtomicNext ==
  ASSUME Patient, AtomicInv, [Next]_vars
  PROVE  [Atomic!Next]_(Atomic!vars)
<1>1. TypeOK
  BY DEF AtomicInv, BaseInv
<1>2. ASSUME NEW t \in Taps, TapStep(t) PROVE [Atomic!Next]_(Atomic!vars)
  <2>1. CASE \E d \in Devices, f \in Fields, i \in Items : Tap(t, d, f, i)
    BY <2>1, AtomicAsk DEF Atomic!Next
  <2>2. CASE SnapshotOnline(t) \/ SnapshotOffline(t) \/ Callback(t)
    <3>1. /\ UNCHANGED <<doc, req, applied>>
          /\ phase[t] \in {"getting", "got"}
          /\ phase' = [phase EXCEPT ![t] = "got"] \/ phase' = [phase EXCEPT ![t] = "writing"]
      BY <2>2 DEF SnapshotOnline, SnapshotOffline, Callback, ghostVars
    <3>2. \A u \in Taps : phase'[u] = phase[u] \/ (phase[u] \in Live /\ phase'[u] \in Live)
      BY <1>1, <3>1 DEF TypeOK, Live
    <3> QED
      BY <3>1, <3>2, AtomicSame
  <2>3. CASE GetFails(t)
    <3>1. /\ UNCHANGED <<doc, req, applied>> /\ phase[t] = "getting"
          /\ phase' = [phase EXCEPT ![t] = "failed"]
      BY <2>3 DEF GetFails, ghostVars
    <3>2. t \notin applied /\ InFlight(t)
      BY <3>1 DEF AtomicInv, BaseInv, AppliedInv, InFlight, Live
    <3> QED
      BY <1>1, <3>1, <3>2, AtomicFailed DEF Atomic!Next
  <2> QED
    BY <1>2, <2>1, <2>2, <2>3 DEF TapStep
<1>3. ASSUME NEW d \in Devices, Commit(d) PROVE [Atomic!Next]_(Atomic!vars)
  BY <1>3, AtomicApply DEF Atomic!Next
<1>4. ASSUME NEW d \in Devices, Ack(d) \/ Reject(d) PROVE [Atomic!Next]_(Atomic!vars)
  BY <1>4, AtomicAnswered DEF Atomic!Next
<1>5. ASSUME NEW d \in Devices, Restart(d) PROVE FALSE
  BY <1>1, <1>5 DEF Restart, Patient, TypeOK
<1>6. CASE UNCHANGED vars \/ \E d \in Devices : StreamReset(d)
  <2>1. UNCHANGED <<doc, req, applied>> /\ phase' = phase
    BY <1>6 DEF vars, StreamReset, ghostVars
  <2>2. \A u \in Taps : phase'[u] = phase[u] \/ (phase[u] \in Live /\ phase'[u] \in Live)
    BY <2>1
  <2> QED
    BY <2>1, <2>2, AtomicSame
<1> QED
  BY <1>2, <1>3, <1>4, <1>5, <1>6 DEF Next, DeviceStep

(* When the user lets one tap be answered before the next, on whichever    *)
(* device, online and without the application being killed, every request  *)
(* is one atomic edit of the list and its answer tells the truth, although *)
(* the code reads, computes and writes the list in three steps and the SDK *)
(* may send a write twice.                                                 *)
THEOREM AtomicRequestsAlways ==
  ASSUME Patient
  PROVE  Spec => AtomicRequests
<1>1. Init => Atomic!Init
  BY NoneAssumption DEF Init, Atomic!Init, AbsAsk, AbsOutcome, Atomic!Nothing
<1>2. Init => AtomicInv
  BY AtomicInit
<1>3. AtomicInv /\ [Next]_vars => AtomicInv'
  BY AtomicStep
<1>4. AtomicInv /\ [Next]_vars => [Atomic!Next]_(Atomic!vars)
  BY AtomicNext
<1> QED
  BY <1>1, <1>2, <1>3, <1>4, PTL DEF Spec, AtomicRequests, Atomic!Spec

(* A post whose save was answered stays saved, one tap on the list at a    *)
(* time: on one device whatever else happens, or on several that stay      *)
(* online and alive.                                                       *)
THEOREM SavesKeptAlways ==
  ASSUME MaxInFlight <= 1, SingleDevice \/ Patient
  PROVE  Spec => []SavesKept
<1>1. CASE "collections" \notin Fields
  <2>1. SavesKept
    BY <1>1 DEF SavesKept
  <2> QED
    BY <2>1, PTL
<1>2. CASE "collections" \in Fields /\ SingleDevice
  <2> DEFINE Inv == PromisesInv("collections")
  <2>1. Init => Inv
    BY <1>2, PromisesInductive DEF OneByOne
  <2>2. Inv /\ [Next]_vars => Inv'
    BY <1>2, PromisesInductive DEF OneByOne
  <2>3. Inv => SavesKept
    BY <1>2, PromisesKept DEF SavesKept
  <2> HIDE DEF Inv
  <2> QED
    BY <2>1, <2>2, <2>3, PTL DEF Spec
<1>3. CASE "collections" \in Fields /\ Patient
  <2>1. Init => AtomicInv
    BY AtomicInit
  <2>2. AtomicInv /\ [Next]_vars => AtomicInv'
    BY <1>3, AtomicStep
  <2>3. AtomicInv => SavesKept
    <3> SUFFICES ASSUME AtomicInv, NEW t \in Taps, Acknowledged(t),
                        AddedBy(t, "collections", req[t].item),
                        Unremoved("collections", req[t].item)
                 PROVE  Contains(doc["collections"], req[t].item)
      BY DEF SavesKept, Kept, AddedBy, Unremoved
    <3>1. t \in applied /\ phase[t] # "untapped"
      BY DEF Acknowledged, AtomicInv, BaseInv, AppliedInv
    <3>2. req[t].item \in Items
      BY <3>1 DEF AtomicInv, BaseInv, TypeOK, Requests
    <3> QED
      BY <1>3, <3>1, <3>2 DEF AtomicInv, AppliedKept
  <2> QED
    BY <2>1, <2>2, <2>3, PTL DEF Spec
<1> QED
  BY <1>1, <1>2, <1>3

-----------------------------------------------------------------------------
(* The toggle is right on one device: NoDuplicates, AlertMatchesButton.    *)

(* The lists that are edited by toggles.                                   *)
Toggled == Fields \ {"blocked_accounts"}

OnList(t, f) == InFlight(t) /\ req[t].field = f

(* The server, the cached document and appUser have the same list.         *)
Settled(d, f) == doc[f] = cache[d][f] /\ remote[d][f] = cache[d][f]

(* The one request under way on a list: the toggle was decided on appUser, *)
(* which stays until the answer, and so does the server's list until the   *)
(* server applies the edit.                                                *)
Editing(d, f, t) ==
  /\ req[t].kind = "add" <=> ~Contains(cache[d][f], req[t].item)
  /\ t \notin applied => Settled(d, f)
  /\ t \in applied => doc[f] = list[t]
  /\ phase[t] = "got" => list[t] = cache[d][f]
  /\ phase[t] = "writing" => list[t] = NewList(req[t], cache[d][f])

(* A write that the cached document includes is what it shows.             *)
SeenShown(d, f) ==
  \A k \in 1..seen[d] : req[queue[d][k]].field = f => remote[d][f] = list[queue[d][k]]

EditInv(d, f) ==
  /\ IsInjective(cache[d][f])
  /\ (\A t \in Taps : ~OnList(t, f)) => Settled(d, f)
  /\ SeenShown(d, f)
  /\ \A t \in Taps : OnList(t, f) => Editing(d, f, t)

(* A step of another list.                                                 *)
LEMMA EditOther ==
  ASSUME NEW d, NEW f, EditInv(d, f), SeenShown(d, f)',
         doc'[f] = doc[f], remote'[d][f] = remote[d][f], cache'[d][f] = cache[d][f],
         \A u \in Taps : OnList(u, f)' => OnList(u, f),
         \A u \in Taps : OnList(u, f) =>
           /\ OnList(u, f)' /\ phase'[u] = phase[u] /\ req'[u] = req[u] /\ list'[u] = list[u]
           /\ u \in applied' <=> u \in applied
  PROVE  EditInv(d, f)'
<1>1. Settled(d, f) => Settled(d, f)'
  BY DEF Settled
<1>2. ASSUME NEW u \in Taps, OnList(u, f)' PROVE Editing(d, f, u)'
  <2>1. OnList(u, f) /\ Editing(d, f, u)
    BY <1>2 DEF EditInv
  <2>2. /\ phase'[u] = phase[u] /\ req'[u] = req[u] /\ list'[u] = list[u]
        /\ u \in applied' <=> u \in applied
    BY <2>1
  <2> QED
    BY <1>1, <2>1, <2>2 DEF Editing
<1>3. (\A u \in Taps : ~OnList(u, f)') => Settled(d, f)'
  BY <1>1 DEF EditInv
<1>4. IsInjective(cache'[d][f])
  BY DEF EditInv
<1> QED
  BY <1>2, <1>3, <1>4 DEF EditInv

(* The request on the list, if it is the only one, decides alone.          *)
LEMMA EditMine ==
  ASSUME NEW d, NEW f, NEW t \in Taps, OnList(t, f)', Editing(d, f, t)',
         \A u \in Taps : OnList(u, f)' => u = t,
         IsInjective(cache'[d][f]), SeenShown(d, f)'
  PROVE  EditInv(d, f)'
BY DEF EditInv

(* Or it is over, and nothing is under way on the list.                    *)
LEMMA EditOver ==
  ASSUME NEW d, NEW f, \A u \in Taps : ~OnList(u, f)', Settled(d, f)',
         IsInjective(cache'[d][f]), SeenShown(d, f)'
  PROVE  EditInv(d, f)'
BY DEF EditInv

LEMMA SeenFrame ==
  ASSUME TypeOK, NEW d \in Devices, NEW f, SeenShown(d, f),
         remote'[d][f] = remote[d][f], seen'[d] \in {seen[d], 0},
         \A k \in 1..Len(queue[d]) : /\ queue'[d][k] = queue[d][k]
                                     /\ req'[queue[d][k]] = req[queue[d][k]]
                                     /\ list'[queue[d][k]] = list[queue[d][k]]
  PROVE  SeenShown(d, f)'
<1>1. \A k \in 1..seen'[d] : k \in 1..Len(queue[d]) /\ k \in 1..seen[d]
  BY DEF TypeOK
<1> QED
  BY <1>1 DEF SeenShown

LEMMA EditTapped ==
  ASSUME BaseInv, SingleDevice, MaxInFlight <= 1, NEW d \in Devices, NEW f \in Toggled,
         NothingLost, Serial(f), EditInv(d, f),
         NEW t \in Taps, NEW g \in Fields, NEW i \in Items, Tap(t, d, g, i)
  PROVE  EditInv(d, f)'
<1>1. TypeOK /\ RestInv /\ f \in Fields /\ f # "blocked_accounts" /\ phase[t] = "untapped"
  BY DEF BaseInv, Toggled, Tap
<1>2. /\ UNCHANGED <<doc, remote, queue, committed, seen, cache, list, applied>>
      /\ phase' = [phase EXCEPT ![t] = "getting"]
      /\ req' = [req EXCEPT ![t] = [dev |-> d, field |-> g, item |-> i,
                    kind |-> IF Adds(d, g, i) THEN "add" ELSE "remove"]]
  BY DEF Tap, sdkVars, ghostVars
<1>3. /\ phase'[t] = "getting" /\ req'[t].field = g /\ req'[t].item = i
      /\ req'[t].kind = IF Adds(d, g, i) THEN "add" ELSE "remove"
      /\ \A u \in Taps : u # t => phase'[u] = phase[u] /\ req'[u] = req[u]
  BY <1>1, <1>2 DEF TypeOK
<1>4. \A u \in Taps : u # t => (OnList(u, f)' <=> OnList(u, f))
  BY <1>3 DEF OnList, InFlight
<1>5. OnList(t, f)' <=> g = f
  BY <1>3 DEF OnList, InFlight, Live
<1>6. ~OnList(t, f)
  BY <1>1 DEF OnList, InFlight, Live
<1>7. SeenShown(d, f)'
  <2>1. \A k \in 1..Len(queue[d]) : queue[d][k] # t /\ queue[d][k] \in Taps
    <3>1. phase[t] \notin {"writing", "lost"}
      BY <1>1
    <3> QED
      BY <1>1, <3>1, NotQueued, QueuedRequest
  <2>2. \A k \in 1..Len(queue[d]) : /\ queue'[d][k] = queue[d][k]
                                    /\ req'[queue[d][k]] = req[queue[d][k]]
                                    /\ list'[queue[d][k]] = list[queue[d][k]]
    BY <1>2, <1>3, <2>1
  <2> QED
    BY <1>1, <1>2, <2>2, SeenFrame DEF EditInv
<1>8. CASE g = f
  <2>1. \A u \in Taps : ~OnList(u, f)
    BY <1>1, <1>8, TapAlone DEF OnList, OneByOne
  <2>2. Settled(d, f) /\ IsInjective(cache[d][f])
    BY <2>1 DEF EditInv
  <2>3. Settled(d, f)' /\ IsInjective(cache'[d][f])
    BY <1>2, <2>2 DEF Settled
  <2>4. t \notin applied'
    BY <1>1, <1>2 DEF BaseInv, AppliedInv
  <2>5. req'[t].kind = "add" <=> ~Contains(cache'[d][f], req'[t].item)
    BY <1>1, <1>2, <1>3, <1>8 DEF Adds
  <2>6. Editing(d, f, t)'
    BY <1>3, <2>3, <2>4, <2>5 DEF Editing
  <2>7. \A u \in Taps : OnList(u, f)' => u = t
    BY <1>4, <2>1
  <2> QED
    BY <1>5, <1>7, <1>8, <2>3, <2>6, <2>7, EditMine
<1>9. CASE g # f
  <2>1. \A u \in Taps : OnList(u, f)' => OnList(u, f)
    BY <1>4, <1>5, <1>9
  <2>2. \A u \in Taps : OnList(u, f) =>
           /\ OnList(u, f)' /\ phase'[u] = phase[u] /\ req'[u] = req[u] /\ list'[u] = list[u]
           /\ u \in applied' <=> u \in applied
    BY <1>2, <1>3, <1>4, <1>6
  <2>3. doc'[f] = doc[f] /\ remote'[d][f] = remote[d][f] /\ cache'[d][f] = cache[d][f]
    BY <1>2
  <2> QED
    BY <1>7, <2>1, <2>2, <2>3, EditOther
<1> QED
  BY <1>8, <1>9

(* A request that has its snapshot, hands its edit to the SDK, or gives up *)
(* before it.                                                              *)
LEMMA EditMoved ==
  ASSUME BaseInv, SingleDevice, NEW d \in Devices, NEW f \in Toggled,
         NothingLost, Serial(f), EditInv(d, f), NEW t \in Taps,
         SnapshotOffline(t) \/ GetFails(t) \/ Callback(t)
  PROVE  EditInv(d, f)'
<1>1. TypeOK /\ RestInv /\ f \in Fields
  BY DEF BaseInv, Toggled
<1>2. /\ phase[t] \in {"getting", "got"} /\ OnList(t, req[t].field)
      /\ req[t] \in Requests /\ t \notin applied
  BY <1>1 DEF SnapshotOffline, GetFails, Callback, TypeOK, BaseInv, AppliedInv, OnList, InFlight, Live
<1>3. req[t].dev = d /\ req[t].field \in Fields
  BY <1>2 DEF SingleDevice, Requests
<1>4. /\ UNCHANGED <<doc, remote, seen, cache, req, applied>>
      /\ phase'[t] \in {"got", "failed", "writing"}
      /\ \A u \in Taps : u # t => phase'[u] = phase[u] /\ list'[u] = list[u]
  BY <1>1 DEF SnapshotOffline, GetFails, Callback, TypeOK, sdkVars, ghostVars
<1>5. \A u \in Taps : u # t => (OnList(u, f)' <=> OnList(u, f))
  BY <1>4 DEF OnList, InFlight
<1>6. SeenShown(d, f)'
  <2>1. \A k \in 1..Len(queue[d]) : queue[d][k] # t /\ queue[d][k] \in Taps
    <3>1. phase[t] \notin {"writing", "lost"}
      BY <1>2
    <3> QED
      BY <1>1, <3>1, NotQueued, QueuedRequest
  <2>2. \A k \in 1..Len(queue[d]) : queue'[d][k] = queue[d][k]
    <3>1. queue'[d] = queue[d] \/ queue'[d] = Append(queue[d], t)
      BY <1>1, <1>3 DEF SnapshotOffline, GetFails, Callback, TypeOK, sdkVars
    <3>2. queue[d] \in Seq(Taps)
      BY <1>1 DEF TypeOK
    <3> QED
      BY <3>1, <3>2
  <2>3. \A k \in 1..Len(queue[d]) : /\ queue'[d][k] = queue[d][k]
                                    /\ req'[queue[d][k]] = req[queue[d][k]]
                                    /\ list'[queue[d][k]] = list[queue[d][k]]
    BY <1>4, <2>1, <2>2
  <2> QED
    BY <1>1, <1>4, <2>3, SeenFrame DEF EditInv
<1>7. CASE req[t].field = f
  <2>1. Editing(d, f, t) /\ IsInjective(cache[d][f])
    BY <1>2, <1>7 DEF EditInv
  <2>2. Settled(d, f)
    BY <1>2, <2>1 DEF Editing
  <2>3. Settled(d, f)' /\ IsInjective(cache'[d][f]) /\ t \notin applied'
    BY <1>2, <1>4, <2>1, <2>2 DEF Settled
  <2>4. \A u \in Taps : OnList(u, f)' => u = t
    BY <1>2, <1>5, <1>7 DEF Serial, OnList
  <2>5. req'[t].kind = "add" <=> ~Contains(cache'[d][f], req'[t].item)
    BY <1>4, <2>1 DEF Editing
  <2>6. CASE GetFails(t)
    <3>1. phase'[t] = "failed"
      BY <1>1, <2>6 DEF GetFails, TypeOK
    <3>2. \A u \in Taps : ~OnList(u, f)'
      BY <2>4, <3>1 DEF OnList, InFlight, Live
    <3> QED
      BY <1>6, <2>3, <3>2, EditOver
  <2>7. CASE SnapshotOffline(t)
    <3>1. /\ phase'[t] = "got" /\ phase[t] = "getting"
          /\ list'[t] = LocalView(d, f, remote[d][f])
      BY <1>1, <1>3, <1>7, <2>7 DEF SnapshotOffline, TypeOK
    <3>2. list'[t] = remote[d][f]
      BY <1>1, <1>7, <3>1, NoOverlayAlone
    <3>3. list'[t] = cache'[d][f]
      BY <1>4, <2>2, <3>2 DEF Settled
    <3>4. Editing(d, f, t)' /\ OnList(t, f)'
      BY <1>4, <1>7, <2>3, <2>5, <3>1, <3>3 DEF Editing, OnList, InFlight, Live
    <3> QED
      BY <1>6, <2>3, <2>4, <3>4, EditMine
  <2>8. CASE Callback(t)
    <3>1. /\ phase'[t] = "writing" /\ phase[t] = "got"
          /\ list'[t] = NewList(req[t], list[t])
      BY <1>1, <2>8 DEF Callback, TypeOK
    <3>2. list'[t] = NewList(req'[t], cache'[d][f])
      BY <1>4, <2>1, <3>1 DEF Editing
    <3>3. Editing(d, f, t)' /\ OnList(t, f)'
      BY <1>4, <1>7, <2>3, <2>5, <3>1, <3>2 DEF Editing, OnList, InFlight, Live
    <3> QED
      BY <1>6, <2>3, <2>4, <3>3, EditMine
  <2> QED
    BY <2>6, <2>7, <2>8
<1>8. CASE req[t].field # f
  <2>1. ~OnList(t, f)' /\ ~OnList(t, f)
    BY <1>4, <1>8 DEF OnList
  <2>2. \A u \in Taps : OnList(u, f)' => OnList(u, f)
    BY <1>5, <2>1
  <2>3. \A u \in Taps : OnList(u, f) =>
           /\ OnList(u, f)' /\ phase'[u] = phase[u] /\ req'[u] = req[u] /\ list'[u] = list[u]
           /\ u \in applied' <=> u \in applied
    BY <1>4, <1>5, <2>1
  <2>4. doc'[f] = doc[f] /\ remote'[d][f] = remote[d][f] /\ cache'[d][f] = cache[d][f]
    BY <1>4
  <2> QED
    BY <1>6, <2>2, <2>3, <2>4, EditOther
<1> QED
  BY <1>7, <1>8

(* The server's document arrives: what the cache of it shows was settled   *)
(* on every list without an applied write.                                 *)
LEMMA EditSnapshot ==
  ASSUME BaseInv, SingleDevice, NEW d \in Devices, NEW f \in Toggled,
         NothingLost, Serial(f), EditInv(d, f), NEW t \in Taps, SnapshotOnline(t)
  PROVE  EditInv(d, f)'
<1>1. TypeOK /\ RestInv /\ f \in Fields
  BY DEF BaseInv, Toggled
<1>2. /\ phase[t] = "getting" /\ InFlight(t)
      /\ req[t] \in Requests /\ t \notin applied
  BY <1>1 DEF SnapshotOnline, TypeOK, BaseInv, AppliedInv, InFlight, Live
<1>3. req[t].dev = d
  BY <1>2 DEF SingleDevice, Requests
<1>4. /\ UNCHANGED <<doc, queue, cache, req, applied>>
      /\ remote'[d] = doc /\ seen'[d] = committed[d]
      /\ phase'[t] = "got" /\ list'[t] = LocalView(d, req[t].field, doc[req[t].field])
      /\ \A u \in Taps : u # t => phase'[u] = phase[u] /\ list'[u] = list[u]
  BY <1>1, <1>3 DEF SnapshotOnline, TypeOK, ghostVars
<1>5. \A u \in Taps : OnList(u, f)' <=> OnList(u, f)
  BY <1>2, <1>4 DEF OnList, InFlight, Live
<1>6. Settled(d, f) => Settled(d, f)'
  BY <1>4 DEF Settled
<1>7. SeenShown(d, f)'
  <2> SUFFICES ASSUME NEW k \in 1..committed[d], req[queue[d][k]].field = f
               PROVE  doc[f] = list'[queue[d][k]]
    BY <1>4 DEF SeenShown
  <2>1. k \in 1..Len(queue[d])
    BY <1>1 DEF TypeOK
  <2>2. queue[d][k] \in Taps /\ phase[queue[d][k]] = "writing" /\ InFlight(queue[d][k])
    BY <1>1, <2>1, QueuedAlone
  <2>3. queue[d][k] \in applied
    BY <1>1 DEF RestInv, CommittedInv
  <2>4. doc[f] = list[queue[d][k]]
    BY <2>2, <2>3 DEF EditInv, Editing, OnList
  <2>5. queue[d][k] # t
    BY <1>2, <2>2
  <2> QED
    BY <1>4, <2>2, <2>4, <2>5
<1>8. ASSUME NEW u \in Taps, OnList(u, f)' PROVE Editing(d, f, u)'
  <2>1. OnList(u, f) /\ Editing(d, f, u)
    BY <1>5, <1>8 DEF EditInv
  <2>2. CASE u # t
    <3>1. /\ phase'[u] = phase[u] /\ req'[u] = req[u] /\ list'[u] = list[u]
          /\ cache' = cache /\ applied' = applied /\ doc' = doc
      BY <1>4, <2>2
    <3> QED
      BY <1>6, <2>1, <3>1 DEF Editing
  <2>3. CASE u = t
    <3>1. Settled(d, f) /\ Settled(d, f)' /\ req[t].field = f
      BY <1>2, <1>6, <2>1, <2>3 DEF Editing, OnList
    <3>2. list'[t] = doc[f]
      BY <1>1, <1>2, <1>4, <3>1, NoOverlayAlone
    <3>3. list'[t] = cache'[d][f]
      BY <1>4, <3>1, <3>2 DEF Settled
    <3>4. req'[t].kind = "add" <=> ~Contains(cache'[d][f], req'[t].item)
      BY <1>4, <2>1, <2>3 DEF Editing
    <3>5. t \notin applied' /\ phase'[t] = "got"
      BY <1>2, <1>4
    <3> QED
      BY <2>3, <3>1, <3>3, <3>4, <3>5 DEF Editing
  <2> QED
    BY <2>2, <2>3
<1>9. IsInjective(cache'[d][f])
  BY <1>4 DEF EditInv
<1>10. (\A u \in Taps : ~OnList(u, f)') => Settled(d, f)'
  BY <1>5, <1>6 DEF EditInv
<1> QED
  BY <1>7, <1>8, <1>9, <1>10 DEF EditInv

LEMMA EditCommitted ==
  ASSUME BaseInv, SingleDevice, NEW d \in Devices, NEW f \in Toggled,
         NothingLost, Serial(f), EditInv(d, f), Commit(d)
  PROVE  EditInv(d, f)'
<1>1. TypeOK /\ RestInv /\ f \in Fields /\ committed[d] + 1 \in 1..Len(queue[d])
  BY DEF BaseInv, Toggled, Commit, Sendable, TypeOK
<1>2. PICK t \in Taps :
        /\ phase[t] = "writing" /\ InFlight(t) /\ req[t] \in Requests /\ req[t].field \in Fields
        /\ doc' = [doc EXCEPT ![req[t].field] = list[t]]
        /\ applied' = applied \cup {t}
  BY <1>1, QueuedAlone DEF Commit
<1>3. UNCHANGED <<remote, queue, seen, cache, phase, req, list>>
  BY DEF Commit
<1>4. \A u \in Taps : OnList(u, f)' <=> OnList(u, f)
  BY <1>3 DEF OnList, InFlight
<1>5. SeenShown(d, f)'
  BY <1>3 DEF EditInv, SeenShown
<1>6. IsInjective(cache'[d][f])
  BY <1>3 DEF EditInv
<1>7. CASE req[t].field = f
  <2>1. OnList(t, f) /\ Editing(d, f, t)
    BY <1>2, <1>7 DEF OnList, EditInv
  <2>2. doc'[f] = list[t] /\ t \in applied'
    BY <1>1, <1>2, <1>7 DEF TypeOK
  <2>3. \A u \in Taps : OnList(u, f)' => u = t
    BY <1>4, <2>1 DEF Serial, OnList
  <2>4. Editing(d, f, t)'
    BY <1>3, <2>1, <2>2 DEF Editing
  <2>5. OnList(t, f)'
    BY <1>4, <2>1
  <2> QED
    BY <1>5, <1>6, <2>3, <2>4, <2>5, EditMine
<1>8. CASE req[t].field # f
  <2>1. doc'[f] = doc[f] /\ remote'[d][f] = remote[d][f] /\ cache'[d][f] = cache[d][f]
    BY <1>1, <1>2, <1>3, <1>8 DEF TypeOK
  <2>2. \A u \in Taps : OnList(u, f) => u # t
    BY <1>8 DEF OnList
  <2>3. \A u \in Taps : OnList(u, f) =>
           /\ OnList(u, f)' /\ phase'[u] = phase[u] /\ req'[u] = req[u] /\ list'[u] = list[u]
           /\ u \in applied' <=> u \in applied
    BY <1>2, <1>3, <1>4, <2>2
  <2>4. \A u \in Taps : OnList(u, f)' => OnList(u, f)
    BY <1>4
  <2> QED
    BY <1>5, <2>1, <2>3, <2>4, EditOther
<1> QED
  BY <1>7, <1>8

(* The oldest write is answered: appUser takes its list over, or the       *)
(* server refused it and all stays as it was.                              *)
LEMMA EditAnswered ==
  ASSUME BaseInv, SingleDevice, NEW d \in Devices, NEW f \in Toggled,
         NothingLost, Serial(f), EditInv(d, f), Ack(d) \/ Reject(d)
  PROVE  EditInv(d, f)'
<1>1. /\ TypeOK /\ RestInv /\ f \in Fields /\ queue[d] \in Seq(Taps) /\ Len(queue[d]) \in Nat
      /\ queue[d] # <<>> /\ 1 \in 1..Len(queue[d])
      /\ seen[d] \in 0..committed[d] /\ committed[d] \in 0..Len(queue[d])
  BY DEF BaseInv, Toggled, Ack, Reject, TypeOK
<1>2. PICK t \in Taps :
        /\ t = queue[d][1] /\ Head(queue[d]) = t
        /\ phase[t] = "writing" /\ InFlight(t) /\ req[t] \in Requests /\ req[t].field \in Fields
  BY <1>1, QueuedAlone
<1>3. /\ UNCHANGED <<doc, req, list, applied, restarts>>
      /\ queue' = [queue EXCEPT ![d] = Tail(@)]
  BY DEF Ack, Reject, ghostVars, envVars
<1>4. phase'[t] \in {"done", "failed"} /\ \A u \in Taps : u # t => phase'[u] = phase[u]
  BY <1>1, <1>2 DEF Ack, Reject, Completed, TypeOK
<1>5. \A k \in 1..Len(queue'[d]) :
        k + 1 \in 1..Len(queue[d]) /\ queue'[d][k] = queue[d][k + 1]
  BY <1>1, <1>2, <1>3, <1>4, QueuePop
<1>6. /\ ~OnList(t, f)'
      /\ \A u \in Taps : u # t => (OnList(u, f)' <=> OnList(u, f))
  BY <1>3, <1>4 DEF OnList, InFlight, Live
<1>7. /\ seen'[d] \in Nat /\ seen'[d] <= Len(queue'[d])
      /\ seen'[d] = IF seen[d] > 0 THEN seen[d] - 1 ELSE 0
  <2>1. Len(queue'[d]) = Len(queue[d]) - 1
    BY <1>1, <1>3 DEF TypeOK
  <2>2. CASE Ack(d)
    BY <1>1, <2>1, <2>2 DEF Ack, TypeOK
  <2>3. CASE Reject(d)
    BY <1>1, <2>1, <2>3 DEF Reject, TypeOK
  <2> QED
    BY <2>2, <2>3
<1>8. \A k \in 1..seen'[d] :
        k \in 1..Len(queue'[d]) /\ k + 1 \in 1..seen[d] /\ k + 1 \in 1..Len(queue[d])
  BY <1>1, <1>7
<1>9. CASE req[t].field # f
  <2>1. doc'[f] = doc[f] /\ remote'[d][f] = remote[d][f] /\ cache'[d][f] = cache[d][f]
    BY <1>1, <1>2, <1>3, <1>9 DEF Ack, Reject, TypeOK
  <2>2. ASSUME NEW k \in 1..seen'[d], req'[queue'[d][k]].field = f
        PROVE  remote'[d][f] = list'[queue'[d][k]]
    <3>1. queue'[d][k] = queue[d][k + 1] /\ k + 1 \in 1..seen[d]
      BY <1>5, <1>8
    <3> QED
      BY <1>3, <2>1, <2>2, <3>1 DEF EditInv, SeenShown
  <2>3. SeenShown(d, f)'
    BY <2>2 DEF SeenShown
  <2>4. ~OnList(t, f)
    BY <1>9 DEF OnList
  <2>5. \A u \in Taps : OnList(u, f)' => OnList(u, f)
    BY <1>6
  <2>6. \A u \in Taps : OnList(u, f) =>
           /\ OnList(u, f)' /\ phase'[u] = phase[u] /\ req'[u] = req[u] /\ list'[u] = list[u]
           /\ u \in applied' <=> u \in applied
    BY <1>3, <1>4, <1>6, <2>4
  <2> QED
    BY <2>1, <2>3, <2>5, <2>6, EditOther
<1>10. CASE req[t].field = f
  <2>1. OnList(t, f) /\ Editing(d, f, t) /\ IsInjective(cache[d][f])
    BY <1>2, <1>10 DEF OnList, EditInv
  <2>2. \A u \in Taps : OnList(u, f) => u = t
    BY <2>1 DEF Serial, OnList
  <2>3. \A u \in Taps : ~OnList(u, f)'
    BY <1>6, <2>2
  <2>4. SeenShown(d, f)'
    <3> SUFFICES ASSUME NEW k \in 1..seen'[d], req'[queue'[d][k]].field = f PROVE FALSE
      BY DEF SeenShown
    <3>1. queue'[d][k] = queue[d][k + 1] /\ k + 1 \in 1..Len(queue[d]) /\ k \in Nat /\ k # 0
      BY <1>5, <1>8
    <3>2. queue[d][k + 1] \in Taps /\ OnList(queue[d][k + 1], f)
      BY <1>1, <1>3, <3>1, QueuedAlone DEF OnList
    <3>3. k + 1 = 1
      BY <1>1, <1>2, <2>2, <3>1, <3>2 DEF RestInv, QueueInv
    <3> QED
      BY <3>1, <3>3
  <2>5. CASE Reject(d)
    <3>1. /\ t \notin applied /\ UNCHANGED <<remote, cache>>
      BY <1>2, <2>5 DEF Reject
    <3>2. Settled(d, f)
      BY <2>1, <3>1 DEF Editing
    <3>3. Settled(d, f)' /\ IsInjective(cache'[d][f])
      BY <1>3, <2>1, <3>1, <3>2 DEF Settled
    <3> QED
      BY <2>3, <2>4, <3>3, EditOver
  <2>6. CASE Ack(d)
    <3>1. t \in applied
      <4>1. 1 \in 1..committed[d]
        BY <1>1, <2>6 DEF Ack
      <4> QED
        BY <1>1, <1>2, <4>1 DEF RestInv, CommittedInv
    <3>2. cache'[d][f] = list[t]
      BY <1>1, <1>2, <1>10, <2>6 DEF Ack, TypeOK
    <3>3. remote'[d][f] = list[t]
      <4>1. CASE seen[d] > 0
        <5>1. 1 \in 1..seen[d] /\ remote' = remote
          BY <1>1, <2>6, <4>1 DEF Ack
        <5> QED
          BY <1>2, <1>10, <5>1 DEF EditInv, SeenShown
      <4>2. CASE ~(seen[d] > 0)
        BY <1>1, <1>2, <1>10, <2>6, <4>2 DEF Ack, TypeOK
      <4> QED
        BY <4>1, <4>2
    <3>4. Settled(d, f)'
      BY <1>3, <2>1, <3>1, <3>2, <3>3 DEF Settled, Editing
    <3>5. IsInjective(cache'[d][f])
      <4>1. cache[d][f] \in Lists
        BY <1>1 DEF TypeOK
      <4>2. req[t].kind = "add" <=> ~Contains(cache[d][f], req[t].item)
        BY <2>1 DEF Editing
      <4>3. list[t] = NewList(req[t], cache[d][f])
        BY <1>2, <2>1 DEF Editing
      <4>4. IsInjective(NewList(req[t], cache[d][f]))
        BY <1>2, <2>1, <4>1, <4>2, NewListInjective
      <4> QED
        BY <3>2, <4>3, <4>4
    <3> QED
      BY <2>3, <2>4, <3>4, <3>5, EditOver
  <2> QED
    BY <2>5, <2>6
<1> QED
  BY <1>9, <1>10

(* A stream that starts over, and a restart with nothing in flight.        *)
LEMMA EditRest ==
  ASSUME BaseInv, SingleDevice, NEW d \in Devices, NEW f \in Toggled,
         NothingLost, EditInv(d, f), NothingLost',
         UNCHANGED vars \/ StreamReset(d) \/ Restart(d)
  PROVE  EditInv(d, f)'
<1>1. TypeOK
  BY DEF BaseInv
<1>2. UNCHANGED <<doc, remote, queue, cache, req, list, applied>>
  BY DEF vars, StreamReset, Restart, sdkVars, ghostVars
<1>3. seen'[d] \in {seen[d], 0}
  BY <1>1 DEF vars, StreamReset, Restart, sdkVars, TypeOK
<1>4. \A u \in Taps : phase'[u] = phase[u]
  <2>1. CASE Restart(d)
    BY <2>1 DEF Restart, NothingLost
  <2>2. CASE UNCHANGED vars \/ StreamReset(d)
    BY <2>2 DEF vars, StreamReset
  <2> QED
    BY <2>1, <2>2
<1>5. SeenShown(d, f)'
  BY <1>1, <1>2, <1>3, SeenFrame DEF EditInv
<1>6. \A u \in Taps : OnList(u, f)' <=> OnList(u, f)
  BY <1>2, <1>4 DEF OnList, InFlight
<1>7. \A u \in Taps : OnList(u, f)' => OnList(u, f)
  BY <1>6
<1>8. \A u \in Taps : OnList(u, f) =>
           /\ OnList(u, f)' /\ phase'[u] = phase[u] /\ req'[u] = req[u] /\ list'[u] = list[u]
           /\ u \in applied' <=> u \in applied
  BY <1>2, <1>4, <1>6
<1>9. doc'[f] = doc[f] /\ remote'[d][f] = remote[d][f] /\ cache'[d][f] = cache[d][f]
  BY <1>2
<1> QED
  BY <1>5, <1>7, <1>8, <1>9, EditOther

(* "Block user" never takes out, and a list that is written for an added   *)
(* item holds it.                                                          *)
AddsInv ==
  \A t \in Taps :
    /\ phase[t] # "untapped" /\ req[t].field = "blocked_accounts" => req[t].kind = "add"
    /\ phase[t] = "writing" /\ req[t].kind = "add" => Contains(list[t], req[t].item)

LEMMA AddsStep ==
  ASSUME BaseInv, AddsInv, [Next]_vars
  PROVE  AddsInv'
<1> DEFINE Here(t) ==
      /\ phase[t] # "untapped" /\ req[t].field = "blocked_accounts" => req[t].kind = "add"
      /\ phase[t] = "writing" /\ req[t].kind = "add" => Contains(list[t], req[t].item)
<1>1. TypeOK
  BY DEF BaseInv
<1>2. ASSUME NEW t \in Taps, phase'[t] \in {phase[t], "done", "failed", "lost"},
             phase[t] # "untapped" \/ phase'[t] = "untapped",
             req'[t] = req[t], list'[t] = list[t]
      PROVE  Here(t)'
  BY <1>2 DEF AddsInv
<1>3. ASSUME NEW t \in Taps, TapStep(t), NEW u \in Taps PROVE Here(u)'
  <2>1. CASE u # t
    <3>1. phase'[u] = phase[u] /\ req'[u] = req[u] /\ list'[u] = list[u]
      BY <1>1, <1>3, <2>1
      DEF TapStep, Tap, SnapshotOnline, SnapshotOffline, GetFails, Callback, TypeOK
    <3> QED
      BY <1>2, <3>1
  <2>2. ASSUME NEW d \in Devices, NEW f \in Fields, NEW i \in Items, Tap(t, d, f, i)
        PROVE  Here(t)'
    <3>1. /\ phase'[t] = "getting" /\ req'[t].field = f
          /\ req'[t].kind = IF Adds(d, f, i) THEN "add" ELSE "remove"
      BY <1>1, <2>2 DEF Tap, TypeOK
    <3> QED
      BY <3>1 DEF Adds
  <2>3. ASSUME SnapshotOnline(t) \/ SnapshotOffline(t) \/ GetFails(t) PROVE Here(t)'
    <3>1. /\ phase'[t] \in {"got", "failed"} /\ phase[t] = "getting" /\ req'[t] = req[t]
      BY <1>1, <2>3 DEF SnapshotOnline, SnapshotOffline, GetFails, TypeOK
    <3>2. req[t].field = "blocked_accounts" => req[t].kind = "add"
      BY <3>1 DEF AddsInv
    <3> QED
      BY <3>1, <3>2
  <2>4. ASSUME Callback(t) PROVE Here(t)'
    <3>1. /\ phase'[t] = "writing" /\ phase[t] = "got" /\ req'[t] = req[t]
          /\ list'[t] = NewList(req[t], list[t]) /\ req[t] \in Requests /\ list[t] \in Lists
      BY <1>1, <2>4 DEF Callback, TypeOK
    <3>2. req[t].kind = "add" => Contains(list'[t], req[t].item)
      BY <3>1, NewListAdds
    <3>3. req[t].field = "blocked_accounts" => req[t].kind = "add"
      BY <3>1 DEF AddsInv
    <3> QED
      BY <3>1, <3>2, <3>3
  <2> QED
    BY <1>3, <2>1, <2>2, <2>3, <2>4 DEF TapStep
<1>4. ASSUME NEW d \in Devices, DeviceStep(d), NEW u \in Taps PROVE Here(u)'
  <2>1. req'[u] = req[u] /\ list'[u] = list[u]
    BY <1>4 DEF DeviceStep, Commit, Ack, Reject, StreamReset, Restart
  <2>2. /\ phase'[u] \in {phase[u], "done", "failed", "lost"}
        /\ phase[u] # "untapped" \/ phase'[u] = "untapped"
    BY <1>1, <1>4 DEF DeviceStep, Commit, Ack, Reject, StreamReset, Restart, Completed, TypeOK,
                      InFlight, Live
  <2> QED
    BY <1>2, <2>1, <2>2
<1>5. ASSUME UNCHANGED vars, NEW u \in Taps PROVE Here(u)'
  <2>1. phase'[u] = phase[u] /\ req'[u] = req[u] /\ list'[u] = list[u]
    BY <1>5 DEF vars
  <2> QED
    BY <1>2, <2>1
<1>6. ASSUME NEW u \in Taps PROVE Here(u)'
  BY <1>3, <1>4, <1>5 DEF Next
<1> QED
  BY <1>6 DEF AddsInv

(* A tap lost to a restart stays lost.                                     *)
LEMMA LostForGood ==
  ASSUME TypeOK, [Next]_vars, NothingLost'
  PROVE  NothingLost
<1> SUFFICES ASSUME NEW u \in Taps, phase[u] = "lost" PROVE phase'[u] = "lost"
  BY DEF NothingLost
<1>1. ASSUME NEW t \in Taps, TapStep(t) PROVE phase'[u] = "lost"
  BY <1>1 DEF TapStep, Tap, SnapshotOnline, SnapshotOffline, GetFails, Callback, TypeOK
<1>2. ASSUME NEW d \in Devices, DeviceStep(d) PROVE phase'[u] = "lost"
  BY <1>2 DEF DeviceStep, Commit, Ack, Reject, StreamReset, Restart, Completed, TypeOK,
              InFlight, Live
<1> QED
  BY <1>1, <1>2 DEF Next, vars

TogglesInv ==
  /\ BaseInv
  /\ AddsInv
  /\ \A f \in Fields : Serial(f)
  /\ NothingLost => \A d \in Devices, f \in Toggled : EditInv(d, f)
  /\ Devices = {} => \A f \in Fields : doc[f] \in InitialLists

LEMMA TogglesStep ==
  ASSUME SingleDevice, MaxInFlight <= 1
  PROVE  TogglesInv /\ [Next]_vars => TogglesInv'
<1> SUFFICES ASSUME TogglesInv, [Next]_vars PROVE TogglesInv'
  OBVIOUS
<1>1. BaseInv /\ TypeOK /\ BaseInv' /\ AddsInv'
  BY BaseStep, AddsStep DEF TogglesInv, BaseInv
<1>2. \A f \in Fields : Serial(f)'
  BY <1>1, SerialStep DEF TogglesInv, OneByOne
<1>3. ASSUME NothingLost', NEW d \in Devices, NEW f \in Toggled PROVE EditInv(d, f)'
  <2>1. NothingLost
    BY <1>1, <1>3, LostForGood
  <2>2. EditInv(d, f) /\ Serial(f)
    BY <2>1 DEF TogglesInv, Toggled
  <2>3. ASSUME NEW t \in Taps, NEW e \in Devices, NEW g \in Fields, NEW i \in Items,
               Tap(t, e, g, i)
        PROVE  EditInv(d, f)'
    <3>1. Tap(t, d, g, i)
      BY <2>3 DEF SingleDevice
    <3> QED
      BY <1>1, <2>1, <2>2, <3>1, EditTapped
  <2>4. ASSUME NEW t \in Taps, SnapshotOffline(t) \/ GetFails(t) \/ Callback(t)
        PROVE  EditInv(d, f)'
    BY <1>1, <2>1, <2>2, <2>4, EditMoved
  <2>5. ASSUME NEW t \in Taps, SnapshotOnline(t) PROVE EditInv(d, f)'
    BY <1>1, <2>1, <2>2, <2>5, EditSnapshot
  <2>6. ASSUME NEW e \in Devices, DeviceStep(e) PROVE EditInv(d, f)'
    <3>1. DeviceStep(d)
      BY <2>6 DEF SingleDevice
    <3>2. CASE Commit(d)
      BY <1>1, <2>1, <2>2, <3>2, EditCommitted
    <3>3. CASE Ack(d) \/ Reject(d)
      BY <1>1, <2>1, <2>2, <3>3, EditAnswered
    <3>4. CASE StreamReset(d) \/ Restart(d)
      BY <1>1, <1>3, <2>1, <2>2, <3>4, EditRest
    <3> QED
      BY <3>1, <3>2, <3>3, <3>4 DEF DeviceStep
  <2>7. CASE UNCHANGED vars
    BY <1>1, <1>3, <2>1, <2>2, <2>7, EditRest
  <2> QED
    BY <2>3, <2>4, <2>5, <2>6, <2>7 DEF Next, TapStep
<1>4. Devices = {} => \A f \in Fields : doc'[f] \in InitialLists
  <2>1. Devices = {} => doc' = doc
    BY DEF Next, TapStep, Tap, SnapshotOnline, SnapshotOffline, GetFails, Callback, vars
  <2> QED
    BY <2>1 DEF TogglesInv
<1> QED
  BY <1>1, <1>2, <1>3, <1>4 DEF TogglesInv

LEMMA TogglesInit ==
  ASSUME \A l \in InitialLists : IsInjective(l)
  PROVE  Init => TogglesInv
<1> SUFFICES ASSUME Init PROVE TogglesInv
  OBVIOUS
<1>1. BaseInv /\ \A f : Serial(f)
  BY BaseInit, SerialInit
<1>2. \A t \in Taps : phase[t] = "untapped"
  BY DEF Init
<1>3. ASSUME NEW d \in Devices, NEW f \in Toggled PROVE EditInv(d, f)
  <2>1. f \in Fields /\ cache[d][f] = doc[f] /\ remote[d][f] = doc[f] /\ seen[d] = 0
        /\ doc[f] \in InitialLists
    BY DEF Init, Toggled
  <2>2. \A t \in Taps : ~OnList(t, f)
    BY <1>2 DEF OnList, InFlight, Live
  <2> QED
    BY <2>1, <2>2 DEF EditInv, Settled, SeenShown
<1>4. \A f \in Fields : doc[f] \in InitialLists
  BY DEF Init
<1> QED
  BY <1>1, <1>2, <1>3, <1>4 DEF TogglesInv, AddsInv

(* No list of the server that is edited by a toggle holds an item twice.   *)
(* (savePost and followAccount append without looking: the toggle decided  *)
(* on appUser, which is what the server holds when one tap on the list is  *)
(* answered before the next and no other device writes it.)                *)
THEOREM NoDuplicatesAlways ==
  ASSUME SingleDevice, MaxInFlight <= 1, \A l \in InitialLists : IsInjective(l)
  PROVE  Spec => []NoDuplicates
<1>1. Init => TogglesInv
  BY TogglesInit
<1>2. TogglesInv /\ [Next]_vars => TogglesInv'
  BY TogglesStep
<1>3. TogglesInv => NoDuplicates
  <2> SUFFICES ASSUME TogglesInv, NothingLost, NEW f \in Toggled PROVE IsInjective(doc[f])
    BY DEF NoDuplicates, Toggled
  <2>1. CASE \A t \in Taps : ~OnList(t, f)
    <3>1. ASSUME NEW d \in Devices PROVE IsInjective(doc[f])
      <4>1. EditInv(d, f)
        BY DEF TogglesInv
      <4> QED
        BY <2>1, <4>1 DEF EditInv, Settled
    <3>2. CASE Devices = {}
      BY <3>2 DEF TogglesInv, Toggled
    <3> QED
      BY <3>1, <3>2
  <2>2. ASSUME NEW t \in Taps, OnList(t, f) PROVE IsInjective(doc[f])
    <3>1. req[t] \in Requests /\ req[t].dev \in Devices
      BY <2>2 DEF TogglesInv, BaseInv, TypeOK, OnList, InFlight, Live, Requests
    <3>2. PICK d \in Devices : TRUE
      BY <3>1
    <3>3. IsInjective(cache[d][f]) /\ Editing(d, f, t) /\ cache[d][f] \in Lists
      BY <2>2 DEF TogglesInv, EditInv, BaseInv, TypeOK, Toggled
    <3>4. CASE t \notin applied
      BY <3>3, <3>4 DEF Editing, Settled
    <3>5. CASE t \in applied
      <4>1. phase[t] = "writing"
        BY <2>2, <3>5 DEF TogglesInv, BaseInv, AppliedInv, OnList, InFlight, Live
      <4>2. doc[f] = NewList(req[t], cache[d][f])
        BY <3>3, <3>5, <4>1 DEF Editing
      <4>3. req[t].kind = "add" <=> ~Contains(cache[d][f], req[t].item)
        BY <3>3 DEF Editing
      <4> QED
        BY <3>1, <3>3, <4>2, <4>3, NewListInjective
    <3> QED
      BY <3>4, <3>5
  <2> QED
    BY <2>1, <2>2
<1> QED
  BY <1>1, <1>2, <1>3, PTL DEF Spec

(* The alert "Saved!" or "Unsaved!" agrees with the button drawn with it,  *)
(* and so does the title of the follow button.  (tapSaveButton draws the   *)
(* button from appUser, which savePost and unsavePost have just set.)      *)
THEOREM AlertMatchesButtonAlways ==
  ASSUME SingleDevice, MaxInFlight <= 1, \A l \in InitialLists : IsInjective(l)
  PROVE  Spec => AlertMatchesButton
<1>1. Init => TogglesInv
  BY TogglesInit
<1>2. TogglesInv /\ [Next]_vars => TogglesInv'
  BY TogglesStep
<1> DEFINE Told(t) == NothingLost /\ phase[t] # "done" /\ phase'[t] = "done" =>
                        (req[t].kind = "add"
                           <=> Contains(cache'[req[t].dev][req[t].field], req[t].item))
<1>3. TogglesInv /\ [Next]_vars => \A t \in Taps : Told(t)
  <2> SUFFICES ASSUME TogglesInv, [Next]_vars, NEW t \in Taps, NothingLost,
                      phase[t] # "done", phase'[t] = "done"
               PROVE  req[t].kind = "add"
                        <=> Contains(cache'[req[t].dev][req[t].field], req[t].item)
    OBVIOUS
  <2>1. TypeOK /\ RestInv /\ BaseInv
    BY DEF TogglesInv, BaseInv
  <2>2. PICK d \in Devices : Ack(d) /\ t = Head(queue[d])
    <3>1. ASSUME NEW u \in Taps, TapStep(u) PROVE FALSE
      BY <2>1, <3>1 DEF TapStep, Tap, SnapshotOnline, SnapshotOffline, GetFails, Callback, TypeOK
    <3>2. ASSUME NEW d \in Devices, DeviceStep(d) PROVE Ack(d) /\ t = Head(queue[d])
      BY <2>1, <3>2 DEF DeviceStep, Commit, Ack, Reject, StreamReset, Restart, Completed, TypeOK,
                        InFlight, Live
    <3>3. ~UNCHANGED vars
      BY DEF vars
    <3> QED
      BY <3>1, <3>2, <3>3 DEF Next
  <2>3. 1 \in 1..Len(queue[d]) /\ t = queue[d][1] /\ 1 \in 1..committed[d]
    BY <2>1, <2>2 DEF Ack, TypeOK
  <2>4. /\ phase[t] = "writing" /\ InFlight(t) /\ req[t] \in Requests /\ req[t].field \in Fields
        /\ req[t].dev = d
    BY <2>1, <2>3, QueuedAlone DEF RestInv, QueueInv
  <2>5. cache'[req[t].dev][req[t].field] = list[t]
    BY <2>1, <2>2, <2>4 DEF Ack, TypeOK
  <2>6. CASE req[t].field = "blocked_accounts"
    <3>1. req[t].kind = "add" /\ Contains(list[t], req[t].item)
      BY <2>4, <2>6 DEF TogglesInv, AddsInv
    <3> QED
      BY <2>5, <3>1
  <2>7. CASE req[t].field \in Toggled
    <3> DEFINE f == req[t].field
    <3>1. EditInv(d, f) /\ cache[d][f] \in Lists
      BY <2>1, <2>4, <2>7 DEF TogglesInv, TypeOK
    <3>2. IsInjective(cache[d][f]) /\ Editing(d, f, t)
      BY <2>4, <3>1 DEF EditInv, OnList
    <3>3. list[t] = NewList(req[t], cache[d][f])
      BY <2>4, <3>2 DEF Editing
    <3>4. req[t].kind = "add" <=> ~Contains(cache[d][f], req[t].item)
      BY <3>2 DEF Editing
    <3>5. req[t].kind = "add" <=> Contains(NewList(req[t], cache[d][f]), req[t].item)
      BY <2>4, <3>1, <3>2, <3>4, NewListInjective
    <3> QED
      BY <2>5, <3>3, <3>5
  <2> QED
    BY <2>4, <2>6, <2>7 DEF Toggled
<1>4. TogglesInv /\ [Next]_vars => [\A t \in Taps : Told(t)]_vars
  BY <1>3
<1> QED
  BY <1>1, <1>2, <1>4, PTL DEF Spec, AlertMatchesButton

-----------------------------------------------------------------------------
(* What an answer tells the user is true, and the answer comes from the    *)
(* queue.                                                                  *)

(* "Saved!" is only ever said of a write that the server has applied, an   *)
(* error of one that it has not and, as it is out of the queue, will not.  *)
(* (That a write accepted once is not refused on its replay is Reject's.)  *)
AnswersTrue ==
  \A t \in Taps : /\ phase[t] = "done" => t \in applied
                  /\ phase[t] = "failed" => t \notin applied

LEMMA AnswersStep ==
  ASSUME BaseInv, AnswersTrue, [Next]_vars
  PROVE  AnswersTrue'
<1> USE DEF BaseInv
<1>0. AppliedInv'
  BY BaseStep
<1> SUFFICES ASSUME NEW t \in Taps, phase'[t] = "done" PROVE t \in applied'
  BY <1>0 DEF AnswersTrue, AppliedInv
<1>1. CASE phase[t] = "done"
  <2>1. applied \subseteq applied'
    BY DEF Next, TapStep, DeviceStep, Tap, SnapshotOnline, SnapshotOffline, GetFails, Callback,
           Commit, Ack, Reject, StreamReset, Restart, vars, ghostVars
  <2> QED
    BY <1>1, <2>1 DEF AnswersTrue
<1>2. CASE phase[t] # "done"
  <2>1. PICK d \in Devices : Ack(d)
    BY <1>2 DEF Next, TapStep, DeviceStep, Tap, SnapshotOnline, SnapshotOffline, GetFails,
                Callback, Commit, Reject, StreamReset, Restart, Completed, vars, TypeOK
  <2>2. t = Head(queue[d]) /\ committed[d] > 0 /\ applied' = applied
    BY <1>2, <2>1 DEF Ack, Completed, TypeOK, ghostVars
  <2>3. t = queue[d][1] /\ 1 \in 1..committed[d]
    BY <2>2 DEF TypeOK
  <2> QED
    BY <2>2, <2>3 DEF RestInv, CommittedInv
<1> QED
  BY <1>1, <1>2

(* On any number of devices, through replays, refusals and restarts, the   *)
(* completion of a tap tells the truth about the server.                   *)
THEOREM AnswersTrueAlways == Spec => []AnswersTrue
<1>1. Init => AnswersTrue
  BY DEF Init, AnswersTrue
<1>2. BaseInv /\ AnswersTrue /\ [Next]_vars => AnswersTrue'
  BY AnswersStep
<1> QED
  BY <1>1, <1>2, BaseInit, BaseStep, PTL DEF Spec

(* A tap that waits for the answer to its write has that write in its      *)
(* device's queue, whatever was refused or sent again: the safety behind   *)
(* TapAnswered.                                                            *)
AnswersComing ==
  \A t \in Taps :
    phase[t] = "writing"
      => \E k \in 1..Len(queue[req[t].dev]) : queue[req[t].dev][k] = t

LEMMA ComingStep ==
  ASSUME BaseInv, AnswersComing, [Next]_vars
  PROVE  AnswersComing'
<1> USE DEF BaseInv
<1> SUFFICES ASSUME NEW t \in Taps, phase'[t] = "writing"
             PROVE  \E k \in 1..Len(queue'[req'[t].dev]) : queue'[req'[t].dev][k] = t
  BY DEF AnswersComing
<1>1. CASE phase[t] = "writing"
  <2>1. req'[t] = req[t] /\ req[t] \in Requests
    BY <1>1, RequestsStay DEF TypeOK
  <2>2. PICK e \in Devices : e = req[t].dev
    BY <2>1 DEF Requests
  <2>3. PICK k \in 1..Len(queue[e]) : queue[e][k] = t
    BY <1>1, <2>2 DEF AnswersComing
  <2>4. queue[e] \in Seq(Taps)
    BY DEF TypeOK
  <2>5. \E j \in 1..Len(queue'[e]) : queue'[e][j] = t
    <3>1. ASSUME NEW u \in Taps, Callback(u) PROVE \E j \in 1..Len(queue'[e]) : queue'[e][j] = t
      <4>1. queue'[e] = queue[e] \/ queue'[e] = Append(queue[e], u)
        BY <3>1 DEF Callback, TypeOK
      <4> QED
        BY <2>3, <2>4, <4>1
    <3>2. ASSUME NEW d \in Devices, Ack(d) \/ Reject(d)
          PROVE  \E j \in 1..Len(queue'[e]) : queue'[e][j] = t
      <4>1. CASE d = e
        <5>1. queue'[e] = Tail(queue[e]) /\ queue[e] # <<>> /\ Head(queue[e]) = queue[e][1]
          BY <2>3, <2>4, <3>2, <4>1 DEF Ack, Reject, TypeOK
        <5>2. phase'[Head(queue[e])] # "writing"
          <6>1. Head(queue[e]) \in Taps
            BY <2>4, <5>1
          <6> QED
            BY <3>2, <4>1, <6>1 DEF Ack, Reject, Completed, TypeOK
        <5>3. k # 1
          BY <2>3, <5>1, <5>2
        <5>4. k - 1 \in 1..Len(Tail(queue[e])) /\ Tail(queue[e])[k - 1] = t
          BY <2>3, <2>4, <5>1, <5>3
        <5> QED
          BY <5>1, <5>4
      <4>2. CASE d # e
        <5>1. queue'[e] = queue[e]
          BY <3>2, <4>2 DEF Ack, Reject, TypeOK
        <5> QED
          BY <2>3, <5>1
      <4> QED
        BY <4>1, <4>2
    <3>3. ASSUME \/ \E u \in Taps, f \in Fields, i \in Items, d \in Devices : Tap(u, d, f, i)
                 \/ \E u \in Taps : SnapshotOnline(u) \/ SnapshotOffline(u) \/ GetFails(u)
                 \/ \E d \in Devices : Commit(d) \/ StreamReset(d) \/ Restart(d)
                 \/ UNCHANGED vars
          PROVE  queue' = queue
      BY <3>3 DEF Tap, SnapshotOnline, SnapshotOffline, GetFails, Commit, StreamReset, Restart,
                  vars, sdkVars
    <3> QED
      BY <2>3, <3>1, <3>2, <3>3 DEF Next, TapStep, DeviceStep
  <2> QED
    BY <2>1, <2>2, <2>5
<1>2. CASE phase[t] # "writing"
  <2>1. Callback(t)
    <3>1. ASSUME NEW u \in Taps, TapStep(u), ~Callback(u)
          PROVE  phase'[t] = phase[t] \/ phase'[t] \in {"getting", "got", "failed"}
      BY <3>1 DEF TapStep, Tap, SnapshotOnline, SnapshotOffline, GetFails, TypeOK
    <3>2. ASSUME NEW u \in Taps, Callback(u), u # t
          PROVE  phase'[t] = phase[t]
      BY <3>2 DEF Callback, TypeOK
    <3>3. ASSUME NEW d \in Devices, DeviceStep(d)
          PROVE  phase'[t] # "writing"
      <4>1. CASE Ack(d)
        BY <1>2, <4>1 DEF Ack, Completed, TypeOK
      <4>2. CASE Reject(d)
        BY <1>2, <4>2 DEF Reject, Completed, TypeOK
      <4>3. CASE Commit(d) \/ StreamReset(d) \/ Restart(d)
        BY <1>2, <4>3 DEF Commit, StreamReset, Restart
      <4> QED
        BY <3>3, <4>1, <4>2, <4>3 DEF DeviceStep
    <3>4. CASE UNCHANGED vars
      BY <1>2, <3>4 DEF vars
    <3> QED
      BY <1>2, <3>1, <3>2, <3>3, <3>4 DEF Next
  <2>2. PICK e \in Devices : e = req[t].dev
    BY <2>1 DEF Callback, TypeOK, Requests
  <2>3. req' = req /\ queue[e] \in Seq(Taps) /\ queue'[e] = Append(queue[e], t)
    BY <2>1, <2>2 DEF Callback, TypeOK
  <2>4. Len(queue'[e]) \in 1..Len(queue'[e]) /\ queue'[e][Len(queue'[e])] = t
    BY <2>3
  <2> QED
    BY <2>2, <2>3, <2>4
<1> QED
  BY <1>1, <1>2

(* No tap waits for the answer to a write that is not in the queue         *)
(* (updateData's completion is kept with its mutation batch).              *)
THEOREM AnswersComingAlways == Spec => []AnswersComing
<1>1. Init => AnswersComing
  BY DEF Init, AnswersComing
<1>2. BaseInv /\ AnswersComing /\ [Next]_vars => AnswersComing'
  BY ComingStep
<1> QED
  BY <1>1, <1>2, BaseInit, BaseStep, PTL DEF Spec
=============================================================================
