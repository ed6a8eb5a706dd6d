------------------------- MODULE CreatorPageProofs -------------------------
(***************************************************************************)
(* Theorems about CreatorPage for every number of edits and answers: its   *)
(* type invariant, that the labels never go back, and that what a page     *)
(* lacks is on its way or was answered with an error.                      *)
(***************************************************************************)
EXTENDS CreatorPage, SequenceTheorems, TLAPS

Answers == ReadAnswers \cup QueryAnswers

(* An answer joins the inbox behind the others, as that of the read made   *)
(* first.                                                                  *)
LEMMA ServedAnswer ==
  ASSUME TypeOK, NEW ok \in BOOLEAN, NEW v \in Profiles, Served(ok, v)
  PROVE  LET a == [kind |-> First, ok |-> ok, of |-> v]
         IN  /\ a \in ReadAnswers /\ First \in reads /\ reads' = reads \ {First}
             /\ inbox' \in Seq(Answers) /\ Len(inbox) \in Nat
             /\ Len(inbox') = Len(inbox) + 1 /\ inbox'[Len(inbox) + 1] = a
             /\ \A i \in 1..Len(inbox) : inbox'[i] = inbox[i]
<1> DEFINE a == [kind |-> First, ok |-> ok, of |-> v]
<1>1. First \in reads /\ First \in {"labels", "posts"} /\ reads' = reads \ {First}
  BY DEF Served, First, TypeOK
<1>2. a \in ReadAnswers
  BY <1>1 DEF ReadAnswers
<1>3. inbox \in Seq(Answers) /\ inbox' = Append(inbox, a)
  BY DEF Served, TypeOK, Answers
<1> HIDE DEF a
<1>4. a \in Answers
  BY <1>2 DEF Answers
<1>5. /\ inbox' \in Seq(Answers) /\ Len(inbox) \in Nat
      /\ Len(inbox') = Len(inbox) + 1 /\ inbox'[Len(inbox) + 1] = a
      /\ \A i \in 1..Len(inbox) : inbox'[i] = inbox[i]
  BY <1>3, <1>4
<1> QED
  BY <1>1, <1>2, <1>5 DEF a

(* The page stops in front only: what keeps TypeOK when it is uncovered.   *)
StopsInFront == crashed => place = "front"

LEMMA TypeStep == TypeOK /\ StopsInFront /\ [Next]_vars => (TypeOK /\ StopsInFront)'
<1> SUFFICES ASSUME TypeOK, StopsInFront, [Next]_vars PROVE (TypeOK /\ StopsInFront)'
  OBVIOUS
<1> USE DEF StopsInFront
<1>1. CASE User
  <2>1. CASE Cover \/ Uncover
    <3>1. /\ UNCHANGED <<profile, cached, queries, inbox, pageVars, crashed>> /\ ~crashed
          /\ place' \in {"covered", "front"} /\ reads' \in {reads, reads \cup {"labels"}}
      BY <2>1 DEF Cover, Uncover, sdkVars
    <3> QED
      BY <3>1 DEF TypeOK, pageVars
  <2>2. CASE Leave \/ TapWithoutUser
    <3>1. /\ UNCHANGED <<profile, cached, pageVars>> /\ Quiet'
          /\ \/ place' = "gone" /\ crashed' = crashed /\ ~crashed
             \/ place' = "front" /\ crashed' = TRUE
      BY <2>2 DEF Leave, TapWithoutUser, Tappable, Quiet, sdkVars
    <3>2. inbox' \in Seq(ReadAnswers \cup QueryAnswers)
      BY <3>1 DEF Quiet
    <3>3. crashed' \in BOOLEAN
      <4>1. crashed \in BOOLEAN
        BY DEF TypeOK
      <4> QED
        BY <3>1, <4>1
    <3>4. crashed' => place' = "front"
      BY <3>1
    <3> QED
      BY <3>1, <3>2, <3>3, <3>4 DEF TypeOK, Quiet, pageVars
  <2>3. CASE Reopen
    <3>1. /\ UNCHANGED <<profile, cached>> /\ place' = "front" /\ crashed' = FALSE
          /\ reads' = {"posts", "labels"} /\ queries' = {} /\ inbox' = <<>>
          /\ user' = None /\ counted' = FALSE /\ posts' = FALSE /\ missed' = FALSE
          /\ tab' = "posts" /\ items' = "empty"
      BY <2>3 DEF Reopen, sdkVars
    <3>2. inbox' \in Seq(ReadAnswers \cup QueryAnswers)
      BY <3>1
    <3> QED
      BY <3>1, <3>2 DEF TypeOK
  <2>4. CASE TapSaved \/ TapPosts
    <3>1. /\ UNCHANGED <<profile, cached, place, reads, queries, inbox, user, counted,
                         posts, missed, crashed>>
          /\ place = "front" /\ ~crashed
          /\ tab' \in {"posts", "saved"} /\ items' \in {"empty", "posts", "saved"}
      BY <2>4 DEF TapSaved, TapPosts, Tappable, sdkVars
    <3> QED
      BY <3>1 DEF TypeOK, Quiet
  <2> QED
    BY <1>1, <2>1, <2>2, <2>3, <2>4 DEF User
<1>2. CASE EditProfile
  BY <1>2, BoundsAssumption DEF EditProfile, TypeOK, Quiet, Profiles, pageVars
<1>3. ASSUME NEW ok \in BOOLEAN, NEW v \in Profiles, Served(ok, v), cached' \in {cached, profile}
      PROVE  (TypeOK /\ StopsInFront)'
  <2>1. inbox' \in Seq(Answers)
    BY <1>3, ServedAnswer
  <2>2. place # "gone" /\ ~crashed
    BY <1>3 DEF Served, TypeOK, Quiet
  <2> QED
    BY <1>3, <2>1, <2>2 DEF Served, TypeOK, Answers, pageVars
<1>4. CASE Read
  <2>1. profile \in Profiles /\ 0 \in Profiles
    BY BoundsAssumption DEF TypeOK, Profiles
  <2>2. cached # None => cached \in Profiles
    BY DEF TypeOK
  <2> QED
    BY <1>3, <1>4, <2>1, <2>2 DEF Read, ReadOnline, ReadCached, ReadFails
<1>5. ASSUME NEW q \in QueryAnswers, QueryAnswered(q) PROVE (TypeOK /\ StopsInFront)'
  <2>1. inbox' \in Seq(ReadAnswers \cup QueryAnswers)
    BY <1>5 DEF QueryAnswered, TypeOK
  <2>2. place # "gone" /\ ~crashed
    BY <1>5 DEF QueryAnswered, TypeOK, Quiet
  <2> QED
    BY <1>5, <2>1, <2>2 DEF QueryAnswered, TypeOK, sdkVars, pageVars
<1>6. CASE Deliver
  <2> DEFINE a == Head(inbox)
  <2>1. a \in Answers /\ inbox' \in Seq(ReadAnswers \cup QueryAnswers)
    BY <1>6 DEF Deliver, TypeOK, Answers
  <2>2. place # "gone" /\ ~crashed
    BY <1>6 DEF Deliver, TypeOK, Quiet
  <2>3. a.kind \in {"labels", "posts"} => a \in ReadAnswers
    BY <2>1 DEF Answers, QueryAnswers
  <2>4. /\ user' \in Profiles \cup {None} /\ counted' \in BOOLEAN /\ posts' \in BOOLEAN
        /\ missed' \in BOOLEAN
        /\ tab' \in {"posts", "saved"} /\ items' \in {"empty", "posts", "saved"}
        /\ queries' \subseteq QueryAnswers
    <3>1. CASE NoProfile(a)
      BY <3>1 DEF NoProfile, TypeOK
    <3>2. CASE DeliverLabels(a)
      BY <2>3, <3>2 DEF DeliverLabels, Asks, TypeOK, ReadAnswers, QueryAnswers
    <3>3. CASE DeliverAuthor(a)
      BY <3>3 DEF DeliverAuthor, Asks, TypeOK, QueryAnswers, pageVars
    <3>4. CASE DeliverList(a)
      BY <3>4 DEF DeliverList, TypeOK
    <3>5. CASE DeliverCount(a)
      BY <3>5 DEF DeliverCount, TypeOK
    <3> QED
      BY <1>6, <3>1, <3>2, <3>3, <3>4, <3>5 DEF Deliver
  <2> HIDE DEF a
  <2> QED
    BY <1>6, <2>1, <2>2, <2>4 DEF Deliver, TypeOK, sdkVars
<1>7. CASE UNCHANGED vars
  BY <1>7 DEF vars, sdkVars, pageVars, TypeOK, Quiet
<1> QED
  BY <1>1, <1>2, <1>4, <1>5, <1>6, <1>7 DEF Next

LEMMA TypeInit == Init => TypeOK /\ StopsInFront
<1> SUFFICES ASSUME Init PROVE TypeOK /\ StopsInFront
  OBVIOUS
<1>1. 0 \in Profiles
  BY BoundsAssumption DEF Profiles
<1>2. inbox \in Seq(ReadAnswers \cup QueryAnswers)
  BY DEF Init
<1> QED
  BY <1>1, <1>2 DEF Init, TypeOK, StopsInFront

(* The variables of CreatorPage keep their types, and nothing is awaited   *)
(* for a page that was left or has stopped.                                *)
THEOREM PageTypes == Spec => []TypeOK
BY TypeInit, TypeStep, PTL DEF Spec

-----------------------------------------------------------------------------
(* The invariant behind ProfileNeverOlder.                                 *)

(* Position i of the inbox is a profile that was read.                     *)
IsProfile(i) ==
  i \in 1..Len(inbox) /\ inbox[i].kind \in {"labels", "posts"} /\ inbox[i].ok

(* A profile in the cache is no newer than the server's, one that waits no *)
(* newer than the cache's.                                                 *)
CacheNewest ==
  /\ cached # None => cached <= profile
  /\ \A i \in 1..Len(inbox) :
       IsProfile(i) => cached # None /\ inbox[i].of <= cached

(* Profiles wait in the order of their age.                                *)
InOrder ==
  \A i, j \in 1..Len(inbox) :
    i < j /\ IsProfile(i) /\ IsProfile(j) => inbox[i].of <= inbox[j].of

(* The labels are no newer than what waits or is cached.                   *)
LabelsOldest ==
  user # None =>
    /\ cached # None /\ user <= cached
    /\ \A i \in 1..Len(inbox) : IsProfile(i) => user <= inbox[i].of

PageInv == CacheNewest /\ InOrder /\ LabelsOldest

LEMMA PageInit == Init => PageInv
BY DEF Init, PageInv, CacheNewest, InOrder, LabelsOldest, IsProfile

(* An answer is the cached profile, or a newer one, behind the others.     *)
LEMMA SnapshotKeeps ==
  ASSUME TypeOK, PageInv, NEW ok \in BOOLEAN, NEW v \in Profiles, Served(ok, v),
         cached' \in Profiles \cup {None},
         cached # None => cached' # None /\ cached <= cached',
         cached' # None => cached' <= profile,
         ok => cached' = v
  PROVE  PageInv'
<1> USE DEF PageInv
<1>1. UNCHANGED <<profile, user>>
  BY DEF Served, pageVars
<1>2. /\ inbox' \in Seq(Answers) /\ Len(inbox) \in Nat
      /\ \A i \in 1..Len(inbox) : i \in 1..Len(inbox') /\ inbox'[i] = inbox[i]
      /\ \A i \in 1..Len(inbox') : i > Len(inbox) =>
           inbox'[i] \in ReadAnswers /\ inbox'[i].ok = ok /\ inbox'[i].of = v
  <2>1. PICK a \in ReadAnswers :
          /\ a.ok = ok /\ a.of = v
          /\ inbox' \in Seq(Answers) /\ Len(inbox) \in Nat
          /\ Len(inbox') = Len(inbox) + 1 /\ inbox'[Len(inbox) + 1] = a
          /\ \A i \in 1..Len(inbox) : inbox'[i] = inbox[i]
    BY ServedAnswer
  <2>2. /\ \A i \in 1..Len(inbox) : i \in 1..Len(inbox')
        /\ \A i \in 1..Len(inbox') : i > Len(inbox) => i = Len(inbox) + 1
    BY <2>1
  <2> QED
    BY <2>1, <2>2
<1>3. \A i \in 1..Len(inbox) : inbox[i] \in Answers
  BY DEF TypeOK, Answers
<1>4. \A n \in Profiles : n \in Nat /\ n # None
  BY NoneAssumption, BoundsAssumption DEF Profiles
(* A profile in the inbox was there before, or it is the cached one.       *)
<1>5. ASSUME NEW i \in 1..Len(inbox'), IsProfile(i)'
      PROVE  /\ inbox'[i].of \in Profiles /\ cached' \in Profiles
             /\ \/ i \in 1..Len(inbox) /\ IsProfile(i) /\ inbox'[i].of = inbox[i].of
                   /\ cached \in Profiles /\ inbox[i].of <= cached
                \/ i > Len(inbox) /\ inbox'[i].of = cached'
  <2>1. CASE i > Len(inbox)
    BY <1>2, <1>4, <1>5, <2>1 DEF IsProfile, ReadAnswers
  <2>2. CASE ~(i > Len(inbox))
    <3>1. i \in 1..Len(inbox) /\ inbox'[i] = inbox[i] /\ IsProfile(i)
      BY <1>2, <1>5, <2>2 DEF IsProfile
    <3>2. inbox[i] \in ReadAnswers
      BY <1>3, <3>1 DEF IsProfile, Answers, QueryAnswers
    <3>3. cached \in Profiles /\ inbox[i].of <= cached /\ cached' \in Profiles
      BY <1>4, <3>1 DEF CacheNewest, TypeOK
    <3> QED
      BY <3>1, <3>2, <3>3 DEF ReadAnswers
  <2> QED
    BY <2>1, <2>2
<1>6. \A i \in 1..Len(inbox') : IsProfile(i)' => inbox'[i].of <= cached'
  BY <1>4, <1>5
<1>7. CacheNewest'
  BY <1>1, <1>4, <1>5, <1>6 DEF CacheNewest
<1>8. InOrder'
  <2> SUFFICES ASSUME NEW i \in 1..Len(inbox'), NEW j \in 1..Len(inbox'),
                      i < j, IsProfile(i)', IsProfile(j)'
               PROVE  inbox'[i].of <= inbox'[j].of
    BY DEF InOrder
  <2>1. CASE j > Len(inbox)
    BY <1>5, <1>6, <2>1
  <2>2. CASE ~(j > Len(inbox))
    BY <1>2, <1>5, <2>2 DEF InOrder
  <2> QED
    BY <2>1, <2>2
<1>9. LabelsOldest'
  <2> SUFFICES ASSUME user # None
               PROVE  /\ cached' # None /\ user <= cached'
                      /\ \A i \in 1..Len(inbox') : IsProfile(i)' => user <= inbox'[i].of
    BY <1>1 DEF LabelsOldest
  <2>1. user \in Profiles /\ cached \in Profiles /\ user <= cached
    BY DEF LabelsOldest, TypeOK
  <2>2. cached' \in Profiles /\ user <= cached'
    BY <1>4, <2>1
  <2> QED
    BY <1>4, <1>5, <2>1, <2>2 DEF LabelsOldest
<1> QED
  BY <1>7, <1>8, <1>9

(* The answer that is taken from the inbox is the oldest profile in it.    *)
LEMMA DeliverKeeps ==
  ASSUME TypeOK, PageInv, Deliver
  PROVE  PageInv' /\ (user # None => user' # None /\ user <= user')
<1> USE DEF PageInv
<1> DEFINE a == inbox[1]
<1>1. inbox \in Seq(Answers) /\ inbox # <<>>
  BY DEF Deliver, TypeOK, Answers
<1>2. Head(inbox) = a /\ 1 \in 1..Len(inbox) /\ a \in Answers
  BY <1>1
<1>3. /\ Len(inbox') = Len(inbox) - 1 /\ Len(inbox) \in Nat
      /\ \A i \in 1..Len(inbox') : i + 1 \in 1..Len(inbox) /\ inbox'[i] = inbox[i + 1]
  BY <1>1, HeadTailProperties DEF Deliver
<1>4. \A i \in 1..Len(inbox') : IsProfile(i)' => IsProfile(i + 1)
  BY <1>3 DEF IsProfile
<1>5. UNCHANGED <<profile, cached>>
  BY DEF Deliver, sdkVars
<1>6. user' = user \/ (IsProfile(1) /\ user' = a.of)
  BY <1>2 DEF Deliver, NoProfile, DeliverLabels, DeliverAuthor, DeliverList, DeliverCount,
             IsProfile, pageVars
<1>7. IsProfile(1) => a.of \in Profiles
  BY <1>2 DEF IsProfile, Answers, QueryAnswers, ReadAnswers
<1> HIDE DEF a
<1>8. CacheNewest'
  BY <1>3, <1>4, <1>5 DEF CacheNewest
<1>9. InOrder'
  <2> SUFFICES ASSUME NEW i \in 1..Len(inbox'), NEW j \in 1..Len(inbox'),
                      i < j, IsProfile(i)', IsProfile(j)'
               PROVE  inbox'[i].of <= inbox'[j].of
    BY DEF InOrder
  <2>1. i + 1 < j + 1
    OBVIOUS
  <2> QED
    BY <1>3, <1>4, <2>1 DEF InOrder
<1>10. LabelsOldest' /\ (user # None => user' # None /\ user <= user')
  <2>1. CASE user' = user
    <3>1. user # None => user \in Nat
      BY BoundsAssumption DEF TypeOK, Profiles
    <3> QED
      BY <1>3, <1>4, <1>5, <2>1, <3>1 DEF LabelsOldest
  <2>2. CASE IsProfile(1) /\ user' = a.of
    <3>1. cached # None /\ a.of <= cached /\ user' # None
      BY <1>2, <1>7, <2>2, NoneAssumption DEF CacheNewest, a, Profiles
    <3>2. ASSUME NEW i \in 1..Len(inbox'), IsProfile(i)' PROVE a.of <= inbox'[i].of
      <4>1. 1 < i + 1
        OBVIOUS
      <4> QED
        BY <1>2, <1>3, <1>4, <2>2, <3>2, <4>1 DEF InOrder, a
    <3>3. user # None => user <= a.of
      BY <1>2, <2>2 DEF LabelsOldest, a
    <3> QED
      BY <1>5, <2>2, <3>1, <3>2, <3>3 DEF LabelsOldest
  <2> QED
    BY <1>6, <2>1, <2>2
<1> QED
  BY <1>8, <1>9, <1>10

LEMMA PageStep ==
  ASSUME TypeOK, PageInv, [Next]_vars
  PROVE  PageInv' /\ (user # None /\ user' # None => user <= user')
<1> USE DEF PageInv
<1>1. user # None => user \in Nat
  BY BoundsAssumption DEF TypeOK, Profiles
<1>2. CASE Deliver
  BY <1>2, DeliverKeeps
<1>3. CASE Read
  <2>1. profile \in Profiles /\ 0 \in Profiles /\ cached \in Profiles \cup {None}
        /\ \A n \in Profiles : n \in Nat /\ n # None
    BY BoundsAssumption, NoneAssumption DEF TypeOK, Profiles
  <2>2. cached # None => cached <= profile
    BY DEF CacheNewest
  <2>3. ASSUME ReadOnline PROVE PageInv'
    <3>1. Served(TRUE, profile) /\ profile \in Profiles /\ cached' = profile
      BY <2>1, <2>3 DEF ReadOnline
    <3>2. /\ cached' \in Profiles \cup {None} /\ (cached' # None => cached' <= profile)
          /\ cached # None => cached' # None /\ cached <= cached'
      BY <2>1, <2>2, <3>1
    <3> QED
      BY <2>1, <2>2, <3>1, <3>2, SnapshotKeeps
  <2>4. ASSUME ReadCached PROVE PageInv'
    <3>1. Served(TRUE, cached) /\ cached \in Profiles /\ cached' = cached
      BY <2>1, <2>4 DEF ReadCached
    <3>2. /\ cached' \in Profiles \cup {None} /\ (cached' # None => cached' <= profile)
          /\ cached # None => cached' # None /\ cached <= cached'
      BY <2>1, <2>2, <3>1
    <3> QED
      BY <2>1, <2>2, <3>1, <3>2, SnapshotKeeps
  <2>5. ASSUME ReadFails PROVE PageInv'
    <3>1. Served(FALSE, 0) /\ 0 \in Profiles /\ cached' = cached
      BY <2>1, <2>5 DEF ReadFails
    <3>2. /\ cached' \in Profiles \cup {None} /\ (cached' # None => cached' <= profile)
          /\ cached # None => cached' # None /\ cached <= cached'
      BY <2>1, <2>2, <3>1
    <3> QED
      BY <2>1, <2>2, <3>1, <3>2, SnapshotKeeps
  <2>6. user' = user
    BY <1>3 DEF Read, ReadOnline, ReadCached, ReadFails, Served, pageVars
  <2> QED
    BY <1>1, <1>3, <2>3, <2>4, <2>5, <2>6 DEF Read
<1>4. ASSUME NEW q \in QueryAnswers, QueryAnswered(q)
      PROVE  PageInv' /\ user' = user
  <2>1. /\ inbox' = Append(inbox, q) /\ inbox \in Seq(Answers) /\ q \in Answers
        /\ UNCHANGED <<profile, cached, user>>
    BY <1>4 DEF QueryAnswered, TypeOK, Answers, sdkVars, pageVars
  <2>2. \A i \in 1..Len(inbox') :
          IsProfile(i)' => i \in 1..Len(inbox) /\ inbox'[i] = inbox[i] /\ IsProfile(i)
    BY <2>1 DEF IsProfile, QueryAnswers
  <2> QED
    BY <2>1, <2>2 DEF CacheNewest, InOrder, LabelsOldest
<1>5. CASE EditProfile
  <2>1. profile' = profile + 1 /\ UNCHANGED <<cached, inbox, user>>
    BY <1>5 DEF EditProfile, pageVars
  <2>2. profile \in Nat /\ (cached # None => cached \in Nat)
    BY BoundsAssumption DEF TypeOK, Profiles
  <2> QED
    BY <1>1, <2>1, <2>2 DEF CacheNewest, InOrder, LabelsOldest, IsProfile
<1>6. CASE User \/ UNCHANGED vars
  <2>1. UNCHANGED <<profile, cached>>
    BY <1>6 DEF User, Cover, Uncover, Leave, Reopen, TapSaved, TapPosts, TapWithoutUser,
               vars, sdkVars
  <2>2. inbox' = inbox \/ inbox' = <<>>
    BY <1>6 DEF User, Cover, Uncover, Leave, Reopen, TapSaved, TapPosts, TapWithoutUser, vars
  <2>3. user' = user \/ user' = None
    BY <1>6 DEF User, Cover, Uncover, Leave, Reopen, TapSaved, TapPosts, TapWithoutUser,
               vars, pageVars
  <2> QED
    BY <1>1, <2>1, <2>2, <2>3 DEF CacheNewest, InOrder, LabelsOldest, IsProfile
<1> QED
  BY <1>1, <1>2, <1>3, <1>4, <1>5, <1>6 DEF Next

(* The labels never go back to an older profile while the page is there:   *)
(* what the server and the cache answer reaches the main queue in the      *)
(* order of its age, and it is delivered in that order.                    *)
THEOREM ProfileNeverOlderAlways == Spec => ProfileNeverOlder
<1>1. Init => TypeOK /\ StopsInFront /\ PageInv
  BY TypeInit, PageInit
<1>2. (TypeOK /\ StopsInFront /\ PageInv) /\ [Next]_vars
        => (TypeOK /\ StopsInFront /\ PageInv)'
  BY TypeStep, PageStep
<1>3. (TypeOK /\ StopsInFront /\ PageInv) /\ [Next]_vars
        => [user # None /\ user' # None => user <= user']_vars
  BY PageStep
<1> QED
  BY <1>1, <1>2, <1>3, PTL DEF Spec, ProfileNeverOlder

-----------------------------------------------------------------------------
(* What a page lacks is on its way, or was answered with an error.         *)

(* An answer of this kind waits, of a read one with a profile or not.      *)
Waiting(kind) == \E i \in 1..Len(inbox) : inbox[i].kind = kind

Asked(kind) == [kind |-> kind] \in queries

CountComing == counted \/ Asked("count") \/ Waiting("count")
PostsComing ==
  \/ posts \/ missed \/ "posts" \in reads
  \/ Waiting("posts") \/ Asked("list") \/ Waiting("list")

Watched == place # "gone" /\ ~crashed

(* As long as a page is there, its posts are on it or on their way, unless *)
(* fetchPosts was answered with an error; and once it shows the labels, so *)
(* is the number of its followers: the safety behind PageFilled.           *)
RestAwaited == Watched => PostsComing /\ (user # None => CountComing)

(* What waits goes on waiting when answers join it,                        *)
LEMMA WaitingStays ==
  ASSUME \A i \in 1..Len(inbox) : i \in 1..Len(inbox') /\ inbox'[i] = inbox[i], NEW kind
  PROVE  Waiting(kind) => Waiting(kind)'
BY DEF Waiting

(* and, unless it is the first, when an answer is taken.                   *)
LEMMA WaitingTaken ==
  ASSUME TypeOK, inbox # <<>>, inbox' = Tail(inbox), NEW kind
  PROVE  Waiting(kind) => Waiting(kind)' \/ Head(inbox).kind = kind
<1>1. inbox \in Seq(Answers) /\ Len(inbox) \in Nat /\ Len(inbox') = Len(inbox) - 1
  BY DEF TypeOK, Answers
<1>2. /\ Head(inbox) = inbox[1]
      /\ \A i \in 1..Len(inbox) : i # 1 => i - 1 \in 1..Len(inbox') /\ inbox'[i - 1] = inbox[i]
  BY <1>1
<1> QED
  BY <1>2 DEF Waiting

LEMMA RestServed ==
  ASSUME TypeOK, RestAwaited, NEW ok \in BOOLEAN, NEW v \in Profiles, Served(ok, v)
  PROVE  RestAwaited'
<1>1. UNCHANGED <<place, crashed, user, counted, posts, missed, queries>>
  BY DEF Served, pageVars
<1>2. PICK a \in ReadAnswers :
        /\ a.kind = First /\ reads' = reads \ {First}
        /\ Len(inbox) \in Nat /\ Len(inbox') = Len(inbox) + 1 /\ inbox'[Len(inbox) + 1] = a
        /\ \A i \in 1..Len(inbox) : inbox'[i] = inbox[i]
  BY ServedAnswer
<1>3. \A kind : Waiting(kind) => Waiting(kind)'
  BY <1>2, WaitingStays
<1>4. Waiting(a.kind)'
  <2>1. Len(inbox) + 1 \in 1..Len(inbox') /\ inbox'[Len(inbox) + 1].kind = a.kind
    BY <1>2
  <2> QED
    BY <2>1 DEF Waiting
<1>5. "posts" \in reads => "posts" \in reads' \/ Waiting("posts")'
  BY <1>2, <1>4 DEF First
<1>6. PostsComing => PostsComing'
  BY <1>1, <1>3, <1>5 DEF PostsComing, Asked
<1>7. CountComing => CountComing'
  BY <1>1, <1>3 DEF CountComing, Asked
<1> QED
  BY <1>1, <1>6, <1>7 DEF RestAwaited, Watched

LEMMA RestDelivered ==
  ASSUME TypeOK, RestAwaited, Deliver PROVE RestAwaited'
<1> DEFINE a == Head(inbox)
<1>1. inbox # <<>> /\ inbox' = Tail(inbox) /\ UNCHANGED <<place, reads, crashed>>
      /\ (NoProfile(a) \/ DeliverLabels(a) \/ DeliverAuthor(a) \/ DeliverList(a) \/ DeliverCount(a))
  BY DEF Deliver
<1>2. \A kind : Waiting(kind) => Waiting(kind)' \/ a.kind = kind
  BY <1>1, WaitingTaken
<1> HIDE DEF a
<1>3. Watched' = Watched
  BY <1>1 DEF Watched
<1> USE DEF RestAwaited, CountComing, PostsComing, Asked
<1>4. CASE NoProfile(a)
  BY <1>1, <1>2, <1>3, <1>4 DEF NoProfile
<1>5. CASE DeliverLabels(a)
  BY <1>1, <1>2, <1>3, <1>5 DEF DeliverLabels, Asks
<1>6. CASE DeliverAuthor(a)
  BY <1>1, <1>2, <1>3, <1>6 DEF DeliverAuthor, Asks, pageVars
<1>7. CASE DeliverList(a)
  BY <1>1, <1>2, <1>3, <1>7 DEF DeliverList
<1>8. CASE DeliverCount(a)
  BY <1>1, <1>2, <1>3, <1>8 DEF DeliverCount
<1> QED
  BY <1>1, <1>4, <1>5, <1>6, <1>7, <1>8

LEMMA RestStep ==
  ASSUME TypeOK, RestAwaited, [Next]_vars PROVE RestAwaited'
<1>1. CASE Read
  <2>1. PICK ok \in BOOLEAN, v \in Profiles : Served(ok, v)
    <3>1. 0 \in Profiles
      BY BoundsAssumption DEF Profiles
    <3> QED
      BY <1>1, <3>1 DEF Read, ReadOnline, ReadCached, ReadFails, TypeOK
  <2> QED
    BY <2>1, RestServed
<1>2. ASSUME NEW q \in QueryAnswers, QueryAnswered(q) PROVE RestAwaited'
  <2>1. /\ UNCHANGED <<place, crashed, reads, user, counted, posts, missed>>
        /\ q \in queries /\ queries' = queries \ {q} /\ inbox' = Append(inbox, q)
    BY <1>2 DEF QueryAnswered, pageVars
  <2>2. inbox \in Seq(Answers) /\ Len(inbox) \in Nat /\ q \in Answers
        /\ q.kind \in {"list", "count"} /\ q = [kind |-> q.kind]
    BY DEF TypeOK, Answers, QueryAnswers
  <2>3. /\ Len(inbox') = Len(inbox) + 1 /\ inbox'[Len(inbox) + 1] = q
        /\ Len(inbox) + 1 \in 1..Len(inbox')
        /\ \A i \in 1..Len(inbox) : i \in 1..Len(inbox') /\ inbox'[i] = inbox[i]
    BY <2>1, <2>2
  <2>4. \A kind : Waiting(kind) => Waiting(kind)'
    BY <2>3, WaitingStays
  <2>5. Waiting(q.kind)'
    BY <2>2, <2>3 DEF Waiting
  <2>6. \A kind : Asked(kind) => Asked(kind)' \/ Waiting(kind)'
    <3> SUFFICES ASSUME NEW kind, Asked(kind), ~Asked(kind)' PROVE Waiting(kind)'
      OBVIOUS
    <3>1. q = [kind |-> kind]
      BY <2>1 DEF Asked
    <3>2. q.kind = kind
      BY <3>1
    <3> QED
      BY <2>5, <3>2
  <2>7. CountComing => CountComing'
    BY <2>1, <2>4, <2>6 DEF CountComing
  <2>8. PostsComing => PostsComing'
    BY <2>1, <2>4, <2>6 DEF PostsComing
  <2> QED
    BY <2>1, <2>7, <2>8 DEF RestAwaited, Watched
<1>3. CASE Deliver
  BY <1>3, RestDelivered
<1>4. CASE Cover \/ Uncover
  <2>1. /\ UNCHANGED <<crashed, queries, inbox, user, counted, posts, missed>>
        /\ place # "gone" /\ reads \subseteq reads'
    BY <1>4 DEF Cover, Uncover, pageVars
  <2>2. Watched' => Watched
    BY <2>1 DEF Watched
  <2> QED
    BY <2>1, <2>2 DEF RestAwaited, CountComing, PostsComing, Asked, Waiting
<1>5. CASE Leave \/ TapWithoutUser
  BY <1>5 DEF Leave, TapWithoutUser, RestAwaited, Watched
<1>6. CASE Reopen
  BY <1>6 DEF Reopen, RestAwaited, PostsComing
<1>7. CASE TapSaved \/ TapPosts
  BY <1>7 DEF TapSaved, TapPosts, RestAwaited, Watched, CountComing, PostsComing, Asked, Waiting
<1>8. CASE EditProfile \/ UNCHANGED vars
  BY <1>8 DEF EditProfile, vars, pageVars, RestAwaited, Watched, CountComing, PostsComing,
              Asked, Waiting
<1> QED
  BY <1>1, <1>2, <1>3, <1>4, <1>5, <1>6, <1>7, <1>8 DEF Next, User

(* What a page lacks has been asked for or was refused, however it is      *)
(* covered, shown again while empty, left, opened again or stopped, and    *)
(* however its two reads of the profile are answered: only an error to     *)
(* fetchPosts leaves it without posts.                                     *)
THEOREM RestAwaitedAlways == Spec => []RestAwaited
<1>1. Init => RestAwaited
  BY DEF Init, RestAwaited, PostsComing
<1> QED
  BY <1>1, TypeInit, TypeStep, RestStep, PTL DEF Spec
=============================================================================
