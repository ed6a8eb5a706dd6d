--------------------------- MODULE PostPageProofs ---------------------------
(***************************************************************************)
(* Proofs about PostPage for any accounts and any number of comments: type *)
(* correctness, that a comment answered with "Success" is in every list    *)
(* that comes after it, and that what the page lacks has been asked for.   *)
(***************************************************************************)
EXTENDS PostPage, TLAPS

AnyAnswer == PostAnswers \cup ListAnswers \cup WriteAnswers

-----------------------------------------------------------------------------
(* The inductive invariant.  A comment that was answered is in the cache,  *)
(* so it is in every list computed later; and a list computed before, if   *)
(* it is still waiting, is ahead of that answer in the main queue.         *)

StoreOK ==
  /\ server \subseteq Taps /\ pending \subseteq Taps \ server
  /\ refused \subseteq Taps \ (server \cup pending) /\ cached \subseteq server
  /\ creator \in [Taps -> Members \cup {None}]
  /\ \A t \in Known : creator[t] # None

PageOK ==
  /\ post \in {"asked", "loaded", "missing"}
  /\ failed \in BOOLEAN /\ box \in BOOLEAN /\ asked \in BOOLEAN /\ crashed \in BOOLEAN
  /\ box \/ asked \/ calls # {} => post = "loaded"
  /\ calls \subseteq Known /\ comments \subseteq Known
  /\ posted \subseteq cached

UserOK ==
  /\ me \in Members \cup {None} /\ blocked \in [Members -> SUBSET Members]
  /\ draft \in BOOLEAN

AnswerOK(a) ==
  /\ a.kind = "post" => post = "asked"
  /\ a.kind # "post" => post = "loaded"
  /\ a.kind = "comments" => a.docs \subseteq Known /\ (a.ok => posted \subseteq a.docs)
  /\ a.kind = "write" /\ a.ok => a.tap \in cached

InboxOK ==
  /\ inbox \in Seq(AnyAnswer)
  /\ \A i \in 1..Len(inbox) : AnswerOK(inbox[i])
  /\ \A i, j \in 1..Len(inbox) : inbox[i].kind = "post" /\ inbox[j].kind = "post" => i = j

InOrder ==
  \A i, j \in 1..Len(inbox) :
    /\ i < j
    /\ inbox[i].kind = "write" /\ inbox[i].ok
    /\ inbox[j].kind = "comments" /\ inbox[j].ok
    => inbox[i].tap \in inbox[j].docs

Inv == StoreOK /\ PageOK /\ UserOK /\ InboxOK /\ InOrder

LEMMA InvTypes == Inv => TypeOK
BY DEF Inv, StoreOK, PageOK, UserOK, InboxOK, TypeOK, AnyAnswer

-----------------------------------------------------------------------------
(* Facts about the queue of answers                                        *)

LEMMA Appended ==
  ASSUME NEW S, NEW q \in Seq(S), NEW a \in S
  PROVE  /\ Append(q, a) \in Seq(S) /\ Len(Append(q, a)) = Len(q) + 1
         /\ Len(q) \in Nat
         /\ \A i \in 1..Len(q) : Append(q, a)[i] = q[i]
         /\ Append(q, a)[Len(q) + 1] = a
OBVIOUS

LEMMA Dropped ==
  ASSUME NEW S, NEW q \in Seq(S), q # <<>>
  PROVE  /\ Tail(q) \in Seq(S) /\ Len(Tail(q)) = Len(q) - 1
         /\ Len(q) \in Nat /\ Len(q) >= 1
         /\ \A i \in 1..Len(Tail(q)) : i + 1 \in 1..Len(q) /\ Tail(q)[i] = q[i + 1]
         /\ 1 \in 1..Len(q) /\ Head(q) = q[1] /\ Head(q) \in S
OBVIOUS

(* An answer that is true of the page stays so while the comments known    *)
(* and cached only grow and nothing is announced.                          *)
LEMMA AnswersKept ==
  ASSUME NEW b \in AnyAnswer, AnswerOK(b),
         Known \subseteq Known', cached \subseteq cached', UNCHANGED <<post, posted>>
  PROVE  AnswerOK(b)'
BY DEF AnswerOK

(* The queue stays in order when nothing joins or leaves it,               *)
LEMMA InboxStays ==
  ASSUME InboxOK, InOrder, UNCHANGED inbox,
         \A b \in AnyAnswer : AnswerOK(b) => AnswerOK(b)'
  PROVE  InboxOK' /\ InOrder'
<1>1. \A i \in 1..Len(inbox) : inbox[i] \in AnyAnswer
  BY DEF InboxOK
<1>2. InboxOK'
  BY <1>1 DEF InboxOK
<1>3. InOrder'
  BY DEF InOrder
<1> QED  BY <1>2, <1>3

(* when an answer joins it that is true of the page, is not a second answer *)
(* to the same fetchPost, and contains what the ones before announce,      *)
LEMMA InboxGrows ==
  ASSUME InboxOK, InOrder, NEW a \in AnyAnswer, inbox' = Append(inbox, a),
         AnswerOK(a)', \A b \in AnyAnswer : AnswerOK(b) => AnswerOK(b)',
         a.kind = "post" => \A i \in 1..Len(inbox) : inbox[i].kind # "post",
         a.kind = "comments" /\ a.ok =>
           \A i \in 1..Len(inbox) :
             inbox[i].kind = "write" /\ inbox[i].ok => inbox[i].tap \in a.docs
  PROVE  InboxOK' /\ InOrder'
<1>1. inbox \in Seq(AnyAnswer) /\ \A i \in 1..Len(inbox) : inbox[i] \in AnyAnswer
  BY DEF InboxOK
<1>2. /\ inbox' \in Seq(AnyAnswer) /\ Len(inbox') = Len(inbox) + 1 /\ Len(inbox) \in Nat
      /\ \A i \in 1..Len(inbox) : inbox'[i] = inbox[i]
      /\ inbox'[Len(inbox) + 1] = a
  BY <1>1, Appended
<1>3. \A i \in 1..Len(inbox') : i \in 1..Len(inbox) \/ i = Len(inbox) + 1
  BY <1>2
<1>4. ASSUME NEW i \in 1..Len(inbox')
      PROVE  AnswerOK(inbox[i])' 
  <2>1. CASE i \in 1..Len(inbox)
    <3>1. AnswerOK(inbox[i])
      BY <2>1 DEF InboxOK
    <3> QED  BY <1>1, <1>2, <2>1, <3>1
  <2>2. CASE i = Len(inbox) + 1
    BY <1>2, <2>2
  <2> QED  BY <1>3, <2>1, <2>2
<1>5. ASSUME NEW i \in 1..Len(inbox'), NEW j \in 1..Len(inbox'),
             inbox'[i].kind = "post", inbox'[j].kind = "post"
      PROVE  i = j
  BY <1>2, <1>3, <1>5 DEF InboxOK
<1>6. InboxOK'
  BY <1>2, <1>4, <1>5 DEF InboxOK
<1>7. ASSUME NEW i \in 1..Len(inbox'), NEW j \in 1..Len(inbox'), i < j,
             inbox'[i].kind = "write", inbox'[i].ok,
             inbox'[j].kind = "comments", inbox'[j].ok
      PROVE  inbox'[i].tap \in inbox'[j].docs
  <2>1. i \in 1..Len(inbox) /\ inbox'[i] = inbox[i]
    BY <1>2, <1>3, <1>7
  <2>2. CASE j \in 1..Len(inbox)
    BY <1>2, <1>7, <2>1, <2>2 DEF InOrder
  <2>3. CASE j = Len(inbox) + 1
    BY <1>2, <1>7, <2>1, <2>3
  <2> QED  BY <1>3, <2>2, <2>3
<1>8. InOrder'
  BY <1>7 DEF InOrder
<1> QED  BY <1>6, <1>8

(* and when the first one leaves it and the others stay true of the page.  *)
LEMMA InboxDrops ==
  ASSUME InboxOK, InOrder, inbox # <<>>, inbox' = Tail(inbox),
         \A i \in 1..Len(inbox) : i > 1 => \A b \in AnyAnswer : b = inbox[i] => AnswerOK(b)'
  PROVE  InboxOK' /\ InOrder'
<1>1. inbox \in Seq(AnyAnswer) /\ \A i \in 1..Len(inbox) : inbox[i] \in AnyAnswer
  BY DEF InboxOK
<1>2. /\ inbox' \in Seq(AnyAnswer) /\ Len(inbox') = Len(inbox) - 1
      /\ \A i \in 1..Len(inbox') : i + 1 \in 1..Len(inbox) /\ inbox'[i] = inbox[i + 1]
      /\ Len(inbox) \in Nat
  BY <1>1, Dropped
<1>3. ASSUME NEW i \in 1..Len(inbox')
      PROVE  AnswerOK(inbox[i])'
  <2>1. i + 1 > 1 /\ i + 1 \in 1..Len(inbox) /\ inbox'[i] = inbox[i + 1]
    BY <1>2
  <2> QED  BY <1>1, <2>1
<1>4. ASSUME NEW i \in 1..Len(inbox'), NEW j \in 1..Len(inbox'),
             inbox'[i].kind = "post", inbox'[j].kind = "post"
      PROVE  i = j
  BY <1>2, <1>4 DEF InboxOK
<1>5. InboxOK'
  BY <1>2, <1>3, <1>4 DEF InboxOK
<1>6. ASSUME NEW i \in 1..Len(inbox'), NEW j \in 1..Len(inbox'), i < j,
             inbox'[i].kind = "write", inbox'[i].ok,
             inbox'[j].kind = "comments", inbox'[j].ok
      PROVE  inbox'[i].tap \in inbox'[j].docs
  BY <1>2, <1>6 DEF InOrder
<1>7. InOrder'
  BY <1>6 DEF InOrder
<1> QED  BY <1>5, <1>7

-----------------------------------------------------------------------------
(* The invariant holds and is kept *)

LEMMA InvInit == Init => Inv
<1> SUFFICES ASSUME Init PROVE Inv
  OBVIOUS
<1>1. StoreOK /\ PageOK /\ UserOK
  BY DEF Init, StoreOK, PageOK, UserOK, Known
<1>2. Len(inbox) = 0 /\ inbox \in Seq(AnyAnswer) /\ 1..Len(inbox) = {}
  BY DEF Init
<1>3. InboxOK /\ InOrder
  BY <1>2 DEF InboxOK, InOrder
<1> QED  BY <1>1, <1>3 DEF Inv

(* Steps that leave the queue alone, and that no answer in it speaks of.   *)
CalmStep ==
  \/ Type
  \/ \E t \in Taps : Send(t) \/ \E a \in Members : SendTheirs(t, a)
  \/ \E a \in Members : SignIn(a) \/ Block(a)
  \/ SignOut \/ UNCHANGED vars

LEMMA CalmKeeps == Inv /\ CalmStep => Inv'
<1> SUFFICES ASSUME Inv, CalmStep PROVE Inv'
  OBVIOUS
<1> USE DEF Inv
<1>1. StoreOK' /\ PageOK' /\ Known \subseteq Known'
  <2>1. CASE Type
    BY <2>1 DEF Type, StoreOK, PageOK, Known, sdkVars, viewVars
  <2>2. CASE \E t \in Taps : Send(t)
    BY <2>2 DEF Send, StoreOK, PageOK, UserOK, Known, viewVars, accountVars
  <2>3. CASE \E t \in Taps : \E a \in Members : SendTheirs(t, a)
    <3>1. PICK t \in Taps, a \in Members : SendTheirs(t, a)
      BY <2>3
    <3>2. Known' = Known \cup {t} /\ t \notin Known
      BY <3>1 DEF SendTheirs, Known
    <3>3. creator' = [creator EXCEPT ![t] = a] /\ a # None
      BY <3>1, NamesAssumption DEF SendTheirs
    <3>4. StoreOK'
      BY <3>1, <3>2, <3>3 DEF SendTheirs, StoreOK, Known
    <3>5. PageOK'
      BY <3>1, <3>2 DEF SendTheirs, PageOK, viewVars
    <3> QED  BY <3>2, <3>4, <3>5
  <2>4. CASE \E a \in Members : SignIn(a) \/ Block(a)
    BY <2>4 DEF SignIn, Block, StoreOK, PageOK, Known, sdkVars, viewVars
  <2>5. CASE SignOut
    BY <2>5 DEF SignOut, StoreOK, PageOK, Known, sdkVars, viewVars
  <2>6. CASE UNCHANGED vars
    BY <2>6 DEF vars, StoreOK, PageOK, Known, sdkVars, viewVars
  <2> QED  BY <2>1, <2>2, <2>3, <2>4, <2>5, <2>6 DEF CalmStep
<1>2. UserOK'
  <2>1. CASE Type
    BY <2>1 DEF Type, UserOK, accountVars
  <2>2. CASE \E t \in Taps : Send(t) \/ \E a \in Members : SendTheirs(t, a)
    BY <2>2 DEF Send, SendTheirs, UserOK, accountVars
  <2>3. CASE \E a \in Members : SignIn(a) \/ Block(a)
    BY <2>3 DEF SignIn, Block, UserOK
  <2>4. CASE SignOut \/ UNCHANGED vars
    BY <2>4 DEF SignOut, UserOK, vars, accountVars
  <2> QED  BY <2>1, <2>2, <2>3, <2>4 DEF CalmStep
<1>3. UNCHANGED <<inbox, post, posted, cached>>
  BY DEF CalmStep, Type, Send, SendTheirs, SignIn, Block, SignOut, vars, viewVars, sdkVars
<1>4. InboxOK' /\ InOrder'
  BY <1>1, <1>3, AnswersKept, InboxStays
<1> QED  BY <1>1, <1>2, <1>4

(* The page is left by a crash, or opened again: nothing is waited for.    *)
LEMMA ClearKeeps == Inv /\ (TapButton \/ Reopen) => Inv'
<1> SUFFICES ASSUME Inv, TapButton \/ Reopen PROVE Inv'
  OBVIOUS
<1>1. StoreOK' /\ PageOK' /\ UserOK'
  <2>1. StoreOK' /\ Known' = Known /\ UNCHANGED <<cached, posted, me, blocked>>
    BY DEF Inv, TapButton, Reopen, StoreOK, Known, sdkVars, accountVars
  <2>2. CASE TapButton
    BY <2>1, <2>2 DEF Inv, TapButton, PageOK, UserOK, viewVars
  <2>3. CASE Reopen
    BY <2>1, <2>3 DEF Inv, Reopen, PageOK, UserOK
  <2> QED  BY <2>1, <2>2, <2>3
<1>2. inbox' = <<>>
  BY DEF TapButton, Reopen
<1>3. Len(inbox') = 0 /\ inbox' \in Seq(AnyAnswer) /\ 1..Len(inbox') = {}
  BY <1>2
<1>4. InboxOK' /\ InOrder'
  BY <1>3 DEF InboxOK, InOrder
<1> QED  BY <1>1, <1>4 DEF Inv

(* A write is settled: its completion, if there is still one, is queued.   *)
LEMMA SettledKeeps ==
  ASSUME Inv, NEW t \in Taps, Acknowledged(t) \/ Rejected(t) PROVE Inv'
<1> USE DEF Inv
<1>1. StoreOK' /\ PageOK' /\ UserOK' /\ Known' = Known /\ cached \subseteq cached'
  <2>1. t \in pending /\ Known' = Known /\ UNCHANGED creator /\ cached \subseteq cached'
    <3>1. t \in pending
      BY DEF Acknowledged, Rejected, Mine
    <3>2. CASE Acknowledged(t)
      BY <3>1, <3>2 DEF Acknowledged, Known
    <3>3. CASE Rejected(t)
      BY <3>1, <3>3 DEF Rejected, Known
    <3> QED  BY <3>1, <3>2, <3>3
  <2>2. StoreOK'
    BY <2>1 DEF Acknowledged, Rejected, StoreOK, Known
  <2>3. PageOK'
    <3>1. UNCHANGED <<calls, post, comments, failed, box, posted, asked, crashed>>
      BY DEF Acknowledged, Rejected, viewVars
    <3> QED  BY <2>1, <3>1 DEF PageOK
  <2>4. UserOK'
    BY DEF Acknowledged, Rejected, UserOK, accountVars
  <2> QED  BY <2>1, <2>2, <2>3, <2>4
<1>2. UNCHANGED <<post, posted>>
  BY DEF Acknowledged, Rejected, viewVars
<1>3. \A b \in AnyAnswer : AnswerOK(b) => AnswerOK(b)'
  BY <1>1, <1>2, AnswersKept
<1>4. CASE t \notin calls
  <2>1. UNCHANGED inbox
    BY <1>4 DEF Acknowledged, Rejected, Called
  <2> QED  BY <1>1, <1>3, <2>1, InboxStays
<1>5. CASE t \in calls
  <2>1. PICK ok \in BOOLEAN : Called(t, ok) /\ (ok => t \in cached')
    BY DEF Acknowledged, Rejected
  <2> DEFINE a == [kind |-> "write", ok |-> ok, tap |-> t]
  <2>2. a \in AnyAnswer /\ a.kind = "write" /\ a.ok = ok /\ a.tap = t
    BY DEF AnyAnswer, WriteAnswers
  <2>3. inbox' = Append(inbox, a)
    BY <1>5, <2>1 DEF Called
  <2>4. post' = "loaded"
    BY <1>2, <1>5 DEF PageOK
  <2>5. AnswerOK(a)'
    BY <2>1, <2>2, <2>4 DEF AnswerOK
  <2> HIDE DEF a
  <2>6. InboxOK' /\ InOrder'
    BY <1>3, <2>2, <2>3, <2>5, InboxGrows
  <2> QED  BY <1>1, <2>6
<1> QED  BY <1>4, <1>5

LEMMA PostAnsweredKeeps ==
  ASSUME Inv, NEW ok \in BOOLEAN, PostAnswered(ok) PROVE Inv'
<1> USE DEF Inv
<1>1. StoreOK' /\ PageOK' /\ UserOK' /\ Known' = Known /\ UNCHANGED <<cached, post, posted>>
  BY DEF PostAnswered, StoreOK, PageOK, UserOK, Known, sdkVars, accountVars,
         viewVars
<1>2. \A b \in AnyAnswer : AnswerOK(b) => AnswerOK(b)'
  BY <1>1, AnswersKept
<1> DEFINE a == [kind |-> "post", ok |-> ok]
<1>3. a \in AnyAnswer /\ a.kind = "post"
  BY DEF AnyAnswer, PostAnswers
<1>4. inbox' = Append(inbox, a) /\ \A i \in 1..Len(inbox) : inbox[i].kind # "post"
  BY DEF PostAnswered
<1>5. AnswerOK(a)'
  BY <1>1, <1>3 DEF PostAnswered, AnswerOK
<1> HIDE DEF a
<1>6. InboxOK' /\ InOrder'
  BY <1>2, <1>3, <1>4, <1>5, InboxGrows
<1> QED  BY <1>1, <1>6

(* A list is computed: it has every comment that was answered, and every   *)
(* one whose answer is waiting.                                            *)
LEMMA ServeKeeps ==
  ASSUME Inv, ServeOne PROVE Inv'
<1> USE DEF Inv
<1>1. PICK ok \in BOOLEAN, docs \in SUBSET Known :
        /\ Serve(ok, docs) /\ cached' \subseteq server /\ cached \subseteq cached'
        /\ ok => cached \subseteq docs
  <2> Mine \subseteq pending /\ cached \subseteq server
    BY DEF Mine, StoreOK
  <2>1. CASE ServeOnline
    <3>1. Serve(TRUE, server \cup Mine) /\ cached' \subseteq server /\ cached \subseteq cached'
      BY <2>1 DEF ServeOnline
    <3>2. server \cup Mine \in SUBSET Known /\ cached \subseteq server \cup Mine
      BY DEF Known
    <3> QED  BY <3>1, <3>2
  <2>2. CASE ServeCached
    <3>1. Serve(TRUE, cached \cup Mine) /\ cached' = cached
      BY <2>2 DEF ServeCached
    <3>2. cached \cup Mine \in SUBSET Known
      BY DEF Known
    <3> QED  BY <3>1, <3>2
  <2>3. CASE ServeError
    BY <2>3 DEF ServeError, StoreOK
  <2> QED  BY <2>1, <2>2, <2>3 DEF ServeOne
<1>2. StoreOK' /\ PageOK' /\ UserOK' /\ Known' = Known /\ UNCHANGED <<post, posted>>
  BY <1>1 DEF Serve, StoreOK, PageOK, UserOK, Known, accountVars, viewVars
<1>3. \A b \in AnyAnswer : AnswerOK(b) => AnswerOK(b)'
  BY <1>1, <1>2, AnswersKept
<1> DEFINE a == [kind |-> "comments", ok |-> ok, docs |-> docs]
<1>4. docs \in SUBSET Taps
  BY DEF StoreOK, Known
<1>5. a \in AnyAnswer /\ a.kind = "comments" /\ a.ok = ok /\ a.docs = docs
  BY <1>4 DEF AnyAnswer, ListAnswers
<1>6. inbox' = Append(inbox, a)
  BY <1>1 DEF Serve
<1>7. AnswerOK(a)'
  BY <1>1, <1>2, <1>5 DEF Serve, AnswerOK, PageOK
<1>8. ASSUME NEW i \in 1..Len(inbox), inbox[i].kind = "write", inbox[i].ok, ok
      PROVE  inbox[i].tap \in docs
  BY <1>1, <1>8 DEF InboxOK, AnswerOK
<1> HIDE DEF a
<1>9. InboxOK' /\ InOrder'
  BY <1>3, <1>5, <1>6, <1>7, <1>8, InboxGrows
<1> QED  BY <1>2, <1>9

LEMMA DeliverKeeps ==
  ASSUME Inv, Deliver PROVE Inv'
<1> USE DEF Inv
<1> DEFINE a == Head(inbox)
<1>1. /\ inbox \in Seq(AnyAnswer) /\ inbox # <<>> /\ inbox' = Tail(inbox)
      /\ UNCHANGED <<sdkVars, creator, accountVars, crashed>>
      /\ DeliverPost(a) \/ DeliverComments(a) \/ DeliverWrite(a)
  BY DEF Deliver, InboxOK
<1>2. a = inbox[1] /\ 1 \in 1..Len(inbox) /\ a \in AnyAnswer
  BY <1>1, Dropped
<1>3. AnswerOK(a)
  BY <1>2 DEF InboxOK
<1> HIDE DEF a
<1>4. StoreOK' /\ Known' = Known /\ UNCHANGED <<cached, me, blocked, crashed>>
  BY <1>1 DEF StoreOK, Known, sdkVars, accountVars
<1>5. CASE DeliverPost(a)
  <2>1. post = "asked" /\ calls = {} /\ asked = FALSE /\ box = FALSE /\ a.kind = "post"
    BY <1>3, <1>5 DEF DeliverPost, AnswerOK, PageOK
  <2>2. PageOK' /\ UserOK'
    BY <1>4, <1>5, <2>1 DEF DeliverPost, PageOK, UserOK
  <2>3. ASSUME NEW i \in 1..Len(inbox), i > 1 PROVE FALSE
    <3>1. AnswerOK(inbox[i])
      BY DEF InboxOK
    <3>2. inbox[i].kind = "post"
      BY <2>1, <3>1 DEF AnswerOK
    <3> QED  BY <1>2, <2>1, <2>3, <3>2 DEF InboxOK
  <2>4. InboxOK' /\ InOrder'
    BY <1>1, <2>3, InboxDrops
  <2> QED  BY <1>4, <2>2, <2>4
<1>6. CASE DeliverComments(a)
  <2>1. PageOK' /\ UserOK' /\ UNCHANGED <<post, posted>>
    BY <1>3, <1>4, <1>6 DEF DeliverComments, AnswerOK, PageOK, UserOK, Accepted
  <2>2. \A b \in AnyAnswer : AnswerOK(b) => AnswerOK(b)'
    BY <1>4, <2>1, AnswersKept
  <2>3. InboxOK' /\ InOrder'
    BY <1>1, <2>2, InboxDrops DEF InboxOK
  <2> QED  BY <1>4, <2>1, <2>3
<1>7. CASE DeliverWrite(a)
  <2>1. UNCHANGED <<post, box, failed, comments>> /\ calls' \subseteq calls /\ post = "loaded"
    BY <1>3, <1>7 DEF DeliverWrite, viewVars, AnswerOK
  <2>2. posted' \subseteq cached
    BY <1>3, <1>7 DEF DeliverWrite, AnswerOK, PageOK
  <2>3. asked' \in BOOLEAN /\ draft' \in BOOLEAN
    BY <1>7 DEF DeliverWrite, PageOK, UserOK
  <2>4. PageOK' /\ UserOK'
    BY <1>4, <2>1, <2>2, <2>3 DEF PageOK, UserOK
  <2>5. ASSUME NEW i \in 1..Len(inbox), i > 1, NEW b \in AnyAnswer, b = inbox[i]
        PROVE  AnswerOK(b)'
    <3>1. AnswerOK(b)
      BY <2>5 DEF InboxOK
    <3>2. b.kind = "comments" /\ b.ok => posted' \subseteq b.docs
      BY <1>2, <1>7, <2>5, <3>1 DEF InOrder, DeliverWrite, AnswerOK
    <3> QED  BY <1>4, <2>1, <3>1, <3>2 DEF AnswerOK
  <2>6. InboxOK' /\ InOrder'
    BY <1>1, <2>5, InboxDrops
  <2> QED  BY <1>4, <2>4, <2>6
<1> QED  BY <1>1, <1>5, <1>6, <1>7

LEMMA InvStep == Inv /\ [Next]_vars => Inv'
<1> SUFFICES ASSUME Inv, [Next]_vars PROVE Inv'
  OBVIOUS
<1>1. CASE CalmStep
  BY <1>1, CalmKeeps
<1>2. CASE TapButton \/ Reopen
  BY <1>2, ClearKeeps
<1>3. CASE \E t \in Taps : Acknowledged(t) \/ Rejected(t)
  BY <1>3, SettledKeeps
<1>4. CASE \E ok \in BOOLEAN : PostAnswered(ok)
  BY <1>4, PostAnsweredKeeps
<1>5. CASE ServeOne
  BY <1>5, ServeKeeps
<1>6. CASE Deliver
  BY <1>6, DeliverKeeps
<1> QED  BY <1>1, <1>2, <1>3, <1>4, <1>5, <1>6 DEF Next, User, World, CalmStep

LEMMA InvAlways == Spec => []Inv
BY InvInit, InvStep, PTL DEF Spec

(* The types of the page's state hold for any accounts, comments and       *)
(* answers under way.                                                      *)
THEOREM PageTypes == Spec => []TypeOK
BY InvAlways, InvTypes, PTL

-----------------------------------------------------------------------------
(* What was answered with "Success" is in every list that is shown.        *)
LEMMA ListHasPosted ==
  ASSUME Inv, [Next]_vars, comments' # comments, NEW t \in posted
  PROVE  t \in comments' \/ t \notin Accepted(posted) \/ post' # "loaded"
<1> USE DEF Inv
<1>1. CASE Reopen
  BY <1>1 DEF Reopen
<1>2. CASE Deliver
  <2> DEFINE a == Head(inbox)
  <2>1. inbox # <<>> /\ inbox \in Seq(AnyAnswer)
    BY <1>2 DEF Deliver, InboxOK
  <2>2. AnswerOK(a)
    BY <2>1, Dropped DEF InboxOK
  <2>3. DeliverPost(a) \/ DeliverComments(a) \/ DeliverWrite(a)
    BY <1>2 DEF Deliver
  <2> HIDE DEF a
  <2>4. DeliverComments(a) /\ a.ok
    BY <2>3 DEF DeliverPost, DeliverComments, DeliverWrite, viewVars
  <2>5. posted \subseteq a.docs /\ comments' = Accepted(a.docs)
    BY <2>2, <2>4 DEF DeliverComments, AnswerOK
  <2> QED  BY <2>5 DEF Accepted
<1>3. CASE ~Reopen /\ ~Deliver
  <2>1. UNCHANGED comments
    BY <1>3 DEF Next, User, World, ServeOne, ServeOnline, ServeCached, ServeError, Serve,
                Type, Send, TapButton, SignIn, SignOut, Block, SendTheirs, Acknowledged,
                Rejected, PostAnswered, viewVars, vars
  <2> QED  BY <2>1
<1> QED  BY <1>1, <1>2, <1>3

(* A comment that was answered with "Success" is in every list the page    *)
(* shows after it, unless its creator is blocked, whatever was asked when. *)
THEOREM SuccessKeptAlways == Spec => SuccessKept
<1>1. Inv /\ [Next]_vars =>
        [comments' # comments =>
           \A t \in posted : t \in comments' \/ t \notin Accepted(posted) \/ post' # "loaded"]_vars
  BY ListHasPosted
<1> QED  BY <1>1, InvAlways, PTL DEF Spec, SuccessKept

-----------------------------------------------------------------------------
(* A loaded page that lacks its text view, or a comment that was answered  *)
(* with "Success", has a list under way, unless the last query was         *)
(* answered with an error: the safety behind BoxAppears and SuccessShown.  *)
Coming == asked \/ \E i \in 1..Len(inbox) : inbox[i].kind = "comments"

Hidden(t) == \E a \in Members : creator[t] \in blocked[a]

ListAwaited ==
  post = "loaded" /\ ~failed /\ ~Coming =>
    box /\ \A t \in posted : t \in comments \/ Hidden(t)

(* Nothing is taken out of the queue, and the page stays as it is.         *)
LEMMA AwaitedStays ==
  ASSUME ListAwaited, Coming => Coming',
         UNCHANGED <<post, comments, failed, box, posted>>,
         \A t \in posted : Hidden(t) => Hidden(t)'
  PROVE  ListAwaited'
BY DEF ListAwaited

LEMMA AwaitedWorld ==
  ASSUME Inv, ListAwaited, Next, ~Deliver, ~Reopen PROVE ListAwaited'
<1> USE DEF Inv
<1>1. inbox \in Seq(AnyAnswer)
  BY DEF InboxOK
<1>2. ASSUME NEW a \in AnyAnswer, inbox' = Append(inbox, a)
      PROVE  \A i \in 1..Len(inbox) : i \in 1..Len(inbox') /\ inbox'[i] = inbox[i]
  BY <1>1, <1>2
<1>3. CASE \E t \in Taps : Acknowledged(t) \/ Rejected(t)
  <2>1. PICK t \in Taps, ok \in BOOLEAN : Called(t, ok)
    BY <1>3 DEF Acknowledged, Rejected
  <2>2. [kind |-> "write", ok |-> ok, tap |-> t] \in AnyAnswer
    BY DEF AnyAnswer, WriteAnswers
  <2>3. \A i \in 1..Len(inbox) : i \in 1..Len(inbox') /\ inbox'[i] = inbox[i]
    BY <1>2, <2>1, <2>2 DEF Called
  <2>4. UNCHANGED <<asked, creator, blocked, post, comments, failed, box, posted>>
    BY <1>3 DEF Acknowledged, Rejected, viewVars, accountVars
  <2> QED  BY <2>3, <2>4, AwaitedStays DEF Coming, Hidden
<1>4. ASSUME NEW ok \in BOOLEAN, PostAnswered(ok) PROVE ListAwaited'
  <2>1. [kind |-> "post", ok |-> ok] \in AnyAnswer
    BY DEF AnyAnswer, PostAnswers
  <2>2. \A i \in 1..Len(inbox) : i \in 1..Len(inbox') /\ inbox'[i] = inbox[i]
    BY <1>2, <1>4, <2>1 DEF PostAnswered
  <2>3. UNCHANGED <<asked, creator, blocked, post, comments, failed, box, posted>>
    BY <1>4 DEF PostAnswered, viewVars, accountVars
  <2> QED  BY <2>2, <2>3, AwaitedStays DEF Coming, Hidden
<1>5. CASE ServeOne
  <2>1. PICK a : inbox' = Append(inbox, a) /\ a.kind = "comments"
    <3>1. \E ok, docs : Serve(ok, docs)
      BY <1>5 DEF ServeOne, ServeOnline, ServeCached, ServeError
    <3> QED  BY <3>1 DEF Serve
  <2>2. Len(inbox') \in 1..Len(inbox') /\ inbox'[Len(inbox')] = a
    BY <1>1, <2>1
  <2>3. Coming'
    BY <2>1, <2>2 DEF Coming
  <2> QED  BY <2>3 DEF ListAwaited
<1>6. CASE TapButton
  BY <1>6 DEF TapButton, ListAwaited, viewVars
<1>7. CASE \E a \in Members : Block(a)
  <2>1. UNCHANGED <<asked, inbox, creator, post, comments, failed, box, posted>>
        /\ \A b \in Members : blocked[b] \subseteq blocked'[b]
    BY <1>7 DEF Block, UserOK, viewVars
  <2> QED  BY <2>1, AwaitedStays DEF Coming, Hidden
<1>8. CASE \E t \in Taps : Send(t) \/ \E a \in Members : SendTheirs(t, a)
  <2>1. UNCHANGED <<asked, inbox, blocked, post, comments, failed, box, posted>>
        /\ \A t \in Known : creator'[t] = creator[t]
    BY <1>8 DEF Send, SendTheirs, StoreOK, Known, viewVars, accountVars
  <2>2. posted \subseteq Known
    BY DEF PageOK, StoreOK, Known
  <2> QED  BY <2>1, <2>2, AwaitedStays DEF Coming, Hidden
<1>9. CASE Type \/ SignOut \/ \E a \in Members : SignIn(a)
  <2>1. UNCHANGED <<asked, inbox, creator, blocked, post, comments, failed, box, posted>>
    BY <1>9 DEF Type, SignOut, SignIn, viewVars, accountVars
  <2> QED  BY <2>1, AwaitedStays DEF Coming, Hidden
<1> QED  BY <1>3, <1>4, <1>5, <1>6, <1>7, <1>8, <1>9 DEF Next, User, World

LEMMA AwaitedDeliver ==
  ASSUME Inv, ListAwaited, Deliver PROVE ListAwaited'
<1> USE DEF Inv
<1> DEFINE a == Head(inbox)
<1>1. inbox # <<>> /\ inbox \in Seq(AnyAnswer) /\ inbox' = Tail(inbox)
  BY DEF Deliver, InboxOK
<1>2. AnswerOK(a)
  BY <1>1, Dropped DEF InboxOK
<1>3. a = inbox[1] /\ \A i \in 1..Len(inbox) :
        i # 1 => i - 1 \in 1..Len(inbox') /\ inbox'[i - 1] = inbox[i]
  BY <1>1
<1>4. UNCHANGED <<creator, me, blocked>> /\ (DeliverPost(a) \/ DeliverComments(a) \/ DeliverWrite(a))
  BY DEF Deliver, accountVars
<1> HIDE DEF a
<1>5. CASE DeliverPost(a)
  BY <1>5 DEF DeliverPost, ListAwaited, Coming
<1>6. CASE DeliverComments(a)
  <2>1. CASE a.ok
    <3>1. box' /\ comments' = Accepted(a.docs) /\ posted' = posted /\ posted \subseteq a.docs
      BY <1>2, <1>6, <2>1 DEF DeliverComments, AnswerOK
    <3>2. \A t \in posted : t \in Accepted(a.docs) \/ Hidden(t)
      BY <3>1 DEF Accepted, Hidden, UserOK
    <3> QED  BY <1>4, <3>1, <3>2 DEF ListAwaited, Hidden
  <2>2. CASE ~a.ok
    BY <1>6, <2>2 DEF DeliverComments, ListAwaited
  <2> QED  BY <2>1, <2>2
<1>7. CASE DeliverWrite(a)
  <2>1. CASE a.ok
    BY <1>7, <2>1 DEF DeliverWrite, ListAwaited, Coming
  <2>2. CASE ~a.ok
    <3>1. UNCHANGED <<asked, post, comments, failed, box, posted>> /\ a.kind # "comments"
      BY <1>7, <2>2 DEF DeliverWrite, viewVars
    <3>2. Coming => Coming'
      BY <1>3, <3>1 DEF Coming
    <3> QED  BY <1>4, <3>1, <3>2, AwaitedStays DEF Hidden
  <2> QED  BY <2>1, <2>2
<1> QED  BY <1>4, <1>5, <1>6, <1>7

(* Whatever the page lacks has been asked for: each completion that makes  *)
(* a list necessary (fetchPost's, publishComment's) asks for it.           *)
THEOREM ListAwaitedAlways == Spec => []ListAwaited
<1>1. Init => ListAwaited
  BY DEF Init, ListAwaited
<1>2. Inv /\ ListAwaited /\ [Next]_vars => ListAwaited'
  <2>1. ASSUME ListAwaited, Reopen PROVE ListAwaited'
    BY <2>1 DEF Reopen, ListAwaited
  <2>2. ASSUME ListAwaited, UNCHANGED vars PROVE ListAwaited'
    BY <2>2 DEF vars, viewVars, accountVars, ListAwaited, Coming, Hidden
  <2> QED  BY <2>1, <2>2, AwaitedWorld, AwaitedDeliver
<1> QED  BY <1>1, <1>2, InvAlways, PTL DEF Spec
=============================================================================
