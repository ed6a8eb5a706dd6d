----------------------------- MODULE FeedProofs -----------------------------
(***************************************************************************)
(* Proofs about Feed for any accounts, categories, posts and any number of *)
(* requests under way, in whatever order they are answered: type           *)
(* correctness, that blocked authors do not appear, that asking again      *)
(* loses no post, and that the refresh header turns for a request only.    *)
(***************************************************************************)
EXTENDS Feed, TLAPS

Known == server \cup pending \cup refused

-----------------------------------------------------------------------------
(* The inductive invariant.  What was ever answered is known, belongs to   *)
(* its category, and is in the cache as soon as the server has it: so the  *)
(* cache can answer the next request without taking anything away.         *)

StoreOK ==
  /\ server \subseteq Posts /\ pending \subseteq Posts \ server
  /\ refused \subseteq Posts \ (server \cup pending) /\ cached \subseteq server
  /\ me \in Members \cup {None} /\ blocked \in [Members -> SUBSET Accounts]
  /\ switched \in BOOLEAN

BarOK ==
  /\ loaded \in BOOLEAN /\ selected \in Choices /\ asked \in [Choices -> Nat]
  /\ refreshing \in BOOLEAN

DocsOK(S, c) ==
  /\ S \subseteq Known /\ S \cap server \subseteq cached
  /\ \A p \in S : c = All \/ p.category = c

PageOK ==
  /\ shownFor \in Choices \cup {None} /\ DocsOK(shown, shownFor)
  /\ shownFor = None => shown = {}

QueueOK ==
  /\ inbox \in Seq(Answers)
  /\ \A i \in 1..Len(inbox) : DocsOK(inbox[i].docs, inbox[i].category)

Inv == StoreOK /\ BarOK /\ PageOK /\ QueueOK

LEMMA InvTypes == Inv => TypeOK
BY DEF Inv, StoreOK, BarOK, PageOK, QueueOK, DocsOK, Known, TypeOK

-----------------------------------------------------------------------------
(* Facts about the queue of answers                                        *)

LEMMA Joined ==
  ASSUME NEW S, NEW q \in Seq(S), NEW n \in Nat, NEW a \in S, NEW r, r = q \o [i \in 1..n |-> a]
  PROVE  /\ r \in Seq(S) /\ Len(q) \in Nat /\ Len(r) = Len(q) + n
         /\ \A i \in 1..Len(r) : \/ i \in 1..Len(q) /\ r[i] = q[i]
                                 \/ i > Len(q) /\ r[i] = a
<1> DEFINE w == [i \in 1..n |-> a]
<1>1. w \in Seq(S) /\ Len(w) = n /\ \A i \in 1..n : w[i] = a
  OBVIOUS
<1> HIDE DEF w
<1>2. /\ q \o w \in Seq(S) /\ Len(q \o w) = Len(q) + n /\ Len(q) \in Nat
      /\ \A i \in 1..Len(q) + n : (q \o w)[i] = IF i <= Len(q) THEN q[i] ELSE w[i - Len(q)]
  BY <1>1
<1>3. r = q \o w
  BY DEF w
<1>4. ASSUME NEW i \in 1..Len(r)
      PROVE  \/ i \in 1..Len(q) /\ r[i] = q[i]
             \/ i > Len(q) /\ r[i] = a
  <2>1. CASE i <= Len(q)
    BY <1>2, <1>3, <2>1
  <2>2. CASE i > Len(q)
    <3>1. i - Len(q) \in 1..n
      BY <1>2, <1>3, <2>2
    <3> QED  BY <1>1, <1>2, <1>3, <2>2, <3>1
  <2> QED  BY <1>2, <1>3, <2>1, <2>2
<1> QED  BY <1>2, <1>3, <1>4

LEMMA Dropped ==
  ASSUME NEW S, NEW q \in Seq(S), q # <<>>
  PROVE  /\ Tail(q) \in Seq(S) /\ Len(q) \in Nat
         /\ \A i \in 1..Len(Tail(q)) : i + 1 \in 1..Len(q) /\ Tail(q)[i] = q[i + 1]
         /\ 1 \in 1..Len(q) /\ Head(q) = q[1] /\ Head(q) \in S
OBVIOUS

-----------------------------------------------------------------------------
(* What the SDK knows only grows, the cache keeps up with the server on    *)
(* everything already known, and nothing known before becomes the user's   *)
(* own or the server's while nobody signs in or out.                       *)
Grows ==
  /\ Known \subseteq Known' /\ cached \subseteq cached'
  /\ server' \cap Known \subseteq server \cup cached'
  /\ me' = me => (server' \cup Mine') \cap Known \subseteq server \cup Mine

LEMMA DocsKept ==
  ASSUME Grows, NEW S, NEW c, DocsOK(S, c) PROVE DocsOK(S, c)'
BY DEF Grows, DocsOK

(* Steps that touch neither the SDK's store nor the queue of answers       *)
Page ==
  \/ \E c \in Choices : SelectCategory(c)
  \/ PullDown \/ \E ok \in BOOLEAN : CategoriesAnswered(ok)
  \/ \E a \in Members : SignIn(a) 
  \/ SignOut \/ \E a \in Accounts : Block(a)
  \/ UNCHANGED vars

(* and steps of a post on its way to the server.                           *)
Store ==
  \E p \in Posts : PublishMine(p) \/ PublishTheirs(p) \/ \E ok \in BOOLEAN : Stored(p, ok)

LEMMA StoreGrows == Inv /\ Store => StoreOK' /\ Grows
<1> SUFFICES ASSUME StoreOK, NEW p \in Posts,
                    PublishMine(p) \/ PublishTheirs(p) \/ \E ok \in BOOLEAN : Stored(p, ok)
             PROVE  StoreOK' /\ Grows
  BY DEF Inv, Store
<1>1. CASE PublishMine(p)
  BY <1>1 DEF PublishMine, StoreOK, Grows, Known, Mine, accountVars
<1>2. CASE PublishTheirs(p)
  BY <1>2 DEF PublishTheirs, StoreOK, Grows, Known, Mine, accountVars
<1>3. ASSUME NEW ok \in BOOLEAN, Stored(p, ok) PROVE StoreOK' /\ Grows
  <2>1. CASE ok
    BY <1>3, <2>1 DEF Stored, StoreOK, Grows, Known, Mine, accountVars
  <2>2. CASE ~ok
    BY <1>3, <2>2 DEF Stored, StoreOK, Grows, Known, Mine, accountVars
  <2> QED  BY <2>1, <2>2
<1> QED  BY <1>1, <1>2, <1>3

LEMMA StoreKeeps == Inv /\ Store => Inv'
<1> SUFFICES ASSUME Inv, Store PROVE Inv'
  OBVIOUS
<1>1. StoreOK' /\ Grows
  BY StoreGrows
<1>2. UNCHANGED <<barVars, asked, inbox, pageVars>>
  BY DEF Store, PublishMine, PublishTheirs, Stored
<1>3. BarOK' /\ PageOK' /\ QueueOK'
  BY <1>1, <1>2, DocsKept DEF Inv, BarOK, PageOK, QueueOK, barVars, pageVars
<1> QED  BY <1>1, <1>3 DEF Inv

LEMMA PageKeeps == Inv /\ Page => Inv' /\ Grows
<1> SUFFICES ASSUME Inv, Page PROVE Inv' /\ Grows
  OBVIOUS
<1> USE DEF Inv
<1>1. UNCHANGED <<sdkVars, inbox, shown, shownFor>>
  BY DEF Page, SelectCategory, PullDown, CategoriesAnswered, SignIn, SignOut, Block, pageVars, vars
<1>2. Grows
  BY <1>1 DEF Grows, StoreOK, Known, Mine, sdkVars
<1>3. StoreOK'
  <2>1. CASE \E a \in Accounts : Block(a)
    BY <2>1 DEF Block, StoreOK, sdkVars
  <2>2. CASE ~ \E a \in Accounts : Block(a)
    BY <1>1, <2>2 DEF Page, SelectCategory, PullDown, CategoriesAnswered, SignIn, SignOut,
                      Switch, StoreOK, sdkVars, accountVars, vars
  <2> QED  BY <2>1, <2>2
<1>4. BarOK'
  <2>1. CASE \E c \in Choices : SelectCategory(c)
    BY <2>1 DEF SelectCategory, Ask, BarOK, pageVars
  <2>2. CASE PullDown
    BY <2>2 DEF PullDown, Ask, BarOK, barVars
  <2>3. CASE \E ok \in BOOLEAN : CategoriesAnswered(ok)
    BY <2>3 DEF CategoriesAnswered, BarOK, pageVars, Choices
  <2>4. CASE SignOut \/ UNCHANGED vars
    BY <2>4 DEF SignOut, BarOK, barVars, pageVars, vars
  <2>5. CASE \E a \in Members : SignIn(a)
    BY <2>5 DEF SignIn, BarOK, barVars, pageVars
  <2>6. CASE \E a \in Accounts : Block(a)
    BY <2>6 DEF Block, BarOK, barVars, pageVars
  <2> QED  BY <2>1, <2>2, <2>3, <2>4, <2>5, <2>6 DEF Page
<1>5. PageOK' /\ QueueOK'
  BY <1>1, <1>2, DocsKept DEF PageOK, QueueOK
<1> QED  BY <1>2, <1>3, <1>4, <1>5

(* An answer: what it contains, and that it is put behind the others.      *)
LEMMA Served ==
  ASSUME Inv, NEW c \in Choices, ServeOne(c)
  PROVE  \E ok \in BOOLEAN, docs \in SUBSET Known :
           LET a == [category |-> c, ok |-> ok, docs |-> docs]
           IN  /\ a \in Answers /\ DocsOK(docs, c)'
               /\ inbox' = inbox \o [i \in 1..asked[c] |-> a]
               /\ ok => \A p \in cached \cup Mine : (c = All \/ p.category = c) => p \in docs
<1> USE DEF Inv
<1>0. Mine \subseteq pending /\ Mine \cap server = {} /\ cached \subseteq server /\ Known \subseteq Posts
  BY DEF Mine, StoreOK, Known
<1>1. CASE ServeOnline(c)
  <2>0. Matching(c, server \cup Mine) \in SUBSET Known
    BY <1>0 DEF Matching, Known
  <2>1. PICK docs \in SUBSET Known : docs = Matching(c, server \cup Mine)
    BY <2>0
  <2> DEFINE a == [category |-> c, ok |-> TRUE, docs |-> docs]
  <2>2. \A p \in docs : c = All \/ p.category = c
    BY <2>1 DEF Matching
  <2>3. \A p \in cached \cup Mine : (c = All \/ p.category = c) => p \in docs
    BY <1>0, <2>1 DEF Matching
  <2>4. docs \cap server \subseteq Matching(c, server)
    BY <2>1 DEF Matching
  <2>5. /\ cached' = cached \cup Matching(c, server) /\ server' = server
        /\ inbox' = inbox \o [i \in 1..asked[c] |-> a] /\ Known' = Known
    BY <1>1, <2>1 DEF ServeOnline, Serve, Known
  <2>6. DocsOK(docs, c)'
    BY <2>1, <2>2, <2>4, <2>5 DEF DocsOK
  <2>7. a \in Answers
    BY <1>0, <2>1 DEF Answers
  <2> QED  BY <2>1, <2>3, <2>5, <2>6, <2>7
<1>2. CASE ServeCached(c)
  <2>0. Matching(c, cached \cup Mine) \in SUBSET Known
    BY <1>0 DEF Matching, Known
  <2>1. PICK docs \in SUBSET Known : docs = Matching(c, cached \cup Mine)
    BY <2>0
  <2> DEFINE a == [category |-> c, ok |-> TRUE, docs |-> docs]
  <2>2. \A p \in docs : c = All \/ p.category = c
    BY <2>1 DEF Matching
  <2>3. \A p \in cached \cup Mine : (c = All \/ p.category = c) => p \in docs
    BY <2>1 DEF Matching
  <2>4. docs \cap server \subseteq cached
    BY <1>0, <2>1 DEF Matching
  <2>5. /\ cached' = cached /\ server' = server
        /\ inbox' = inbox \o [i \in 1..asked[c] |-> a] /\ Known' = Known
    BY <1>2, <2>1 DEF ServeCached, Serve, Known
  <2>6. DocsOK(docs, c)'
    BY <2>1, <2>2, <2>4, <2>5 DEF DocsOK
  <2>7. a \in Answers
    BY <1>0, <2>1 DEF Answers
  <2> QED  BY <2>1, <2>3, <2>5, <2>6, <2>7
<1>3. CASE ServeError(c)
  <2> DEFINE a == [category |-> c, ok |-> FALSE, docs |-> {}]
  <2>1. a \in Answers /\ {} \in SUBSET Known /\ DocsOK({}, c)'
    BY DEF Answers, DocsOK
  <2>2. inbox' = inbox \o [i \in 1..asked[c] |-> a]
    BY <1>3 DEF ServeError, Serve
  <2> QED  BY <2>1, <2>2
<1> QED  BY <1>1, <1>2, <1>3 DEF ServeOne

LEMMA ServeKeeps == ASSUME Inv, NEW c \in Choices, ServeOne(c) PROVE Inv' /\ Grows
<1> USE DEF Inv
<1>1. /\ UNCHANGED <<server, pending, refused, accountVars, barVars, pageVars>>
      /\ asked' = [asked EXCEPT ![c] = 0]
  BY DEF ServeOne, ServeOnline, ServeCached, ServeError, Serve
<1>2. cached \subseteq cached' /\ cached' \subseteq server
  BY DEF ServeOne, ServeOnline, ServeCached, ServeError, Matching, StoreOK
<1>3. Grows
  BY <1>1, <1>2 DEF Grows, Known, Mine, accountVars
<1>4. StoreOK' /\ BarOK'
  BY <1>1, <1>2 DEF StoreOK, BarOK, accountVars, barVars, pageVars
<1>5. PageOK'
  BY <1>1, <1>3, DocsKept DEF PageOK, pageVars
<1>6. PICK ok \in BOOLEAN, docs \in SUBSET Known :
        LET a == [category |-> c, ok |-> ok, docs |-> docs]
        IN  a \in Answers /\ DocsOK(docs, c)' /\ inbox' = inbox \o [i \in 1..asked[c] |-> a]
  BY Served
<1> DEFINE a == [category |-> c, ok |-> ok, docs |-> docs]
<1>7. a.docs = docs /\ a.category = c
  OBVIOUS
<1>8. a \in Answers /\ DocsOK(docs, c)' /\ inbox' = inbox \o [i \in 1..asked[c] |-> a]
  BY <1>6
<1> HIDE DEF a
<1>9. asked[c] \in Nat /\ inbox \in Seq(Answers)
  BY DEF BarOK, QueueOK
<1>10. /\ inbox' \in Seq(Answers)
       /\ \A i \in 1..Len(inbox') : \/ i \in 1..Len(inbox) /\ inbox'[i] = inbox[i]
                                    \/ i > Len(inbox) /\ inbox'[i] = a
  <2>1. PICK n \in Nat : n = asked[c]
    BY <1>9
  <2>2. inbox' = inbox \o [i \in 1..n |-> a]
    BY <1>8, <2>1
  <2>3. a \in Answers /\ inbox \in Seq(Answers)
    BY <1>8, <1>9
  <2>4. PICK r : r = inbox'
    OBVIOUS
  <2>5. r = inbox \o [i \in 1..n |-> a]
    BY <2>2, <2>4
  <2>6. /\ r \in Seq(Answers)
        /\ \A i \in 1..Len(r) : \/ i \in 1..Len(inbox) /\ r[i] = inbox[i]
                                \/ i > Len(inbox) /\ r[i] = a
    BY <2>3, <2>5, Joined
  <2> QED  BY <2>4, <2>6
<1>11. ASSUME NEW i \in 1..Len(inbox')
       PROVE  DocsOK(inbox[i].docs, inbox[i].category)'
  <2>1. CASE i \in 1..Len(inbox) /\ inbox'[i] = inbox[i]
    <3>1. DocsOK(inbox[i].docs, inbox[i].category)
      BY <2>1 DEF QueueOK
    <3>2. \A S, d : DocsOK(S, d) => DocsOK(S, d)'
      BY <1>3, DocsKept
    <3> QED  BY <2>1, <3>1, <3>2 DEF DocsOK
  <2>2. CASE inbox'[i] = a
    BY <1>7, <1>8, <2>2 DEF DocsOK
  <2> QED  BY <1>10, <2>1, <2>2
<1>12. QueueOK'
  BY <1>10, <1>11 DEF QueueOK
<1> QED  BY <1>3, <1>4, <1>5, <1>12

LEMMA DeliverKeeps == Inv /\ Deliver => Inv' /\ Grows
<1> SUFFICES ASSUME Inv, Deliver PROVE Inv' /\ Grows
  OBVIOUS
<1> USE DEF Inv
<1>1. /\ inbox \in Seq(Answers) /\ inbox # <<>> /\ inbox' = Tail(inbox)
      /\ UNCHANGED <<sdkVars, me, blocked, barVars, asked>>
  BY DEF Deliver, Taken, QueueOK
<1>2. /\ inbox' \in Seq(Answers)
      /\ \A i \in 1..Len(inbox') : i + 1 \in 1..Len(inbox) /\ inbox'[i] = inbox[i + 1]
      /\ 1 \in 1..Len(inbox) /\ Head(inbox) = inbox[1] /\ Head(inbox) \in Answers
  BY <1>1, Dropped
<1>3. Grows
  BY <1>1 DEF Grows, StoreOK, Known, Mine, sdkVars, accountVars
<1>4. StoreOK' /\ BarOK'
  BY <1>1 DEF Deliver, Taken, StoreOK, BarOK, sdkVars, barVars
<1>5. PageOK'
  <2>1. \A S, c : DocsOK(S, c) => DocsOK(S, c)'
    BY <1>3, DocsKept
  <2>2. CASE Head(inbox).ok
    <3>1. PICK a \in Answers : a = Head(inbox)
      BY <1>2
    <3>2. shown' = Accepted(a) /\ shownFor' = a.category /\ DocsOK(a.docs, a.category)
      BY <1>2, <2>2, <3>1 DEF Deliver, QueueOK
    <3>3. DocsOK(Accepted(a), a.category)
      BY <3>2 DEF DocsOK, Accepted
    <3>4. PICK S : S = shown'
      OBVIOUS
    <3>5. DocsOK(S, a.category)'
      BY <2>1, <3>2, <3>3, <3>4
    <3>6. a.category \in Choices /\ a.category # None
      BY <3>1, NamesAssumption DEF Answers
    <3> QED  BY <3>2, <3>4, <3>5, <3>6 DEF PageOK, DocsOK
  <2>3. CASE ~Head(inbox).ok
    BY <1>1, <2>1, <2>3 DEF Deliver, PageOK
  <2> QED  BY <2>2, <2>3
<1>6. ASSUME NEW i \in 1..Len(inbox') PROVE DocsOK(inbox[i].docs, inbox[i].category)'
  <2>1. DocsOK(inbox[i + 1].docs, inbox[i + 1].category) /\ inbox'[i] = inbox[i + 1]
    BY <1>2 DEF QueueOK
  <2> QED  BY <1>1, <2>1 DEF DocsOK, Known, sdkVars
<1>7. QueueOK'
  BY <1>2, <1>6 DEF QueueOK
<1> QED  BY <1>3, <1>4, <1>5, <1>7

LEMMA RestartKeeps == Inv /\ Restart => Inv' /\ Grows
<1> SUFFICES ASSUME Inv, Restart PROVE Inv' /\ Grows
  OBVIOUS
<1> USE DEF Inv
<1>1. Grows
  BY DEF Restart, Grows, StoreOK, Known, Mine, sdkVars, accountVars
<1>2. StoreOK' /\ BarOK'
  BY DEF Restart, StoreOK, BarOK, sdkVars, accountVars, Choices
<1>3. inbox' \in Seq(Answers) /\ 1..Len(inbox') = {}
  BY DEF Restart
<1>4. PageOK' /\ QueueOK'
  BY <1>3 DEF Restart, PageOK, QueueOK, DocsOK
<1> QED  BY <1>1, <1>2, <1>4

LEMMA InvInit == Init => Inv
<1> SUFFICES ASSUME Init PROVE Inv
  OBVIOUS
<1>1. StoreOK /\ BarOK
  BY DEF Init, StoreOK, BarOK, Choices
<1>2. inbox \in Seq(Answers) /\ 1..Len(inbox) = {}
  BY DEF Init
<1>3. PageOK /\ QueueOK
  BY <1>2 DEF Init, PageOK, QueueOK, DocsOK
<1> QED  BY <1>1, <1>3 DEF Inv

LEMMA NextCases ==
  ASSUME [Next]_vars
  PROVE  Page \/ Store \/ (\E c \in Choices : ServeOne(c)) \/ Deliver \/ Restart
BY DEF Next, User, World, Page, Store

LEMMA InvStep == Inv /\ [Next]_vars => Inv' /\ Grows
<1> SUFFICES ASSUME Inv, [Next]_vars PROVE Inv' /\ Grows
  OBVIOUS
<1>1. CASE Page
  BY <1>1, PageKeeps
<1>2. CASE Store
  BY <1>2, StoreGrows, StoreKeeps
<1>3. CASE \E c \in Choices : ServeOne(c)
  BY <1>3, ServeKeeps
<1>4. CASE Deliver
  BY <1>4, DeliverKeeps
<1>5. CASE Restart
  BY <1>5, RestartKeeps
<1> QED  BY <1>1, <1>2, <1>3, <1>4, <1>5, NextCases

LEMMA InvAlways == Spec => []Inv
BY InvInit, InvStep, PTL DEF Spec

(* The feed's state is well formed, and the cache holds nothing that the   *)
(* server does not have, for any number of requests under way.             *)
THEOREM FeedTypes == Spec => []TypeOK
BY InvAlways, InvTypes, PTL

-----------------------------------------------------------------------------
(* No post of an author blocked by whoever is signed in appears, however   *)
(* old its answer is.                                                      *)
THEOREM NoBlockedArrivesAlways == Spec => NoBlockedArrives
<1>1. [Next]_vars => [\A p \in shown' \ shown : ~BlockedBy(me', p)]_vars
  <2> SUFFICES ASSUME [Next]_vars, NEW p \in shown' \ shown PROVE ~BlockedBy(me', p)
    OBVIOUS
  <2>1. CASE Page \/ Store
    BY <2>1 DEF Page, Store, SelectCategory, PullDown, CategoriesAnswered, SignIn, SignOut, Block,
                PublishMine, PublishTheirs, Stored, pageVars, vars
  <2>2. CASE \E c \in Choices : ServeOne(c)
    BY <2>2 DEF ServeOne, ServeOnline, ServeCached, ServeError, Serve, pageVars
  <2>3. CASE Deliver
    BY <2>3 DEF Deliver, Accepted, BlockedBy
  <2>4. CASE Restart
    BY <2>4 DEF Restart
  <2> QED  BY <2>1, <2>2, <2>3, <2>4, NextCases
<1> QED  BY <1>1, PTL DEF Spec, NoBlockedArrives

-----------------------------------------------------------------------------
(* What will last: posts the server has, or the user's own on their way.   *)
(* Unless somebody signed in or out with an answer waiting, every answer   *)
(* has all that will last of the earlier ones to the same question, and of *)
(* the page.                                                               *)
Lasting(S) == S \cap (server \cup Mine)

InOrder ==
  /\ \A i, j \in 1..Len(inbox) :
       i < j /\ inbox[i].ok /\ inbox[j].ok /\ inbox[i].category = inbox[j].category
         => Lasting(inbox[i].docs) \subseteq inbox[j].docs
  /\ \A j \in 1..Len(inbox) :
       inbox[j].ok /\ inbox[j].category = shownFor => Lasting(shown) \subseteq inbox[j].docs

LEMMA LastingShrinks ==
  ASSUME Grows, me' = me, NEW S \in SUBSET Known
  PROVE  Lasting(S)' \subseteq Lasting(S)
BY DEF Grows, Lasting

LEMMA OrderStays ==
  ASSUME Inv, InOrder, Grows, UNCHANGED <<inbox, shown, shownFor>>, me' = me \/ inbox = <<>>
  PROVE  InOrder'
<1>1. CASE inbox = <<>>
  <2>1. 1..Len(inbox') = {}
    BY <1>1
  <2> QED  BY <2>1 DEF InOrder
<1>2. CASE me' = me
  <2>1. \A S \in SUBSET Known : Lasting(S)' \subseteq Lasting(S)
    BY <1>2, LastingShrinks
  <2>2. \A i \in 1..Len(inbox) : inbox[i].docs \in SUBSET Known
    BY DEF Inv, QueueOK, DocsOK
  <2>3. shown \in SUBSET Known
    BY DEF Inv, PageOK, DocsOK
  <2>4. ASSUME NEW i \in 1..Len(inbox') PROVE Lasting(inbox[i].docs)' \subseteq Lasting(inbox[i].docs)
    BY <2>1, <2>2 DEF Lasting
  <2>5. Lasting(shown)' \subseteq Lasting(shown)
    BY <2>1, <2>3 DEF Lasting
  <2> QED  BY <2>4, <2>5 DEF InOrder
<1> QED  BY <1>1, <1>2

LEMMA OrderServed ==
  ASSUME Inv, InOrder, NEW c \in Choices, ServeOne(c)
  PROVE  InOrder'
<1> USE DEF Inv
<1>1. UNCHANGED <<server, pending, me, shown, shownFor>>
  BY DEF ServeOne, ServeOnline, ServeCached, ServeError, Serve, accountVars, pageVars
<1>2. \A S : Lasting(S)' = Lasting(S)
  BY <1>1 DEF Lasting, Mine
<1>3. PICK ok \in BOOLEAN, docs \in SUBSET Known :
        LET a == [category |-> c, ok |-> ok, docs |-> docs]
        IN  /\ a \in Answers
            /\ inbox' = inbox \o [i \in 1..asked[c] |-> a]
            /\ ok => \A p \in cached \cup Mine : (c = All \/ p.category = c) => p \in docs
  BY Served
<1>4. PICK a : a = [category |-> c, ok |-> ok, docs |-> docs]
  OBVIOUS
<1>5. /\ a \in Answers /\ a.docs = docs /\ a.category = c /\ a.ok = ok
      /\ inbox' = inbox \o [i \in 1..asked[c] |-> a]
  BY <1>3, <1>4
<1>6. \A S : ok /\ DocsOK(S, c) => Lasting(S) \subseteq docs
  BY <1>3 DEF DocsOK, Lasting
<1>7. PICK n \in Nat : n = asked[c]
  BY DEF BarOK
<1>7a. PICK r : r = inbox'
  OBVIOUS
<1>8. r = inbox \o [i \in 1..n |-> a] /\ inbox \in Seq(Answers)
  BY <1>5, <1>7, <1>7a DEF QueueOK
<1>9. /\ Len(inbox) \in Nat
      /\ \A i \in 1..Len(r) : \/ i \in 1..Len(inbox) /\ r[i] = inbox[i]
                              \/ i > Len(inbox) /\ r[i] = a
  BY <1>5, <1>8, Joined
<1>10. ASSUME NEW i \in 1..Len(r), NEW j \in 1..Len(r), i < j, r[i].ok, r[j].ok,
              r[i].category = r[j].category
       PROVE  Lasting(r[i].docs) \subseteq r[j].docs
  <2>1. CASE j \in 1..Len(inbox) /\ r[j] = inbox[j]
    <3>1. i \in 1..Len(inbox) /\ r[i] = inbox[i]
      BY <1>9, <1>10, <2>1
    <3> QED  BY <1>10, <2>1, <3>1 DEF InOrder
  <2>2. CASE r[j] = a /\ i \in 1..Len(inbox) /\ r[i] = inbox[i]
    <3>1. DocsOK(r[i].docs, c)
      BY <1>5, <1>10, <2>2 DEF QueueOK
    <3> QED  BY <1>5, <1>6, <1>10, <2>2, <3>1
  <2>3. CASE r[j] = a /\ r[i] = a
    BY <2>3 DEF Lasting
  <2> QED  BY <1>9, <2>1, <2>2, <2>3
<1>11. ASSUME NEW j \in 1..Len(r), r[j].ok, r[j].category = shownFor
       PROVE  Lasting(shown) \subseteq r[j].docs
  <2>1. CASE j \in 1..Len(inbox) /\ r[j] = inbox[j]
    BY <1>11, <2>1 DEF InOrder
  <2>2. CASE r[j] = a
    BY <1>5, <1>6, <1>11, <2>2 DEF PageOK
  <2> QED  BY <1>9, <2>1, <2>2
<1>12. \A i \in 1..Len(inbox') : Lasting(inbox[i].docs)' = Lasting(inbox'[i].docs)
  BY <1>1 DEF Lasting, Mine
<1>13. Lasting(shown)' = Lasting(shown)
  BY <1>1 DEF Lasting, Mine
<1> QED  BY <1>1, <1>7a, <1>10, <1>11, <1>12, <1>13 DEF InOrder

LEMMA OrderDelivered ==
  ASSUME Inv, InOrder, Deliver
  PROVE  InOrder'
<1> USE DEF Inv
<1>1. /\ inbox \in Seq(Answers) /\ inbox # <<>> /\ inbox' = Tail(inbox)
      /\ UNCHANGED <<server, pending, me>>
  BY DEF Deliver, Taken, QueueOK, sdkVars
<1>2. PICK r : r = inbox'
  OBVIOUS
<1>3. /\ \A i \in 1..Len(r) : i + 1 \in 1..Len(inbox) /\ r[i] = inbox[i + 1]
      /\ 1 \in 1..Len(inbox) /\ Head(inbox) = inbox[1]
  BY <1>1, <1>2, Dropped
<1>4. ASSUME NEW i \in 1..Len(r), NEW j \in 1..Len(r), i < j, r[i].ok, r[j].ok,
             r[i].category = r[j].category
      PROVE  Lasting(r[i].docs) \subseteq r[j].docs
  <2>1. i + 1 < j + 1 /\ i + 1 \in 1..Len(inbox) /\ j + 1 \in 1..Len(inbox)
    BY <1>3, <1>4
  <2> QED  BY <1>3, <1>4, <2>1 DEF InOrder
<1>5. ASSUME NEW j \in 1..Len(r), r[j].ok, r[j].category = shownFor'
      PROVE  Lasting(shown') \subseteq r[j].docs
  <2>1. 1 < j + 1 /\ j + 1 \in 1..Len(inbox) /\ r[j] = inbox[j + 1]
    BY <1>3
  <2>2. CASE Head(inbox).ok
    <3>1. shown' \subseteq inbox[1].docs /\ shownFor' = inbox[1].category /\ inbox[1].ok
      BY <1>3, <2>2 DEF Deliver, Accepted
    <3>2. Lasting(inbox[1].docs) \subseteq r[j].docs
      BY <1>3, <1>5, <2>1, <3>1 DEF InOrder
    <3> QED  BY <3>1, <3>2 DEF Lasting
  <2>3. CASE ~Head(inbox).ok
    <3>1. shown' = shown /\ shownFor' = shownFor
      BY <2>3 DEF Deliver
    <3> QED  BY <1>5, <2>1, <3>1 DEF InOrder
  <2> QED  BY <2>2, <2>3
<1>6. \A i \in 1..Len(inbox') : Lasting(inbox[i].docs)' = Lasting(inbox'[i].docs)
  BY <1>1 DEF Lasting, Mine
<1>7. Lasting(shown)' = Lasting(shown')
  BY <1>1 DEF Lasting, Mine
<1> QED  BY <1>2, <1>4, <1>5, <1>6, <1>7 DEF InOrder

LEMMA OrderEmpty == inbox = <<>> => InOrder
<1> SUFFICES ASSUME inbox = <<>> PROVE InOrder
  OBVIOUS
<1>1. 1..Len(inbox) = {}
  OBVIOUS
<1> QED  BY <1>1 DEF InOrder

Ordered == switched \/ InOrder

LEMMA OrderStep ==
  ASSUME Inv, Ordered, [Next]_vars
  PROVE  Ordered'
<1> USE DEF Ordered
<1>0. Grows /\ switched \in BOOLEAN
  BY InvStep DEF Inv, StoreOK
<1>1. CASE Page
  <2>1. UNCHANGED <<inbox, shown, shownFor>>
    BY <1>1 DEF Page, SelectCategory, PullDown, CategoriesAnswered, SignIn, SignOut, Block,
                pageVars, vars
  <2>2. switched' \/ (~switched /\ (me' = me \/ inbox = <<>>))
    <3>1. CASE SignOut \/ \E a \in Members : SignIn(a)
      BY <1>0, <3>1 DEF SignOut, SignIn, Switch
    <3>2. CASE ~(SignOut \/ \E a \in Members : SignIn(a))
      BY <1>0, <1>1, <3>2 DEF Page, SelectCategory, PullDown, CategoriesAnswered, Block,
                              accountVars, vars
    <3> QED  BY <3>1, <3>2
  <2> QED  BY <1>0, <2>1, <2>2, OrderStays
<1>2. CASE Store
  <2>1. UNCHANGED <<inbox, shown, shownFor, me, switched>>
    BY <1>2 DEF Store, PublishMine, PublishTheirs, Stored, pageVars, accountVars
  <2> QED  BY <1>0, <2>1, OrderStays
<1>3. ASSUME NEW c \in Choices, ServeOne(c) PROVE Ordered'
  <2>1. switched' = switched
    BY <1>3 DEF ServeOne, ServeOnline, ServeCached, ServeError, Serve, accountVars
  <2> QED  BY <1>3, <2>1, OrderServed
<1>4. CASE Deliver
  <2>1. switched' = (switched /\ inbox' # <<>>)
    BY <1>4 DEF Deliver, Taken
  <2>2. CASE inbox' = <<>>
    <3>1. 1..Len(inbox') = {}
      BY <2>2
    <3> QED  BY <3>1 DEF InOrder
  <2>3. CASE inbox' # <<>>
    BY <1>0, <1>4, <2>1, <2>3, OrderDelivered
  <2> QED  BY <2>2, <2>3
<1>5. CASE Restart
  <2>1. 1..Len(inbox') = {}
    BY <1>5 DEF Restart
  <2> QED  BY <2>1 DEF InOrder
<1> QED  BY <1>1, <1>2, <1>3, <1>4, <1>5, NextCases

LEMMA OrderInit == Init => Ordered
BY OrderEmpty DEF Init, Ordered

LEMMA NothingLost ==
  ASSUME Inv, InOrder, [Next]_vars, shownFor' = shownFor, NEW p \in shown \cap server
  PROVE  p \in shown' \/ BlockedBy(me', p)
<1>1. CASE Page \/ Store \/ \E c \in Choices : ServeOne(c)
  <2>1. shown' = shown
    BY <1>1 DEF Page, Store, SelectCategory, PullDown, CategoriesAnswered, SignIn, SignOut, Block,
                PublishMine, PublishTheirs, Stored, ServeOne, ServeOnline, ServeCached,
                ServeError, Serve, pageVars, vars
  <2> QED  BY <2>1
<1>2. CASE Deliver
  <2>1. inbox \in Seq(Answers) /\ inbox # <<>> /\ me' = me
    BY <1>2 DEF Deliver, Taken, Inv, QueueOK
  <2>2. 1 \in 1..Len(inbox) /\ Head(inbox) = inbox[1]
    BY <2>1, Dropped
  <2>3. CASE inbox[1].ok
    <3>1. shown' = Accepted(inbox[1]) /\ inbox[1].category = shownFor
      BY <1>2, <2>2, <2>3 DEF Deliver
    <3>2. p \in inbox[1].docs
      BY <2>2, <2>3, <3>1 DEF InOrder, Lasting
    <3>3. blocked' = blocked
      BY <1>2 DEF Deliver
    <3> QED  BY <2>1, <3>1, <3>2, <3>3 DEF Accepted, BlockedBy
  <2>4. CASE ~inbox[1].ok
    BY <1>2, <2>2, <2>4 DEF Deliver
  <2> QED  BY <2>3, <2>4
<1>3. CASE Restart
  BY <1>3 DEF Restart, Inv, PageOK
<1> QED  BY <1>1, <1>2, <1>3, NextCases

(* Asking for a category again takes away no post that the server has,     *)
(* whether the server or the cache answers, in any sessions: only answers  *)
(* behind which somebody signed in or out are excepted.                    *)
THEOREM NoPostLostAlways == Spec => NoPostLost
<1>1. Inv /\ Ordered /\ [Next]_vars => Ordered'
  BY OrderStep
<1>2. Inv /\ Ordered /\ [Next]_vars =>
        [shownFor' = shownFor /\ ~switched =>
           \A p \in shown \cap server : p \in shown' \/ BlockedBy(me', p)]_vars
  BY NothingLost DEF Ordered
<1> QED  BY <1>1, <1>2, InvAlways, OrderInit, PTL DEF Spec, NoPostLost

-----------------------------------------------------------------------------
(* The header turns only while a request or an answer is under way: the    *)
(* safety behind RefreshEnds.                                              *)
RefreshAwaited == refreshing => inbox # <<>> \/ \E c \in Choices : asked[c] > 0

(* The refresh header of the home page never turns for an answer that      *)
(* cannot come: pulling it asks, and only an answer takes the request      *)
(* away.                                                                   *)
THEOREM RefreshAwaitedAlways == Spec => []RefreshAwaited
<1>1. Init => RefreshAwaited
  BY DEF Init, RefreshAwaited
<1>2. Inv /\ RefreshAwaited /\ [Next]_vars => RefreshAwaited'
  <2> SUFFICES ASSUME Inv, RefreshAwaited, [Next]_vars, refreshing'
               PROVE  inbox' # <<>> \/ \E c \in Choices : asked'[c] > 0
    BY DEF RefreshAwaited
  <2>0. TypeOK
    BY InvTypes
  <2>1. ASSUME NEW c \in Choices, SelectCategory(c) PROVE asked'[c] > 0
    BY <2>0, <2>1 DEF SelectCategory, Ask, TypeOK
  <2>2. CASE PullDown
    BY <2>0, <2>2 DEF PullDown, Ask, TypeOK
  <2>3. ASSUME NEW c \in Choices, ServeOne(c) PROVE inbox' # <<>>
    <3>1. PICK ok \in BOOLEAN, docs \in SUBSET Known :
            LET a == [category |-> c, ok |-> ok, docs |-> docs]
            IN  a \in Answers /\ inbox' = inbox \o [i \in 1..asked[c] |-> a]
      BY <2>3, Served
    <3>2. inbox \in Seq(Answers) /\ asked[c] \in Nat
      BY <2>0 DEF TypeOK
    <3>3. asked[c] > 0
      BY <2>3 DEF ServeOne, ServeOnline, ServeCached, ServeError, Serve
    <3>4. Len(inbox') = Len(inbox) + asked[c] /\ Len(inbox) \in Nat
      BY <3>1, <3>2, Joined
    <3> QED  BY <3>3, <3>4, <3>2
  <2>4. CASE Deliver
    BY <2>4 DEF Deliver
  <2>5. CASE Restart
    BY <2>5 DEF Restart
  <2>6. ASSUME \/ SignOut \/ (\E m \in Members : SignIn(m)) \/ (\E m \in Accounts : Block(m))
               \/ \E p \in Posts : PublishMine(p) \/ PublishTheirs(p)
               \/ \E p \in Posts, ok \in BOOLEAN : Stored(p, ok)
               \/ \E ok \in BOOLEAN : CategoriesAnswered(ok)
               \/ UNCHANGED vars
        PROVE  UNCHANGED <<refreshing, inbox, asked>>
    BY <2>6 DEF SignIn, SignOut, Block, PublishMine, PublishTheirs, Stored,
                CategoriesAnswered, vars, pageVars
  <2> QED
    BY <2>1, <2>2, <2>3, <2>4, <2>5, <2>6 DEF Next, User, World, RefreshAwaited
<1> QED  BY <1>1, <1>2, InvAlways, PTL DEF Spec
=============================================================================
