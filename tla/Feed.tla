-------------------------------- MODULE Feed --------------------------------
(***************************************************************************)
(* The home page: the posts of a category, asked for when the page loads,  *)
(* when a category is selected and when the list is pulled down.  The SDK  *)
(* answers from the server, or from its cache when it is offline; the      *)
(* answers are delivered in the order in which they came, whatever the     *)
(* order of the questions, and the block list is consulted only then.      *)
(*                                                                         *)
(* A post is a record of its author and its category.  The dates, by which *)
(* the list is sorted, the images and the layout of the page are left out. *)
(***************************************************************************)
EXTENDS Naturals, Sequences, Functions

CONSTANTS
  Accounts,      \* Firebase uids
  Members,       \* the accounts that sign in on this device
  Categories,    \* those of the server
  All,           \* Category.all
  None,          \* nobody, and no category
  Posts,         \* the posts that may be published
  MaxRequests    \* bound: requests and answers under way

Choices == Categories \cup {All}

ASSUME PostsAssumption == Posts \subseteq [author : Accounts, category : Categories]
ASSUME MembersAssumption == Members \subseteq Accounts
ASSUME NamesAssumption == None \notin Accounts /\ None \notin Choices
ASSUME BoundAssumption == MaxRequests \in Nat

VARIABLES
  server,        \* the posts the server has
  pending,       \* posts in the SDK's queues of writes, each its author's
  refused,       \* posts that the server refused
  cached,        \* the posts in the SDK's cache
  me,            \* who is signed in
  blocked,       \* the block list of each account
  switched,      \* somebody signed in or out behind waiting answers: history
  loaded,        \* the categories have been fetched
  selected,      \* CategoryCollectionView.selectedCategory, or all
  asked,         \* requests without an answer, per category
  inbox,         \* answers that wait for the main queue
  shown,         \* homeCollectionView.posts
  shownFor,      \* the category they are the answer for
  refreshing     \* the header at the top is turning

sdkVars == <<server, pending, refused, cached>>
accountVars == <<me, blocked, switched>>
barVars == <<loaded, selected>>
pageVars == <<shown, shownFor, refreshing>>
vars == <<sdkVars, accountVars, barVars, asked, inbox, pageVars>>

Answers == [category : Choices, ok : BOOLEAN, docs : SUBSET Posts]

MayAsk == SumFunction(asked) + Len(inbox) < MaxRequests

Matching(c, S) == {p \in S : c = All \/ p.category = c}

(* What the SDK knows locally: its cache, and the user's own pending posts *)
(* laid over it.                                                           *)
Mine == {p \in pending : p.author = me}

(* The block list of whoever is signed in, if anybody is.                  *)
BlockedBy(u, p) == u # None /\ p.author \in blocked[u]

(* viewDidLoad asks for the posts of the category selected by default.     *)
Init ==
  /\ server \in SUBSET Posts /\ pending = {} /\ refused = {} /\ cached = {}
  /\ me \in Members \cup {None} /\ blocked = [a \in Members |-> {}] /\ switched = FALSE
  /\ loaded = FALSE /\ selected = All
  /\ asked = [c \in Choices |-> IF c = All THEN 1 ELSE 0] /\ inbox = <<>>
  /\ shown = {} /\ shownFor = None /\ refreshing = FALSE

-----------------------------------------------------------------------------
(* The user *)

Ask(c) == MayAsk /\ asked' = [asked EXCEPT ![c] = @ + 1]

(* didSelectItemAt, fetchPosts: nothing keeps the user from selecting      *)
(* again before the answer.                                                *)
SelectCategory(c) ==
  /\ loaded /\ selected' = c /\ Ask(c)
  /\ UNCHANGED <<sdkVars, accountVars, loaded, inbox, pageVars>>

(* The header starts one refresh at a time.                                *)
PullDown ==
  /\ ~refreshing
  /\ refreshing' = TRUE /\ Ask(selected)
  /\ UNCHANGED <<sdkVars, accountVars, barVars, inbox, shown, shownFor>>

(* Answers that wait were made for whoever was signed in then.             *)
Switch == switched' = (switched \/ inbox # <<>>)

SignIn(a) ==
  /\ me = None /\ me' = a /\ Switch
  /\ UNCHANGED <<sdkVars, blocked, barVars, asked, inbox, pageVars>>

SignOut ==
  /\ me # None /\ me' = None /\ Switch
  /\ UNCHANGED <<sdkVars, blocked, barVars, asked, inbox, pageVars>>

(* blockUser, up to its answer; nothing asks for the posts again.          *)
Block(a) ==
  /\ me # None /\ blocked' = [blocked EXCEPT ![me] = @ \cup {a}]
  /\ UNCHANGED <<sdkVars, me, switched, barVars, asked, inbox, pageVars>>

(* publishPost, up to setData.                                             *)
PublishMine(p) ==
  /\ p.author = me /\ p \notin server \cup refused
  /\ pending' = pending \cup {p}
  /\ UNCHANGED <<server, refused, cached, accountVars, barVars, asked, inbox, pageVars>>

-----------------------------------------------------------------------------
(* The server and the SDK *)

PublishTheirs(p) ==
  /\ p.author # me /\ p \notin pending \cup refused
  /\ server' = server \cup {p}
  /\ UNCHANGED <<pending, refused, cached, accountVars, barVars, asked, inbox, pageVars>>

(* The server answers the write of whoever is signed in; an accepted       *)
(* document joins the cache.                                               *)
Stored(p, ok) ==
  /\ p \in Mine /\ pending' = pending \ {p}
  /\ IF ok THEN server' = server \cup {p} /\ cached' = cached \cup {p} /\ UNCHANGED refused
     ELSE refused' = refused \cup {p} /\ UNCHANGED <<server, cached>>
  /\ UNCHANGED <<accountVars, barVars, asked, inbox, pageVars>>

CategoriesAnswered(ok) ==
  /\ ~loaded /\ loaded' = ok /\ selected' = All
  /\ UNCHANGED <<sdkVars, accountVars, asked, inbox, pageVars>>

(* One snapshot answers every request for the same query.                  *)
Serve(c, ok, docs) ==
  /\ asked[c] > 0
  /\ asked' = [asked EXCEPT ![c] = 0]
  /\ inbox' = inbox \o [i \in 1..asked[c] |-> [category |-> c, ok |-> ok, docs |-> docs]]
  /\ UNCHANGED <<server, pending, refused, accountVars, barVars, pageVars>>

NotCached(c) ==                          \* mutant: answers are not remembered
  Serve(c, TRUE, Matching(c, server \cup Mine)) /\ UNCHANGED cached

CachesPending(c) ==                      \* mutant: unconfirmed posts are kept
  /\ Serve(c, TRUE, Matching(c, server \cup Mine))
  /\ cached' = cached \cup Matching(c, server \cup Mine)

ServeOnline(c) ==
  /\ Serve(c, TRUE, Matching(c, server \cup Mine))
  /\ cached' = cached \cup Matching(c, server)

(* The device is offline, or an earlier request keeps the query's view.    *)
ServeCached(c) ==
  Serve(c, TRUE, Matching(c, cached \cup Mine)) /\ UNCHANGED cached

ServeError(c) == Serve(c, FALSE, {}) /\ UNCHANGED cached

-----------------------------------------------------------------------------
(* homeFetchPosts' completion.                                             *)
FilteredEarly(a) == a.docs               \* mutant: no filter on arrival
Accepted(a) == {p \in a.docs : ~BlockedBy(me, p)}

Taken ==
  /\ inbox # <<>> /\ inbox' = Tail(inbox)
  /\ switched' = (switched /\ inbox' # <<>>)

TurnsOn ==                               \* mutant: an error leaves the header
  /\ Taken
  /\ IF Head(inbox).ok
     THEN /\ shown' = Accepted(Head(inbox)) /\ shownFor' = Head(inbox).category
          /\ refreshing' = FALSE
     ELSE UNCHANGED <<shown, shownFor, refreshing>>
  /\ UNCHANGED <<sdkVars, me, blocked, barVars, asked>>

Deliver ==
  /\ Taken
  /\ IF Head(inbox).ok
     THEN shown' = Accepted(Head(inbox)) /\ shownFor' = Head(inbox).category
     ELSE UNCHANGED <<shown, shownFor>>
  /\ refreshing' = FALSE
  /\ UNCHANGED <<sdkVars, me, blocked, barVars, asked>>

(* The process dies and is started again: the session and the SDK's        *)
(* storage survive.                                                        *)
Restart ==
  /\ loaded' = FALSE /\ selected' = All
  /\ asked' = [c \in Choices |-> IF c = All THEN 1 ELSE 0] /\ inbox' = <<>>
  /\ shown' = {} /\ shownFor' = None /\ refreshing' = FALSE /\ switched' = FALSE
  /\ UNCHANGED <<sdkVars, me, blocked>>

-----------------------------------------------------------------------------
User ==
  \/ \E c \in Choices : SelectCategory(c)
  \/ PullDown
  \/ \E a \in Members : SignIn(a)
  \/ \E a \in Accounts : Block(a)
  \/ SignOut
  \/ \E p \in Posts : PublishMine(p)

ServeOne(c) == ServeOnline(c) \/ ServeCached(c) \/ ServeError(c)

World ==
  \/ \E p \in Posts : PublishTheirs(p) \/ \E ok \in BOOLEAN : Stored(p, ok)
  \/ \E ok \in BOOLEAN : CategoriesAnswered(ok)
  \/ \E c \in Choices : ServeOne(c)

Next == User \/ World \/ Deliver \/ Restart

Spec == Init /\ [][Next]_vars

(* Requests are answered and answers delivered; the user owes nothing.     *)
FairSpec ==
  /\ Spec
  /\ \A c \in Choices : WF_vars(ServeOne(c))
  /\ WF_vars(Deliver)

-----------------------------------------------------------------------------
(* Every variable holds a value of its kind; the cache holds nothing that  *)
(* the server does not have, and a post is stored, pending or refused.     *)
TypeOK ==
  /\ server \subseteq Posts /\ pending \subseteq Posts \ server
  /\ refused \subseteq Posts \ (server \cup pending) /\ cached \subseteq server
  /\ me \in Members \cup {None} /\ blocked \in [Members -> SUBSET Accounts]
  /\ loaded \in BOOLEAN /\ switched \in BOOLEAN /\ selected \in Choices
  /\ asked \in [Choices -> Nat] /\ inbox \in Seq(Answers)
  /\ shown \subseteq Posts /\ shownFor \in Choices \cup {None}
  /\ refreshing \in BOOLEAN

(* No post appears on the page while its author is blocked by whoever is   *)
(* signed in, even if it was asked for, or answered, before the block or   *)
(* in another session.                                                     *)
NoBlockedArrives ==
  [][\A p \in shown' \ shown : ~BlockedBy(me', p)]_vars

(* Asking for a category again never takes away a post that the server     *)
(* has, unless its author was blocked: answers come from a cache that only *)
(* grows, and in order.  Answers that already wait when somebody signs in  *)
(* or out are excepted, since the user's own posts are laid over them.     *)
NoPostLost ==
  [][shownFor' = shownFor /\ ~switched =>
       \A p \in shown \cap server : p \in shown' \/ BlockedBy(me', p)]_vars

(* The header stops turning.                                               *)
RefreshEnds == refreshing ~> ~refreshing
=============================================================================
