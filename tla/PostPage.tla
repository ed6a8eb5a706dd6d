------------------------------ MODULE PostPage ------------------------------
(***************************************************************************)
(* The page of one post: the post is fetched when the page loads, its      *)
(* comments when the post is there and after every comment of one's own;   *)
(* the text view for a comment appears with the first answer.  Everything  *)
(* the SDK answers is handed to the main queue in one order.               *)
(*                                                                         *)
(* A comment is the tap on the button (or another device's) that made it;  *)
(* the order by date and the number shown before "see more" are left out.  *)
(* Save and follow, which this page offers too, are in UserLists.          *)
(***************************************************************************)
EXTENDS Naturals, Sequences

CONSTANTS
  Members,       \* the accounts
  None,          \* nobody
  Taps,          \* the comments that may be made
  MaxAnswers     \* bound: answers that wait for the main queue

ASSUME NamesAssumption == None \notin Members \cup Taps
ASSUME BoundAssumption == MaxAnswers \in Nat

VARIABLES
  server,        \* the comments the server has
  pending,       \* those in the SDK's queues of writes, each its creator's
  refused,       \* those the server refused
  cached,        \* those in the SDK's cache
  creator,       \* who wrote a comment
  calls,         \* the taps whose completion is still in memory
  me,            \* who is signed in
  blocked,       \* the block list of each account
  post,          \* the page's post: asked for, missing, or loaded
  comments,      \* PostViewController.comments
  failed,        \* the last query for the comments was answered with an error
  box,           \* the text view is on the page
  draft,         \* there is a text in it
  posted,        \* the comments that were answered with "Success"
  asked,         \* a query for the comments is under way
  inbox,         \* answers that wait for the main queue
  crashed        \* the nil post was unwrapped

sdkVars == <<server, pending, refused, cached>>
accountVars == <<me, blocked>>
viewVars == <<post, comments, failed, box>>
vars == <<sdkVars, creator, calls, accountVars, viewVars, draft,
          posted, asked, inbox, crashed>>

Known == server \cup pending \cup refused
Mine == {t \in pending : creator[t] = me}

PostAnswers == [kind : {"post"}, ok : BOOLEAN]
ListAnswers == [kind : {"comments"}, ok : BOOLEAN, docs : SUBSET Taps]
WriteAnswers == [kind : {"write"}, ok : BOOLEAN, tap : Taps]

Room == Len(inbox) < MaxAnswers

(* The page is opened by somebody who is logged in, and viewDidLoad asks   *)
(* for the post.                                                           *)
Init ==
  /\ server = {} /\ pending = {} /\ refused = {} /\ cached = {}
  /\ creator = [t \in Taps |-> None]
  /\ calls = {} /\ me \in Members /\ blocked = [a \in Members |-> {}]
  /\ post = "asked" /\ comments = {} /\ failed = FALSE /\ box = FALSE
  /\ draft = FALSE /\ posted = {}
  /\ asked = FALSE /\ inbox = <<>> /\ crashed = FALSE

-----------------------------------------------------------------------------
(* The user *)

Type ==
  /\ box /\ draft' = TRUE
  /\ UNCHANGED <<sdkVars, creator, calls, accountVars, viewVars, posted, asked, inbox, crashed>>

(* postCommentAction: publishComment returns silently without an account,  *)
(* and creates a new document otherwise.                                   *)
Send(t) ==
  /\ box /\ draft /\ me # None /\ t \notin Known
  /\ pending' = pending \cup {t} /\ calls' = calls \cup {t}
  /\ creator' = [creator EXCEPT ![t] = me]
  /\ UNCHANGED <<server, refused, cached, accountVars, viewVars, draft, posted, asked, inbox, crashed>>

(* Save, share and the creator's button unwrap the post.                   *)
TapButton ==
  /\ post # "loaded" /\ ~crashed
  /\ crashed' = TRUE /\ inbox' = <<>> /\ calls' = {} /\ asked' = FALSE
  /\ UNCHANGED <<sdkVars, creator, accountVars, viewVars, draft, posted>>

(* From another tab, or after the application was started again.           *)
SignIn(a) ==
  /\ me = None /\ me' = a
  /\ UNCHANGED <<sdkVars, creator, calls, blocked, viewVars, draft, posted, asked, inbox, crashed>>

SignOut ==
  /\ me # None /\ me' = None
  /\ UNCHANGED <<sdkVars, creator, calls, blocked, viewVars, draft, posted, asked, inbox, crashed>>

Block(a) ==
  /\ me # None /\ a # me /\ blocked' = [blocked EXCEPT ![me] = @ \cup {a}]
  /\ UNCHANGED <<sdkVars, creator, calls, me, viewVars, draft, posted, asked, inbox, crashed>>

(* The application is started, and the page opened, again; the session and *)
(* the SDK's storage survive.                                              *)
Reopen ==
  /\ me # None /\ crashed' = FALSE /\ calls' = {}
  /\ post' = "asked" /\ comments' = {} /\ failed' = FALSE /\ box' = FALSE /\ draft' = FALSE
  /\ asked' = FALSE /\ inbox' = <<>>
  /\ UNCHANGED <<sdkVars, creator, accountVars, posted>>

-----------------------------------------------------------------------------
(* The server and the SDK *)

SendTheirs(t, a) ==
  /\ t \notin Known /\ a # me
  /\ server' = server \cup {t} /\ creator' = [creator EXCEPT ![t] = a]
  /\ UNCHANGED <<pending, refused, cached, calls, accountVars, viewVars, draft, posted, asked, inbox, crashed>>

Called(t, ok) ==
  inbox' = IF t \in calls THEN Append(inbox, [kind |-> "write", ok |-> ok, tap |-> t]) ELSE inbox

AckNotCached(t) ==                       \* mutant: only queries fill the cache
  /\ t \in Mine /\ Room
  /\ pending' = pending \ {t} /\ server' = server \cup {t}
  /\ Called(t, TRUE)
  /\ UNCHANGED <<refused, cached, creator, calls, accountVars, viewVars, draft, posted, asked, crashed>>

(* An acknowledged document joins the cache.                               *)
Acknowledged(t) ==
  /\ t \in Mine /\ Room
  /\ pending' = pending \ {t} /\ server' = server \cup {t} /\ cached' = cached \cup {t}
  /\ Called(t, TRUE)
  /\ UNCHANGED <<refused, creator, calls, accountVars, viewVars, draft, posted, asked, crashed>>

Rejected(t) ==
  /\ t \in Mine /\ Room
  /\ pending' = pending \ {t} /\ refused' = refused \cup {t}
  /\ Called(t, FALSE)
  /\ UNCHANGED <<server, cached, creator, calls, accountVars, viewVars, draft, posted, asked, crashed>>

PostAnswered(ok) ==
  /\ post = "asked" /\ ~crashed /\ Room
  /\ \A i \in 1..Len(inbox) : inbox[i].kind # "post"
  /\ inbox' = Append(inbox, [kind |-> "post", ok |-> ok])
  /\ UNCHANGED <<sdkVars, creator, calls, accountVars, viewVars, draft, posted, asked, crashed>>

(* One snapshot answers all the queries for the comments that are under    *)
(* way, each of which would set the same list.                             *)
Serve(ok, docs) ==
  /\ asked /\ Room /\ asked' = FALSE
  /\ inbox' = Append(inbox, [kind |-> "comments", ok |-> ok, docs |-> docs])
  /\ UNCHANGED <<server, pending, refused, creator, calls, accountVars, viewVars, draft, posted, crashed>>

CachesPending ==                         \* mutant: unconfirmed comments are kept
  Serve(TRUE, server \cup Mine) /\ cached' = cached \cup server \cup Mine

ServeOnline == Serve(TRUE, server \cup Mine) /\ cached' = cached \cup server

ServeCached == Serve(TRUE, cached \cup Mine) /\ UNCHANGED cached

ServeError == Serve(FALSE, {}) /\ UNCHANGED cached

-----------------------------------------------------------------------------
(* The completions, on the main queue *)

(* Whoever is signed in does not see the comments of those they blocked.   *)
Accepted(docs) == {t \in docs : me = None \/ creator[t] \notin blocked[me]}

(* fetchPost: without a post nothing is asked for again.                   *)
DeliverPost(a) ==
  /\ a.kind = "post"
  /\ IF a.ok THEN post' = "loaded" /\ asked' = TRUE ELSE post' = "missing" /\ UNCHANGED asked
  /\ UNCHANGED <<calls, comments, failed, box, draft, posted>>

BoxIfComments(a) ==                      \* mutant: nothing to show, no text view
  /\ a.kind = "comments" /\ failed' = ~a.ok
  /\ IF a.ok THEN comments' = Accepted(a.docs) /\ box' = (a.docs # {})
     ELSE UNCHANGED <<comments, box>>
  /\ UNCHANGED <<calls, post, draft, posted, asked>>

(* fetchComments, updateCommentSection                                     *)
DeliverComments(a) ==
  /\ a.kind = "comments" /\ failed' = ~a.ok
  /\ IF a.ok THEN comments' = Accepted(a.docs) /\ box' = TRUE ELSE UNCHANGED <<comments, box>>
  /\ UNCHANGED <<calls, post, draft, posted, asked>>

NotFetched(a) ==                         \* mutant: the list is not fetched again
  /\ a.kind = "write" /\ calls' = calls \ {a.tap}
  /\ IF a.ok THEN posted' = posted \cup {a.tap} /\ draft' = FALSE
     ELSE UNCHANGED <<posted, draft>>
  /\ UNCHANGED <<viewVars, asked>>

(* postCommentAction's completion: fetchComments, "Success", no text.      *)
DeliverWrite(a) ==
  /\ a.kind = "write" /\ calls' = calls \ {a.tap}
  /\ IF a.ok THEN posted' = posted \cup {a.tap} /\ draft' = FALSE /\ asked' = TRUE
     ELSE UNCHANGED <<posted, draft, asked>>
  /\ UNCHANGED viewVars

Deliver ==
  /\ inbox # <<>> /\ inbox' = Tail(inbox)
  /\ \/ DeliverPost(Head(inbox)) \/ DeliverComments(Head(inbox)) \/ DeliverWrite(Head(inbox))
  /\ UNCHANGED <<sdkVars, creator, accountVars, crashed>>

-----------------------------------------------------------------------------
User ==
  \/ Type
  \/ \E t \in Taps : Send(t)
  \/ \E a \in Members : SignIn(a) \/ Block(a)
  \/ TapButton \/ SignOut \/ Reopen

ServeOne == ServeOnline \/ ServeCached \/ ServeError

World ==
  \/ \E t \in Taps : Acknowledged(t) \/ Rejected(t) \/ \E a \in Members : SendTheirs(t, a)
  \/ \E ok \in BOOLEAN : PostAnswered(ok)
  \/ ServeOne

Next == User \/ World \/ Deliver

Spec == Init /\ [][Next]_vars

(* Queries are answered and answers delivered; the user owes nothing.      *)
FairSpec == Spec /\ WF_vars(ServeOne) /\ WF_vars(Deliver)
-----------------------------------------------------------------------------
(* Every variable holds a value of its kind; a comment on the page or in   *)
(* an answer has a creator, one answered with success is stored, and there *)
(* is a text view only on a loaded page.                                   *)
TypeOK ==
  /\ server \subseteq Taps /\ pending \subseteq Taps \ server
  /\ refused \subseteq Taps \ (server \cup pending) /\ cached \subseteq server
  /\ creator \in [Taps -> Members \cup {None}]
  /\ calls \subseteq Known /\ me \in Members \cup {None}
  /\ blocked \in [Members -> SUBSET Members]
  /\ post \in {"asked", "loaded", "missing"} /\ (box => post = "loaded")
  /\ comments \subseteq Known /\ \A t \in Known : creator[t] # None
  /\ failed \in BOOLEAN /\ box \in BOOLEAN /\ draft \in BOOLEAN
  /\ posted \subseteq server /\ asked \in BOOLEAN /\ crashed \in BOOLEAN
  /\ inbox \in Seq(PostAnswers \cup ListAnswers \cup WriteAnswers)

(* Once a comment was answered with "Success", every list the page is      *)
(* given contains it, unless its creator is blocked: the answers to queries *)
(* made before it was stored are delivered before that success.            *)
SuccessKept ==
  [][comments' # comments =>
       \A t \in posted : t \in comments' \/ t \notin Accepted(posted) \/ post' # "loaded"]_vars

(* A comment that was answered with "Success" appears on the page, unless  *)
(* the query for it is answered with an error or its creator is blocked:   *)
(* the same completion asks for the comments again.                        *)
SuccessShown ==
  \A t \in Taps :
    t \in posted ~>
      \/ t \in comments \/ failed \/ post # "loaded"
      \/ \E a \in Members : creator[t] \in blocked[a]

(* The text view, which only an answered query for the comments puts up,   *)
(* comes, unless that query is answered with an error.                     *)
BoxAppears == post = "loaded" ~> box \/ failed \/ post # "loaded"
=============================================================================
