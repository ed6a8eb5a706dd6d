---------------------------- MODULE CreatorPage -----------------------------
(***************************************************************************)
(* The page of another account: viewDidLoad reads its profile and then its *)
(* posts, and every time the page comes to the front the profile is read   *)
(* for the labels and then the followers are counted.  The SDK answers     *)
(* each read of the profile from the server, from its cache or with an     *)
(* error, the one made first before the other, and hands the answers to    *)
(* the main queue in that order.                                           *)
(*                                                                         *)
(* A profile is represented by how often its owner has changed it.  Follow *)
(* and block, up to the unwrapping of the profile, are in UserLists and    *)
(* AccountSession.                                                         *)
(***************************************************************************)
EXTENDS Naturals, Sequences

CONSTANTS
  None,          \* no profile
  MaxEdits,      \* bound: changes of the profile
  MaxAnswers     \* bound: answers that wait when the profile is read again

ASSUME NoneAssumption == None \notin Nat
ASSUME BoundsAssumption == MaxEdits \in Nat /\ MaxAnswers \in Nat

VARIABLES
  profile,       \* the profile the server has
  cached,        \* the one in the SDK's cache, if any
  place,         \* the page is in front, under another, or gone
  reads,         \* what the profile is being read for
  queries,       \* the posts' and the followers' queries under way
  inbox,         \* answers that wait for the main queue
  user,          \* CreatorProfileViewController.user
  counted,       \* the followers have been counted
  posts,         \* userPosts has been set
  missed,        \* fetchPosts has returned early: history
  tab,           \* the highlighted tab
  items,         \* which list is shown
  crashed        \* the nil user was unwrapped

sdkVars == <<profile, cached>>
pageVars == <<user, counted, posts, missed, tab, items>>
vars == <<sdkVars, place, reads, queries, inbox, pageVars, crashed>>

Profiles == 0..MaxEdits
ReadAnswers == [kind : {"labels", "posts"}, ok : BOOLEAN, of : Profiles]
QueryAnswers == [kind : {"list", "count"}]

Quiet == reads = {} /\ queries = {} /\ inbox = <<>>

(* The page is opened: viewDidLoad and viewWillAppear.                     *)
Init ==
  /\ profile = 0 /\ cached \in {None, 0}
  /\ place = "front" /\ reads = {"posts", "labels"} /\ queries = {} /\ inbox = <<>>
  /\ user = None /\ counted = FALSE /\ posts = FALSE /\ missed = FALSE
  /\ tab = "posts" /\ items = "empty" /\ crashed = FALSE

-----------------------------------------------------------------------------
(* The user *)

(* A post is shown on top of the page, or another tab is selected, also    *)
(* while the page is still empty;                                          *)
Cover ==
  /\ place = "front" /\ ~crashed /\ place' = "covered"
  /\ UNCHANGED <<sdkVars, reads, queries, inbox, pageVars, crashed>>

(* and the page comes to the front again: viewWillAppear reads the profile *)
(* for the labels, and nothing asks for the posts again.                   *)
Uncover ==
  /\ place = "covered" /\ Len(inbox) < MaxAnswers
  /\ place' = "front" /\ reads' = reads \cup {"labels"}
  /\ UNCHANGED <<sdkVars, queries, inbox, pageVars, crashed>>

AnswersKept ==                           \* mutant: the next page gets the answers
  /\ place # "gone" /\ ~crashed /\ place' = "gone"
  /\ UNCHANGED <<sdkVars, reads, queries, inbox, pageVars, crashed>>

(* The page is left by its button, or with all that covers it by a tap on  *)
(* its tab; what still comes for it is not seen any more.                  *)
Leave ==
  /\ place # "gone" /\ ~crashed /\ place' = "gone"
  /\ reads' = {} /\ queries' = {} /\ inbox' = <<>>
  /\ UNCHANGED <<sdkVars, pageVars, crashed>>

Reopen ==
  /\ place = "gone" \/ crashed
  /\ place' = "front" /\ crashed' = FALSE
  /\ reads' = {"posts", "labels"} /\ queries' = {} /\ inbox' = <<>>
  /\ user' = None /\ counted' = FALSE /\ posts' = FALSE /\ missed' = FALSE
  /\ tab' = "posts" /\ items' = "empty"
  /\ UNCHANGED sdkVars

Tappable == place = "front" /\ ~crashed

TapSaved ==
  /\ Tappable /\ user # None
  /\ tab' = "saved" /\ items' = "saved"
  /\ UNCHANGED <<sdkVars, place, reads, queries, inbox, user, counted, posts, missed, crashed>>

TapPosts ==
  /\ Tappable
  /\ tab' = "posts" /\ items' = IF posts THEN "posts" ELSE "empty"
  /\ UNCHANGED <<sdkVars, place, reads, queries, inbox, user, counted, posts, missed, crashed>>

(* The saved tab, follow and block unwrap the profile.                     *)
TapWithoutUser ==
  /\ Tappable /\ user = None
  /\ crashed' = TRUE /\ reads' = {} /\ queries' = {} /\ inbox' = <<>>
  /\ UNCHANGED <<sdkVars, place, pageVars>>

-----------------------------------------------------------------------------
(* The server and the SDK *)

EditProfile ==
  /\ profile < MaxEdits /\ profile' = profile + 1
  /\ UNCHANGED <<cached, place, reads, queries, inbox, pageVars, crashed>>

(* The read that was made first is answered.                               *)
First == IF "posts" \in reads THEN "posts" ELSE "labels"

Served(ok, v) ==
  /\ reads # {} /\ reads' = reads \ {First}
  /\ inbox' = Append(inbox, [kind |-> First, ok |-> ok, of |-> v])
  /\ UNCHANGED <<profile, place, queries, pageVars, crashed>>

NotCached == Served(TRUE, profile) /\ UNCHANGED cached    \* mutant: answers are forgotten

ReadOnline == Served(TRUE, profile) /\ cached' = profile
ReadCached == cached # None /\ Served(TRUE, cached) /\ UNCHANGED cached
ReadFails == Served(FALSE, 0) /\ UNCHANGED cached

(* The completions take what there is of a query, or nothing, for its      *)
(* answer.                                                                 *)
QueryAnswered(q) ==
  /\ q \in queries /\ queries' = queries \ {q} /\ inbox' = Append(inbox, q)
  /\ UNCHANGED <<sdkVars, place, reads, pageVars, crashed>>

-----------------------------------------------------------------------------
(* The completions, on the main queue *)

Asks(kind) == queries' = queries \cup {[kind |-> kind]}

NoProfile(a) ==
  /\ a.kind \in {"labels", "posts"} /\ ~a.ok
  /\ missed' = (missed \/ a.kind = "posts")
  /\ UNCHANGED <<user, counted, posts, tab, items, queries>>

NotCounted(a) ==                         \* mutant: only the labels are set
  /\ a.kind = "labels" /\ a.ok /\ user' = a.of
  /\ UNCHANGED <<counted, posts, missed, tab, items, queries>>

(* fetchProfile                                                            *)
DeliverLabels(a) ==
  /\ a.kind = "labels" /\ a.ok /\ user' = a.of /\ Asks("count")
  /\ UNCHANGED <<counted, posts, missed, tab, items>>

(* fetchPosts, up to the query and after it                                *)
DeliverAuthor(a) ==
  /\ a.kind = "posts" /\ a.ok /\ Asks("list")
  /\ UNCHANGED pageVars

DeliverList(a) ==
  /\ a.kind = "list" /\ posts' = TRUE /\ items' = "posts"
  /\ UNCHANGED <<user, counted, missed, tab, queries>>

DeliverCount(a) ==
  /\ a.kind = "count" /\ counted' = TRUE
  /\ UNCHANGED <<user, posts, missed, tab, items, queries>>

Deliver ==
  /\ inbox # <<>> /\ inbox' = Tail(inbox)
  /\ LET a == Head(inbox)
     IN  NoProfile(a) \/ DeliverLabels(a) \/ DeliverAuthor(a) \/ DeliverList(a) \/ DeliverCount(a)
  /\ UNCHANGED <<sdkVars, place, reads, crashed>>

-----------------------------------------------------------------------------
User == Cover \/ Uncover \/ Leave \/ Reopen \/ TapSaved \/ TapPosts \/ TapWithoutUser

Read == ReadOnline \/ ReadCached \/ ReadFails

Next ==
  \/ User \/ EditProfile \/ Read
  \/ \E q \in QueryAnswers : QueryAnswered(q)
  \/ Deliver

Spec == Init /\ [][Next]_vars

(* Reads and queries are answered and answers delivered; the user owes     *)
(* nothing.                                                                *)
FairSpec ==
  /\ Spec /\ WF_vars(Read) /\ WF_vars(Deliver)
  /\ \A q \in QueryAnswers : WF_vars(QueryAnswered(q))

-----------------------------------------------------------------------------
(* Every variable holds a value of its kind, and nothing is awaited for a  *)
(* page that was left.                                                     *)
TypeOK ==
  /\ profile \in Profiles /\ cached \in Profiles \cup {None} /\ user \in Profiles \cup {None}
  /\ place \in {"front", "covered", "gone"} /\ (place = "gone" \/ crashed => Quiet)
  /\ reads \subseteq {"labels", "posts"} /\ queries \subseteq QueryAnswers
  /\ inbox \in Seq(ReadAnswers \cup QueryAnswers)
  /\ counted \in BOOLEAN /\ posts \in BOOLEAN /\ missed \in BOOLEAN /\ crashed \in BOOLEAN
  /\ tab \in {"posts", "saved"} /\ items \in {"empty", "posts", "saved"}

(* The labels never go back to an older profile while the page is there,   *)
(* whether the server or the cache answers, in whatever order it is left   *)
(* and comes to the front again.                                           *)
ProfileNeverOlder == [][user # None /\ user' # None => user <= user']_vars

(* A page that shows the labels gets the number of its followers, and its  *)
(* posts too unless fetchPosts itself was answered with an error, which    *)
(* nothing makes up for: no cover, tap or later read of the profile loses  *)
(* them, as long as the page is neither left nor crashes.                  *)
PageFilled ==
  user # None ~> (counted /\ (posts \/ missed)) \/ place = "gone" \/ crashed
=============================================================================
