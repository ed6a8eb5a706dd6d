----------------------------- MODULE AccountSwitch -----------------------------
(***************************************************************************)
(* One device on which several accounts sign in one after another, and     *)
(* the operations that outlive a session: a saved post (getDocument, then  *)
(* updateData), a published post (image upload, then setData) and an       *)
(* edited profile (avatar upload, then updateData).  Each of them captures *)
(* some data at the tap and reads other data, who is signed in and the     *)
(* cached profile, in its callbacks.                                       *)
(*                                                                         *)
(* UserLists has the details of one account's lists and AccountSession     *)
(* those of signing in; here a sign-in is one step, a list is a set, and   *)
(* the server applies a write and acknowledges it in one step.  The SDK's  *)
(* queue of pending writes is per user, and its callbacks are too.         *)
(***************************************************************************)
EXTENDS Integers, Sequences, FiniteSetsExt

CONSTANTS
  Accounts,      \* Firebase uids
  Images,        \* posts that can be saved
  Taps,          \* taps on Save, Post and Done; each happens at most once
  None,          \* nobody, and nothing yet
  HudShows       \* show() finds an active scene, and the HUD covers the window

ASSUME NoneAssumption == None \notin Accounts /\ None \notin Taps
ASSUME FlagAssumption == HudShows \in BOOLEAN

VARIABLES
  authUser,      \* Auth.auth().currentUser
  appUser,       \* AccountManager.appUser, [id, saved, avatar] or None
  deleting,      \* the account whose deletion is under way
  deleted,       \* the accounts that are gone
  doc,           \* the User documents on the server
  posts,         \* the Post documents on the server
  writes,        \* the SDK's pending writes, per user
  op,            \* what became of each tap
  hud            \* the progress HUD covers the window

sessionVars == <<authUser, appUser, deleting, deleted>>
serverVars == <<doc, posts>>
vars == <<sessionVars, serverVars, writes, op, hud>>

Users == Accounts \cup {None}

(* /uid/avatar.jpeg?alt=media: the token of the download URL is dropped,   *)
(* so that every avatar an account uploads has the same URL.               *)
TokenKept(a, t) == [owner |-> a, token |-> t]      \* mutant

AvatarURL(a, t) == [owner |-> a, token |-> None]

URLs == [owner : Accounts, token : Taps \cup {None}]
Documents == [saved : SUBSET Images, avatar : URLs]
Profiles == [id : Accounts, saved : SUBSET Images, avatar : URLs]
Authors == [id : Accounts, avatar : URLs]

(* What became of a tap: who tapped, whose document it is for, and what is *)
(* written, once that is known.                                            *)
Ops == [kind : {"none", "save", "unsave", "publish", "edit"},
        step : {"idle", "reading", "uploading", "writing", "done"},
        by : Users, target : Users, image : Images \cup {None},
        list : SUBSET Images, value : URLs \cup Authors \cup {None}]
Untouched == [kind |-> "none", step |-> "idle", by |-> None, target |-> None,
              image |-> None, list |-> {}, value |-> None]

Lists == {"save", "unsave"}

(* An account has no avatar but the one its set-up uploaded.               *)
Init ==
  /\ authUser = None /\ appUser = None /\ deleting = None /\ deleted = {}
  /\ doc = [a \in Accounts |-> [saved |-> {}, avatar |-> AvatarURL(a, None)]]
  /\ posts = {}
  /\ writes = [u \in Users |-> <<>>]
  /\ op = [t \in Taps |-> Untouched]
  /\ hud = FALSE

(* The document of a as the SDK shows it to u: u's pending writes over     *)
(* what the server has.                                                    *)
PendingOn(u, a, kinds) ==
  {i \in 1..Len(writes[u]) :
     op[writes[u][i]].target = a /\ op[writes[u][i]].kind \in kinds}

LastOn(u, a, kinds) == writes[u][Max(PendingOn(u, a, kinds))]

SavedView(u, a) ==
  IF PendingOn(u, a, Lists) = {} THEN doc[a].saved ELSE op[LastOn(u, a, Lists)].list
AvatarView(u, a) ==
  IF PendingOn(u, a, {"edit"}) = {} THEN doc[a].avatar ELSE op[LastOn(u, a, {"edit"})].value

Become(t, o) == op' = [op EXCEPT ![t] = o]
Finish(t) == op' = [op EXCEPT ![t].step = "done"]

(* updateData and setData: the write joins the queue of the current user.  *)
Enqueue(t, o) ==
  /\ Become(t, [o EXCEPT !.step = "writing"])
  /\ writes' = [writes EXCEPT ![authUser] = Append(@, t)]

-----------------------------------------------------------------------------
(* Sessions *)

HudTransparent == TRUE      \* mutant: touches reach the window below
Touchable == ~hud

(* signInWithGoogle or Apple, up to fetchProfile's answer.                 *)
SignIn(a) ==
  /\ Touchable /\ authUser = None /\ a \notin deleted
  /\ authUser' = a
  /\ appUser' = [id |-> a, saved |-> SavedView(a, a), avatar |-> AvatarView(a, a)]
  /\ UNCHANGED <<deleting, deleted, serverVars, writes, op, hud>>

SignOut ==
  /\ Touchable /\ authUser # None
  /\ authUser' = None /\ appUser' = None
  /\ UNCHANGED <<deleting, deleted, serverVars, writes, op, hud>>

(* "Delete Account" shows no HUD, and its answer leaves appUser behind.    *)
DeleteAccount ==
  /\ Touchable /\ authUser # None /\ deleting = None
  /\ deleting' = authUser
  /\ UNCHANGED <<authUser, appUser, deleted, serverVars, writes, op, hud>>

DeleteAnswered(ok) ==
  /\ deleting # None /\ deleting' = None
  /\ IF ok
     THEN /\ deleted' = deleted \cup {deleting}
          /\ authUser' = IF authUser = deleting THEN None ELSE authUser
     ELSE UNCHANGED <<deleted, authUser>>
  /\ UNCHANGED <<appUser, serverVars, writes, op, hud>>

-----------------------------------------------------------------------------
(* Save and unsave *)

TapSave(t, p) ==
  /\ Touchable /\ op[t] = Untouched /\ authUser # None
  /\ Become(t, [kind |-> IF appUser # None /\ p \in appUser.saved
                         THEN "unsave" ELSE "save",
                step |-> "reading", by |-> authUser, target |-> authUser,
                image |-> p, list |-> {}, value |-> None])
  /\ UNCHANGED <<sessionVars, serverVars, writes, hud>>

(* getDocument's answer: the list is read, changed and sent back whole.    *)
LateTarget(t) ==                         \* mutant: the document is chosen now
  /\ op[t].step = "reading" /\ authUser # None
  /\ LET old == SavedView(authUser, authUser)
         new == IF op[t].kind = "save" THEN old \cup {op[t].image}
                ELSE old \ {op[t].image}
     IN Enqueue(t, [op[t] EXCEPT !.list = new, !.target = authUser])
  /\ UNCHANGED <<sessionVars, serverVars, hud>>

DocumentRead(t) ==
  /\ op[t].step = "reading"
  /\ LET old == SavedView(authUser, op[t].target)
         new == IF op[t].kind = "save" THEN old \cup {op[t].image}
                ELSE old \ {op[t].image}
     IN Enqueue(t, [op[t] EXCEPT !.list = new])
  /\ UNCHANGED <<sessionVars, serverVars, hud>>

ReadFails(t) ==
  /\ op[t].step = "reading" /\ Finish(t)
  /\ UNCHANGED <<sessionVars, serverVars, writes, hud>>

-----------------------------------------------------------------------------
(* Publish *)

(* "Success" is shown right after the upload was started, and without      *)
(* anybody signed in the upload fails at once.                             *)
TapPost(t) ==
  /\ Touchable /\ op[t] = Untouched
  /\ Become(t, [Untouched EXCEPT
                  !.kind = "publish", !.by = authUser, !.target = authUser,
                  !.step = IF authUser = None THEN "done" ELSE "uploading"])
  /\ UNCHANGED <<sessionVars, serverVars, writes, hud>>

(* publishPost signs the document with the profile it finds now.           *)
ImageUploaded(t) ==
  /\ op[t].step = "uploading" /\ op[t].kind = "publish"
  /\ IF appUser = None THEN Finish(t) /\ UNCHANGED writes
     ELSE Enqueue(t, [op[t] EXCEPT
                        !.value = [id |-> appUser.id, avatar |-> appUser.avatar]])
  /\ UNCHANGED <<sessionVars, serverVars, hud>>

ImageFails(t) ==
  /\ op[t].step = "uploading" /\ op[t].kind = "publish" /\ Finish(t)
  /\ UNCHANGED <<sessionVars, serverVars, writes, hud>>

-----------------------------------------------------------------------------
(* Edit profile *)

TapDone(t) ==
  /\ Touchable /\ op[t] = Untouched /\ authUser # None
  /\ Become(t, [Untouched EXCEPT !.kind = "edit", !.step = "uploading",
                                 !.by = authUser,
                                 !.value = AvatarURL(authUser, t)])
  /\ hud' = HudShows
  /\ UNCHANGED <<sessionVars, serverVars, writes>>

(* updateProfile writes to whoever is signed in now, and returns without a *)
(* word (and with the HUD up) when nobody is.                              *)
AvatarUploaded(t) ==
  /\ op[t].step = "uploading" /\ op[t].kind = "edit"
  /\ IF authUser = None THEN Finish(t) /\ UNCHANGED writes
     ELSE Enqueue(t, [op[t] EXCEPT !.target = authUser])
  /\ UNCHANGED <<sessionVars, serverVars, hud>>

HudKept(t) ==                            \* mutant: the early return forgets it
  /\ op[t].step = "uploading" /\ op[t].kind = "edit"
  /\ Finish(t)
  /\ UNCHANGED <<sessionVars, serverVars, writes, hud>>

AvatarFails(t) ==
  /\ op[t].step = "uploading" /\ op[t].kind = "edit"
  /\ Finish(t) /\ hud' = FALSE
  /\ UNCHANGED <<sessionVars, serverVars, writes>>

-----------------------------------------------------------------------------
(* The server's answer to the current user's oldest write *)

Stored(t) ==
  LET o == op[t] IN
  /\ doc' = CASE o.kind \in Lists -> [doc EXCEPT ![o.target].saved = o.list]
              [] o.kind = "edit" -> [doc EXCEPT ![o.target].avatar = o.value]
              [] OTHER -> doc
  /\ posts' = posts \cup
       (IF o.kind = "publish" THEN {[tap |-> t, author |-> o.value]} ELSE {})

(* The completion overwrites a field of whatever profile is cached now.    *)
Cached(t) ==
  LET o == op[t] IN
  IF appUser = None THEN None
  ELSE CASE o.kind \in Lists -> [appUser EXCEPT !.saved = o.list]
         [] o.kind = "edit" -> [appUser EXCEPT !.avatar = o.value]
         [] OTHER -> appUser

BatchKept(ok) ==                         \* mutant: the answered batch stays queued
  /\ writes[authUser] # <<>>
  /\ LET t == Head(writes[authUser]) IN
     /\ IF ok THEN Stored(t) /\ appUser' = Cached(t)
        ELSE UNCHANGED <<serverVars, appUser>>
     /\ hud' = (hud /\ op[t].kind # "edit")
     /\ Finish(t)
  /\ UNCHANGED <<authUser, deleting, deleted, writes>>

Answered(ok) ==
  /\ writes[authUser] # <<>>
  /\ LET t == Head(writes[authUser]) IN
     /\ writes' = [writes EXCEPT ![authUser] = Tail(@)]
     /\ IF ok THEN Stored(t) /\ appUser' = Cached(t)
        ELSE UNCHANGED <<serverVars, appUser>>
     /\ hud' = (hud /\ op[t].kind # "edit")
     /\ Finish(t)
  /\ UNCHANGED <<authUser, deleting, deleted>>

-----------------------------------------------------------------------------
Touches ==
  \/ \E a \in Accounts : SignIn(a)
  \/ SignOut \/ DeleteAccount
  \/ \E t \in Taps : TapPost(t) \/ TapDone(t) \/ \E p \in Images : TapSave(t, p)

Callbacks(t) ==
  \/ DocumentRead(t) \/ ReadFails(t)
  \/ ImageUploaded(t) \/ ImageFails(t)
  \/ AvatarUploaded(t) \/ AvatarFails(t)

Next ==
  \/ Touches
  \/ \E t \in Taps : Callbacks(t)
  \/ \E ok \in BOOLEAN : Answered(ok) \/ DeleteAnswered(ok)

Spec == Init /\ [][Next]_vars

(* Transfers end, one way or the other, and the server answers; the user   *)
(* owes nothing.                                                           *)
FairSpec ==
  /\ Spec
  /\ \A t \in Taps : WF_vars(Callbacks(t))
  /\ WF_vars(\E ok \in BOOLEAN : Answered(ok))

-----------------------------------------------------------------------------
(* Every variable holds a value of its kind, and the queues hold taps that *)
(* wait for the server.                                                    *)
TypeOK ==
  /\ authUser \in Users /\ appUser \in Profiles \cup {None}
  /\ deleting \in Users /\ deleted \subseteq Accounts
  /\ doc \in [Accounts -> Documents]
  /\ posts \subseteq [tap : Taps, author : Authors]
  /\ op \in [Taps -> Ops]
  /\ writes \in [Users -> Seq(Taps)]
  /\ \A u \in Users : \A i \in 1..Len(writes[u]) : op[writes[u][i]].step = "writing"
  /\ hud \in BOOLEAN

(* What a's own taps have put on its list of saved posts.                  *)
SavedBy(a) ==
  {op[t].image : t \in {s \in Taps : op[s].kind = "save" /\ op[s].by = a}}

(* However late the callbacks of an earlier session come, the list on the  *)
(* server holds nothing but what its own account saved: the document is    *)
(* fixed at the tap, and the list is read from it.                         *)
ServerOwn == \A a \in Accounts : doc[a].saved \subseteq SavedBy(a)

(* Nobody's document shows another account's avatar: the HUD keeps the     *)
(* user from signing in again before updateProfile reads who is signed in. *)
AvatarOwn == \A a \in Accounts : doc[a].avatar.owner = a

(* The profile pages find posts, and count followers, by comparing the     *)
(* whole author [id, name, avatar], of which only the avatar can be        *)
(* edited: every post must carry what its author's document says now,      *)
(* however often the avatar was replaced.                                  *)
OwnPostsFound == \A x \in posts : x.author.avatar = doc[x.author.id].avatar

(* The HUD of "Done" goes away again, as long as nobody deletes an account.*)
EditReleased == hud ~> (~hud \/ deleted # {})
=============================================================================
