--------------------------- MODULE AccountSession ---------------------------
(***************************************************************************)
(* Who is signed in on one device: Firebase Auth's current user, the       *)
(* cached profile (AccountManager.appUser), the User documents, the        *)
(* sign-in sheet with its set-up page, and the progress HUD, which is the  *)
(* only thing that keeps the user from starting a second operation.        *)
(*                                                                         *)
(* Every asynchronous operation (sign-in, set-up, block, delete) is a flow *)
(* that waits for one callback at a time.                                  *)
(***************************************************************************)
EXTENDS FiniteSets

CONSTANTS
  Accounts,     \* Firebase uids
  Flows,        \* identities of operations under way
  None,         \* nobody
  HudReliable   \* whether every ClipPicProgressHUD.show() finds a key window

ASSUME NoneAssumption == None \notin Accounts
ASSUME FlagsAssumption == HudReliable \in BOOLEAN

VARIABLES
  authUser,     \* Auth.auth().currentUser, kept over restarts
  appUser,      \* the account whose profile UserDefaults holds
  docs,         \* accounts with a User document on the server
  pending,      \* accounts whose setData is in the SDK's write queue
  deleted,      \* accounts deleted from Firebase Auth
  sheet,        \* the modal sheet: none, the sign-in page, the set-up page
  delegate,     \* the sheet's sign-in page is AccountManager's delegate
  flow,         \* per flow: the callback it waits for and its account
  hud,          \* the HUD covers the window
  stranded,     \* ... and the code that showed it returned without hiding it
  tab,          \* the tab in front
  creator,      \* a creator's profile is on the Home tab's stack
  crashed       \* fatalError("Invaid userUID")

accountVars == <<authUser, appUser, docs, pending, deleted>>
uiVars == <<sheet, delegate, tab, creator>>
hudVars == <<hud, stranded>>
vars == <<accountVars, uiVars, hudVars, flow, crashed>>

Users == Accounts \cup {None}
Idle == [step |-> "idle", acct |-> None]
HudSteps == {"auth", "profile", "upload", "create", "block"}
Steps == HudSteps \cup {"idle", "delete"}

isLogin == authUser # None /\ appUser # None

(* The HUD takes every touch; after a crash there is nothing to touch.     *)
Touchable == ~hud /\ ~crashed

(* getDocument shows a document that is on the server or in the queue.     *)
OnServer(a) == a \in docs                   \* mutant: pending writes ignored
AnyProfile(a) == TRUE                       \* mutant: data() is not asked for
HasProfile(a) == a \in docs \cup pending

Init ==
  /\ authUser = None /\ appUser = None
  /\ docs \in SUBSET Accounts
  /\ pending = {} /\ deleted = {}
  /\ sheet = "none" /\ delegate = FALSE
  /\ flow = [f \in Flows |-> Idle]
  /\ hud = FALSE /\ stranded = FALSE
  /\ tab = "home" /\ creator = FALSE
  /\ crashed = FALSE

(* show() does nothing when no scene is in the foreground and active.      *)
Show ==
  /\ \/ hud' = TRUE
     \/ ~HudReliable /\ hud' = hud
  /\ UNCHANGED stranded
Hide == hud' = FALSE /\ stranded' = FALSE

(* show(), and a return on which nobody calls hide().                      *)
ShowAndStrand ==
  \/ hud' = TRUE /\ stranded' = TRUE
  \/ ~HudReliable /\ UNCHANGED hudVars

Waits(f, s) == flow[f].step = s /\ ~crashed
Step(f, s, a) == flow' = [flow EXCEPT ![f] = [step |-> s, acct |-> a]]
EndKeepsAccount(f) ==                       \* mutant: the account is not reset
  flow' = [flow EXCEPT ![f].step = "idle"]
End(f) == flow' = [flow EXCEPT ![f] = Idle]

-----------------------------------------------------------------------------
(* Signing in *)

(* A tab other than Home, or a post, is tapped without a login.            *)
ShowSignInPage ==
  /\ Touchable /\ sheet = "none" /\ ~isLogin
  /\ sheet' = "signIn" /\ delegate' = FALSE
  /\ UNCHANGED <<accountVars, hudVars, flow, tab, creator, crashed>>

(* The sheet is swiped down, from either page.                             *)
SwipeSheet ==
  /\ Touchable /\ sheet # "none"
  /\ sheet' = "none" /\ delegate' = FALSE
  /\ UNCHANGED <<accountVars, hudVars, flow, tab, creator, crashed>>

(* Google or Apple returned a credential for a: the HUD is shown and       *)
(* Firebase Auth is asked.                                                 *)
SignIn(f, a) ==
  /\ Touchable /\ sheet = "signIn" /\ flow[f] = Idle
  /\ Show /\ delegate' = TRUE
  /\ Step(f, "auth", a)
  /\ UNCHANGED <<accountVars, sheet, tab, creator, crashed>>

AuthFailsQuietly(f) ==     \* mutant: the HUD is left up
  /\ Waits(f, "auth")
  /\ End(f)
  /\ UNCHANGED <<accountVars, uiVars, hudVars, crashed>>

AuthFails(f) ==
  /\ Waits(f, "auth")
  /\ Hide /\ End(f)
  /\ UNCHANGED <<accountVars, uiVars, crashed>>

(* fetchProfile asks for the document of the user just signed in.          *)
AuthSucceeds(f) ==
  /\ Waits(f, "auth") /\ flow[f].acct \notin deleted
  /\ authUser' = flow[f].acct
  /\ Step(f, "profile", flow[f].acct)
  /\ UNCHANGED <<appUser, docs, pending, deleted, uiVars, hudVars, crashed>>

ProfileFound(f) ==
  /\ Waits(f, "profile") /\ HasProfile(flow[f].acct)
  /\ appUser' = flow[f].acct
  /\ sheet' = IF delegate THEN "none" ELSE sheet
  /\ delegate' = FALSE
  /\ Hide /\ End(f)
  /\ UNCHANGED <<authUser, docs, pending, deleted, tab, creator, crashed>>

ProfileEmpty(f) ==
  /\ Waits(f, "profile") /\ ~HasProfile(flow[f].acct)
  /\ sheet' = IF delegate THEN "setUp" ELSE sheet
  /\ Hide /\ End(f)
  /\ UNCHANGED <<accountVars, delegate, tab, creator, crashed>>

(* Any other error: the page stays as it is.                               *)
ProfileFails(f) ==
  /\ Waits(f, "profile")
  /\ Hide /\ End(f)
  /\ UNCHANGED <<accountVars, uiVars, crashed>>

-----------------------------------------------------------------------------
(* Setting up the account *)

(* "Next" with a user name: the avatar is uploaded, unless nobody is       *)
(* signed in, which is answered nil at once.                               *)
TapNext(f) ==
  /\ Touchable /\ sheet = "setUp" /\ flow[f] = Idle
  /\ \/ authUser # None /\ Show /\ Step(f, "upload", authUser)
     \/ authUser = None /\ ShowAndStrand /\ UNCHANGED flow
  /\ UNCHANGED <<accountVars, uiVars, crashed>>

(* No URL: tapNextButton returns and leaves the HUD up.                    *)
UploadFails(f) ==
  /\ Waits(f, "upload")
  /\ stranded' = hud /\ End(f)
  /\ UNCHANGED <<accountVars, uiVars, hud, crashed>>

(* createUser writes a fresh document for whoever is signed in by then.    *)
UploadSucceeds(f) ==
  /\ Waits(f, "upload")
  /\ \/ /\ authUser # None
        /\ pending' = pending \cup {authUser}
        /\ Step(f, "create", authUser)
        /\ UNCHANGED crashed
     \/ /\ authUser = None
        /\ crashed' = TRUE
        /\ UNCHANGED <<pending, flow>>
  /\ UNCHANGED <<authUser, appUser, docs, deleted, uiVars, hudVars>>

(* The server answers the setData of a; accepted or not, createUser goes   *)
(* on to set appUser and to report success.                                *)
CreateAnswered(f, accepted) ==
  LET a == flow[f].acct
  IN  /\ Waits(f, "create") /\ authUser = a
      /\ pending' = pending \ {a}
      /\ docs' = IF accepted THEN docs \cup {a} ELSE docs
      /\ appUser' = a
      /\ sheet' = IF sheet = "setUp" THEN "none" ELSE sheet
      /\ delegate' = (delegate /\ sheet # "setUp")
      /\ Hide /\ End(f)
      /\ UNCHANGED <<authUser, deleted, tab, creator, crashed>>

(* A setData that outlived its process is answered to nobody.              *)
PendingAnswered(a, accepted) ==
  /\ a \in pending /\ authUser = a
  /\ \A f \in Flows : flow[f] # [step |-> "create", acct |-> a]
  /\ pending' = pending \ {a}
  /\ docs' = IF accepted THEN docs \cup {a} ELSE docs
  /\ UNCHANGED <<authUser, appUser, deleted, uiVars, hudVars, flow, crashed>>

-----------------------------------------------------------------------------
(* Inside the application *)

SelectTab(t) ==
  /\ Touchable /\ sheet = "none" /\ tab # t
  /\ t = "home" \/ isLogin
  /\ tab' = t
  /\ UNCHANGED <<accountVars, sheet, delegate, creator, hudVars, flow, crashed>>

OpenCreator ==
  /\ Touchable /\ sheet = "none" /\ tab = "home" /\ isLogin
  /\ creator' = TRUE
  /\ UNCHANGED <<accountVars, sheet, delegate, tab, hudVars, flow, crashed>>

Back ==
  /\ Touchable /\ sheet = "none" /\ tab = "home" /\ creator
  /\ creator' = FALSE
  /\ UNCHANGED <<accountVars, sheet, delegate, tab, hudVars, flow, crashed>>

(* "Block user": blockUser returns at once when there is no profile.       *)
Block(f) ==
  /\ Touchable /\ sheet = "none" /\ tab = "home" /\ creator /\ flow[f] = Idle
  /\ \/ appUser # None /\ Show /\ Step(f, "block", appUser)
     \/ appUser = None /\ ShowAndStrand /\ UNCHANGED flow
  /\ UNCHANGED <<accountVars, uiVars, crashed>>

BlockAnswered(f, ok) ==
  /\ Waits(f, "block")
  /\ creator' = (creator /\ ~ok)
  /\ Hide /\ End(f)
  /\ UNCHANGED <<accountVars, sheet, delegate, tab, crashed>>

(* Settings, "Sign Out": only the member tab's stack is popped.  Firebase  *)
(* may throw, and the tab is left all the same.                            *)
KeepsProfile ==          \* mutant: appUser is not cleared
  /\ Touchable /\ sheet = "none" /\ tab = "member"
  /\ authUser' = None /\ appUser' = appUser /\ tab' = "home"
  /\ UNCHANGED <<docs, pending, deleted, sheet, delegate, creator, hudVars,
                 flow, crashed>>

SignOut ==
  /\ Touchable /\ sheet = "none" /\ tab = "member"
  /\ \/ authUser' = None /\ appUser' = None
     \/ UNCHANGED <<authUser, appUser>>
  /\ tab' = "home"
  /\ UNCHANGED <<docs, pending, deleted, sheet, delegate, creator, hudVars,
                 flow, crashed>>

(* Settings, "Delete Account": no HUD, and appUser is never cleared.       *)
DeleteAccount(f) ==
  /\ Touchable /\ sheet = "none" /\ tab = "member"
  /\ authUser # None /\ flow[f] = Idle
  /\ Step(f, "delete", authUser)
  /\ UNCHANGED <<accountVars, uiVars, hudVars, crashed>>

KeepsTab(f) ==             \* mutant: the tab is not left
  /\ Waits(f, "delete") /\ flow[f].acct \notin deleted
  /\ deleted' = deleted \cup {flow[f].acct}
  /\ authUser' = IF authUser = flow[f].acct THEN None ELSE authUser
  /\ tab' = tab /\ End(f)
  /\ UNCHANGED <<appUser, docs, pending, sheet, delegate, creator, hudVars,
                 crashed>>

DeleteSucceeds(f) ==
  /\ Waits(f, "delete") /\ flow[f].acct \notin deleted
  /\ deleted' = deleted \cup {flow[f].acct}
  /\ authUser' = IF authUser = flow[f].acct THEN None ELSE authUser
  /\ tab' = "home" /\ End(f)
  /\ UNCHANGED <<appUser, docs, pending, sheet, delegate, creator, hudVars,
                 crashed>>

DeleteFails(f) ==
  /\ Waits(f, "delete") /\ End(f)
  /\ UNCHANGED <<accountVars, uiVars, hudVars, crashed>>

(* The process ends, by the user, the system or fatalError.                *)
Restart ==
  /\ sheet' = "none" /\ delegate' = FALSE /\ tab' = "home" /\ creator' = FALSE
  /\ Hide /\ crashed' = FALSE
  /\ flow' = [f \in Flows |-> Idle]
  /\ UNCHANGED accountVars

-----------------------------------------------------------------------------
Callbacks(f) ==
  \/ AuthFails(f) \/ AuthSucceeds(f)
  \/ ProfileFound(f) \/ ProfileEmpty(f) \/ ProfileFails(f)
  \/ UploadFails(f) \/ UploadSucceeds(f)
  \/ \E b \in BOOLEAN : CreateAnswered(f, b) \/ BlockAnswered(f, b)
  \/ DeleteSucceeds(f) \/ DeleteFails(f)

Touches(f) ==
  \/ \E a \in Accounts : SignIn(f, a)
  \/ TapNext(f) \/ Block(f) \/ DeleteAccount(f)

Next ==
  \/ ShowSignInPage \/ SwipeSheet
  \/ \E f \in Flows : Touches(f) \/ Callbacks(f)
  \/ \E a \in Accounts, b \in BOOLEAN : PendingAnswered(a, b)
  \/ \E t \in {"home", "member"} : SelectTab(t)
  \/ OpenCreator \/ Back \/ SignOut
  \/ Restart

Spec == Init /\ [][Next]_vars

(* Callbacks come; the user and the system owe nothing.                    *)
FairSpec == Spec /\ \A f \in Flows : WF_vars(Callbacks(f))

-----------------------------------------------------------------------------
(* Every variable holds a value of its kind, and an operation has an       *)
(* account for as long as it runs.                                         *)
TypeOK ==
  /\ authUser \in Users /\ appUser \in Users
  /\ docs \subseteq Accounts /\ pending \subseteq Accounts
  /\ deleted \subseteq Accounts
  /\ sheet \in {"none", "signIn", "setUp"} /\ delegate \in BOOLEAN
  /\ flow \in [Flows -> [step : Steps, acct : Users]]
  /\ \A f \in Flows : flow[f].step = "idle" <=> flow[f].acct = None
  /\ hud \in BOOLEAN /\ stranded \in BOOLEAN /\ crashed \in BOOLEAN
  /\ tab \in {"home", "member"} /\ creator \in BOOLEAN

(* Whoever is logged in sees the own profile, or that of an account that   *)
(* has been deleted (deleteUser leaves appUser behind).                    *)
OwnProfile == isLogin /\ appUser # authUser => appUser \in deleted

(* The member tabs are open to a login only.                               *)
MembersOnly == tab = "member" => isLogin

(* No setData is queued for an account that has a User document: set-up    *)
(* would replace its lists by empty ones.                                  *)
NeverOverwritten == pending \cap docs = {}

(* A login has a User document, or one on its way, without which every     *)
(* save, follow and block fails; only a set-up that the server refuses     *)
(* takes it away (createUser goes on after an error).  After "Delete       *)
(* Account" the profile left behind lets a new account in without one.     *)
NoDocument == isLogin /\ deleted = {} /\ authUser \notin docs \cup pending
Refused == pending \ pending' # {} /\ docs' = docs
LoginHasDocument == [][NoDocument' => NoDocument \/ Refused]_vars

(* fatalError("Invaid userUID"): createUser asserts that somebody is       *)
(* signed in.                                                              *)
NoCrash == ~crashed

(* One operation at a time holds the HUD.                                  *)
OneHolder ==
  \A f, g \in Flows :
    flow[f].step \in HudSteps /\ flow[g].step \in HudSteps => f = g

(* The HUD goes away again, except after the two returns that forget it,   *)
(* and as long as nobody deletes an account.                               *)
HudReleased == hud ~> (~hud \/ stranded \/ deleted # {})
=============================================================================
