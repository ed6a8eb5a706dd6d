------------------------ MODULE AccountSessionProofs ------------------------
(***************************************************************************)
(* Proofs about AccountSession, for any number of accounts and operations: *)
(* type correctness, that the member tabs are open to a login only, and,   *)
(* where every show() finds its window, that one operation at a time holds *)
(* the HUD, that a login sees its own profile and has a User document, and *)
(* that set-up replaces none; and that the HUD stays up for an operation.  *)
(***************************************************************************)
EXTENDS AccountSession, TLAPS

(* An operation under way has a real account: None names nobody.           *)
LEMMA FlowAccount ==
  ASSUME TypeOK, NEW f \in Flows, flow[f].step # "idle"
  PROVE  flow[f].acct \in Accounts
BY DEF TypeOK, Users

-----------------------------------------------------------------------------
(* Types *)

LEMMA TypeInit == Init => TypeOK
<1> SUFFICES ASSUME Init PROVE TypeOK
  OBVIOUS
<1>1. /\ authUser \in Users /\ appUser \in Users
      /\ docs \subseteq Accounts /\ pending \subseteq Accounts
      /\ deleted \subseteq Accounts
  BY DEF Init, Users
<1>2. /\ flow \in [Flows -> [step : Steps, acct : Users]]
      /\ \A f \in Flows : flow[f].step = "idle" <=> flow[f].acct = None
  BY DEF Init, Idle, Users, Steps
<1>3. /\ sheet \in {"none", "signIn", "setUp"} /\ delegate \in BOOLEAN
      /\ hud \in BOOLEAN /\ stranded \in BOOLEAN /\ crashed \in BOOLEAN
      /\ tab \in {"home", "member"} /\ creator \in BOOLEAN
  BY DEF Init
<1> QED BY <1>1, <1>2, <1>3 DEF TypeOK

(* The three ways in which an action changes flow.                         *)
FlowOK(fl) ==
  /\ fl \in [Flows -> [step : Steps, acct : Users]]
  /\ \A f \in Flows : fl[f].step = "idle" <=> fl[f].acct = None

LEMMA StepOK ==
  ASSUME TypeOK, NEW f \in Flows, NEW s \in Steps \ {"idle"},
         NEW a \in Accounts, Step(f, s, a)
  PROVE  FlowOK(flow')
BY NoneAssumption DEF TypeOK, FlowOK, Step, Users

LEMMA EndOK ==
  ASSUME TypeOK, NEW f \in Flows, End(f)
  PROVE  FlowOK(flow')
BY NoneAssumption DEF TypeOK, FlowOK, End, Idle, Users, Steps, HudSteps

LEMMA SameOK ==
  ASSUME TypeOK, flow' = flow
  PROVE  FlowOK(flow')
BY DEF TypeOK, FlowOK

(* Everything but flow.                                                    *)
RestOK ==
  /\ authUser \in Users /\ appUser \in Users
  /\ docs \subseteq Accounts /\ pending \subseteq Accounts
  /\ deleted \subseteq Accounts
  /\ sheet \in {"none", "signIn", "setUp"} /\ delegate \in BOOLEAN
  /\ hud \in BOOLEAN /\ stranded \in BOOLEAN /\ crashed \in BOOLEAN
  /\ tab \in {"home", "member"} /\ creator \in BOOLEAN

LEMMA TypeSplit == TypeOK <=> RestOK /\ FlowOK(flow)
BY DEF TypeOK, RestOK, FlowOK

LEMMA TypeTouches ==
  ASSUME TypeOK, NEW f \in Flows, Touches(f)
  PROVE  TypeOK'
<1> USE DEF accountVars, uiVars, hudVars
<1>0. RestOK /\ FlowOK(flow)
  BY TypeSplit
<1>1. ASSUME NEW a \in Accounts, SignIn(f, a) PROVE TypeOK'
  <2>1. FlowOK(flow')
    BY <1>1, StepOK DEF SignIn, Steps, HudSteps
  <2>2. RestOK'
    BY <1>0, <1>1 DEF RestOK, SignIn, Show
  <2> QED BY <2>1, <2>2, TypeSplit DEF TypeOK, RestOK, FlowOK
<1>2. CASE TapNext(f)
  <2>1. FlowOK(flow')
    BY <1>0, <1>2, StepOK, SameOK DEF TapNext, Steps, HudSteps, RestOK, Users
  <2>2. RestOK'
    BY <1>0, <1>2 DEF RestOK, TapNext, Show, ShowAndStrand
  <2> QED BY <2>1, <2>2 DEF TypeOK, RestOK, FlowOK
<1>3. CASE Block(f)
  <2>1. FlowOK(flow')
    BY <1>0, <1>3, StepOK, SameOK DEF Block, Steps, HudSteps, RestOK, Users
  <2>2. RestOK'
    BY <1>0, <1>3 DEF RestOK, Block, Show, ShowAndStrand
  <2> QED BY <2>1, <2>2 DEF TypeOK, RestOK, FlowOK
<1>4. CASE DeleteAccount(f)
  <2>1. FlowOK(flow')
    BY <1>0, <1>4, StepOK DEF DeleteAccount, Steps, HudSteps, RestOK, Users
  <2>2. RestOK'
    BY <1>0, <1>4 DEF RestOK, DeleteAccount
  <2> QED BY <2>1, <2>2 DEF TypeOK, RestOK, FlowOK
<1> QED BY <1>1, <1>2, <1>3, <1>4 DEF Touches

LEMMA TypeCallbacks ==
  ASSUME TypeOK, NEW f \in Flows, Callbacks(f)
  PROVE  TypeOK'
<1> USE DEF accountVars, uiVars, hudVars
<1>0. RestOK /\ FlowOK(flow)
  BY TypeSplit
<1>a. ASSUME flow[f].step # "idle" PROVE flow[f].acct \in Accounts
  BY <1>a, FlowAccount
<1>1. CASE AuthFails(f)
  <2>1. FlowOK(flow')
    BY <1>1, EndOK DEF AuthFails
  <2>2. RestOK'
    BY <1>0, <1>1 DEF RestOK, AuthFails, Hide
  <2> QED BY <2>1, <2>2 DEF TypeOK, RestOK, FlowOK
<1>2. CASE AuthSucceeds(f)
  <2>0. flow[f].acct \in Accounts
    BY <1>a, <1>2 DEF AuthSucceeds, Waits
  <2>1. FlowOK(flow')
    BY <1>2, <2>0, StepOK DEF AuthSucceeds, Steps, HudSteps
  <2>2. RestOK'
    BY <1>0, <1>2, <2>0 DEF RestOK, AuthSucceeds, Users
  <2> QED BY <2>1, <2>2 DEF TypeOK, RestOK, FlowOK
<1>3. CASE ProfileFound(f)
  <2>0. flow[f].acct \in Accounts
    BY <1>a, <1>3 DEF ProfileFound, Waits
  <2>1. FlowOK(flow')
    BY <1>3, EndOK DEF ProfileFound
  <2>2. RestOK'
    BY <1>0, <1>3, <2>0 DEF RestOK, ProfileFound, Hide, Users
  <2> QED BY <2>1, <2>2 DEF TypeOK, RestOK, FlowOK
<1>4. CASE ProfileEmpty(f)
  <2>1. FlowOK(flow')
    BY <1>4, EndOK DEF ProfileEmpty
  <2>2. RestOK'
    BY <1>0, <1>4 DEF RestOK, ProfileEmpty, Hide
  <2> QED BY <2>1, <2>2 DEF TypeOK, RestOK, FlowOK
<1>5. CASE ProfileFails(f)
  <2>1. FlowOK(flow')
    BY <1>5, EndOK DEF ProfileFails
  <2>2. RestOK'
    BY <1>0, <1>5 DEF RestOK, ProfileFails, Hide
  <2> QED BY <2>1, <2>2 DEF TypeOK, RestOK, FlowOK
<1>6. CASE UploadFails(f)
  <2>1. FlowOK(flow')
    BY <1>6, EndOK DEF UploadFails
  <2>2. RestOK'
    BY <1>0, <1>6 DEF RestOK, UploadFails
  <2> QED BY <2>1, <2>2 DEF TypeOK, RestOK, FlowOK
<1>7. CASE UploadSucceeds(f)
  <2>1. FlowOK(flow')
    BY <1>0, <1>7, StepOK, SameOK
       DEF UploadSucceeds, Steps, HudSteps, RestOK, Users
  <2>2. RestOK'
    BY <1>0, <1>7 DEF RestOK, UploadSucceeds, Users
  <2> QED BY <2>1, <2>2 DEF TypeOK, RestOK, FlowOK
<1>8. ASSUME NEW b \in BOOLEAN, CreateAnswered(f, b) PROVE TypeOK'
  <2>0. flow[f].acct \in Accounts
    BY <1>a, <1>8 DEF CreateAnswered, Waits
  <2>1. FlowOK(flow')
    BY <1>8, EndOK DEF CreateAnswered
  <2>2. RestOK'
    BY <1>0, <1>8, <2>0 DEF RestOK, CreateAnswered, Hide, Users
  <2> QED BY <2>1, <2>2 DEF TypeOK, RestOK, FlowOK
<1>9. ASSUME NEW b \in BOOLEAN, BlockAnswered(f, b) PROVE TypeOK'
  <2>1. FlowOK(flow')
    BY <1>9, EndOK DEF BlockAnswered
  <2>2. RestOK'
    BY <1>0, <1>9 DEF RestOK, BlockAnswered, Hide
  <2> QED BY <2>1, <2>2 DEF TypeOK, RestOK, FlowOK
<1>10. CASE DeleteSucceeds(f)
  <2>0. flow[f].acct \in Accounts
    BY <1>a, <1>10 DEF DeleteSucceeds, Waits
  <2>1. FlowOK(flow')
    BY <1>10, EndOK DEF DeleteSucceeds
  <2>2. RestOK'
    BY <1>0, <1>10, <2>0 DEF RestOK, DeleteSucceeds, Users
  <2> QED BY <2>1, <2>2 DEF TypeOK, RestOK, FlowOK
<1>11. CASE DeleteFails(f)
  <2>1. FlowOK(flow')
    BY <1>11, EndOK DEF DeleteFails
  <2>2. RestOK'
    BY <1>0, <1>11 DEF RestOK, DeleteFails
  <2> QED BY <2>1, <2>2 DEF TypeOK, RestOK, FlowOK
<1> QED BY <1>1, <1>2, <1>3, <1>4, <1>5, <1>6, <1>7, <1>8, <1>9, <1>10, <1>11
        DEF Callbacks

(* The steps that leave every operation where it is.                       *)
Calm ==
  \/ ShowSignInPage \/ SwipeSheet
  \/ \E a \in Accounts, b \in BOOLEAN : PendingAnswered(a, b)
  \/ \E t \in {"home", "member"} : SelectTab(t)
  \/ OpenCreator \/ Back \/ SignOut
  \/ UNCHANGED vars

LEMMA NextSplit ==
  [Next]_vars <=> \/ Calm \/ Restart
                  \/ \E f \in Flows : Touches(f) \/ Callbacks(f)
BY DEF Next, Calm

LEMMA TypeCalm ==
  ASSUME TypeOK, Calm
  PROVE  TypeOK' /\ flow' = flow
<1> USE DEF accountVars, uiVars, hudVars
<1>1. flow' = flow
  BY DEF Calm, ShowSignInPage, SwipeSheet, PendingAnswered, SelectTab,
         OpenCreator, Back, SignOut, vars
<1>2. RestOK'
  <2>0. RestOK
    BY TypeSplit
  <2>1. CASE ShowSignInPage
    BY <2>0, <2>1 DEF RestOK, ShowSignInPage, Users
  <2>2. CASE SwipeSheet
    BY <2>0, <2>2 DEF RestOK, SwipeSheet, Users
  <2>3. ASSUME NEW a \in Accounts, NEW b \in BOOLEAN, PendingAnswered(a, b)
       PROVE  RestOK'
    BY <2>0, <2>3 DEF RestOK, PendingAnswered, Users
  <2>4. ASSUME NEW t \in {"home", "member"}, SelectTab(t)
       PROVE  RestOK'
    BY <2>0, <2>4 DEF RestOK, SelectTab, Users
  <2>5. CASE OpenCreator
    BY <2>0, <2>5 DEF RestOK, OpenCreator, Users
  <2>6. CASE Back
    BY <2>0, <2>6 DEF RestOK, Back, Users
  <2>7. CASE SignOut
    BY <2>0, <2>7 DEF RestOK, SignOut, Users
  <2>8. CASE UNCHANGED vars
    BY <2>0, <2>8 DEF RestOK, vars, Users
  <2> QED BY <2>1, <2>2, <2>3, <2>4, <2>5, <2>6, <2>7, <2>8 DEF Calm
<1> QED BY <1>1, <1>2, SameOK DEF TypeOK, RestOK, FlowOK

LEMMA TypeRestart ==
  ASSUME TypeOK, Restart
  PROVE  TypeOK'
BY NoneAssumption
   DEF TypeOK, Restart, Hide, Idle, Users, Steps, HudSteps, accountVars

LEMMA TypeStep == TypeOK /\ [Next]_vars => TypeOK'
BY NextSplit, TypeCalm, TypeRestart, TypeTouches, TypeCallbacks

(* Every reachable state of a device is well typed (TypeOK).               *)
THEOREM SessionTypes == Spec => []TypeOK
BY TypeInit, TypeStep, PTL DEF Spec

-----------------------------------------------------------------------------
(* The member tabs *)

LEMMA MembersTouches ==
  ASSUME MembersOnly, NEW f \in Flows, Touches(f)
  PROVE  MembersOnly'
BY DEF MembersOnly, isLogin, Touches, SignIn, TapNext, Block, DeleteAccount,
       accountVars, uiVars

LEMMA MembersCallbacks ==
  ASSUME TypeOK, MembersOnly, NEW f \in Flows, Callbacks(f)
  PROVE  MembersOnly'
<1> USE DEF accountVars, uiVars, hudVars, MembersOnly, isLogin
<1>0. flow[f].step # "idle" => flow[f].acct # None
  BY FlowAccount, NoneAssumption
<1>1. CASE AuthFails(f) \/ ProfileEmpty(f) \/ ProfileFails(f) \/ UploadFails(f)
  BY <1>1 DEF AuthFails, ProfileEmpty, ProfileFails, UploadFails
<1>2. CASE AuthSucceeds(f)
  BY <1>0, <1>2 DEF AuthSucceeds, Waits
<1>3. CASE ProfileFound(f)
  BY <1>0, <1>3 DEF ProfileFound, Waits
<1>4. CASE UploadSucceeds(f)
  BY <1>4 DEF UploadSucceeds
<1>5. ASSUME NEW b \in BOOLEAN, CreateAnswered(f, b) PROVE MembersOnly'
  BY <1>0, <1>5 DEF CreateAnswered, Waits
<1>6. ASSUME NEW b \in BOOLEAN, BlockAnswered(f, b) PROVE MembersOnly'
  BY <1>6 DEF BlockAnswered
<1>7. CASE DeleteSucceeds(f)
  BY <1>7 DEF DeleteSucceeds
<1>8. CASE DeleteFails(f)
  BY <1>8 DEF DeleteFails
<1> QED BY <1>1, <1>2, <1>3, <1>4, <1>5, <1>6, <1>7, <1>8 DEF Callbacks

LEMMA MembersCalm ==
  ASSUME MembersOnly, Calm \/ Restart
  PROVE  MembersOnly'
<1> USE DEF accountVars, uiVars, hudVars, MembersOnly, isLogin
<1>1. CASE ShowSignInPage \/ SwipeSheet \/ OpenCreator \/ Back
  BY <1>1 DEF ShowSignInPage, SwipeSheet, OpenCreator, Back
<1>2. ASSUME NEW a \in Accounts, NEW b \in BOOLEAN, PendingAnswered(a, b)
      PROVE  MembersOnly'
  BY <1>2 DEF PendingAnswered
<1>3. ASSUME NEW t \in {"home", "member"}, SelectTab(t) PROVE MembersOnly'
  BY <1>3 DEF SelectTab
<1>4. CASE SignOut \/ Restart
  BY <1>4 DEF SignOut, Restart
<1>5. CASE UNCHANGED vars
  BY <1>5 DEF vars
<1> QED BY <1>1, <1>2, <1>3, <1>4, <1>5 DEF Calm

(* Whatever the operations under way and however the HUD fails to appear,  *)
(* the member tabs are in front only while somebody is logged in: signing  *)
(* out and the late answer to a deletion both leave them (MembersOnly).    *)
THEOREM MembersOnlyAlways == Spec => []MembersOnly
<1>1. Init => MembersOnly
  BY DEF Init, MembersOnly
<1>2. TypeOK /\ MembersOnly /\ [Next]_vars => MembersOnly'
  BY NextSplit, MembersTouches, MembersCallbacks, MembersCalm
<1> QED BY <1>1, <1>2, SessionTypes, PTL DEF Spec

-----------------------------------------------------------------------------
(* What the HUD protects *)

Busy(f) == flow[f].step \in HudSteps

(* A busy operation holds the HUD, and the page it was started from stays. *)
HudInv ==
  /\ OneHolder
  /\ \A f \in Flows :
       /\ Busy(f) => hud
       /\ flow[f].step \in {"auth", "profile"} => sheet = "signIn" /\ delegate
       /\ flow[f].step \in {"upload", "create"} => sheet = "setUp"

(* The account of a sign-in is the one signed in, unless it was deleted.   *)
CurrentInv ==
  \A f \in Flows :
    flow[f].step \in {"profile", "create"} =>
      \/ flow[f].acct = authUser
      \/ authUser = None /\ flow[f].acct \in deleted

(* The profile is that of the current user or of a deleted account, and    *)
(* behind a sheet it is never the current user's.                          *)
ProfileInv ==
  /\ appUser # None => appUser = authUser \/ appUser \in deleted
  /\ sheet # "none" => appUser = None \/ appUser \in deleted

(* The set-up page is for an account without a document, and as long as    *)
(* its setData is not under way it has none queued either.                 *)
SetUpInv ==
  /\ NeverOverwritten
  /\ sheet = "setUp" /\ (\A f \in Flows : flow[f].step # "create")
       => authUser \notin docs \cup pending

SessionInv == HudInv /\ CurrentInv /\ ProfileInv /\ SetUpInv

LEMMA SessionInit == Init => SessionInv
BY NoneAssumption
   DEF Init, SessionInv, HudInv, CurrentInv, ProfileInv, SetUpInv, OneHolder,
       Busy, HudSteps, Idle, NeverOverwritten

(* While nothing covers the window, no operation is busy.                  *)
LEMMA NobodyBusy ==
  ASSUME HudInv, ~hud
  PROVE  \A f \in Flows : flow[f].step \notin HudSteps
BY DEF HudInv, Busy

(* A busy operation is alone.                                              *)
LEMMA Alone ==
  ASSUME HudInv, NEW f \in Flows, flow[f].step \in HudSteps
  PROVE  \A g \in Flows \ {f} : flow[g].step \notin HudSteps
BY DEF HudInv, OneHolder

LEMMA NewStep ==
  ASSUME TypeOK, NEW f \in Flows, NEW s, NEW a, Step(f, s, a)
  PROVE  /\ flow'[f] = [step |-> s, acct |-> a]
         /\ \A g \in Flows \ {f} : flow'[g] = flow[g]
BY DEF TypeOK, Step

LEMMA NewEnd ==
  ASSUME TypeOK, NEW f \in Flows, End(f)
  PROVE  /\ flow'[f].step = "idle"
         /\ \A g \in Flows \ {f} : flow'[g] = flow[g]
BY DEF TypeOK, End, Idle

LEMMA SessAuthFails ==
  ASSUME TypeOK, SessionInv, NEW f \in Flows, AuthFails(f)
  PROVE  SessionInv'
<1> USE DEF accountVars, uiVars, hudVars, HudSteps
<1>0. HudInv /\ CurrentInv /\ ProfileInv /\ SetUpInv
  BY DEF SessionInv
<1>a. /\ flow[f].step \in HudSteps
      /\ \A g \in Flows \ {f} : flow[g].step \notin HudSteps
  BY <1>0, Alone DEF AuthFails, Waits
<1>b. /\ flow'[f].step = "idle"
      /\ \A g \in Flows \ {f} : flow'[g] = flow[g]
  BY NewEnd DEF AuthFails
<1>1. HudInv'
  BY <1>0, <1>a, <1>b
     DEF HudInv, OneHolder, Busy, AuthFails, Waits, Hide, TypeOK
<1>2. CurrentInv'
  BY <1>0, <1>a, <1>b
     DEF CurrentInv, AuthFails, Waits, Hide, TypeOK
<1>3. ProfileInv'
  BY <1>0, <1>a, <1>b
     DEF ProfileInv, AuthFails, Waits, Hide, TypeOK
<1>4. SetUpInv'
  BY <1>0, <1>a, <1>b
     DEF SetUpInv, NeverOverwritten, AuthFails, Waits, Hide, TypeOK
<1> QED BY <1>1, <1>2, <1>3, <1>4 DEF SessionInv

LEMMA SessProfileFound ==
  ASSUME TypeOK, SessionInv, NEW f \in Flows, ProfileFound(f)
  PROVE  SessionInv'
<1> USE DEF accountVars, uiVars, hudVars, HudSteps
<1>0. HudInv /\ CurrentInv /\ ProfileInv /\ SetUpInv
  BY DEF SessionInv
<1>a. /\ flow[f].step \in HudSteps
      /\ \A g \in Flows \ {f} : flow[g].step \notin HudSteps
  BY <1>0, Alone DEF ProfileFound, Waits
<1>b. /\ flow'[f].step = "idle"
      /\ \A g \in Flows \ {f} : flow'[g] = flow[g]
  BY NewEnd DEF ProfileFound
<1>c. sheet = "signIn" /\ delegate
  BY <1>0 DEF HudInv, ProfileFound, Waits
<1>d. \/ flow[f].acct = authUser
      \/ authUser = None /\ flow[f].acct \in deleted
  BY <1>0 DEF CurrentInv, ProfileFound, Waits
<1>1. HudInv'
  BY <1>0, <1>a, <1>b, <1>c, <1>d
     DEF HudInv, OneHolder, Busy, ProfileFound, Waits, Hide, TypeOK
<1>2. CurrentInv'
  BY <1>0, <1>a, <1>b, <1>c, <1>d
     DEF CurrentInv, ProfileFound, Waits, Hide, TypeOK
<1>3. ProfileInv'
  BY <1>0, <1>a, <1>b, <1>c, <1>d
     DEF ProfileInv, ProfileFound, Waits, Hide, TypeOK
<1>4. SetUpInv'
  BY <1>0, <1>a, <1>b, <1>c, <1>d
     DEF SetUpInv, NeverOverwritten, ProfileFound, Waits, Hide, TypeOK
<1> QED BY <1>1, <1>2, <1>3, <1>4 DEF SessionInv

LEMMA SessProfileEmpty ==
  ASSUME TypeOK, SessionInv, NEW f \in Flows, ProfileEmpty(f)
  PROVE  SessionInv'
<1> USE DEF accountVars, uiVars, hudVars, HudSteps
<1>0. HudInv /\ CurrentInv /\ ProfileInv /\ SetUpInv
  BY DEF SessionInv
<1>a. /\ flow[f].step \in HudSteps
      /\ \A g \in Flows \ {f} : flow[g].step \notin HudSteps
  BY <1>0, Alone DEF ProfileEmpty, Waits
<1>b. /\ flow'[f].step = "idle"
      /\ \A g \in Flows \ {f} : flow'[g] = flow[g]
  BY NewEnd DEF ProfileEmpty
<1>c. sheet = "signIn"
  BY <1>0 DEF HudInv, ProfileEmpty, Waits
<1>d. \/ flow[f].acct = authUser
      \/ authUser = None /\ flow[f].acct \in deleted
  BY <1>0 DEF CurrentInv, ProfileEmpty, Waits
<1>1. HudInv'
  BY <1>0, <1>a, <1>b, <1>c, <1>d
     DEF HudInv, OneHolder, Busy, ProfileEmpty, Waits, Hide, TypeOK, HasProfile
<1>2. CurrentInv'
  BY <1>0, <1>a, <1>b, <1>c, <1>d
     DEF CurrentInv, ProfileEmpty, Waits, Hide, TypeOK, HasProfile
<1>3. ProfileInv'
  BY <1>0, <1>a, <1>b, <1>c, <1>d
     DEF ProfileInv, ProfileEmpty, Waits, Hide, TypeOK, HasProfile
<1>4. SetUpInv'
  BY <1>0, <1>a, <1>b, <1>c, <1>d, NoneAssumption
     DEF SetUpInv, NeverOverwritten, ProfileEmpty, Waits, Hide, TypeOK, HasProfile
<1> QED BY <1>1, <1>2, <1>3, <1>4 DEF SessionInv

LEMMA SessProfileFails ==
  ASSUME TypeOK, SessionInv, NEW f \in Flows, ProfileFails(f)
  PROVE  SessionInv'
<1> USE DEF accountVars, uiVars, hudVars, HudSteps
<1>0. HudInv /\ CurrentInv /\ ProfileInv /\ SetUpInv
  BY DEF SessionInv
<1>a. /\ flow[f].step \in HudSteps
      /\ \A g \in Flows \ {f} : flow[g].step \notin HudSteps
  BY <1>0, Alone DEF ProfileFails, Waits
<1>b. /\ flow'[f].step = "idle"
      /\ \A g \in Flows \ {f} : flow'[g] = flow[g]
  BY NewEnd DEF ProfileFails
<1>1. HudInv'
  BY <1>0, <1>a, <1>b
     DEF HudInv, OneHolder, Busy, ProfileFails, Waits, Hide, TypeOK
<1>2. CurrentInv'
  BY <1>0, <1>a, <1>b
     DEF CurrentInv, ProfileFails, Waits, Hide, TypeOK
<1>3. ProfileInv'
  BY <1>0, <1>a, <1>b
     DEF ProfileInv, ProfileFails, Waits, Hide, TypeOK
<1>4. SetUpInv'
  BY <1>0, <1>a, <1>b
     DEF SetUpInv, NeverOverwritten, ProfileFails, Waits, Hide, TypeOK
<1> QED BY <1>1, <1>2, <1>3, <1>4 DEF SessionInv

LEMMA SessUploadFails ==
  ASSUME TypeOK, SessionInv, NEW f \in Flows, UploadFails(f)
  PROVE  SessionInv'
<1> USE DEF accountVars, uiVars, hudVars, HudSteps
<1>0. HudInv /\ CurrentInv /\ ProfileInv /\ SetUpInv
  BY DEF SessionInv
<1>a. /\ flow[f].step \in HudSteps
      /\ \A g \in Flows \ {f} : flow[g].step \notin HudSteps
  BY <1>0, Alone DEF UploadFails, Waits
<1>b. /\ flow'[f].step = "idle"
      /\ \A g \in Flows \ {f} : flow'[g] = flow[g]
  BY NewEnd DEF UploadFails
<1>1. HudInv'
  BY <1>0, <1>a, <1>b
     DEF HudInv, OneHolder, Busy, UploadFails, Waits, Hide, TypeOK
<1>2. CurrentInv'
  BY <1>0, <1>a, <1>b
     DEF CurrentInv, UploadFails, Waits, Hide, TypeOK
<1>3. ProfileInv'
  BY <1>0, <1>a, <1>b
     DEF ProfileInv, UploadFails, Waits, Hide, TypeOK
<1>4. SetUpInv'
  BY <1>0, <1>a, <1>b
     DEF SetUpInv, NeverOverwritten, UploadFails, Waits, Hide, TypeOK
<1> QED BY <1>1, <1>2, <1>3, <1>4 DEF SessionInv

LEMMA SessCreateAnswered ==
  ASSUME TypeOK, SessionInv, NEW f \in Flows, NEW b \in BOOLEAN,
         CreateAnswered(f, b)
  PROVE  SessionInv'
<1> USE DEF accountVars, uiVars, hudVars, HudSteps
<1>0. HudInv /\ CurrentInv /\ ProfileInv /\ SetUpInv
  BY DEF SessionInv
<1>a. /\ flow[f].step \in HudSteps
      /\ \A g \in Flows \ {f} : flow[g].step \notin HudSteps
  BY <1>0, Alone DEF CreateAnswered, Waits
<1>b. /\ flow'[f].step = "idle"
      /\ \A g \in Flows \ {f} : flow'[g] = flow[g]
  BY NewEnd DEF CreateAnswered
<1>c. sheet = "setUp"
  BY <1>0 DEF HudInv, CreateAnswered, Waits
<1>1. HudInv'
  BY <1>0, <1>a, <1>b, <1>c
     DEF HudInv, OneHolder, Busy, CreateAnswered, Waits, Hide, TypeOK
<1>2. CurrentInv'
  BY <1>0, <1>a, <1>b, <1>c
     DEF CurrentInv, CreateAnswered, Waits, Hide, TypeOK
<1>3. ProfileInv'
  BY <1>0, <1>a, <1>b, <1>c
     DEF ProfileInv, CreateAnswered, Waits, Hide, TypeOK
<1>4. SetUpInv'
  BY <1>0, <1>a, <1>b, <1>c
     DEF SetUpInv, NeverOverwritten, CreateAnswered, Waits, Hide, TypeOK
<1> QED BY <1>1, <1>2, <1>3, <1>4 DEF SessionInv

LEMMA SessBlockAnswered ==
  ASSUME TypeOK, SessionInv, NEW f \in Flows, NEW b \in BOOLEAN,
         BlockAnswered(f, b)
  PROVE  SessionInv'
<1> USE DEF accountVars, uiVars, hudVars, HudSteps
<1>0. HudInv /\ CurrentInv /\ ProfileInv /\ SetUpInv
  BY DEF SessionInv
<1>a. /\ flow[f].step \in HudSteps
      /\ \A g \in Flows \ {f} : flow[g].step \notin HudSteps
  BY <1>0, Alone DEF BlockAnswered, Waits
<1>b. /\ flow'[f].step = "idle"
      /\ \A g \in Flows \ {f} : flow'[g] = flow[g]
  BY NewEnd DEF BlockAnswered
<1>1. HudInv'
  BY <1>0, <1>a, <1>b
     DEF HudInv, OneHolder, Busy, BlockAnswered, Waits, Hide, TypeOK
<1>2. CurrentInv'
  BY <1>0, <1>a, <1>b
     DEF CurrentInv, BlockAnswered, Waits, Hide, TypeOK
<1>3. ProfileInv'
  BY <1>0, <1>a, <1>b
     DEF ProfileInv, BlockAnswered, Waits, Hide, TypeOK
<1>4. SetUpInv'
  BY <1>0, <1>a, <1>b
     DEF SetUpInv, NeverOverwritten, BlockAnswered, Waits, Hide, TypeOK
<1> QED BY <1>1, <1>2, <1>3, <1>4 DEF SessionInv

LEMMA SessAuthSucceeds ==
  ASSUME TypeOK, SessionInv, NEW f \in Flows, AuthSucceeds(f)
  PROVE  SessionInv'
<1> USE DEF accountVars, uiVars, hudVars, HudSteps
<1>0. HudInv /\ CurrentInv /\ ProfileInv /\ SetUpInv
  BY DEF SessionInv
<1>a. /\ flow[f].step \in HudSteps
      /\ \A g \in Flows \ {f} : flow[g].step \notin HudSteps
  BY <1>0, Alone DEF AuthSucceeds, Waits
<1>b. /\ flow'[f] = [step |-> "profile", acct |-> flow[f].acct]
      /\ \A g \in Flows \ {f} : flow'[g] = flow[g]
  BY NewStep DEF AuthSucceeds
<1>c. sheet = "signIn"
  BY <1>0 DEF HudInv, AuthSucceeds, Waits
<1>1. HudInv'
  BY <1>0, <1>a, <1>b, <1>c
     DEF HudInv, OneHolder, Busy, AuthSucceeds, Waits, TypeOK
<1>2. CurrentInv'
  BY <1>0, <1>a, <1>b, <1>c
     DEF CurrentInv, AuthSucceeds, Waits, TypeOK
<1>3. ProfileInv'
  BY <1>0, <1>a, <1>b, <1>c
     DEF ProfileInv, AuthSucceeds, Waits, TypeOK
<1>4. SetUpInv'
  BY <1>0, <1>a, <1>b, <1>c
     DEF SetUpInv, NeverOverwritten, AuthSucceeds, Waits, TypeOK
<1> QED BY <1>1, <1>2, <1>3, <1>4 DEF SessionInv

LEMMA SessUploadSucceeds ==
  ASSUME TypeOK, SessionInv, NEW f \in Flows, UploadSucceeds(f)
  PROVE  SessionInv'
<1> USE DEF accountVars, uiVars, hudVars, HudSteps
<1>0. HudInv /\ CurrentInv /\ ProfileInv /\ SetUpInv
  BY DEF SessionInv
<1>a. /\ flow[f].step \in HudSteps
      /\ \A g \in Flows \ {f} : flow[g].step \notin HudSteps
  BY <1>0, Alone DEF UploadSucceeds, Waits
<1>b. \/ /\ flow'[f] = [step |-> "create", acct |-> authUser]
         /\ \A g \in Flows \ {f} : flow'[g] = flow[g]
      \/ flow' = flow
  BY NewStep DEF UploadSucceeds
<1>c. sheet = "setUp"
  BY <1>0 DEF HudInv, UploadSucceeds, Waits
<1>1. HudInv'
  BY <1>0, <1>a, <1>b, <1>c
     DEF HudInv, OneHolder, Busy, UploadSucceeds, Waits, TypeOK
<1>2. CurrentInv'
  BY <1>0, <1>a, <1>b, <1>c
     DEF CurrentInv, UploadSucceeds, Waits, TypeOK
<1>3. ProfileInv'
  BY <1>0, <1>a, <1>b, <1>c
     DEF ProfileInv, UploadSucceeds, Waits, TypeOK
<1>4. SetUpInv'
  <2>1. authUser \notin docs \cup pending
    BY <1>0, <1>a, <1>c DEF SetUpInv, UploadSucceeds, Waits
  <2>2. CASE authUser = None
    BY <1>0, <2>1, <2>2 DEF SetUpInv, NeverOverwritten, UploadSucceeds
  <2>3. CASE authUser # None
    <3>0. Step(f, "create", authUser)
      BY <2>3 DEF UploadSucceeds
    <3>1. flow'[f].step = "create"
      BY <3>0 DEF Step, TypeOK
    <3>2. NeverOverwritten'
      BY <1>0, <2>1 DEF SetUpInv, NeverOverwritten, UploadSucceeds
    <3> QED BY <3>1, <3>2 DEF SetUpInv
  <2> QED BY <2>2, <2>3
<1> QED BY <1>1, <1>2, <1>3, <1>4 DEF SessionInv

LEMMA SessDeleteSucceeds ==
  ASSUME TypeOK, SessionInv, NEW f \in Flows, DeleteSucceeds(f)
  PROVE  SessionInv'
<1> USE DEF accountVars, uiVars, hudVars, HudSteps
<1>0. HudInv /\ CurrentInv /\ ProfileInv /\ SetUpInv
  BY DEF SessionInv
<1>a. /\ flow'[f].step = "idle"
      /\ \A g \in Flows \ {f} : flow'[g] = flow[g]
  BY NewEnd DEF DeleteSucceeds
<1>b. flow[f].step \notin HudSteps
  BY DEF DeleteSucceeds, Waits
<1>1. HudInv'
  BY <1>0, <1>a, <1>b
     DEF HudInv, OneHolder, Busy, DeleteSucceeds, Waits, TypeOK, Users
<1>2. CurrentInv'
  BY <1>0, <1>a, <1>b
     DEF CurrentInv, DeleteSucceeds, Waits, TypeOK, Users
<1>3. ProfileInv'
  BY <1>0, <1>a, <1>b
     DEF ProfileInv, DeleteSucceeds, Waits, TypeOK, Users
<1>4. SetUpInv'
  BY <1>0, <1>a, <1>b, NoneAssumption
     DEF SetUpInv, NeverOverwritten, DeleteSucceeds, Waits, TypeOK, Users
<1> QED BY <1>1, <1>2, <1>3, <1>4 DEF SessionInv

LEMMA SessDeleteFails ==
  ASSUME TypeOK, SessionInv, NEW f \in Flows, DeleteFails(f)
  PROVE  SessionInv'
<1> USE DEF accountVars, uiVars, hudVars, HudSteps
<1>0. HudInv /\ CurrentInv /\ ProfileInv /\ SetUpInv
  BY DEF SessionInv
<1>a. /\ flow'[f].step = "idle"
      /\ \A g \in Flows \ {f} : flow'[g] = flow[g]
  BY NewEnd DEF DeleteFails
<1>b. flow[f].step \notin HudSteps
  BY DEF DeleteFails, Waits
<1>1. HudInv'
  BY <1>0, <1>a, <1>b
     DEF HudInv, OneHolder, Busy, DeleteFails, Waits, TypeOK, Users
<1>2. CurrentInv'
  BY <1>0, <1>a, <1>b
     DEF CurrentInv, DeleteFails, Waits, TypeOK, Users
<1>3. ProfileInv'
  BY <1>0, <1>a, <1>b
     DEF ProfileInv, DeleteFails, Waits, TypeOK, Users
<1>4. SetUpInv'
  BY <1>0, <1>a, <1>b
     DEF SetUpInv, NeverOverwritten, DeleteFails, Waits, TypeOK, Users
<1> QED BY <1>1, <1>2, <1>3, <1>4 DEF SessionInv

LEMMA SessSignIn ==
  ASSUME TypeOK, SessionInv, HudReliable,
         NEW f \in Flows, NEW a \in Accounts, SignIn(f, a)
  PROVE  SessionInv'
<1> USE DEF accountVars, uiVars, hudVars, HudSteps
<1>0. HudInv /\ CurrentInv /\ ProfileInv /\ SetUpInv
  BY DEF SessionInv
<1>a. \A g \in Flows : flow[g].step \notin HudSteps
  BY <1>0, NobodyBusy DEF SignIn, Touchable
<1>b. /\ flow'[f] = [step |-> "auth", acct |-> a]
      /\ \A g \in Flows \ {f} : flow'[g] = flow[g]
  BY NewStep DEF SignIn
<1>1. HudInv'
  BY <1>0, <1>a, <1>b
     DEF HudInv, OneHolder, Busy, SignIn, Show, Idle
<1>2. CurrentInv'
  BY <1>0, <1>a, <1>b
     DEF CurrentInv, SignIn, Show, Idle
<1>3. ProfileInv'
  BY <1>0, <1>a, <1>b
     DEF ProfileInv, SignIn, Show, Idle
<1>4. SetUpInv'
  BY <1>0, <1>a, <1>b
     DEF SetUpInv, NeverOverwritten, SignIn, Show, Idle
<1> QED BY <1>1, <1>2, <1>3, <1>4 DEF SessionInv

LEMMA SessTapNext ==
  ASSUME TypeOK, SessionInv, HudReliable, NEW f \in Flows, TapNext(f)
  PROVE  SessionInv'
<1> USE DEF accountVars, uiVars, hudVars, HudSteps
<1>0. HudInv /\ CurrentInv /\ ProfileInv /\ SetUpInv
  BY DEF SessionInv
<1>a. \A g \in Flows : flow[g].step \notin HudSteps
  BY <1>0, NobodyBusy DEF TapNext, Touchable
<1>b. \/ /\ flow'[f] = [step |-> "upload", acct |-> authUser]
         /\ \A g \in Flows \ {f} : flow'[g] = flow[g]
         /\ hud'
      \/ flow' = flow
  BY NewStep DEF TapNext, Show
<1>1. HudInv'
  BY <1>0, <1>a, <1>b
     DEF HudInv, OneHolder, Busy, TapNext, Idle
<1>2. CurrentInv'
  BY <1>0, <1>a, <1>b
     DEF CurrentInv, TapNext, Idle
<1>3. ProfileInv'
  BY <1>0, <1>a, <1>b
     DEF ProfileInv, TapNext, Idle
<1>4. SetUpInv'
  BY <1>0, <1>a, <1>b
     DEF SetUpInv, NeverOverwritten, TapNext, Idle
<1> QED BY <1>1, <1>2, <1>3, <1>4 DEF SessionInv

LEMMA SessBlock ==
  ASSUME TypeOK, SessionInv, HudReliable, NEW f \in Flows, Block(f)
  PROVE  SessionInv'
<1> USE DEF accountVars, uiVars, hudVars, HudSteps
<1>0. HudInv /\ CurrentInv /\ ProfileInv /\ SetUpInv
  BY DEF SessionInv
<1>a. \A g \in Flows : flow[g].step \notin HudSteps
  BY <1>0, NobodyBusy DEF Block, Touchable
<1>b. \/ /\ flow'[f] = [step |-> "block", acct |-> appUser]
         /\ \A g \in Flows \ {f} : flow'[g] = flow[g]
         /\ hud'
      \/ flow' = flow
  BY NewStep DEF Block, Show
<1>1. HudInv'
  BY <1>0, <1>a, <1>b
     DEF HudInv, OneHolder, Busy, Block, Idle
<1>2. CurrentInv'
  BY <1>0, <1>a, <1>b
     DEF CurrentInv, Block, Idle
<1>3. ProfileInv'
  BY <1>0, <1>a, <1>b
     DEF ProfileInv, Block, Idle
<1>4. SetUpInv'
  BY <1>0, <1>a, <1>b
     DEF SetUpInv, NeverOverwritten, Block, Idle
<1> QED BY <1>1, <1>2, <1>3, <1>4 DEF SessionInv

LEMMA SessDeleteAccount ==
  ASSUME TypeOK, SessionInv, NEW f \in Flows, DeleteAccount(f)
  PROVE  SessionInv'
<1> USE DEF accountVars, uiVars, hudVars, HudSteps
<1>0. HudInv /\ CurrentInv /\ ProfileInv /\ SetUpInv
  BY DEF SessionInv
<1>a. \A g \in Flows : flow[g].step \notin HudSteps
  BY <1>0, NobodyBusy DEF DeleteAccount, Touchable
<1>b. /\ flow'[f] = [step |-> "delete", acct |-> authUser]
      /\ \A g \in Flows \ {f} : flow'[g] = flow[g]
  BY NewStep DEF DeleteAccount
<1>1. HudInv'
  BY <1>0, <1>a, <1>b
     DEF HudInv, OneHolder, Busy, DeleteAccount, Idle
<1>2. CurrentInv'
  BY <1>0, <1>a, <1>b
     DEF CurrentInv, DeleteAccount, Idle
<1>3. ProfileInv'
  BY <1>0, <1>a, <1>b
     DEF ProfileInv, DeleteAccount, Idle
<1>4. SetUpInv'
  BY <1>0, <1>a, <1>b
     DEF SetUpInv, NeverOverwritten, DeleteAccount, Idle
<1> QED BY <1>1, <1>2, <1>3, <1>4 DEF SessionInv

LEMMA SessSheet ==
  ASSUME TypeOK, SessionInv, ShowSignInPage \/ SwipeSheet
  PROVE  SessionInv'
<1> USE DEF accountVars, uiVars, hudVars, HudSteps
<1>0. HudInv /\ CurrentInv /\ ProfileInv /\ SetUpInv
  BY DEF SessionInv
<1>a. /\ flow' = flow
      /\ \A g \in Flows : flow[g].step \notin HudSteps
  BY <1>0, NobodyBusy DEF ShowSignInPage, SwipeSheet, Touchable
<1>1. HudInv'
  BY <1>0, <1>a
     DEF HudInv, OneHolder, Busy, ShowSignInPage, SwipeSheet, isLogin
<1>2. CurrentInv'
  BY <1>0, <1>a
     DEF CurrentInv, ShowSignInPage, SwipeSheet, isLogin
<1>3. ProfileInv'
  BY <1>0, <1>a
     DEF ProfileInv, ShowSignInPage, SwipeSheet, isLogin
<1>4. SetUpInv'
  BY <1>0, <1>a
     DEF SetUpInv, NeverOverwritten, ShowSignInPage, SwipeSheet, isLogin
<1> QED BY <1>1, <1>2, <1>3, <1>4 DEF SessionInv

LEMMA SessPending ==
  ASSUME TypeOK, SessionInv, NEW a \in Accounts, NEW b \in BOOLEAN,
         PendingAnswered(a, b)
  PROVE  SessionInv'
<1> USE DEF accountVars, uiVars, hudVars, HudSteps
<1>0. HudInv /\ CurrentInv /\ ProfileInv /\ SetUpInv
  BY DEF SessionInv
<1>a. flow \in [Flows -> [step : Steps, acct : Users]]
  BY DEF TypeOK
<1>b. \A f \in Flows : flow[f].step = "create" => flow[f].acct # authUser
  BY <1>a DEF PendingAnswered
<1>1. HudInv'
  BY <1>0, <1>a, <1>b
     DEF HudInv, OneHolder, Busy, PendingAnswered, TypeOK
<1>2. CurrentInv'
  BY <1>0, <1>a, <1>b
     DEF CurrentInv, PendingAnswered, TypeOK
<1>3. ProfileInv'
  BY <1>0, <1>a, <1>b
     DEF ProfileInv, PendingAnswered, TypeOK
<1>4. SetUpInv'
  BY <1>0, <1>a, <1>b
     DEF SetUpInv, NeverOverwritten, PendingAnswered, TypeOK
<1> QED BY <1>1, <1>2, <1>3, <1>4 DEF SessionInv

LEMMA SessTab ==
  ASSUME TypeOK, SessionInv, \/ \E t \in {"home", "member"} : SelectTab(t)
         \/ OpenCreator \/ Back \/ UNCHANGED vars
  PROVE  SessionInv'
<1> USE DEF accountVars, uiVars, hudVars, HudSteps
<1>0. HudInv /\ CurrentInv /\ ProfileInv /\ SetUpInv
  BY DEF SessionInv
<1>1. HudInv'
  BY <1>0
     DEF HudInv, OneHolder, Busy, SelectTab, OpenCreator, Back, vars
<1>2. CurrentInv'
  BY <1>0
     DEF CurrentInv, SelectTab, OpenCreator, Back, vars
<1>3. ProfileInv'
  BY <1>0
     DEF ProfileInv, SelectTab, OpenCreator, Back, vars
<1>4. SetUpInv'
  BY <1>0
     DEF SetUpInv, NeverOverwritten, SelectTab, OpenCreator, Back, vars
<1> QED BY <1>1, <1>2, <1>3, <1>4 DEF SessionInv

LEMMA SessSignOut ==
  ASSUME TypeOK, SessionInv, SignOut
  PROVE  SessionInv'
<1> USE DEF accountVars, uiVars, hudVars, HudSteps
<1>0. HudInv /\ CurrentInv /\ ProfileInv /\ SetUpInv
  BY DEF SessionInv
<1>a. \A g \in Flows : flow[g].step \notin HudSteps
  BY <1>0, NobodyBusy DEF SignOut, Touchable
<1>1. HudInv'
  BY <1>0, <1>a
     DEF HudInv, OneHolder, Busy, SignOut, TypeOK
<1>2. CurrentInv'
  BY <1>0, <1>a
     DEF CurrentInv, SignOut, TypeOK
<1>3. ProfileInv'
  BY <1>0, <1>a
     DEF ProfileInv, SignOut, TypeOK
<1>4. SetUpInv'
  BY <1>0, <1>a
     DEF SetUpInv, NeverOverwritten, SignOut, TypeOK
<1> QED BY <1>1, <1>2, <1>3, <1>4 DEF SessionInv

LEMMA SessRestart ==
  ASSUME TypeOK, SessionInv, Restart
  PROVE  SessionInv'
<1> USE DEF accountVars, uiVars, hudVars, HudSteps
<1>0. HudInv /\ CurrentInv /\ ProfileInv /\ SetUpInv
  BY DEF SessionInv
<1>a. \A f \in Flows : flow'[f] = Idle
  BY DEF Restart
<1>1. HudInv'
  BY <1>0, <1>a
     DEF HudInv, OneHolder, Busy, Restart, Hide, Idle
<1>2. CurrentInv'
  BY <1>0, <1>a
     DEF CurrentInv, Restart, Hide, Idle
<1>3. ProfileInv'
  BY <1>0, <1>a
     DEF ProfileInv, Restart, Hide, Idle
<1>4. SetUpInv'
  BY <1>0, <1>a
     DEF SetUpInv, NeverOverwritten, Restart, Hide, Idle
<1> QED BY <1>1, <1>2, <1>3, <1>4 DEF SessionInv

LEMMA SessionStep ==
  ASSUME HudReliable
  PROVE  TypeOK /\ SessionInv /\ [Next]_vars => SessionInv'
<1> SUFFICES ASSUME TypeOK, SessionInv, [Next]_vars PROVE SessionInv'
  OBVIOUS
<1>1. CASE Calm
  BY <1>1, SessSheet, SessPending, SessTab, SessSignOut DEF Calm
<1>2. CASE Restart
  BY <1>2, SessRestart
<1>3. ASSUME NEW f \in Flows, Touches(f) PROVE SessionInv'
  BY <1>3, SessSignIn, SessTapNext, SessBlock, SessDeleteAccount DEF Touches
<1>4. ASSUME NEW f \in Flows, Callbacks(f) PROVE SessionInv'
  BY <1>4, SessAuthFails, SessAuthSucceeds, SessProfileFound,
     SessProfileEmpty, SessProfileFails, SessUploadFails, SessUploadSucceeds,
     SessCreateAnswered, SessBlockAnswered, SessDeleteSucceeds,
     SessDeleteFails DEF Callbacks
<1> QED BY <1>1, <1>2, <1>3, <1>4, NextSplit

LEMMA SessionInvariant ==
  ASSUME HudReliable
  PROVE  Spec => []SessionInv
<1>1. TypeOK /\ SessionInv /\ [Next]_vars => SessionInv'
  BY SessionStep
<1> QED BY <1>1, SessionInit, SessionTypes, PTL DEF Spec

(* Where every show() finds its window, two operations never run under     *)
(* the HUD at once (OneHolder).                                            *)
THEOREM OneOperation == ASSUME HudReliable PROVE Spec => []OneHolder
<1>1. SessionInv => OneHolder
  BY DEF SessionInv, HudInv
<1> QED BY <1>1, SessionInvariant, PTL

(* Where every show() finds its window, a login sees its own profile or    *)
(* that of a deleted account, and of nobody else (OwnProfile).             *)
THEOREM OwnProfileAlways == ASSUME HudReliable PROVE Spec => []OwnProfile
<1>1. SessionInv => OwnProfile
  BY DEF SessionInv, ProfileInv, OwnProfile, isLogin
<1> QED BY <1>1, SessionInvariant, PTL

(* Where every show() finds its window, set-up never replaces the document *)
(* of an account that has one (NeverOverwritten).                          *)
THEOREM SetUpSafe == ASSUME HudReliable PROVE Spec => []NeverOverwritten
<1>1. SessionInv => NeverOverwritten
  BY DEF SessionInv, SetUpInv
<1> QED BY <1>1, SessionInvariant, PTL

-----------------------------------------------------------------------------
(* The document behind a login *)

(* A set-up that waits for its answer has its write in the queue: nobody   *)
(* else's answer takes it out.                                             *)
CreateQueued ==
  \A f \in Flows : flow[f].step = "create" => flow[f].acct \in pending

LEMMA CreateQueuedStep ==
  ASSUME TypeOK, SessionInv, CreateQueued, [Next]_vars
  PROVE  CreateQueued'
<1> USE DEF CreateQueued, accountVars
<1>0. HudInv
  BY DEF SessionInv
<1>1. CASE Calm
  <2>1. flow' = flow
    BY <1>1, TypeCalm
  <2>2. ASSUME NEW a \in Accounts, NEW b \in BOOLEAN, PendingAnswered(a, b),
               NEW f \in Flows, flow[f].step = "create"
        PROVE  flow[f].acct \in pending'
    <3>1. flow[f].acct # a
      BY <2>2 DEF PendingAnswered, TypeOK
    <3> QED BY <2>2, <3>1 DEF PendingAnswered
  <2>3. (\A a \in Accounts, b \in BOOLEAN : ~PendingAnswered(a, b)) => pending' = pending
    BY <1>1 DEF Calm, ShowSignInPage, SwipeSheet, SelectTab, OpenCreator, Back,
               SignOut, vars
  <2> QED BY <2>1, <2>2, <2>3
<1>2. CASE Restart
  BY <1>2 DEF Restart, Idle
<1>3. ASSUME NEW f \in Flows, Touches(f) PROVE CreateQueued'
  <2>1. pending' = pending
    BY <1>3 DEF Touches, SignIn, TapNext, Block, DeleteAccount
  <2>2. flow' = flow \/ (flow'[f].step # "create" /\ \A g \in Flows \ {f} : flow'[g] = flow[g])
    <3>1. flow' = flow \/ \E s \in {"auth", "upload", "block", "delete"} :
                              \E a : Step(f, s, a)
      BY <1>3 DEF Touches, SignIn, TapNext, Block, DeleteAccount
    <3>2. ASSUME NEW s \in {"auth", "upload", "block", "delete"}, NEW a, Step(f, s, a)
          PROVE  flow'[f].step # "create" /\ \A g \in Flows \ {f} : flow'[g] = flow[g]
      <4>1. flow'[f] = [step |-> s, acct |-> a]
        BY <3>2, NewStep
      <4> QED BY <3>2, <4>1, NewStep
    <3> QED BY <3>1, <3>2
  <2> QED BY <2>1, <2>2
<1>4. ASSUME NEW f \in Flows, Callbacks(f) PROVE CreateQueued'
  <2>1. CASE UploadSucceeds(f)
    <3>1. pending \subseteq pending'
      BY <2>1 DEF UploadSucceeds
    <3>2. CASE authUser # None
      <4>1. authUser \in pending' /\ Step(f, "create", authUser)
        BY <2>1, <3>2 DEF UploadSucceeds
      <4>2. flow'[f].acct = authUser /\ \A g \in Flows \ {f} : flow'[g] = flow[g]
        <5>1. flow'[f] = [step |-> "create", acct |-> authUser]
          BY <4>1, NewStep
        <5> QED BY <4>1, <5>1, NewStep
      <4> QED BY <3>1, <4>1, <4>2
    <3>3. CASE authUser = None
      BY <2>1, <3>1, <3>3 DEF UploadSucceeds
    <3> QED BY <3>2, <3>3
  <2>2. ASSUME NEW b \in BOOLEAN, CreateAnswered(f, b) PROVE CreateQueued'
    <3>1. \A g \in Flows \ {f} : flow[g].step # "create"
      BY <1>0, <2>2, Alone DEF CreateAnswered, Waits, HudSteps
    <3> QED BY <2>2, <3>1, NewEnd DEF CreateAnswered
  <2>3. ASSUME ~UploadSucceeds(f), \A b \in BOOLEAN : ~CreateAnswered(f, b)
        PROVE  CreateQueued'
    <3>1. pending' = pending
      BY <1>4, <2>3 DEF Callbacks, AuthFails, AuthSucceeds, ProfileFound, ProfileEmpty,
                       ProfileFails, UploadFails, BlockAnswered, DeleteSucceeds, DeleteFails
    <3>2. flow'[f].step # "create" /\ \A g \in Flows \ {f} : flow'[g] = flow[g]
      <4>1. End(f) \/ Step(f, "profile", flow[f].acct)
        BY <1>4, <2>3
        DEF Callbacks, AuthFails, AuthSucceeds, ProfileFound, ProfileEmpty,
            ProfileFails, UploadFails, BlockAnswered, DeleteSucceeds, DeleteFails
      <4>2. CASE End(f)
        BY <4>2, NewEnd
      <4>3. CASE Step(f, "profile", flow[f].acct)
        <5>1. flow'[f] = [step |-> "profile", acct |-> flow[f].acct]
          BY <4>3, NewStep
        <5> QED BY <4>3, <5>1, NewStep
      <4> QED BY <4>1, <4>2, <4>3
    <3> QED BY <3>1, <3>2
  <2> QED BY <2>1, <2>2, <2>3
<1> QED BY <1>1, <1>2, <1>3, <1>4, NextSplit

(* A step into a login without a document is the refusal of its set-up.    *)
LEMMA DocumentStep ==
  ASSUME TypeOK, SessionInv, CreateQueued, [Next]_vars, NoDocument'
  PROVE  NoDocument \/ Refused
<1> USE DEF NoDocument, isLogin, accountVars
<1>0. HudInv /\ CurrentInv /\ ProfileInv
  BY DEF SessionInv
<1>a. UNCHANGED accountVars => NoDocument
  OBVIOUS
<1>1. CASE Calm
  <2>1. ASSUME NEW a \in Accounts, NEW b \in BOOLEAN, PendingAnswered(a, b)
        PROVE  Refused
    BY <2>1 DEF PendingAnswered, Refused
  <2>2. CASE SignOut
    BY <2>2 DEF SignOut
  <2>3. ASSUME ~SignOut, \A a \in Accounts, b \in BOOLEAN : ~PendingAnswered(a, b)
        PROVE  UNCHANGED accountVars
    BY <1>1, <2>3 DEF Calm, ShowSignInPage, SwipeSheet, SelectTab, OpenCreator, Back, vars
  <2> QED BY <1>a, <2>1, <2>2, <2>3
<1>2. CASE Restart
  BY <1>2, <1>a DEF Restart
<1>3. ASSUME NEW f \in Flows, Touches(f) PROVE UNCHANGED accountVars
  BY <1>3 DEF Touches, SignIn, TapNext, Block, DeleteAccount
<1>4. ASSUME NEW f \in Flows, Callbacks(f) PROVE NoDocument \/ Refused
  (* Behind the sign-in page there is no profile, as nobody was deleted.   *)
  <2>1. CASE AuthSucceeds(f)
    <3>1. appUser = None \/ appUser \in deleted
      BY <1>0, <2>1 DEF AuthSucceeds, Waits, HudInv, ProfileInv
    <3> QED BY <2>1, <3>1 DEF AuthSucceeds
  <2>2. CASE ProfileFound(f)
    BY <1>0, <2>2 DEF ProfileFound, Waits, CurrentInv, HasProfile
  <2>3. CASE UploadSucceeds(f)
    BY <2>3 DEF UploadSucceeds
  <2>4. ASSUME NEW b \in BOOLEAN, CreateAnswered(f, b) PROVE Refused
    <3>1. flow[f].acct \in pending /\ authUser = flow[f].acct
      BY <2>4 DEF CreateQueued, CreateAnswered, Waits
    <3> QED BY <2>4, <3>1 DEF CreateAnswered, Refused
  <2>5. CASE DeleteSucceeds(f)
    BY <2>5 DEF DeleteSucceeds
  <2>6. ASSUME ~AuthSucceeds(f), ~ProfileFound(f), ~UploadSucceeds(f), ~DeleteSucceeds(f),
               \A b \in BOOLEAN : ~CreateAnswered(f, b)
        PROVE  UNCHANGED accountVars
    BY <1>4, <2>6 DEF Callbacks, AuthFails, ProfileEmpty, ProfileFails, UploadFails,
                     BlockAnswered, DeleteFails
  <2> QED BY <1>a, <2>1, <2>2, <2>3, <2>4, <2>5, <2>6
<1> QED BY <1>a, <1>1, <1>2, <1>3, <1>4, NextSplit

(* Where every show() finds its window and nobody deletes an account, a    *)
(* login without a document comes of a refused set-up only: signing in     *)
(* takes the profile of an account that has one, and behind the sign-in    *)
(* page no profile of the account before is left (LoginHasDocument).       *)
THEOREM LoginHasDocumentAlways ==
  ASSUME HudReliable PROVE Spec => LoginHasDocument
<1>1. Init => CreateQueued
  BY DEF Init, CreateQueued, Idle
<1>2. TypeOK /\ SessionInv /\ CreateQueued /\ [Next]_vars => CreateQueued'
  BY CreateQueuedStep
<1>3. TypeOK /\ SessionInv /\ CreateQueued /\ [Next]_vars
        => [NoDocument' => NoDocument \/ Refused]_vars
  BY DocumentStep
<1> QED BY <1>1, <1>2, <1>3, SessionTypes, SessionInvariant, PTL
        DEF Spec, LoginHasDocument

-----------------------------------------------------------------------------
(* The HUD is up only for an operation whose end hides it, or after one of *)
(* the returns that forget it: the safety behind HudReleased, deletions    *)
(* included, whether or not every HUD shows.                               *)
HudHeld == hud => stranded \/ \E f \in Flows : flow[f].step \in HudSteps

LEMMA HeldTouches ==
  ASSUME TypeOK, HudHeld, NEW f \in Flows, Touches(f) PROVE HudHeld'
<1>0. flow \in [Flows -> [step : Steps, acct : Users]]
  BY DEF TypeOK
<1>1. ASSUME NEW s \in HudSteps, NEW a, Step(f, s, a) PROVE HudHeld'
  BY <1>0, <1>1 DEF HudHeld, Step
<1>2. ASSUME NEW a \in Accounts, SignIn(f, a) PROVE HudHeld'
  BY <1>1, <1>2 DEF SignIn, HudSteps
<1>3. CASE TapNext(f) \/ Block(f)
  <2>1. CASE ShowAndStrand
    BY <1>3, <2>1 DEF TapNext, Block, ShowAndStrand, Touchable, hudVars, HudHeld
  <2>2. CASE Step(f, "upload", authUser)
    BY <1>1, <2>2 DEF HudSteps
  <2>3. CASE Step(f, "block", appUser)
    BY <1>1, <2>3 DEF HudSteps
  <2> QED  BY <1>3, <2>1, <2>2, <2>3 DEF TapNext, Block
<1>4. CASE DeleteAccount(f)
  BY <1>4 DEF DeleteAccount, Touchable, hudVars, HudHeld
<1> QED  BY <1>2, <1>3, <1>4 DEF Touches

LEMMA HeldCallbacks ==
  ASSUME TypeOK, HudHeld, NEW f \in Flows, Callbacks(f) PROVE HudHeld'
<1>0. flow \in [Flows -> [step : Steps, acct : Users]]
  BY DEF TypeOK
<1>1. CASE Hide
  BY <1>1 DEF Hide, HudHeld
<1>2. CASE AuthSucceeds(f)
  BY <1>0, <1>2 DEF AuthSucceeds, Waits, Step, HudSteps, HudHeld
<1>3. CASE UploadFails(f)
  BY <1>3 DEF UploadFails, HudHeld
<1>4. CASE UploadSucceeds(f)
  BY <1>0, <1>4 DEF UploadSucceeds, Waits, Step, HudSteps, HudHeld, hudVars
<1>5. CASE DeleteSucceeds(f) \/ DeleteFails(f)
  <2>1. UNCHANGED hudVars /\ flow[f].step = "delete" /\ flow' = [flow EXCEPT ![f] = Idle]
    BY <1>5 DEF DeleteSucceeds, DeleteFails, Waits, End, hudVars
  <2>2. \A g \in Flows : flow[g].step \in HudSteps => flow'[g] = flow[g]
    BY <1>0, <2>1 DEF HudSteps
  <2> QED  BY <2>1, <2>2 DEF HudHeld, hudVars
<1> QED  BY <1>1, <1>2, <1>3, <1>4, <1>5
         DEF Callbacks, AuthFails, ProfileFound, ProfileEmpty, ProfileFails, CreateAnswered,
             BlockAnswered

(* Every end of an operation hides the HUD, but for the two returns that   *)
(* are known to forget it.                                                 *)
THEOREM HudHeldAlways == Spec => []HudHeld
<1>1. Init => HudHeld
  BY DEF Init, HudHeld
<1>2. TypeOK /\ HudHeld /\ [Next]_vars => HudHeld'
  <2> SUFFICES ASSUME TypeOK, HudHeld, [Next]_vars PROVE HudHeld'
    OBVIOUS
  <2>1. ASSUME Calm PROVE UNCHANGED <<hud, stranded, flow>>
    BY <2>1 DEF Calm, ShowSignInPage, SwipeSheet, PendingAnswered, SelectTab, OpenCreator, Back,
                SignOut, vars, hudVars
  <2>2. CASE Restart
    BY <2>2 DEF Restart, Hide, HudHeld
  <2> QED  BY <2>1, <2>2, NextSplit, HeldTouches, HeldCallbacks DEF HudHeld
<1> QED  BY <1>1, <1>2, SessionTypes, PTL DEF Spec
=============================================================================
