--------------------------- MODULE SearchesProofs ---------------------------
(***************************************************************************)
(* Proofs, for any images and keywords and any searches under way: that    *)
(* the types are right, that the HUD stays up for a search only, and that  *)
(* the search by image implements LatestAnswer where the HUD is up from    *)
(* the pick to the answer.                                                 *)
(***************************************************************************)
EXTENDS Searches, TLAPS

(* The variables keep their types, and an answer without a page belongs to *)
(* a search that is under way, whether or not the HUD shows: every way a   *)
(* search can end clears its entry in orphans.                             *)
THEOREM SearchTypes == Spec => []TypeOK
<1>1. Init => TypeOK
  BY DEF Init, TypeOK
<1>2. TypeOK /\ [Next]_vars => TypeOK'
  <2> SUFFICES ASSUME TypeOK, [Next]_vars PROVE TypeOK'
    OBVIOUS
  <2> USE DEF TypeOK
  <2>1. ASSUME NEW i \in Images, Pick(i) PROVE TypeOK'
    <3>1. jobs[i] = "none" /\ i \notin orphans
      BY <2>1 DEF Pick
    <3> QED  BY <2>1, <3>1, HudAssumption DEF Pick, Show, keywordVars
  <2>2. ASSUME NEW i \in Images, PickUnreadable(i) PROVE TypeOK'
    BY <2>2 DEF PickUnreadable, keywordVars
  <2>3. ASSUME NEW i \in Images, Answered(i) PROVE TypeOK'
    BY <2>3 DEF Answered, Uploaded, UploadFails, Searched, SearchFails, Hide, keywordVars
  <2>4. ASSUME NEW k \in Keywords, Submit(k) \/ LookedUp(k) \/ LookupFails(k)
        PROVE  TypeOK'
    BY <2>4 DEF Submit, LookedUp, LookupFails, imageVars
  <2>5. CASE Reopen
    BY <2>5 DEF Reopen, keywordVars
  <2>6. CASE UNCHANGED vars
    BY <2>6 DEF vars, imageVars, keywordVars
  <2> QED  BY <2>1, <2>2, <2>3, <2>4, <2>5, <2>6 DEF Next
<1> QED  BY <1>1, <1>2, PTL DEF Spec

-----------------------------------------------------------------------------
(* The image on the page is the only one that is searched for, and as long *)
(* as it is, the HUD is up.                                                *)
OneJob ==
  /\ jobs \in [Images -> {"none", "upload", "search"}]
  /\ \A i \in Images : jobs[i] # "none" => hud /\ i = image
  /\ orphans = {}

LEMMA OneJobInit == Init => OneJob
BY DEF Init, OneJob

LEMMA OneJobNext ==
  ASSUME HudShows = TRUE, OneJob, [Next]_vars
  PROVE  OneJob'
<1> USE DEF OneJob
<1>1. ASSUME NEW i \in Images, Pick(i) PROVE OneJob'
  <2>1. \A j \in Images : jobs[j] = "none"
    BY <1>1 DEF Pick, Touchable
  <2>2. hud' = TRUE /\ image' = i /\ orphans' = {} /\ jobs' = [jobs EXCEPT ![i] = "upload"]
    BY <1>1 DEF Pick, Show
  <2> QED  BY <2>1, <2>2
<1>2. ASSUME NEW i \in Images, PickUnreadable(i) PROVE OneJob'
  BY <1>2 DEF PickUnreadable, Touchable
<1>3. ASSUME NEW i \in Images, Uploaded(i) PROVE OneJob'
  BY <1>3 DEF Uploaded, imageVars, keywordVars
<1>4. ASSUME NEW i \in Images, UploadFails(i) \/ Searched(i) \/ SearchFails(i) PROVE OneJob'
  <2>1. jobs[i] # "none" /\ jobs' = [jobs EXCEPT ![i] = "none"]
        /\ image' = image /\ orphans' = orphans \ {i}
    BY <1>4 DEF UploadFails, Searched, SearchFails
  <2>2. \A j \in Images : jobs'[j] = "none"
    BY <2>1
  <2> QED  BY <2>1, <2>2
<1>5. CASE Reopen
  BY <1>5 DEF Reopen, Touchable, keywordVars
<1>6. ASSUME NEW k \in Keywords, Submit(k) \/ LookedUp(k) \/ LookupFails(k) PROVE OneJob'
  BY <1>6 DEF Submit, LookedUp, LookupFails, imageVars
<1>7. CASE UNCHANGED vars
  BY <1>7 DEF vars, imageVars
<1> QED  BY <1>1, <1>2, <1>3, <1>4, <1>5, <1>6, <1>7 DEF Next, Answered

(* The page of the search by image implements LatestAnswer: the results on *)
(* it, whenever they come, are those of the image picked last.             *)
THEOREM ImageResultsAlways ==
  ASSUME HudShows = TRUE
  PROVE  Spec => ImageResults
<1>1. Init => ByImage!Init
  BY DEF Init, ByImage!Init
<1>2. OneJob /\ [Next]_vars => [ByImage!Next]_(ByImage!vars)
  <2> SUFFICES ASSUME OneJob, [Next]_vars PROVE [ByImage!Next]_(ByImage!vars)
    OBVIOUS
  <2> USE DEF ByImage!Next, ByImage!Ask, ByImage!Answer, ByImage!vars
  <2>1. ASSUME NEW i \in Images, Pick(i) \/ PickUnreadable(i) PROVE ByImage!Ask
    BY <2>1 DEF Pick, PickUnreadable
  <2>2. ASSUME NEW i \in Images, Searched(i) PROVE ByImage!Answer
    BY <2>2 DEF Searched, OneJob
  <2>3. ASSUME NEW i \in Images, Uploaded(i) \/ UploadFails(i) \/ SearchFails(i)
        PROVE  UNCHANGED <<image, found>>
    BY <2>3 DEF Uploaded, UploadFails, SearchFails
  <2>4. CASE Reopen
    BY <2>4 DEF Reopen
  <2>5. ASSUME NEW k \in Keywords, Submit(k) \/ LookedUp(k) \/ LookupFails(k)
        PROVE  UNCHANGED <<image, found>>
    BY <2>5 DEF Submit, LookedUp, LookupFails, imageVars
  <2>6. CASE UNCHANGED vars
    BY <2>6 DEF vars, imageVars
  <2> QED  BY <2>1, <2>2, <2>3, <2>4, <2>5, <2>6 DEF Next, Answered
<1>3. OneJob /\ [Next]_vars => OneJob'
  BY OneJobNext
<1> QED  BY <1>1, <1>2, <1>3, OneJobInit, PTL DEF Spec, ImageResults, ByImage!Spec

-----------------------------------------------------------------------------
(* The HUD is up only for a search that is under way, whose end takes it   *)
(* away: the safety behind HudGoes, whether or not every HUD shows.        *)
HudHeld == hud => \E i \in Images : jobs[i] # "none"

(* No way in which a search ends leaves the HUD up (uploadAndSearchImage's *)
(* returns), whether or not every HUD shows.                               *)
THEOREM HudHeldAlways == Spec => []HudHeld
<1>1. Init => TypeOK /\ HudHeld
  BY DEF Init, TypeOK, HudHeld
<1>2. TypeOK /\ HudHeld /\ [Next]_vars => HudHeld'
  <2> SUFFICES ASSUME TypeOK, HudHeld, [Next]_vars, hud'
               PROVE  \E i \in Images : jobs'[i] # "none"
    BY DEF HudHeld
  <2>1. ASSUME NEW i \in Images, Pick(i) PROVE jobs'[i] # "none"
    BY <2>1 DEF Pick, TypeOK
  <2>2. ASSUME NEW i \in Images, Uploaded(i) PROVE jobs'[i] # "none"
    BY <2>2 DEF Uploaded, TypeOK
  <2>3. ASSUME NEW i \in Images, UploadFails(i) \/ Searched(i) \/ SearchFails(i) PROVE FALSE
    BY <2>3 DEF UploadFails, Searched, SearchFails, Hide
  <2>4. ASSUME \/ Reopen \/ UNCHANGED vars \/ \E i \in Images : PickUnreadable(i)
               \/ \E k \in Keywords : Submit(k) \/ LookedUp(k) \/ LookupFails(k)
        PROVE  UNCHANGED <<hud, jobs>>
    BY <2>4 DEF Reopen, PickUnreadable, Submit, LookedUp, LookupFails, vars, imageVars
  <2> QED  BY <2>1, <2>2, <2>3, <2>4 DEF Next, Answered, HudHeld
<1> QED  BY <1>1, <1>2, SearchTypes, PTL DEF Spec
=============================================================================
