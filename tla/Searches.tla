------------------------------ MODULE Searches ------------------------------
(***************************************************************************)
(* The two searches: by an image, which is uploaded and then looked up     *)
(* under the progress HUD, and by keywords, which nothing keeps the user   *)
(* from sending again before the answer.  Each answer replaces what the    *)
(* page shows.                                                             *)
(***************************************************************************)
CONSTANTS
  Images,        \* what may be picked
  Keywords,      \* what may be typed
  None,          \* nothing asked, nothing shown
  HudShows       \* show() finds an active scene

ASSUME NamesAssumption == None \notin Images \cup Keywords
ASSUME HudAssumption == HudShows \in BOOLEAN

VARIABLES
  hud,           \* the HUD covers the window
  image,         \* toSearchImageView.image
  found,         \* the image whose results are shown
  jobs,          \* how far the search by each image is
  orphans,       \* images whose page was left meanwhile
  keyword,       \* the keyword sent last
  listed,        \* the keyword whose results are shown
  lookups        \* keywords without an answer

imageVars == <<image, found, jobs, orphans>>
keywordVars == <<keyword, listed, lookups>>
vars == <<hud, imageVars, keywordVars>>

Init ==
  /\ hud = FALSE /\ image = None /\ found = None
  /\ jobs = [i \in Images |-> "none"] /\ orphans = {}
  /\ keyword = None /\ listed = None /\ lookups = {}

NoCover == TRUE                          \* mutant: the HUD lets touches through
Touchable == ~hud

Show == hud' \in (IF HudShows THEN {TRUE} ELSE BOOLEAN)
Hide == hud' = FALSE

-----------------------------------------------------------------------------
(* By image *)

(* didFinishPickingMediaWithInfo, uploadAndSearchImage                     *)
Pick(i) ==
  /\ Touchable /\ jobs[i] = "none"
  /\ image' = i /\ jobs' = [jobs EXCEPT ![i] = "upload"] /\ Show
  /\ UNCHANGED <<found, orphans, keywordVars>>

(* An image without JPEG data is put on the page and not searched for.     *)
PickUnreadable(i) ==
  /\ Touchable /\ jobs[i] = "none"
  /\ image' = i
  /\ UNCHANGED <<hud, found, jobs, orphans, keywordVars>>

Uploaded(i) ==
  /\ jobs[i] = "upload" /\ jobs' = [jobs EXCEPT ![i] = "search"]
  /\ UNCHANGED <<hud, image, found, orphans, keywordVars>>

HudForgotten(i) ==                       \* mutant: a failed upload keeps the HUD
  /\ jobs[i] = "upload" /\ jobs' = [jobs EXCEPT ![i] = "none"]
  /\ orphans' = orphans \ {i}
  /\ UNCHANGED <<hud, image, found, keywordVars>>

UploadFails(i) ==
  /\ jobs[i] = "upload" /\ jobs' = [jobs EXCEPT ![i] = "none"] /\ Hide
  /\ orphans' = orphans \ {i}
  /\ UNCHANGED <<image, found, keywordVars>>

(* The results are for the page that asked, if it is still there.          *)
Searched(i) ==
  /\ jobs[i] = "search" /\ jobs' = [jobs EXCEPT ![i] = "none"] /\ Hide
  /\ found' = IF i \in orphans THEN found ELSE i
  /\ orphans' = orphans \ {i}
  /\ UNCHANGED <<image, keywordVars>>

SearchFails(i) ==
  /\ jobs[i] = "search" /\ jobs' = [jobs EXCEPT ![i] = "none"] /\ Hide
  /\ orphans' = orphans \ {i}
  /\ UNCHANGED <<image, found, keywordVars>>

OrphansPicked ==                         \* mutant: every image leaves its page
  /\ Touchable /\ image' = None /\ found' = None
  /\ orphans' = Images
  /\ UNCHANGED <<hud, jobs, keywordVars>>

(* The page is left, and opened again without an image.                    *)
Reopen ==
  /\ Touchable /\ image' = None /\ found' = None
  /\ orphans' = {i \in Images : jobs[i] # "none"}
  /\ UNCHANGED <<hud, jobs, keywordVars>>

-----------------------------------------------------------------------------
(* By keyword *)

(* textFieldShouldReturn, searchKeyword: nothing keeps the user from       *)
(* sending another before the answer.                                      *)
Submit(k) ==
  /\ keyword' = k /\ lookups' = lookups \cup {k}
  /\ UNCHANGED <<hud, imageVars, listed>>

LookedUp(k) ==
  /\ k \in lookups /\ lookups' = lookups \ {k} /\ listed' = k
  /\ UNCHANGED <<hud, imageVars, keyword>>

LookupFails(k) ==
  /\ k \in lookups /\ lookups' = lookups \ {k}
  /\ UNCHANGED <<hud, imageVars, keyword, listed>>

-----------------------------------------------------------------------------
Answered(i) == Uploaded(i) \/ UploadFails(i) \/ Searched(i) \/ SearchFails(i)

Next ==
  \/ \E i \in Images : Pick(i) \/ PickUnreadable(i) \/ Answered(i)
  \/ \E k \in Keywords : Submit(k) \/ LookedUp(k) \/ LookupFails(k)
  \/ Reopen

Spec == Init /\ [][Next]_vars

(* Alamofire answers every request, if only with a timeout.                *)
FairSpec == Spec /\ \A i \in Images : WF_vars(Answered(i))

-----------------------------------------------------------------------------
(* Every variable holds a value of its kind, and only the results of       *)
(* searches under way have lost their page.                                *)
TypeOK ==
  /\ hud \in BOOLEAN /\ image \in Images \cup {None} /\ found \in Images \cup {None}
  /\ jobs \in [Images -> {"none", "upload", "search"}]
  /\ orphans \subseteq {i \in Images : jobs[i] # "none"}
  /\ keyword \in Keywords \cup {None} /\ listed \in Keywords \cup {None}
  /\ lookups \subseteq Keywords

(* The results on the page of the search by image are those of the image   *)
(* picked last, whenever they come: the HUD is up until then.              *)
ByImage == INSTANCE LatestAnswer
             WITH Subjects <- Images \cup {None}, subject <- image, shown <- found

ImageResults == ByImage!Spec

(* The HUD of a search goes away again.                                    *)
HudGoes == hud ~> ~hud
=============================================================================
