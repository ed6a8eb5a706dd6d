---------------------------- MODULE LatestAnswer ----------------------------
(***************************************************************************)
(* What a page that shows the answer to a question promises: the answer it *)
(* shows, whenever it comes, is to the question asked last.  The search by *)
(* image implements it, because the HUD keeps the user from asking again;  *)
(* the feed and the search by keyword, which have none, do not.            *)
(***************************************************************************)
CONSTANTS Subjects, None

VARIABLES
  subject,       \* what was asked last
  shown          \* what the page shows the answer to

vars == <<subject, shown>>

Init == subject \in Subjects /\ shown = None

(* Another question may be asked at any time, and its page may start anew. *)
Ask == \E s \in Subjects : subject' = s /\ shown' \in {shown, None}

Answer == shown' = subject /\ UNCHANGED subject

Next == Ask \/ Answer

Spec == Init /\ [][Next]_vars
=============================================================================
