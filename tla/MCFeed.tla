------------------------------- MODULE MCFeed -------------------------------
(* An instance of Feed for TLC: two accounts, two categories, and a post   *)
(* for each.                                                               *)
EXTENDS Feed

CONSTANTS ann, bob, art, pets

TwoPosts == {[author |-> ann, category |-> art], [author |-> bob, category |-> pets]}
=============================================================================
