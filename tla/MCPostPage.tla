----------------------------- MODULE MCPostPage -----------------------------
(* Instances of PostPage for TLC.                                          *)
EXTENDS PostPage

CONSTANTS ann, bob, t1, t2, t3
=============================================================================
