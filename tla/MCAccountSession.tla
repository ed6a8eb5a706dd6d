-------------------------- MODULE MCAccountSession --------------------------
(* Instances of AccountSession for TLC.                                    *)
EXTENDS AccountSession, TLC

CONSTANTS a1, a2, f1, f2

TwoAccounts == {a1, a2}
TwoFlows == {f1, f2}

SessionSymmetry == Permutations(Accounts) \cup Permutations(Flows)
=============================================================================
