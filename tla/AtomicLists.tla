---------------------------- MODULE AtomicLists ----------------------------
(***************************************************************************)
(* What saving, following and blocking promise the user: every request     *)
(* edits the list the account has at that moment, once and as a whole, and *)
(* is answered "ok" only after that, or it is dropped and answered "error".*)
(* Nothing of devices, caches, write queues or snapshots is visible here.  *)
(***************************************************************************)
EXTENDS Sequences, SequencesExt

CONSTANTS
  Taps,          \* the requests, one per tap on a button
  Fields,        \* the account's lists
  Items,         \* what a list holds: posts or accounts
  InitialLists   \* the lists an account may start with

VARIABLES
  doc,      \* the account's lists
  ask,      \* what each request asks for, or the empty record
  outcome   \* how far each request has come

vars == <<doc, ask, outcome>>

Asks == [field : Fields, kind : {"add", "remove"}, item : Items]
Nothing == <<>>

(* The list after one request: an item is appended, or the first equal     *)
(* entry is taken out.                                                     *)
Edited(a, l) == IF a.kind = "add" THEN Append(l, a.item)
                                  ELSE RemoveFirst(l, a.item)

Init ==
  /\ doc \in [Fields -> InitialLists]
  /\ ask = [t \in Taps |-> Nothing]
  /\ outcome = [t \in Taps |-> "none"]

Ask(t) ==
  /\ outcome[t] = "none"
  /\ \E a \in Asks : ask' = [ask EXCEPT ![t] = a]
  /\ outcome' = [outcome EXCEPT ![t] = "asked"]
  /\ UNCHANGED doc

Apply(t) ==
  /\ outcome[t] = "asked"
  /\ doc' = [doc EXCEPT ![ask[t].field] = Edited(ask[t], @)]
  /\ outcome' = [outcome EXCEPT ![t] = "applied"]
  /\ UNCHANGED ask

Answer(t) ==
  /\ outcome[t] = "applied"
  /\ outcome' = [outcome EXCEPT ![t] = "ok"]
  /\ UNCHANGED <<doc, ask>>

Drop(t) ==
  /\ outcome[t] = "asked"
  /\ outcome' = [outcome EXCEPT ![t] = "error"]
  /\ UNCHANGED <<doc, ask>>

Next == \E t \in Taps : Ask(t) \/ Apply(t) \/ Answer(t) \/ Drop(t)

Spec == Init /\ [][Next]_vars
=============================================================================
