----------------------------- MODULE UserLists -----------------------------
(***************************************************************************)
(* The three lists of one account ("collections", "followed_accounts" and  *)
(* "blocked_accounts" of its Firestore User document) and the devices      *)
(* signed in to it.  A tap on Save, Follow or Block (or their opposites)   *)
(* is a read-modify-write of a whole list:                                 *)
(*                                                                         *)
(*   tap -> getDocument -> compute the new list -> updateData -> the       *)
(*   server commits -> the SDK is acknowledged -> appUser is updated.      *)
(*                                                                         *)
(* Below the application lies the Firestore SDK, with a persistent FIFO of *)
(* pending writes per device, a cache of the document, and reads that      *)
(* overlay the pending writes on that cache.                               *)
(***************************************************************************)
EXTENDS Naturals, Sequences, FiniteSets, SequencesExt

CONSTANTS
  Devices,       \* the devices signed in to the account
  Taps,          \* one identity per tap on a save, follow or block button
  Items,         \* the posts and accounts that get saved, followed, blocked
  Fields,        \* the lists in play
  InitialLists,  \* the lists the account may start with
  None,          \* no request yet; no writer yet
  MaxInFlight,   \* how many unanswered taps per list the user leaves behind
  OfflineReads,  \* whether getDocument may be answered from the cache
  MaxResets,     \* bound: write streams that break and are replayed
  MaxRestarts    \* bound: restarts of the application per device

AllFields == {"collections", "followed_accounts", "blocked_accounts"}

ASSUME FieldsAssumption == Fields \subseteq AllFields
ASSUME ListsAssumption == InitialLists \subseteq Seq(Items)
ASSUME BoundsAssumption ==
  /\ MaxInFlight \in Nat /\ MaxResets \in Nat /\ MaxRestarts \in Nat
  /\ OfflineReads \in BOOLEAN

VARIABLES
  doc,        \* the server's document: a list per field
  remote,     \* per device, the SDK's cache of the document
  queue,      \* per device, the taps whose write is pending, oldest first
  committed,  \* per device, how many writes of this stream the server applied
  seen,       \* per device, how many of those the cached document includes
  cache,      \* per device, the lists in AccountManager.appUser
  phase,      \* per tap, where its callbacks are
  req,        \* per tap, what was asked for
  list,       \* per tap, the snapshot's list, then the list it writes
  applied,    \* taps whose write the server has applied at least once
  writer,     \* history: per field, the device whose write is in doc
  resets,     \* how often a write stream broke
  restarts    \* per device, how often the application restarted

sdkVars == <<remote, queue, committed, seen>>
ghostVars == <<applied, writer>>
envVars == <<resets, restarts>>
vars == <<doc, sdkVars, cache, phase, req, list, ghostVars, envVars>>

Requests == [dev : Devices, field : Fields, kind : {"add", "remove"},
             item : Items]
ASSUME NoneAssumption == None \notin Devices /\ None \notin Requests

Live == {"getting", "got", "writing"}       \* a callback is outstanding
Phases == {"untapped", "done", "failed", "lost"} \cup Live
Lists == Seq(Items)

InFlight(t) == phase[t] \in Live

(* ClipPicProgressHUD covers the window from the tap on "Block user" until *)
(* blockUser completes; no button of that device can be tapped meanwhile.  *)
NoHud(d) == FALSE                                 \* mutant: no HUD
HudUp(d) == \E t \in Taps : /\ InFlight(t)
                            /\ req[t].dev = d
                            /\ req[t].field = "blocked_accounts"

(* Which function a tap calls: Save and Follow are toggles on what appUser *)
(* says, "Block user" always blocks.                                       *)
AlwaysAdds(d, f, i) == TRUE                       \* mutant: not a toggle
Adds(d, f, i) == f = "blocked_accounts" \/ ~Contains(cache[d][f], i)

(* The list that savePost, unsavePost, followAccount, unFollowAccount and  *)
(* blockUser compute from a snapshot: append without looking for an equal  *)
(* entry, or take out the first equal one if there is one.                 *)
NeverRemoves(r, l) ==                    \* mutant: no entry is ever equal
  IF r.kind = "add" THEN Append(l, r.item) ELSE l
NewList(r, l) == IF r.kind = "add" THEN Append(l, r.item)
                                   ELSE RemoveFirst(l, r.item)

(* The local view of a field: the newest pending write of it, or else what *)
(* the cached document holds.                                              *)
NoOverlay(d, f, base) == base           \* mutant: pending writes ignored
FromAppUser(d, f, base) == cache[d][f]  \* mutant: appUser for the snapshot
LocalView(d, f, base) ==
  LET mine == {k \in 1..Len(queue[d]) : req[queue[d][k]].field = f}
  IN  IF mine = {} THEN base ELSE list[queue[d][Max(mine)]]

(* The next write of the device's stream that has not been sent.           *)
OnlyLive(d) ==                   \* mutant: writes of an earlier run stay
  /\ committed[d] < Len(queue[d])
  /\ phase[queue[d][committed[d] + 1]] = "writing"
Sendable(d) == committed[d] < Len(queue[d])

(* The completion of updateData runs, unless it died with its process.     *)
OnlySuccess(t, result) ==        \* mutant: no completion on an error
  [phase EXCEPT ![t] = IF @ = "writing" /\ result = "done" THEN result ELSE @]
Completed(t, result) ==
  [phase EXCEPT ![t] = IF @ = "writing" THEN result ELSE @]

Init ==
  /\ doc \in [Fields -> InitialLists]
  /\ remote = [d \in Devices |-> doc]
  /\ cache = [d \in Devices |-> doc]
  /\ queue = [d \in Devices |-> <<>>]
  /\ committed = [d \in Devices |-> 0]
  /\ seen = [d \in Devices |-> 0]
  /\ phase = [t \in Taps |-> "untapped"]
  /\ req = [t \in Taps |-> None]
  /\ list = [t \in Taps |-> <<>>]
  /\ applied = {}
  /\ writer = [f \in Fields |-> None]
  /\ resets = 0
  /\ restarts = [d \in Devices |-> 0]

-----------------------------------------------------------------------------
(* The application *)

(* A tap: the handler calls getDocument and returns.                       *)
Tap(t, d, f, i) ==
  /\ phase[t] = "untapped"
  /\ ~HudUp(d)
  /\ Cardinality({u \in Taps : InFlight(u) /\ req[u].field = f}) < MaxInFlight
  /\ req' = [req EXCEPT ![t] =
               [dev |-> d, field |-> f, item |-> i,
                kind |-> IF Adds(d, f, i) THEN "add" ELSE "remove"]]
  /\ phase' = [phase EXCEPT ![t] = "getting"]
  /\ UNCHANGED <<doc, sdkVars, cache, list, ghostVars, envVars>>

(* The completion of getDocument runs: the new list is handed to           *)
(* updateData, which appends it to the SDK's queue.                        *)
OptimisticCallback(t) ==         \* mutant: appUser set before the answer
  /\ phase[t] = "got"
  /\ list' = [list EXCEPT ![t] = NewList(req[t], @)]
  /\ cache' = [cache EXCEPT ![req[t].dev][req[t].field] = NewList(req[t], list[t])]
  /\ queue' = [queue EXCEPT ![req[t].dev] = Append(@, t)]
  /\ phase' = [phase EXCEPT ![t] = "writing"]
  /\ UNCHANGED <<doc, remote, committed, seen, req, ghostVars, envVars>>

Callback(t) ==
  /\ phase[t] = "got"
  /\ list' = [list EXCEPT ![t] = NewList(req[t], @)]
  /\ queue' = [queue EXCEPT ![req[t].dev] = Append(@, t)]
  /\ phase' = [phase EXCEPT ![t] = "writing"]
  /\ UNCHANGED <<doc, remote, committed, seen, cache, req, ghostVars, envVars>>

(* getDocument fails, or finds no document: completion(error), which the   *)
(* view controllers print.                                                 *)
GetFails(t) ==
  /\ phase[t] = "getting"
  /\ phase' = [phase EXCEPT ![t] = "failed"]
  /\ UNCHANGED <<doc, sdkVars, cache, req, list, ghostVars, envVars>>

(* The application is killed and started again.  UserDefaults keeps        *)
(* appUser, the SDK keeps its queue and its cache, the callbacks are gone  *)
(* and the write stream starts over.                                       *)
Restart(d) ==
  /\ restarts[d] < MaxRestarts
  /\ restarts' = [restarts EXCEPT ![d] = @ + 1]
  /\ phase' = [t \in Taps |-> IF InFlight(t) /\ req[t].dev = d
                              THEN "lost" ELSE phase[t]]
  /\ committed' = [committed EXCEPT ![d] = 0]
  /\ seen' = [seen EXCEPT ![d] = 0]
  /\ UNCHANGED <<doc, remote, queue, cache, req, list, ghostVars, resets>>

-----------------------------------------------------------------------------
(* The Firestore SDK and the server *)

(* The server's document arrives for a getDocument: it is cached, and the  *)
(* snapshot shows it with the pending writes laid over it.                 *)
SnapshotOnline(t) ==
  /\ phase[t] = "getting"
  /\ LET d == req[t].dev
         f == req[t].field
     IN  /\ remote' = [remote EXCEPT ![d] = doc]
         /\ seen' = [seen EXCEPT ![d] = committed[d]]
         /\ list' = [list EXCEPT ![t] = LocalView(d, f, doc[f])]
  /\ phase' = [phase EXCEPT ![t] = "got"]
  /\ UNCHANGED <<doc, queue, committed, cache, req, ghostVars, envVars>>

(* The device is offline: the snapshot is the local view of the cache.     *)
SnapshotOffline(t) ==
  /\ OfflineReads
  /\ phase[t] = "getting"
  /\ LET d == req[t].dev
         f == req[t].field
     IN  list' = [list EXCEPT ![t] = LocalView(d, f, remote[d][f])]
  /\ phase' = [phase EXCEPT ![t] = "got"]
  /\ UNCHANGED <<doc, sdkVars, cache, req, ghostVars, envVars>>

(* The server applies the next write of the device's stream; the           *)
(* acknowledgement is on its way.                                          *)
Commit(d) ==
  /\ Sendable(d)
  /\ LET t == queue[d][committed[d] + 1]
     IN  /\ doc' = [doc EXCEPT ![req[t].field] = list[t]]
         /\ writer' = [writer EXCEPT ![req[t].field] = d]
         /\ applied' = applied \cup {t}
  /\ committed' = [committed EXCEPT ![d] = @ + 1]
  /\ UNCHANGED <<remote, queue, seen, cache, phase, req, list, envVars>>

(* The oldest write is acknowledged.  The cached document takes it over    *)
(* unless a newer version is cached already, it leaves the queue, and the  *)
(* completion of updateData, if it still exists, updates appUser.          *)
Ack(d) ==
  /\ committed[d] > 0
  /\ LET t == Head(queue[d])
         f == req[t].field
     IN  /\ remote' = IF seen[d] > 0 THEN remote
                      ELSE [remote EXCEPT ![d][f] = list[t]]
         /\ cache' = IF phase[t] = "writing"
                     THEN [cache EXCEPT ![d][f] = list[t]] ELSE cache
         /\ phase' = Completed(t, "done")
  /\ queue' = [queue EXCEPT ![d] = Tail(@)]
  /\ committed' = [committed EXCEPT ![d] = @ - 1]
  /\ seen' = [seen EXCEPT ![d] = IF @ > 0 THEN @ - 1 ELSE 0]
  /\ UNCHANGED <<doc, req, list, ghostVars, envVars>>

(* The server refuses the oldest write for good.                           *)
Reject(d) ==
  /\ queue[d] # <<>>
  /\ committed[d] = 0
  /\ LET t == Head(queue[d])
     IN  /\ t \notin applied
         /\ phase' = Completed(t, "failed")
  /\ queue' = [queue EXCEPT ![d] = Tail(@)]
  /\ UNCHANGED <<doc, remote, committed, seen, cache, req, list, ghostVars,
                 envVars>>

(* The write stream breaks: every write still in the queue is sent again,  *)
(* those the server has applied without the device hearing of it too.      *)
ResetKeepsSeen(d) ==             \* mutant: a counter is not reset
  /\ resets < MaxResets
  /\ committed[d] > 0
  /\ committed' = [committed EXCEPT ![d] = 0]
  /\ resets' = resets + 1
  /\ UNCHANGED <<doc, remote, queue, seen, cache, phase, req, list, ghostVars,
                 restarts>>

StreamReset(d) ==
  /\ resets < MaxResets
  /\ committed[d] > 0
  /\ committed' = [committed EXCEPT ![d] = 0]
  /\ seen' = [seen EXCEPT ![d] = 0]
  /\ resets' = resets + 1
  /\ UNCHANGED <<doc, remote, queue, cache, phase, req, list, ghostVars,
                 restarts>>

-----------------------------------------------------------------------------
TapStep(t) ==
  \/ \E d \in Devices, f \in Fields, i \in Items : Tap(t, d, f, i)
  \/ SnapshotOnline(t) \/ SnapshotOffline(t) \/ GetFails(t)
  \/ Callback(t)

DeviceStep(d) == Commit(d) \/ Ack(d) \/ Reject(d) \/ StreamReset(d) \/ Restart(d)

Next == (\E t \in Taps : TapStep(t)) \/ (\E d \in Devices : DeviceStep(d))

Spec == Init /\ [][Next]_vars

(* getDocument is answered by the server or, once the SDK deems itself     *)
(* offline, by the cache; the main queue runs its callbacks; a device gets *)
(* back online and its write stream is served.  Nobody has to tap.         *)
Fairness ==
  /\ \A t \in Taps : /\ WF_vars(SnapshotOnline(t) \/ SnapshotOffline(t))
                     /\ WF_vars(Callback(t))
  /\ \A d \in Devices : WF_vars(Commit(d)) /\ WF_vars(Ack(d))

FairSpec == Spec /\ Fairness

-----------------------------------------------------------------------------
(* Every variable holds a value of its kind, the counters of a device's    *)
(* write stream count entries of its queue, and a queue holds requests.    *)
TypeOK ==
  /\ doc \in [Fields -> Lists]
  /\ remote \in [Devices -> [Fields -> Lists]]
  /\ cache \in [Devices -> [Fields -> Lists]]
  /\ queue \in [Devices -> Seq(Taps)]
  /\ committed \in [Devices -> Nat]
  /\ seen \in [Devices -> Nat]
  /\ phase \in [Taps -> Phases]
  /\ req \in [Taps -> Requests \cup {None}]
  /\ list \in [Taps -> Lists]
  /\ applied \subseteq Taps
  /\ writer \in [Fields -> Devices \cup {None}]
  /\ resets \in 0..MaxResets
  /\ restarts \in [Devices -> 0..MaxRestarts]
  /\ \A d \in Devices : committed[d] <= Len(queue[d]) /\ seen[d] <= committed[d]
  /\ \A t \in Taps : phase[t] # "untapped" => req[t] # None
  /\ \A d \in Devices : \A k \in 1..Len(queue[d]) : phase[queue[d][k]] # "untapped"

(* Nothing of field f is under way on device d.                            *)
Quiet(d, f) ==
  /\ \A t \in Taps : ~(InFlight(t) /\ req[t].dev = d /\ req[t].field = f)
  /\ \A k \in 1..Len(queue[d]) : req[queue[d][k]].field # f

(* The button tells the truth: on a device that has not been restarted     *)
(* since sign-in, once every tap on a list has been answered and unless    *)
(* another device has written the list since, appUser holds exactly the    *)
(* list the server holds, however the taps and their answers interleaved.  *)
(* (savePost ... unFollowAccount set appUser from the list they wrote.)    *)
AtRestAgreement ==
  \A d \in Devices, f \in Fields :
    restarts[d] = 0 /\ Quiet(d, f) /\ writer[f] \in {None, d}
      => cache[d][f] = doc[f]

(* The server applied the tap's write and the device knows, even if the    *)
(* callback is gone.                                                       *)
Acknowledged(t) ==
  t \in applied /\ \A d \in Devices : ~Contains(queue[d], t)

(* A tap whose write is acknowledged and asked to add an item which nobody *)
(* ever asked to remove: the item is in the server's list for good.        *)
Kept(f) ==
  \A t \in Taps :
    /\ Acknowledged(t) /\ req[t].field = f /\ req[t].kind = "add"
    /\ \A u \in Taps : phase[u] # "untapped" /\ req[u].kind = "remove"
                         => req[u].field # f \/ req[u].item # req[t].item
    => Contains(doc[f], req[t].item)

(* A post whose save was answered "Saved!" stays saved.                    *)
SavesKept == "collections" \in Fields => Kept("collections")

(* A user whose blocking was answered stays blocked.                       *)
BlocksKept == "blocked_accounts" \in Fields => Kept("blocked_accounts")

(* The toggle decides from appUser, which a restart under a tap leaves      *)
(* without that tap's answer.                                              *)
NothingLost == \A t \in Taps : phase[t] # "lost"

(* No list of the server holds an item twice (savePost and followAccount   *)
(* append without looking, so this rests on the toggle being right).       *)
NoDuplicates ==
  NothingLost => \A f \in Fields \ {"blocked_accounts"} : IsInjective(doc[f])

(* The alert "Saved!" or "Unsaved!" agrees with the button drawn with it   *)
(* (tapSaveButton: updateSavedButton, then showAlert), and the same for    *)
(* the title of the follow button.                                         *)
AlertMatchesButton ==
  [][\A t \in Taps :
       NothingLost /\ phase[t] # "done" /\ phase'[t] = "done" =>
         (req[t].kind = "add"
            <=> Contains(cache'[req[t].dev][req[t].field], req[t].item))]_vars

(* Every tap is answered, unless the application dies under it.            *)
TapAnswered ==
  \A t \in Taps : phase[t] = "getting" ~> phase[t] \in {"done", "failed", "lost"}

(* No write stays in the queue for ever: after a restart the writes of the *)
(* earlier run are sent too (LocalStore keeps them, FillWritePipeline).    *)
QueueDrains ==
  \A t \in Taps : (\E d \in Devices : Contains(queue[d], t))
                   ~> (\A d \in Devices : ~Contains(queue[d], t))

(* What the requests look like from above: see AtomicLists.                *)
AbsAsk == [t \in Taps |->
             IF req[t] = None THEN <<>>
             ELSE [field |-> req[t].field, kind |-> req[t].kind,
                   item |-> req[t].item]]
AbsOutcome == [t \in Taps |->
                 CASE phase[t] = "untapped" -> "none"
                   [] phase[t] = "done"     -> "ok"
                   [] phase[t] = "failed"   -> "error"
                   [] InFlight(t) /\ t \in applied -> "applied"
                   [] OTHER -> "asked"]

Atomic == INSTANCE AtomicLists WITH ask <- AbsAsk, outcome <- AbsOutcome

(* When the user lets one tap be answered before the next, on whichever    *)
(* device, each request is the atomic edit of AtomicLists.                 *)
AtomicRequests == Atomic!Spec
=============================================================================
