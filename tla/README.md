# ClipPic in TLA+

ClipPic is an iOS application for sharing, saving and searching images. It is
written in Swift on UIKit, with Firebase Auth for its accounts, Firestore for
its documents and Firebase Storage for its images. There is no server of its
own: every rule about the data is enforced, or not, by the application's
callbacks and by the Firestore SDK below them. The models here are about
exactly that: callbacks in an order nobody wrote down, writes that wait in the
SDK's queue, several devices on one account, and a progress HUD that is the
application's only lock.

Paths are relative to `src/ClipPic/ClipPic/`, those starting with `Firestore/`
to `src/ClipPic/Pods/FirebaseFirestore/`.

## 1. Inventory

Everything in the application runs on the main queue; concurrency is the
interleaving of taps with the completions of asynchronous calls, of devices
with each other, and of the process with its own restarts.

| component | code | state | operations |
|---|---|---|---|
| user document lists | `Model/Networking/Firebase/FirestoreManager.swift` 74-101 and 349-477, `PostViewController` 199-246, `CreatorProfileViewController` 186-250, `Model/DataModel/User.swift` | the `User` document's `collections`, `followed_accounts`, `blocked_accounts`; the copy in `AccountManager.appUser` | save, unsave, follow, unfollow, block |
| Firestore SDK | `Firestore/core/src/{core,local,remote,api}` | per device: persistent queue of pending writes, document cache, write stream | get (server or cache), update, commit, acknowledge, reject, reconnect |
| account session | `Model/Login/AccountManager.swift`, `SignInViewController`, `SetUpAccountViewController`, `SettingsViewController`, `TabBarViewController` | Firebase's current user, `appUser` in UserDefaults, the modal sheet, the tab | sign in (Google, Apple), set up, sign out, delete, gate a tab |
| progress HUD | `ViewController/Common/ClipPicProgressHUD.swift` | one view, on the key window or not | show, hide |
| home feed | `HomeViewController`, `CategoryCollectionView`, `homeFetchPosts`, `fetchCategories` | posts shown, selected category, the refresh header | fetch, refresh, select, filter by block list |
| waterfall layout | `ViewController/Home/View/WaterFallLayout.swift` | frames of the items so far, height of each column | prepare |
| post page, comments | `PostViewController`, `CommentViewController`, `fetchPostDetails`, `fetchComments`, `publishComment` | the post (nil until fetched), its comments | fetch, publish a comment |
| publishing | `PublishViewController`, `FirebaseStorageManager`, `publishPost` | the form | upload the image, then write the document |
| profile and editing | `ProfileViewController`, `CreatorProfileViewController`, `EditProfileViewController`, `updateProfile`, follower counts | posts fetched, counts, the form | fetch, count, update |
| image and keyword search | `ImageSearchViewController`, `ImgurManager`, `SerpAPIManager`, `SearchViewController`, `GoogleSearchAPIManager` | the results | upload, search |
| text recognition | `TranslateTextViewController` | the text found | recognise, open a translator |
| shell, libraries | `AppDelegate`, `SceneDelegate`, `Pods` | - | - |

How they interact. View controllers call `FireStoreManager.shared` and
`AccountManager.shared` and get completions on the main queue. `appUser` is
shared by all of them: it decides whether a button saves or unsaves, which posts
are filtered, and, with Firebase's current user, whether anybody is logged in
(`isLogin`). `AccountManager` reports a sign-in through a weak delegate, the
sign-in page. The HUD covers the window, and thereby serialises whatever is
started under it.

What is hard here:

* a list is edited by reading it, changing it in a callback and writing the
  *whole* list back, with no transaction and no array union;
* the callback of `updateData` comes only when the server has answered; the
  write itself survives the process, its callback does not;
* reads show pending writes, and offline reads show nothing else;
* `isLogin` combines two variables that are not changed together, and
  `deleteUser` changes one of them only, late and without a HUD;
* the HUD does nothing if no scene is in the foreground and active, and three
  returns forget to hide it;
* operations outlive the page and the session that started them: the callbacks
  of an upload or a read run after sign-out and another sign-in, and read
  whoever is signed in by then;
* nothing ties an answer to its question: the answer that comes last is shown;
* queries are answered by the server, by the SDK's cache or not at all, and all
  those under way for one query by the same snapshot.

What makes each part correct: a button agrees with the server when nothing is
under way, an answered save, follow or block stays, the write queue drains; a
login sees its own profile, set-up replaces nobody's document, no document takes
what belongs to another account, the HUD goes away; the feed honours the block
list when posts arrive and keeps what it has shown; a comment answered with
"Success" is on the page and stays; the layout gives every post a frame of its
own; a profile's labels never go back; a search by image shows the results of the
image picked last. The feed should also belong to the category selected last, and
a search by keyword to the keyword sent last; the code does not keep that (see
"Overtaken answers"). `PROJECT.json` lists every hazard with its line, the property
that guards it, and what none does.

## 2. Modules

| module | models | proofs |
|---|---|---|
| `UserLists` | the lists, from the tap to the server, on any number of devices, with the SDK in between | `UserListsProofs` |
| `AtomicLists` | abstract: each request edits the list it finds, atomically, or is dropped | |
| `AccountSession` | one device's accounts, sheet, HUD and operations | `AccountSessionProofs` |
| `AccountSwitch` | several accounts one after another, and the saves, posts and edits that outlive their session | `AccountSwitchProofs` |
| `Feed` | the home page: categories, requests, answers, block filter, refresh header | `FeedProofs` |
| `LatestAnswer` | abstract: what a page shows is the answer to the question asked last | |
| `PostPage` | a post's page: the post, its comments, writing one | `PostPageProofs` |
| `WaterFall` | the layout of a list of posts | `WaterFallProofs` |
| `Searches` | search by image (under the HUD) and by keyword | `SearchesProofs` |
| `CreatorPage` | the page of another account | `CreatorPageProofs` |
| `MC...` | one per component: model values, definitions and symmetry for TLC | |

`UserLists` refines `AtomicLists`, the search by image in `Searches` refines
`LatestAnswer`.
Session, SDK queue and lists are combined in `AccountSwitch`, block list, queue
and page in `Feed` and `PostPage`, at the level of detail the interaction needs;
the details are in `UserLists` and `AccountSession`. A definition marked
"mutant" is no part of the model: it is a plausible mistake in the definition
that follows it, and `PROJECT.json` says which property it breaks.

### The SDK, in all modules

A write joins a persistent queue (per device in `UserLists`, per account in
`AccountSwitch`, of which only the current account's is served; a set `pending`
elsewhere), survives the process, and is answered by the server once its
account is signed in. Its completion does not survive. What the device reads is
the server's state or the cache, with the pending writes of the current account
laid over it (`LocalView`, `HasProfile`, `SavedView`, `Mine`; code:
`LocalDocumentsView`). The cache grows with what the server has answered or
acknowledged. Queries are answered online, from the cache, or with an error
(`ServeOnline`, `ServeCached`, `ServeError`; code: `Query::GetDocuments` and
`QueryListener::ShouldRaiseInitialEvent`), all those under way together, and
the answers enter the main queue (`inbox`) in one order, from which `Deliver`
takes the first and runs its completion.

### UserLists

A tap has an identity and goes through `phase`: `getting` (the handler called
`getDocument`), `got` (the snapshot is there, its completion has not run),
`writing` (`updateData` has put the write in the queue), then `done`, `failed`,
or `lost` with its process. One action each:

| action | code |
|---|---|
| `Tap` | `tapSaveButton`, `tapFollowButton`, the "Block user" alert action: the toggle (`Adds`) reads `appUser` |
| `SnapshotOnline`, `SnapshotOffline`, `GetFails` | `DocumentReference::GetDocument` with the default source |
| `Callback` | the `getDocument` completion: decode, append or remove the first equal entry (`NewList`), `updateData` |
| `Commit` | the backend applies the next write of the device's stream |
| `Ack` | `OnWriteStreamMutationResult`, `AcknowledgeBatch`, `NotifyUser`, then the `updateData` completion, which sets `appUser` |
| `Reject` | `HandleWriteError`, `RejectBatch` |
| `StreamReset` | `OnWriteStreamClose`: the stream starts over, what was committed but not acknowledged is sent again |
| `Restart` | the process ends; UserDefaults, queue and cache stay |

`seen` counts the committed writes the cached document already includes, so
that an acknowledgement does not overwrite a newer cached version with an older
one (the version check of `ApplyBatchResult`). `writer` and `applied` are
history: they only occur in properties and in the guard that a write the server
has accepted once is not refused on its replay.

Abstractions: a post or an account is one value. `isMySavedPost` compares ids
and `unsavePost` whole records; both agree because a post's image URL and a
user's avatar URL never change (avatars are uploaded to one path and stripped
of their token, see `OwnPostsFound`). Only the `User` document is modelled, its
three lists separately, and nobody but this account's devices writes it.
Devices stay signed in; `AccountSwitch` is about those that do not.

### AccountSession

Accounts are Firebase uids. A flow is an operation that waits for one callback
after another: `auth`, `profile` (sign-in), `upload`, `create` (set-up),
`block`, `delete`. `Touchable` (no HUD, no crash) guards every action of the
user, `Callbacks` have no such guard. `sheet` is the modal sheet, `delegate`
whether its sign-in page is registered with `AccountManager`. `docs` is what
the server has, `pending` the set-ups in the SDK's queue. `stranded` marks the
HUD left by a return that forgets it (`blockUser` without a profile, a set-up
without an avatar URL). Deleting frees the uid for good: signing in again gives
a new one. `HudReliable` says whether every `show()` finds a key window.

Abstractions: the home tab against the member tabs (search, images, profile)
together; a creator's page is opened from the home tab's stack, the one that
signing out does not pop; Google's and Apple's dialogs are folded into the
`SignIn` that follows them; a uid and its e-mail are present together; the
asynchronous hop in `show` and `hide` is part of the step that calls them;
blocking is one callback here (its two are in `UserLists`).

### AccountSwitch

`op` says of every tap who tapped, whose document it is for and what it writes:

| action | code |
|---|---|
| `TapSave`, `DocumentRead`, `ReadFails` | `savePost`, `unsavePost`: the document is chosen at the tap, the list read from the SDK when the snapshot comes |
| `TapPost`, `ImageUploaded`, `ImageFails` | `publish`, then `publishPost`, which signs the post with the `appUser` it finds after the upload |
| `TapDone`, `AvatarUploaded`, `AvatarFails` | `tapDoneButton`, then `updateProfile`, which writes to whoever is signed in after the upload and returns silently, HUD up, if nobody is |
| `Answered` | the server's answer to the oldest write of the current account's queue, and its completion, which changes a field of whatever `appUser` is cached by then |
| `SignIn`, `SignOut`, `DeleteAccount`, `DeleteAnswered` | as in `AccountSession`, each sign-in one step |

Abstractions: a list of saved posts is a set, an avatar is its URL
(`AvatarURL`), the server applies and acknowledges in one step, there is no
second device, and deletion does not remove the `User` document (the code
never does).

### Feed

`asked` counts the requests without an answer per category, `inbox` holds the
answers, `shownFor` (history) the category the page shows. `SelectCategory`,
`PullDown` and the first load ask; `Deliver` is the completion of
`homeFetchPosts`, which filters by the block list of whoever is signed in *now*
and replaces the list, followed by `fetchPosts`' end of the refresh. `Block`,
`SignIn`, `SignOut`, `PublishMine` and `PublishTheirs` change what the next
answer holds. `Restart` keeps session, cache and queue. Categories may be selected
in a row without waiting. `switched` (history) says that somebody signed in or out
while answers waited in the main queue.

### PostPage

`viewDidLoad` asks for the post, its answer for the comments (`DeliverPost`),
the answer to those puts up the text view (`DeliverComments`), and a comment
that was stored asks for them again, shows "Success" and empties the text view
(`DeliverWrite`). `Send` can be tapped again while a comment is pending. `calls`
are the completions still in memory; `Reopen` starts the page, or the
application, again and loses them. `TapButton` is a tap on save, share or the
creator's button without a post: the application stops (`crashed`). `posted`
collects what was answered with "Success".

### WaterFall

`prepare()` is split into `Prepare` (its guard), `Place` (one turn of its loop)
and `Finish`; nothing comes between them (`laying`). `Reload` is `reloadData`,
which invalidates the layout but keeps its frames. Heights are drawn by the
delegate at random, hence any of `Heights`. Horizontal positions are left out.

### Searches

`Pick`, `Uploaded`, `Searched` and the failures are `uploadAndSearchImage`; the
HUD covers the page from the first to the last. `Reopen` leaves the page and
comes back to a new one; an answer for an old page (`orphans`) shows nowhere.
`Submit`, `LookedUp`, `LookupFails` are `searchKeyword`; a keyword may be sent
while others are looked up. `HudShows` says whether every `show()` finds a scene.

### CreatorPage

A profile is the number of times its owner changed it. `reads` are the reads of
the profile under way, for the labels (every time the page comes to the front)
and for the posts (`viewDidLoad` only), `queries` what their completions ask for
next: the posts, the number of followers. Each read is answered on its own, by
the server, the cache or with an error; of two, the one made first is answered
first (`First`), as the SDK keeps the listeners of a document in that order.
`missed` (history) says that `fetchPosts` was answered with an error.
`TapWithoutUser` unwraps the nil profile. `Cover`, `Uncover`, `Leave` and
`Reopen` are navigation: a post on top of the page or another tab covers it,
whatever it shows.

## 3. Runs

| run | instance | shows |
|---|---|---|
| `one_device` | 1 device, 3 taps that overlap on 2 lists, 2 items, 1 restart, offline reads, refusals | `AtRestAgreement`, `BlocksKept`, `TapAnswered`, `QueueDrains` |
| `serial_devices` | 2 devices, 4 taps one at a time on 1 list, 1 broken stream | `AtomicRequests`: `UserLists` implements `AtomicLists` |
| `serial_one` | 1 device, 4 taps one at a time per list, 2 lists, offline reads, 1 broken stream, 1 restart | `SavesKept`, `NoDuplicates`, `AlertMatchesButton` |
| `lost_save` | 1 device, 2 overlapping taps | **violated** `SavesKept`: the first save is lost |
| `session` | 2 accounts, 2 flows, reliable HUD | `OwnProfile`, `MembersOnly`, `NeverOverwritten`, `LoginHasDocument`, `HudReleased` |
| `stale_delete` | the same | **violated** `NoCrash`: `createUser` stops the application |
| `switch` | 2 accounts, 1 image, 3 taps, reliable HUD | `ServerOwn`, `AvatarOwn`, `OwnPostsFound`, `EditReleased` |
| `feed` | 2 authors, 1 of them on this device, 2 categories and "all", 2 posts, 2 requests | `NoBlockedArrives`, `NoPostLost`, `RefreshEnds` |
| `post` | 2 accounts, 2 comments, 4 answers in the main queue | `SuccessKept`, `SuccessShown`, `BoxAppears` |
| `layout` | 2 columns, the application's heights and gaps, 6 posts | `NoOverlap`, `ScrollsToAll`, `FramePerPost` |
| `search` | 3 images, 3 keywords, reliable HUD | `ImageResults`, `HudGoes` |
| `creator` | 3 edits, the profile read again while fewer than 3 answers wait | `ProfileNeverOlder`, `PageFilled` |

`TypeOK` is checked in one run of each module. Runs with a temporal property
use `FairSpec` and no symmetry.

**Bounds.** `MaxInFlight` (unanswered taps per list), `MaxResets`,
`MaxRestarts`, `MaxRequests`, `MaxAnswers`, `MaxItems`, `MaxEdits`, and the
numbers of taps, flows, comments and posts. Each hazard needs two overlapping
operations and a third to expose the result: three taps suffice in `one_device`
and `switch`, two comments in `post` (one sent, one racing it), two requests in
`feed` (one overtakes the other, and the next, asked when one of them is
delivered, finds the cache). Four taps are used where `MaxInFlight = 1` keeps
the state space small, so that an item can be added, removed and added around a
restart. Six posts are three rows of two columns, enough for a column to
overtake the other. Three edits let the cache be older than the labels and
older than the server. Broken streams are left to `serial_one` and
`serial_devices` because they multiply the interleavings of `one_device`; the
theorem `ButtonTellsTruth` covers them with any number of devices, taps, resets
and restarts. Deadlock is not checked for `UserLists` and `AccountSwitch`,
which stop when the taps are used up and answered.

**What the restrictions mean.** `SavesKept` and the refinement hold when a tap
waits for the previous answer, which nothing in the application enforces for
saves and follows; `lost_save` shows what happens otherwise. Blocking is
different: the HUD serialises it, so `BlocksKept` holds with every overlap of
the other list. `AtRestAgreement` needs no restriction on the overlap, but
excludes a device that was restarted (its answers may be lost with the process,
and `appUser` is not read again) and one whose list another device has written
since: `appUser` is refreshed by signing in only. `NoDuplicates` is not claimed
for `blocked_accounts`, where `blockUser` appends without asking, nor, like
`AlertMatchesButton`, once a restart took a tap's answer, after which the toggle
decides from a stale `appUser`. `OwnProfile` exempts the profile of a deleted
account, `LoginHasDocument`, `HudReleased` and `EditReleased` what happens after
a deletion: `deleteUser` leaves `appUser` behind, and `updateProfile` returns
silently when nobody is signed in. `HudReleased` also exempts the two returns that
forget the HUD (`stranded`), `LoginHasDocument` the step in which the server
refuses a set-up: `createUser` reports the error and then success. Each of these
exemptions is a defect that the models contain, not one that the properties rule
out. Where `show()` may fail to show the HUD, operations overlap, and
`OwnProfile`, `NeverOverwritten`, `LoginHasDocument`, `AvatarOwn`,
`OwnPostsFound` and `ImageResults` fail.

`NoPostLost` excepts answers that already wait when somebody signs in or out: the
user's own unconfirmed posts laid over them are those of whoever was signed in when
they came. `SuccessShown` and `BoxAppears` exempt a query that is answered with an
error, after which nothing asks again, and so does `PageFilled` for the read of the
profile by `fetchPosts`.

**Overtaken answers.** Neither the feed nor the search by keyword compares an
answer with what was asked last (`fetchPosts`, `searchKeyword`), and the models let
both be asked again without waiting. So a category can be selected before the
first load is answered, its posts come first, and those of the first load replace
them under the highlighted category; and of two keywords sent in a row the second
can be answered first. Nothing corrects either until the user asks again, and no
property claims otherwise: one that did would hold only for a user who waits. The
search by image has no such check either, and is right because of the HUD alone,
which is what `ImageResults` says.

**The `stale_delete` trace.** A refused set-up lets an account without a
document in (`createUser` goes on after an error). It taps "Delete Account",
signs out before the answer, signs in again and, having no document, is asked
to set up; it taps "Next", the deletion is answered during the upload, signs the
user out, and `createUser` finds nobody signed in.

**Other behaviours of the code that the models contain** and that no property
claims away: save, share, the creator's button, follow, block and the saved tab
unwrap a post or a profile that is not there (`TapButton`, `TapWithoutUser`);
"Success" is shown for a post whose upload then fails (`ImageFails`); a post may
be signed by the account that signed in during the upload (`ImageUploaded`); a
comment tapped twice is stored twice (`Send`); a creator's page opened offline with
nothing cached, covered, and shown again online has its labels and its followers but
never its posts (`NoProfile`, `Uncover`).

### Fairness

Weak throughout, and never of the user, of failures or of restarts.

* `UserLists`: getting a document is answered, by the server or by the cache;
  the main queue runs completions (`Callback`); a device that has pending writes
  gets back online and its stream is served (`Commit`, `Ack`: the SDK retries
  with backoff for ever).
* `AccountSession`: an outstanding callback is called (Auth, Storage and
  Firestore complete every request, with an error if need be, and a pending
  write when its account is signed in and online).
* `AccountSwitch`: an upload or a read ends, one way or the other, and the
  server answers the oldest write of the current account.
* `Feed`, `PostPage`, `CreatorPage`: the SDK answers a query or a read, if only
  with an error, and the main queue delivers the answers.
* `Searches`: Alamofire answers every request, if only with a timeout.

Failing forever satisfies the fairness: it is of the disjunction of success and
failure. What must hold then holds without luck.

## 4. Proofs

All theorems are checked by TLAPS for arbitrary constants, from the named
assumptions of the modules and, where a theorem says so, from one on the HUD, on
the devices or on taps that wait for an answer. They cover what the runs restrict: any
number of accounts, taps, requests, comments and posts, broken streams and
refusals everywhere. Every safety property of a passing run is proved, every
invariant was model-checked before, and every proof is of the same form: the
initial states satisfy an inductive invariant, each action keeps it, it implies
the property (or, for an action property or a refinement, each step from it
does).

*`UserListsProofs`*, from `FieldsAssumption`, `ListsAssumption`,
`BoundsAssumption` and `NoneAssumption`:

* `TypeCorrect`: `Spec => []TypeOK`. `TypeOK` carries what typing needs: stream
  counters stay within the queue and a queued tap has a request.
* `ButtonTellsTruth`: `Spec => []AtRestAgreement`. The property is not
  inductive: an acknowledgement sets `appUser` to the list of *its* tap, which is
  the server's list only if no later write of the field was applied. The
  invariant `RestInv` adds: a queue holds its device's own taps, each once and,
  without restarts, with a live callback (`QueueInv`); what a stream committed was
  applied (`CommittedInv`); a device none of whose queued writes of a field was
  ever applied agrees with the server unless another device wrote it
  (`CacheInv`; "ever" is what makes a replay after `StreamReset` harmless); and
  the last committed write of a field is what the server holds (`DocInv`). The
  hard step is `Ack`: if it was the last committed write of its field, `DocInv` gives
  the agreement, otherwise a later applied write is still queued and `CacheInv`
  says nothing.

* `BlocksKeptAlways`, for one device (`SingleDevice`: any two are the same), with
  every overlap, restart, offline read, refusal and broken stream;
  `SavesKeptAlways`, for one device too and a user who waits (`MaxInFlight <= 1`).
  `Wanted(d, f, k)` collects what the device has promised and nobody asked to take back:
  the items of the answered taps and of the first `k` writes in its queue.
  `KeptInv` says that the server's list has what was answered or committed, the
  cached one what was answered or seen, a queued list what is queued up to it,
  and a snapshot all of it. What makes it inductive is that taps on the list come
  one at a time (`Serial`), because the user waits or because the HUD of the only
  device makes them: then nothing is queued between a snapshot and its write. Two
  devices have two HUDs, and `BlocksKept` does not hold for them.
* `AtomicRequestsAlways`: on any number of devices, `UserLists` implements
  `AtomicLists`, for a user who waits, no offline reads and no restarts
  (`Patient`). `AtomicInv` says of the request under way on a list that its
  snapshot is the server's list, that the list it writes is the edit of the
  server's, and that once the server has applied it, it *is* the server's. Hence the
  step mapping: `Tap` is `Ask`, a first `Commit` is `Apply`, a replayed one a
  stutter, `Ack` is `Answer`, `Reject` and `GetFails` are `Drop`, the rest are
  stutters. It also gives `SavesKept` on several devices.
* `NoDuplicatesAlways` and `AlertMatchesButtonAlways`, for one device, a user who
  waits and initial lists without duplicates. `TogglesInv` says that while
  nothing is under way on a list, server, cache and `appUser` have the same
  (`Settled`), and that the request under way was decided on an `appUser` that
  stays until its answer, which is the list its edit starts from (`Editing`). A list
  is looked at only until a restart took an answer, after which the properties claim
  nothing either.
* `AnswersTrueAlways` and `AnswersComingAlways`, for any devices and every overlap:
  success is only reported of a write the server has applied, an error only of
  one it has not (that one it accepted is not refused on its replay is part of
  the model, see `Reject`); and a tap that waits for an answer has its write in
  the queue.

*`AccountSessionProofs`*, from `NoneAssumption`:

* `SessionTypes` (`TypeOK`) and `MembersOnlyAlways` (`MembersOnly`) hold whatever
  the HUD does.
* `HudHeldAlways`, whatever the HUD does: it is up only for an operation whose end
  hides it, or after one of the two returns that forget it (`stranded`).
* `OneOperation` (`OneHolder`: no two operations run under the HUD at once),
  `OwnProfileAlways`, `SetUpSafe` (`NeverOverwritten`) and
  `LoginHasDocumentAlways` assume `HudReliable`.
  The invariant `SessionInv` says that a busy operation has the HUD and its page
  in place (`HudInv`), that it works for the current user or for an account that
  has been deleted (`CurrentInv`), that behind a sheet there is no profile but a
  deleted account's (`ProfileInv`), which is why a finished sign-in cannot meet
  somebody else's, and that the set-up page is only ever open for an account
  without a document (`SetUpInv`). `LoginHasDocument` adds that a set-up which
  waits for its answer is in the queue (`CreateQueued`).

*`AccountSwitchProofs`*, from `NoneAssumption`:

* `SwitchTypes` and `ServerOwnAlways`, whatever the HUD does. `ListsInv` adds to
  both that every queued tap is queued once, for its target, and what each
  operation holds is its own account's (`OpFine`): a save's list is within what
  its target saved.
* `AvatarOwnAlways` and `OwnPostsFoundAlways` assume `HudShows`. `EditsInv` adds
  that an edit under way has the HUD up and works for the account that tapped
  "Done" (`EditsOrderly`), that the cached profile is that of whoever is signed in
  (`OwnCache`), and that every avatar anywhere, in documents, cached
  profile, queued posts and posts, is the one URL of its account (`SameAvatars`).
* `HudHeldAlways`, whatever the HUD does: until an account is deleted, the HUD of
  an edit waits for an upload or for a write in the queue that is being served.

*`FeedProofs`*, from the assumptions of `Feed`:

* `FeedTypes` and `NoBlockedArrivesAlways`. The invariant says
  that what an answer or the page holds is known to the server or pending.
* `NoPostLostAlways`: unless somebody signed in or out behind them, of two answers
  to one question the later has all of the earlier that will last (what the server
  has, and the user's own on their way), and so has every waiting answer of what is
  on the page (`InOrder`): the cache has every document shown as soon as the server
  has. When the last waiting answer is taken nothing is left to be out of order, and
  `switched` starts over.
* `RefreshAwaitedAlways`: the header turns only while a request or an answer is
  under way.

*`PostPageProofs`*, from the assumptions of `PostPage`: `PageTypes`,
`SuccessKeptAlways` and `ListAwaitedAlways` (a loaded page that lacks its text view
or an answered comment has a list under way, unless the last query failed). The
invariant says that a comment answered with
"Success" is in the cache (`PageOK`) and in every waiting list (`AnswerOK`), and
that a list which waits behind the success of a comment has that comment
(`InOrder`).

*`WaterFallProofs`*, from the assumptions of `WaterFall`: `LayoutTypes`,
`NeverOverlap`, `ScrollsToAllAlways`, `FramePerPostAlways`, and two facts no run
checks: `TopRowAlways` (the posts that begin a column, and only they, lie at
the top, which is what the code's `index >= cols` stands for) and
`BalancedAlways` (no column gets ahead of another by more than a post and its
gap). The invariant: the loop is where the frames end, columns end below their
frames, an empty column ends at the top inset, and the first posts take one
column each (`ColumnsEnd`, `InOrder`).

*`SearchesProofs`*: `SearchTypes` and `HudHeldAlways` (the HUD is up only for a
search under way) whatever the HUD does; `ImageResultsAlways` assumes `HudShows`
and shows that the search by image implements `LatestAnswer`. The invariant
`OneJob` says that the image on the page is the only one searched for, and that
the HUD is up as long as it is.

*`CreatorPageProofs`*, from the assumptions of `CreatorPage`:

* `PageTypes` needs that the application only stops with the page in front.
* `ProfileNeverOlderAlways`: `PageInv` orders the profiles there are by age: what
  the labels show, what waits, in the order it waits, what is cached, what the
  server has. Offline answers keep that order because they come from the cache,
  which every earlier answer is no newer than.
* `RestAwaitedAlways`: a page that is there has its posts or has asked for them,
  unless `fetchPosts` was answered with an error; and with its labels it has the
  number of its followers, or has asked for it. The two chains of calls are
  followed separately (`PostsComing`, `CountComing`), from the read over its answer and
  the query to the query's answer, through covers and repeated reads.

**Model-checked only.** The properties under fairness, which are beyond the prover:
`TapAnswered`, `QueueDrains`, `HudReleased`, `EditReleased`, `RefreshEnds`,
`SuccessShown`, `BoxAppears`, `HudGoes` and `PageFilled`. Of each but `QueueDrains`
the safety half is proved: nothing waits for an answer that is not on
its way (`AnswersComing`, the three `HudHeld`, `RefreshAwaited`, `ListAwaited`,
`RestAwaited`). TLC adds that what is on its way arrives.

## 5. Not modelled

* **The tab of one's own profile** (`ProfileViewController`): its posts are
  fetched once, in `viewDidLoad`, and its labels read from `appUser`. After
  another account signs in it shows the images of the one before. The order of
  events is fixed, there is nothing to explore. Following and editing, which
  start there too, are in `UserLists` and `AccountSwitch`.
* **Text recognition** (`TranslateTextViewController`): one synchronous Vision
  request per image, whose text replaces the one before.
* **The comment sheet** (`CommentViewController`) shows a copy of the list; the
  report alert changes no state; dates and the order by date are left out.
* **Decoding of documents** field by field, the Apple nonce, layout apart from
  the waterfall, animations, the settings table.
* **The SDK's** persistence format, backoff, cache eviction, transactions and
  long-lived listeners, none of which the application relies on beyond what
  is said in section 2.
* **The application shell and the vendored libraries.** Nearly all lines of the
  repository are third-party code under `src/ClipPic/Pods` (BoringSSL, gRPC,
  abseil, leveldb, Kingfisher ...). The application itself has 51 Swift
  files; only the part of Firestore it depends on is modelled with it.
