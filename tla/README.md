# A TLA+ verification of the furniture project

The repository is a final-year project with three programs that share a theme
(furniture) and no state:

* `AR mode/ARKitInteraction`: an ARKit application, in Swift, that places
  furniture in the room;
* `web ar/bear-api` and `web ar/react-bear`: an Express service with a list of
  furniture (called "bears" in the code) and React/redux clients;
* `AR Store/StartupStore`: an iOS store with a local SQLite database, a list of
  products, a detail screen and a cart.

This directory models the logic of the three, checks it on small instances with
TLC, and proves the main invariants with TLAPS. The models are read from the
code; a finding quotes the comment or message that the code contradicts.

## Inventory

### A. The AR application

| Part | State | Operations | Hard behaviour |
|---|---|---|---|
| `VirtualObjectLoader` | `loadedObjects`, `isLoading` | `loadVirtualObject`, `removeVirtualObject(at:)`, `removeAllVirtualObjects` | the flag is set on the main queue and cleared on a background queue; the object is appended before it is ready and placed after the flag is cleared |
| Selection menu (`VirtualObjectSelectionViewController` and the `ViewController+ObjectSelection` delegate) | `selectedVirtualObjectRows`, `enabledVirtualObjectRows`, the reference `objectsViewController` | show, select, deselect, refresh, dismissal | rows are a snapshot taken when the menu opens, while loads, rejections and frames go on; the menu stays on the screen, without touches, while its dismissal is animated |
| Restart (`ViewController+Actions`) | `isRestartAvailable`, a five-second `asyncAfter` | `restartExperience` | the timer and the end of a load both enable the button, neither knows of the other |
| Scene | child nodes, tracked raycasts, session anchors, the serial `updateQueue` | `placeVirtualObject`, raycast handler, `addOrUpdateAnchor`, delegate callbacks, session reset | four threads: main, background, update queue, SceneKit; an anchor block may run after what it is about was removed |
| Gestures (`VirtualObjectInteraction`) | `selectedObject`, `trackedObject`, `shouldUpdateAnchor` | tap, pan (began, changed, ended, cancelled), rotate | a drag outlives the object that it drags |
| Status messages, coaching overlay, alert, blur | timers per message type, hidden views, what is presented | schedule, cancel, show, fail, resign and become active | several timers show and hide one view; an alert cannot be presented over a menu; two owners of the blur |
| Focus square | `state`, `isOpen`, `isAnimating`, segments, pulse, flash, fades, orientation counter | `state` set on `updateQueue`, hidden and unhidden on the main queue, completion blocks of animations | requests during an animation are dropped; segments move by relative amounts; fades overlap |

Correct means: loads do not overlap; an object is not loaded twice; a placement
that is rejected is undone; the menu shows what is loaded; disabled buttons are
enabled again; nothing but loaded objects is shown, dragged or raycast for; no
anchor is lost; an object at rest stands at its anchor; the screen is blurred only for
a reason; the focus square ends in the shape of what it lies on.

Objects and controllers call one another directly on the main queue; the
background queue, `updateQueue`, SceneKit's `prepare` and the timers call back
by enqueuing blocks. Those blocks are what the models interleave.

### B. The web service and its clients

The service keeps `bears`, an array in memory, with `GET`, `POST`, `PUT`,
`DELETE` on `/api/bears`. A client keeps `state.bears` in a redux store and
changes it, after an answer, from what its click handler captured, without
looking at the answer (`GET` excepted). Hard: requests and answers are lost and
overlap, several browsers write, the process restarts with the first list.
Correct means: ids identify bears, a client that works alone keeps an exact
copy of the fields that are read, a `DELETE` removes what it names; seen from outside, a
table of rows.

In the deployed `App.js` the pages that add, change and delete (`InputForm`,
`BearList`) are commented out and only `Home`, which reads the list, is routed.
The components are in the source, complete, and the model includes them.

### C. The store

The `cart` table persists; the screens keep a badge, the rows read, the
accumulated total and the visibility of the bar and the labels. Hard: the total
is accumulated in `cellForRowAt`, which the table view calls when it likes; the
badge is written by three screens with two different rules. Correct means: the
badge counts the cart, the rows are those of the table, the total is the sum.

The stock of a product in the list is 0 or 1. The stepper of a row runs from 1
to the stock, so its value never changes and `stepper(_:)` is never called: a
quantity is 1 and the cart is a set.

The list of products is on the screen in three places: the shop's tab, the
members' tab after sign-up or login, and, once the log-in service has answered in
time, alone as the home screen, without a tab bar. The buttons of both forms carry a
segue to the list that is performed whatever the fields hold and whatever the
service says; its answer comes before, during or after the transition.

The stepper, drop-down and slide-show widgets are copies of public libraries,
independent of the above. Pods, `node_modules`, the copy of FMDB, the React
build and the Xcode test templates are third-party or generated.

## Modules

| Module | Models | Composition |
|---|---|---|
| `ObjectLoading` | loader, menu, add and restart buttons, restart timer | on its own; leaves open whether a placement succeeds |
| `ObjectScene` | placement, tracked raycasts, anchors and their updates, `updateQueue`, tap and pan | each action is one of `L == INSTANCE ObjectLoading` with its effect on the scene, or leaves the loader alone; decides placements |
| `SceneStatus` | message timers, tracking changes, interruptions, errors, coaching overlay, upper controls, alert and blur, hidden content | like `ObjectScene`: each action is one of `L`'s with its effect, or leaves the loader alone |
| `FocusSquare` | the square's states, animations, fades and orientation | on its own; `ObjectScene` keeps of it whether it is initializing, which is what a placement reads |
| `BearTable` | what the service promises: rows under increasing ids | the abstract specification of the service |
| `BearServer` | the routes of the service and its restart | implements `BearTable` under `Table == INSTANCE BearTable WITH rows <- ..., FirstRows <- ...` |
| `BearClients` | the redux stores, the requests under way, the network | EXTENDS `BearServer`, each handling of a request is one of its actions |
| `ShopCart` | cart table, badge, the three lists, cart screen, members' tab, launches | |
| `MC...` | instances for TLC | |
| `...Proofs` | theorems | each EXTENDS the module it is about |
| `FoldTheorems` | lemmas: induction, recursion over finite sets | used by the proofs of clients and store |

Definitions whose names begin with `Mutant` are wrong versions of a definition:
for each property there is one that breaks it. No action uses them.

### `ObjectLoading`

One action per block that runs on a queue. `SelectObject` is the tap on an
unmarked row (`loadVirtualObject` with everything it calls on the main queue),
`BackgroundLoad` its body on the global queue, `Place` the completion handler
on the main queue after SceneKit's preparation, `DeselectRow` the tap on a
marked row, `RestartExperience` and `RestartTimerFires` the two halves of a
restart. `FrameHit` and `FrameMiss` are the two outcomes of the frame update.
Whether a placement succeeds is a parameter of `Place`. `loadedObjects` is the
array as a bag, since only the order is left out and objects are compared by
identity. `fatalError` sets `crashed`, after which nothing happens.

`timerCutIn` is auxiliary: it records that a restart timer fired while a load
was unfinished. Several properties hold up to that event; the run
`programmer_error` shows what may happen after it.

### `ObjectScene`

Rotations and hit tests are forgotten, and of a position one bit is kept,
`atAnchor`: whether the object stands where the anchor it refers to is. Otherwise
the model says which object is in the scene, which tracked raycast updates which
object, and which anchors the session holds. `RaycastResult` is a callback of ARKit;
an initial result adds the node and asks for an anchor, a later one moves it.
`AnchorMoved` is `renderer(didUpdate:)`, whose block (`RunUpdateBlock`) moves the
loaded object that has the anchor by then. The three `Run...Block` actions take the
head of `updateQueue`. `RestartSession` is the button of the error alert:
`resetTracking` alone, whatever is loaded, placed or dragged.

`dragRemoved` and `dragAbandoned` are auxiliary: the objects removed while a pan was
tracking them, and those with a cancelled pan that may have moved them. The code lets
such a pan go on, so that an object of the first set may come back into the scene
without being loaded. The properties except that object and no other
(`Undisturbed(o)`), and `GesturesActOnLoaded` says that no tap or new pan takes hold
of it before it is loaded again. The second set is an exception of
`AnchorsHoldObjects` alone: a cancelled pan leaves the object without a tracked raycast
and with the anchor of where it was. An anchor block may find its object removed;
`AnchorsAskedForLoaded` says that it was then asked for before the removal.

### `SceneStatus`

`scheduled` and `escalation` are the live entries of `timers`: a fired timer
stays in the dictionary of the code, invalid, and cancelling it again does
nothing. `message` is what the panel shows: nothing, a passing message, or
advice that stays. Texts are left out except what advice is about, and so are
durations: a pending timer may fire at any time, in any order, so the invariants
do not depend on 3, 5, 6 or 7.5 seconds. `hidden` is `isHidden` of each object.
`tracking` is the state last reported to the delegate; the camera that a frame
reads may be ahead of it, so a frame may see a surface in any state.
Whether an object is in view is read on the render thread and may be stale when
the main queue acts on it, so it is left open too. The overlay comes and goes by
itself.

`SessionFails` is `displayErrorMessage`: it blurs the screen and presents the
alert, which UIKit refuses while the menu is presented (`alertLost`, auxiliary,
records it). The application also blurs the screen when it resigns active and
clears it when it becomes active again, whatever the alert does. Every action of the
user needs the touches (`Touchable`).

### `FocusSquare`

The main queue hides or unhides the square once a frame and queues a block with what
the frame's raycast has hit; `RunBlock` sets `state` and so runs its `didSet`. A
`detecting` state carries a raycast result of its own and therefore always differs
from the one before; only `initializing` equals itself. `transactions` are those whose
completion blocks are outstanding; closing has two, one inside the other. `offset`
counts how often the segments are displaced by the constant distance between open and
closed. Two fades may overlap, and then end in either order. `flashes` is auxiliary.
Whether the camera points down is a parameter of the block.

### `BearServer` and `BearClients`

Node runs one handler at a time, so a request is handled in one action. A form
(name, weight, image) is one value: nothing in the code tells its parts apart
except the missing weight, which is under "What is not modelled". `BearTable` leaves
open which row a `DELETE` removes: the code removes one in any case, which is
finding 3. `Without` is the store's `filter`, a walk over the list, and `Updated` its `map`. A client's slot holds a
request that was sent, handled, and not yet received. `undisturbed` is
auxiliary and says exactly under which conditions a client may be said to work
alone: since a `GET` nobody else changed the list, its requests did not
overlap, and no answer was lost.

### `ShopCart`

`AskForRows` is `cellForRowAt` for a run of rows. `ReadData` is a read of the
table with the layout that follows; `Scroll` brings one row into view. `asked`
is auxiliary: the rows that were asked for since the last read.

`detail` has an entry for each of the three lists, since the members' tab keeps its
detail screen while another tab is shown. `TapForm` is a tap on a form's button with its
segue; `SignedIn` and `Refused` are the answer while the form is still in the window,
which is until `EnterList`; after that `view.window` is nil and an answer changes no
screen. `SignedIn` replaces the root of the window, so that `tab` and `members` no
longer matter until a launch. UIKit ignores touches during the transition and pops the
members' tab when it is tapped again.

## Runs

| Run | Shows | Instance |
|---|---|---|
| `object_loading` | seven invariants and `ControlsComeBack` over all interleavings of loads, placements, taps and restarts | 2 objects that may find places independently; 2 timers, 2 placements per object |
| `programmer_error` | the trap in `didDeselectObject` is reachable: restart, load, timer, restart, rejected placement | as above, with symmetry |
| `restart_window` | a load that ends within five seconds of a restart makes restart available | as above |
| `scene_calm` | the scene, the raycasts, the gestures and the requests for anchors concern loaded objects, but for one removed under a finger | 2 objects, 3 raycasts, 3 anchors, 1 block, 1 timer, 1 placement per object; only states within `CalmOneDragRemoved`, seen without anchors and positions |
| `scene_any` | types, anchors and `AnchorsHoldObjects`, disturbed or not | 1 object, 2 raycasts, 2 anchors, 2 blocks, 1 timer, 1 placement; only states within `NotAbandoned` |
| `scene_status` | advice, hide timer, controls, hints, blur and visibility fit the session | 1 object, 2 timers, 2 placements, 2 tracking troubles |
| `focus_square` | the segments never drift, pulse and flash fit the square, and it settles | 1 plane besides estimates and nothing, 2 blocks, an update of the orientation every 3 frames |
| `bear_clients` | ids increase, the service is a table, and a lone client has an exact copy | one client with 2 requests at a time, requests from elsewhere, ids up to 2, lists up to 2 bears, 2 forms |
| `bear_delete` | a `DELETE` for an id that is gone removes the last bear | as above |
| `shop_cart` | badge, rows, empty cart, the total after one pass and a lower bound of it in any case | 5 products, 4 of them in stock, 2 rows on the screen, up to 6 rows asked for |
| `cart_total` | scrolling back inflates the total | as above |
| `cart_hidden` | a cart shown empty and then filled beyond the screen stays without its bar | as above |

Why the bounds are enough. Two objects are what "another object is loading"
needs; a third adds no new relation since loads exclude each other. Two timers
and two placements of one object only arise through a timer that cuts into a
load, and already suffice for the trap. In the scene a placement is one whose block is
outstanding, so that one per object still allows an object to be placed, removed and
placed again. Two raycasts per object let a raycast be
replaced while the old one is still active, which is the leak to be looked for.
One object is enough for `SceneStatus`, whose properties speak of one
object at a time, and two troubles let advice on one outlive it in another. A
queue of two holds an anchor block behind a focus block or an update block, or two
anchor blocks. For the focus square one plane may be left for an estimate or for
nothing and come back; two blocks put a stale raycast result before a new one; three
frames stand for the thirty of the source, being more than the counter's start at 1.
For the service, two overlapping requests are enough to be reordered, and ids up
to 2 let a last id be used again after a deletion; one initial bear stands for
the twelve of the source (none of the handlers counts them). Four products in
stock with two rows on the screen give a cart with rows above, on and below the
screen; prices are powers of two so that two different sets of products
never have the same sum. What the bounds of the safety runs leave open the
theorems close: they hold for all constants.

The constraint `CalmOneDragRemoved` cuts the states after a restart timer has fired
during a load, where the properties of `scene_calm` claim nothing, `Calm` never becoming
true again; and of two objects it lets one be removed under a finger, so that the other
is there for the removed one to disturb. The view of that run, `WithoutPositions`,
leaves out `atAnchor` and `dragAbandoned`, which no action reads, and the anchors: three
identities always leave one that is fresh, and an update block changes no variable that
the properties of this run mention. `NotAbandoned` keeps `scene_any` small by leaving
out what follows an abandoned drag, where `AnchorsHoldObjects` claims nothing; its
other two properties are theorems, and so hold there too. The constraints
`Short` and `FewScrolls` bound lists and scrolling.

`CHECK_DEADLOCK FALSE` appears in the runs of the AR application's loader, scene and
status alone, since `fatalError` ends it.

## Fairness

`FairSpec` of `ObjectLoading` assumes weak fairness of the background queue, of the
main-queue block after a preparation, and of the timers: dispatched blocks run. That
SceneKit calls its completion handler is part of it, as its documentation promises.
Nothing is assumed of the user or of ARKit, so frames need not come and the menu
need not be closed. `ControlsComeBack` rests on it.

`Spec` of `FocusSquare` assumes weak fairness of the render loop (frames and the ends of
fades), of the update queue and of the completion blocks of transactions. Nothing is
assumed of the camera and the objects: `SettlesOnSurface` and `HiddenBehindObjects`
are about behaviours in which they stay as they are from some moment on.

The other specifications state no fairness and have no liveness property: whether a
user, a network or a service ever acts is not for the code to say.

## Theorems

| Module | Theorem | For all values of the constants |
|---|---|---|
| `ObjectLoadingProofs` | `TypeCorrect`, `LoadsAreExclusive`, `ObjectsAreLoadedOnce`, `LoadsAreUndone`, `MenuIsAccurate`, `LookupSucceeds`, `ButtonsAreOwed` | `TypeOK`, `OneLoadAtATime`, `NeverLoadedTwice`, `LoadOwnsTheScreen`, `MenuMirrorsLoaded`, `CalmNeverCrashes`, `ControlsAreOwed` |
| `ObjectSceneProofs` | `SceneTypeCorrect`, `AnchorsAreUnique`, `SceneIsLoaded`, `NoRaycastLeaks`, `GesturesAreCurrent`, `NoLateRequests`, `ObjectsAreAnchored` | `TypeOK`, `OneAnchorPerObject`, `SceneShowsLoaded`, `RaycastsAreOwned`, `GesturesActOnLoaded`, `AnchorsAskedForLoaded`, `AnchorsHoldObjects` |
| `SceneStatusProofs` | `StatusFits`, `MessagesGoAway`, `ControlsStayReachable`, `HintsFitTheSurface`, `BlurHasAReason`, `StatusTypeCorrect`, `PlacedObjectsAreVisible` | `AdviceFitsTracking`, `HideTimerFitsMessage`, `ControlsReachable`, `HintOnlyWithoutSurface`, `BlurIsExplained`, `TypeOK`, `PlacedIsVisible` |
| `FocusSquareProofs` | `SegmentsStayInPlace`, `PulseIsRight`, `PlanesFlashOnce`, `FocusSquareTypes` | `SegmentsNeverDrift`, `PulsesWhileOpen`, `FlashesOnce`, `TypeOK` |
| `BearServerProofs` | `IdsStayIncreasing`, `ServiceIsATable`, `DeleteSparesTheOthers` | `IdsIncrease`, `ImplementsTable`, and that a `DELETE` for an id in the list removes one bear |
| `BearClientsProofs` | `IdsIncreaseUnderClients`, `TableUnderClients`, `ClientTypes`, `AloneInSync` | the clients' `Spec` implements `ServerSpec`, hence `IdsIncrease` and `ImplementsTable`; `TypeOK`; `InSync` |
| `ShopCartProofs` | `BadgeIsRight`, `RowsAreCurrent`, `CartScreenIsRight`, `ShopTypes`, `OnePassShowsTheSum`, `TotalIsNeverTooLow` | `BadgeCountsCart`; the first half of `CartScreenIsCurrent`; all of it; `TypeOK`; `TotalAfterOnePass`; `TotalNotTooLow` |

The assumptions are those the modules name (`LoadingAssumption`,
`SceneAssumption`, `StatusAssumption`, `FocusAssumption`, `BearAssumption`,
`ClientAssumption`, `ShopAssumption`) and no others: the set of
objects may be any set, that of products any finite one, and the first list of
bears need only be increasing.

*Loading.* The inductive invariant is `TypeOK /\ LoadInv /\ CalmInv`. `TypeOK` is
inductive because a removal looks the object up first. `LoadInv` strengthens the
exclusion of loads with what the flag, the background queue and the open menu
have to do with `loadedObjects`: a second load could otherwise be started from a
menu whose rows are stale. `CalmInv` holds until a timer cuts into a load: a
pending load disables both buttons and keeps its slot and its menu, and only the
placement of that same load enables the buttons again, so that no restart can
take the slot away. `ControlsAreOwed` is inductive with the types and holds disturbed or
not: of `ControlsComeBack` it leaves only that dispatched blocks run.

*Scene.* Each action of the scene conjoins one of the loader's or leaves the loader
alone, so that `ObjectLoadingProofs`, instantiated as `P`, gives the facts about the
loader (`LoaderFacts`), which are not proved again. `OneAnchorPerObject` is inductive
with the types: an anchor block replaces the anchor and the reference in one step. The
four properties of calm runs need `CalmScene`, which says two things. Of each object that
was not removed under a finger: its active raycast is its current one, and whatever is in
the scene, raycast for or touched is loaded and has been placed (`ObjectCalm`). Without
the last part a placement could overwrite a raycast that is still active. And of every
object: what has content or is selected is loaded, so that a hit test, which needs
content, cannot find a removed object even where it came back. The
invariant is kept object by object: a step about one that is disturbed leaves the others
as they are. `AnchorsAskedForLoaded` and `AnchorsHoldObjects` follow from it with the
lemmas about the queue: what a step appended is one block, an append keeps a queued
anchor block, and taking another block off the queue does too.

*Status.* `StatusInv` adds to the four properties about messages and controls that
messages and states are of known kinds, without which a passing message could be
taken for advice. `BlurIsExplained` is inductive by itself. `PlacedIsVisible` needs
facts of the loader: that a rejected placement finds its object, once, and takes it
away; they come from `ObjectLoadingProofs` as they do for the scene.

*Focus square.* `OneTransaction` says that at most one transaction is under way and, for
each kind, what it has left of the flag and of the segments. With it every request
finds the square at rest or is dropped, and every completion block finds it as its
transaction left it; displacements then cancel out.

*Service.* `IdsIncrease` needs the type of the list. Lemmas say that removing
an element, dropping the last and appending one with a greater id keep a
sequence increasing. On an increasing list different positions are different rows,
so that each change of the list is one of the table (`TableStep`). Clients reach
the list through its handlers only, which is a second simulation.

*Clients.* `InSync` speaks of the moments when nothing is under way, which is too little to
be inductive. `SyncInv` says what a request of a lone client promises: until the
service has handled it the copy is the list, a `POST` has guessed the id it will get and a
`PUT` or `DELETE` names a bear of the list; after that the list is what `Reduce` will
make of the copy. The step from the one to the other is where the handlers and the
reducer must agree: on a list whose ids increase the reducer's `filter` is the service's
`splice` (`WithoutIsSplice`) and its `map` an assignment at one index
(`UpdatedIsAssignment`). With two bears of one id both would be false, so that the proof
needs `IdsIncrease`. `StoresOK` carries the types through all of this.

*Store.* The badge needs that the cart is a finite subset of what is in stock;
the rows need that whoever changes the cart while its screen is shown reads it
again. That an empty cart looks empty needs `SummaryInv`: an empty table is read from
row 1 to row 0, so that no cell brings the total back.
The number of products before a product runs through 0 to n - 1 once (`Ranks`), so
that `RowsOf` lists each product of the cart once (`RowsFacts`), and the window of rows on
the screen never leaves the list (`Window`).
`PassInv` says that rows asked for in order have been added up to the sum of their prices,
and that the last one shows it; for a finished pass this is the sum of the cart.
`EnoughInv` does so for any scrolling, as a lower bound: a row asked for again adds its
price again, and a set of rows is never worth more than what was added for it.

*Sums and filters.* Both are recursive definitions, a fold over a set and one over a
sequence, and what they compute is proved by induction. The induction is stated as a
fact about sets (`FoldTheorems`): a set of natural numbers that is not empty has a least
one, and a family of subsets of a finite set that is not empty has a smallest one; a
counterexample of least size is then contradicted. `FoldExists` gives a function for a
recursion over the subsets of a finite set; that any two such functions agree makes the
sum independent of the order in which the fold takes the products (`SumWithout`).

Only model-checked: the liveness properties `ControlsComeBack`, `SettlesOnSurface` and
`HiddenBehindObjects`. They rest on fairness, which speaks of when an action is enabled;
the provers have no rules for `ENABLED`. Their safety parts, `ControlsAreOwed`,
`SegmentsNeverDrift` and `PulsesWhileOpen`, are theorems.

## Findings

1. A restart timer that fires during a load enables restart in the middle of it.
   A second restart then empties the loader, and if the placement is rejected
   the lookup in `didDeselectObject` ends in `fatalError`
   (`ViewController+ObjectSelection.swift:108`).
2. `hideObjectLoadingUI` enables restart while a restart is still waiting for its
   five seconds (`ViewController+Actions.swift:43`).
3. `DELETE` for an id that is gone removes the last bear: `findIndex` gives -1 and
   `splice(-1, 1)` counts from the end (`bear-api/index.js:62`).
4. The total of the cart grows when rows scroll back into view
   (`ViewControllerCart.swift:169`). It is too small when a long cart is read again
   while its end is on the screen, since only the rows there are asked for; once all
   have been asked for it is not (`TotalNotTooLow`).
5. A cart that was shown empty and now has more rows than fit keeps saying that it
   is empty, without a button to order (`ViewControllerCart.swift:177`).

## What is not modelled

* Geometry: positions beyond `atAnchor`, rotation, scale, the averages and the
  rendering order of the focus square, the pan threshold. They are real numbers and no
  decision of the modelled parts depends on more than what the actions choose freely.
* Data races on `loadedObjects` and on dictionary values between the render thread
  and the main queue: they have no sequentially consistent reading.
* Durations, wording and fading of messages.
* The `fatalError` after a scene file that does not load
  (`ViewController+ObjectSelection.swift:99`): the files are part of the application.
  `ControlsAreOwed` and `ControlsComeBack` say nothing of it.
* Of resigning and becoming active, the moments between the two callbacks of each way:
  `SceneStatus` has one flag for both.
* A render that throws because a bear has no weight
  (`PictureCard2.js:12`); the second, urlencoded mount of the router; the read of
  one bear.
* The misspelled `weigth` of the initial form (`redux/store.js:6`), which bears made from
  the form keep in the store and nothing reads: copies are compared in the fields that are
  read.
* The rule for passwords (a regular expression), the messages of the forms and the
  profile document, which is written and never read.
* `GMStepper`, `SwiftyDrop`, `ImageSlideshow`: copies of public libraries whose timers
  and paging carry nothing of the store. With a stock of at most 1 the stepper never
  changes its value.
* `stepper(_:)` of the cart, for the same reason.
* Third-party and generated code: the Pods (BoringSSL, gRPC, Protobuf, Firebase and
  others), FMDB, `node_modules`, the React build, the Xcode templates. Nearly all
  lines of the repository, and all of its C, C++ and Objective-C ones, are of this
  kind; the program's own logic is the Swift and JavaScript modelled here. FMDB is
  used from the main queue only, one statement at a time, and appears as the table
  that the statements read and change.
