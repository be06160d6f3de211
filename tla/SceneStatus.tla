----------------------------- MODULE SceneStatus -----------------------------
(***************************************************************************)
(* What the user of the AR application is told and shown: the messages of  *)
(* StatusViewController and their timers, the coaching overlay and the     *)
(* upper controls, content hidden by an interruption, the error alert and  *)
(* the blur.  It composes the actions of ObjectLoading with their effect   *)
(* on these.                                                               *)
(*                                                                         *)
(* Everything here runs on the main queue, the session's delegate methods  *)
(* included; timers may fire in any order.                                 *)
(***************************************************************************)
EXTENDS Integers

\* As in ObjectLoading, definitions named "Mutant..." are wrong versions of the one
\* that follows them, used only to show that the properties can fail.

CONSTANTS
  Objects, HitSets, MaxTimers, MaxPlacements,  \* as in ObjectLoading
  Troubles  \* ARCamera.TrackingState other than normal: not available, or limited

ASSUME StatusAssumption ==
  /\ HitSets \subseteq SUBSET Objects
  /\ MaxTimers \in Nat /\ MaxPlacements \in Nat
  /\ Troubles \intersect {"normal", "none", "passing"} = {}

VARIABLES
  loadedObjects, isLoading, backgroundLoads, placements, isRestartAvailable,
  restartTimers, addButtonHidden, addButtonEnabled, menu,
  objectsViewController, selectedRows, enabledRows, crashed, timerCutIn

L == INSTANCE ObjectLoading

loadingVars == <<loadedObjects, isLoading, backgroundLoads, placements,
                 isRestartAvailable, restartTimers, addButtonHidden,
                 addButtonEnabled, menu, objectsViewController, selectedRows,
                 enabledRows, crashed, timerCutIn>>

VARIABLES
  tracking,       \* the tracking state that was last reported
  interrupted,    \* the session was interrupted and has reported nothing since
  hidden,         \* the objects whose isHidden is set
  coachingActive, \* coachingOverlay.isActive
  upperControlsHidden,
  scheduled,      \* timers: the hints whose timer is running
  escalation,     \* timers[.trackingStateEscalation]: the state it is about, or "none"
  message,        \* on the panel: "none", a "passing" message, or advice on a trouble
  hideTimer,      \* messageHideTimer is running
  appActive,      \* the application has the touches: it has not resigned active
  blurred,        \* blurView is shown
  alert,          \* the error alert is presented
  alertLost       \* auxiliary: an error alert could not be presented; the blur is its

timerVars    == <<scheduled, escalation>>
panelVars    == <<message, hideTimer>>
screenVars   == <<appActive, blurred, alert, alertLost>>
coverVars    == <<coachingActive, upperControlsHidden, screenVars>>
contentVars  == <<tracking, interrupted, hidden>>
statusVars   == <<timerVars, panelVars, coverVars, contentVars>>
vars         == <<loadingVars, statusVars>>

Hints == {"planeEstimation", "contentPlacement", "focusSquare"}

-----------------------------------------------------------------------------
(* Messages. *)

\* showMessage with autoHide: the hide timer starts anew.
ShowPassing == message' = "passing" /\ hideTimer' = TRUE

\* showMessage without: the timer of the message before is cancelled.
MutantAdviceKeepsTimer(trouble) == message' = trouble /\ hideTimer' = hideTimer
ShowAdvice(trouble) == message' = trouble /\ hideTimer' = FALSE

HideTimerFires ==
  /\ ~crashed
  /\ hideTimer
  /\ hideTimer' = FALSE
  /\ message' = "none"
  /\ UNCHANGED <<loadingVars, timerVars, coverVars, contentVars>>

HintTimerFires(hint) ==
  /\ ~crashed
  /\ hint \in scheduled
  /\ scheduled' = scheduled \ {hint}
  /\ ShowPassing
  /\ UNCHANGED <<loadingVars, escalation, coverVars, contentVars>>

\* The block of escalateFeedback: the advice stays until there is another message.
EscalationTimerFires ==
  /\ ~crashed
  /\ escalation # "none"
  /\ escalation' = "none"
  /\ ShowAdvice(escalation)
  /\ UNCHANGED <<loadingVars, scheduled, coverVars, contentVars>>

-----------------------------------------------------------------------------
(* The session. *)

\* cameraDidChangeTrackingState: trouble is announced and, if it lasts, escalated;
\* normal tracking shows the content again.
MutantEscalationGoesOn(state) == IF state = "normal" THEN escalation ELSE state
EscalationAfter(state) == IF state = "normal" THEN "none" ELSE state
TrackingChanges(state) ==
  /\ ~crashed
  /\ state # tracking
  /\ tracking' = state
  /\ interrupted' = FALSE
  /\ ShowPassing
  /\ escalation' = EscalationAfter(state)
  /\ hidden' = IF state = "normal" THEN {o \in hidden : ~L!Loaded(o)} ELSE hidden
  /\ UNCHANGED <<loadingVars, scheduled, coverVars>>

\* sessionWasInterrupted.
Interruption ==
  /\ ~crashed
  /\ interrupted' = TRUE
  /\ hidden' = hidden \union {o \in Objects : L!Loaded(o)}
  /\ UNCHANGED <<loadingVars, timerVars, panelVars, coverVars, tracking>>

\* The main-queue block of didAdd for a plane.
PlaneDetected ==
  /\ ~crashed
  /\ scheduled' = (scheduled \ {"planeEstimation"})
       \union {hint \in {"contentPlacement"} : \A o \in Objects : ~L!Loaded(o)}
  /\ ShowPassing
  /\ UNCHANGED <<loadingVars, escalation, coverVars, contentVars>>


-----------------------------------------------------------------------------
(* The error alert and the blur. *)

\* The application takes touches, and they go to what is below the alert.
Touchable == appActive /\ ~alert

\* displayErrorMessage: the alert cannot be presented while something else is.
SessionFails ==
  /\ ~crashed
  /\ blurred' = TRUE
  /\ alert' = (alert \/ menu = "closed")
  /\ alertLost' = (alertLost \/ (~alert /\ menu # "closed"))
  /\ UNCHANGED <<loadingVars, timerVars, panelVars, contentVars,
                 coachingActive, upperControlsHidden, appActive>>

\* "Restart Session", the only button of the alert: resetTracking alone.
MutantBlurStays == UNCHANGED <<blurred, alertLost>>
Unblur == blurred' = FALSE /\ alertLost' = FALSE
RestartSession ==
  /\ ~crashed
  /\ appActive
  /\ alert
  /\ alert' = FALSE
  /\ Unblur
  /\ scheduled' = scheduled \union {"planeEstimation"}
  /\ UNCHANGED <<loadingVars, escalation, panelVars, contentVars,
                 coachingActive, upperControlsHidden, appActive>>

\* applicationWillResignActive and applicationDidBecomeActive.
ResignActive ==
  /\ ~crashed
  /\ appActive
  /\ appActive' = FALSE
  /\ blurred' = TRUE
  /\ UNCHANGED <<loadingVars, timerVars, panelVars, contentVars,
                 coachingActive, upperControlsHidden, alert, alertLost>>

BecomeActive ==
  /\ ~crashed
  /\ ~appActive
  /\ appActive' = TRUE
  /\ Unblur
  /\ UNCHANGED <<loadingVars, timerVars, panelVars, contentVars,
                 coachingActive, upperControlsHidden, alert>>

-----------------------------------------------------------------------------
(* The coaching overlay comes and goes by itself. *)

CoachingActivates ==
  /\ ~crashed
  /\ ~coachingActive
  /\ coachingActive' = TRUE
  /\ upperControlsHidden' = TRUE
  /\ UNCHANGED <<loadingVars, timerVars, panelVars, contentVars, screenVars>>

\* coachingOverlayViewDidDeactivate.
MutantControlsWaitForRestart == upperControlsHidden' = ~isRestartAvailable
ShowControls == upperControlsHidden' = FALSE
CoachingDeactivates ==
  /\ ~crashed
  /\ coachingActive
  /\ coachingActive' = FALSE
  /\ ShowControls
  /\ UNCHANGED <<loadingVars, timerVars, panelVars, contentVars, screenVars>>

-----------------------------------------------------------------------------
(* Frames, the menu, loading and placement. *)

\* updateFocusSquare: without an object in view, nor the overlay, the hint is
\* scheduled anew; a surface cancels it.
MutantHintStays(inView) ==
  IF inView \/ coachingActive THEN scheduled ELSE scheduled \union {"focusSquare"}
HintsAfterHit(inView) == scheduled \ {"focusSquare"}
HintsAfterMiss(inView) ==
  IF inView \/ coachingActive THEN scheduled ELSE scheduled \union {"focusSquare"}

FrameHit(inView, refresh, hits) ==
  /\ L!FrameHit(coachingActive, refresh, hits)
  /\ scheduled' = HintsAfterHit(inView)
  /\ UNCHANGED <<escalation, panelVars, coverVars, contentVars>>

FrameMiss(inView) ==
  /\ L!FrameMiss
  /\ scheduled' = HintsAfterMiss(inView)
  /\ UNCHANGED <<escalation, panelVars, coverVars, contentVars>>

ShowMenu ==
  /\ Touchable
  /\ L!ShowMenu
  /\ scheduled' = scheduled \ {"contentPlacement"}
  /\ UNCHANGED <<escalation, panelVars, coverVars, contentVars>>

DismissOutside    == Touchable /\ L!DismissOutside /\ UNCHANGED statusVars
FinishDismissal   == L!FinishDismissal /\ UNCHANGED statusVars
SelectObject(o)   == Touchable /\ L!SelectObject(o) /\ UNCHANGED statusVars
DeselectRow(o)    == Touchable /\ L!DeselectRow(o) /\ UNCHANGED statusVars
BackgroundLoad(o) == L!BackgroundLoad(o) /\ UNCHANGED statusVars

\* placeVirtualObject: an object that an interruption has hidden is shown.
MutantStaysHidden(o) == hidden
ShownWhenPlaced(o) == hidden \ {o}
PlaceInScene(o) ==
  /\ L!Place(o, TRUE)
  /\ hidden' = ShownWhenPlaced(o)
  /\ UNCHANGED <<timerVars, panelVars, coverVars, tracking, interrupted>>

PlaceRejected(o) ==
  /\ L!Place(o, FALSE)
  /\ ShowPassing
  /\ UNCHANGED <<timerVars, coverVars, contentVars>>

-----------------------------------------------------------------------------
(* Restarting. *)

\* restartExperience, from the button among the upper controls or from the overlay.
RestartExperience ==
  /\ Touchable
  /\ ~upperControlsHidden \/ coachingActive
  /\ L!RestartExperience
  /\ scheduled' = {"planeEstimation"}
  /\ escalation' = "none"
  /\ UNCHANGED <<panelVars, coverVars, contentVars>>

\* The asyncAfter block also shows the upper controls, overlay or not.
RestartTimerFires ==
  /\ L!RestartTimerFires
  /\ upperControlsHidden' = FALSE
  /\ UNCHANGED <<timerVars, panelVars, coachingActive, contentVars, screenVars>>

-----------------------------------------------------------------------------
\* After viewDidAppear, which resets the tracking.
Init ==
  /\ L!Init
  /\ tracking \in Troubles
  /\ interrupted = FALSE
  /\ hidden = {}
  /\ coachingActive = FALSE
  /\ upperControlsHidden = FALSE
  /\ scheduled = {"planeEstimation"}
  /\ escalation = "none"
  /\ message = "none"
  /\ hideTimer = FALSE
  /\ appActive = TRUE
  /\ blurred = FALSE
  /\ alert = FALSE
  /\ alertLost = FALSE

Next ==
  \/ HideTimerFires
  \/ \E hint \in Hints : HintTimerFires(hint)
  \/ EscalationTimerFires
  \/ \E state \in Troubles \union {"normal"} : TrackingChanges(state)
  \/ Interruption
  \/ PlaneDetected
  \/ SessionFails
  \/ RestartSession
  \/ ResignActive
  \/ BecomeActive
  \/ CoachingActivates
  \/ CoachingDeactivates
  \/ \E inView, refresh \in BOOLEAN, hits \in HitSets : FrameHit(inView, refresh, hits)
  \/ \E inView \in BOOLEAN : FrameMiss(inView)
  \/ ShowMenu
  \/ DismissOutside
  \/ FinishDismissal
  \/ \E o \in Objects : SelectObject(o)
  \/ \E o \in Objects : DeselectRow(o)
  \/ \E o \in Objects : BackgroundLoad(o)
  \/ \E o \in Objects : PlaceInScene(o)
  \/ \E o \in Objects : PlaceRejected(o)
  \/ RestartExperience
  \/ RestartTimerFires

Spec == Init /\ [][Next]_vars

-----------------------------------------------------------------------------
(* Properties. *)

\* The loader is as ObjectLoading says, hints and states are of the known kinds,
\* and only objects are hidden.
TypeOK ==
  /\ L!TypeOK
  /\ tracking \in Troubles \union {"normal"}
  /\ interrupted \in BOOLEAN
  /\ hidden \in SUBSET Objects
  /\ coachingActive \in BOOLEAN
  /\ upperControlsHidden \in BOOLEAN
  /\ scheduled \in SUBSET Hints
  /\ escalation \in Troubles \union {"none"}
  /\ message \in Troubles \union {"none", "passing"}
  /\ hideTimer \in BOOLEAN
  /\ <<appActive, blurred, alert, alertLost>> \in BOOLEAN \X BOOLEAN \X BOOLEAN \X BOOLEAN

\* Advice on a trouble, on the panel or about to come, is about the tracking state
\* that was last reported: it never outlives the trouble, whatever other messages,
\* timers and restarts come in between.
AdviceFitsTracking ==
  /\ escalation # "none" => tracking = escalation
  /\ message \in Troubles => tracking = message

\* The hide timer runs exactly while a passing message is on the panel: every hint
\* goes away, and no timer of an earlier message takes advice off the panel.
HideTimerFitsMessage == hideTimer <=> message = "passing"

\* The upper controls, and the restart button among them, are hidden only by the
\* coaching overlay, although the restart timer knows nothing of the overlay.
ControlsReachable == upperControlsHidden => coachingActive

\* The user is not about to be told to look for a surface while the add button says
\* that there is one.
HintOnlyWithoutSurface == "focusSquare" \in scheduled => addButtonHidden

\* The screen of an active application stays blurred only under an error alert, however
\* errors, presentations and switches of the application overlap; the one exception is
\* an error that came while the menu was presented, so that no alert could be.
BlurIsExplained == blurred /\ appActive => alert \/ alertLost

\* Under normal tracking every placed object is visible, although an interruption
\* hides what is loaded and only what is loaded is shown again: an object removed
\* while hidden and chosen again later is shown by its placement.
PlacedIsVisible ==
  ~timerCutIn /\ tracking = "normal" /\ ~interrupted =>
    \A o \in hidden : L!Loaded(o) => L!Pending(o)

=============================================================================
