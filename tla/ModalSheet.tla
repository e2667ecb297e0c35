----------------------------- MODULE ModalSheet -----------------------------
(***************************************************************************)
(* A modal on a phone: the ModalSheet hook (assets/js/modal_sheet.js),     *)
(* which lets the sheet be pulled down to dismiss it, and the springs that *)
(* move it (spring.js).                                                    *)
(*                                                                         *)
(* A pull that goes far enough runs the modal's own cancel command once    *)
(* its spring has carried the sheet off the screen.  The server may        *)
(* decline to close the modal, so the hook looks again after a while and   *)
(* brings the sheet back.  this.anim and this.closeTimer each name one     *)
(* spring and one timer; others that were started before may still run.    *)
(***************************************************************************)
EXTENDS Naturals, FiniteSets

CONSTANTS
    MaxRechecks, \* CLOSE_MAX_RECHECKS
    MaxTouches,  \* bound: fingers put on the sheet
    MaxOpens     \* bound: times the modal is opened, and times its X is pressed

ASSUME SheetBounds == {MaxRechecks, MaxTouches, MaxOpens} \subseteq Nat

VARIABLES
    modal,    \* open: it is displayed; round: how often it was opened before
    sheet,    \* state of the hook
    place,    \* y: "rest", "between", "off" the screen
    finger,   \* one is on the sheet
    springs,  \* those that run: what each is called, where it goes, the round it began in
    anim,     \* the name this.anim holds
    timers,   \* checks that are set: each with its rechecks
    closer,   \* the name this.closeTimer holds
    asked,    \* cancel commands the server has not answered
    calm,     \* prefers-reduced-motion
    touches, opens, exits, named,
    waitedOn, \* history: the sheet was dragged again before the check of a dismissal
    strayed   \* history: a cancel command ran in a later round than its pull

sheetVars == <<modal, sheet, place, finger, springs, anim, timers, closer, asked, calm,
               touches, opens, exits, named, waitedOn, strayed>>

None == 0
SheetStates == {"idle", "pending", "dragging", "ignored", "settling"}
Displayed == modal.open

SheetInit ==
    /\ modal = [open |-> TRUE, round |-> 0]
    /\ sheet = "idle" /\ place = "rest" /\ finger = FALSE
    /\ springs = {} /\ anim = None /\ timers = {} /\ closer = None /\ asked = 0
    /\ calm \in BOOLEAN
    /\ touches = 0 /\ opens = 0 /\ exits = 0 /\ named = 0
    /\ waitedOn = FALSE /\ strayed = FALSE

Bounds == <<touches, opens, exits>>
Named(set, name) == {s \in set : s.name = name}

-----------------------------------------------------------------------------
(* What the handlers are made of: springs and timers are named as they are  *)
(* made.                                                                    *)

\* Variant: the spring is not stopped with the rest.
KeepsSpring(running, left) ==
    /\ springs' = running /\ anim' = None
    /\ timers' = left \ Named(left, closer)
    /\ sheet' = "idle" /\ place' = "rest"
    /\ UNCHANGED <<closer, named>>

\* reset: the spring and the timer that the hook knows are stopped.
ResetSheet(running, left) ==
    /\ springs' = running \ Named(running, anim) /\ anim' = None
    /\ timers' = left \ Named(left, closer)
    /\ sheet' = "idle" /\ place' = "rest"
    /\ UNCHANGED <<closer, named>>

\* animateSpring; a spring that is replaced runs on.
Spring(to, running) ==
    /\ named' = named + 1 /\ anim' = named'
    /\ springs' = running \cup {[name |-> named', to |-> to, round |-> modal.round]}
    /\ sheet' = "settling" /\ place' = "between"

SnapBack(running, left) ==
    IF calm THEN ResetSheet(running, left)
            ELSE Spring("rest", running) /\ timers' = left /\ UNCHANGED closer

\* finish of dismiss: the cancel command is run and the check is set.
Dismissed(running, round) ==
    /\ springs' = running /\ anim' = None
    /\ sheet' = "idle" /\ place' = "off"
    /\ asked' = asked + 1
    /\ strayed' = (strayed \/ round # modal.round)
    /\ named' = named + 1 /\ closer' = named'
    /\ timers' = timers \cup {[name |-> named', rechecks |-> 0]}

-----------------------------------------------------------------------------
(* Touches.                                                                 *)

\* A sheet caught on its way is dragged from where it is; otherwise it is the content
\* under the finger, scrolled to its top or not, that decides.
TouchStart ==
    /\ Displayed /\ ~finger /\ touches < MaxTouches
    /\ finger' = TRUE /\ touches' = touches + 1
    /\ IF sheet = "settling"
       THEN /\ springs' = springs \ Named(springs, anim) /\ anim' = None
            /\ timers' = timers \ Named(timers, closer)
            /\ sheet' = "dragging"
       ELSE sheet' \in {"pending", "ignored"} /\ UNCHANGED <<springs, anim, timers>>
    /\ UNCHANGED <<modal, place, closer, asked, calm, opens, exits, named, waitedOn, strayed>>

\* Only a pull down is the hook's; the threshold is not modelled.
TouchMove ==
    /\ finger /\ sheet \in {"pending", "dragging"}
    /\ \/ /\ sheet = "pending" /\ sheet' = "ignored"
          /\ UNCHANGED <<place, waitedOn>>
       \/ /\ sheet' = "dragging"
          /\ place' \in {place, "between"} \cup (IF place = "off" THEN {} ELSE {"rest"})
          /\ waitedOn' = (waitedOn \/ timers # {})
    /\ UNCHANGED <<modal, finger, springs, anim, timers, closer, asked, calm, Bounds, named,
                   strayed>>

\* touchend and touchcancel.
TouchEnd ==
    /\ finger /\ finger' = FALSE
    /\ \/ /\ sheet \in {"pending", "ignored"}
          /\ sheet' = "idle"
          /\ UNCHANGED <<place, springs, anim, timers, closer, asked, named, strayed>>
       \/ /\ sheet = "dragging"
          /\ \/ IF calm THEN Dismissed(springs, modal.round)
                ELSE Spring("off", springs) /\ UNCHANGED <<timers, closer, asked, strayed>>
             \/ SnapBack(springs, timers) /\ UNCHANGED <<asked, strayed>>
       \/ /\ sheet \in {"idle", "settling"}
          /\ UNCHANGED <<sheet, place, springs, anim, timers, closer, asked, named, strayed>>
    /\ UNCHANGED <<modal, calm, Bounds, waitedOn>>

SpringRests(s) ==
    /\ s \in springs
    /\ IF s.to = "off" THEN Dismissed(springs \ {s}, s.round)
       ELSE ResetSheet(springs \ {s}, timers) /\ UNCHANGED <<asked, strayed>>
    /\ UNCHANGED <<modal, finger, calm, Bounds, waitedOn>>

\* check: closed, the sheet is put back behind the scenes; still open with a request under
\* way it looks again, and at last the sheet comes back.
CloseCheck(t) ==
    /\ t \in timers
    /\ LET left == timers \ {t}
       IN IF ~Displayed THEN ResetSheet(springs, left)
          ELSE IF asked > 0 /\ t.rechecks < MaxRechecks
          THEN /\ named' = named + 1 /\ closer' = named'
               /\ timers' = left \cup {[name |-> named', rechecks |-> t.rechecks + 1]}
               /\ UNCHANGED <<springs, anim, sheet, place>>
          ELSE SnapBack(springs, left)
    /\ UNCHANGED <<modal, finger, asked, calm, Bounds, waitedOn, strayed>>

-----------------------------------------------------------------------------
(* The modal.                                                               *)

\* The X, Escape or a click outside run the same command.
PressX ==
    /\ Displayed /\ ~finger /\ exits < MaxOpens
    /\ exits' = exits + 1 /\ asked' = asked + 1
    /\ UNCHANGED <<modal, sheet, place, finger, springs, anim, timers, closer, calm, touches,
                   opens, named, waitedOn, strayed>>

\* The server closes the modal, or keeps it open for a confirmation.
ServerAnswers ==
    /\ asked > 0 /\ asked' = asked - 1
    /\ modal' \in {modal, [modal EXCEPT !.open = FALSE]}
    /\ finger' = (finger /\ modal'.open)
    /\ UNCHANGED <<sheet, place, springs, anim, timers, closer, calm, Bounds, named, waitedOn,
                   strayed>>

\* ysc:modal-opening
OpenAgain ==
    /\ ~Displayed /\ asked = 0 /\ opens < MaxOpens
    /\ opens' = opens + 1
    /\ modal' = [open |-> TRUE, round |-> modal.round + 1]
    /\ ResetSheet(springs, timers)
    /\ UNCHANGED <<finger, asked, calm, touches, exits, waitedOn, strayed>>

-----------------------------------------------------------------------------
SheetRuns == ServerAnswers \/ (\E s \in springs : SpringRests(s)) \/ (\E t \in timers : CloseCheck(t))
SheetNext == TouchStart \/ TouchMove \/ TouchEnd \/ PressX \/ OpenAgain \/ SheetRuns

\* Springs settle, timers fire, the server answers, a finger is lifted.
SheetFairness == WF_sheetVars(SheetRuns) /\ WF_sheetVars(TouchEnd)

SheetSpec == SheetInit /\ [][SheetNext]_sheetVars /\ SheetFairness

-----------------------------------------------------------------------------
SheetTypeOK ==
    /\ modal \in [open: BOOLEAN, round: Nat] /\ sheet \in SheetStates
    /\ place \in {"rest", "between", "off"}
    /\ \A s \in springs : s.to \in {"off", "rest"} /\ s.name \in 1..named
    /\ \A t \in timers : t.name \in 1..named /\ t.rechecks \in 0..MaxRechecks
    /\ {anim, closer} \subseteq 0..named /\ asked \in Nat
    /\ {finger, calm, waitedOn, strayed} \subseteq BOOLEAN

\* "Bring the sheet back instead of leaving it stranded off-screen": a modal that is not
\* closed is seen at its place again, whatever was pulled, answered or declined meanwhile.
SheetComesBack == Displayed /\ place # "rest" ~> ~Displayed \/ place = "rest"

\* A pull cancels the modal it was made on and never one that was opened later.  The
\* exception is named: the sheet was dragged again while a dismissal awaited its check.
PullCancelsItsModal == ~waitedOn => ~strayed
=============================================================================
