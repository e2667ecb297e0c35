----------------------------- MODULE SwipeSheet -----------------------------
(***************************************************************************)
(* The slide-in menu on a phone: the SwipeSheet hook                       *)
(* (assets/js/swipe_sheet.js).  Buttons open and close the menu by its     *)
(* classes; a drag takes the panel over with inline styles, and hands it   *)
(* back once classes and styles say the same.                              *)
(*                                                                         *)
(* A class change that is asked for, by a button or by the hook, lands on  *)
(* a later frame.                                                          *)
(***************************************************************************)
EXTENDS Naturals, Sequences

CONSTANTS
    MaxFrames,  \* frames the hook waits for a class change; 10 in the code
    MaxPresses, \* bound: presses of the buttons and of Escape
    MaxGrabs    \* bound: fingers put on the menu

ASSUME MenuBounds == {MaxFrames, MaxPresses, MaxGrabs} \subseteq Nat

VARIABLES
    shown,    \* what the classes say
    landing,  \* class changes that are yet to land
    moving,   \* a CSS transition is under way
    menu,     \* state of the hook
    inline,   \* the inline styles are set
    offset,   \* x: "open", "closed" or "between"
    pointer,  \* a finger is on the panel or the scrim
    glide,    \* where the spring goes, if one runs
    wait,     \* the class change a frame loop waits for, and the frames it has seen
    quiet,    \* prefers-reduced-motion
    presses, grabs,
    strays    \* frame loops that run on although the hook holds a newer one

menuVars == <<shown, landing, moving, menu, inline, offset, pointer, glide, wait, quiet,
              presses, grabs, strays>>

NoTarget == "none"
Rest(open) == IF open THEN "open" ELSE "closed"
NotWaiting == [on |-> FALSE, open |-> FALSE, frames |-> 0]

MenuInit ==
    /\ shown = FALSE /\ landing = <<>> /\ moving = FALSE
    /\ menu = "idle" /\ inline = FALSE /\ offset = "closed" /\ pointer = FALSE
    /\ glide = NoTarget /\ wait = NotWaiting
    /\ quiet \in BOOLEAN /\ presses = 0 /\ grabs = 0 /\ strays = 0

-----------------------------------------------------------------------------
(* Letting go.                                                              *)

\* complete: releaseControl, and the hook is idle, whatever it was doing.
Complete(open) == inline' = FALSE /\ menu' = "idle" /\ offset' = Rest(open)

\* finish: the hook runs the buttons' own command if the classes say otherwise, and waits.
\* It leaves its state alone; a loop that already waits goes on, but is no longer held.
Released(open) ==
    IF open = shown THEN Complete(open) /\ UNCHANGED <<landing, wait, strays>>
    ELSE /\ landing' = Append(landing, open)
         /\ wait' = [on |-> TRUE, open |-> open, frames |-> 0]
         /\ strays' = IF wait.on THEN strays + 1 ELSE strays
         /\ offset' = Rest(open) /\ inline' = TRUE
         /\ UNCHANGED menu

\* release: the spring goes to the side the gesture is going to; without motion the panel
\* is there at once.
Release ==
    \E open \in BOOLEAN :
        IF quiet THEN Released(open) /\ UNCHANGED glide
        ELSE /\ menu' = "settling" /\ glide' = Rest(open)
             /\ UNCHANGED <<landing, inline, offset, wait, strays>>

\* Variant: the panel stays as it was frozen.
LetsGo == menu' = "idle" /\ UNCHANGED <<landing, inline, offset, glide, wait, strays>>

\* The end of a touch that was no drag: what was frozen in flight is finished.
Abandon ==
    IF inline THEN Release
    ELSE menu' = "idle" /\ UNCHANGED <<landing, inline, offset, glide, wait, strays>>

-----------------------------------------------------------------------------
(* Touches.                                                                 *)

\* A menu in flight is caught where it is: a spring and a frame loop are cancelled, a CSS
\* transition is frozen.  Without motion the hook does not know that it waits, and the
\* frame loop runs on under the finger.
PointerDown ==
    /\ ~pointer /\ grabs < MaxGrabs
    /\ shown \/ menu = "settling"
    /\ pointer' = TRUE /\ grabs' = grabs + 1
    /\ menu' = "pending"
    /\ IF menu = "settling"
       THEN glide' = NoTarget /\ wait' = NotWaiting /\ UNCHANGED <<inline, offset, moving>>
       ELSE /\ inline' = (inline \/ moving) /\ moving' = FALSE
            /\ offset' = IF moving THEN "between" ELSE offset
            /\ UNCHANGED <<glide, wait>>
    /\ UNCHANGED <<shown, landing, quiet, presses, strays>>

\* A sideways move takes the panel over, an upright one gives it back.
PointerMove ==
    /\ pointer /\ menu \in {"pending", "dragging"}
    /\ \/ /\ menu' = "dragging" /\ inline' = TRUE /\ offset' \in {"open", "between", "closed"}
          /\ moving' = FALSE
          /\ UNCHANGED <<pointer, landing, glide, wait, strays>>
       \/ /\ menu = "pending"
          /\ pointer' = FALSE
          /\ Abandon /\ UNCHANGED moving
    /\ UNCHANGED <<shown, quiet, presses, grabs>>

PointerUp ==
    /\ pointer /\ pointer' = FALSE
    /\ \/ menu = "dragging" /\ Release
       \/ menu = "pending" /\ Abandon
       \/ menu = "idle" /\ UNCHANGED <<menu, landing, inline, offset, glide, wait, strays>>
    /\ UNCHANGED <<shown, moving, quiet, presses, grabs>>

-----------------------------------------------------------------------------
(* Time.                                                                    *)

SpringSettles ==
    /\ glide # NoTarget /\ glide' = NoTarget
    /\ Released(glide = "open")
    /\ UNCHANGED <<shown, moving, pointer, quiet, presses, grabs>>

\* The frame loop gives up after its frames, whether the change has landed or not.
NextFrame ==
    /\ wait.on
    /\ IF wait.open = shown \/ wait.frames + 1 > MaxFrames
       THEN Complete(wait.open) /\ wait' = NotWaiting
       ELSE wait' = [wait EXCEPT !.frames = @ + 1] /\ UNCHANGED <<inline, menu, offset>>
    /\ UNCHANGED <<shown, landing, moving, pointer, glide, quiet, presses, grabs, strays>>

\* A loop that is no longer held ends like any other, and whatever is going on.
StrayEnds ==
    /\ strays > 0 /\ strays' = strays - 1
    /\ \E open \in BOOLEAN : Complete(open)
    /\ UNCHANGED <<shown, landing, moving, pointer, glide, wait, quiet, presses, grabs>>

ClassLands ==
    /\ landing # <<>>
    /\ landing' = Tail(landing) /\ shown' = Head(landing)
    /\ moving' = (moving \/ (shown' # shown /\ ~inline))
    /\ UNCHANGED <<menu, inline, offset, pointer, glide, wait, quiet, presses, grabs, strays>>

TransitionEnds ==
    /\ moving /\ moving' = FALSE
    /\ UNCHANGED <<shown, landing, menu, inline, offset, pointer, glide, wait, quiet, presses,
                   grabs, strays>>

\* The hamburger, the X and a tap on the scrim; Escape counts while the hook is idle.
PressButton(open) ==
    /\ ~pointer /\ presses < MaxPresses
    /\ open # shown
    /\ presses' = presses + 1
    /\ landing' = Append(landing, open)
    /\ UNCHANGED <<shown, moving, menu, inline, offset, pointer, glide, wait, quiet, grabs,
                   strays>>

-----------------------------------------------------------------------------
MenuRuns == SpringSettles \/ NextFrame \/ StrayEnds \/ ClassLands \/ TransitionEnds
MenuNext ==
    \/ PointerDown \/ PointerMove \/ PointerUp \/ MenuRuns
    \/ \E open \in BOOLEAN : PressButton(open)

\* Springs settle, frames come, a finger is lifted.
MenuFairness == WF_menuVars(MenuRuns) /\ WF_menuVars(PointerUp)

MenuSpec == MenuInit /\ [][MenuNext]_menuVars /\ MenuFairness

-----------------------------------------------------------------------------
MenuTypeOK ==
    /\ landing \in Seq(BOOLEAN) /\ menu \in {"idle", "pending", "dragging", "settling"}
    /\ offset \in {"open", "closed", "between"} /\ glide \in {NoTarget, "open", "closed"}
    /\ wait \in [on: BOOLEAN, open: BOOLEAN, frames: 0..MaxFrames]
    /\ {shown, moving, inline, pointer, quiet} \subseteq BOOLEAN /\ strays \in Nat

\* A menu that a finger froze or dragged is handed back to its classes in the end: it does
\* not stay half open with styles no button can change.
MenuIsHandedBack == inline ~> ~inline
=============================================================================
