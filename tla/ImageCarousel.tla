--------------------------- MODULE ImageCarousel ---------------------------
(***************************************************************************)
(* The carousel of pictures on the landing and property pages              *)
(* (assets/js/image_carousel_autoplay.js): it moves on by itself, except   *)
(* while the pointer or the keyboard is on it.  Delays are not timed: a    *)
(* timer that is set may run at any later moment.  Whether focus is        *)
(* visible is decided when it arrives.                                     *)
(***************************************************************************)
EXTENDS Naturals

CONSTANTS
    Slides,    \* radio buttons
    MaxStarts  \* bound: timers that will start autoplay

ASSUME CarouselBounds == Slides \in Nat \ {0} /\ MaxStarts \in Nat \ {0}

VARIABLES
    reduced,   \* prefers-reduced-motion
    slide,     \* the radio that is checked
    interval,  \* autoplayInterval
    starts,    \* timers that will call startAutoplay
    hover,     \* the pointer is over the container
    focus,     \* focus inside it: "none", "mouse" or "keyboard" (:focus-visible)
    hooked     \* the hook is mounted

carouselVars == <<reduced, slide, interval, starts, hover, focus, hooked>>

CarouselInit ==
    /\ reduced \in BOOLEAN
    /\ hover \in BOOLEAN /\ focus \in {"none", "keyboard"}
    /\ slide \in 1..Slides /\ starts = 0 /\ hooked = TRUE
    /\ interval = (~reduced /\ ~hover /\ focus # "keyboard")

-----------------------------------------------------------------------------
\* Variant: keyboard focus is only looked at when it arrives.
StartsOverFocus(running, pointer, inside) == running \/ (~reduced /\ ~pointer)

\* startAutoplay: whether the interval runs after it.
StartAutoplay(running, pointer, inside) ==
    running \/ (~reduced /\ ~pointer /\ inside # "keyboard")

\* The interval checks the next radio, whose change stops it: autoplay pauses for a while.
NextSlide ==
    /\ interval /\ starts < MaxStarts
    /\ slide' = (slide % Slides) + 1
    /\ IF hover THEN UNCHANGED <<interval, starts>>
       ELSE interval' = FALSE /\ starts' = starts + 1
    /\ UNCHANGED <<reduced, hover, focus, hooked>>

StartTimer ==
    /\ starts > 0 /\ starts' = starts - 1
    /\ interval' = StartAutoplay(interval, hover, focus)
    /\ UNCHANGED <<reduced, slide, hover, focus, hooked>>

HandleMouseEnter ==
    /\ hooked /\ ~hover /\ hover' = TRUE
    /\ interval' = FALSE
    /\ UNCHANGED <<reduced, slide, starts, focus, hooked>>

HandleMouseLeave ==
    /\ hooked /\ hover /\ hover' = FALSE
    /\ interval' = StartAutoplay(interval, FALSE, focus)
    /\ UNCHANGED <<reduced, slide, starts, hooked, focus>>

\* Focus comes from outside, moves between the controls (a focusout, then a focusin) or goes.
FocusMoves ==
    /\ hooked /\ starts < MaxStarts
    /\ \E to \in {"none", "mouse", "keyboard"} :
           /\ (focus = "none" => to # "none") /\ (to = "mouse" => hover)
           /\ focus' = to
           /\ interval' = (interval /\ to # "keyboard")
    /\ starts' = IF focus = "none" THEN starts ELSE starts + 1
    /\ UNCHANGED <<reduced, slide, hover, hooked>>

\* A click on an arrow or a dot: its own pause, and that of the radio that changes with it.
HandleInteraction ==
    /\ hooked /\ interval' = FALSE
    /\ slide' \in 1..Slides
    /\ starts' = starts + (IF hover \/ slide' = slide THEN 1 ELSE 2)
    /\ starts' <= MaxStarts
    /\ UNCHANGED <<reduced, hover, focus, hooked>>

\* Arrow keys step through the radios, and focus goes with them.
ArrowKey ==
    /\ hooked /\ focus # "none" /\ focus' = "keyboard"
    /\ \E to \in 1..Slides \ {slide} :
           /\ slide' = to
           /\ starts' = starts + (IF hover THEN 1 ELSE 2)
    /\ starts' <= MaxStarts /\ interval' = FALSE
    /\ UNCHANGED <<reduced, hover, hooked>>

\* cleanup() stops the interval; timers that are set still run, on a container no longer in
\* the page.
CarouselGoes ==
    /\ hooked /\ hooked' = FALSE
    /\ interval' = FALSE /\ hover' = FALSE /\ focus' = "none"
    /\ UNCHANGED <<reduced, slide, starts>>

CarouselNext ==
    \/ NextSlide \/ StartTimer \/ HandleMouseEnter \/ HandleMouseLeave
    \/ FocusMoves \/ HandleInteraction \/ ArrowKey \/ CarouselGoes

CarouselSpec == CarouselInit /\ [][CarouselNext]_carouselVars

-----------------------------------------------------------------------------
CarouselTypeOK ==
    /\ {reduced, interval, hover, hooked} \subseteq BOOLEAN
    /\ slide \in 1..Slides /\ starts \in 0..MaxStarts
    /\ focus \in {"none", "mouse", "keyboard"}

\* Whichever of the delayed restarts comes when: the carousel never moves under a pointer or
\* under keyboard focus, and one that nothing holds back is moving or about to.
CarouselRests ==
    hooked => /\ interval => ~reduced /\ ~hover /\ focus # "keyboard"
              /\ (~reduced /\ ~hover /\ focus # "keyboard") => interval \/ starts > 0
=============================================================================
