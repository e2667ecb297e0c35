---------------------------- MODULE MediaGallery ----------------------------
(***************************************************************************)
(* The media library of the admin pages: the hooks that load more of it as *)
(* the reader comes near its end                                           *)
(* (assets/js/media_gallery_infinite_scroll.js, and its twin for the       *)
(* picker in a modal, media_library_browser_infinite_scroll.js), the year  *)
(* scrubber beside the gallery (assets/js/year_scrubber.js) and the        *)
(* handlers that page through the images (admin_media_live.ex,             *)
(* trix_image_picker_component.ex).                                        *)
(*                                                                         *)
(* A page of images is a year here, 1 the newest, and the reader's place   *)
(* is the year on the screen.                                              *)
(***************************************************************************)
EXTENDS Naturals, Sequences

CONSTANTS
    Years,      \* pages of the library
    MaxJumps,   \* bound: years asked for
    MaxAsked,   \* bound: requests and pages on their way when a cooldown ends
    MaxOffline  \* bound: connections lost

ASSUME GalleryBounds == {Years, MaxJumps, MaxAsked, MaxOffline} \subseteq Nat /\ Years > 0

VARIABLES
    picker,   \* the hook is the picker's: no scrubber, no resize when the list grows
    tall,     \* the screen and the prefetch margin reach one page further
    exact,    \* the last page is full, so only the empty one after it ends the library
    assigns,  \* the LiveView's cursor: first and last page loaded, end_of_timeline?
    requests, \* events on their way to the server: a year, or More
    pages,    \* patches on their way to the browser
    serving,   \* the channel is joined
    browse,   \* the list on the page, as assigns
    reading,  \* the year at the top of the screen
    cooling,  \* Date.now() < cooldownUntil
    frame,    \* rafId
    recheck,  \* timeoutId: "cooling" while its 450 ms outlast the cooldown, then "due"
    resized,  \* the ResizeObserver has something to report
    bar,      \* the scrubber's fields
    moves     \* years asked for, connections lost

pageVars == <<picker, tall, exact>>
netVars == <<assigns, requests, pages, serving>>
clockVars == <<cooling, frame, recheck, resized>>
galleryVars == <<pageVars, netVars, browse, reading, clockVars, bar, moves>>

More == 0
NoYear == 0
Listed(list) == list.from..list.upto

\* A page of the library, and whether the server takes it for the last.
Loaded(from, upto) == [from |-> from, upto |-> upto, ended |-> upto = Years /\ ~exact]

\* year: currentYear; debounce: scrollTimeout is set; pending: pendingScrollYear; retry:
\* years looked for once more; scrolling: isScrolling, and how many timers will reset it;
\* glide: where a smooth scroll goes.
NewBar == [year |-> NoYear, debounce |-> TRUE, pending |-> NoYear, retry |-> {},
           scrolling |-> FALSE, resets |-> 0, glide |-> NoYear]

GalleryInit ==
    /\ picker \in BOOLEAN /\ tall \in BOOLEAN /\ exact \in BOOLEAN
    /\ assigns = Loaded(1, 1) /\ requests = <<>> /\ pages = <<>> /\ serving = TRUE
    /\ browse = assigns
    /\ reading = 1 /\ cooling = FALSE /\ frame = TRUE /\ recheck = "no" /\ resized = TRUE
    /\ bar = IF picker THEN [NewBar EXCEPT !.debounce = FALSE] ELSE NewBar
    /\ moves = [jumps |-> 0, drops |-> 0]

-----------------------------------------------------------------------------
(* Loading more.                                                            *)

\* The footer is near the edge of the screen.
InZone(at) == at = browse.upto \/ (tall /\ at + 1 = browse.upto)

\* check(): a request pushed without a channel is gone, its cooldown runs all the same.
Check(at) ==
    IF ~browse.ended /\ ~cooling /\ InZone(at)
    THEN cooling' = TRUE /\ requests' = (IF serving THEN Append(requests, More) ELSE requests)
    ELSE UNCHANGED <<cooling, requests>>

\* Variant: the second look, after the cooldown, is left out.
LooksOnce == frame' = TRUE /\ recheck' = "no"

\* updated(): what was scheduled is given up; another look is taken on the next frame and
\* one after the cooldown.
Updated == frame' = TRUE /\ recheck' = IF cooling THEN "cooling" ELSE "due"

FrameRuns ==
    /\ frame /\ frame' = FALSE
    /\ Check(reading)
    /\ UNCHANGED <<pageVars, assigns, pages, serving, browse, reading, recheck, resized, bar,
                   moves>>

RecheckRuns ==
    /\ recheck = "due" /\ recheck' = "no"
    /\ Check(reading)
    /\ UNCHANGED <<pageVars, assigns, pages, serving, browse, reading, frame, resized, bar, moves>>

ResizeSeen ==
    /\ resized /\ resized' = FALSE
    /\ Check(reading)
    /\ UNCHANGED <<pageVars, assigns, pages, serving, browse, reading, frame, recheck, bar, moves>>

CooldownEnds ==
    /\ cooling /\ Len(requests) + Len(pages) < MaxAsked
    /\ cooling' = FALSE
    /\ recheck' = IF recheck = "cooling" THEN "due" ELSE recheck
    /\ UNCHANGED <<pageVars, netVars, browse, reading, frame, resized, bar, moves>>

-----------------------------------------------------------------------------
(* The scrubber.                                                            *)

\* handleScroll: not while the hook itself scrolls.
HandleScroll(b) == IF b.scrolling \/ picker THEN b ELSE [b EXCEPT !.debounce = TRUE]

\* Its 100 ms later: the year on the screen is highlighted.
ScrollSettles ==
    /\ bar.debounce
    /\ bar' = [bar EXCEPT !.debounce = FALSE, !.year = reading]
    /\ UNCHANGED <<pageVars, netVars, browse, reading, clockVars, moves>>

\* scrollToYear: a year that is not on the page is looked for once more.
ScrollToYear(b, year) ==
    IF year \in Listed(browse)
    THEN [b EXCEPT !.scrolling = TRUE, !.resets = @ + 1, !.glide = year]
    ELSE [b EXCEPT !.retry = @ \cup {year}]

\* The timers of handleScrollToYear and updated: whichever is first takes the year.
PendingTimer ==
    /\ bar.pending # NoYear
    /\ bar' = ScrollToYear([bar EXCEPT !.pending = NoYear], bar.pending)
    /\ UNCHANGED <<pageVars, netVars, browse, reading, clockVars, moves>>

RetryTimer(year) ==
    /\ year \in bar.retry
    /\ LET looked == [bar EXCEPT !.retry = @ \ {year}]
       IN  bar' = IF year \in Listed(browse) THEN ScrollToYear(looked, year) ELSE looked
    /\ UNCHANGED <<pageVars, netVars, browse, reading, clockVars, moves>>

\* 600 ms after a scroll began, whatever became of it and of a later one.
ScrollingReset ==
    /\ bar.resets > 0
    /\ bar' = HandleScroll([bar EXCEPT !.resets = @ - 1, !.scrolling = FALSE])
    /\ UNCHANGED <<pageVars, netVars, browse, reading, clockVars, moves>>

\* The browser ends a smooth scroll; a page that was replaced has no such place.
Glides ==
    /\ bar.glide # NoYear
    /\ reading' = IF bar.glide \in Listed(browse) THEN bar.glide ELSE reading
    /\ bar' = [HandleScroll(bar) EXCEPT !.glide = NoYear]
    /\ Check(reading')
    /\ UNCHANGED <<pageVars, assigns, pages, serving, browse, frame, recheck, resized, moves>>

ReaderScrolls ==
    /\ reading' \in Listed(browse) \ {reading}
    /\ bar' = [HandleScroll(bar) EXCEPT !.glide = NoYear]
    /\ Check(reading')
    /\ UNCHANGED <<pageVars, assigns, pages, serving, browse, frame, recheck, resized, moves>>

-----------------------------------------------------------------------------
(* The LiveView, and its patches.                                           *)

\* A year of the scrubber, or of the picker's filter; the newest year stands for all years.
AskForYear ==
    /\ serving /\ moves.jumps < MaxJumps
    /\ \E year \in 1..Years : requests' = Append(requests, year)
    /\ moves' = [moves EXCEPT !.jumps = @ + 1]
    /\ UNCHANGED <<pageVars, assigns, pages, serving, browse, reading, clockVars, bar>>

\* load-more, load-more-media: nothing is patched after the end; an empty page ends it.
LoadMore(list) ==
    IF list.ended THEN list
    ELSE IF list.upto = Years THEN [list EXCEPT !.ended = TRUE]
    ELSE Loaded(list.from, list.upto + 1)

\* jump-to-year sends the hook there; show-all-years and the picker's filter do not.
ServeAsk ==
    LET ask == Head(requests)
        next == IF ask = More THEN LoadMore(assigns) ELSE Loaded(ask, ask)
    IN /\ requests # <<>> /\ requests' = Tail(requests)
       /\ assigns' = next
       /\ \E to \in IF ask = More \/ picker THEN {NoYear} ELSE {ask, NoYear} :
             pages' = IF ask = More /\ next = assigns THEN pages
                      ELSE Append(pages, [list |-> next, reset |-> ask # More, to |-> to])
       /\ UNCHANGED <<pageVars, serving, browse, reading, clockVars, bar, moves>>

\* Every patch reaches both hooks' updated(); the event that goes with it comes after.
ReceiveGallery ==
    LET page == Head(pages)
    IN /\ pages # <<>> /\ pages' = Tail(pages)
       /\ browse' = page.list
       /\ reading' = IF page.reset THEN page.list.from ELSE reading
       /\ Updated
       /\ resized' = ~picker
       /\ bar' = [HandleScroll(bar) EXCEPT !.pending = IF page.to = NoYear THEN @ ELSE page.to]
       /\ UNCHANGED <<pageVars, assigns, requests, serving, cooling, moves>>

\* The gallery only: the picker's modal does not outlive its LiveView.
LoseGallery ==
    /\ serving /\ ~picker /\ moves.drops < MaxOffline
    /\ serving' = FALSE /\ requests' = <<>> /\ pages' = <<>>
    /\ moves' = [moves EXCEPT !.drops = @ + 1]
    /\ UNCHANGED <<pageVars, assigns, browse, reading, clockVars, bar>>

\* mount and handle_params begin again with the newest page.
RejoinGallery ==
    /\ ~serving /\ serving' = TRUE
    /\ assigns' = Loaded(1, 1)
    /\ pages' = <<[list |-> assigns', reset |-> TRUE, to |-> NoYear]>>
    /\ UNCHANGED <<pageVars, requests, browse, reading, clockVars, bar, moves>>

-----------------------------------------------------------------------------
GalleryNext ==
    \/ FrameRuns \/ RecheckRuns \/ ResizeSeen \/ CooldownEnds
    \/ ScrollSettles \/ PendingTimer \/ ScrollingReset \/ Glides \/ ReaderScrolls
    \/ AskForYear \/ ServeAsk \/ ReceiveGallery \/ LoseGallery \/ RejoinGallery
    \/ \E year \in bar.retry : RetryTimer(year)

GallerySpec == GalleryInit /\ [][GalleryNext]_galleryVars

GalleryTypeOK ==
    /\ {picker, tall, exact, serving, cooling, frame, resized} \subseteq BOOLEAN
    /\ {assigns, browse} \subseteq [from: 1..Years, upto: 1..Years, ended: BOOLEAN]
    /\ reading \in Listed(browse) /\ recheck \in {"no", "cooling", "due"}
    /\ requests \in Seq(0..Years)
    /\ bar \in [year: 0..Years, debounce: BOOLEAN, pending: 0..Years, retry: SUBSET (1..Years),
                scrolling: BOOLEAN, resets: 0..MaxJumps, glide: 0..Years]

\* Nothing is left that would run by itself.
AtRest ==
    /\ serving /\ requests = <<>> /\ pages = <<>>
    /\ ~cooling /\ ~frame /\ recheck = "no" /\ ~resized
    /\ ~bar.debounce /\ bar.pending = NoYear /\ bar.retry = {} /\ bar.resets = 0
    /\ bar.glide = NoYear

\* The gallery keeps up with its reader, however answers, cooldowns, jumps and a lost
\* connection fall together: at rest nobody stands before the end of a list that has more,
\* and the scrubber highlights the year on the screen.
GalleryKeepsUp ==
    AtRest => /\ InZone(reading) => browse.ended
              /\ picker \/ bar.year = reading
=============================================================================
