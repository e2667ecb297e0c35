-------------------------- MODULE HistoryTimeline --------------------------
(***************************************************************************)
(* The category filter of the history page (assets/js/timeline_filter.js,  *)
(* rendered by components/history/history_components.ex): events that do   *)
(* not match fade out and are then taken out of the page, events that      *)
(* match come back, and a decade without any goes with its heading and its *)
(* jump link.                                                              *)
(***************************************************************************)
EXTENDS Naturals

CONSTANTS
    Items,     \* [data-timeline-item]
    TagsOf,    \* the data-tags of each
    DecadeOf,  \* the [data-decade-section] each is in
    MaxFades   \* bound: fade-in timers of one item

Filters == {"all"} \cup UNION {TagsOf[i] : i \in Items}
Decades == {DecadeOf[i] : i \in Items}

ASSUME TimelineItems == "all" \notin UNION {TagsOf[i] : i \in Items} /\ MaxFades \in Nat

VARIABLES
    activeFilter,  \* what the toolbar shows as pressed
    items,         \* each item's _filterState, classes, style and timers
    sections,      \* each decade's class and timer
    links          \* the decades whose jump links are on show

timelineVars == <<activeFilter, items, sections, links>>

\* is: _filterState; gone: the class "hidden"; clear: its opacity is 0; hiding: _hideTimer
\* will run; fades: timers that will set the opacity to 1.
Untouched == [is |-> "undefined", gone |-> FALSE, clear |-> FALSE, hiding |-> FALSE, fades |-> 0]

TimelineInit ==
    /\ activeFilter = "all"
    /\ items = [i \in Items |-> Untouched]
    /\ sections = [d \in Decades |-> [gone |-> FALSE, hiding |-> FALSE]]
    /\ links = Decades

-----------------------------------------------------------------------------
Matches(i, filter) == filter = "all" \/ filter \in TagsOf[i]

\* Variant: an item that fades out keeps its timer when it is wanted again.
RevealsOnly(item, animate) ==
    IF item.is # "hidden" THEN item
    ELSE [item EXCEPT !.is = "shown", !.gone = FALSE, !.clear = animate,
                      !.fades = IF animate THEN @ + 1 ELSE @]

Reveal(item, animate) ==
    LET kept == [item EXCEPT !.hiding = FALSE]
    IN  IF item.is # "hidden" THEN kept
        ELSE [kept EXCEPT !.is = "shown", !.gone = FALSE, !.clear = animate,
                          !.fades = IF animate THEN @ + 1 ELSE @]

Conceal(item, animate) ==
    IF item.is = "hidden" THEN item
    ELSE IF animate THEN [item EXCEPT !.is = "hidden", !.clear = TRUE, !.hiding = TRUE]
    ELSE [item EXCEPT !.is = "hidden", !.gone = TRUE, !.hiding = FALSE]

\* A decade's timer is set anew by every filter that leaves it empty.
Section(section, hasMatches, animate) ==
    IF hasMatches THEN [gone |-> FALSE, hiding |-> FALSE]
    ELSE [gone |-> section.gone \/ ~animate, hiding |-> animate]

\* The reader's prefers-reduced-motion is read every time.
ApplyFilter(filter) ==
    \E animate \in BOOLEAN :
        LET decadesWithMatches == {DecadeOf[i] : i \in {j \in Items : Matches(j, filter)}}
        IN /\ activeFilter' = filter
           /\ items' = [i \in Items |-> IF Matches(i, filter) THEN Reveal(items[i], animate)
                                        ELSE Conceal(items[i], animate)]
           /\ sections' = [d \in Decades |-> Section(sections[d], d \in decadesWithMatches, animate)]
           /\ links' = decadesWithMatches

OnToolbarClick ==
    /\ \A i \in Items : items[i].fades < MaxFades
    /\ \E filter \in Filters : ApplyFilter(filter)

\* A badge of an item still in the page; the badge of the filter that is on turns it off.
OnTagClick ==
    /\ \A i \in Items : items[i].fades < MaxFades
    /\ \E i \in Items : /\ ~items[i].gone /\ ~sections[DecadeOf[i]].gone
                        /\ \E tag \in TagsOf[i] :
                               ApplyFilter(IF tag = activeFilter THEN "all" ELSE tag)

\* A fade-in is never given up, so it may find its item on the way out.
FadesIn(i) ==
    /\ items[i].fades > 0
    /\ items' = [items EXCEPT ![i].fades = @ - 1, ![i].clear = FALSE]
    /\ UNCHANGED <<activeFilter, sections, links>>

HideTimer(i) ==
    /\ items[i].hiding
    /\ items' = [items EXCEPT ![i].hiding = FALSE, ![i].gone = TRUE]
    /\ UNCHANGED <<activeFilter, sections, links>>

SectionTimer(d) ==
    /\ sections[d].hiding
    /\ sections' = [sections EXCEPT ![d] = [gone |-> TRUE, hiding |-> FALSE]]
    /\ UNCHANGED <<activeFilter, items, links>>

TimelineNext ==
    \/ OnToolbarClick \/ OnTagClick
    \/ \E i \in Items : FadesIn(i) \/ HideTimer(i)
    \/ \E d \in Decades : SectionTimer(d)

TimelineSpec == TimelineInit /\ [][TimelineNext]_timelineVars

-----------------------------------------------------------------------------
TimelineTypeOK ==
    /\ activeFilter \in Filters /\ links \subseteq Decades
    /\ items \in [Items -> [is: {"undefined", "shown", "hidden"}, gone: BOOLEAN, clear: BOOLEAN,
                            hiding: BOOLEAN, fades: 0..MaxFades]]
    /\ sections \in [Decades -> [gone: BOOLEAN, hiding: BOOLEAN]]

\* However filters change while earlier fades still run: an item that is done moving can be
\* seen exactly if it matches the filter that is on, and a decade exactly if it holds one.
TimelineShowsFilter ==
    /\ \A i \in Items :
           (~items[i].hiding /\ items[i].fades = 0)
           => IF Matches(i, activeFilter) THEN ~items[i].gone /\ ~items[i].clear ELSE items[i].gone
    /\ \A d \in Decades :
           LET wanted == \E i \in Items : DecadeOf[i] = d /\ Matches(i, activeFilter)
           IN  /\ d \in links <=> wanted
               /\ ~sections[d].hiding => (sections[d].gone <=> ~wanted)
=============================================================================
