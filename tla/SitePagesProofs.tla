-------------------------- MODULE SitePagesProofs --------------------------
(***************************************************************************)
(* The parts of the site's pages, for any bounds and any number of tokens, *)
(* texts, events, slides, ceremonies, touches, answers, places and edits:  *)
(* each part by itself, as SitePages puts them together.                   *)
(***************************************************************************)
EXTENDS SitePages, CheckInDeskProofs, TLAPS

-----------------------------------------------------------------------------
(* A token is spent once, for any number of tokens and submits.            *)

BotTypes ==
    /\ uses \in [Tokens -> Nat]
    /\ token \in Tokens /\ issued \in Tokens /\ sent \in Tokens /\ due \in Nat
    /\ held \in BOOLEAN /\ rendered \in BOOLEAN /\ raced \in BOOLEAN

\* The token in the form is the newest one, a held submit has emptied the form, and no
\* token has been sent before it was issued.
FormHolds ==
    /\ token \in {NoToken, issued}
    /\ token # NoToken => rendered
    /\ rendered => script = "ready"
    /\ held => token = NoToken
    /\ \A t \in Tokens : t > issued => uses[t] = 0
    /\ issued > 0 /\ uses[issued] > 0 => sent = issued

\* Unless the visitor got in between, at most one submit is due, and with a token that
\* nobody has sent.
DueIsFresh ==
    ~raced => /\ \A t \in Tokens : t # NoToken => uses[t] <= 1
              /\ due > 0 => /\ due = 1 /\ ~held
                            /\ token # NoToken => uses[token] = 0

BotInv == BotTypes /\ FormHolds /\ DueIsFresh

LEMMA BotStarts == BotInit => BotInv
  <1> SUFFICES ASSUME BotInit
               PROVE  BotInv
    OBVIOUS
  <1> USE BotCheckBounds DEF BotInit, Tokens, NoToken
  <1>1. BotTypes
    BY DEF BotTypes
  <1>2. FormHolds
    BY DEF FormHolds
  <1>3. DueIsFresh
    BY DEF DueIsFresh
  <1>4. QED
    BY <1>1, <1>2, <1>3 DEF BotInv

LEMMA ReleaseCounts ==
  ASSUME due \in Nat, ReleaseHeldSubmit
  PROVE  due' \in Nat /\ held' \in BOOLEAN
  <1>1. due' \in Nat
    <2>1. CASE held
      BY <2>1 DEF ReleaseHeldSubmit
    <2>2. CASE ~held
      BY <2>2 DEF ReleaseHeldSubmit
    <2>3. QED
      BY <2>1, <2>2
  <1>2. held' \in BOOLEAN
    BY Zenon DEF ReleaseHeldSubmit
  <1>3. QED
    BY <1>1, <1>2

LEMMA BotSteps == BotInv /\ [BotNext]_botVars => BotInv'
  <1> SUFFICES ASSUME BotInv, [BotNext]_botVars
               PROVE  BotInv'
    OBVIOUS
  <1> USE BotCheckBounds DEF BotInv, BotTypes, FormHolds, DueIsFresh, Tokens, NoToken
  <1>1. CASE Interact
    BY <1>1 DEF Interact, Load
  <1>2. CASE Submit
    <2>0. raced' \in BOOLEAN /\ (~raced' => ~raced /\ ~(due > 0))
      <3>1. raced' = (raced \/ due > 0)
        BY <1>2 DEF Submit
      <3>2. QED
        BY <3>1, Zenon
    <2>1. CASE HasUsableToken
      <3>1. BotTypes'
        <4>1. uses' \in [Tokens -> Nat]
          <5>1. uses' = [uses EXCEPT ![token] = @ + 1]
            BY <1>2, <2>1 DEF Submit, Send
          <5>2. QED
            BY <5>1
        <4>2. sent' = issued /\ UNCHANGED <<token, issued, due, held, rendered>>
          BY <1>2, <2>1 DEF Submit, Send
        <4>3. QED
          BY <2>0, <4>1, <4>2
      <3>2. FormHolds'
        BY <1>2, <2>1 DEF Submit, Send
      <3>3. DueIsFresh'
        <4>1. uses' = [uses EXCEPT ![token] = @ + 1] /\ token' = token /\ due' = due
          BY <1>2, <2>1 DEF Submit, Send
        <4>2. uses[token] = 0
          BY <2>1 DEF HasUsableToken
        <4>3. QED
          BY <2>0, <4>1, <4>2
      <3>4. QED
        BY <3>1, <3>2, <3>3
    <2>2. CASE ~HasUsableToken
      <3>1. BotTypes'
        <4>1. held' = TRUE /\ token' \in {token, NoToken}
          BY <1>2, <2>2 DEF Submit, HoldSubmit, Reset
        <4>2. UNCHANGED <<uses, sent, issued, due, rendered>>
          BY <1>2, <2>2 DEF Submit
        <4>3. QED
          BY <2>0, <4>1, <4>2
      <3>2. FormHolds'
        BY <1>2, <2>2 DEF Submit, HoldSubmit, Reset, Load
      <3>3. DueIsFresh'
        BY <1>2, <2>2 DEF Submit, HoldSubmit, Reset
      <3>4. QED
        BY <3>1, <3>2, <3>3
    <2>3. QED
      BY <2>1, <2>2
  <1>3. CASE SendReleased
    <2>1. BotTypes'
      BY <1>3, SMTT(30) DEF SendReleased, Send
    <2>2. FormHolds'
      BY <1>3 DEF SendReleased, Send
    <2>3. DueIsFresh'
      BY <1>3, SMTT(30) DEF SendReleased, Send
    <2>4. QED
      BY <2>1, <2>2, <2>3
  <1>4. CASE HoldEnds
    <2>1. BotTypes'
      <3>1. due' \in Nat /\ held' \in BOOLEAN
        BY <1>4, ReleaseCounts DEF HoldEnds
      <3>2. QED
        BY <1>4, <3>1 DEF HoldEnds
    <2>2. FormHolds'
      BY <1>4 DEF HoldEnds, ReleaseHeldSubmit
    <2>3. DueIsFresh'
      BY <1>4 DEF HoldEnds, ReleaseHeldSubmit
    <2>4. QED
      BY <2>1, <2>2, <2>3
  <1>5. CASE ScriptArrives
    <2>1. BotTypes'
      <3>1. due' \in Nat /\ held' \in BOOLEAN
        BY <1>5, ReleaseCounts DEF ScriptArrives
      <3>2. rendered' \in BOOLEAN
        BY <1>5 DEF ScriptArrives
      <3>3. QED
        BY <1>5, <3>1, <3>2 DEF ScriptArrives
    <2>2. FormHolds'
      BY <1>5 DEF ScriptArrives, ReleaseHeldSubmit
    <2>3. DueIsFresh'
      BY <1>5 DEF ScriptArrives, ReleaseHeldSubmit
    <2>4. QED
      BY <2>1, <2>2, <2>3
  <1>6. CASE TokenArrives
    <2>1. BotTypes'
      <3>1. due' \in Nat /\ held' \in BOOLEAN
        BY <1>6, ReleaseCounts DEF TokenArrives
      <3>2. QED
        BY <1>6, <3>1 DEF TokenArrives
    <2>2. FormHolds'
      BY <1>6 DEF TokenArrives, ReleaseHeldSubmit
    <2>3. DueIsFresh'
      BY <1>6 DEF TokenArrives, ReleaseHeldSubmit
    <2>4. QED
      BY <2>1, <2>2, <2>3
  <1>7. CASE WidgetGivesUp
    <2>1. BotTypes'
      <3>1. due' \in Nat /\ held' \in BOOLEAN
        BY <1>7, ReleaseCounts DEF WidgetGivesUp
      <3>2. QED
        BY <1>7, <3>1 DEF WidgetGivesUp
    <2>2. FormHolds'
      BY <1>7 DEF WidgetGivesUp, ReleaseHeldSubmit
    <2>3. DueIsFresh'
      BY <1>7 DEF WidgetGivesUp, ReleaseHeldSubmit
    <2>4. QED
      BY <2>1, <2>2, <2>3
  <1>8. CASE TokenAges
    BY <1>8 DEF TokenAges
  <1>9. CASE StaleTokenGoes
    <2>1. BotTypes'
      BY <1>9 DEF StaleTokenGoes
    <2>2. FormHolds'
      BY <1>9 DEF StaleTokenGoes
    <2>3. DueIsFresh'
      BY <1>9 DEF StaleTokenGoes
    <2>4. QED
      BY <2>1, <2>2, <2>3
  <1>10. CASE ServeSubmit
    BY <1>10 DEF ServeSubmit
  <1>11. CASE RefreshArrives
    <2>1. BotTypes'
      BY <1>11 DEF RefreshArrives, Reset
    <2>2. FormHolds'
      BY <1>11 DEF RefreshArrives, Reset
    <2>3. DueIsFresh'
      BY <1>11 DEF RefreshArrives, Reset
    <2>4. QED
      BY <2>1, <2>2, <2>3
  <1>12. CASE LeaveForm
    BY <1>12 DEF LeaveForm
  <1>13. CASE UNCHANGED botVars
    BY <1>13 DEF botVars
  <1>14. QED
    BY <1>1, <1>2, <1>3, <1>4, <1>5, <1>6, <1>7, <1>8, <1>9, <1>10, <1>11, <1>12, <1>13
       DEF BotNext

\* Whatever becomes of the script, the widget and the answers: phoenix_turnstile.js sends no
\* token twice, except when the visitor submits in the tick before a released submit goes.
THEOREM TokenAlwaysSentOnce == BotSpec => []TokenIsSentOnce
  <1>1. BotInv => TokenIsSentOnce
    BY DEF BotInv, BotTypes, DueIsFresh, TokenIsSentOnce, Tokens
  <1>2. QED
    BY BotStarts, BotSteps, <1>1, PTL DEF BotSpec

-----------------------------------------------------------------------------
(* The timeline shows what its filter says, for any events, tags and decades. *)

Presented == [is: {"undefined", "shown", "hidden"}, gone: BOOLEAN, clear: BOOLEAN,
              hiding: BOOLEAN, fades: Nat]

Wanted(d, filter) == \E i \in Items : DecadeOf[i] = d /\ Matches(i, filter)

\* An item in its final place, or on its way there with the timer that takes it.
ItemFollows(i) ==
    /\ items[i] \in Presented
    /\ (items[i].is = "hidden") = ~Matches(i, activeFilter)
    /\ items[i].is = "hidden" => items[i].gone \/ items[i].hiding
    /\ items[i].is # "hidden" => /\ ~items[i].gone /\ ~items[i].hiding
                                 /\ items[i].clear => items[i].fades > 0

SectionFollows(d) ==
    /\ sections[d] \in [gone: BOOLEAN, hiding: BOOLEAN]
    /\ Wanted(d, activeFilter) => ~sections[d].gone /\ ~sections[d].hiding
    /\ ~Wanted(d, activeFilter) => sections[d].gone \/ sections[d].hiding

TimelineInv ==
    /\ items \in [Items -> Presented]
    /\ sections \in [Decades -> [gone: BOOLEAN, hiding: BOOLEAN]]
    /\ links = {d \in Decades : Wanted(d, activeFilter)}
    /\ \A i \in Items : ItemFollows(i)
    /\ \A d \in Decades : SectionFollows(d)

LEMMA TimelineShows == TimelineInv => TimelineShowsFilter
  BY DEF TimelineInv, TimelineShowsFilter, ItemFollows, SectionFollows, Wanted, Presented

LEMMA TimelineStarts == TimelineInit => TimelineInv
  <1> SUFFICES ASSUME TimelineInit PROVE TimelineInv
    OBVIOUS
  <1>1. \A d \in Decades : Wanted(d, "all")
    BY DEF Decades, Wanted, Matches
  <1>2. QED
    BY <1>1 DEF TimelineInit, TimelineInv, ItemFollows, SectionFollows, Untouched, Matches, Presented

\* A filter sends every item and every decade the right way, whatever it was doing.
LEMMA FilterApplies ==
  ASSUME TimelineInv, NEW filter, ApplyFilter(filter)
  PROVE  TimelineInv'
  <1>1. PICK animate \in BOOLEAN :
          /\ activeFilter' = filter
          /\ items' = [i \in Items |-> IF Matches(i, filter) THEN Reveal(items[i], animate)
                                       ELSE Conceal(items[i], animate)]
          /\ sections' = [d \in Decades |->
                 Section(sections[d], d \in {DecadeOf[i] : i \in {j \in Items : Matches(j, filter)}},
                         animate)]
          /\ links' = {DecadeOf[i] : i \in {j \in Items : Matches(j, filter)}}
    BY DEF ApplyFilter
  <1>2. \A d : d \in {DecadeOf[i] : i \in {j \in Items : Matches(j, filter)}}
               <=> d \in Decades /\ Wanted(d, filter)
    BY DEF Decades, Wanted
  <1>3. ASSUME NEW i \in Items PROVE ItemFollows(i)'
    <2>1. ItemFollows(i)
      BY DEF TimelineInv, Presented
    <2>2. CASE Matches(i, filter)
      <3>1. items'[i] = Reveal(items[i], animate)
        BY <1>1, <2>2
      <3>2. Matches(i, activeFilter)'
        BY <1>1, <2>2 DEF Matches
      <3>3. CASE items[i].is # "hidden"
        BY <2>1, <3>1, <3>2, <3>3 DEF ItemFollows, Reveal, Presented
      <3>4. CASE items[i].is = "hidden"
        <4>1. items'[i] = [is |-> "shown", gone |-> FALSE, clear |-> animate, hiding |-> FALSE,
                           fades |-> IF animate THEN items[i].fades + 1 ELSE items[i].fades]
          BY <2>1, <3>1, <3>4 DEF ItemFollows, Reveal, Presented
        <4>2. items'[i] \in Presented
          BY <2>1, <4>1 DEF ItemFollows, Presented
        <4>3. animate => items'[i].fades > 0
          BY <2>1, <4>1 DEF ItemFollows, Presented
        <4>4. QED
          BY <3>2, <4>1, <4>2, <4>3 DEF ItemFollows, Presented
      <3>5. QED
        BY <3>3, <3>4
    <2>3. CASE ~Matches(i, filter)
      BY <1>1, <2>1, <2>3 DEF ItemFollows, Conceal, Matches, Presented
    <2>4. QED
      BY <2>2, <2>3
  <1>4. ASSUME NEW d \in Decades PROVE SectionFollows(d)'
    <2>1. SectionFollows(d)
      BY DEF TimelineInv, Presented
    <2>2. Wanted(d, activeFilter)' = Wanted(d, filter)
      BY <1>1 DEF Wanted, Matches
    <2>3. sections'[d] = Section(sections[d], Wanted(d, filter), animate)
      BY <1>1, <1>2 DEF Section
    <2>4. CASE Wanted(d, filter)
      <3>1. sections'[d] = [gone |-> FALSE, hiding |-> FALSE]
        BY <2>3, <2>4 DEF Section
      <3>2. QED
        BY <2>2, <2>4, <3>1 DEF SectionFollows
    <2>5. CASE ~Wanted(d, filter)
      <3>1. sections'[d] = [gone |-> sections[d].gone \/ ~animate, hiding |-> animate]
        BY <2>3, <2>5 DEF Section
      <3>2. sections'[d] \in [gone: BOOLEAN, hiding: BOOLEAN]
        BY <3>1
      <3>3. sections'[d].gone \/ sections'[d].hiding
        <4>1. CASE animate
          BY <3>1, <4>1
        <4>2. CASE ~animate
          <5>1. sections'[d].gone = (sections[d].gone \/ ~animate)
            BY <3>1
          <5>2. QED
            BY <4>2, <5>1, Zenon
        <4>3. QED
          BY <4>1, <4>2
      <3>4. QED
        BY <2>2, <2>5, <3>2, <3>3 DEF SectionFollows
    <2>6. QED
      BY <2>4, <2>5
  <1>5. links' = {d \in Decades : Wanted(d, activeFilter)'}
    <2>1. \A d : Wanted(d, activeFilter)' = Wanted(d, filter)
      BY <1>1 DEF Wanted, Matches
    <2>2. QED
      BY <1>1, <1>2, <2>1
  <1>6. items' \in [Items -> Presented]
    BY <1>1, <1>3 DEF ItemFollows, Presented
  <1>7. sections' \in [Decades -> [gone: BOOLEAN, hiding: BOOLEAN]]
    BY <1>1, <1>4 DEF SectionFollows
  <1>8. QED
    BY <1>3, <1>4, <1>5, <1>6, <1>7 DEF TimelineInv, Presented

\* A timer of one item or of one decade leaves the filter, and so what is wanted, as it is.
LEMMA ItemMoves ==
  ASSUME TimelineInv, NEW i \in Items, NEW item,
         items' = [items EXCEPT ![i] = item], UNCHANGED <<activeFilter, sections, links>>,
         items'[i] = item => ItemFollows(i)'
  PROVE  TimelineInv'
  <1>1. items'[i] = item
    BY DEF TimelineInv
  <1>2. ASSUME NEW j \in Items PROVE ItemFollows(j)'
    <2>1. CASE j = i
      BY <1>1, <2>1
    <2>2. CASE j # i
      <3>1. items'[j] = items[j] /\ ItemFollows(j)
        BY <2>2 DEF TimelineInv
      <3>2. QED
        BY <3>1 DEF ItemFollows, Matches
    <2>3. QED
      BY <2>1, <2>2
  <1>3. item \in Presented
    BY <1>1, <1>2 DEF ItemFollows
  <1>4. items' \in [Items -> Presented]
    BY <1>3 DEF TimelineInv
  <1>5. \A d : Wanted(d, activeFilter)' = Wanted(d, activeFilter)
    BY DEF Wanted, Matches
  <1>6. \A d \in Decades : SectionFollows(d)'
    BY <1>5 DEF TimelineInv, SectionFollows
  <1>7. QED
    BY <1>2, <1>4, <1>5, <1>6 DEF TimelineInv

LEMMA TimelineSteps == TimelineInv /\ [TimelineNext]_timelineVars => TimelineInv'
  <1> SUFFICES ASSUME TimelineInv, [TimelineNext]_timelineVars PROVE TimelineInv'
    OBVIOUS
  <1>1. CASE OnToolbarClick
    BY <1>1, FilterApplies DEF OnToolbarClick
  <1>2. CASE OnTagClick
    BY <1>2, FilterApplies DEF OnTagClick
  <1>3. ASSUME NEW i \in Items, FadesIn(i) PROVE TimelineInv'
    <2>1. ItemFollows(i)
      BY DEF TimelineInv
    <2> DEFINE item == [items[i] EXCEPT !.fades = @ - 1, !.clear = FALSE]
    <2>2. items' = [items EXCEPT ![i] = item]
      BY <1>3 DEF FadesIn
    <2>3. ASSUME items'[i] = item PROVE ItemFollows(i)'
      <3>1. /\ items[i].fades \in Nat /\ items[i].fades > 0 /\ activeFilter' = activeFilter
            /\ items[i] \in Presented
        BY <1>3, <2>1 DEF FadesIn, ItemFollows, Presented
      <3>2. /\ item.is = items[i].is /\ item.gone = items[i].gone
            /\ item.hiding = items[i].hiding /\ item.clear = FALSE
        BY <3>1 DEF Presented
      <3>3. items[i].fades - 1 \in Nat
        BY <3>1
      <3>4. item \in Presented
        BY <3>1, <3>3 DEF Presented
      <3> HIDE DEF item
      <3>5. QED
        BY <2>1, <2>3, <3>1, <3>2, <3>4 DEF ItemFollows, Matches
    <2>4. QED
      BY <1>3, <2>2, <2>3, ItemMoves DEF FadesIn
  <1>4. ASSUME NEW i \in Items, HideTimer(i) PROVE TimelineInv'
    <2>1. ItemFollows(i)
      BY DEF TimelineInv
    <2> DEFINE item == [items[i] EXCEPT !.hiding = FALSE, !.gone = TRUE]
    <2>2. items' = [items EXCEPT ![i] = item]
      BY <1>4 DEF HideTimer
    <2>3. ASSUME items'[i] = item PROVE ItemFollows(i)'
      <3>1. items[i].hiding /\ items[i] \in Presented /\ activeFilter' = activeFilter
        BY <1>4, <2>1 DEF HideTimer, ItemFollows
      <3>2. item.is = items[i].is /\ item.gone
        BY <3>1 DEF Presented
      <3>3. item \in Presented
        BY <3>1 DEF Presented
      <3>4. items[i].is = "hidden"
        BY <2>1, <3>1 DEF ItemFollows
      <3> HIDE DEF item
      <3>5. QED
        BY <2>1, <2>3, <3>1, <3>2, <3>3, <3>4 DEF ItemFollows, Matches
    <2>4. QED
      BY <1>4, <2>2, <2>3, ItemMoves DEF HideTimer
  <1>5. ASSUME NEW d \in Decades, SectionTimer(d) PROVE TimelineInv'
    BY <1>5 DEF SectionTimer, TimelineInv, ItemFollows, SectionFollows, Wanted, Matches, Presented
  <1>6. CASE UNCHANGED timelineVars
    BY <1>6 DEF timelineVars, TimelineInv, ItemFollows, SectionFollows, Wanted, Matches, Presented
  <1>7. QED
    BY <1>1, <1>2, <1>3, <1>4, <1>5, <1>6 DEF TimelineNext

\* Whatever filters are applied while the fades of earlier ones still run, what has stopped
\* moving on the history page is what its filter (timeline_filter.js) asks for.
THEOREM TimelineAlwaysShowsFilter == TimelineSpec => []TimelineShowsFilter
  BY TimelineStarts, TimelineSteps, TimelineShows, PTL DEF TimelineSpec

-----------------------------------------------------------------------------
(* The carousel never moves under a reader's hands and never stops for good. *)

\* With the types, what the run checks is inductive: whoever stops the interval off the
\* hover sets a timer, and whatever holds autoplay back sets one, or starts it, when it goes.
CarouselInv ==
    /\ reduced \in BOOLEAN /\ hover \in BOOLEAN /\ hooked \in BOOLEAN /\ interval \in BOOLEAN
    /\ starts \in Nat
    /\ CarouselRests

LEMMA CarouselStarts == CarouselInit => CarouselInv
  <1> SUFFICES ASSUME CarouselInit
               PROVE  CarouselInv
    OBVIOUS
  <1>1. starts \in Nat
    BY DEF CarouselInit
  <1>2. interval = (~reduced /\ ~hover /\ focus # "keyboard")
    BY DEF CarouselInit
  <1>3. reduced \in BOOLEAN /\ hover \in BOOLEAN /\ hooked \in BOOLEAN /\ interval \in BOOLEAN
    BY <1>2, Zenon DEF CarouselInit
  <1>4. CarouselRests
    BY <1>2, Zenon DEF CarouselRests
  <1>5. QED
    BY <1>1, <1>3, <1>4 DEF CarouselInv

LEMMA CarouselSteps == CarouselInv /\ [CarouselNext]_carouselVars => CarouselInv'
  <1> SUFFICES ASSUME CarouselInv, [CarouselNext]_carouselVars
               PROVE  CarouselInv'
    OBVIOUS
  <1> USE DEF CarouselInv, CarouselRests
  <1>1. CASE NextSlide
    <2>1. CASE hover
      BY <1>1, <2>1, Zenon DEF NextSlide
    <2>2. CASE ~hover
      <3>1. starts' \in Nat /\ starts' > 0
        BY <1>1, <2>2 DEF NextSlide
      <3>2. QED
        BY <1>1, <2>2, <3>1, Zenon DEF NextSlide
    <2>3. QED
      BY <2>1, <2>2
  <1>2. CASE StartTimer
    BY <1>2 DEF StartTimer, StartAutoplay
  <1>3. CASE HandleMouseEnter
    BY <1>3 DEF HandleMouseEnter
  <1>4. CASE HandleMouseLeave
    BY <1>4 DEF HandleMouseLeave, StartAutoplay
  <1>5. CASE FocusMoves
    BY <1>5 DEF FocusMoves
  <1>6. CASE HandleInteraction
    <2>1. starts' \in Nat /\ starts' > 0
      BY <1>6 DEF HandleInteraction
    <2>2. QED
      BY <1>6, <2>1, Zenon DEF HandleInteraction
  <1>7. CASE ArrowKey
    <2>1. starts' \in Nat /\ starts' > 0
      BY <1>7 DEF ArrowKey
    <2>2. QED
      BY <1>7, <2>1, Zenon DEF ArrowKey
  <1>8. CASE CarouselGoes
    BY <1>8 DEF CarouselGoes
  <1>9. CASE UNCHANGED carouselVars
    BY <1>9 DEF carouselVars
  <1>10. QED
    BY <1>1, <1>2, <1>3, <1>4, <1>5, <1>6, <1>7, <1>8, <1>9 DEF CarouselNext

\* However the delayed restarts fall, the carousel of image_carousel_autoplay.js moves only
\* while neither pointer nor keyboard is on it, and moves again when they have gone.
THEOREM CarouselAlwaysRests == CarouselSpec => []CarouselRests
  <1>1. CarouselInv => CarouselRests
    BY DEF CarouselInv
  <1>2. QED
    BY CarouselStarts, CarouselSteps, <1>1, PTL DEF CarouselSpec

-----------------------------------------------------------------------------
(* The list of venues answers the newest search, whatever is on its way.   *)

\* A lookup with the newest number was made for the newest text, no lookup has a number
\* that is still to come, and when none is the newest the list is what was searched for.
SearchInv ==
    /\ searchToken \in Nat
    /\ \A call \in calls : /\ call.token \in Nat /\ call.token <= searchToken
                           /\ Newest(call) => call.query = searched
    /\ ListAnswersNewestSearch

LEMMA SearchStarts == VenueInit => SearchInv
  BY DEF VenueInit, SearchInit, SearchInv, Newest, ListAnswersNewestSearch

LEMMA RefreshKeeps ==
  ASSUME SearchInv, NEW query, Refresh(query)
  PROVE  SearchInv'
  <1>1. searchToken' = searchToken + 1 /\ searched' = query
    BY DEF Refresh
  <1>2. \A call \in calls : call.token < searchToken'
    BY <1>1 DEF SearchInv
  <1>3. CASE query = 0
    BY <1>1, <1>2, <1>3 DEF Refresh, SearchInv, Newest, ListAnswersNewestSearch
  <1>4. CASE query # 0
    <2>1. calls' = calls \cup {[token |-> searchToken', query |-> query]}
      BY <1>4 DEF Refresh
    <2>2. \E call \in calls' : call.token = searchToken'
      <3>1. [token |-> searchToken', query |-> query] \in calls'
        BY <2>1
      <3>2. [token |-> searchToken', query |-> query].token = searchToken'
        OBVIOUS
      <3>3. QED
        BY <3>1, <3>2, Zenon
    <2>3. QED
      BY <1>1, <1>2, <2>1, <2>2 DEF SearchInv, Newest, ListAnswersNewestSearch
  <1>5. QED
    BY <1>3, <1>4

\* An answer that is not the newest changes nothing; the newest one is what is missing.
LEMMA AnswerKeeps ==
  ASSUME SearchInv, NEW call, SearchAnswered(call)
  PROVE  SearchInv'
  <1>1. /\ call \in calls /\ calls' = calls \ {call}
        /\ searchToken' = searchToken /\ searched' = searched
    BY DEF SearchAnswered
  <1>2. CASE Newest(call)
    <2>1. list'.query = searched
      BY <1>1, <1>2 DEF SearchAnswered, SearchInv
    <2>2. QED
      BY <1>1, <2>1 DEF SearchInv, Newest, ListAnswersNewestSearch
  <1>3. CASE ~Newest(call)
    <2>1. list' = list
      BY <1>3 DEF SearchAnswered
    <2>2. QED
      BY <1>1, <1>3, <2>1 DEF SearchInv, Newest, ListAnswersNewestSearch
  <1>4. QED
    BY <1>2, <1>3

LEMMA SearchSteps == SearchInv /\ [VenueNext]_venueVars => SearchInv'
  <1> SUFFICES ASSUME SearchInv, [VenueNext]_venueVars PROVE SearchInv'
    OBVIOUS
  <1>1. CASE Focus
    BY <1>1, RefreshKeeps DEF Focus
  <1>2. CASE DebounceEnds
    BY <1>2, RefreshKeeps DEF DebounceEnds
  <1>3. ASSUME NEW call \in calls, SearchAnswered(call) PROVE SearchInv'
    BY <1>3, AnswerKeeps
  <1>4. CASE TypeQuery
    BY <1>4 DEF TypeQuery, SearchInv, Newest, ListAnswersNewestSearch
  <1>5. CASE SelectResult
    <2>1. list'.query = list.query
      BY <1>5 DEF SelectResult
    <2>2. QED
      BY <1>5, <2>1 DEF SelectResult, SearchInv, Newest, ListAnswersNewestSearch
  <1>6. CASE CloseList
    BY <1>6 DEF CloseList, SearchInv, Newest, ListAnswersNewestSearch
  <1>7. CASE UNCHANGED searchVars
    BY <1>7 DEF searchVars, SearchInv, Newest, ListAnswersNewestSearch
  <1>8. QED
    BY <1>1, <1>2, <1>3, <1>4, <1>5, <1>6, <1>7 DEF VenueNext, SearchNext, venueVars

\* Whichever order Radar answers in and however many answers fail, the list under the search
\* field of radar_location_autocomplete.js is that of the newest search once it is answered.
THEOREM ListAlwaysAnswersNewest == VenueSpec => []ListAnswersNewestSearch
  <1>1. SearchInv => ListAnswersNewestSearch
    BY DEF SearchInv
  <1>2. QED
    BY SearchStarts, SearchSteps, <1>1, PTL DEF VenueSpec

-----------------------------------------------------------------------------
(* A ceremony counts while it is the newest, for any number of clicks.     *)

AskEvents == {"support", "start", "password", "verify", "error"}
Asking == [event: AskEvents, of: Nat, form: FormKinds]
Diffing == [form: FormKinds, supported: BOOLEAN, loading: BOOLEAN, leaving: BOOLEAN,
            challenge: Nat]
Mounts == [form: FormKinds, supported: BOOLEAN, loading: BOOLEAN, challenge: Nat,
           verified: BOOLEAN, leaving: BOOLEAN, last: Nat]
Stages == {"none", "open", "cut", "over"}

\* Each prompt tells the LiveView its end once, when it is over.
EndsAreTold(told, stage) ==
    /\ told \in Seq(Asking)
    /\ \A i \in DOMAIN told :
          /\ told[i].event \in {"verify", "error"} => told[i].of # 0
          /\ told[i].of # 0 => told[i].of \in Ceremonies /\ stage[told[i].of] = "over"
    /\ \A i, j \in DOMAIN told : told[i].of = told[j].of /\ told[i].of # 0 => i = j

\* Each challenge on its way to the browser opens a prompt that has not been opened.
ChallengesAreNew(coming, stage, last) ==
    /\ coming \in Seq(Diffing)
    /\ \A i \in DOMAIN coming :
          /\ coming[i].challenge <= last
          /\ coming[i].challenge \in Ceremonies => stage[coming[i].challenge] = "none"
    /\ \A i, j \in DOMAIN coming : coming[i].challenge = coming[j].challenge /\ coming[i].challenge # 0 => i = j

\* A past ceremony that the LiveView still has the challenge of has told its end already.
PastIsTold(before, told, stage, challenge) ==
    challenge \in before => /\ stage[challenge] = "over"
                          /\ \A i \in DOMAIN told : told[i].of # challenge

PasskeyShape ==
    /\ entry \in FormKinds /\ supports \in BOOLEAN /\ joined \in BOOLEAN
    /\ lv \in Mounts
    /\ dom \in [form: FormKinds, supported: BOOLEAN, loading: BOOLEAN, left: BOOLEAN]
    /\ ceremony \in [Ceremonies -> Stages]
    /\ accepted \subseteq Ceremonies /\ past \subseteq Ceremonies

PasskeyInv ==
    /\ PasskeyShape
    /\ EndsAreTold(asks, ceremony)
    /\ ChallengesAreNew(diffs, ceremony, lv.last)
    /\ lv.challenge <= lv.last
    /\ \A n \in Ceremonies : n > lv.last => ceremony[n] = "none"
    /\ \A n \in past : n <= lv.last
    /\ PastIsTold(past, asks, ceremony, lv.challenge)

\* Taking the first message leaves the rest, which says nothing more of its prompt.
LEMMA ToldTail ==
  ASSUME NEW told, NEW stage, EndsAreTold(told, stage), told # <<>>
  PROVE  /\ EndsAreTold(Tail(told), stage)
         /\ Head(told) \in Asking
         /\ Head(told).event \in {"verify", "error"} =>
               Head(told).of \in Ceremonies /\ stage[Head(told).of] = "over"
         /\ \A i \in DOMAIN Tail(told) : Tail(told)[i].of = Head(told).of => Head(told).of = 0
         /\ \A i \in DOMAIN Tail(told) : \E j \in DOMAIN told : Tail(told)[i] = told[j]
  <1>1. told \in Seq(Asking)
    BY DEF EndsAreTold
  <1>2. Head(told) = told[1] /\ 1 \in DOMAIN told /\ told[1] \in Asking
    BY <1>1
  <1>3. Tail(told) \in Seq(Asking)
    BY <1>1
  <1>4. \A i \in DOMAIN Tail(told) : i + 1 \in DOMAIN told /\ Tail(told)[i] = told[i + 1] /\ i \in Nat /\ i > 0
    BY <1>1
  <1>5. EndsAreTold(Tail(told), stage)
    BY <1>3, <1>4 DEF EndsAreTold
  <1>6. \A i \in DOMAIN Tail(told) : Tail(told)[i].of = Head(told).of => Head(told).of = 0
    BY <1>2, <1>4 DEF EndsAreTold
  <1>7. QED
    BY <1>2, <1>4, <1>5, <1>6 DEF EndsAreTold

LEMMA ToldMore ==
  ASSUME NEW told, NEW stage, EndsAreTold(told, stage), NEW ask \in Asking,
         ask.event \in {"verify", "error"} => ask.of # 0,
         ask.of # 0 => /\ ask.of \in Ceremonies /\ stage[ask.of] = "over"
                       /\ \A i \in DOMAIN told : told[i].of # ask.of
  PROVE  /\ EndsAreTold(Append(told, ask), stage)
         /\ \A i \in DOMAIN Append(told, ask) :
               Append(told, ask)[i] = ask \/ (i \in DOMAIN told /\ Append(told, ask)[i] = told[i])
  <1>1. told \in Seq(Asking) /\ Append(told, ask) \in Seq(Asking)
    BY DEF EndsAreTold
  <1>2. \A i \in DOMAIN Append(told, ask) :
           \/ i = Len(told) + 1 /\ Append(told, ask)[i] = ask
           \/ i \in DOMAIN told /\ Append(told, ask)[i] = told[i]
    BY <1>1
  <1>3. /\ \A i \in DOMAIN told :
              /\ told[i].event \in {"verify", "error"} => told[i].of # 0
              /\ told[i].of # 0 => told[i].of \in Ceremonies /\ stage[told[i].of] = "over"
        /\ \A i, j \in DOMAIN told : told[i].of = told[j].of /\ told[i].of # 0 => i = j
    BY DEF EndsAreTold
  <1>4. ASSUME NEW i \in DOMAIN Append(told, ask)
        PROVE  /\ Append(told, ask)[i].event \in {"verify", "error"} => Append(told, ask)[i].of # 0
               /\ Append(told, ask)[i].of # 0 =>
                     Append(told, ask)[i].of \in Ceremonies /\ stage[Append(told, ask)[i].of] = "over"
    BY <1>2, <1>3, ZenonT(60)
  <1>5. ASSUME NEW i \in DOMAIN Append(told, ask), NEW j \in DOMAIN Append(told, ask),
               Append(told, ask)[i].of = Append(told, ask)[j].of, Append(told, ask)[i].of # 0
        PROVE  i = j
    BY <1>2, <1>3, <1>5, Zenon
  <1>6. EndsAreTold(Append(told, ask), stage)
    BY <1>1, <1>4, <1>5, Zenon DEF EndsAreTold
  <1>7. QED
    BY <1>2, <1>6

LEMMA NewTail ==
  ASSUME NEW coming, NEW stage, NEW last, ChallengesAreNew(coming, stage, last), coming # <<>>
  PROVE  /\ ChallengesAreNew(Tail(coming), stage, last)
         /\ Head(coming) \in Diffing
         /\ Head(coming).challenge <= last
         /\ Head(coming).challenge \in Ceremonies => stage[Head(coming).challenge] = "none"
         /\ \A i \in DOMAIN Tail(coming) :
               Tail(coming)[i].challenge = Head(coming).challenge => Head(coming).challenge = 0
  <1>1. coming \in Seq(Diffing)
    BY DEF ChallengesAreNew
  <1>2. Head(coming) = coming[1] /\ 1 \in DOMAIN coming /\ coming[1] \in Diffing
    BY <1>1
  <1>3. Tail(coming) \in Seq(Diffing)
    BY <1>1
  <1>4. \A i \in DOMAIN Tail(coming) : i + 1 \in DOMAIN coming /\ Tail(coming)[i] = coming[i + 1] /\ i \in Nat /\ i > 0
    BY <1>1
  <1>5. ChallengesAreNew(Tail(coming), stage, last)
    BY <1>3, <1>4 DEF ChallengesAreNew
  <1>6. \A i \in DOMAIN Tail(coming) :
           Tail(coming)[i].challenge = Head(coming).challenge => Head(coming).challenge = 0
    BY <1>2, <1>4 DEF ChallengesAreNew
  <1>7. QED
    BY <1>2, <1>5, <1>6 DEF ChallengesAreNew

LEMMA NewMore ==
  ASSUME NEW coming, NEW stage, NEW last \in Nat, NEW next \in Nat, last <= next,
         ChallengesAreNew(coming, stage, last), NEW d \in Diffing,
         d.challenge # 0 => d.challenge = next /\ last < next,
         next \in Ceremonies /\ last < next => stage[next] = "none"
  PROVE  /\ ChallengesAreNew(Append(coming, d), stage, next)
         /\ ChallengesAreNew(coming, stage, next)
  <1>1. coming \in Seq(Diffing) /\ Append(coming, d) \in Seq(Diffing)
    BY DEF ChallengesAreNew
  <1>2. \A i \in DOMAIN Append(coming, d) :
           \/ i = Len(coming) + 1 /\ Append(coming, d)[i] = d
           \/ i \in DOMAIN coming /\ Append(coming, d)[i] = coming[i]
    BY <1>1
  <1>3. \A i \in DOMAIN coming : coming[i] \in Diffing
    BY <1>1
  <1>4. 0 \notin Ceremonies
    BY DEF Ceremonies
  <1>5. ChallengesAreNew(coming, stage, next)
    BY <1>1, <1>3 DEF ChallengesAreNew, Diffing
  <1>6. QED
    BY <1>1, <1>2, <1>3, <1>4, <1>5, SMTT(30) DEF ChallengesAreNew, Diffing

\* What a mount pushes is about no ceremony.
LEMMA DetectedTells ==
  ASSUME NEW form \in FormKinds, NEW told, NEW stage, EndsAreTold(told, stage)
  PROVE  /\ EndsAreTold(Detected(form), stage)
         /\ EndsAreTold(told \o Detected(form), stage)
         /\ \A i \in DOMAIN Detected(form) : Detected(form)[i].of = 0
         /\ \A i \in DOMAIN (told \o Detected(form)) :
               \/ (told \o Detected(form))[i].of = 0
               \/ i \in DOMAIN told /\ (told \o Detected(form))[i] = told[i]
  <1> DEFINE ask == [event |-> "support", of |-> 0, form |-> form]
  <1>1. ask \in Asking /\ ask.of = 0 /\ ask.event = "support"
    BY DEF Asking, AskEvents
  <1>2. told \in Seq(Asking)
    BY DEF EndsAreTold
  <1>3. EndsAreTold(<<>>, stage)
    BY DEF EndsAreTold
  <1>4. CASE supports
    <2>1. Detected(form) = <<ask>>
      BY <1>4 DEF Detected
    <2> HIDE DEF ask
    <2>2. told \o <<ask>> = Append(told, ask) /\ <<ask>> = Append(<<>>, ask)
      BY <1>1, <1>2
    <2>3. EndsAreTold(Append(told, ask), stage) /\ EndsAreTold(Append(<<>>, ask), stage)
      BY <1>1, <1>3, ToldMore
    <2>4. \A i \in DOMAIN Append(told, ask) :
             Append(told, ask)[i] = ask \/ (i \in DOMAIN told /\ Append(told, ask)[i] = told[i])
      BY <1>2
    <2>5. \A i \in DOMAIN <<ask>> : <<ask>>[i] = ask
      OBVIOUS
    <2>6. QED
      BY <1>1, <2>1, <2>2, <2>3, <2>4, <2>5, Zenon
  <1>5. CASE ~supports
    <2>1. Detected(form) = <<>>
      BY <1>5 DEF Detected
    <2>2. told \o <<>> = told
      BY <1>2
    <2>3. \A i \in DOMAIN <<>> : FALSE
      OBVIOUS
    <2>4. QED
      BY <1>3, <2>1, <2>2, <2>3, Zenon
  <1>6. QED
    BY <1>4, <1>5

LEMMA DiffTypes ==
  ASSUME NEW l \in Mounts, NEW challenge \in Nat
  PROVE  Diff(l, challenge) \in Diffing /\ Diff(l, challenge).challenge = challenge
  BY DEF Diff, Diffing, Mounts

LEMMA AnswerTells ==
  ASSUME PasskeyInv, NEW new \in Mounts, NEW challenge \in Nat, lv.last <= new.last,
         challenge # 0 => challenge = new.last /\ lv.last < new.last,
         Answer(new, challenge)
  PROVE  lv' = new /\ ChallengesAreNew(diffs', ceremony, new.last)
  <1>1. lv' = new
    BY DEF Answer
  <1>2. lv.last \in Nat /\ new.last \in Nat
    BY DEF PasskeyInv, PasskeyShape, Mounts
  <1>3. new.last \in Ceremonies /\ lv.last < new.last => ceremony[new.last] = "none"
    BY <1>2 DEF PasskeyInv
  <1>4. ChallengesAreNew(diffs, ceremony, lv.last)
    BY DEF PasskeyInv
  <1>5. /\ ChallengesAreNew(Append(diffs, Diff(new, challenge)), ceremony, new.last)
        /\ ChallengesAreNew(diffs, ceremony, new.last)
    BY <1>2, <1>3, <1>4, DiffTypes, NewMore
  <1>6. diffs' = diffs \/ diffs' = Append(diffs, Diff(new, challenge))
    BY DEF Answer
  <1>7. QED
    BY <1>1, <1>5, <1>6

\* The LiveView handles the first message.
LEMMA ServingKeeps ==
  ASSUME PasskeyInv, asks # <<>>, asks' = Tail(asks),
         UNCHANGED <<entry, supports, joined, dom, ceremony>>,
         lv' \in Mounts, lv.last <= lv'.last, lv'.challenge <= lv'.last,
         ChallengesAreNew(diffs', ceremony, lv'.last),
         accepted' \subseteq Ceremonies, past' \subseteq Ceremonies,
         \A n \in past' : n <= lv'.last,
         PastIsTold(past', Tail(asks), ceremony, lv'.challenge)
  PROVE  PasskeyInv'
  <1>1. EndsAreTold(asks', ceremony')
    BY ToldTail DEF PasskeyInv
  <1>2. PasskeyShape'
    BY DEF PasskeyInv, PasskeyShape
  <1>3. \A n \in Ceremonies : n > lv'.last => ceremony'[n] = "none"
    <2>1. lv.last \in Nat /\ lv'.last \in Nat /\ Ceremonies \subseteq Nat
      BY DEF PasskeyInv, PasskeyShape, Mounts, Ceremonies
    <2>2. QED
      BY <2>1 DEF PasskeyInv
  <1>4. QED
    BY <1>1, <1>2, <1>3 DEF PasskeyInv

LEMMA FirstMessage ==
  ASSUME PasskeyInv, asks # <<>>
  PROVE  /\ Head(asks).event \in {"verify", "error"} =>
               /\ Head(asks).of \in Ceremonies /\ Head(asks).of <= lv.last
               /\ ceremony[Head(asks).of] = "over"
               /\ \A i \in DOMAIN Tail(asks) : Tail(asks)[i].of # Head(asks).of
         /\ PastIsTold(past, Tail(asks), ceremony, lv.challenge)
  <1>1. /\ Head(asks).event \in {"verify", "error"} =>
               Head(asks).of \in Ceremonies /\ ceremony[Head(asks).of] = "over"
        /\ \A i \in DOMAIN Tail(asks) : Tail(asks)[i].of = Head(asks).of => Head(asks).of = 0
        /\ \A i \in DOMAIN Tail(asks) : \E j \in DOMAIN asks : Tail(asks)[i] = asks[j]
    BY ToldTail, ZenonT(60) DEF PasskeyInv
  <1>2. \A n \in Ceremonies : n # 0 /\ n \in Nat
    BY DEF Ceremonies
  <1>3. \A n \in Ceremonies : ceremony[n] = "over" => n <= lv.last
    BY <1>2 DEF PasskeyInv, PasskeyShape, Mounts
  <1>4. PastIsTold(past, Tail(asks), ceremony, lv.challenge)
    BY <1>1 DEF PasskeyInv, PastIsTold
  <1>5. QED
    BY <1>1, <1>2, <1>3, <1>4

LEMMA ClearedIs ==
  ASSUME PasskeyInv
  PROVE  /\ Cleared \in Mounts /\ Cleared.last = lv.last
         /\ Cleared.challenge \in {0, lv.challenge}
         /\ Cleared.challenge <= Cleared.last
  <1>1. lv \in Mounts /\ lv.challenge <= lv.last
    BY DEF PasskeyInv, PasskeyShape
  <1>2. CASE lv.form = "reauth"
    BY <1>1, <1>2 DEF Cleared
  <1>3. CASE lv.form # "reauth"
    <2>1. Cleared = [lv EXCEPT !.loading = FALSE, !.challenge = 0]
      BY <1>3 DEF Cleared, NoChallenge
    <2>2. [lv EXCEPT !.loading = FALSE, !.challenge = 0] \in Mounts
      BY <1>1 DEF Mounts
    <2>3. [lv EXCEPT !.loading = FALSE, !.challenge = 0].challenge = 0
      BY <1>1 DEF Mounts
    <2>4. [lv EXCEPT !.loading = FALSE, !.challenge = 0].last = lv.last /\ lv.last >= 0
      BY <1>1 DEF Mounts
    <2>5. QED
      BY <2>1, <2>2, <2>3, <2>4
  <1>4. QED
    BY <1>2, <1>3

LEMMA PasskeyStarts == PasskeyInit => PasskeyInv
  <1> SUFFICES ASSUME PasskeyInit PROVE PasskeyInv
    OBVIOUS
  <1>1. /\ lv = [form |-> entry, supported |-> FALSE, loading |-> FALSE, challenge |-> 0,
                 verified |-> FALSE, leaving |-> FALSE, last |-> 0]
        /\ entry \in FormKinds /\ supports \in BOOLEAN /\ joined = TRUE
        /\ ceremony = [n \in Ceremonies |-> "none"] /\ accepted = {} /\ past = {}
        /\ diffs = <<>> /\ asks = Detected(entry)
    BY Zenon DEF PasskeyInit, Fresh, NoChallenge
  <1>2. lv \in Mounts
    BY <1>1 DEF Mounts
  <1>3. dom \in [form: FormKinds, supported: BOOLEAN, loading: BOOLEAN, left: BOOLEAN]
    <2>1. dom = [form |-> entry, supported |-> FALSE, loading |-> FALSE, left |-> FALSE]
      <3>1. dom = Shown(Diff(lv, NoChallenge))
        BY DEF PasskeyInit
      <3>2. lv.form = entry /\ lv.supported = FALSE /\ lv.loading = FALSE /\ lv.leaving = FALSE
        BY <1>1
      <3>3. QED
        BY <3>1, <3>2 DEF Shown, Diff
    <2>2. QED
      BY <1>1, <2>1
  <1>4. PasskeyShape
    BY <1>1, <1>2, <1>3 DEF PasskeyShape, Stages
  <1>5. EndsAreTold(asks, ceremony)
    <2>1. EndsAreTold(<<>>, ceremony)
      BY DEF EndsAreTold
    <2>2. QED
      BY <1>1, <2>1, DetectedTells, Zenon
  <1>6. ChallengesAreNew(diffs, ceremony, lv.last)
    BY <1>1 DEF ChallengesAreNew
  <1>7. QED
    BY <1>1, <1>4, <1>5, <1>6 DEF PasskeyInv, PastIsTold

LEMMA SupportKeeps == ASSUME PasskeyInv, SupportDetected PROVE PasskeyInv'
  <1>0. lv \in Mounts /\ past \subseteq Ceremonies /\ accepted \subseteq Ceremonies
    BY DEF PasskeyInv, PasskeyShape
  <1> DEFINE new == [lv EXCEPT !.supported = TRUE]
  <1>1. new \in Mounts /\ new.last = lv.last /\ new.challenge = lv.challenge /\ lv.last <= new.last
    <2>1. new \in Mounts
      BY <1>0 DEF Mounts
    <2>2. new.last = lv.last /\ new.challenge = lv.challenge
      BY <1>0 DEF Mounts
    <2>3. lv.last \in Nat
      BY <1>0 DEF Mounts
    <2>4. QED
      BY <2>1, <2>2, <2>3
  <1> HIDE DEF new
  <1>2. Answer(new, 0)
    BY DEF SupportDetected, new, NoChallenge
  <1>3. lv' = new /\ ChallengesAreNew(diffs', ceremony, new.last)
    BY <1>1, <1>2, AnswerTells
  <1>4. /\ asks # <<>> /\ asks' = Tail(asks) /\ past' = past /\ accepted' = accepted
        /\ UNCHANGED <<entry, supports, joined, dom, ceremony>>
    BY DEF SupportDetected, Handles
  <1>5. PastIsTold(past', Tail(asks), ceremony, lv'.challenge)
    BY <1>1, <1>3, <1>4, FirstMessage
  <1>6. /\ lv'.challenge <= lv'.last /\ \A n \in past' : n <= lv'.last
    BY <1>1, <1>3, <1>4 DEF PasskeyInv
  <1>7. QED
    BY <1>0, <1>1, <1>3, <1>4, <1>5, <1>6, ServingKeeps

LEMMA Renewed ==
  ASSUME NEW l \in Mounts, NEW n \in Nat, NEW busy \in BOOLEAN, NEW new,
         new = [l EXCEPT !.last = n, !.challenge = n, !.loading = busy]
  PROVE  new \in Mounts /\ new.last = n /\ new.challenge = n
  <1>1. new \in Mounts
    BY DEF Mounts
  <1>2. new.last = n /\ new.challenge = n
    BY DEF Mounts
  <1>3. QED
    BY <1>1, <1>2

LEMMA StartKeeps == ASSUME PasskeyInv, StartCeremony PROVE PasskeyInv'
  <1>0. /\ lv \in Mounts /\ past \subseteq Ceremonies /\ accepted \subseteq Ceremonies
        /\ lv.last \in Nat /\ lv.challenge <= lv.last
    BY DEF PasskeyInv, PasskeyShape, Mounts
  <1>1. /\ asks # <<>> /\ asks' = Tail(asks) /\ accepted' = accepted
        /\ UNCHANGED <<entry, supports, joined, dom, ceremony>>
    BY DEF StartCeremony, Handles
  <1>2. CASE Head(asks).form = lv.form
    <2> DEFINE new == [lv EXCEPT !.last = lv.last + 1, !.challenge = NewChallenge,
                                 !.loading = lv.form # "reauth"]
    <2>0. (lv.form # "reauth") \in BOOLEAN /\ NewChallenge = lv.last + 1
      BY DEF NewChallenge
    <2>1. new \in Mounts /\ new.last = lv.last + 1 /\ new.challenge = lv.last + 1
      <3> DEFINE busy == lv.form # "reauth"
                 next == lv.last + 1
      <3>1. busy \in BOOLEAN /\ next \in Nat
        BY <1>0, <2>0
      <3>2. new = [lv EXCEPT !.last = next, !.challenge = next, !.loading = busy]
        BY <2>0, Zenon
      <3> HIDE DEF new, busy, next
      <3>3. new \in Mounts /\ new.last = next /\ new.challenge = next
        BY <1>0, <3>1, <3>2, Renewed, Zenon
      <3>4. QED
        BY <3>3 DEF next
    <2>2. new.last = lv.last + 1 /\ new.challenge = lv.last + 1
      BY <2>1
    <2> HIDE DEF new
    <2>3. Answer(new, lv.last + 1) /\ past' = past \cup Issued
      BY <1>2 DEF StartCeremony, new
    <2>4. lv' = new /\ ChallengesAreNew(diffs', ceremony, new.last)
      <3>1. lv.last + 1 \in Nat /\ lv.last <= new.last /\ lv.last + 1 = new.last /\ lv.last < new.last
        BY <1>0, <2>2
      <3>2. QED
        BY <2>1, <2>3, <3>1, AnswerTells
    <2>5. past' \subseteq Ceremonies /\ \A n \in past' : n <= lv.last
      BY <1>0, <2>3 DEF PasskeyInv, Issued
    <2>6. \A n \in past' : n < lv.last + 1
      BY <1>0, <2>5 DEF Ceremonies
    <2>7. PastIsTold(past', Tail(asks), ceremony, lv'.challenge)
      BY <1>0, <2>2, <2>4, <2>6 DEF PastIsTold
    <2>8. \A n \in past' : n <= lv'.last
      BY <1>0, <2>2, <2>4, <2>5, <2>6 DEF Ceremonies
    <2>9. lv' \in Mounts /\ lv.last <= lv'.last /\ lv'.challenge <= lv'.last
      BY <1>0, <2>1, <2>2, <2>4
    <2>10. ChallengesAreNew(diffs', ceremony, lv'.last)
      BY <2>4
    <2>11. accepted' \subseteq Ceremonies /\ past' \subseteq Ceremonies
      BY <1>0, <1>1, <2>5
    <2>12. QED
      BY <1>1, <2>7, <2>8, <2>9, <2>10, <2>11, ServingKeeps
  <1>3. CASE Head(asks).form # lv.form
    <2>1. UNCHANGED <<lv, diffs, past>>
      BY <1>3 DEF StartCeremony
    <2>2. PastIsTold(past', Tail(asks), ceremony, lv'.challenge)
      BY <1>1, <2>1, FirstMessage
    <2>3. QED
      BY <1>0, <1>1, <2>1, <2>2, ServingKeeps DEF PasskeyInv
  <1>4. QED
    BY <1>2, <1>3

\* Whatever the end, the LiveView answers and forgets the challenge or keeps it.
LEMMA EndKeeps ==
  ASSUME PasskeyInv, asks # <<>>, asks' = Tail(asks),
         UNCHANGED <<entry, supports, joined, dom, ceremony>>,
         NEW new \in Mounts, new.last = lv.last, new.challenge \in {0, lv.challenge},
         Answer(new, NoChallenge),
         accepted' \subseteq Ceremonies,
         \/ past' = past
         \/ Head(asks).event \in {"verify", "error"} /\ past' = past \cup {Head(asks).of}
  PROVE  PasskeyInv'
  <1>0. /\ lv \in Mounts /\ past \subseteq Ceremonies
        /\ lv.last \in Nat /\ lv.challenge <= lv.last
        /\ 0 \notin Ceremonies
    BY DEF PasskeyInv, PasskeyShape, Mounts, Ceremonies
  <1>1. lv' = new /\ ChallengesAreNew(diffs', ceremony, new.last)
    BY <1>0, AnswerTells DEF NoChallenge
  <1>2. past' \subseteq Ceremonies /\ \A n \in past' : n <= lv.last
    BY <1>0, FirstMessage DEF PasskeyInv
  <1>3. PastIsTold(past', Tail(asks), ceremony, lv.challenge)
    BY <1>0, FirstMessage DEF PastIsTold
  <1>4. PastIsTold(past', Tail(asks), ceremony, new.challenge)
    BY <1>0, <1>2, <1>3 DEF PastIsTold
  <1>5. QED
    BY <1>0, <1>1, <1>2, <1>4, ServingKeeps

LEMMA VerifyKeeps == ASSUME PasskeyInv, VerifyCredential PROVE PasskeyInv'
  <1>0. lv \in Mounts /\ past \subseteq Ceremonies /\ accepted \subseteq Ceremonies
    BY DEF PasskeyInv, PasskeyShape
  <1>1. /\ asks # <<>> /\ asks' = Tail(asks) /\ Head(asks).event = "verify"
        /\ UNCHANGED <<entry, supports, joined, dom, ceremony>>
    BY DEF VerifyCredential, Handles
  <1>2. Head(asks).of \in Ceremonies
    BY <1>1, FirstMessage
  <1>3. CASE Answer(Cleared, NoChallenge) /\ UNCHANGED accepted /\ past' = past \cup {Head(asks).of}
    BY <1>0, <1>1, <1>3, EndKeeps, ClearedIs
  <1>4. ASSUME accepted' = accepted \cup {Head(asks).of}, past' = past,
               Answer(CASE lv.form = "login" -> [Cleared EXCEPT !.leaving = TRUE]
                         [] lv.form = "reauth" -> [lv EXCEPT !.verified = TRUE]
                         [] OTHER -> Cleared, NoChallenge)
        PROVE  PasskeyInv'
    <2>0. accepted' \subseteq Ceremonies
      BY <1>0, <1>2, <1>4
    <2>1. CASE lv.form = "login"
      <3>1. Answer([Cleared EXCEPT !.leaving = TRUE], NoChallenge)
        BY <1>4, <2>1
      <3>2. [Cleared EXCEPT !.leaving = TRUE] \in Mounts
        BY ClearedIs DEF Mounts
      <3>3. /\ [Cleared EXCEPT !.leaving = TRUE].last = lv.last
            /\ [Cleared EXCEPT !.leaving = TRUE].challenge \in {0, lv.challenge}
        BY ClearedIs DEF Mounts
      <3>4. QED
        BY <1>1, <1>4, <2>0, <3>1, <3>2, <3>3, EndKeeps
    <2>2. CASE lv.form = "reauth"
      <3>1. Answer([lv EXCEPT !.verified = TRUE], NoChallenge)
        BY <1>4, <2>2
      <3>2. [lv EXCEPT !.verified = TRUE] \in Mounts
        BY <1>0 DEF Mounts
      <3>3. /\ [lv EXCEPT !.verified = TRUE].last = lv.last
            /\ [lv EXCEPT !.verified = TRUE].challenge \in {0, lv.challenge}
        BY <1>0 DEF Mounts
      <3>4. QED
        BY <1>1, <1>4, <2>0, <3>1, <3>2, <3>3, EndKeeps
    <2>3. CASE lv.form # "login" /\ lv.form # "reauth"
      <3>1. Answer(Cleared, NoChallenge)
        BY <1>4, <2>3
      <3>2. QED
        BY <1>1, <1>4, <2>0, <3>1, ClearedIs, EndKeeps
    <2>4. QED
      BY <2>1, <2>2, <2>3
  <1>5. QED
    BY <1>3, <1>4 DEF VerifyCredential

LEMMA FailureKeeps == ASSUME PasskeyInv, CeremonyFailed PROVE PasskeyInv'
  <1>1. /\ asks # <<>> /\ asks' = Tail(asks) /\ Head(asks).event = "error"
        /\ UNCHANGED <<entry, supports, joined, dom, ceremony>>
        /\ Answer(Cleared, NoChallenge) /\ past' = past \cup {Head(asks).of}
        /\ accepted' = accepted
    BY DEF CeremonyFailed, Handles
  <1>2. accepted' \subseteq Ceremonies
    BY <1>1 DEF PasskeyInv, PasskeyShape
  <1>3. QED
    BY <1>1, <1>2, ClearedIs, EndKeeps

LEMMA PasswordKeeps == ASSUME PasskeyInv, PasswordVerified PROVE PasskeyInv'
  <1>0. lv \in Mounts /\ past \subseteq Ceremonies /\ accepted \subseteq Ceremonies
    BY DEF PasskeyInv, PasskeyShape
  <1>1. /\ asks # <<>> /\ asks' = Tail(asks) /\ past' = past /\ accepted' = accepted
        /\ UNCHANGED <<entry, supports, joined, dom, ceremony>>
    BY DEF PasswordVerified, Handles
  <1>2. CASE Answer([lv EXCEPT !.verified = TRUE], NoChallenge)
    <2>1. [lv EXCEPT !.verified = TRUE] \in Mounts
      BY <1>0 DEF Mounts
    <2>2. /\ [lv EXCEPT !.verified = TRUE].last = lv.last
          /\ [lv EXCEPT !.verified = TRUE].challenge \in {0, lv.challenge}
      BY <1>0 DEF Mounts
    <2>3. QED
      BY <1>0, <1>1, <1>2, <2>1, <2>2, EndKeeps
  <1>3. CASE UNCHANGED <<lv, diffs>>
    <2>1. PastIsTold(past', Tail(asks), ceremony, lv'.challenge)
      BY <1>1, <1>3, FirstMessage
    <2>2. QED
      BY <1>0, <1>1, <1>3, <2>1, ServingKeeps DEF PasskeyInv, Mounts
  <1>4. QED
    BY <1>2, <1>3 DEF PasswordVerified

LEMMA StagesMove ==
  ASSUME NEW told, NEW coming, NEW last, NEW stage, NEW next,
         EndsAreTold(told, stage), ChallengesAreNew(coming, stage, last),
         \A n \in Ceremonies : stage[n] = "over" => next[n] = "over",
         \A i \in DOMAIN coming : coming[i].challenge \in Ceremonies /\ stage[coming[i].challenge] = "none"
                                => next[coming[i].challenge] = "none"
  PROVE  EndsAreTold(told, next) /\ ChallengesAreNew(coming, next, last)
  <1>1. EndsAreTold(told, next)
    BY Zenon DEF EndsAreTold
  <1>2. ChallengesAreNew(coming, next, last)
    BY Zenon DEF ChallengesAreNew
  <1>3. QED
    BY <1>1, <1>2

LEMMA ReauthKeeps == ASSUME PasskeyInv, ReauthVerified PROVE PasskeyInv'
  <1>0. lv \in Mounts /\ lv.last \in Nat /\ "register" \in FormKinds
    BY DEF PasskeyInv, PasskeyShape, Mounts, FormKinds
  <1> DEFINE new == [lv EXCEPT !.form = "register", !.verified = FALSE, !.challenge = 0]
  <1>1. new \in Mounts
    BY <1>0 DEF Mounts
  <1>2. new.last = lv.last /\ new.challenge = 0
    BY <1>0 DEF Mounts
  <1> HIDE DEF new
  <1>3. Answer(new, 0)
    BY DEF ReauthVerified, new, NoChallenge
  <1>4. lv' = new /\ ChallengesAreNew(diffs', ceremony, new.last)
    BY <1>0, <1>1, <1>2, <1>3, AnswerTells
  <1>5. UNCHANGED <<entry, supports, joined, asks, dom, ceremony, accepted, past>>
    BY DEF ReauthVerified
  <1>6. PastIsTold(past, asks, ceremony, 0)
    BY DEF PastIsTold, PasskeyInv, PasskeyShape, Ceremonies
  <1>7. PasskeyShape'
    BY <1>1, <1>4, <1>5 DEF PasskeyInv, PasskeyShape
  <1>8. QED
    BY <1>0, <1>2, <1>4, <1>5, <1>6, <1>7 DEF PasskeyInv

\* A push of an element on the page: about no ceremony, or about one that ends now.
LEMMA PushKeeps ==
  ASSUME PasskeyInv, NEW event \in AskEvents, NEW n \in Nat, PushAsk(event, n),
         event \in {"verify", "error"} => n # 0,
         UNCHANGED <<entry, supports, lv, joined, diffs, dom, accepted, past>>,
         \/ n = 0 /\ UNCHANGED ceremony
         \/ n \in Ceremonies /\ ceremony[n] = "open" /\ Ends(n)
  PROVE  PasskeyInv'
  <1>0. /\ ceremony \in [Ceremonies -> Stages] /\ dom.form \in FormKinds
        /\ 0 \notin Ceremonies /\ EndsAreTold(asks, ceremony) /\ ChallengesAreNew(diffs, ceremony, lv.last)
    BY DEF PasskeyInv, PasskeyShape, Ceremonies
  <1>1. /\ ceremony' \in [Ceremonies -> Stages]
        /\ \A m \in Ceremonies : m # n => ceremony'[m] = ceremony[m]
        /\ n \in Ceremonies => ceremony[n] = "open" /\ ceremony'[n] = "over"
    <2>1. CASE n = 0 /\ UNCHANGED ceremony
      BY <1>0, <2>1
    <2>2. CASE n \in Ceremonies /\ ceremony[n] = "open" /\ Ends(n)
      BY <1>0, <2>2 DEF Ends, Stages
    <2>3. QED
      BY <2>1, <2>2
  <1>2. EndsAreTold(asks, ceremony') /\ ChallengesAreNew(diffs, ceremony', lv.last)
    <2>1. \A m \in Ceremonies : ceremony[m] = "over" => ceremony'[m] = "over"
      BY <1>1
    <2>2. \A m \in Ceremonies : ceremony[m] = "none" => ceremony'[m] = "none"
      BY <1>1
    <2>3. QED
      BY <1>0, <2>1, <2>2, StagesMove
  <1>3. Ask(event, n) \in Asking /\ Ask(event, n).of = n /\ Ask(event, n).event = event
    BY <1>0 DEF Ask, Asking
  <1>4. n # 0 => /\ n \in Ceremonies /\ ceremony'[n] = "over"
                 /\ \A i \in DOMAIN asks : asks[i].of # n
    BY <1>0, <1>1 DEF EndsAreTold
  <1>5. /\ EndsAreTold(Append(asks, Ask(event, n)), ceremony')
        /\ \A i \in DOMAIN Append(asks, Ask(event, n)) :
              \/ Append(asks, Ask(event, n))[i] = Ask(event, n)
              \/ i \in DOMAIN asks /\ Append(asks, Ask(event, n))[i] = asks[i]
    BY <1>2, <1>3, <1>4, ToldMore
  <1>6. /\ EndsAreTold(asks', ceremony')
        /\ \A i \in DOMAIN asks' : asks'[i].of = n \/ (i \in DOMAIN asks /\ asks'[i] = asks[i])
    <2>1. CASE asks' = asks
      BY <1>2, <2>1
    <2>2. CASE asks' = Append(asks, Ask(event, n))
      BY <1>3, <1>5, <2>2, Zenon
    <2>3. QED
      BY <2>1, <2>2 DEF PushAsk
  <1>7. PastIsTold(past, asks', ceremony', lv.challenge)
    BY <1>0, <1>1, <1>6 DEF PasskeyInv, PastIsTold, PasskeyShape
  <1>8. \A m \in Ceremonies : m > lv.last => ceremony'[m] = "none"
    BY <1>1 DEF PasskeyInv
  <1>9. PasskeyShape'
    BY <1>1 DEF PasskeyInv, PasskeyShape
  <1>10. QED
    BY <1>2, <1>6, <1>7, <1>8, <1>9 DEF PasskeyInv

LEMMA NoCredentialKeeps == ASSUME PasskeyInv, NEW n \in Ceremonies, NoCredential(n) PROVE PasskeyInv'
  <1>0. /\ ceremony \in [Ceremonies -> Stages]
        /\ EndsAreTold(asks, ceremony) /\ ChallengesAreNew(diffs, ceremony, lv.last)
    BY DEF PasskeyInv, PasskeyShape
  <1>1. /\ UNCHANGED <<entry, supports, lv, joined, diffs, dom, accepted, past, asks>>
        /\ ceremony' \in [Ceremonies -> Stages] /\ ceremony[n] = "open" /\ ceremony'[n] = "over"
        /\ \A m \in Ceremonies : m # n => ceremony'[m] = ceremony[m]
    BY <1>0 DEF NoCredential, AfterPrompt, Ends, Stages
  <1>2. EndsAreTold(asks, ceremony') /\ ChallengesAreNew(diffs, ceremony', lv.last)
    <2>1. \A m \in Ceremonies : ceremony[m] = "over" => ceremony'[m] = "over"
      BY <1>1
    <2>2. \A m \in Ceremonies : ceremony[m] = "none" => ceremony'[m] = "none"
      BY <1>1
    <2>3. QED
      BY <1>0, <2>1, <2>2, StagesMove
  <1>3. PastIsTold(past, asks, ceremony', lv.challenge)
    BY <1>1 DEF PasskeyInv, PastIsTold, PasskeyShape
  <1>4. \A m \in Ceremonies : m > lv.last => ceremony'[m] = "none"
    BY <1>1 DEF PasskeyInv
  <1>5. PasskeyShape'
    BY <1>1 DEF PasskeyInv, PasskeyShape
  <1>6. QED
    BY <1>1, <1>2, <1>3, <1>4, <1>5 DEF PasskeyInv

LEMMA OrphanedStages ==
  ASSUME ceremony \in [Ceremonies -> Stages]
  PROVE  /\ Orphaned \in [Ceremonies -> Stages]
         /\ \A n \in Ceremonies : /\ ceremony[n] = "over" => Orphaned[n] = "over"
                                  /\ ceremony[n] = "none" => Orphaned[n] = "none"
  BY DEF Orphaned, Stages

LEMMA ReceiveKeeps == ASSUME PasskeyInv, ReceiveDiff PROVE PasskeyInv'
  <1> DEFINE d == Head(diffs)
             hooks == IF d.form # dom.form THEN Orphaned ELSE ceremony
  <1>0. /\ ceremony \in [Ceremonies -> Stages] /\ past \subseteq Ceremonies
        /\ EndsAreTold(asks, ceremony) /\ ChallengesAreNew(diffs, ceremony, lv.last)
        /\ lv.last \in Nat /\ Ceremonies \subseteq Nat /\ diffs # <<>>
    BY DEF PasskeyInv, PasskeyShape, Mounts, ReceiveDiff, Ceremonies
  <1>1. /\ UNCHANGED <<entry, supports, lv, joined, accepted, past>>
        /\ diffs' = Tail(diffs) /\ dom' = Shown(d)
        /\ asks' = asks \/ asks' = asks \o Detected(d.form)
        /\ \/ ceremony' = hooks
           \/ d.challenge # 0 /\ ceremony' = [hooks EXCEPT ![d.challenge] = "open"]
    BY DEF ReceiveDiff, NoChallenge
  <1>2. /\ d \in Diffing /\ d.challenge <= lv.last
        /\ d.challenge \in Ceremonies => ceremony[d.challenge] = "none"
        /\ ChallengesAreNew(Tail(diffs), ceremony, lv.last)
        /\ \A i \in DOMAIN Tail(diffs) : Tail(diffs)[i].challenge = d.challenge => d.challenge = 0
    BY <1>0, NewTail
  <1>3. /\ hooks \in [Ceremonies -> Stages]
        /\ \A n \in Ceremonies : /\ ceremony[n] = "over" => hooks[n] = "over"
                                 /\ ceremony[n] = "none" => hooks[n] = "none"
    BY <1>0, OrphanedStages
  <1>4. d.form \in FormKinds /\ d.challenge \in Nat
    BY <1>2 DEF Diffing
  <1>d. dom' \in [form: FormKinds, supported: BOOLEAN, loading: BOOLEAN, left: BOOLEAN]
    BY <1>1, <1>2 DEF Diffing, Shown
  <1> HIDE DEF d, hooks
  <1>5. /\ ceremony' \in [Ceremonies -> Stages]
        /\ \A n \in Ceremonies : /\ ceremony[n] = "over" => ceremony'[n] = "over"
                                 /\ ceremony[n] = "none" => ceremony'[n] = "none" \/ n = d.challenge
    <2>1. CASE ceremony' = hooks
      BY <1>3, <2>1
    <2>2. CASE ceremony' = [hooks EXCEPT ![d.challenge] = "open"]
      <3>1. ceremony' \in [Ceremonies -> Stages]
        BY <1>3, <2>2 DEF Stages
      <3>2. \A n \in Ceremonies : ceremony'[n] = IF n = d.challenge THEN "open" ELSE hooks[n]
        BY <1>3, <2>2
      <3>3. QED
        BY <1>2, <1>3, <3>1, <3>2
    <2>3. QED
      BY <1>1, <2>1, <2>2
  <1>6. EndsAreTold(asks, ceremony') /\ ChallengesAreNew(Tail(diffs), ceremony', lv.last)
    <2>1. \A n \in Ceremonies : ceremony[n] = "over" => ceremony'[n] = "over"
      BY <1>5
    <2>2. \A i \in DOMAIN Tail(diffs) :
             Tail(diffs)[i].challenge \in Ceremonies /\ ceremony[Tail(diffs)[i].challenge] = "none"
             => ceremony'[Tail(diffs)[i].challenge] = "none"
      <3>1. 0 \notin Ceremonies
        BY DEF Ceremonies
      <3>2. QED
        BY <1>2, <1>5, <3>1
    <2>3. EndsAreTold(asks, ceremony) /\ ChallengesAreNew(Tail(diffs), ceremony, lv.last)
      BY <1>0, <1>2
    <2>4. QED
      BY <2>1, <2>2, <2>3, Zenon DEF EndsAreTold, ChallengesAreNew
  <1>7. /\ EndsAreTold(asks', ceremony')
        /\ \A i \in DOMAIN asks' : asks'[i].of = 0 \/ (i \in DOMAIN asks /\ asks'[i] = asks[i])
    <2>1. CASE asks' = asks
      BY <1>6, <2>1
    <2>2. CASE asks' = asks \o Detected(d.form)
      <3>1. /\ EndsAreTold(asks \o Detected(d.form), ceremony')
            /\ \A i \in DOMAIN (asks \o Detected(d.form)) :
                  \/ (asks \o Detected(d.form))[i].of = 0
                  \/ i \in DOMAIN asks /\ (asks \o Detected(d.form))[i] = asks[i]
        BY <1>4, <1>6, DetectedTells, Zenon
      <3>2. QED
        BY <2>2, <3>1, Zenon
    <2>3. QED
      BY <1>1, <2>1, <2>2
  <1>8. PastIsTold(past, asks', ceremony', lv.challenge)
    <2>1. SUFFICES ASSUME lv.challenge \in past
                   PROVE  /\ ceremony'[lv.challenge] = "over"
                          /\ \A i \in DOMAIN asks' : asks'[i].of # lv.challenge
      BY DEF PastIsTold
    <2>2. lv.challenge \in Ceremonies /\ lv.challenge # 0
      <3>1. \A n \in Ceremonies : n # 0
        BY DEF Ceremonies
      <3>2. QED
        BY <1>0, <2>1, <3>1
    <2>3. ceremony[lv.challenge] = "over" /\ \A i \in DOMAIN asks : asks[i].of # lv.challenge
      BY <2>1 DEF PasskeyInv, PastIsTold
    <2>4. QED
      BY <1>5, <1>7, <2>2, <2>3
  <1>9. \A n \in Ceremonies : n > lv.last => ceremony'[n] = "none"
    BY <1>0, <1>2, <1>4, <1>5 DEF PasskeyInv
  <1>10. PasskeyShape'
    BY <1>1, <1>5, <1>d DEF PasskeyInv, PasskeyShape
  <1>11. QED
    BY <1>1, <1>6, <1>7, <1>8, <1>9, <1>10 DEF PasskeyInv

LEMMA LoseKeeps == ASSUME PasskeyInv, LosePage PROVE PasskeyInv'
  <1>0. lv \in Mounts /\ lv.last \in Nat /\ past \subseteq Ceremonies /\ entry \in FormKinds
    BY DEF PasskeyInv, PasskeyShape, Mounts
  <1>1. /\ UNCHANGED <<entry, supports, dom, ceremony, accepted>>
        /\ joined' = FALSE /\ asks' = <<>> /\ diffs' = <<>> /\ past' = past \cup Issued
        /\ lv' = Fresh(entry, lv.last)
    BY DEF LosePage
  <1>2. lv' \in Mounts
    BY <1>0, <1>1 DEF Fresh, Mounts, NoChallenge
  <1>3. lv'.last = lv.last /\ lv'.challenge = 0
    BY <1>1 DEF Fresh, NoChallenge
  <1>4. EndsAreTold(asks', ceremony') /\ ChallengesAreNew(diffs', ceremony', lv'.last)
    BY <1>1 DEF EndsAreTold, ChallengesAreNew
  <1>5. past' \subseteq Ceremonies /\ \A n \in past' : n <= lv.last
    BY <1>0, <1>1 DEF PasskeyInv, Issued
  <1>6. PastIsTold(past', asks', ceremony', lv'.challenge)
    BY <1>3, <1>5 DEF PastIsTold, Ceremonies
  <1>7. PasskeyShape'
    BY <1>1, <1>2, <1>5 DEF PasskeyInv, PasskeyShape
  <1>8. QED
    BY <1>0, <1>1, <1>3, <1>4, <1>5, <1>6, <1>7 DEF PasskeyInv

LEMMA RejoinKeeps == ASSUME PasskeyInv, RejoinPage PROVE PasskeyInv'
  <1>0. /\ ceremony \in [Ceremonies -> Stages] /\ past \subseteq Ceremonies /\ entry \in FormKinds
        /\ EndsAreTold(asks, ceremony) /\ ChallengesAreNew(diffs, ceremony, lv.last) /\ lv \in Mounts
    BY DEF PasskeyInv, PasskeyShape
  <1>1. /\ UNCHANGED <<entry, supports, lv, diffs, accepted, past>>
        /\ joined' = TRUE /\ asks' = Detected(entry)
        /\ ceremony' = ceremony \/ ceremony' = Orphaned
        /\ dom' = Shown(Diff(lv, NoChallenge))
    BY DEF RejoinPage, Announced
  <1>2. /\ ceremony' \in [Ceremonies -> Stages]
        /\ \A n \in Ceremonies : /\ ceremony[n] = "over" => ceremony'[n] = "over"
                                 /\ ceremony[n] = "none" => ceremony'[n] = "none"
    BY <1>0, <1>1, OrphanedStages
  <1>3. EndsAreTold(asks, ceremony') /\ ChallengesAreNew(diffs, ceremony', lv.last)
    BY <1>0, <1>2, StagesMove
  <1>4. /\ EndsAreTold(asks', ceremony')
        /\ \A i \in DOMAIN asks' : asks'[i].of = 0
    BY <1>0, <1>1, <1>3, DetectedTells, Zenon
  <1>5. PastIsTold(past, asks', ceremony', lv.challenge)
    <2>1. \A n \in Ceremonies : n # 0
      BY DEF Ceremonies
    <2>2. lv.challenge \in past => ceremony[lv.challenge] = "over"
      BY DEF PasskeyInv, PastIsTold
    <2>3. QED
      BY <1>0, <1>2, <1>4, <2>1, <2>2 DEF PastIsTold
  <1>6. \A n \in Ceremonies : n > lv.last => ceremony'[n] = "none"
    BY <1>2 DEF PasskeyInv
  <1>7. dom' \in [form: FormKinds, supported: BOOLEAN, loading: BOOLEAN, left: BOOLEAN]
    BY <1>0, <1>1 DEF Shown, Diff, Mounts
  <1>8. PasskeyShape'
    BY <1>1, <1>2, <1>7 DEF PasskeyInv, PasskeyShape
  <1>9. QED
    BY <1>1, <1>3, <1>4, <1>5, <1>6, <1>8 DEF PasskeyInv

LEMMA PasskeySteps == PasskeyInv /\ [PasskeyNext]_passkeyVars => PasskeyInv'
  <1> SUFFICES ASSUME PasskeyInv, [PasskeyNext]_passkeyVars PROVE PasskeyInv'
    OBVIOUS
  <1> USE DEF AskEvents
  <1>1. CASE ClickPasskey
    BY <1>1, PushKeeps DEF ClickPasskey
  <1>2. CASE EnterPassword
    BY <1>2, PushKeeps DEF EnterPassword
  <1>3. CASE Serve
    BY <1>3, SupportKeeps, StartKeeps, VerifyKeeps, FailureKeeps, PasswordKeeps, ReauthKeeps DEF Serve
  <1>4. ASSUME NEW n \in Ceremonies, PromptEnds(n) PROVE PasskeyInv'
    <2>1. n \in Nat /\ n # 0
      BY DEF Ceremonies
    <2>2. CASE ReturnsCredential(n)
      BY <2>1, <2>2, PushKeeps DEF ReturnsCredential, AfterPrompt
    <2>3. CASE PromptFails(n)
      BY <2>1, <2>3, PushKeeps DEF PromptFails, AfterPrompt
    <2>4. QED
      BY <1>4, <2>2, <2>3 DEF PromptEnds, SignsIn, Registers, SignInFails, RegistrationFails
  <1>5. CASE UNCHANGED passkeyVars
    <2>1. UNCHANGED <<entry, supports, lv, joined, asks, diffs, dom, ceremony, accepted, past>>
      BY <1>5 DEF passkeyVars
    <2>2. QED
      BY <2>1 DEF PasskeyInv, PasskeyShape, PastIsTold, EndsAreTold, ChallengesAreNew
  <1>6. QED
    BY <1>1, <1>2, <1>3, <1>4, <1>5, ReceiveKeeps, LoseKeeps, RejoinKeeps, NoCredentialKeeps
       DEF PasskeyNext

\* The LiveView verifies a ceremony only with the challenge it still has, and a ceremony that
\* is past either is not that one or has told its end before.
LEMMA OnlyTheLatestIsAccepted ==
  PasskeyInv /\ [PasskeyNext]_passkeyVars => \A n \in accepted' \ accepted : n \notin past
  <1> SUFFICES ASSUME PasskeyInv, [PasskeyNext]_passkeyVars, NEW n \in accepted' \ accepted
               PROVE  n \notin past
    OBVIOUS
  <1>1. VerifyCredential
    BY DEF PasskeyNext, passkeyVars, ClickPasskey, EnterPassword, ReceiveDiff, Serve,
           SupportDetected, StartCeremony, CeremonyFailed, PasswordVerified, ReauthVerified,
           LosePage, RejoinPage, PromptEnds, SignsIn, Registers, SignInFails,
           RegistrationFails, ReturnsCredential, PromptFails, NoCredential, AfterPrompt
  <1>2. /\ asks # <<>> /\ lv.challenge = Head(asks).of
        /\ accepted' = accepted \cup {Head(asks).of}
    BY <1>1 DEF VerifyCredential, Handles
  <1>3. n = lv.challenge /\ 1 \in DOMAIN asks /\ asks[1].of = n
    BY <1>2 DEF PasskeyInv, EndsAreTold
  <1>4. QED
    BY <1>3 DEF PasskeyInv, PastIsTold

\* A sign-in, a re-authentication and a registration with a passkey (passkey_auth.js, the
\* verify handlers of the three LiveViews) are granted to the newest ceremony alone, for any
\* number of clicks, failures and lost connections.
THEOREM OnlyTheLatestCeremonyIsAccepted == PasskeySpec => OnlyTheLatestCeremonyCounts
  <1>1. PasskeyInit => PasskeyInv
    BY PasskeyStarts
  <1>2. PasskeyInv /\ [PasskeyNext]_passkeyVars => PasskeyInv'
    BY PasskeySteps
  <1>3. PasskeyInv /\ [PasskeyNext]_passkeyVars
        => [\A n \in accepted' \ accepted : n \notin past]_passkeyVars
    BY OnlyTheLatestIsAccepted
  <1>4. QED
    BY <1>1, <1>2, <1>3, PTL DEF PasskeySpec, OnlyTheLatestCeremonyCounts

-----------------------------------------------------------------------------
(* A pull cancels its own modal, for any number of touches and modals.     *)

\* Unless the sheet was dragged while a dismissal awaited its check, the one spring that
\* carries it off is the one the hook knows and of this round, there is one check at most,
\* and none while the sheet is dragged or on its way.
OneDismissal ==
    /\ \A s \in springs : s.to = "off" =>
          s.name = anim /\ s.round = modal.round /\ sheet = "settling"
    /\ \A s, r \in springs : s.to = "off" /\ r.to = "off" => s = r
    /\ \A t, u \in timers : t = u
    /\ sheet \in {"dragging", "settling"} => timers = {}

SheetInv ==
    /\ modal \in [open: BOOLEAN, round: Nat]
    /\ waitedOn \in BOOLEAN /\ strayed \in BOOLEAN
    /\ waitedOn = FALSE => OneDismissal /\ strayed = FALSE

LEMMA SheetStarts == SheetInit => SheetInv
  <1> SUFFICES ASSUME SheetInit PROVE SheetInv
    OBVIOUS
  <1>1. modal = [open |-> TRUE, round |-> 0] /\ springs = {} /\ timers = {}
    BY DEF SheetInit
  <1>2. modal \in [open: BOOLEAN, round: Nat]
    BY <1>1
  <1>3. waitedOn = FALSE /\ strayed = FALSE
    BY Zenon DEF SheetInit
  <1>4. OneDismissal
    BY <1>1 DEF OneDismissal
  <1>5. QED
    BY <1>2, <1>3, <1>4, Zenon DEF SheetInv

\* A sheet that is put back stops the spring that the hook knows.
LEMMA ResetKeeps ==
  ASSUME OneDismissal, NEW running \in SUBSET springs, NEW left \in SUBSET timers,
         ResetSheet(running, left)
  PROVE  OneDismissal'
  BY DEF OneDismissal, ResetSheet, Named

\* A spring that starts while none carries the sheet off is the only one that may.
LEMMA SpringKeeps ==
  ASSUME \A s \in springs : s.to # "off", NEW running \in SUBSET springs, NEW to,
         timers' = {}, UNCHANGED modal, Spring(to, running)
  PROVE  OneDismissal'
  <1> DEFINE new == [name |-> named', to |-> to, round |-> modal.round]
  <1>1. springs' = running \cup {new} /\ anim' = named' /\ sheet' = "settling"
    BY DEF Spring
  <1>2. new.name = anim' /\ new.round = modal'.round
    BY <1>1
  <1> HIDE DEF new
  <1>3. QED
    BY <1>1, <1>2 DEF OneDismissal

LEMMA DismissKeeps ==
  ASSUME timers = {}, NEW running, \A s \in running : s.to # "off",
         NEW round, Dismissed(running, round), strayed = FALSE, round = modal.round
  PROVE  OneDismissal' /\ strayed' = FALSE
  <1>1. /\ springs' = running /\ sheet' = "idle"
        /\ timers' = {[name |-> named', rechecks |-> 0]}
    BY DEF Dismissed
  <1>2. strayed' = FALSE
    BY DEF Dismissed
  <1>3. QED
    BY <1>1, <1>2 DEF OneDismissal

LEMMA StrayedIsBoolean ==
  ASSUME SheetInv, [SheetNext]_sheetVars
  PROVE  /\ waitedOn' \in BOOLEAN /\ strayed' \in BOOLEAN
         /\ modal' \in [open: BOOLEAN, round: Nat]
         /\ waitedOn' = FALSE => waitedOn = FALSE
  <1>1. strayed' = strayed \/ strayed' \in BOOLEAN
    BY Zenon DEF SheetNext, SheetRuns, sheetVars, TouchStart, TouchMove, TouchEnd, PressX, OpenAgain,
       ServerAnswers, SpringRests, CloseCheck, Dismissed
  <1>2. /\ waitedOn' = waitedOn \/ waitedOn' \in BOOLEAN
        /\ waitedOn' = waitedOn \/ waitedOn' = (waitedOn \/ timers # {})
    BY Zenon DEF SheetNext, SheetRuns, sheetVars, TouchStart, TouchMove, TouchEnd, PressX, OpenAgain,
       ServerAnswers, SpringRests, CloseCheck, Dismissed
  <1>3. modal' \in [open: BOOLEAN, round: Nat]
    <2>1. CASE ServerAnswers
      BY <2>1 DEF ServerAnswers, SheetInv
    <2>2. CASE OpenAgain
      BY <2>2 DEF OpenAgain, SheetInv
    <2>3. CASE modal' = modal
      BY <2>3 DEF SheetInv
    <2>4. QED
      BY <2>1, <2>2, <2>3 DEF SheetNext, SheetRuns, sheetVars, TouchStart, TouchMove, TouchEnd,
         PressX, SpringRests, CloseCheck
  <1>4. QED
    BY <1>1, <1>2, <1>3, Zenon DEF SheetInv

LEMMA TouchKeeps ==
  ASSUME SheetInv, OneDismissal, strayed = FALSE, TouchStart \/ TouchMove \/ TouchEnd,
         waitedOn' = FALSE
  PROVE  OneDismissal' /\ strayed' = FALSE
  <1>1. CASE TouchStart
    <2>1. modal' = modal /\ strayed' = strayed
      BY <1>1 DEF TouchStart
    <2>2. CASE sheet = "settling"
      BY <1>1, <2>1, <2>2 DEF TouchStart, OneDismissal, Named
    <2>3. CASE sheet # "settling"
      BY <1>1, <2>1, <2>3 DEF TouchStart, OneDismissal
    <2>4. QED
      BY <2>2, <2>3
  <1>2. CASE TouchMove
    <2>1. UNCHANGED <<modal, springs, anim, timers, strayed>> /\ sheet \in {"pending", "dragging"}
      BY <1>2 DEF TouchMove
    <2>2. sheet' = "ignored" \/ (sheet' = "dragging" /\ timers = {})
      <3>1. sheet' = "ignored" \/ (sheet' = "dragging" /\ waitedOn' = (waitedOn \/ timers # {}))
        BY <1>2 DEF TouchMove
      <3>2. QED
        BY <3>1, Zenon
    <2>3. QED
      BY <2>1, <2>2 DEF OneDismissal
  <1>3. CASE TouchEnd
    <2>1. modal' = modal
      BY <1>3 DEF TouchEnd
    <2>2. CASE sheet \in {"pending", "ignored"} /\ sheet' = "idle" /\ UNCHANGED <<springs, anim, timers, strayed>>
      BY <2>1, <2>2 DEF OneDismissal
    <2>3. CASE sheet \in {"idle", "settling"} /\ UNCHANGED <<sheet, springs, anim, timers, strayed>>
      BY <2>1, <2>3 DEF OneDismissal
    <2>4. ASSUME sheet = "dragging",
                 \/ Dismissed(springs, modal.round)
                 \/ Spring("off", springs) /\ UNCHANGED <<timers, strayed>>
                 \/ SnapBack(springs, timers) /\ UNCHANGED strayed
          PROVE  OneDismissal' /\ strayed' = FALSE
      <3>1. timers = {} /\ \A s \in springs : s.to # "off"
        BY <2>4 DEF OneDismissal
      <3>2. CASE Dismissed(springs, modal.round)
        BY <3>1, <3>2, DismissKeeps
      <3>3. CASE Spring("off", springs) /\ UNCHANGED <<timers, strayed>>
        BY <2>1, <3>1, <3>3, SpringKeeps
      <3>4. CASE SnapBack(springs, timers) /\ UNCHANGED strayed
        BY <2>1, <3>1, <3>4, SpringKeeps, ResetKeeps DEF SnapBack
      <3>5. QED
        BY <2>4, <3>2, <3>3, <3>4
    <2>5. QED
      BY <1>3, <2>2, <2>3, <2>4 DEF TouchEnd
  <1>4. QED
    BY <1>1, <1>2, <1>3

LEMMA RunKeeps ==
  ASSUME SheetInv, OneDismissal, strayed = FALSE, SheetRuns
  PROVE  OneDismissal' /\ strayed' = FALSE
  <1>1. CASE ServerAnswers
    <2>1. UNCHANGED <<sheet, springs, anim, timers, strayed>> /\ modal'.round = modal.round
      BY <1>1 DEF ServerAnswers, SheetInv
    <2>2. QED
      BY <2>1 DEF OneDismissal
  <1>2. ASSUME NEW s \in springs, SpringRests(s) PROVE OneDismissal' /\ strayed' = FALSE
    <2>1. modal' = modal
      BY <1>2 DEF SpringRests
    <2>2. CASE s.to = "off"
      <3>1. timers = {} /\ s.round = modal.round
        BY <2>2 DEF OneDismissal
      <3>2. \A r \in springs \ {s} : r.to # "off"
        BY <2>2 DEF OneDismissal
      <3>3. Dismissed(springs \ {s}, s.round)
        BY <1>2, <2>2 DEF SpringRests
      <3>4. QED
        BY <3>1, <3>2, <3>3, DismissKeeps
    <2>3. CASE s.to # "off"
      BY <1>2, <2>3, ResetKeeps DEF SpringRests
    <2>4. QED
      BY <2>2, <2>3
  <1>3. ASSUME NEW t \in timers, CloseCheck(t) PROVE OneDismissal' /\ strayed' = FALSE
    <2>1. modal' = modal /\ strayed' = strayed /\ timers \ {t} = {} /\ sheet \notin {"dragging", "settling"}
          /\ \A s \in springs : s.to # "off"
      BY <1>3 DEF CloseCheck, OneDismissal
    <2>2. CASE ResetSheet(springs, timers \ {t})
      BY <2>1, <2>2, ResetKeeps
    <2>3. CASE SnapBack(springs, timers \ {t})
      <3>1. timers \ {t} \in SUBSET timers
        OBVIOUS
      <3>2. QED
        BY <2>1, <2>3, <3>1, SpringKeeps, ResetKeeps DEF SnapBack
    <2>4. CASE /\ timers' = (timers \ {t}) \cup {[name |-> named', rechecks |-> t.rechecks + 1]}
               /\ UNCHANGED <<springs, anim, sheet>>
      BY <2>1, <2>4 DEF OneDismissal
    <2>5. QED
      BY <1>3, <2>2, <2>3, <2>4 DEF CloseCheck
  <1>4. QED
    BY <1>1, <1>2, <1>3 DEF SheetRuns

LEMMA SheetSteps == SheetInv /\ [SheetNext]_sheetVars => SheetInv'
  <1> SUFFICES ASSUME SheetInv, [SheetNext]_sheetVars PROVE SheetInv'
    OBVIOUS
  <1>1. /\ waitedOn' \in BOOLEAN /\ strayed' \in BOOLEAN
        /\ modal' \in [open: BOOLEAN, round: Nat]
        /\ waitedOn' = FALSE => waitedOn = FALSE
    BY StrayedIsBoolean
  <1>2. ASSUME waitedOn' = FALSE PROVE OneDismissal' /\ strayed' = FALSE
    <2>1. OneDismissal /\ strayed = FALSE
      BY <1>1, <1>2 DEF SheetInv
    <2>2. CASE TouchStart \/ TouchMove \/ TouchEnd
      BY <1>2, <2>1, <2>2, TouchKeeps
    <2>3. CASE SheetRuns
      BY <2>1, <2>3, RunKeeps
    <2>4. CASE PressX
      BY <2>1, <2>4 DEF PressX, OneDismissal
    <2>5. CASE OpenAgain
      <3>1. ResetSheet(springs, timers) /\ strayed' = strayed
        BY <2>5 DEF OpenAgain
      <3>2. QED
        BY <2>1, <3>1, ResetKeeps
    <2>6. CASE UNCHANGED sheetVars
      BY <2>1, <2>6 DEF sheetVars, OneDismissal
    <2>7. QED
      BY <2>2, <2>3, <2>4, <2>5, <2>6 DEF SheetNext
  <1>3. QED
    BY <1>1, <1>2, Zenon DEF SheetInv

\* A pull of modal_sheet.js cancels the modal it was made on and never a later one, however
\* springs, checks and the server's answers fall, as long as the sheet was not dragged again
\* while a dismissal awaited its check.
THEOREM PullAlwaysCancelsItsModal == SheetSpec => []PullCancelsItsModal
  <1>1. SheetInv => PullCancelsItsModal
    BY Zenon DEF SheetInv, PullCancelsItsModal
  <1>2. QED
    BY SheetStarts, SheetSteps, <1>1, PTL DEF SheetSpec

-----------------------------------------------------------------------------
(* The gallery keeps up, for any number of years, jumps and lost           *)
(* connections.                                                            *)

Lists == [from: Nat, upto: Nat, ended: BOOLEAN]
Patches == [list: Lists, reset: BOOLEAN, to: Nat]
Bars == [year: Nat, debounce: BOOLEAN, pending: Nat, retry: SUBSET Nat,
         scrolling: BOOLEAN, resets: Nat, glide: Nat]

GalleryShape ==
    /\ picker \in BOOLEAN /\ exact \in BOOLEAN /\ serving \in BOOLEAN /\ cooling \in BOOLEAN
    /\ assigns \in Lists /\ browse \in Lists /\ reading \in Nat
    /\ requests \in Seq(Nat) /\ pages \in Seq(Patches)
    /\ bar \in Bars

\* The page has what the server has, or the last patch under way brings it.
PageFollows ==
    serving = TRUE => IF pages = <<>> THEN browse = assigns ELSE pages[Len(pages)].list = assigns

\* A patch is to come: what the server is asked for is answered by one, and so is a lost
\* connection.
Awaited == requests # <<>> \/ pages # <<>> \/ serving = FALSE

\* While a cooldown keeps the hook from asking, another look or a patch is to come.
CooldownIsAwaited == cooling = TRUE /\ browse.ended = FALSE => recheck = "cooling" \/ Awaited

\* Whoever stands before an end that is not the last waits for a look or a patch.
Near == InZone(reading)
EndIsAwaited == Near /\ browse.ended = FALSE => frame = TRUE \/ recheck # "no" \/ Awaited

\* The highlighted year is the one on the screen, or a timer will see to it.
YearIsAwaited ==
    /\ bar.scrolling = TRUE => bar.resets > 0
    /\ picker = FALSE => bar.year = reading \/ bar.debounce = TRUE \/ bar.scrolling = TRUE

GalleryInv ==
    GalleryShape /\ PageFollows /\ CooldownIsAwaited /\ EndIsAwaited /\ YearIsAwaited

LEMMA LoadedIs ==
  ASSUME NEW from \in Nat, NEW upto \in Nat, exact \in BOOLEAN
  PROVE  /\ Loaded(from, upto) \in Lists
         /\ Loaded(from, upto).upto = upto /\ Loaded(from, upto).from = from
  <1> DEFINE last == upto = Years /\ ~exact
  <1>1. last \in BOOLEAN
    BY Zenon
  <1>2. Loaded(from, upto) = [from |-> from, upto |-> upto, ended |-> last]
    BY Zenon DEF Loaded
  <1> HIDE DEF last
  <1>3. QED
    BY <1>1, <1>2 DEF Lists

LEMMA LoadMoreIs ==
  ASSUME exact \in BOOLEAN, NEW l \in Lists
  PROVE  /\ LoadMore(l) \in Lists
         /\ LoadMore(l) = l => l.ended = TRUE
  <1>0. l.from \in Nat /\ l.upto \in Nat /\ l.upto + 1 \in Nat /\ l.upto + 1 # l.upto /\ l.ended \in BOOLEAN
    BY DEF Lists
  <1>1. CASE l.ended = TRUE
    BY <1>1, Zenon DEF LoadMore
  <1>2. CASE l.ended = FALSE /\ l.upto = Years
    <2>1. LoadMore(l) = [l EXCEPT !.ended = TRUE]
      BY <1>2, Zenon DEF LoadMore
    <2>2. QED
      BY <1>2, <2>1 DEF Lists
  <1>3. CASE l.ended = FALSE /\ l.upto # Years
    <2>1. LoadMore(l) = Loaded(l.from, l.upto + 1)
      BY <1>3, Zenon DEF LoadMore
    <2>2. QED
      BY <1>0, <2>1, LoadedIs
  <1>4. QED
    BY <1>0, <1>1, <1>2, <1>3, Zenon

LEMMA GalleryStarts == GalleryInit => GalleryInv
  <1> SUFFICES ASSUME GalleryInit PROVE GalleryInv
    OBVIOUS
  <1>1. /\ picker \in BOOLEAN /\ exact \in BOOLEAN /\ serving = TRUE /\ cooling = FALSE
        /\ assigns = Loaded(1, 1) /\ browse = assigns /\ reading = 1 /\ frame = TRUE
        /\ requests = <<>> /\ pages = <<>>
        /\ bar = IF picker THEN [NewBar EXCEPT !.debounce = FALSE] ELSE NewBar
    BY Zenon DEF GalleryInit
  <1>2. assigns \in Lists /\ reading \in Nat /\ requests \in Seq(Nat) /\ pages \in Seq(Patches)
    BY <1>1, LoadedIs
  <1>3. NewBar \in Bars /\ [NewBar EXCEPT !.debounce = FALSE] \in Bars
    BY DEF NewBar, Bars, NoYear
  <1>4. bar \in Bars /\ bar.scrolling = FALSE /\ (picker = FALSE => bar.debounce = TRUE)
    <2>1. CASE picker = TRUE
      <3>1. bar = [NewBar EXCEPT !.debounce = FALSE]
        BY <1>1, <2>1, Zenon
      <3>2. QED
        BY <1>3, <2>1, <3>1 DEF NewBar
    <2>2. CASE picker = FALSE
      <3>1. bar = NewBar
        BY <1>1, <2>2, Zenon
      <3>2. QED
        BY <1>3, <3>1 DEF NewBar
    <2>3. QED
      BY <1>1, <2>1, <2>2
  <1>5. GalleryShape
    BY <1>1, <1>2, <1>4, Zenon DEF GalleryShape
  <1>6. PageFollows /\ CooldownIsAwaited /\ EndIsAwaited /\ YearIsAwaited
    BY <1>1, <1>4, Zenon DEF PageFollows, CooldownIsAwaited, EndIsAwaited, YearIsAwaited
  <1>7. QED
    BY <1>5, <1>6 DEF GalleryInv

\* check() asks, or it is too early, too far or the end.
LEMMA CheckDoes ==
  ASSUME GalleryShape, NEW at, Check(at)
  PROVE  /\ requests' \in Seq(Nat) /\ cooling' \in BOOLEAN
         /\ \/ cooling' = cooling /\ requests' = requests
            \/ cooling' = TRUE /\ (serving = FALSE \/ requests' # <<>>)
         /\ \/ cooling = TRUE \/ browse.ended = TRUE \/ ~InZone(at)
            \/ serving = FALSE \/ requests' # <<>>
  <1>1. /\ serving \in BOOLEAN /\ cooling \in BOOLEAN /\ browse.ended \in BOOLEAN
        /\ requests \in Seq(Nat) /\ More \in Nat
    BY DEF GalleryShape, Lists, More
  <1>2. Append(requests, More) \in Seq(Nat) /\ Append(requests, More) # <<>>
    BY <1>1
  <1>3. CASE ~browse.ended /\ ~cooling /\ InZone(at)
    <2>1. cooling' = TRUE /\ requests' = (IF serving THEN Append(requests, More) ELSE requests)
      BY <1>3, Zenon DEF Check
    <2>2. serving = TRUE => requests' = Append(requests, More)
      BY <2>1, Zenon
    <2>3. serving = FALSE => requests' = requests
      BY <2>1, Zenon
    <2>4. QED
      BY <1>1, <1>2, <2>1, <2>2, <2>3, Zenon
  <1>4. CASE ~(~browse.ended /\ ~cooling /\ InZone(at))
    <2>1. cooling' = cooling /\ requests' = requests
      BY <1>4, Zenon DEF Check
    <2>2. QED
      BY <1>1, <1>4, <2>1, Zenon
  <1>5. QED
    BY <1>3, <1>4

\* A look at the reader's place, from wherever it is taken, leaves nobody waiting in vain.
LEMMA LookKeeps ==
  ASSUME GalleryInv, Check(reading'), reading' \in Nat,
         UNCHANGED <<picker, exact, tall, assigns, pages, serving, browse>>,
         bar' \in Bars, YearIsAwaited',
         recheck' = recheck \/ (recheck = "due" /\ recheck' = "no")
  PROVE  GalleryInv'
  <1>1. /\ requests' \in Seq(Nat) /\ cooling' \in BOOLEAN
        /\ \/ cooling' = cooling /\ requests' = requests
           \/ cooling' = TRUE /\ (serving = FALSE \/ requests' # <<>>)
        /\ \/ cooling = TRUE \/ browse.ended = TRUE \/ ~InZone(reading')
           \/ serving = FALSE \/ requests' # <<>>
    BY CheckDoes DEF GalleryInv
  <1>2. GalleryShape' /\ PageFollows'
    BY <1>1, Zenon DEF GalleryInv, GalleryShape, PageFollows
  <1>3. cooling = TRUE /\ browse.ended = FALSE => recheck = "cooling" \/ Awaited
    BY DEF GalleryInv, CooldownIsAwaited
  <1>4. Awaited => Awaited'
    BY <1>1, Zenon DEF Awaited
  <1>5. recheck = "cooling" => recheck' = "cooling"
    OBVIOUS
  <1>6. CooldownIsAwaited'
    BY <1>1, <1>3, <1>4, <1>5, Zenon DEF CooldownIsAwaited, Awaited
  <1>7. Near' <=> InZone(reading')
    BY DEF Near, InZone
  <1>8. EndIsAwaited'
    <2>1. browse.ended \in BOOLEAN /\ browse'.ended = browse.ended /\ "cooling" # "no"
      BY DEF GalleryInv, GalleryShape, Lists
    <2>2. QED
      BY <1>1, <1>3, <1>4, <1>5, <1>7, <2>1, Zenon DEF EndIsAwaited, Awaited
  <1>9. QED
    BY <1>2, <1>6, <1>8 DEF GalleryInv

\* handleScroll: the year on the screen may have changed.
LEMMA ScrollSeen ==
  ASSUME picker \in BOOLEAN, NEW b \in Bars, NEW at, NEW year
  PROVE  /\ HandleScroll(b) \in Bars
         /\ HandleScroll(b).scrolling = b.scrolling /\ HandleScroll(b).resets = b.resets
         /\ picker = FALSE => HandleScroll(b).debounce = TRUE \/ HandleScroll(b).scrolling = TRUE
  <1>0. b.scrolling \in BOOLEAN
    BY DEF Bars
  <1>1. CASE b.scrolling = TRUE \/ picker = TRUE
    <2>1. HandleScroll(b) = b
      BY <1>1, Zenon DEF HandleScroll
    <2>2. QED
      BY <1>1, <2>1
  <1>2. CASE b.scrolling = FALSE /\ picker = FALSE
    <2>1. HandleScroll(b) = [b EXCEPT !.debounce = TRUE]
      BY <1>2, Zenon DEF HandleScroll
    <2>2. QED
      BY <1>2, <2>1 DEF Bars
  <1>3. QED
    BY <1>0, <1>1, <1>2, Zenon

LEMMA ScrollKeeps ==
  ASSUME GalleryInv, bar' = [HandleScroll(bar) EXCEPT !.glide = NoYear], picker' = picker
  PROVE  bar' \in Bars /\ YearIsAwaited'
  <1>1. /\ HandleScroll(bar) \in Bars
        /\ HandleScroll(bar).scrolling = bar.scrolling /\ HandleScroll(bar).resets = bar.resets
        /\ picker = FALSE => HandleScroll(bar).debounce = TRUE \/ HandleScroll(bar).scrolling = TRUE
        /\ bar.scrolling = TRUE => bar.resets > 0
    BY ScrollSeen DEF GalleryInv, GalleryShape, YearIsAwaited
  <1>2. /\ bar' \in Bars /\ bar'.scrolling = HandleScroll(bar).scrolling
        /\ bar'.resets = HandleScroll(bar).resets /\ bar'.debounce = HandleScroll(bar).debounce
    BY <1>1 DEF Bars, NoYear
  <1>3. QED
    BY <1>1, <1>2 DEF YearIsAwaited

LEMMA YearFound ==
  ASSUME NEW b \in Bars, NEW year \in Nat
  PROVE  /\ ScrollToYear(b, year) \in Bars
         /\ ScrollToYear(b, year).year = b.year /\ ScrollToYear(b, year).debounce = b.debounce
         /\ \/ ScrollToYear(b, year).scrolling = TRUE /\ ScrollToYear(b, year).resets > 0
            \/ /\ ScrollToYear(b, year).scrolling = b.scrolling
               /\ ScrollToYear(b, year).resets = b.resets
  <1>1. CASE year \in Listed(browse)
    <2> DEFINE n == b.resets + 1
    <2>1. ScrollToYear(b, year) = [b EXCEPT !.scrolling = TRUE, !.resets = n, !.glide = year]
      BY <1>1, Zenon DEF ScrollToYear
    <2>2. n \in Nat /\ n > 0
      BY DEF Bars
    <2> HIDE DEF n
    <2>3. ScrollToYear(b, year) \in Bars
      BY <2>1, <2>2 DEF Bars
    <2>4. /\ ScrollToYear(b, year).scrolling = TRUE /\ ScrollToYear(b, year).resets = n
          /\ ScrollToYear(b, year).year = b.year /\ ScrollToYear(b, year).debounce = b.debounce
      BY <2>1 DEF Bars
    <2>5. QED
      BY <2>2, <2>3, <2>4
  <1>2. CASE year \notin Listed(browse)
    <2>1. ScrollToYear(b, year) = [b EXCEPT !.retry = @ \cup {year}]
      BY <1>2, Zenon DEF ScrollToYear
    <2>2. QED
      BY <2>1 DEF Bars
  <1>3. QED
    BY <1>1, <1>2

\* The scrubber's timers touch nothing but its own fields.
LEMMA BarKeeps ==
  ASSUME GalleryInv, UNCHANGED <<pageVars, netVars, browse, reading, clockVars>>,
         bar' \in Bars, YearIsAwaited'
  PROVE  GalleryInv'
  <1>1. UNCHANGED <<picker, exact, tall, assigns, requests, pages, serving, browse, reading, cooling,
                    frame, recheck>>
    BY DEF pageVars, netVars, clockVars
  <1>2. GalleryShape' /\ PageFollows' /\ CooldownIsAwaited'
    BY <1>1 DEF GalleryInv, GalleryShape, PageFollows, CooldownIsAwaited, Awaited
  <1>3. Near' <=> Near
    BY <1>1 DEF Near, InZone
  <1>4. EndIsAwaited'
    BY <1>1, <1>3 DEF GalleryInv, EndIsAwaited, Awaited
  <1>5. QED
    BY <1>2, <1>4 DEF GalleryInv

LEMMA SettlesKeeps == ASSUME GalleryInv, ScrollSettles PROVE GalleryInv'
  <1>0. bar \in Bars /\ reading \in Nat /\ (bar.scrolling = TRUE => bar.resets > 0)
    BY DEF GalleryInv, GalleryShape, YearIsAwaited
  <1>1. /\ bar' = [bar EXCEPT !.debounce = FALSE, !.year = reading]
        /\ UNCHANGED <<pageVars, netVars, browse, reading, clockVars>>
    BY DEF ScrollSettles
  <1>2. bar' \in Bars
    BY <1>0, <1>1 DEF Bars
  <1>3. bar'.year = reading /\ bar'.scrolling = bar.scrolling /\ bar'.resets = bar.resets
    BY <1>0, <1>1 DEF Bars
  <1>4. reading' = reading
    BY <1>1
  <1>5. YearIsAwaited'
    BY <1>0, <1>3, <1>4 DEF YearIsAwaited
  <1>6. QED
    BY <1>1, <1>2, <1>5, BarKeeps

LEMMA PendingKeeps == ASSUME GalleryInv, PendingTimer PROVE GalleryInv'
  <1>0. bar \in Bars /\ bar.pending \in Nat
    BY DEF GalleryInv, GalleryShape, Bars
  <1> DEFINE b == [bar EXCEPT !.pending = NoYear]
  <1>1. b \in Bars
    BY <1>0 DEF Bars, NoYear
  <1>2. b.year = bar.year /\ b.debounce = bar.debounce /\ b.scrolling = bar.scrolling /\ b.resets = bar.resets
    BY <1>0 DEF Bars
  <1>3. /\ bar' = ScrollToYear(b, bar.pending)
        /\ UNCHANGED <<pageVars, netVars, browse, reading, clockVars>>
    BY DEF PendingTimer
  <1> HIDE DEF b
  <1>4. picker' = picker /\ reading' = reading
    BY <1>3 DEF pageVars
  <1>5. bar' \in Bars /\ YearIsAwaited'
    BY <1>0, <1>1, <1>2, <1>3, <1>4, YearFound, ZenonT(60) DEF GalleryInv, YearIsAwaited
  <1>6. QED
    BY <1>3, <1>5, BarKeeps

LEMMA RetryKeeps == ASSUME GalleryInv, NEW year \in bar.retry, RetryTimer(year) PROVE GalleryInv'
  <1>0. bar \in Bars /\ year \in Nat
    BY DEF GalleryInv, GalleryShape, Bars
  <1> DEFINE b == [bar EXCEPT !.retry = @ \ {year}]
  <1>1. b \in Bars
    BY <1>0 DEF Bars
  <1>2. b.year = bar.year /\ b.debounce = bar.debounce /\ b.scrolling = bar.scrolling /\ b.resets = bar.resets
    BY <1>0 DEF Bars
  <1>3. /\ bar' = ScrollToYear(b, year) \/ bar' = b
        /\ UNCHANGED <<pageVars, netVars, browse, reading, clockVars>>
    BY DEF RetryTimer
  <1> HIDE DEF b
  <1>4. picker' = picker /\ reading' = reading
    BY <1>3 DEF pageVars
  <1>5. /\ bar' \in Bars /\ bar'.year = bar.year /\ bar'.debounce = bar.debounce
        /\ \/ bar'.scrolling = TRUE /\ bar'.resets > 0
           \/ bar'.scrolling = bar.scrolling /\ bar'.resets = bar.resets
    <2>1. CASE bar' = ScrollToYear(b, year)
      BY <1>0, <1>1, <1>2, <2>1, YearFound
    <2>2. CASE bar' = b
      BY <1>1, <1>2, <2>2
    <2>3. QED
      BY <1>3, <2>1, <2>2
  <1>6. YearIsAwaited'
    BY <1>4, <1>5 DEF GalleryInv, YearIsAwaited
  <1>7. QED
    BY <1>3, <1>5, <1>6, BarKeeps

LEMMA ResetBarKeeps == ASSUME GalleryInv, ScrollingReset PROVE GalleryInv'
  <1>0. bar \in Bars /\ bar.resets \in Nat /\ bar.resets > 0 /\ picker \in BOOLEAN
    BY DEF GalleryInv, GalleryShape, Bars, ScrollingReset
  <1> DEFINE b == [bar EXCEPT !.resets = @ - 1, !.scrolling = FALSE]
             n == bar.resets - 1
  <1>1. b \in Bars
    <2>1. n \in Nat /\ b = [bar EXCEPT !.resets = n, !.scrolling = FALSE]
      BY <1>0
    <2> HIDE DEF n, b
    <2>2. QED
      BY <1>0, <2>1 DEF Bars
  <1>2. b.scrolling = FALSE
    BY <1>0 DEF Bars
  <1>3. /\ bar' = HandleScroll(b)
        /\ UNCHANGED <<pageVars, netVars, browse, reading, clockVars>>
    BY DEF ScrollingReset
  <1> HIDE DEF b
  <1>4. picker' = picker
    BY <1>3 DEF pageVars
  <1>5. /\ HandleScroll(b) \in Bars /\ HandleScroll(b).scrolling = FALSE
        /\ picker = FALSE => HandleScroll(b).debounce = TRUE \/ HandleScroll(b).scrolling = TRUE
    BY <1>0, <1>1, <1>2, ScrollSeen
  <1>6. bar' \in Bars /\ YearIsAwaited'
    BY <1>3, <1>4, <1>5 DEF YearIsAwaited
  <1>7. QED
    BY <1>3, <1>6, BarKeeps

LEMMA LooksKeep == ASSUME GalleryInv, FrameRuns \/ RecheckRuns \/ ResizeSeen PROVE GalleryInv'
  <1>1. /\ Check(reading) /\ reading' = reading /\ bar' = bar
        /\ UNCHANGED <<picker, exact, tall, assigns, pages, serving, browse>>
        /\ recheck' = recheck \/ (recheck = "due" /\ recheck' = "no")
    BY DEF FrameRuns, RecheckRuns, ResizeSeen, pageVars
  <1>2. Check(reading') /\ reading' \in Nat
    BY <1>1 DEF GalleryInv, GalleryShape
  <1>3. bar' \in Bars /\ YearIsAwaited'
    BY <1>1 DEF GalleryInv, GalleryShape, YearIsAwaited
  <1>4. QED
    BY <1>1, <1>2, <1>3, LookKeeps

LEMMA ScrollsKeep == ASSUME GalleryInv, Glides \/ ReaderScrolls PROVE GalleryInv'
  <1>1. /\ Check(reading') /\ bar' = [HandleScroll(bar) EXCEPT !.glide = NoYear]
        /\ UNCHANGED <<picker, exact, tall, assigns, pages, serving, browse, recheck>>
    BY DEF Glides, ReaderScrolls, pageVars
  <1>2. reading' \in Nat
    <2>1. reading \in Nat /\ bar.glide \in Nat /\ Listed(browse) \subseteq Nat
      BY DEF GalleryInv, GalleryShape, Lists, Bars, Listed
    <2>2. QED
      BY <2>1 DEF Glides, ReaderScrolls
  <1>3. bar' \in Bars /\ YearIsAwaited'
    BY <1>1, ScrollKeeps
  <1>4. QED
    BY <1>1, <1>2, <1>3, LookKeeps

LEMMA CooldownKeeps == ASSUME GalleryInv, CooldownEnds PROVE GalleryInv'
  <1>1. /\ cooling' = FALSE /\ UNCHANGED <<pageVars, netVars, browse, reading, frame, bar>>
        /\ recheck' = recheck \/ (recheck = "cooling" /\ recheck' = "due")
    BY DEF CooldownEnds
  <1>2. GalleryShape' /\ PageFollows' /\ CooldownIsAwaited' /\ YearIsAwaited'
    BY <1>1 DEF GalleryInv, GalleryShape, PageFollows, CooldownIsAwaited, YearIsAwaited, pageVars, netVars
  <1>3. Near' <=> Near
    BY <1>1 DEF Near, InZone, pageVars
  <1>4. EndIsAwaited'
    BY <1>1, <1>3 DEF GalleryInv, EndIsAwaited, Awaited, netVars
  <1>5. QED
    BY <1>2, <1>4 DEF GalleryInv

LEMMA AskKeeps == ASSUME GalleryInv, AskForYear PROVE GalleryInv'
  <1>1. /\ UNCHANGED <<pageVars, assigns, pages, serving, browse, reading, clockVars, bar>>
        /\ \E year \in 1..Years : requests' = Append(requests, year)
    BY DEF AskForYear
  <1>2. requests \in Seq(Nat)
    BY DEF GalleryInv, GalleryShape
  <1>3. requests' \in Seq(Nat) /\ requests' # <<>>
    BY <1>1, <1>2, GalleryBounds
  <1>4. GalleryShape' /\ PageFollows' /\ YearIsAwaited'
    BY <1>1, <1>3 DEF GalleryInv, GalleryShape, PageFollows, YearIsAwaited, pageVars, clockVars
  <1>5. CooldownIsAwaited' /\ EndIsAwaited'
    BY <1>3 DEF CooldownIsAwaited, EndIsAwaited, Awaited
  <1>6. QED
    BY <1>4, <1>5 DEF GalleryInv

LEMMA AppendedPatch ==
  ASSUME pages \in Seq(Patches), NEW page \in Patches
  PROVE  /\ Append(pages, page) \in Seq(Patches) /\ Append(pages, page) # <<>>
         /\ Append(pages, page)[Len(Append(pages, page))] = page
  OBVIOUS

LEMMA ServeKeeps == ASSUME GalleryInv, ServeAsk PROVE GalleryInv'
  <1> DEFINE ask == Head(requests)
             next == IF ask = More THEN LoadMore(assigns) ELSE Loaded(ask, ask)
  <1>0. /\ exact \in BOOLEAN /\ assigns \in Lists /\ requests \in Seq(Nat) /\ requests # <<>>
        /\ pages \in Seq(Patches) /\ picker \in BOOLEAN
    BY DEF GalleryInv, GalleryShape, ServeAsk
  <1>1. ask \in Nat /\ requests' \in Seq(Nat)
    BY <1>0 DEF ServeAsk
  <1>2. next \in Lists /\ (ask = More /\ next = assigns => assigns.ended = TRUE)
    BY <1>0, <1>1, LoadedIs, LoadMoreIs
  <1>3. /\ UNCHANGED <<pageVars, serving, browse, reading, clockVars, bar>>
        /\ assigns' = next
    BY DEF ServeAsk
  <1>4. PICK to \in IF ask = More \/ picker THEN {NoYear} ELSE {ask, NoYear} :
           pages' = IF ask = More /\ next = assigns THEN pages
                    ELSE Append(pages, [list |-> next, reset |-> ask # More, to |-> to])
    BY DEF ServeAsk
  <1>5. to \in Nat
    <2>1. to = NoYear \/ to = ask
      BY <1>4, Zenon
    <2>2. QED
      BY <1>1, <2>1 DEF NoYear
  <1> DEFINE reset == ask # More
             page == [list |-> next, reset |-> reset, to |-> to]
  <1>6. reset \in BOOLEAN
    BY Zenon
  <1>7. (pages' = pages /\ next = assigns /\ assigns.ended = TRUE) \/ pages' = Append(pages, page)
    BY <1>2, <1>4
  <1> HIDE DEF next, reset
  <1>8. page \in Patches /\ page.list = next
    BY <1>2, <1>5, <1>6 DEF Patches
  <1> HIDE DEF page
  <1>9. /\ pages' \in Seq(Patches)
        /\ \/ pages' = pages /\ assigns' = assigns /\ assigns.ended = TRUE
           \/ pages' # <<>> /\ pages'[Len(pages')].list = assigns'
    <2>1. CASE pages' = pages /\ next = assigns /\ assigns.ended = TRUE
      BY <1>0, <1>3, <2>1
    <2>2. CASE pages' = Append(pages, page)
      <3>1. /\ pages' \in Seq(Patches) /\ pages' # <<>>
            /\ pages'[Len(pages')] = page
        BY <1>0, <1>8, <2>2, AppendedPatch, Zenon
      <3>2. QED
        BY <1>3, <1>8, <3>1
    <2>3. QED
      BY <1>7, <2>1, <2>2
  <1>10. GalleryShape'
    BY <1>1, <1>2, <1>3, <1>9 DEF GalleryInv, GalleryShape, pageVars, clockVars
  <1>11. PageFollows'
    BY <1>3, <1>9 DEF GalleryInv, PageFollows
  <1>12. Awaited' \/ browse'.ended = TRUE
    <2>1. CASE pages' # <<>> \/ serving = FALSE
      BY <1>3, <2>1 DEF Awaited
    <2>2. CASE pages' = <<>> /\ serving = TRUE
      BY <1>3, <1>9, <2>2 DEF GalleryInv, PageFollows
    <2>3. QED
      BY <2>1, <2>2 DEF GalleryInv, GalleryShape
  <1>13. CooldownIsAwaited' /\ EndIsAwaited'
    BY <1>12 DEF CooldownIsAwaited, EndIsAwaited
  <1>14. YearIsAwaited'
    BY <1>3 DEF GalleryInv, YearIsAwaited, pageVars
  <1>15. QED
    BY <1>10, <1>11, <1>13, <1>14 DEF GalleryInv

LEMMA ReceiveGalleryKeeps == ASSUME GalleryInv, ReceiveGallery PROVE GalleryInv'
  <1> DEFINE page == Head(pages)
  <1>0. /\ pages \in Seq(Patches) /\ pages # <<>> /\ bar \in Bars /\ picker \in BOOLEAN
        /\ reading \in Nat /\ serving \in BOOLEAN /\ cooling \in BOOLEAN
    BY DEF GalleryInv, GalleryShape, ReceiveGallery
  <1>1. page \in Patches /\ Tail(pages) \in Seq(Patches)
    BY <1>0
  <1>2. page.list \in Lists /\ page.list.from \in Nat /\ page.to \in Nat
    BY <1>1 DEF Patches, Lists
  <1>3. /\ pages' = Tail(pages) /\ browse' = page.list
        /\ UNCHANGED <<pageVars, assigns, requests, serving, cooling>>
        /\ frame' = TRUE /\ recheck' = IF cooling THEN "cooling" ELSE "due"
        /\ reading' = IF page.reset THEN page.list.from ELSE reading
        /\ bar' = [HandleScroll(bar) EXCEPT !.pending = IF page.to = NoYear THEN @ ELSE page.to]
    BY DEF ReceiveGallery, Updated
  <1>4. reading' \in Nat
    BY <1>0, <1>2, <1>3
  <1>5. /\ HandleScroll(bar) \in Bars
        /\ HandleScroll(bar).scrolling = bar.scrolling /\ HandleScroll(bar).resets = bar.resets
        /\ picker = FALSE => HandleScroll(bar).debounce = TRUE \/ HandleScroll(bar).scrolling = TRUE
        /\ bar.scrolling = TRUE => bar.resets > 0
    BY <1>0, ScrollSeen DEF GalleryInv, YearIsAwaited
  <1>6. PICK to \in Nat : bar' = [HandleScroll(bar) EXCEPT !.pending = to]
    <2>1. HandleScroll(bar).pending \in Nat
      BY <1>5 DEF Bars
    <2>2. CASE page.to = NoYear
      BY <1>3, <2>1, <2>2
    <2>3. CASE page.to # NoYear
      BY <1>2, <1>3, <2>3
    <2>4. QED
      BY <2>2, <2>3
  <1>7. /\ bar' \in Bars /\ bar'.scrolling = HandleScroll(bar).scrolling
        /\ bar'.resets = HandleScroll(bar).resets /\ bar'.debounce = HandleScroll(bar).debounce
    BY <1>5, <1>6 DEF Bars
  <1>8. picker' = picker /\ exact' = exact
    BY <1>3 DEF pageVars
  <1>9. YearIsAwaited'
    BY <1>5, <1>7, <1>8 DEF YearIsAwaited
  <1>10. GalleryShape'
    BY <1>1, <1>2, <1>3, <1>4, <1>7, <1>8 DEF GalleryInv, GalleryShape
  <1>11. PageFollows'
    <2>1. SUFFICES ASSUME serving = TRUE
                   PROVE  IF pages' = <<>> THEN browse' = assigns ELSE pages'[Len(pages')].list = assigns
      BY <1>3 DEF PageFollows
    <2>2. pages[Len(pages)].list = assigns
      BY <1>0, <2>1 DEF GalleryInv, PageFollows
    <2>3. CASE Tail(pages) = <<>>
      <3>1. Len(pages) = 1 /\ page = pages[1]
        <4>1. page = pages[1]
          BY <1>0
        <4>2. Len(Tail(pages)) = Len(pages) - 1 /\ Len(pages) \in Nat
          BY <1>0
        <4>3. Len(Tail(pages)) = 0
          <5>1. Len(<<>>) = 0
            OBVIOUS
          <5>2. QED
            BY <2>3, <5>1, Zenon
        <4>4. Len(pages) = 1
          BY <4>2, <4>3
        <4>5. QED
          BY <4>1, <4>4
      <3>2. QED
        BY <1>3, <2>2, <2>3, <3>1
    <2>4. CASE Tail(pages) # <<>>
      <3>1. Tail(pages)[Len(Tail(pages))] = pages[Len(pages)]
        BY <1>0, <2>4
      <3>2. QED
        BY <1>3, <2>2, <2>4, <3>1
    <2>5. QED
      BY <2>3, <2>4
  <1>12. CooldownIsAwaited'
    BY <1>3, Zenon DEF CooldownIsAwaited
  <1>13. EndIsAwaited'
    BY <1>3, Zenon DEF EndIsAwaited
  <1>14. QED
    BY <1>9, <1>10, <1>11, <1>12, <1>13 DEF GalleryInv

LEMMA LoseGalleryKeeps == ASSUME GalleryInv, LoseGallery PROVE GalleryInv'
  <1>1. /\ serving' = FALSE /\ requests' = <<>> /\ pages' = <<>>
        /\ UNCHANGED <<pageVars, assigns, browse, reading, clockVars, bar>>
    BY DEF LoseGallery
  <1>2. GalleryShape'
    <2>1. requests' \in Seq(Nat)
      BY <1>1
    <2>2. pages' \in Seq(Patches)
      BY <1>1
    <2>3. serving' \in BOOLEAN /\ UNCHANGED <<picker, exact, cooling, assigns, browse, reading, bar>>
      BY <1>1 DEF pageVars, clockVars
    <2>4. QED
      BY <2>1, <2>2, <2>3 DEF GalleryInv, GalleryShape
  <1>3. PageFollows' /\ CooldownIsAwaited' /\ EndIsAwaited'
    BY <1>1 DEF PageFollows, CooldownIsAwaited, EndIsAwaited, Awaited
  <1>4. YearIsAwaited'
    BY <1>1 DEF GalleryInv, YearIsAwaited, pageVars
  <1>5. QED
    BY <1>2, <1>3, <1>4 DEF GalleryInv

LEMMA RejoinGalleryKeeps == ASSUME GalleryInv, RejoinGallery PROVE GalleryInv'
  <1>1. /\ serving' = TRUE /\ assigns' = Loaded(1, 1)
        /\ pages' = <<[list |-> assigns', reset |-> TRUE, to |-> NoYear]>>
        /\ UNCHANGED <<pageVars, requests, browse, reading, clockVars, bar>>
    BY DEF RejoinGallery
  <1>2. assigns' \in Lists
    BY <1>1, LoadedIs DEF GalleryInv, GalleryShape
  <1>3. pages' \in Seq(Patches) /\ pages' # <<>> /\ pages'[Len(pages')].list = assigns'
    BY <1>1, <1>2 DEF Patches, NoYear
  <1>4. GalleryShape'
    BY <1>1, <1>2, <1>3 DEF GalleryInv, GalleryShape, pageVars, clockVars
  <1>5. PageFollows' /\ CooldownIsAwaited' /\ EndIsAwaited'
    BY <1>3 DEF PageFollows, CooldownIsAwaited, EndIsAwaited, Awaited
  <1>6. YearIsAwaited'
    BY <1>1 DEF GalleryInv, YearIsAwaited, pageVars
  <1>7. QED
    BY <1>4, <1>5, <1>6 DEF GalleryInv

LEMMA GallerySteps == GalleryInv /\ [GalleryNext]_galleryVars => GalleryInv'
  <1> SUFFICES ASSUME GalleryInv, [GalleryNext]_galleryVars PROVE GalleryInv'
    OBVIOUS
  <1>1. CASE UNCHANGED galleryVars
    <2>1. UNCHANGED <<pageVars, netVars, browse, reading, clockVars, bar>>
      BY <1>1 DEF galleryVars
    <2>2. bar' \in Bars /\ YearIsAwaited'
      BY <2>1 DEF GalleryInv, GalleryShape, YearIsAwaited, pageVars
    <2>3. QED
      BY <2>1, <2>2, BarKeeps
  <1>2. QED
    BY <1>1, LooksKeep, ScrollsKeep, CooldownKeeps, SettlesKeeps, PendingKeeps, RetryKeeps, ResetBarKeeps,
       AskKeeps, ServeKeeps, ReceiveGalleryKeeps, LoseGalleryKeeps, RejoinGalleryKeeps DEF GalleryNext

\* However cooldowns, jumps, answers and a lost connection fall together
\* (media_gallery_infinite_scroll.js, its twin for the picker and year_scrubber.js), at rest
\* nobody stands before the end of a list that has more and the scrubber shows the year on
\* the screen, for any number of years.
THEOREM GalleryAlwaysKeepsUp == GallerySpec => []GalleryKeepsUp
  <1>1. GalleryInv => GalleryKeepsUp
    <2> SUFFICES ASSUME GalleryInv, AtRest
                 PROVE  (InZone(reading) => browse.ended) /\ (picker \/ bar.year = reading)
      BY DEF GalleryKeepsUp
    <2>1. /\ serving \in BOOLEAN /\ picker \in BOOLEAN /\ browse.ended \in BOOLEAN
          /\ bar.scrolling \in BOOLEAN
      BY DEF GalleryInv, GalleryShape, Lists, Bars
    <2>2. serving = TRUE /\ requests = <<>> /\ pages = <<>> /\ frame # TRUE /\ recheck = "no"
      BY <2>1, Zenon DEF AtRest
    <2>3. bar.debounce # TRUE /\ bar.resets = 0
      BY Zenon DEF AtRest
    <2>4. InZone(reading) => browse.ended
      BY <2>1, <2>2, Zenon DEF GalleryInv, EndIsAwaited, Awaited, Near
    <2>5. bar.scrolling = FALSE
      BY <2>1, <2>3 DEF GalleryInv, YearIsAwaited
    <2>6. picker \/ bar.year = reading
      BY <2>1, <2>3, <2>5, Zenon DEF GalleryInv, YearIsAwaited
    <2>7. QED
      BY <2>4, <2>6
  <1>2. QED
    BY GalleryStarts, GallerySteps, <1>1, PTL DEF GallerySpec

-----------------------------------------------------------------------------
(* The pin follows the place, for any number of places, lost contexts and  *)
(* lost connections.                                                       *)

\* What can be stored: a place, or none where there is no place at all.
Storable == IF MaxPlaces > 0 THEN Places ELSE {NoPlace}

VenueShape ==
    /\ locked \in BOOLEAN /\ online \in BOOLEAN /\ crowded \in BOOLEAN
    /\ pinned \in BOOLEAN /\ taken \in BOOLEAN
    /\ stored \in Storable /\ markers \in Seq(Storable)
    /\ pending \in Storable \cup {NoPlace} /\ pin \in Storable \cup {NoPlace}
    /\ picks \in Seq(Places) /\ lookups \subseteq Places
    /\ fresh \in Nat /\ fresh > 1
    /\ map \in {"none", "building", "loaded"}

\* A map that is not there has no pin, and is neither there nor lost before the scripts are;
\* a pin that is off the map was clicked away.
MapHolds ==
    /\ map = "none" => pin = NoPlace
    /\ scripts = "loading" => map = "none" /\ rebuild = FALSE
    /\ pin # NoPlace /\ pinned = FALSE => taken = TRUE

\* The last marker under way is the stored place.
MarkersFollow == online = TRUE /\ markers # <<>> => markers[Len(markers)] = stored

\* The public page's place never changes; the editor's map needs no retries.
LockedHolds ==
    /\ locked = TRUE => /\ picks = <<>> /\ lookups = {}
                        /\ pending \in {NoPlace, stored} /\ pin \in {NoPlace, stored}
                        /\ \A i \in DOMAIN markers : markers[i] = stored
    /\ locked = FALSE => retries = <<>> /\ (map = "loaded" => pending = NoPlace)

MapQuiet == online = TRUE /\ markers = <<>> /\ picks = <<>> /\ lookups = {}

\* When nothing is on its way the hook has the stored place: on the map, or pending for it.
PlaceArrived ==
    IF locked = TRUE THEN pending # NoPlace \/ pin = stored
    ELSE \/ map = "none" /\ pending = stored
         \/ map = "building" /\ pin = NoPlace /\ pending = stored
         \/ map # "none" /\ pending = NoPlace /\ pin = stored

PinInv ==
    /\ VenueShape /\ MapHolds /\ MarkersFollow /\ LockedHolds
    /\ MapQuiet /\ crowded = FALSE => PlaceArrived

LEMMA PlacesAre ==
  /\ NoPlace \notin Places /\ Places \subseteq Nat
  /\ Places \subseteq Storable
  /\ \A p \in Places : MaxPlaces > 0
  /\ stored \in Storable /\ stored = NoPlace => Storable = {NoPlace} /\ Places = {}
  <1>1. NoPlace \notin Places /\ Places \subseteq Nat /\ \A p \in Places : MaxPlaces > 0
    BY VenueBounds DEF Places, NoPlace
  <1>2. Places \subseteq Storable
    BY <1>1 DEF Storable
  <1>3. stored \in Storable /\ stored = NoPlace => Storable = {NoPlace} /\ Places = {}
    BY <1>1 DEF Storable
  <1>4. QED
    BY <1>1, <1>2, <1>3

LEMMA PinStarts == VenueInit => PinInv
  <1> SUFFICES ASSUME VenueInit PROVE PinInv
    OBVIOUS
  <1>1. /\ locked \in BOOLEAN /\ online = TRUE /\ crowded = FALSE /\ pinned = FALSE /\ taken = FALSE
        /\ picks = <<>> /\ markers = <<stored>> /\ scripts = "loading" /\ map = "none"
        /\ rebuild = FALSE /\ pending = NoPlace /\ pin = NoPlace /\ lookups = {} /\ retries = <<>> /\ fresh = 2
        /\ stored = IF MaxPlaces > 0 THEN 1 ELSE NoPlace
    BY DEF VenueInit, MapInit
  <1>2. stored \in Storable
    BY <1>1, VenueBounds DEF Storable, Places, NoPlace
  <1>3. markers \in Seq(Storable) /\ markers # <<>> /\ markers[Len(markers)] = stored
        /\ \A i \in DOMAIN markers : markers[i] = stored
    BY <1>1, <1>2
  <1>4. picks \in Seq(Places)
    BY <1>1
  <1>5. VenueShape
    <2>1. lookups \subseteq Places /\ fresh \in Nat /\ fresh > 1
      BY <1>1
    <2>2. map \in {"none", "building", "loaded"}
      BY <1>1
    <2>3. QED
      BY <1>1, <1>2, <1>3, <1>4, <2>1, <2>2, Zenon DEF VenueShape
  <1>6. QED
    BY <1>1, <1>3, <1>5 DEF PinInv, MapHolds, MarkersFollow, LockedHolds, MapQuiet

\* setMarker, with a place and without.
LEMMA SetMarkerDoes ==
  ASSUME NEW p \in Storable \cup {NoPlace}, SetMarker(p)
  PROVE  \/ p = NoPlace /\ pin' = pin /\ pinned' = pinned
         \/ p # NoPlace /\ pin' = p /\ pinned' = TRUE
  BY Zenon DEF SetMarker

LEMMA AddMarkerDoes ==
  ASSUME VenueShape, NEW p, AddMarker(p)
  PROVE  \/ /\ map = "none" /\ pending' = p
            /\ UNCHANGED <<pin, pinned, retries, crowded>>
         \/ /\ map # "none" /\ locked = TRUE /\ pending' = p
            /\ UNCHANGED <<pin, pinned, crowded>>
         \/ /\ map # "none" /\ locked = FALSE /\ SetMarker(p)
            /\ crowded' \in BOOLEAN /\ (crowded' = FALSE => crowded = FALSE /\ pending = NoPlace)
            /\ UNCHANGED <<pending, retries>>
  <1>0. locked \in BOOLEAN /\ crowded \in BOOLEAN
    BY DEF VenueShape
  <1>1. CASE map = "none"
    BY <1>1 DEF AddMarker
  <1>2. CASE map # "none" /\ locked = TRUE
    BY <1>2, Zenon DEF AddMarker
  <1>3. CASE map # "none" /\ locked = FALSE
    <2>1. /\ SetMarker(p) /\ crowded' = (crowded \/ pending # NoPlace)
          /\ UNCHANGED <<pending, retries>>
      BY <1>3, Zenon DEF AddMarker
    <2>2. crowded' \in BOOLEAN /\ (crowded' = FALSE => crowded = FALSE /\ pending = NoPlace)
      BY <1>0, <2>1, Zenon
    <2>3. QED
      BY <1>3, <2>1, <2>2
  <1>4. QED
    BY <1>0, <1>1, <1>2, <1>3

LEMMA ReceiveMarkerKeeps == ASSUME PinInv, ReceiveMarker PROVE PinInv'
  <1> DEFINE p == Head(markers)
  <1>0. VenueShape /\ MapHolds /\ MarkersFollow /\ LockedHolds /\ markers # <<>>
    BY DEF PinInv, ReceiveMarker
  <1>1. /\ markers' = Tail(markers) /\ AddMarker(p)
        /\ UNCHANGED <<locked, stored, online, picks, scripts, map, lookups, fresh, taken, rebuild>>
    BY DEF ReceiveMarker, serverSide
  <1>2. /\ p \in Storable /\ markers' \in Seq(Storable)
        /\ markers' = <<>> => p = markers[Len(markers)]
        /\ markers' # <<>> => markers'[Len(markers')] = markers[Len(markers)]
        /\ \A i \in DOMAIN markers' : \E j \in DOMAIN markers : markers'[i] = markers[j]
        /\ \E j \in DOMAIN markers : p = markers[j]
    <2>1. markers \in Seq(Storable)
      BY <1>0 DEF VenueShape
    <2>2. Len(markers) \in Nat /\ Len(markers) > 0 /\ p = markers[1] /\ p \in Storable
      BY <1>0, <2>1
    <2>3. markers' \in Seq(Storable) /\ Len(markers') = Len(markers) - 1
          /\ \A i \in 1..Len(markers') : markers'[i] = markers[i + 1]
      BY <1>0, <1>1, <2>1
    <2>4. markers' = <<>> => Len(markers') = 0
      OBVIOUS
    <2>5. markers' # <<>> => Len(markers') > 0
      BY <2>3
    <2>6. DOMAIN markers = 1..Len(markers) /\ DOMAIN markers' = 1..Len(markers')
      BY <2>1, <2>3
    <2>7. QED
      BY <2>2, <2>3, <2>4, <2>5, <2>6
  <1> HIDE DEF p
  <1>3. \/ /\ map = "none" /\ pending' = p
           /\ UNCHANGED <<pin, pinned, retries, crowded>>
        \/ /\ map # "none" /\ locked = TRUE /\ pending' = p
           /\ UNCHANGED <<pin, pinned, crowded>>
        \/ /\ map # "none" /\ locked = FALSE /\ SetMarker(p)
           /\ crowded' \in BOOLEAN /\ (crowded' = FALSE => crowded = FALSE /\ pending = NoPlace)
           /\ UNCHANGED <<pending, retries>>
    BY <1>0, <1>1, AddMarkerDoes
  <1>4. SetMarker(p) => \/ p = NoPlace /\ pin' = pin /\ pinned' = pinned
                        \/ p # NoPlace /\ pin' = p /\ pinned' = TRUE
    BY <1>2, SetMarkerDoes
  <1>5. VenueShape'
    BY <1>0, <1>1, <1>2, <1>3, <1>4 DEF VenueShape
  <1>6. MapHolds'
    BY <1>0, <1>1, <1>3, <1>4 DEF MapHolds
  <1>7. MarkersFollow'
    BY <1>0, <1>1, <1>2 DEF MarkersFollow
  <1>8. LockedHolds'
    <2>1. locked = TRUE => p = stored
      BY <1>0, <1>2 DEF LockedHolds
    <2>2. \A i \in DOMAIN markers' : locked = TRUE => markers'[i] = stored
      BY <1>0, <1>2 DEF LockedHolds
    <2>3. locked \in BOOLEAN /\ (locked = FALSE => map # "loaded" \/ pending' = NoPlace)
      BY <1>0, <1>3 DEF LockedHolds, VenueShape
    <2>4. QED
      BY <1>0, <1>1, <1>3, <2>1, <2>2, <2>3 DEF LockedHolds
  <1>9. ASSUME MapQuiet', crowded' = FALSE PROVE PlaceArrived'
    <2>1. p = stored
      BY <1>0, <1>1, <1>2, <1>9 DEF MapQuiet, MarkersFollow
    <2>2. stored = NoPlace => pin' = NoPlace /\ pending' = NoPlace
      BY <1>5, <1>1, PlacesAre DEF VenueShape
    <2>3. locked \in BOOLEAN /\ map \in {"none", "building", "loaded"}
      BY <1>0 DEF VenueShape
    <2>4. QED
      BY <1>0, <1>1, <1>3, <1>4, <1>9, <2>1, <2>2, <2>3 DEF PlaceArrived
  <1>10. QED
    BY <1>5, <1>6, <1>7, <1>8, <1>9 DEF PinInv

\* A map that begins has the place that is pending for it.
LEMMA MapBegins ==
  ASSUME PinInv,
         UNCHANGED <<locked, online, crowded, pinned, taken, stored, markers, pending, pin, picks,
                     lookups, fresh, retries>>,
         map' = map \/ (map = "none" /\ map' \in {"building", "none"}),
         scripts' = "loading" => scripts = "loading" /\ map' = map /\ rebuild' = rebuild
  PROVE  PinInv'
  <1>1. VenueShape'
    <2>1. map' \in {"none", "building", "loaded"}
      BY DEF PinInv, VenueShape
    <2>2. QED
      BY <2>1, Zenon DEF PinInv, VenueShape
  <1>2. MapHolds' /\ MarkersFollow' /\ LockedHolds'
    BY DEF PinInv, MapHolds, MarkersFollow, LockedHolds
  <1>3. ASSUME MapQuiet', crowded' = FALSE PROVE PlaceArrived'
    BY <1>3 DEF PinInv, MapHolds, MapQuiet, PlaceArrived
  <1>4. QED
    BY <1>1, <1>2, <1>3 DEF PinInv

LEMMA BuildKeeps == ASSUME PinInv, ScriptsLoad \/ RebuildMap PROVE PinInv'
  <1>1. UNCHANGED <<locked, online, crowded, pinned, taken, stored, markers, pending, pin, picks,
                    lookups, fresh, retries>>
    BY DEF ScriptsLoad, RebuildMap, serverSide
  <1>2. map' = map \/ (map = "none" /\ map' \in {"building", "none"})
    BY DEF ScriptsLoad, RebuildMap, InitMap, PinInv, MapHolds
  <1>3. scripts' = "loading" => scripts = "loading" /\ map' = map /\ rebuild' = rebuild
    <2>1. CASE ScriptsLoad
      BY <2>1 DEF ScriptsLoad
    <2>2. CASE RebuildMap
      <3>1. scripts' = scripts
        BY <2>2 DEF RebuildMap
      <3>2. rebuild # FALSE
        BY <2>2, Zenon DEF RebuildMap
      <3>3. QED
        BY <3>1, <3>2, Zenon DEF PinInv, MapHolds
    <2>3. QED
      BY <2>1, <2>2
  <1>4. QED
    BY <1>1, <1>2, <1>3, MapBegins

LEMMA LoadKeeps == ASSUME PinInv, MapLoads PROVE PinInv'
  <1>0. VenueShape /\ MapHolds /\ MarkersFollow /\ LockedHolds
    BY DEF PinInv
  <1>1. /\ map = "building" /\ map' = "loaded" /\ SetMarker(pending) /\ pending' = NoPlace
        /\ UNCHANGED <<locked, online, crowded, taken, stored, markers, picks, lookups, fresh,
                       retries, scripts, rebuild>>
    BY DEF MapLoads, serverSide
  <1>2. \/ pending = NoPlace /\ pin' = pin /\ pinned' = pinned
        \/ pending # NoPlace /\ pin' = pending /\ pinned' = TRUE
    BY <1>0, <1>1, SetMarkerDoes DEF VenueShape
  <1>3. VenueShape'
    <2>1. pin' \in Storable \cup {NoPlace} /\ pinned' \in BOOLEAN /\ pending' \in Storable \cup {NoPlace}
      BY <1>0, <1>1, <1>2 DEF VenueShape
    <2>2. map' \in {"none", "building", "loaded"}
      BY <1>1
    <2>3. QED
      BY <1>0, <1>1, <2>1, <2>2, Zenon DEF VenueShape
  <1>4. MapHolds'
    BY <1>0, <1>1, <1>2 DEF MapHolds
  <1>5. MarkersFollow'
    BY <1>0, <1>1 DEF MarkersFollow
  <1>6. LockedHolds'
    BY <1>0, <1>1, <1>2 DEF LockedHolds
  <1>7. ASSUME MapQuiet', crowded' = FALSE PROVE PlaceArrived'
    <2>1. PlaceArrived
      BY <1>1, <1>7 DEF PinInv, MapQuiet
    <2>2. locked = TRUE => (pin' # NoPlace /\ pin' = stored) \/ pin' = pin
      BY <1>0, <1>2 DEF LockedHolds
    <2>3. CASE locked = TRUE
      BY <1>0, <1>1, <1>2, <2>1, <2>3 DEF PlaceArrived, LockedHolds
    <2>4. CASE locked = FALSE
      BY <1>1, <1>2, <2>1, <2>4 DEF PlaceArrived
    <2>5. QED
      BY <1>0, <2>3, <2>4 DEF VenueShape
  <1>8. QED
    BY <1>3, <1>4, <1>5, <1>6, <1>7 DEF PinInv

LEMMA ContextKeeps == ASSUME PinInv, LoseContext PROVE PinInv'
  <1>0. VenueShape /\ MapHolds /\ MarkersFollow /\ LockedHolds
    BY DEF PinInv
  <1>1. /\ map # "none" /\ map' = "none" /\ pending' = KeptPin /\ pin' = NoPlace /\ pinned' = FALSE
        /\ UNCHANGED <<locked, online, crowded, taken, stored, markers, picks, lookups, fresh,
                       retries, scripts>>
    BY DEF LoseContext, serverSide
  <1>2. pending' = IF pin # NoPlace THEN pin ELSE pending
    BY <1>1 DEF KeptPin
  <1>3. VenueShape'
    <2>1. pin' \in Storable \cup {NoPlace} /\ pending' \in Storable \cup {NoPlace}
      BY <1>0, <1>1, <1>2 DEF VenueShape
    <2>2. map' \in {"none", "building", "loaded"} /\ pinned' \in BOOLEAN
      BY <1>1
    <2>3. QED
      BY <1>0, <1>1, <2>1, <2>2, Zenon DEF VenueShape
  <1>4. MapHolds'
    BY <1>0, <1>1 DEF MapHolds
  <1>5. MarkersFollow'
    BY <1>0, <1>1 DEF MarkersFollow
  <1>6. LockedHolds'
    BY <1>0, <1>1, <1>2 DEF LockedHolds
  <1>7. ASSUME MapQuiet', crowded' = FALSE PROVE PlaceArrived'
    <2>1. PlaceArrived
      BY <1>1, <1>7 DEF PinInv, MapQuiet
    <2>2. stored = NoPlace => pending = NoPlace /\ pin = NoPlace
      BY <1>0, PlacesAre DEF VenueShape
    <2>3. QED
      BY <1>0, <1>1, <1>2, <2>1, <2>2 DEF PlaceArrived, LockedHolds
  <1>8. QED
    BY <1>3, <1>4, <1>5, <1>6, <1>7 DEF PinInv

LEMMA ClickKeeps == ASSUME PinInv, ClickMap PROVE PinInv'
  <1>0. VenueShape /\ MapHolds /\ MarkersFollow /\ LockedHolds
    BY DEF PinInv
  <1>1. /\ map = "loaded" /\ locked = FALSE /\ fresh <= MaxPlaces /\ fresh' = fresh + 1
        /\ SetMarker(fresh) /\ lookups' = lookups \cup {fresh} /\ taken' = FALSE
        /\ UNCHANGED <<locked, online, crowded, stored, markers, picks, map, pending, retries, scripts, rebuild>>
    <2>1. locked \in BOOLEAN /\ ~locked
      BY <1>0, Zenon DEF VenueShape, ClickMap
    <2>2. locked = FALSE
      BY <2>1, Zenon
    <2>3. QED
      BY <2>2 DEF ClickMap, serverSide
  <1>2. fresh \in Places /\ fresh \in Storable /\ fresh' \in Nat /\ fresh' > 1 /\ fresh # NoPlace
    <2>1. fresh \in Places /\ fresh' \in Nat /\ fresh' > 1
      BY <1>0, <1>1, VenueBounds DEF VenueShape, Places
    <2>2. QED
      BY <2>1, PlacesAre
  <1>3. pin' = fresh /\ pinned' = TRUE
    BY <1>1, <1>2 DEF SetMarker
  <1>4. VenueShape'
    <2>1. lookups' \subseteq Places
      BY <1>0, <1>1, <1>2 DEF VenueShape
    <2>2. pin' \in Storable \cup {NoPlace} /\ pinned' \in BOOLEAN /\ taken' \in BOOLEAN
      BY <1>1, <1>2, <1>3
    <2>3. QED
      BY <1>0, <1>1, <1>2, <2>1, <2>2, Zenon DEF VenueShape
  <1>5. MapHolds'
    BY <1>0, <1>1, <1>3 DEF MapHolds
  <1>6. MarkersFollow' /\ LockedHolds'
    BY <1>0, <1>1 DEF MarkersFollow, LockedHolds
  <1>7. ~MapQuiet'
    BY <1>1 DEF MapQuiet
  <1>8. QED
    BY <1>4, <1>5, <1>6, <1>7 DEF PinInv

LEMMA PinClickKeeps == ASSUME PinInv, ClickPin PROVE PinInv'
  <1>1. /\ pinned' = FALSE /\ taken' = TRUE
        /\ UNCHANGED <<locked, online, crowded, stored, markers, pending, pin, picks, lookups,
                       fresh, retries, map, scripts, rebuild>>
    BY DEF ClickPin, serverSide
  <1>2. VenueShape'
    BY <1>1, Zenon DEF PinInv, VenueShape
  <1>3. MapHolds' /\ MarkersFollow' /\ LockedHolds'
    BY <1>1 DEF PinInv, MapHolds, MarkersFollow, LockedHolds
  <1>4. ASSUME MapQuiet', crowded' = FALSE PROVE PlaceArrived'
    BY <1>1, <1>4 DEF PinInv, MapQuiet, PlaceArrived
  <1>5. QED
    BY <1>2, <1>3, <1>4 DEF PinInv

LEMMA FoundKeeps == ASSUME PinInv, NEW p \in lookups, AddressFound(p) PROVE PinInv'
  <1>0. VenueShape /\ MapHolds /\ MarkersFollow /\ LockedHolds
    BY DEF PinInv
  <1>1. /\ lookups' = lookups \ {p}
        /\ picks' = IF online THEN Append(picks, p) ELSE picks
        /\ UNCHANGED <<locked, online, crowded, pinned, taken, stored, markers, pending, pin,
                       fresh, retries, map, scripts, rebuild>>
    BY DEF AddressFound, serverSide
  <1>2. p \in Places /\ picks \in Seq(Places) /\ online \in BOOLEAN
    BY <1>0 DEF VenueShape
  <1>3. picks' \in Seq(Places) /\ (online = TRUE => picks' # <<>>)
    <2>1. Append(picks, p) \in Seq(Places) /\ Append(picks, p) # <<>>
      BY <1>2
    <2>2. online = TRUE => picks' = Append(picks, p)
      BY <1>1, Zenon
    <2>3. online = FALSE => picks' = picks
      BY <1>1, Zenon
    <2>4. QED
      BY <1>2, <2>1, <2>2, <2>3
  <1>4. VenueShape'
    <2>1. lookups' \subseteq Places
      BY <1>0, <1>1 DEF VenueShape
    <2>2. QED
      BY <1>0, <1>1, <1>3, <2>1, Zenon DEF VenueShape
  <1>5. MapHolds' /\ MarkersFollow'
    BY <1>0, <1>1 DEF MapHolds, MarkersFollow
  <1>6. LockedHolds'
    BY <1>0, <1>1 DEF LockedHolds
  <1>7. ~MapQuiet'
    BY <1>1, <1>3 DEF MapQuiet
  <1>8. QED
    BY <1>4, <1>5, <1>6, <1>7 DEF PinInv

LEMMA SelectedKeeps == ASSUME PinInv, LocationSelected PROVE PinInv'
  <1>0. VenueShape /\ MapHolds /\ MarkersFollow /\ LockedHolds
    BY DEF PinInv
  <1>1. /\ picks # <<>> /\ picks' = Tail(picks) /\ stored' = Head(picks)
        /\ markers' = Append(markers, stored')
        /\ UNCHANGED <<locked, online, crowded, pinned, taken, pending, pin, lookups, fresh,
                       retries, map, scripts, rebuild>>
    BY DEF LocationSelected
  <1>2. picks' \in Seq(Places) /\ stored' \in Storable
    <2>1. picks \in Seq(Places)
      BY <1>0 DEF VenueShape
    <2>2. picks' \in Seq(Places) /\ stored' \in Places
      BY <1>1, <2>1
    <2>3. QED
      BY <2>2, PlacesAre
  <1>3. /\ markers' \in Seq(Storable) /\ markers' # <<>> /\ markers'[Len(markers')] = stored'
    BY <1>0, <1>1, <1>2 DEF VenueShape
  <1>4. VenueShape'
    BY <1>0, <1>1, <1>2, <1>3, Zenon DEF VenueShape
  <1>5. MapHolds' /\ MarkersFollow'
    BY <1>0, <1>1, <1>3 DEF MapHolds, MarkersFollow
  <1>6. LockedHolds'
    <2>1. locked # TRUE
      BY <1>0, <1>1 DEF LockedHolds
    <2>2. QED
      BY <1>0, <1>1, <2>1 DEF LockedHolds
  <1>7. ~MapQuiet'
    BY <1>3 DEF MapQuiet
  <1>8. QED
    BY <1>4, <1>5, <1>6, <1>7 DEF PinInv

LEMMA ToggleKeeps == ASSUME PinInv, ToggleMap PROVE PinInv'
  <1>0. VenueShape /\ MapHolds /\ MarkersFollow /\ LockedHolds
    BY DEF PinInv
  <1>1. /\ fresh' = fresh + 1 /\ markers' = Append(markers, stored)
        /\ UNCHANGED <<locked, online, crowded, pinned, taken, stored, pending, pin, picks, lookups,
                       retries, map, scripts, rebuild>>
    BY DEF ToggleMap, serverSide
  <1>2. markers \in Seq(Storable) /\ stored \in Storable /\ fresh \in Nat /\ fresh > 1
    BY <1>0 DEF VenueShape
  <1>3. /\ markers' \in Seq(Storable) /\ markers' # <<>> /\ markers'[Len(markers')] = stored
        /\ \A i \in DOMAIN markers' : markers'[i] = stored \/ (i \in DOMAIN markers /\ markers'[i] = markers[i])
    BY <1>1, <1>2
  <1>4. fresh' \in Nat /\ fresh' > 1
    BY <1>1, <1>2
  <1>5. VenueShape'
    BY <1>0, <1>1, <1>3, <1>4, Zenon DEF VenueShape
  <1>6. MapHolds' /\ MarkersFollow'
    BY <1>0, <1>1, <1>3 DEF MapHolds, MarkersFollow
  <1>7. LockedHolds'
    BY <1>0, <1>1, <1>3 DEF LockedHolds
  <1>8. ~MapQuiet'
    BY <1>3 DEF MapQuiet
  <1>9. QED
    BY <1>5, <1>6, <1>7, <1>8 DEF PinInv

LEMMA SocketKeeps == ASSUME PinInv, LoseSocket \/ RejoinSocket PROVE PinInv'
  <1>0. VenueShape /\ MapHolds /\ MarkersFollow /\ LockedHolds
    BY DEF PinInv
  <1>1. /\ \/ online' = FALSE /\ picks' = <<>> /\ markers' = <<>>
           \/ online' = TRUE /\ picks' = picks /\ markers' = <<stored>>
        /\ UNCHANGED <<locked, crowded, pinned, taken, stored, pending, pin, lookups, fresh,
                       retries, map, scripts, rebuild>>
    BY DEF LoseSocket, RejoinSocket, serverSide
  <1>2. /\ markers' \in Seq(Storable)
        /\ \A i \in DOMAIN markers' : markers'[i] = stored
        /\ online' = TRUE => markers' # <<>> /\ markers'[Len(markers')] = stored
    <2>1. stored \in Storable
      BY <1>0 DEF VenueShape
    <2>2. CASE online' = FALSE /\ markers' = <<>>
      BY <2>2
    <2>3. CASE markers' = <<stored>>
      BY <2>1, <2>3
    <2>4. QED
      BY <1>1, <2>2, <2>3
  <1>3. picks' \in Seq(Places) /\ online' \in BOOLEAN
    <2>1. picks \in Seq(Places) /\ <<>> \in Seq(Places)
      BY <1>0 DEF VenueShape
    <2>2. QED
      BY <1>1, <2>1, Zenon
  <1>4. VenueShape'
    BY <1>0, <1>1, <1>2, <1>3, Zenon DEF VenueShape
  <1>5. MapHolds' /\ MarkersFollow'
    BY <1>0, <1>1, <1>2 DEF MapHolds, MarkersFollow
  <1>6. LockedHolds'
    BY <1>0, <1>1, <1>2 DEF LockedHolds
  <1>7. ~MapQuiet'
    BY <1>2 DEF MapQuiet
  <1>8. QED
    BY <1>4, <1>5, <1>6, <1>7 DEF PinInv

LEMMA RetryMarkerKeeps == ASSUME PinInv, NEW i \in DOMAIN retries, RetryMarker(i) PROVE PinInv'
  <1>0. VenueShape /\ MapHolds /\ MarkersFollow /\ LockedHolds
    BY DEF PinInv
  <1>1. /\ \/ /\ pending # NoPlace /\ map = "loaded" /\ SetMarker(pending) /\ pending' = NoPlace
           \/ UNCHANGED <<pin, pinned, pending>>
        /\ UNCHANGED <<locked, online, crowded, taken, stored, markers, picks, lookups, fresh,
                       map, scripts, rebuild>>
    BY DEF RetryMarker, serverSide
  <1>2. locked = TRUE
    <2>1. retries # <<>>
      OBVIOUS
    <2>2. QED
      BY <1>0, <2>1 DEF LockedHolds, VenueShape
  <1>3. \/ UNCHANGED <<pin, pinned, pending>>
        \/ pending # NoPlace /\ pin' = pending /\ pinned' = TRUE /\ pending' = NoPlace /\ map = "loaded"
    BY <1>0, <1>1, SetMarkerDoes DEF VenueShape
  <1>4. VenueShape'
    <2>1. /\ pin' \in Storable \cup {NoPlace} /\ pending' \in Storable \cup {NoPlace}
          /\ pinned' \in BOOLEAN
      BY <1>0, <1>3 DEF VenueShape
    <2>2. QED
      BY <1>0, <1>1, <2>1, Zenon DEF VenueShape
  <1>5. MapHolds' /\ MarkersFollow'
    BY <1>0, <1>1, <1>3 DEF MapHolds, MarkersFollow
  <1>6. LockedHolds'
    BY <1>0, <1>1, <1>2, <1>3 DEF LockedHolds
  <1>7. ASSUME MapQuiet', crowded' = FALSE PROVE PlaceArrived'
    BY <1>0, <1>1, <1>2, <1>3, <1>7 DEF PinInv, MapQuiet, PlaceArrived, LockedHolds
  <1>8. QED
    BY <1>4, <1>5, <1>6, <1>7 DEF PinInv

LEMMA ResultKeeps == ASSUME PinInv, ~locked, SelectResult PROVE PinInv'
  <1>0. VenueShape /\ MapHolds /\ MarkersFollow /\ LockedHolds
    BY DEF PinInv
  <1>1. /\ fresh <= MaxPlaces /\ fresh' = fresh + 1
        /\ picks' = IF online THEN Append(picks, fresh) ELSE picks
        /\ UNCHANGED <<locked, online, crowded, pinned, taken, stored, markers, pending, pin,
                       lookups, retries, map, scripts, rebuild>>
    BY DEF SelectResult, serverSide
  <1>2. /\ fresh \in Places /\ picks \in Seq(Places) /\ online \in BOOLEAN
        /\ fresh' \in Nat /\ fresh' > 1
    BY <1>0, <1>1, VenueBounds DEF VenueShape, Places
  <1>3. picks' \in Seq(Places) /\ (online = TRUE => picks' # <<>>)
    <2>1. Append(picks, fresh) \in Seq(Places) /\ Append(picks, fresh) # <<>>
      BY <1>2
    <2>2. online = TRUE => picks' = Append(picks, fresh)
      BY <1>1, Zenon
    <2>3. online = FALSE => picks' = picks
      BY <1>1, Zenon
    <2>4. QED
      BY <1>2, <2>1, <2>2, <2>3
  <1>4. VenueShape'
    BY <1>0, <1>1, <1>2, <1>3, Zenon DEF VenueShape
  <1>5. MapHolds' /\ MarkersFollow'
    BY <1>0, <1>1 DEF MapHolds, MarkersFollow
  <1>6. locked = FALSE
    BY <1>0, Zenon DEF VenueShape
  <1>7. LockedHolds'
    BY <1>0, <1>1, <1>6 DEF LockedHolds
  <1>8. ~MapQuiet'
    BY <1>1, <1>3 DEF MapQuiet
  <1>9. QED
    BY <1>4, <1>5, <1>7, <1>8 DEF PinInv

LEMMA PinSteps == PinInv /\ [VenueNext]_venueVars => PinInv'
  <1> SUFFICES ASSUME PinInv, [VenueNext]_venueVars PROVE PinInv'
    OBVIOUS
  <1>1. CASE MapNext
    BY <1>1, ReceiveMarkerKeeps, BuildKeeps, LoadKeeps, ContextKeeps, ClickKeeps, PinClickKeeps,
       FoundKeeps, SelectedKeeps, ToggleKeeps, SocketKeeps, RetryMarkerKeeps DEF MapNext
  <1>2. CASE UNCHANGED mapVars
    BY <1>2, MapBegins DEF mapVars
  <1>3. CASE ~locked /\ SearchNext
    <2>1. UNCHANGED mapVars \/ SelectResult
      BY <1>3 DEF SearchNext, Focus, TypeQuery, DebounceEnds, CloseList, SearchAnswered
    <2>2. QED
      BY <1>2, <1>3, <2>1, ResultKeeps
  <1>4. QED
    BY <1>1, <1>2, <1>3 DEF VenueNext, venueVars

\* The pin of the map (radar.js) stands at the place the LiveView has stored, once everything
\* has settled, for any number of clicks, answers of Radar in any order, lost WebGL contexts
\* and lost connections, with the exceptions the property names.
THEOREM PinAlwaysFollowsPlace == VenueSpec => []PinFollowsPlace
  <1>1. PinInv => PinFollowsPlace
    <2> SUFFICES ASSUME PinInv, Settled, retries = <<>>, ~crowded, ~taken
                 PROVE  \/ locked /\ pending # NoPlace
                        \/ pin = stored /\ (pinned \/ pin = NoPlace)
      BY DEF PinFollowsPlace
    <2>1. VenueShape /\ MapHolds
      BY DEF PinInv
    <2>2. /\ locked \in BOOLEAN /\ online \in BOOLEAN /\ crowded \in BOOLEAN /\ taken \in BOOLEAN
          /\ pinned \in BOOLEAN
      BY <2>1 DEF VenueShape
    <2>3. crowded = FALSE /\ taken = FALSE /\ online = TRUE
      BY <2>2, Zenon DEF Settled
    <2>4. MapQuiet /\ map = "loaded"
      BY <2>3, Zenon DEF Settled, MapQuiet
    <2>5. PlaceArrived
      BY <2>3, <2>4 DEF PinInv
    <2>6. pin = stored \/ (locked = TRUE /\ pending # NoPlace)
      BY <2>2, <2>4, <2>5 DEF PlaceArrived
    <2>7. pinned = TRUE \/ pin = NoPlace
      BY <2>1, <2>2, <2>3 DEF MapHolds
    <2>8. QED
      BY <2>6, <2>7, Zenon
  <1>2. QED
    BY PinStarts, PinSteps, <1>1, PTL DEF VenueSpec

-----------------------------------------------------------------------------
(* The last edit is saved, for any number of edits, uploads and saves.     *)

Written == [title: Nat, body: Nat]
Writings == [title: Nat, body: Nat, last: Fields]
Pushed == [event: {"title", "body", "settings"}, text: Nat]
Closures == [key: Nat, values: Written]
Noticed == [event: {"created", "saved", "failed"}, post: Nat]

EditorShape ==
    /\ wrote \in Writings /\ unsent \subseteq Fields
    /\ edits \in Nat /\ uploads \in Nat /\ uploads <= edits /\ edits + uploads <= 2 * MaxEdits
    /\ \A f \in Fields : wrote[f] <= edits
    /\ pushes \in Seq(Pushed) /\ notices \in Seq(Noticed)
    /\ editor \in [post: Nat, copy: Written, values: Written] /\ editor.post <= Len(posts)
    /\ posts \in Seq(Written) /\ delayed \subseteq Closures
    /\ attached \in BOOLEAN /\ (attached = FALSE => pushes = <<>> /\ notices = <<>>)

\* What waits in the debouncer, and what was said of it, is about the post that the page
\* has; the news of a first save comes alone.
OnePost ==
    /\ \A c, d \in delayed : c.key = d.key => c = d
    /\ \A c \in delayed : c.key = editor.post
    /\ \A i \in DOMAIN notices :
          IF editor.post = Unsaved
          THEN /\ delayed = {} /\ Len(notices) = 1
               /\ notices[i].event = "created" /\ notices[i].post \in DOMAIN posts
          ELSE notices[i].event = "saved"

NoFieldPushed(told) == \A i \in DOMAIN told : told[i].event \notin Fields

\* The last of the fields under way is this one, with this text.
LastPushed(told, f, value) ==
    \E k \in DOMAIN told : /\ told[k].event = f /\ told[k].text = value
                           /\ \A j \in DOMAIN told : j > k => told[j].event \notin Fields

NothingSent ==
    /\ wrote.last = "body" /\ wrote.body = 0 /\ editor.values = Text(0, Absent)
    /\ editor.post = Unsaved /\ delayed = {} /\ notices = <<>>
    /\ edits > 0 => unsent # {}

Held(f, value) == \E c \in delayed : c.values[f] = value

SavedAs(f, value) ==
    /\ delayed = {}
    /\ IF editor.post = Unsaved
       THEN notices # <<>> /\ posts[notices[1].post][f] = value
       ELSE posts[editor.post][f] = value

\* The field sent last is under way, waits in the debouncer, or is saved.
LastEditIsKept ==
    wrote.last \notin unsent =>
        \/ LastPushed(pushes, wrote.last, wrote[wrote.last])
        \/ /\ NoFieldPushed(pushes)
           /\ \/ NothingSent
              \/ Held(wrote.last, wrote[wrote.last])
              \/ SavedAs(wrote.last, wrote[wrote.last])

EditorHolds == EditorShape /\ OnePost /\ LastEditIsKept

EditorInv ==
    /\ twice \in BOOLEAN /\ mishap \in BOOLEAN
    /\ twice = FALSE /\ mishap = FALSE => EditorHolds

LEMMA TextIs ==
  ASSUME NEW title \in Nat, NEW body \in Nat
  PROVE  /\ Text(title, body) \in Written
         /\ Text(title, body).title = title /\ Text(title, body).body = body
         /\ Text(title, body)["title"] = title /\ Text(title, body)["body"] = body
  BY DEF Text, Written

LEMMA AbsentIs == Absent \in Nat /\ Absent > 2 * MaxEdits /\ MaxEdits \in Nat
  BY EditorBounds DEF Absent

LEMMA EditorStarts == EditorInit => EditorInv
  <1> SUFFICES ASSUME EditorInit PROVE EditorInv
    OBVIOUS
  <1>1. /\ wrote = [title |-> 0, body |-> 0, last |-> "body"] /\ unsent = {} /\ uploads = 0
        /\ pushes = <<>> /\ delayed = {} /\ posts = <<>> /\ notices = <<>> /\ edits = 0
        /\ editor = [post |-> 0, copy |-> Text(0, 0), values |-> Text(0, Absent)]
        /\ twice = FALSE /\ mishap = FALSE /\ attached = TRUE
    BY Zenon DEF EditorInit, Unsaved
  <1>2. wrote \in Writings /\ \A f \in Fields : wrote[f] <= edits
    BY <1>1 DEF Writings, Fields
  <1>3. Text(0, 0) \in Written /\ Text(0, Absent) \in Written
    BY TextIs, AbsentIs
  <1>4. /\ editor \in [post: Nat, copy: Written, values: Written]
        /\ editor.post = Unsaved /\ editor.values = Text(0, Absent)
    BY <1>1, <1>3 DEF Unsaved
  <1>5. pushes \in Seq(Pushed)
    BY <1>1
  <1>6. notices \in Seq(Noticed)
    BY <1>1
  <1>7. posts \in Seq(Written) /\ Len(posts) = 0
    BY <1>1
  <1>8. edits \in Nat /\ uploads \in Nat /\ uploads <= edits /\ edits + uploads <= 2 * MaxEdits
    BY <1>1, AbsentIs
  <1>9. EditorShape
    <2>1. unsent \subseteq Fields /\ delayed \subseteq Closures /\ editor.post <= Len(posts)
      BY <1>1, <1>4, <1>7 DEF Unsaved
    <2>2. QED
      BY <1>1, <1>2, <1>4, <1>5, <1>6, <1>7, <1>8, <2>1, Zenon DEF EditorShape
  <1>10. OnePost
    BY <1>1 DEF OnePost
  <1>11. NothingSent /\ NoFieldPushed(pushes)
    BY <1>1, <1>4 DEF NothingSent, NoFieldPushed
  <1>12. QED
    BY <1>1, <1>9, <1>10, <1>11, Zenon DEF EditorInv, EditorHolds, LastEditIsKept

\* An exception, once met, stays.
LEMMA ExceptionsStay ==
  ASSUME EditorInv, [EditorNext]_editorVars
  PROVE  /\ twice' \in BOOLEAN /\ mishap' \in BOOLEAN
         /\ twice' = FALSE => twice = FALSE
         /\ mishap' = FALSE => mishap = FALSE
  <1>1. \/ twice' = twice
        \/ \E b \in BOOLEAN : twice' = (twice \/ b)
    <2>1. (editor.post = Unsaved /\ notices # <<>>) \in BOOLEAN
      OBVIOUS
    <2>2. (delayed # {} \/ notices # <<>>) \in BOOLEAN
      OBVIOUS
    <2>3. HandleUpdate => \E b \in BOOLEAN : twice' = (twice \/ b)
      BY <2>1, Zenon DEF HandleUpdate
    <2>4. HandleSettings => twice' = twice \/ \E b \in BOOLEAN : twice' = (twice \/ b)
      <3>1. HandleSettings => twice' = twice \/ twice' = (twice \/ delayed # {} \/ notices # <<>>)
        BY Zenon DEF HandleSettings
      <3>2. twice' = (twice \/ delayed # {} \/ notices # <<>>)
            => twice' = (twice \/ (delayed # {} \/ notices # <<>>))
        BY Zenon
      <3>3. QED
        BY <2>2, <3>1, <3>2, Zenon
    <2>5. QED
      BY <2>3, <2>4, Zenon DEF EditorNext, editorVars, AttachFile, UploadEnds, PressSettings,
         HandleNotice, OtherBegins, LoseEditor, RejoinEditor, TypeText, Push, SaveRuns, PageFrame
  <1>2. twice \in BOOLEAN /\ mishap \in BOOLEAN
    BY DEF EditorInv
  <1>3. twice' \in BOOLEAN /\ (twice' = FALSE => twice = FALSE)
    BY <1>1, <1>2, Zenon
  <1>4. mishap' = mishap \/ mishap' = TRUE \/ \E b \in BOOLEAN : mishap' = (mishap \/ b)
    <2>1. (pushes # <<>> \/ notices # <<>>) \in BOOLEAN /\ (~attached) \in BOOLEAN
      BY Zenon
    <2>2. LoseEditor => \E b \in BOOLEAN : mishap' = (mishap \/ b)
      <3>1. LoseEditor => mishap' = (mishap \/ (pushes # <<>> \/ notices # <<>>))
        BY Zenon DEF LoseEditor
      <3>2. QED
        BY <2>1, <3>1, Zenon
    <2>3. ASSUME NEW c \in delayed, SaveRuns(c)
          PROVE  mishap' = TRUE \/ \E b \in BOOLEAN : mishap' = (mishap \/ b)
      BY <2>1, <2>3, Zenon DEF SaveRuns
    <2>4. QED
      BY <2>2, <2>3, Zenon DEF EditorNext, editorVars, AttachFile, UploadEnds, PressSettings,
         HandleUpdate, HandleSettings, HandleNotice, OtherBegins, RejoinEditor, TypeText, Push,
         PageFrame
  <1>5. mishap' \in BOOLEAN /\ (mishap' = FALSE => mishap = FALSE)
    BY <1>2, <1>4, Zenon
  <1>6. QED
    BY <1>3, <1>5

-----------------------------------------------------------------------------
(* The sequences of pushes.                                                *)

LEMMA PushedMore ==
  ASSUME NEW told \in Seq(Pushed), NEW push \in Pushed
  PROVE  /\ Append(told, push) \in Seq(Pushed)
         /\ push.event \in Fields => LastPushed(Append(told, push), push.event, push.text)
         /\ push.event \notin Fields =>
               /\ NoFieldPushed(told) => NoFieldPushed(Append(told, push))
               /\ \A f, value : LastPushed(told, f, value) => LastPushed(Append(told, push), f, value)
  <1> DEFINE more == Append(told, push)
  <1>1. /\ more \in Seq(Pushed) /\ Len(told) \in Nat
        /\ DOMAIN more = 1..(Len(told) + 1) /\ DOMAIN told = 1..Len(told)
        /\ more[Len(told) + 1] = push
        /\ \A i \in DOMAIN told : more[i] = told[i]
    OBVIOUS
  <1> HIDE DEF more
  <1>2. Len(told) + 1 \in DOMAIN more /\ \A j \in DOMAIN more : ~(j > Len(told) + 1)
    BY <1>1
  <1>3. push.event \in Fields => LastPushed(more, push.event, push.text)
    BY <1>1, <1>2 DEF LastPushed
  <1>4. \A j \in DOMAIN more : j \in DOMAIN told \/ j = Len(told) + 1
    BY <1>1
  <1>5. push.event \notin Fields /\ NoFieldPushed(told) => NoFieldPushed(more)
    BY <1>1, <1>4 DEF NoFieldPushed
  <1>6. ASSUME push.event \notin Fields, NEW f, NEW value, LastPushed(told, f, value)
        PROVE  LastPushed(more, f, value)
    <2>1. PICK k \in DOMAIN told : /\ told[k].event = f /\ told[k].text = value
                                   /\ \A j \in DOMAIN told : j > k => told[j].event \notin Fields
      BY <1>6 DEF LastPushed
    <2>2. k \in DOMAIN more /\ more[k] = told[k]
      BY <1>1
    <2>3. \A j \in DOMAIN more : j > k => more[j].event \notin Fields
      BY <1>1, <1>4, <1>6, <2>1
    <2>4. QED
      BY <2>1, <2>2, <2>3, Zenon DEF LastPushed
  <1>7. QED
    BY <1>1, <1>3, <1>5, <1>6 DEF more

LEMMA PushedTail ==
  ASSUME NEW told \in Seq(Pushed), told # <<>>
  PROVE  /\ Tail(told) \in Seq(Pushed) /\ Head(told) \in Pushed
         /\ NoFieldPushed(told) => NoFieldPushed(Tail(told)) /\ Head(told).event \notin Fields
         /\ \A f, value : LastPushed(told, f, value) =>
               \/ LastPushed(Tail(told), f, value)
               \/ NoFieldPushed(Tail(told)) /\ Head(told).event = f /\ Head(told).text = value
  <1> DEFINE rest == Tail(told)
  <1>1. /\ rest \in Seq(Pushed) /\ Head(told) = told[1] /\ 1 \in DOMAIN told /\ Head(told) \in Pushed
        /\ DOMAIN told = 1..Len(told) /\ Len(told) \in Nat /\ DOMAIN rest = 1..(Len(told) - 1)
        /\ \A i \in 1..(Len(told) - 1) : rest[i] = told[i + 1]
    OBVIOUS
  <1> HIDE DEF rest
  <1>2. \A i \in DOMAIN rest : i \in Nat /\ i > 0 /\ i + 1 \in DOMAIN told /\ rest[i] = told[i + 1]
    BY <1>1
  <1>3. NoFieldPushed(told) => NoFieldPushed(rest) /\ Head(told).event \notin Fields
    BY <1>1, <1>2 DEF NoFieldPushed
  <1>4. ASSUME NEW f, NEW value, LastPushed(told, f, value)
        PROVE  \/ LastPushed(rest, f, value)
               \/ NoFieldPushed(rest) /\ Head(told).event = f /\ Head(told).text = value
    <2>1. PICK k \in DOMAIN told : /\ told[k].event = f /\ told[k].text = value
                                   /\ \A j \in DOMAIN told : j > k => told[j].event \notin Fields
      BY <1>4 DEF LastPushed
    <2>2. CASE k = 1
      <3>1. NoFieldPushed(rest)
        BY <1>2, <2>1, <2>2 DEF NoFieldPushed
      <3>2. QED
        BY <1>1, <2>1, <2>2, <3>1
    <2>3. CASE k # 1
      <3>1. k - 1 \in DOMAIN rest /\ rest[k - 1] = told[k]
        BY <1>1, <2>3
      <3>2. \A j \in DOMAIN rest : j > k - 1 => rest[j].event \notin Fields
        BY <1>1, <1>2, <2>1
      <3>3. QED
        BY <2>1, <3>1, <3>2, Zenon DEF LastPushed
    <2>4. QED
      BY <2>2, <2>3
  <1>5. QED
    BY <1>1, <1>3, <1>4 DEF rest

-----------------------------------------------------------------------------
(* The browser's steps.                                                    *)

IsWritten(new, w, f, n) == new = [w EXCEPT ![f] = n]

RewrittenTo(new, w, f, n) ==
    /\ new \in Writings /\ new.last = w.last
    /\ \A g \in Fields : new[g] = IF g = f THEN n ELSE w[g]

LEMMA WrittenField ==
  ASSUME NEW w \in Writings, NEW f \in Fields, NEW n \in Nat,
         NEW new, IsWritten(new, w, f, n)
  PROVE  RewrittenTo(new, w, f, n)
  <1>1. CASE f = "title"
    <2>1. new = [w EXCEPT !["title"] = n]
      BY <1>1 DEF IsWritten
    <2>2. new \in Writings
      BY <2>1 DEF Writings
    <2>3. new.last = w.last /\ new["title"] = n /\ new["body"] = w["body"]
      BY <2>1 DEF Writings
    <2>4. QED
      BY <1>1, <2>2, <2>3 DEF Fields, RewrittenTo
  <1>2. CASE f = "body"
    <2>1. new = [w EXCEPT !["body"] = n]
      BY <1>2 DEF IsWritten
    <2>2. new \in Writings
      BY <2>1 DEF Writings
    <2>3. new.last = w.last /\ new["body"] = n /\ new["title"] = w["title"]
      BY <2>1 DEF Writings
    <2>4. QED
      BY <1>2, <2>2, <2>3 DEF Fields, RewrittenTo
  <1>3. QED
    BY <1>1, <1>2 DEF Fields

LEMMA LastIsField ==
  ASSUME EditorShape
  PROVE  /\ wrote.last \in Fields /\ wrote[wrote.last] \in Nat /\ wrote["body"] = wrote.body
         /\ wrote[wrote.last] < Absent /\ wrote.title \in Nat /\ wrote["title"] = wrote.title
         /\ \A f \in Fields : wrote[f] \in Nat
  <1>1. wrote \in Writings /\ \A f \in Fields : wrote[f] <= edits
    BY DEF EditorShape
  <1>2. wrote.last \in Fields /\ wrote["title"] \in Nat /\ wrote["body"] \in Nat
        /\ wrote["body"] = wrote.body /\ wrote["title"] = wrote.title
    BY <1>1 DEF Writings
  <1>3. \A f \in Fields : wrote[f] \in Nat
    BY <1>2 DEF Fields
  <1>4. edits < Absent
    BY AbsentIs DEF EditorShape
  <1>5. wrote[wrote.last] < Absent
    BY <1>1, <1>2, <1>3, <1>4, AbsentIs DEF EditorShape
  <1>6. QED
    BY <1>2, <1>3, <1>5

\* Whatever is written, the field sent last is kept or is to be sent again.
LEMMA WriteKeeps ==
  ASSUME EditorHolds, NEW field \in Fields, Write(field),
         uploads' \in Nat, uploads' <= edits', edits' + uploads' <= 2 * MaxEdits,
         UNCHANGED <<pushes, attached, editor, delayed, posts, notices>>
  PROVE  EditorHolds'
  <1>0. EditorShape /\ OnePost /\ LastEditIsKept
    BY DEF EditorHolds
  <1>1. /\ wrote \in Writings /\ edits \in Nat /\ edits' = edits + 1
        /\ wrote' = [wrote EXCEPT ![field] = edits'] /\ unsent' = unsent \cup {field}
    BY <1>0 DEF Write, EditorShape
  <1>2. edits' \in Nat
    BY <1>1
  <1>3. /\ wrote' \in Writings /\ wrote'.last = wrote.last
        /\ \A g \in Fields : wrote'[g] = IF g = field THEN edits' ELSE wrote[g]
    <2>1. IsWritten(wrote', wrote, field, edits')
      BY <1>1 DEF IsWritten
    <2>2. wrote \in Writings /\ edits' \in Nat /\ field \in Fields
      BY <1>1, <1>2
    <2>3. RewrittenTo(wrote', wrote, field, edits')
      BY <2>1, <2>2, WrittenField, Zenon
    <2>4. QED
      BY <2>3 DEF RewrittenTo
  <1>4. \A g \in Fields : wrote'[g] <= edits'
    <2>1. \A g \in Fields : wrote[g] <= edits /\ wrote[g] \in Nat
      BY <1>0, LastIsField DEF EditorShape
    <2>2. QED
      BY <1>1, <1>2, <1>3, <2>1
  <1>5. EditorShape'
    <2>1. unsent' \subseteq Fields
      BY <1>0, <1>1 DEF EditorShape
    <2>2. QED
      BY <1>0, <1>2, <1>3, <1>4, <2>1, Zenon DEF EditorShape
  <1>6. OnePost'
    BY <1>0 DEF OnePost
  <1>7. ASSUME wrote'.last \notin unsent'
        PROVE  /\ wrote.last \notin unsent /\ wrote.last # field /\ wrote'[wrote'.last] = wrote[wrote.last]
               /\ NothingSent => NothingSent'
    <2>1. wrote.last \notin unsent /\ wrote.last # field
      BY <1>1, <1>3, <1>7
    <2>2. wrote'[wrote'.last] = wrote[wrote.last]
      BY <1>0, <1>3, <2>1, LastIsField
    <2>3. wrote.last = "body" => wrote'.body = wrote.body
      <3>1. wrote'["body"] = wrote'.body /\ wrote["body"] = wrote.body
        BY <1>0, <1>5, <1>3, LastIsField DEF Writings
      <3>2. QED
        BY <1>3, <2>2, <3>1
    <2>4. unsent' # {}
      BY <1>1
    <2>5. NothingSent => NothingSent'
      BY <1>3, <2>3, <2>4 DEF NothingSent
    <2>6. QED
      BY <2>1, <2>2, <2>5
  <1>8. LastEditIsKept'
    <2>1. ASSUME wrote'.last \notin unsent'
          PROVE  \/ LastPushed(pushes, wrote.last, wrote[wrote.last])
                 \/ /\ NoFieldPushed(pushes)
                    /\ \/ NothingSent'
                       \/ Held(wrote.last, wrote[wrote.last])
                       \/ SavedAs(wrote.last, wrote[wrote.last])
      BY <1>0, <1>7, <2>1 DEF LastEditIsKept
    <2>2. ASSUME wrote'.last \notin unsent'
          PROVE  wrote'.last = wrote.last /\ wrote'[wrote'.last] = wrote[wrote.last]
      BY <1>3, <1>7, <2>2
    <2>3. \A f, value : (Held(f, value) => Held(f, value)') /\ (SavedAs(f, value) => SavedAs(f, value)')
      BY DEF Held, SavedAs
    <2>4. QED
      BY <2>1, <2>2, <2>3 DEF LastEditIsKept, Held, SavedAs
  <1>9. QED
    BY <1>5, <1>6, <1>8 DEF EditorHolds

\* What the edits' bound leaves for the uploads.
LEMMA WritingKeeps ==
  ASSUME EditorHolds,
         \/ \E field \in Fields : TypeText(field)
         \/ AttachFile \/ UploadEnds
  PROVE  EditorHolds'
  <1>1. /\ edits \in Nat /\ uploads \in Nat /\ uploads <= edits /\ edits + uploads <= 2 * MaxEdits
        /\ MaxEdits \in Nat
    BY AbsentIs DEF EditorHolds, EditorShape
  <1>2. "body" \in Fields
    BY DEF Fields
  <1>3. ASSUME NEW field \in Fields, TypeText(field)
        PROVE  EditorHolds'
    <2>1. /\ Write(field) /\ edits < MaxEdits /\ uploads' = uploads
          /\ UNCHANGED <<pushes, attached, editor, delayed, posts, notices>>
      BY <1>3 DEF TypeText, PageFrame
    <2>2. edits' = edits + 1
      BY <2>1 DEF Write
    <2>3. uploads' \in Nat /\ uploads' <= edits' /\ edits' + uploads' <= 2 * MaxEdits
      BY <1>1, <2>1, <2>2
    <2>4. QED
      BY <2>1, <2>3, WriteKeeps
  <1>4. ASSUME AttachFile
        PROVE  EditorHolds'
    <2>1. /\ Write("body") /\ edits < MaxEdits /\ uploads' = uploads + 1
          /\ UNCHANGED <<pushes, attached, editor, delayed, posts, notices>>
      BY <1>4 DEF AttachFile, PageFrame
    <2>2. edits' = edits + 1
      BY <2>1 DEF Write
    <2>3. uploads' \in Nat /\ uploads' <= edits' /\ edits' + uploads' <= 2 * MaxEdits
      BY <1>1, <2>1, <2>2
    <2>4. QED
      BY <1>2, <2>1, <2>3, WriteKeeps
  <1>5. ASSUME UploadEnds
        PROVE  EditorHolds'
    <2>1. /\ Write("body") /\ uploads > 0 /\ uploads' = uploads - 1
          /\ UNCHANGED <<pushes, attached, editor, delayed, posts, notices>>
      BY <1>5 DEF UploadEnds, PageFrame
    <2>2. edits' = edits + 1
      BY <2>1 DEF Write
    <2>3. uploads' \in Nat /\ uploads' <= edits' /\ edits' + uploads' <= 2 * MaxEdits
      BY <1>1, <2>1, <2>2
    <2>4. QED
      BY <1>2, <2>1, <2>3, WriteKeeps
  <1>6. QED
    BY <1>3, <1>4, <1>5

LEMMA SentField ==
  ASSUME NEW w \in Writings, NEW f \in Fields, NEW new, new = [w EXCEPT !.last = f]
  PROVE  /\ new \in Writings /\ new.last = f
         /\ \A g \in Fields : new[g] = w[g]
  <1>1. new \in Writings
    BY DEF Writings
  <1>2. new.last = f /\ new["title"] = w["title"] /\ new["body"] = w["body"]
    BY DEF Writings
  <1>3. QED
    BY <1>1, <1>2 DEF Fields

LEMMA PushIs ==
  ASSUME NEW event \in {"title", "body", "settings"}, NEW value \in Nat
  PROVE  /\ [event |-> event, text |-> value] \in Pushed
         /\ [event |-> event, text |-> value].event = event
         /\ [event |-> event, text |-> value].text = value
  BY DEF Pushed

\* A field that is sent is the last one under way.
LEMMA SendKeeps ==
  ASSUME EditorHolds, NEW field \in Fields, Push(field), mishap' = FALSE
  PROVE  EditorHolds'
  <1>0. EditorShape /\ OnePost /\ LastEditIsKept
    BY DEF EditorHolds
  <1> DEFINE push == [event |-> field, text |-> wrote[field]]
  <1>1. attached
    BY Zenon DEF Push
  <1>2. pushes' = Append(pushes, push)
    BY <1>1, Zenon DEF Push
  <1>3. /\ wrote' = [wrote EXCEPT !.last = field] /\ unsent' = unsent \ {field}
        /\ UNCHANGED <<uploads, attached, editor, delayed, posts, notices, edits>>
    BY DEF Push
  <1>4. field \in {"title", "body", "settings"} /\ wrote[field] \in Nat /\ wrote \in Writings
    BY <1>0, LastIsField DEF Fields, EditorShape
  <1>5. push \in Pushed /\ push.event = field /\ push.text = wrote[field]
    BY <1>4, PushIs
  <1> HIDE DEF push
  <1>6. pushes' \in Seq(Pushed) /\ LastPushed(pushes', field, wrote[field])
    BY <1>0, <1>2, <1>5, PushedMore DEF EditorShape
  <1>7. wrote' \in Writings /\ wrote'.last = field /\ \A g \in Fields : wrote'[g] = wrote[g]
    BY <1>3, <1>4, SentField
  <1>8. EditorShape'
    <2>1. unsent' \subseteq Fields
      BY <1>0, <1>3 DEF EditorShape
    <2>2. \A g \in Fields : wrote'[g] <= edits'
      BY <1>0, <1>3, <1>7 DEF EditorShape
    <2>3. attached' \in BOOLEAN /\ attached' # FALSE
      BY <1>0, <1>1, <1>3, Zenon DEF EditorShape
    <2>4. QED
      BY <1>0, <1>3, <1>6, <1>7, <2>1, <2>2, <2>3, Zenon DEF EditorShape
  <1>9. OnePost'
    BY <1>0, <1>3 DEF OnePost
  <1>10. LastEditIsKept'
    <2>1. LastPushed(pushes', wrote'.last, wrote'[wrote'.last])
      BY <1>6, <1>7
    <2>2. QED
      BY <2>1 DEF LastEditIsKept, LastPushed
  <1>11. QED
    BY <1>8, <1>9, <1>10 DEF EditorHolds

LEMMA SettingsPressed ==
  ASSUME EditorHolds, PressSettings
  PROVE  EditorHolds'
  <1>0. EditorShape /\ OnePost /\ LastEditIsKept
    BY DEF EditorHolds
  <1> DEFINE push == [event |-> "settings", text |-> 0]
  <1>1. pushes' = Append(pushes, push) /\ attached
    BY Zenon DEF PressSettings
  <1>2. UNCHANGED <<wrote, unsent, uploads, edits, attached, editor, delayed, posts, notices>>
    BY DEF PressSettings, PageFrame
  <1>3. push \in Pushed /\ push.event = "settings"
    BY PushIs
  <1> HIDE DEF push
  <1>4. push.event \notin Fields
    BY <1>3 DEF Fields
  <1>5. /\ pushes' \in Seq(Pushed)
        /\ NoFieldPushed(pushes) => NoFieldPushed(pushes')
        /\ \A f, value : LastPushed(pushes, f, value) => LastPushed(pushes', f, value)
    BY <1>0, <1>1, <1>3, <1>4, PushedMore DEF EditorShape
  <1>6. EditorShape'
    <2>1. attached' \in BOOLEAN /\ attached' # FALSE
      BY <1>0, <1>1, <1>2, Zenon DEF EditorShape
    <2>2. QED
      BY <1>0, <1>2, <1>5, <2>1, Zenon DEF EditorShape
  <1>7. OnePost'
    BY <1>0, <1>2 DEF OnePost
  <1>8. LastEditIsKept'
    BY <1>0, <1>2, <1>5 DEF LastEditIsKept, NothingSent, Held, SavedAs
  <1>9. QED
    BY <1>6, <1>7, <1>8 DEF EditorHolds

-----------------------------------------------------------------------------
(* The LiveView's steps.                                                   *)

LEMMA AssignedTo ==
  ASSUME NEW e \in [post: Nat, copy: Written, values: Written],
         NEW values \in Written, NEW new, new = [e EXCEPT !.values = values]
  PROVE  /\ new \in [post: Nat, copy: Written, values: Written]
         /\ new.post = e.post /\ new.copy = e.copy /\ new.values = values
  <1>1. new \in [post: Nat, copy: Written, values: Written]
    OBVIOUS
  <1>2. QED
    BY <1>1

LEMMA MovedTo ==
  ASSUME NEW e \in [post: Nat, copy: Written, values: Written],
         NEW post \in Nat, NEW copy \in Written,
         NEW new, new = [e EXCEPT !.post = post, !.copy = copy]
  PROVE  /\ new \in [post: Nat, copy: Written, values: Written]
         /\ new.post = post /\ new.copy = copy /\ new.values = e.values
  <1>1. new \in [post: Nat, copy: Written, values: Written]
    OBVIOUS
  <1>2. QED
    BY <1>1

LEMMA ClosureIs ==
  ASSUME NEW key \in Nat, NEW values \in Written
  PROVE  /\ [key |-> key, values |-> values] \in Closures
         /\ [key |-> key, values |-> values].key = key
         /\ [key |-> key, values |-> values].values = values
  BY DEF Closures

\* An event puts its closure in the place of the one that waited, and that one has the
\* field sent last if no event does.
LEMMA UpdateKeeps ==
  ASSUME EditorHolds, HandleUpdate, twice' = FALSE
  PROVE  EditorHolds'
  <1>0. EditorShape /\ OnePost /\ LastEditIsKept
    BY DEF EditorHolds
  <1> DEFINE push == Head(pushes)
             values == IF push.event = "title" THEN Text(push.text, Absent)
                       ELSE Text(editor.copy.title, push.text)
             closure == [key |-> editor.post, values |-> values]
  <1>1. /\ editor' = [editor EXCEPT !.values = values]
        /\ delayed' = {c \in delayed : c.key # closure.key} \cup {closure}
        /\ twice' = (twice \/ (editor.post = Unsaved /\ notices # <<>>))
    BY Zenon DEF HandleUpdate, Delay
  <1>2. /\ attached /\ pushes # <<>> /\ push.event \in Fields /\ pushes' = Tail(pushes)
        /\ UNCHANGED <<wrote, unsent, uploads, attached, posts, notices, edits>>
    BY Zenon DEF HandleUpdate
  <1>3. editor.post = Unsaved => notices = <<>>
    BY <1>1, Zenon
  <1>4. /\ pushes \in Seq(Pushed) /\ delayed \subseteq Closures /\ Absent \in Nat
        /\ editor \in [post: Nat, copy: Written, values: Written]
    BY <1>0, AbsentIs DEF EditorShape
  <1>5. push \in Pushed
    BY <1>2, <1>4, PushedTail
  <1>6. push.text \in Nat /\ editor.copy.title \in Nat /\ editor.post \in Nat
    BY <1>4, <1>5 DEF Pushed, Written
  <1>7. values \in Written /\ values[push.event] = push.text
    <2>1. CASE push.event = "title"
      BY <1>4, <1>6, <2>1, TextIs
    <2>2. CASE push.event # "title"
      <3>1. push.event = "body"
        BY <1>2, <2>2 DEF Fields
      <3>2. QED
        BY <1>6, <2>2, <3>1, TextIs
    <2>3. QED
      BY <2>1, <2>2
  <1> HIDE DEF push, values
  <1>8. closure \in Closures /\ closure.key = editor.post /\ closure.values = values
    BY <1>6, <1>7, ClosureIs
  <1> HIDE DEF closure
  <1>9. delayed' = {closure}
    BY <1>0, <1>1, <1>8 DEF OnePost
  <1>10. /\ editor' \in [post: Nat, copy: Written, values: Written]
         /\ editor'.post = editor.post
    BY <1>1, <1>4, <1>7, AssignedTo
  <1>11. EditorShape'
    <2>1. pushes' \in Seq(Pushed)
      BY <1>2, <1>4, PushedTail
    <2>2. delayed' \subseteq Closures
      BY <1>8, <1>9
    <2>3. attached' \in BOOLEAN /\ attached' # FALSE
      BY <1>0, <1>2, Zenon DEF EditorShape
    <2>4. QED
      BY <1>0, <1>2, <1>10, <2>1, <2>2, <2>3, Zenon DEF EditorShape
  <1>12. OnePost'
    <2>1. \A c, d \in delayed' : c.key = d.key => c = d
      BY <1>9
    <2>2. \A c \in delayed' : c.key = editor'.post
      BY <1>8, <1>9, <1>10
    <2>3. ASSUME NEW i \in DOMAIN notices'
          PROVE  editor'.post # Unsaved /\ notices'[i].event = "saved"
      <3>1. i \in DOMAIN notices /\ notices' = notices
        BY <1>2
      <3>2. editor.post # Unsaved
        BY <1>3, <3>1
      <3>3. QED
        BY <1>0, <1>10, <3>1, <3>2 DEF OnePost
    <2>4. QED
      BY <2>1, <2>2, <2>3 DEF OnePost
  <1>13. LastEditIsKept'
    <2>1. ASSUME wrote.last \notin unsent
          PROVE  \/ LastPushed(pushes', wrote.last, wrote[wrote.last])
                 \/ NoFieldPushed(pushes') /\ \E c \in delayed' : c.values[wrote.last] = wrote[wrote.last]
      <3>1. LastPushed(pushes, wrote.last, wrote[wrote.last])
        <4>1. ~NoFieldPushed(pushes)
          BY <1>2, <1>4, PushedTail DEF push
        <4>2. QED
          BY <1>0, <2>1, <4>1 DEF LastEditIsKept
      <3>2. \/ LastPushed(Tail(pushes), wrote.last, wrote[wrote.last])
            \/ /\ NoFieldPushed(Tail(pushes))
               /\ push.event = wrote.last /\ push.text = wrote[wrote.last]
        BY <1>2, <1>4, <3>1, PushedTail DEF push
      <3>3. QED
        BY <1>2, <1>7, <1>8, <1>9, <3>2
    <2>2. QED
      BY <1>2, <2>1 DEF LastEditIsKept, LastPushed, NoFieldPushed, Held
  <1>14. QED
    BY <1>11, <1>12, <1>13 DEF EditorHolds

LEMMA CreatedIs ==
  ASSUME NEW values \in Written
  PROVE  /\ Created(values) \in Written /\ Created(values)["title"] = values["title"]
         /\ values["body"] # Absent => Created(values)["body"] = values["body"]
         /\ values["body"] = Absent => Created(values)["body"] = 0
  <1> DEFINE body == IF values.body = Absent THEN 0 ELSE values.body
  <1>1. values.title \in Nat /\ values.body \in Nat
        /\ values["title"] = values.title /\ values["body"] = values.body
    BY DEF Written
  <1>2. body \in Nat /\ Created(values) = Text(values.title, body)
    BY <1>1 DEF Created
  <1>3. values["body"] # Absent => body = values["body"]
    BY <1>1
  <1>4. values["body"] = Absent => body = 0
    BY <1>1
  <1> HIDE DEF body
  <1>5. /\ Text(values.title, body) \in Written
        /\ Text(values.title, body)["title"] = values.title
        /\ Text(values.title, body)["body"] = body
    BY <1>1, <1>2, TextIs
  <1>6. QED
    BY <1>1, <1>2, <1>3, <1>4, <1>5

\* Nothing waits when a post is made from the settings, so what was sent last is the empty
\* text or is still under way.
LEMMA SettingsKeep ==
  ASSUME EditorHolds, HandleSettings, twice' = FALSE
  PROVE  EditorHolds'
  <1>0. EditorShape /\ OnePost /\ LastEditIsKept
    BY DEF EditorHolds
  <1>1. /\ attached /\ pushes # <<>> /\ Head(pushes).event = "settings" /\ pushes' = Tail(pushes)
        /\ UNCHANGED <<wrote, unsent, uploads, attached, delayed, notices, edits>>
    BY Zenon DEF HandleSettings
  <1>2. /\ pushes' \in Seq(Pushed)
        /\ NoFieldPushed(pushes) => NoFieldPushed(pushes')
        /\ \A f \in Fields : \A value : LastPushed(pushes, f, value) => LastPushed(pushes', f, value)
    <2>1. pushes \in Seq(Pushed)
      BY <1>0 DEF EditorShape
    <2>2. Head(pushes).event \notin Fields
      BY <1>1 DEF Fields
    <2>3. QED
      BY <1>1, <2>1, <2>2, PushedTail
  <1>3. wrote.last \in Fields /\ attached' \in BOOLEAN /\ attached' # FALSE
    <2>1. wrote.last \in Fields
      BY <1>0, LastIsField
    <2>2. QED
      BY <1>0, <1>1, <2>1, Zenon DEF EditorShape
  <1>4. CASE editor.post # Unsaved
    <2>1. UNCHANGED <<posts, editor>>
      BY <1>4, Zenon DEF HandleSettings
    <2>2. EditorShape'
      BY <1>0, <1>1, <1>2, <1>3, <2>1, Zenon DEF EditorShape
    <2>3. OnePost'
      BY <1>0, <1>1, <2>1 DEF OnePost
    <2>4. LastEditIsKept'
      BY <1>0, <1>1, <1>2, <1>3, <2>1 DEF LastEditIsKept, NothingSent, Held, SavedAs
    <2>5. QED
      BY <2>2, <2>3, <2>4 DEF EditorHolds
  <1>5. CASE editor.post = Unsaved
    <2> DEFINE made == Created(editor.values)
    <2>1. /\ posts' = Append(posts, made)
          /\ editor' = [editor EXCEPT !.post = Len(posts'), !.copy = posts'[Len(posts')]]
          /\ twice' = (twice \/ delayed # {} \/ notices # <<>>)
      BY <1>5, Zenon DEF HandleSettings
    <2>2. delayed = {} /\ notices = <<>>
      BY <2>1, Zenon
    <2>3. /\ editor \in [post: Nat, copy: Written, values: Written] /\ posts \in Seq(Written)
          /\ editor.values \in Written
      BY <1>0 DEF EditorShape
    <2>4. made \in Written
      BY <2>3, CreatedIs
    <2> HIDE DEF made
    <2>5. /\ posts' \in Seq(Written) /\ Len(posts') \in Nat /\ Len(posts') > 0
          /\ posts'[Len(posts')] = made
      BY <2>1, <2>3, <2>4
    <2>6. /\ editor' \in [post: Nat, copy: Written, values: Written]
          /\ editor'.post = Len(posts')
      <3> DEFINE post == Len(posts')
                 copy == posts'[Len(posts')]
      <3>1. post \in Nat /\ copy \in Written /\ editor' = [editor EXCEPT !.post = post, !.copy = copy]
        BY <2>1, <2>4, <2>5
      <3> HIDE DEF post, copy
      <3>2. /\ editor' \in [post: Nat, copy: Written, values: Written]
            /\ editor'.post = post
        BY <2>3, <3>1, MovedTo
      <3>3. QED
        BY <3>2 DEF post
    <2>7. EditorShape'
      <3>1. editor'.post <= Len(posts')
        BY <2>5, <2>6
      <3>2. QED
        BY <1>0, <1>1, <1>2, <1>3, <2>5, <2>6, <3>1, Zenon DEF EditorShape
    <2>8. OnePost'
      BY <1>1, <2>2 DEF OnePost
    <2>9. ASSUME wrote.last \notin unsent
          PROVE  \/ LastPushed(pushes', wrote.last, wrote[wrote.last])
                 \/ NoFieldPushed(pushes') /\ posts'[editor'.post][wrote.last] = wrote[wrote.last]
      <3>1. ~Held(wrote.last, wrote[wrote.last]) /\ ~SavedAs(wrote.last, wrote[wrote.last])
        BY <1>5, <2>2 DEF Held, SavedAs
      <3>2. \/ LastPushed(pushes, wrote.last, wrote[wrote.last])
            \/ NoFieldPushed(pushes) /\ NothingSent
        BY <1>0, <2>9, <3>1 DEF LastEditIsKept
      <3>3. CASE NothingSent
        <4>1. wrote.last = "body" /\ wrote["body"] = 0 /\ editor.values = Text(0, Absent)
          BY <1>0, <3>3, LastIsField DEF NothingSent
        <4>2. editor.values["body"] = Absent
          BY <4>1, TextIs, AbsentIs
        <4>3. made["body"] = 0
          BY <2>3, <4>2, CreatedIs DEF made
        <4>4. QED
          BY <1>2, <1>3, <2>5, <2>6, <3>2, <4>1, <4>3
      <3>4. QED
        BY <1>2, <1>3, <3>2, <3>3
    <2>10. delayed' = {} /\ editor'.post # Unsaved
      BY <1>1, <2>2, <2>5, <2>6 DEF Unsaved
    <2>11. LastEditIsKept'
      BY <1>1, <2>9, <2>10 DEF LastEditIsKept, LastPushed, NoFieldPushed, SavedAs
    <2>12. QED
      BY <2>7, <2>8, <2>11 DEF EditorHolds
  <1>6. QED
    BY <1>4, <1>5

LEMMA NoticeIs ==
  ASSUME NEW event \in {"created", "saved", "failed"}, NEW post \in Nat
  PROVE  /\ [event |-> event, post |-> post] \in Noticed
         /\ [event |-> event, post |-> post].event = event
         /\ [event |-> event, post |-> post].post = post
  BY DEF Noticed

\* What is saved has the text that waited.
LEMMA SaveKeeps ==
  ASSUME EditorHolds, NEW c \in delayed, SaveRuns(c), mishap' = FALSE
  PROVE  EditorHolds'
  <1>0. EditorShape /\ OnePost /\ LastEditIsKept
    BY DEF EditorHolds
  <1> DEFINE f == wrote.last
             value == wrote[wrote.last]
  <1>1. /\ c \in Closures /\ c.key = editor.post /\ c.values \in Written
        /\ editor \in [post: Nat, copy: Written, values: Written] /\ editor.post \in Nat
        /\ posts \in Seq(Written) /\ notices \in Seq(Noticed) /\ editor.post <= Len(posts)
    BY <1>0 DEF EditorShape, OnePost, Closures
  <1>2. delayed' = {}
    <2>1. delayed' = delayed \ {c}
      BY DEF SaveRuns
    <2>2. QED
      BY <1>0, <2>1 DEF OnePost
  <1>3. UNCHANGED <<wrote, unsent, uploads, pushes, attached, editor, edits>>
    BY DEF SaveRuns
  <1>4. attached
    BY Zenon DEF SaveRuns
  <1>5. f \in Fields /\ value \in Nat /\ value < Absent
    BY <1>0, LastIsField
  <1>6. f \notin unsent =>
           \/ LastPushed(pushes, f, value)
           \/ NoFieldPushed(pushes) /\ c.values[f] = value
    <2>1. delayed # {} /\ \A d \in delayed : d = c
      BY <1>0 DEF OnePost
    <2>2. ~NothingSent /\ ~SavedAs(f, value)
      BY <2>1 DEF NothingSent, SavedAs
    <2>3. Held(f, value) => c.values[f] = value
      BY <2>1 DEF Held
    <2>4. QED
      BY <1>0, <2>2, <2>3 DEF LastEditIsKept
  <1> HIDE DEF f, value
  <1>7. attached' \in BOOLEAN /\ attached' # FALSE
    BY <1>0, <1>3, <1>4, Zenon DEF EditorShape
  <1>8. ASSUME posts' \in Seq(Written), notices' \in Seq(Noticed), editor.post <= Len(posts')
        PROVE  EditorShape'
    <2>1. delayed' \subseteq Closures
      BY <1>2
    <2>2. QED
      BY <1>0, <1>3, <1>7, <1>8, <2>1, Zenon DEF EditorShape
  <1>9. CASE c.key = Unsaved
    <2> DEFINE made == Created(c.values)
               broadcast == [event |-> "created", post |-> Len(posts')]
    <2>1. posts' = Append(posts, made)
      BY <1>9, Zenon DEF SaveRuns
    <2>2. notices' = Append(notices, broadcast)
      BY <1>4, <1>9, Zenon DEF SaveRuns, Notify
    <2>3. made \in Written /\ (f \notin unsent /\ c.values[f] = value => made[f] = value)
      BY <1>1, <1>5, CreatedIs DEF Fields
    <2> HIDE DEF made
    <2>4. /\ posts' \in Seq(Written) /\ Len(posts') = Len(posts) + 1 /\ Len(posts') \in Nat
          /\ posts'[Len(posts')] = made /\ Len(posts') \in DOMAIN posts'
      BY <1>1, <2>1, <2>3
    <2>5. broadcast \in Noticed /\ broadcast.event = "created" /\ broadcast.post = Len(posts')
      BY <2>4, NoticeIs
    <2> HIDE DEF broadcast
    <2>6. notices = <<>>
      <3>1. DOMAIN notices = {}
        BY <1>0, <1>1, <1>9 DEF OnePost
      <3>2. QED
        BY <1>1, <3>1
    <2>7. notices' \in Seq(Noticed) /\ Len(notices') = 1 /\ notices'[1] = broadcast
      BY <2>2, <2>5, <2>6
    <2>8. EditorShape'
      BY <1>1, <1>8, <2>4, <2>7
    <2>9. OnePost'
      <3>1. \A i \in DOMAIN notices' : /\ notices'[i].event = "created"
                                       /\ notices'[i].post \in DOMAIN posts'
        BY <2>4, <2>5, <2>7
      <3>2. QED
        BY <1>1, <1>2, <1>3, <1>9, <2>7, <3>1 DEF OnePost
    <2>10. f \notin unsent =>
              \/ LastPushed(pushes, f, value)
              \/ /\ NoFieldPushed(pushes)
                 /\ notices' # <<>> /\ posts'[notices'[1].post][f] = value
      <3>1. notices' # <<>>
        BY <2>7
      <3>2. posts'[notices'[1].post] = made
        BY <2>4, <2>5, <2>7
      <3>3. QED
        BY <1>6, <2>3, <3>1, <3>2, Zenon
    <2>11. LastEditIsKept'
      BY <1>1, <1>2, <1>3, <1>9, <2>10
      DEF LastEditIsKept, LastPushed, NoFieldPushed, SavedAs, f, value
    <2>12. QED
      BY <2>8, <2>9, <2>11 DEF EditorHolds
  <1>10. CASE c.key # Unsaved
    <2> DEFINE body == IF c.values.body = Absent THEN posts[c.key].body ELSE c.values.body
               made == Text(c.values.title, body)
               broadcast == [event |-> "saved", post |-> c.key]
    <2>1. posts' = [posts EXCEPT ![c.key] = made]
      BY <1>10, Zenon DEF SaveRuns
    <2>2. notices' = Append(notices, broadcast)
      BY <1>4, <1>10, Zenon DEF SaveRuns, Notify
    <2>3. c.key \in DOMAIN posts
      BY <1>1, <1>10 DEF Unsaved
    <2>4. /\ c.values.title \in Nat /\ c.values.body \in Nat /\ posts[c.key].body \in Nat
          /\ c.values["title"] = c.values.title /\ c.values["body"] = c.values.body
      <3>1. posts[c.key] \in Written
        BY <1>1, <2>3
      <3>2. QED
        BY <1>1, <3>1 DEF Written
    <2>5. body \in Nat /\ (c.values["body"] # Absent => body = c.values["body"])
      BY <2>4
    <2> HIDE DEF body
    <2>6. /\ made \in Written /\ made["title"] = c.values["title"] /\ made["body"] = body
      BY <2>4, <2>5, TextIs
    <2> HIDE DEF made
    <2>7. c.values[f] = value => made[f] = value
      BY <1>5, <2>5, <2>6 DEF Fields
    <2>8. posts' \in Seq(Written) /\ Len(posts') = Len(posts) /\ posts'[c.key] = made
      BY <1>1, <2>1, <2>3, <2>6
    <2>9. broadcast \in Noticed /\ broadcast.event = "saved"
      BY <1>1, NoticeIs
    <2> HIDE DEF broadcast
    <2>10. EditorShape'
      <3>1. notices' \in Seq(Noticed)
        BY <1>1, <2>2, <2>9
      <3>2. QED
        BY <1>1, <1>8, <2>8, <3>1
    <2>11. OnePost'
      <3>1. \A i \in DOMAIN notices : notices[i].event = "saved"
        BY <1>0, <1>1, <1>10 DEF OnePost
      <3>2. \A i \in DOMAIN notices' : notices'[i].event = "saved"
        BY <1>1, <2>2, <2>9, <3>1
      <3>3. QED
        BY <1>1, <1>2, <1>3, <1>10, <3>2 DEF OnePost
    <2>12. f \notin unsent =>
              \/ LastPushed(pushes, f, value)
              \/ NoFieldPushed(pushes) /\ posts'[editor.post][f] = value
      BY <1>1, <1>6, <2>7, <2>8
    <2>13. LastEditIsKept'
      BY <1>1, <1>2, <1>3, <1>10, <2>12
      DEF LastEditIsKept, LastPushed, NoFieldPushed, SavedAs, f, value
    <2>14. QED
      BY <2>10, <2>11, <2>13 DEF EditorHolds
  <1>11. QED
    BY <1>9, <1>10

\* The page goes on with the post that has the text.
LEMMA NoticeKeeps ==
  ASSUME EditorHolds, HandleNotice
  PROVE  EditorHolds'
  <1>0. EditorShape /\ OnePost /\ LastEditIsKept
    BY DEF EditorHolds
  <1> DEFINE n == Head(notices)
             post == IF n.event = "created" THEN n.post ELSE editor.post
             copy == posts[post]
  <1>1. attached /\ notices # <<>> /\ notices' = Tail(notices)
    BY Zenon DEF HandleNotice
  <1>2. editor' = IF n.event = "failed" THEN editor ELSE [editor EXCEPT !.post = post, !.copy = copy]
    BY Zenon DEF HandleNotice
  <1>3. UNCHANGED <<wrote, unsent, uploads, pushes, attached, delayed, posts, edits>>
    BY DEF HandleNotice
  <1>4. /\ notices \in Seq(Noticed) /\ posts \in Seq(Written) /\ editor.post \in Nat
        /\ editor \in [post: Nat, copy: Written, values: Written] /\ editor.post <= Len(posts)
    BY <1>0 DEF EditorShape
  <1>5. 1 \in DOMAIN notices /\ n = notices[1] /\ n \in Noticed
    BY <1>1, <1>4
  <1> HIDE DEF n
  <1>6. IF editor.post = Unsaved
        THEN delayed = {} /\ Len(notices) = 1 /\ n.event = "created" /\ n.post \in DOMAIN posts
        ELSE n.event = "saved"
    BY <1>0, <1>5 DEF OnePost
  <1>7. /\ n.event # "failed" /\ post \in Nat /\ post \in DOMAIN posts
        /\ (editor.post = Unsaved => post = n.post) /\ (editor.post # Unsaved => post = editor.post)
    BY <1>4, <1>6 DEF Unsaved
  <1> HIDE DEF post
  <1>8. copy \in Written
    BY <1>4, <1>7
  <1> HIDE DEF copy
  <1>9. editor' \in [post: Nat, copy: Written, values: Written] /\ editor'.post = post
    BY <1>2, <1>4, <1>7, <1>8, MovedTo
  <1>10. post > 0 /\ post <= Len(posts)
    BY <1>4, <1>7
  <1>11. EditorShape'
    <2>1. notices' \in Seq(Noticed)
      BY <1>1, <1>4
    <2>2. attached' \in BOOLEAN /\ attached' # FALSE
      BY <1>0, <1>1, <1>3, Zenon DEF EditorShape
    <2>3. editor'.post <= Len(posts')
      BY <1>3, <1>9, <1>10
    <2>4. QED
      BY <1>0, <1>3, <1>9, <2>1, <2>2, <2>3, Zenon DEF EditorShape
  <1>12. editor'.post # Unsaved
    BY <1>9, <1>10 DEF Unsaved
  <1>13. OnePost'
    <2>1. \A i \in DOMAIN notices' : notices'[i].event = "saved"
      <3>1. CASE editor.post = Unsaved
        <4>1. DOMAIN notices' = {}
          BY <1>1, <1>4, <1>6, <3>1
        <4>2. QED
          BY <4>1
      <3>2. CASE editor.post # Unsaved
        <4>1. \A i \in DOMAIN notices : notices[i].event = "saved"
          BY <1>0, <3>2 DEF OnePost
        <4>2. QED
          BY <1>1, <1>4, <4>1
      <3>3. QED
        BY <3>1, <3>2
    <2>2. \A c \in delayed' : c.key = editor'.post
      BY <1>0, <1>3, <1>6, <1>7, <1>9 DEF OnePost
    <2>3. \A c, d \in delayed' : c.key = d.key => c = d
      BY <1>0, <1>3 DEF OnePost
    <2>4. QED
      BY <1>12, <2>1, <2>2, <2>3 DEF OnePost
  <1>14. LastEditIsKept'
    <2>1. ~NothingSent
      BY <1>1 DEF NothingSent
    <2>2. SavedAs(wrote.last, wrote[wrote.last]) =>
             delayed = {} /\ posts[post][wrote.last] = wrote[wrote.last]
      BY <1>5, <1>7 DEF SavedAs
    <2>3. wrote.last \notin unsent =>
             \/ LastPushed(pushes, wrote.last, wrote[wrote.last])
             \/ /\ NoFieldPushed(pushes)
                /\ \/ Held(wrote.last, wrote[wrote.last])
                   \/ delayed = {} /\ posts[post][wrote.last] = wrote[wrote.last]
      BY <1>0, <2>1, <2>2 DEF LastEditIsKept
    <2>4. QED
      BY <1>3, <1>9, <1>12, <2>3 DEF LastEditIsKept, LastPushed, NoFieldPushed, Held, SavedAs
  <1>15. QED
    BY <1>11, <1>13, <1>14 DEF EditorHolds

\* Only a mailbox that is empty is lost without a mishap.
LEMMA LossKeeps ==
  ASSUME EditorHolds, LoseEditor, mishap' = FALSE
  PROVE  EditorHolds'
  <1>0. EditorShape /\ OnePost /\ LastEditIsKept
    BY DEF EditorHolds
  <1>1. /\ mishap' = (mishap \/ pushes # <<>> \/ notices # <<>>)
        /\ attached' = FALSE /\ pushes' = <<>> /\ notices' = <<>>
    BY Zenon DEF LoseEditor
  <1>2. pushes' = pushes /\ notices' = notices /\ attached' \in BOOLEAN
    BY <1>1, Zenon
  <1>3. UNCHANGED <<wrote, unsent, uploads, editor, delayed, posts, edits>>
    BY DEF LoseEditor
  <1>4. EditorShape'
    BY <1>0, <1>1, <1>2, <1>3, Zenon DEF EditorShape
  <1>5. OnePost'
    BY <1>0, <1>2, <1>3 DEF OnePost
  <1>6. LastEditIsKept'
    BY <1>0, <1>2, <1>3 DEF LastEditIsKept, LastPushed, NoFieldPushed, NothingSent, Held, SavedAs
  <1>7. QED
    BY <1>4, <1>5, <1>6 DEF EditorHolds

\* The form sends its title again.
LEMMA RecoveryKeeps ==
  ASSUME EditorHolds, RejoinEditor
  PROVE  EditorHolds'
  <1>0. EditorShape /\ OnePost /\ LastEditIsKept
    BY DEF EditorHolds
  <1> DEFINE push == [event |-> "title", text |-> wrote.title]
  <1>1. attached = FALSE /\ attached' = TRUE
    BY <1>0, Zenon DEF RejoinEditor, EditorShape
  <1>2. /\ editor' = IF editor.post = Unsaved
                     THEN [editor EXCEPT !.values = Text(0, Absent)]
                     ELSE [editor EXCEPT !.copy = posts[editor.post]]
        /\ pushes' = <<push>>
        /\ unsent' = unsent \ {"title"} /\ wrote' = [wrote EXCEPT !.last = "title"]
        /\ UNCHANGED <<uploads, delayed, posts, notices, edits>>
    BY Zenon DEF RejoinEditor
  <1>3. pushes = <<>> /\ notices = <<>>
    BY <1>0, <1>1, Zenon DEF EditorShape
  <1>4. /\ wrote \in Writings /\ wrote.title \in Nat /\ wrote["title"] = wrote.title
        /\ "title" \in Fields
    BY <1>0, LastIsField DEF EditorShape, Fields
  <1>5. push \in Pushed /\ push.event = "title" /\ push.text = wrote["title"]
    BY <1>4, PushIs
  <1> HIDE DEF push
  <1>6. pushes' \in Seq(Pushed) /\ Len(pushes') = 1 /\ pushes'[1] = push
    BY <1>2, <1>5
  <1>7. wrote' \in Writings /\ wrote'.last = "title" /\ \A g \in Fields : wrote'[g] = wrote[g]
    BY <1>2, <1>4, SentField
  <1>8. editor' \in [post: Nat, copy: Written, values: Written] /\ editor'.post = editor.post
    <2>1. /\ editor \in [post: Nat, copy: Written, values: Written] /\ posts \in Seq(Written)
          /\ editor.post \in Nat /\ editor.post <= Len(posts)
      BY <1>0 DEF EditorShape
    <2>2. CASE editor.post = Unsaved
      <3> DEFINE values == Text(0, Absent)
      <3>1. values \in Written
        BY TextIs, AbsentIs
      <3>2. editor' = [editor EXCEPT !.values = values]
        BY <1>2, <2>2
      <3> HIDE DEF values
      <3>3. QED
        BY <2>1, <3>1, <3>2, AssignedTo
    <2>3. CASE editor.post # Unsaved
      <3> DEFINE copy == posts[editor.post]
      <3>1. editor.post \in 1..Len(posts)
        BY <2>1, <2>3 DEF Unsaved
      <3>2. copy \in Written
        BY <2>1, <3>1
      <3>3. editor' = [editor EXCEPT !.copy = copy]
        BY <1>2, <2>3
      <3> HIDE DEF copy
      <3>4. QED
        BY <2>1, <3>2, <3>3
    <2>4. QED
      BY <2>2, <2>3
  <1>9. EditorShape'
    <2>1. unsent' \subseteq Fields
      BY <1>0, <1>2 DEF EditorShape
    <2>2. \A g \in Fields : wrote'[g] <= edits'
      BY <1>0, <1>2, <1>7 DEF EditorShape
    <2>3. attached' \in BOOLEAN /\ attached' # FALSE
      BY <1>1, Zenon
    <2>4. QED
      BY <1>0, <1>2, <1>6, <1>7, <1>8, <2>1, <2>2, <2>3, Zenon DEF EditorShape
  <1>10. OnePost'
    BY <1>0, <1>2, <1>8 DEF OnePost
  <1>11. LastPushed(pushes', wrote'.last, wrote'[wrote'.last])
    <2>1. 1 \in DOMAIN pushes' /\ \A j \in DOMAIN pushes' : ~(j > 1)
      BY <1>6
    <2>2. QED
      BY <1>4, <1>5, <1>6, <1>7, <2>1 DEF LastPushed
  <1>12. LastEditIsKept'
    BY <1>11 DEF LastEditIsKept, LastPushed
  <1>13. QED
    BY <1>9, <1>10, <1>12 DEF EditorHolds

LEMMA EditorSteps == EditorInv /\ [EditorNext]_editorVars => EditorInv'
  <1> SUFFICES ASSUME EditorInv, [EditorNext]_editorVars PROVE EditorInv'
    OBVIOUS
  <1>1. /\ twice' \in BOOLEAN /\ mishap' \in BOOLEAN
        /\ twice' = FALSE => twice = FALSE
        /\ mishap' = FALSE => mishap = FALSE
    BY ExceptionsStay
  <1>2. ASSUME twice' = FALSE, mishap' = FALSE
        PROVE  EditorHolds'
    <2>1. EditorHolds
      BY <1>1, <1>2, Zenon DEF EditorInv
    <2>2. CASE AttachFile \/ UploadEnds
      BY <2>1, <2>2, WritingKeeps, Zenon
    <2>3. ASSUME NEW field \in Fields, TypeText(field) PROVE EditorHolds'
      BY <2>1, <2>3, WritingKeeps, Zenon
    <2>4. ASSUME NEW field \in Fields, Push(field) PROVE EditorHolds'
      BY <1>2, <2>1, <2>4, SendKeeps, Zenon
    <2>5. CASE PressSettings
      BY <2>1, <2>5, SettingsPressed, Zenon
    <2>6. CASE HandleUpdate
      BY <1>2, <2>1, <2>6, UpdateKeeps, Zenon
    <2>7. CASE HandleSettings
      BY <1>2, <2>1, <2>7, SettingsKeep, Zenon
    <2>8. CASE HandleNotice
      BY <2>1, <2>8, NoticeKeeps, Zenon
    <2>9. CASE OtherBegins
      <3>1. mishap' = TRUE
        BY <2>9, Zenon DEF OtherBegins
      <3>2. QED
        BY <1>2, <3>1, Zenon
    <2>10. CASE LoseEditor
      BY <1>2, <2>1, <2>10, LossKeeps, Zenon
    <2>11. CASE RejoinEditor
      BY <2>1, <2>11, RecoveryKeeps, Zenon
    <2>12. ASSUME NEW c \in delayed, SaveRuns(c) PROVE EditorHolds'
      BY <1>2, <2>1, <2>12, SaveKeeps, Zenon
    <2>13. CASE UNCHANGED editorVars
      BY <2>1, <2>13 DEF editorVars, EditorHolds, EditorShape, OnePost, LastEditIsKept, LastPushed,
         NoFieldPushed, NothingSent, Held, SavedAs
    <2>14. QED
      BY <2>2, <2>3, <2>4, <2>5, <2>6, <2>7, <2>8, <2>9, <2>10, <2>11, <2>12, <2>13, Zenon
      DEF EditorNext
  <1>3. QED
    BY <1>1, <1>2, Zenon DEF EditorInv

LEMMA KeptIsSaved == EditorInv => LastEditIsSaved
  <1> SUFFICES ASSUME EditorInv, EditorSettled, edits > 0, ~twice, ~mishap
               PROVE  editor.post # Unsaved /\ posts[editor.post][wrote.last] = wrote[wrote.last]
    BY Zenon DEF LastEditIsSaved
  <1>1. EditorHolds
    <2>1. twice = FALSE /\ mishap = FALSE
      BY Zenon DEF EditorInv
    <2>2. QED
      BY <2>1, Zenon DEF EditorInv
  <1>2. unsent = {} /\ pushes = <<>> /\ delayed = {} /\ notices = <<>>
    BY Zenon DEF EditorSettled
  <1>3. ~LastPushed(pushes, wrote.last, wrote[wrote.last])
    BY <1>2 DEF LastPushed
  <1>4. ~NothingSent
    BY <1>2 DEF NothingSent
  <1>5. ~Held(wrote.last, wrote[wrote.last])
    BY <1>2 DEF Held
  <1>6. SavedAs(wrote.last, wrote[wrote.last])
    BY <1>1, <1>2, <1>3, <1>4, <1>5 DEF EditorHolds, LastEditIsKept
  <1>7. QED
    BY <1>2, <1>6 DEF SavedAs

\* The field that the author sends last is never the one that is lost: in every state in
\* which nothing is under way, waits or is unread, the post that the page shows has it, for
\* any number of edits and uploads, of saves that fail, of connections lost and of posts
\* begun by others, up to the exceptions that LastEditIsSaved names (HandleUpdate, SaveRuns).
THEOREM LastEditIsAlwaysSaved == EditorSpec => []LastEditIsSaved
  <1>1. EditorInit => EditorInv
    BY EditorStarts
  <1>2. EditorInv /\ [EditorNext]_editorVars => EditorInv'
    BY EditorSteps
  <1>3. EditorInv => LastEditIsSaved
    BY KeptIsSaved
  <1>4. QED
    BY <1>1, <1>2, <1>3, PTL DEF EditorSpec

-----------------------------------------------------------------------------
(***************************************************************************)
(* The site: a behaviour of the site is, of each part, a behaviour of that *)
(* part, so what holds of the part wherever it runs holds of the site.     *)
(***************************************************************************)

\* What the site's initial states say of each part.
LEMMA SiteStarts ==
  SiteInit => /\ PasskeyInit /\ BotInit /\ SheetInit /\ MenuInit /\ ProbeInit /\ TimelineInit
              /\ CarouselInit /\ VenueInit /\ DeskInit /\ ScannerInit /\ EditorInit /\ GalleryInit
  BY DEF SiteInit

\* What a step of the site is for each part: one of its own, or none.
LEMMA SiteSteps ==
  ASSUME [SiteNext]_siteVars
  PROVE  /\ [PasskeyNext]_passkeyVars /\ [BotNext]_botVars
         /\ [SheetNext]_sheetVars /\ [MenuNext]_menuVars /\ [ProbeNext]_probeVars
         /\ [TimelineNext]_timelineVars /\ [CarouselNext]_carouselVars
         /\ [VenueNext]_venueVars /\ [DeskNext]_deskVars
         /\ [ScannerNext]_scannerVars /\ [EditorNext]_editorVars /\ [GalleryNext]_galleryVars
  <1>1. UNCHANGED formVars \/ FormNext
    BY DEF SiteNext, siteVars
  <1>2. UNCHANGED surfaceVars \/ SurfaceNext
    BY DEF SiteNext, siteVars
  <1>3. UNCHANGED showVars \/ ShowNext
    BY DEF SiteNext, siteVars
  <1>4. UNCHANGED venueDeskVars \/ VenueDeskNext
    BY DEF SiteNext, siteVars
  <1>5. UNCHANGED officeVars \/ OfficeNext
    BY DEF SiteNext, siteVars
  <1>6. [PasskeyNext]_passkeyVars /\ [BotNext]_botVars
    BY <1>1 DEF FormNext, formVars
  <1>7. [SheetNext]_sheetVars /\ [MenuNext]_menuVars /\ [ProbeNext]_probeVars
    BY <1>2 DEF SurfaceNext, surfaceVars
  <1>8. [TimelineNext]_timelineVars /\ [CarouselNext]_carouselVars
    BY <1>3 DEF ShowNext, showVars
  <1>9. [VenueNext]_venueVars /\ [DeskNext]_deskVars
    BY <1>4 DEF VenueDeskNext, venueDeskVars
  <1>10. [ScannerNext]_scannerVars /\ [EditorNext]_editorVars /\ [GalleryNext]_galleryVars
    BY <1>5 DEF OfficeNext, officeVars
  <1>11. QED
    BY <1>6, <1>7, <1>8, <1>9, <1>10

\* The composition adds nothing to any part: every behaviour of the site, seen through one
\* part's variables, starts as that part starts and takes only its steps (app.js mounts each
\* of the hooks by itself, and each page is a LiveView process of its own).
THEOREM SiteIsItsParts ==
  SiteSpec => /\ PasskeyInit /\ [][PasskeyNext]_passkeyVars
              /\ BotInit /\ [][BotNext]_botVars
              /\ SheetInit /\ [][SheetNext]_sheetVars
              /\ MenuInit /\ [][MenuNext]_menuVars
              /\ ProbeInit /\ [][ProbeNext]_probeVars
              /\ TimelineSpec
              /\ CarouselSpec
              /\ VenueSpec
              /\ DeskSpec
              /\ ScannerInit /\ [][ScannerNext]_scannerVars
              /\ EditorSpec
              /\ GallerySpec
  BY SiteStarts, SiteSteps, PTL DEF SiteSpec, TimelineSpec, CarouselSpec, VenueSpec, DeskSpec, EditorSpec,
     GallerySpec

\* What each part promises, the site promises: every safety property of a part that holds
\* of its own specification holds of the twelve together, for any sizes of any of them.
THEOREM SiteIsSafe ==
  SiteSpec => /\ [](/\ TokenIsSentOnce
                   /\ PullCancelsItsModal
                   /\ TimelineShowsFilter
                   /\ CarouselRests
                   /\ ListAnswersNewestSearch
                   /\ PinFollowsPlace
                   /\ DeskIsTrue
                   /\ LastEditIsSaved
                   /\ GalleryKeepsUp)
              /\ OnlyTheLatestCeremonyCounts
  <1>1. SiteSpec => []TokenIsSentOnce
    <2>1. BotInv => TokenIsSentOnce
      BY DEF BotInv, BotTypes, DueIsFresh, TokenIsSentOnce, Tokens
    <2>2. QED
      BY <2>1, SiteIsItsParts, BotStarts, BotSteps, PTL
  <1>2. SiteSpec => []PullCancelsItsModal
    <2>1. SheetInv => PullCancelsItsModal
      BY Zenon DEF SheetInv, PullCancelsItsModal
    <2>2. QED
      BY <2>1, SiteIsItsParts, SheetStarts, SheetSteps, PTL
  <1>3. SiteSpec => OnlyTheLatestCeremonyCounts
    <2>1. PasskeyInv /\ [PasskeyNext]_passkeyVars
          => [\A n \in accepted' \ accepted : n \notin past]_passkeyVars
      BY OnlyTheLatestIsAccepted
    <2>2. QED
      BY <2>1, SiteIsItsParts, PasskeyStarts, PasskeySteps, PTL DEF OnlyTheLatestCeremonyCounts
  <1>4. QED
    BY <1>1, <1>2, <1>3, SiteIsItsParts, TimelineAlwaysShowsFilter, CarouselAlwaysRests,
       ListAlwaysAnswersNewest, PinAlwaysFollowsPlace, DeskIsAlwaysTrue,
       LastEditIsAlwaysSaved, GalleryAlwaysKeepsUp, PTL

-----------------------------------------------------------------------------
(* Queues, whose entries are counted.                                      *)

\* The places of a queue that hold one of these.
PositionsOf(s, S) == {i \in DOMAIN s : s[i] \in S}

LEMMA PositionsAreCounted ==
  ASSUME NEW A, NEW S, NEW s \in Seq(A)
  PROVE  IsFiniteSet(PositionsOf(s, S)) /\ Cardinality(PositionsOf(s, S)) \in Nat
  <1>1. PositionsOf(s, S) \subseteq 1..Len(s) /\ Len(s) \in Nat
    BY LenProperties DEF PositionsOf
  <1>2. IsFiniteSet(1..Len(s))
    BY <1>1, FS_Interval
  <1>3. QED
    BY <1>1, <1>2, FS_Subset, FS_CardinalityType

LEMMA PositionAdded ==
  ASSUME NEW A, NEW S, NEW s \in Seq(A), NEW a \in A
  PROVE  /\ a \notin S => PositionsOf(Append(s, a), S) = PositionsOf(s, S)
         /\ Cardinality(PositionsOf(Append(s, a), S)) <= Cardinality(PositionsOf(s, S)) + 1
  <1> DEFINE more == Append(s, a)
  <1>1. /\ Len(s) \in Nat /\ DOMAIN s = 1..Len(s) /\ DOMAIN more = 1..(Len(s) + 1)
        /\ more[Len(s) + 1] = a /\ \A i \in 1..Len(s) : more[i] = s[i]
    BY AppendProperties, LenProperties
  <1> HIDE DEF more
  <1>2. PositionsOf(more, S) \subseteq PositionsOf(s, S) \cup {Len(s) + 1}
    BY <1>1 DEF PositionsOf
  <1>3. a \notin S => PositionsOf(more, S) = PositionsOf(s, S)
    BY <1>1 DEF PositionsOf
  <1>4. Len(s) + 1 \notin PositionsOf(s, S)
    BY <1>1 DEF PositionsOf
  <1>5. /\ IsFiniteSet(PositionsOf(s, S) \cup {Len(s) + 1})
        /\ Cardinality(PositionsOf(s, S) \cup {Len(s) + 1}) = Cardinality(PositionsOf(s, S)) + 1
    BY <1>4, PositionsAreCounted, FS_AddElement
  <1>6. Cardinality(PositionsOf(more, S)) <= Cardinality(PositionsOf(s, S) \cup {Len(s) + 1})
    BY <1>2, <1>5, FS_Subset
  <1>7. QED
    BY <1>3, <1>5, <1>6 DEF more

LEMMA PositionTaken ==
  ASSUME NEW A, NEW S, NEW s \in Seq(A), s # <<>>
  PROVE  /\ Cardinality(PositionsOf(Tail(s), S)) <= Cardinality(PositionsOf(s, S))
         /\ Head(s) \in S => Cardinality(PositionsOf(Tail(s), S)) + 1 <= Cardinality(PositionsOf(s, S))
  <1>1. /\ Len(s) \in Nat /\ Len(s) > 0 /\ DOMAIN s = 1..Len(s)
        /\ Tail(s) \in Seq(A) /\ DOMAIN Tail(s) = 1..(Len(s) - 1)
        /\ \A i \in 1..(Len(s) - 1) : Tail(s)[i] = s[i + 1]
        /\ Head(s) = s[1]
    BY HeadTailProperties, LenProperties, EmptySeq
  <1> DEFINE rest == PositionsOf(s, S) \ {1}
             moved == [i \in PositionsOf(Tail(s), S) |-> i + 1]
  <1>2. /\ IsFiniteSet(PositionsOf(s, S)) /\ Cardinality(PositionsOf(s, S)) \in Nat
        /\ IsFiniteSet(PositionsOf(Tail(s), S)) /\ Cardinality(PositionsOf(Tail(s), S)) \in Nat
    BY <1>1, PositionsAreCounted
  <1>3. \A i \in PositionsOf(Tail(s), S) : i \in Nat /\ i + 1 \in rest
    BY <1>1 DEF PositionsOf
  <1>4. moved \in [PositionsOf(Tail(s), S) -> rest]
    BY <1>3
  <1>5. \A i, j \in PositionsOf(Tail(s), S) : moved[i] = moved[j] => i = j
    BY <1>3
  <1>6. IsFiniteSet(rest) /\ Cardinality(rest) \in Nat /\ Cardinality(rest) <= Cardinality(PositionsOf(s, S))
    BY <1>2, FS_Subset, FS_CardinalityType
  <1>7. moved \in Injection(PositionsOf(Tail(s), S), rest)
    BY <1>4, <1>5 DEF Injection, IsInjective
  <1>8. Cardinality(PositionsOf(Tail(s), S)) <= Cardinality(rest)
    BY <1>6, <1>7, FS_Injection
  <1>9. ASSUME Head(s) \in S PROVE Cardinality(rest) + 1 <= Cardinality(PositionsOf(s, S))
    <2>1. 1 \in PositionsOf(s, S)
      BY <1>1, <1>9 DEF PositionsOf
    <2>2. Cardinality(rest) = Cardinality(PositionsOf(s, S)) - 1
      BY <1>2, <2>1, FS_RemoveElement
    <2>3. QED
      BY <1>2, <1>6, <2>2
  <1>10. QED
    BY <1>2, <1>6, <1>8, <1>9

\* What a queue may do.
LEMMA QueueMoves ==
  ASSUME NEW S, NEW s \in Seq(S), NEW t,
         \/ t = s \/ t = <<>> \/ (s # <<>> /\ t = Tail(s))
         \/ \E e \in S : t = Append(s, e)
  PROVE  t \in Seq(S)
  <1>1. <<>> \in Seq(S) /\ \A e \in S : Append(s, e) \in Seq(S)
    BY AppendProperties, EmptySeq
  <1>2. s # <<>> => Tail(s) \in Seq(S)
    BY HeadTailProperties
  <1>3. QED
    BY <1>1, <1>2, Zenon


-----------------------------------------------------------------------------
(* The types of the parts, from here on.  The bot check: a submit is on    *)
(* its way, held, due or answered by a refresh.                            *)

BotFlags ==
    /\ script \in {"absent", "loading", "ready", "failed"}
    /\ rendered \in BOOLEAN /\ asleep \in BOOLEAN /\ stale \in BOOLEAN /\ held \in BOOLEAN
    /\ timer \in BOOLEAN /\ notice \in BOOLEAN /\ raced \in BOOLEAN /\ gone \in BOOLEAN

BotCounts ==
    /\ token \in Tokens /\ issued \in Tokens /\ sent \in Tokens
    /\ net \in Seq(Tokens) /\ spent \subseteq Tokens
    /\ due \in Nat /\ refresh \in Nat /\ submits \in Nat
    /\ submits <= MaxSubmits
    /\ due + (IF held = TRUE THEN 1 ELSE 0) + refresh + Len(net) <= submits

LEMMA BotReleases ==
  ASSUME due \in Nat, held \in BOOLEAN, ReleaseHeldSubmit
  PROVE  /\ timer' = FALSE /\ notice' = FALSE /\ held' = FALSE /\ due' \in Nat
         /\ due' = due + (IF held = TRUE THEN 1 ELSE 0)
  <1>1. due' = IF held THEN due + 1 ELSE due
    BY DEF ReleaseHeldSubmit
  <1>2. CASE held = TRUE
    BY <1>1, <1>2 DEF ReleaseHeldSubmit
  <1>3. CASE held = FALSE
    BY <1>1, <1>3 DEF ReleaseHeldSubmit
  <1>4. QED
    BY <1>2, <1>3

LEMMA BotTypesStart == BotInit => BotFlags /\ BotCounts
  <1> SUFFICES ASSUME BotInit PROVE BotFlags /\ BotCounts
    OBVIOUS
  <1>1. net \in Seq(Tokens) /\ Len(net) = 0
    BY DEF BotInit
  <1>2. asleep \in BOOLEAN /\ script \in {"absent", "loading"}
    BY Zenon DEF BotInit
  <1>3. BotFlags
    BY <1>2 DEF BotInit, BotFlags
  <1>4. token \in Tokens /\ issued \in Tokens /\ sent \in Tokens /\ spent \subseteq Tokens
    BY BotCheckBounds DEF BotInit, Tokens, NoToken
  <1>5. QED
    BY <1>1, <1>3, <1>4, BotCheckBounds DEF BotInit, BotCounts

LEMMA BotFlagsStep == ASSUME BotFlags, [BotNext]_botVars PROVE BotFlags'
  <1> USE DEF BotFlags
  <1>0. CASE UNCHANGED botVars
    BY <1>0, Zenon DEF botVars
  <1>1. CASE Interact
    BY <1>1 DEF Interact, Load
  <1>2. CASE Submit
    BY <1>2 DEF Submit, HoldSubmit, Load
  <1>3. CASE SendReleased
    BY <1>3 DEF SendReleased
  <1>4. CASE HoldEnds
    BY <1>4 DEF HoldEnds, ReleaseHeldSubmit
  <1>5. CASE ScriptArrives
    BY <1>5 DEF ScriptArrives, ReleaseHeldSubmit
  <1>6. CASE TokenArrives
    BY <1>6 DEF TokenArrives, ReleaseHeldSubmit
  <1>7. CASE WidgetGivesUp
    BY <1>7 DEF WidgetGivesUp, ReleaseHeldSubmit
  <1>8. CASE TokenAges \/ StaleTokenGoes \/ RefreshArrives \/ LeaveForm
    BY <1>8, ZenonT(60) DEF TokenAges, StaleTokenGoes, RefreshArrives, LeaveForm
  <1>9. CASE ServeSubmit
    BY <1>9 DEF ServeSubmit
  <1>10. QED
    BY <1>0, <1>1, <1>2, <1>3, <1>4, <1>5, <1>6, <1>7, <1>8, <1>9, Zenon DEF BotNext

LEMMA BotCountsStep == ASSUME BotFlags, BotCounts, [BotNext]_botVars PROVE BotCounts'
  <1>0. Len(net) \in Nat /\ held \in BOOLEAN /\ MaxSubmits \in Nat /\ NoToken \in Tokens
    BY BotCheckBounds DEF BotCounts, BotFlags, Tokens, NoToken
  <1>1. CASE Interact
    BY <1>0, <1>1 DEF BotCounts, Interact
  <1>2. CASE Submit
    <2>1. CASE HasUsableToken
      <3>1. net' \in Seq(Tokens) /\ Len(net') = Len(net) + 1 /\ sent' = issued
        BY <1>2, <2>1, AppendProperties DEF BotCounts, Submit, Send
      <3>2. UNCHANGED <<token, issued, held, spent, due, refresh>>
            /\ submits' = submits + 1 /\ submits < MaxSubmits
        BY <1>2, <2>1 DEF Submit
      <3>3. QED
        BY <1>0, <3>1, <3>2 DEF BotCounts
    <2>2. CASE ~HasUsableToken
      <3>1. held' = TRUE /\ token' \in {NoToken, token}
        BY <1>2, <2>2 DEF Submit, HoldSubmit, Reset
      <3>2. UNCHANGED <<issued, sent, net, spent, due, refresh>> /\ submits' = submits + 1 /\ submits < MaxSubmits
        BY <1>2, <2>2 DEF Submit
      <3>3. QED
        BY <1>0, <3>1, <3>2 DEF BotCounts
    <2>3. QED BY <2>1, <2>2
  <1>3. CASE SendReleased
    <2>1. UNCHANGED <<held, issued, token, spent, refresh, submits>> /\ due' = due - 1 /\ due > 0
      BY <1>3 DEF SendReleased
    <2>2. /\ net' \in Seq(Tokens) /\ Len(net') \in {Len(net), Len(net) + 1}
          /\ sent' \in {sent, issued}
      <3>1. (net' = Append(net, token) /\ sent' = issued) \/ (net' = net /\ sent' = sent)
        <4>1. CASE gone
          BY <1>3, <4>1 DEF SendReleased
        <4>2. CASE ~gone
          BY <1>3, <4>2 DEF SendReleased, Send
        <4>3. QED
          BY <4>1, <4>2
      <3>2. /\ Append(net, token) \in Seq(Tokens) /\ Len(Append(net, token)) = Len(net) + 1
            /\ net \in Seq(Tokens)
        BY AppendProperties DEF BotCounts
      <3>3. QED
        BY <3>1, <3>2
    <2>3. QED
      BY <1>0, <2>1, <2>2 DEF BotCounts
  <1>4. CASE HoldEnds \/ WidgetGivesUp
    <2>1. UNCHANGED <<token, issued, sent, net, spent, refresh, submits>>
      BY <1>4 DEF HoldEnds, WidgetGivesUp
    <2>2. ReleaseHeldSubmit
      BY <1>4, Zenon DEF HoldEnds, WidgetGivesUp
    <2>3. held' = FALSE /\ due' \in Nat /\ due' = due + (IF held = TRUE THEN 1 ELSE 0)
      BY <1>0, <2>2, BotReleases DEF BotCounts
    <2>4. QED
      BY <1>0, <2>1, <2>3 DEF BotCounts
  <1>5. CASE ScriptArrives
    <2>1. UNCHANGED <<token, issued, sent, net, spent, refresh, submits>>
      BY <1>5 DEF ScriptArrives
    <2>2. CASE ReleaseHeldSubmit
      <3>1. held' = FALSE /\ due' \in Nat /\ due' = due + (IF held = TRUE THEN 1 ELSE 0)
        BY <1>0, <2>2, BotReleases DEF BotCounts
      <3>2. QED
        BY <1>0, <2>1, <3>1 DEF BotCounts
    <2>3. CASE UNCHANGED <<held, due>>
      BY <1>0, <2>1, <2>3 DEF BotCounts
    <2>4. QED
      BY <1>5, <2>2, <2>3 DEF ScriptArrives
  <1>6. CASE TokenArrives
    <2>1. /\ UNCHANGED <<sent, net, spent, refresh, submits>>
          /\ issued < MaxTokens /\ token' = issued + 1 /\ issued' = issued + 1
      BY <1>6 DEF TokenArrives
    <2>2. ReleaseHeldSubmit
      BY <1>6, Zenon DEF TokenArrives
    <2>3. held' = FALSE /\ due' \in Nat /\ due' = due + (IF held = TRUE THEN 1 ELSE 0)
      BY <1>0, <2>2, BotReleases DEF BotCounts
    <2>4. QED
      BY <1>0, <2>1, <2>3, BotCheckBounds DEF BotCounts, Tokens
  <1>7. CASE TokenAges \/ StaleTokenGoes \/ LeaveForm
    <2>1. token' \in {NoToken, token}
          /\ UNCHANGED <<issued, sent, net, spent, due, refresh, held, submits>>
      BY <1>7 DEF TokenAges, StaleTokenGoes, LeaveForm
    <2>2. QED
      BY <1>0, <2>1 DEF BotCounts
  <1>8. CASE ServeSubmit
    <2>1. Head(net) \in Tokens /\ net' \in Seq(Tokens) /\ Len(net') = Len(net) - 1
      BY <1>8, HeadTailProperties DEF BotCounts, ServeSubmit
    <2>2. refresh' \in {refresh, refresh + 1} /\ spent' \subseteq Tokens
      BY <1>8, <2>1 DEF BotCounts, ServeSubmit
    <2>3. UNCHANGED <<token, issued, sent, due, held, submits>>
      BY <1>8 DEF ServeSubmit
    <2>4. QED
      BY <1>0, <2>1, <2>2, <2>3 DEF BotCounts
  <1>9. CASE RefreshArrives
    <2>1. token' \in {NoToken, token}
      BY <1>9 DEF RefreshArrives, Reset
    <2>2. UNCHANGED <<issued, sent, net, spent, due, held, submits>> /\ refresh' = refresh - 1 /\ refresh > 0
      BY <1>9 DEF RefreshArrives
    <2>3. QED
      BY <1>0, <2>1, <2>2 DEF BotCounts
  <1>10. CASE UNCHANGED botVars
    <2>1. UNCHANGED <<token, issued, sent, net, spent, due, refresh, held, submits>>
      BY <1>10, Zenon DEF botVars
    <2>2. QED
      BY <1>0, <2>1 DEF BotCounts
  <1>11. QED
    BY <1>1, <1>2, <1>3, <1>4, <1>5, <1>6, <1>7, <1>8, <1>9, <1>10, Zenon DEF BotNext

LEMMA BotTypesAre == BotFlags /\ BotCounts => BotTypeOK
  <1> SUFFICES ASSUME BotFlags, BotCounts PROVE BotTypeOK
    OBVIOUS
  <1>1. Len(net) \in Nat
    BY DEF BotCounts
  <1>2. due \in 0..MaxSubmits /\ refresh \in 0..MaxSubmits
    BY <1>1, BotCheckBounds DEF BotCounts
  <1>3. {rendered, asleep, stale, held, timer, notice, raced, gone} \subseteq BOOLEAN
    BY Zenon DEF BotFlags
  <1>4. QED
    BY <1>2, <1>3 DEF BotFlags, BotCounts, BotTypeOK

-----------------------------------------------------------------------------
(* Passkeys: a click is made only while the challenges asked for leave     *)
(* one.                                                                    *)

Clicks == {ask \in Asking : ask.event = "start"}
StartsIn(told) == PositionsOf(told, Clicks)
WithinCeremonies == lv.last + Cardinality(StartsIn(asks)) <= MaxCeremonies

LEMMA StartsAreFinite ==
  ASSUME NEW told \in Seq(Asking)
  PROVE  Cardinality(StartsIn(told)) \in Nat
  BY PositionsAreCounted DEF StartsIn

LEMMA StartsAppended ==
  ASSUME NEW told \in Seq(Asking), NEW ask \in Asking
  PROVE  /\ ask.event # "start" => StartsIn(Append(told, ask)) = StartsIn(told)
         /\ Cardinality(StartsIn(Append(told, ask))) <= Cardinality(StartsIn(told)) + 1
  <1>1. ask.event # "start" => ask \notin Clicks
    BY DEF Clicks
  <1>2. /\ ask \notin Clicks => PositionsOf(Append(told, ask), Clicks) = PositionsOf(told, Clicks)
        /\ Cardinality(PositionsOf(Append(told, ask), Clicks)) <= Cardinality(PositionsOf(told, Clicks)) + 1
    BY PositionAdded
  <1>3. QED
    BY <1>1, <1>2, Zenon DEF StartsIn

LEMMA StartsTaken ==
  ASSUME NEW told \in Seq(Asking), told # <<>>
  PROVE  /\ Cardinality(StartsIn(Tail(told))) <= Cardinality(StartsIn(told))
         /\ Head(told).event = "start" => Cardinality(StartsIn(Tail(told))) + 1 <= Cardinality(StartsIn(told))
  <1>1. Head(told).event = "start" => Head(told) \in Clicks
    BY HeadTailProperties DEF Clicks
  <1>2. /\ Cardinality(PositionsOf(Tail(told), Clicks)) <= Cardinality(PositionsOf(told, Clicks))
        /\ Head(told) \in Clicks =>
              Cardinality(PositionsOf(Tail(told), Clicks)) + 1 <= Cardinality(PositionsOf(told, Clicks))
    BY PositionTaken
  <1>3. QED
    BY <1>1, <1>2, Zenon DEF StartsIn

\* What the browser says when a hook is mounted is no click.
LEMMA StartsJoined ==
  ASSUME NEW told \in Seq(Asking), NEW form \in FormKinds
  PROVE  StartsIn(Detected(form)) = {} /\ StartsIn(told \o Detected(form)) = StartsIn(told)
  <1> DEFINE said == Detected(form)
  <1>1. said = <<[event |-> "support", of |-> 0, form |-> form]>> \/ said = <<>>
    BY DEF Detected
  <1>2. said \in Seq(Asking) /\ Len(said) \in {0, 1} /\ (Len(said) = 1 => said[1].event = "support")
    <2>1. CASE said = <<>>
      BY <2>1
    <2>2. CASE said = <<[event |-> "support", of |-> 0, form |-> form]>>
      <3>1. PICK ask : ask = [event |-> "support", of |-> 0, form |-> form]
        OBVIOUS
      <3>2. ask \in Asking /\ ask.event = "support" /\ said = <<ask>>
        BY <2>2, <3>1 DEF Asking, AskEvents
      <3> HIDE DEF said
      <3>3. QED
        BY <3>2
    <2>3. QED
      BY <1>1, <2>1, <2>2
  <1> HIDE DEF said
  <1>3. /\ DOMAIN said = 1..Len(said) /\ DOMAIN told = 1..Len(told) /\ Len(told) \in Nat
        /\ DOMAIN (told \o said) = 1..(Len(told) + Len(said))
        /\ \A i \in 1..(Len(told) + Len(said)) :
             (told \o said)[i] = IF i <= Len(told) THEN told[i] ELSE said[i - Len(told)]
    BY <1>2, ConcatProperties, LenProperties
  <1>4. \A i \in DOMAIN said : i = 1 /\ said[i].event # "start"
    BY <1>2, <1>3
  <1>5. StartsIn(said) = {}
    BY <1>4 DEF StartsIn, PositionsOf, Clicks
  <1>6. ASSUME NEW i \in DOMAIN (told \o said), i \notin DOMAIN told
        PROVE  (told \o said)[i].event # "start"
    <2>1. i - Len(told) \in DOMAIN said /\ (told \o said)[i] = said[i - Len(told)]
      BY <1>2, <1>3, <1>6
    <2>2. QED
      BY <1>4, <2>1
  <1>7. \A i \in DOMAIN told : i \in DOMAIN (told \o said) /\ (told \o said)[i] = told[i]
    BY <1>2, <1>3
  <1>8. StartsIn(told \o said) = StartsIn(told)
    BY <1>6, <1>7 DEF StartsIn, PositionsOf, Clicks
  <1>9. QED
    BY <1>5, <1>8 DEF said

\* A step that asks for no challenge and makes none.
LEMMA NoMoreStarts ==
  ASSUME PasskeyInv, WithinCeremonies, lv'.last = lv.last,
         \/ asks' = asks
         \/ asks' = <<>>
         \/ asks # <<>> /\ asks' = Tail(asks)
         \/ \E ask \in Asking : ask.event # "start" /\ asks' = Append(asks, ask)
         \/ \E form \in FormKinds : asks' = Detected(form) \/ asks' = asks \o Detected(form)
  PROVE  WithinCeremonies'
  <1>1. asks \in Seq(Asking) /\ lv.last \in Nat
    BY DEF PasskeyInv, PasskeyShape, Mounts, EndsAreTold
  <1>2. Cardinality(StartsIn(asks)) \in Nat
    BY <1>1, StartsAreFinite
  <1>3. Cardinality({}) = 0 /\ StartsIn(<<>>) = {}
    BY FS_EmptySet DEF StartsIn, PositionsOf
  <1>4. Cardinality(StartsIn(asks')) \in Nat /\ Cardinality(StartsIn(asks')) <= Cardinality(StartsIn(asks))
    <2>1. CASE asks' = asks
      BY <1>2, <2>1
    <2>2. CASE asks' = <<>>
      <3>1. Cardinality(StartsIn(asks')) = 0
        BY <1>3, <2>2, Zenon
      <3>2. QED
        BY <1>2, <3>1
    <2>3. CASE asks # <<>> /\ asks' = Tail(asks)
      <3>1. Tail(asks) \in Seq(Asking)
        BY <1>1, <2>3, HeadTailProperties
      <3>2. QED
        BY <1>1, <2>3, <3>1, StartsTaken, StartsAreFinite
    <2>4. ASSUME NEW ask \in Asking, ask.event # "start", asks' = Append(asks, ask)
          PROVE  Cardinality(StartsIn(asks')) \in Nat /\ Cardinality(StartsIn(asks')) <= Cardinality(StartsIn(asks))
      BY <1>1, <1>2, <2>4, StartsAppended
    <2>5. ASSUME NEW form \in FormKinds, asks' = Detected(form) \/ asks' = asks \o Detected(form)
          PROVE  Cardinality(StartsIn(asks')) \in Nat /\ Cardinality(StartsIn(asks')) <= Cardinality(StartsIn(asks))
      <3>1. StartsIn(asks') = {} \/ StartsIn(asks') = StartsIn(asks)
        <4>1. StartsIn(Detected(form)) = {} /\ StartsIn(asks \o Detected(form)) = StartsIn(asks)
          BY <1>1, StartsJoined
        <4>2. CASE asks' = Detected(form)
          BY <4>1, <4>2, Zenon
        <4>3. CASE asks' = asks \o Detected(form)
          BY <4>1, <4>3, Zenon
        <4>4. QED
          BY <2>5, <4>2, <4>3
      <3>2. Cardinality(StartsIn(asks')) = 0 \/ Cardinality(StartsIn(asks')) = Cardinality(StartsIn(asks))
        BY <1>3, <3>1
      <3>3. QED
        BY <1>2, <3>2
    <2>6. QED
      BY <2>1, <2>2, <2>3, <2>4, <2>5
  <1>5. PICK old, new : old = Cardinality(StartsIn(asks)) /\ new = Cardinality(StartsIn(asks'))
    OBVIOUS
  <1>6. lv.last + old <= MaxCeremonies
    BY <1>5 DEF WithinCeremonies
  <1>7. lv'.last + new <= MaxCeremonies
    BY ONLY lv'.last = lv.last, <1>1, <1>2, <1>4, <1>5, <1>6, PasskeyBounds
  <1>8. QED
    BY <1>5, <1>7 DEF WithinCeremonies

LEMMA AsksAre ==
  ASSUME PasskeyInv
  PROVE  \A event \in AskEvents, of \in Nat : Ask(event, of) \in Asking /\ Ask(event, of).event = event
  <1>1. dom.form \in FormKinds
    BY DEF PasskeyInv, PasskeyShape
  <1>2. QED
    BY <1>1 DEF Ask, Asking

LEMMA ClickWithin == ASSUME PasskeyInv, WithinCeremonies, ClickPasskey PROVE WithinCeremonies'
  <1>1. asks \in Seq(Asking) /\ lv.last \in Nat
    BY DEF PasskeyInv, PasskeyShape, Mounts, EndsAreTold
  <1>2. lv' = lv /\ asks' = Append(asks, Ask("start", 0)) /\ lv.last + Starts < MaxCeremonies
    BY Zenon DEF ClickPasskey, PushAsk
  <1>3. PICK ask \in Asking : ask = Ask("start", 0)
    BY AsksAre DEF AskEvents
  <1>4. Starts = Cardinality(StartsIn(asks))
    <2>1. \A i \in DOMAIN asks : asks[i] \in Asking
      BY <1>1, LenProperties, ElementOfSeq
    <2>2. {i \in DOMAIN asks : asks[i].event = "start"} = StartsIn(asks)
      BY <2>1 DEF StartsIn, PositionsOf, Clicks
    <2>3. QED
      BY <2>2, Zenon DEF Starts
  <1>5. /\ Cardinality(StartsIn(asks)) \in Nat /\ Cardinality(StartsIn(asks')) \in Nat
        /\ Cardinality(StartsIn(asks')) <= Cardinality(StartsIn(asks)) + 1
    <2>1. asks' = Append(asks, ask) /\ Append(asks, ask) \in Seq(Asking)
      BY <1>1, <1>2, <1>3, AppendProperties
    <2>2. QED
      BY <1>1, <2>1, StartsAppended, StartsAreFinite
  <1>6. PICK old, new : old = Cardinality(StartsIn(asks)) /\ new = Cardinality(StartsIn(asks'))
    OBVIOUS
  <1>7. lv.last + new <= MaxCeremonies
    <2>1. lv.last + old < MaxCeremonies /\ old \in Nat /\ new \in Nat /\ new <= old + 1
      BY <1>2, <1>4, <1>5, <1>6
    <2>2. QED
      BY ONLY <1>1, <2>1, PasskeyBounds
  <1>8. QED
    BY <1>2, <1>6, <1>7 DEF WithinCeremonies

LEMMA StartWithin == ASSUME PasskeyInv, WithinCeremonies, StartCeremony PROVE WithinCeremonies'
  <1>1. asks \in Seq(Asking) /\ lv.last \in Nat /\ lv \in Mounts
    BY DEF PasskeyInv, PasskeyShape, Mounts, EndsAreTold
  <1>2. asks # <<>> /\ asks' = Tail(asks) /\ Head(asks).event = "start"
    BY Zenon DEF StartCeremony, Handles
  <1>3. lv'.last = lv.last \/ lv'.last = lv.last + 1
    <2>1. lv' = lv \/ lv' = [lv EXCEPT !.last = lv.last + 1, !.challenge = NewChallenge,
                                       !.loading = lv.form # "reauth"]
      BY Zenon DEF StartCeremony, Answer
    <2>2. QED
      BY <1>1, <2>1 DEF Mounts
  <1>4. /\ Cardinality(StartsIn(asks)) \in Nat /\ Cardinality(StartsIn(asks')) \in Nat
        /\ Cardinality(StartsIn(asks')) + 1 <= Cardinality(StartsIn(asks))
    <2>1. Tail(asks) \in Seq(Asking)
      BY <1>1, <1>2, HeadTailProperties
    <2>2. QED
      BY <1>1, <1>2, <2>1, StartsTaken, StartsAreFinite
  <1>5. PICK old, new, last : /\ old = Cardinality(StartsIn(asks)) /\ new = Cardinality(StartsIn(asks'))
                              /\ last = lv'.last
    OBVIOUS
  <1>6. last + new <= MaxCeremonies
    <2>1. lv.last + old <= MaxCeremonies /\ old \in Nat /\ new \in Nat /\ new + 1 <= old
          /\ (last = lv.last \/ last = lv.last + 1)
      BY <1>3, <1>4, <1>5 DEF WithinCeremonies
    <2>2. QED
      BY ONLY <1>1, <2>1, PasskeyBounds
  <1>7. QED
    BY <1>5, <1>6 DEF WithinCeremonies

LEMMA PasskeyWithin ==
  ASSUME PasskeyInv, WithinCeremonies, [PasskeyNext]_passkeyVars PROVE WithinCeremonies'
  <1>0. lv \in Mounts /\ dom.form \in FormKinds /\ entry \in FormKinds
    BY DEF PasskeyInv, PasskeyShape
  <1>1. CASE ClickPasskey
    BY <1>1, ClickWithin
  <1>2. CASE EnterPassword
    <2>1. asks' = Append(asks, Ask("password", 0)) /\ lv' = lv
      BY <1>2, Zenon DEF EnterPassword, PushAsk
    <2>2. PICK ask \in Asking : ask = Ask("password", 0) /\ ask.event = "password"
      BY AsksAre DEF AskEvents
    <2>3. QED
      BY <2>1, <2>2, NoMoreStarts
  <1>3. CASE ReceiveDiff
    <2> DEFINE d == Head(diffs)
    <2>1. lv' = lv /\ diffs # <<>> /\ (asks' = asks \/ asks' = asks \o Detected(d.form))
      BY <1>3, Zenon DEF ReceiveDiff
    <2>2. d.form \in FormKinds
      <3>1. diffs \in Seq(Diffing)
        BY DEF PasskeyInv, ChallengesAreNew
      <3>2. d \in Diffing
        BY <2>1, <3>1, HeadTailProperties
      <3>3. QED
        BY <3>2 DEF Diffing
    <2> HIDE DEF d
    <2>3. QED
      BY <2>1, <2>2, NoMoreStarts
  <1>4. CASE SupportDetected \/ VerifyCredential \/ CeremonyFailed \/ PasswordVerified
    <2>1. asks # <<>> /\ asks' = Tail(asks)
      BY <1>4, Zenon DEF SupportDetected, VerifyCredential, CeremonyFailed, PasswordVerified, Handles
    <2>2. lv' \in {lv, [lv EXCEPT !.supported = TRUE], Cleared, [Cleared EXCEPT !.leaving = TRUE],
                   [lv EXCEPT !.verified = TRUE]}
      <3>1. CASE SupportDetected
        BY <3>1, Zenon DEF SupportDetected, Answer
      <3>2. CASE VerifyCredential
        <4>1. \/ lv' = Cleared
              \/ lv' = CASE lv.form = "login" -> [Cleared EXCEPT !.leaving = TRUE]
                         [] lv.form = "reauth" -> [lv EXCEPT !.verified = TRUE]
                         [] OTHER -> Cleared
          BY <3>2, Zenon DEF VerifyCredential, Answer
        <4>2. QED
          BY <4>1
      <3>3. CASE CeremonyFailed
        BY <3>3, Zenon DEF CeremonyFailed, Answer
      <3>4. CASE PasswordVerified
        BY <3>4, Zenon DEF PasswordVerified, Answer
      <3>5. QED
        BY <1>4, <3>1, <3>2, <3>3, <3>4
    <2>3. Cleared \in Mounts /\ Cleared.last = lv.last
      BY <1>0 DEF Cleared, Mounts, NoChallenge
    <2>4. lv'.last = lv.last
      <3>1. [lv EXCEPT !.supported = TRUE].last = lv.last /\ [lv EXCEPT !.verified = TRUE].last = lv.last
            /\ [Cleared EXCEPT !.leaving = TRUE].last = Cleared.last
        BY <1>0, <2>3 DEF Mounts
      <3>2. QED
        BY <2>2, <2>3, <3>1
    <2>5. QED
      BY <2>1, <2>4, NoMoreStarts
  <1>5. CASE StartCeremony
    BY <1>5, StartWithin
  <1>6. CASE ReauthVerified
    <2>1. asks' = asks /\ lv' = [lv EXCEPT !.form = "register", !.verified = FALSE, !.challenge = NoChallenge]
      BY <1>6, Zenon DEF ReauthVerified, Answer
    <2>2. lv'.last = lv.last
      BY <1>0, <2>1 DEF Mounts
    <2>3. QED
      BY <2>1, <2>2, NoMoreStarts
  <1>7. CASE LosePage
    <2>1. asks' = <<>> /\ lv' = Fresh(entry, lv.last)
      BY <1>7, Zenon DEF LosePage
    <2>2. lv'.last = lv.last
      BY <2>1 DEF Fresh
    <2>3. QED
      BY <2>1, <2>2, NoMoreStarts
  <1>8. CASE RejoinPage
    <2>1. asks' = Detected(entry) /\ lv' = lv
      BY <1>8, Zenon DEF RejoinPage, Announced
    <2>2. QED
      BY <1>0, <2>1, NoMoreStarts
  <1>9. ASSUME NEW n \in Ceremonies, PromptEnds(n) \/ NoCredential(n) PROVE WithinCeremonies'
    <2>1. lv' = lv /\ (asks' = asks \/ asks' = Append(asks, Ask("verify", n)) \/ asks' = Append(asks, Ask("error", n)))
      BY <1>9, Zenon DEF PromptEnds, NoCredential, SignsIn, Registers, SignInFails, RegistrationFails,
                         ReturnsCredential, PromptFails, PushAsk, AfterPrompt
    <2>2. n \in Nat
      BY DEF Ceremonies
    <2>3. PICK verify \in Asking, error \in Asking :
            verify = Ask("verify", n) /\ verify.event = "verify" /\ error = Ask("error", n) /\ error.event = "error"
      BY <2>2, AsksAre DEF AskEvents
    <2>4. QED
      BY <2>1, <2>3, NoMoreStarts
  <1>10. CASE UNCHANGED passkeyVars
    <2>1. asks' = asks /\ lv' = lv
      BY <1>10, Zenon DEF passkeyVars
    <2>2. QED
      BY <2>1, NoMoreStarts
  <1>11. QED
    BY <1>1, <1>2, <1>3, <1>4, <1>5, <1>6, <1>7, <1>8, <1>9, <1>10 DEF PasskeyNext, Serve

LEMMA PasskeyWithinStart == PasskeyInit => WithinCeremonies
  <1> SUFFICES ASSUME PasskeyInit PROVE WithinCeremonies
    OBVIOUS
  <1>1. lv.last = 0 /\ asks = Detected(entry) /\ entry \in FormKinds
    BY DEF PasskeyInit, Fresh
  <1>2. StartsIn(asks) = {}
    <2>1. <<>> \in Seq(Asking)
      OBVIOUS
    <2>2. QED
      BY <1>1, <2>1, StartsJoined, Zenon
  <1>3. Cardinality(StartsIn(asks)) = 0
    BY <1>2, FS_EmptySet
  <1>4. QED
    BY <1>1, <1>3, PasskeyBounds DEF WithinCeremonies

LEMMA PasskeyTypesAre == PasskeyInv /\ WithinCeremonies => PasskeyTypeOK
  <1> SUFFICES ASSUME PasskeyInv, WithinCeremonies PROVE PasskeyTypeOK
    OBVIOUS
  <1>1. PasskeyShape /\ lv \in Mounts /\ asks \in Seq(Asking) /\ lv.challenge <= lv.last
    BY DEF PasskeyInv, PasskeyShape, EndsAreTold
  <1>2. Cardinality(StartsIn(asks)) \in Nat
    BY <1>1, StartsAreFinite
  <1>3. lv.last \in 0..MaxCeremonies /\ lv.challenge \in 0..MaxCeremonies
    BY <1>1, <1>2, PasskeyBounds DEF WithinCeremonies, Mounts
  <1>4. lv \in [form: FormKinds, supported: BOOLEAN, loading: BOOLEAN,
               challenge: 0..MaxCeremonies, verified: BOOLEAN, leaving: BOOLEAN,
               last: 0..MaxCeremonies]
    BY <1>1, <1>3 DEF Mounts
  <1>5. QED
    BY <1>1, <1>4, Zenon DEF PasskeyTypeOK, PasskeyShape, Stages

-----------------------------------------------------------------------------
(* The socket.                                                             *)

ProbeFlags == visible \in BOOLEAN /\ beat \in BOOLEAN /\ owed \in BOOLEAN /\ again \in BOOLEAN
ProbeKinds ==
    /\ hiddenAt \in {"unset", "short", "long"} /\ wire \in {"alive", "dead", "closed", "shut"}
    /\ dials \in Nat
ProbeProbes == probe \in [on: BOOLEAN, reply: BOOLEAN]
ProbeShape == ProbeFlags /\ ProbeKinds /\ ProbeProbes

LEMMA ProbeTypesStart == ProbeInit => ProbeShape
  <1> SUFFICES ASSUME ProbeInit PROVE ProbeShape
    OBVIOUS
  <1>1. ProbeFlags
    BY Zenon DEF ProbeInit, ProbeFlags
  <1>2. ProbeKinds
    BY DEF ProbeInit, ProbeKinds
  <1>3. ProbeProbes
    BY DEF ProbeInit, ProbeProbes
  <1>4. QED
    BY <1>1, <1>2, <1>3 DEF ProbeShape

LEMMA ProbeTypesStep == ASSUME ProbeShape, [ProbeNext]_probeVars PROVE ProbeShape'
  <1>0. ProbeFlags /\ ProbeKinds /\ ProbeProbes
    BY DEF ProbeShape
  <1>1. ProbeFlags'
    <2> USE <1>0 DEF ProbeFlags
    <2>1. CASE Return
      BY <2>1, Zenon DEF Return, ForceReconnect
    <2>2. CASE ProbeEnds
      BY <2>2, Zenon DEF ProbeEnds, ForceReconnect
    <2>3. CASE Hide \/ StayAway \/ HeartbeatAnswered \/ Dial
      BY <2>3, Zenon DEF Hide, StayAway, HeartbeatAnswered, Dial
    <2>4. CASE OwnHeartbeat \/ DropWire \/ CloseEventComes \/ PhoenixReconnects
      BY <2>4, Zenon DEF OwnHeartbeat, DropWire, CloseEventComes, PhoenixReconnects
    <2>5. CASE UNCHANGED probeVars
      BY <2>5, Zenon DEF probeVars
    <2>6. QED
      BY <2>1, <2>2, <2>3, <2>4, <2>5 DEF ProbeNext
  <1>2. ProbeKinds'
    <2> USE <1>0 DEF ProbeKinds
    <2>1. CASE Return
      <3>1. /\ hiddenAt' = "unset"
            /\ UNCHANGED <<wire, dials>> \/ (wire' = "shut" /\ dials' = dials + 1)
        BY <2>1, Zenon DEF Return, ForceReconnect
      <3>2. QED
        BY <3>1
    <2>2. CASE ProbeEnds
      <3>1. /\ hiddenAt' = hiddenAt
            /\ UNCHANGED <<wire, dials>> \/ (wire' = "shut" /\ dials' = dials + 1)
        BY <2>2, Zenon DEF ProbeEnds, ForceReconnect
      <3>2. QED
        BY <3>1
    <2>3. CASE Hide \/ StayAway \/ HeartbeatAnswered \/ Dial
      BY <2>3 DEF Hide, StayAway, HeartbeatAnswered, Dial
    <2>4. CASE OwnHeartbeat \/ DropWire \/ CloseEventComes \/ PhoenixReconnects
      BY <2>4 DEF OwnHeartbeat, DropWire, CloseEventComes, PhoenixReconnects
    <2>5. CASE UNCHANGED probeVars
      BY <2>5 DEF probeVars
    <2>6. QED
      BY <2>1, <2>2, <2>3, <2>4, <2>5 DEF ProbeNext
  <1>3. ProbeProbes'
    <2> USE <1>0 DEF ProbeProbes
    <2>1. probe' \in {probe, [on |-> TRUE, reply |-> FALSE], [probe EXCEPT !.reply = probe.on],
                      [probe EXCEPT !.on = FALSE]}
      <3>1. CASE Return
        BY <3>1, Zenon DEF Return, ForceReconnect
      <3>2. CASE ProbeEnds \/ HeartbeatAnswered
        BY <3>2, Zenon DEF ProbeEnds, HeartbeatAnswered
      <3>3. CASE Hide \/ StayAway \/ Dial
        BY <3>3, Zenon DEF Hide, StayAway, Dial
      <3>4. CASE OwnHeartbeat \/ DropWire \/ CloseEventComes \/ PhoenixReconnects
        BY <3>4, Zenon DEF OwnHeartbeat, DropWire, CloseEventComes, PhoenixReconnects
      <3>5. CASE UNCHANGED probeVars
        BY <3>5, Zenon DEF probeVars
      <3>6. QED
        BY <3>1, <3>2, <3>3, <3>4, <3>5 DEF ProbeNext
    <2>2. [on |-> TRUE, reply |-> FALSE] \in [on: BOOLEAN, reply: BOOLEAN]
      OBVIOUS
    <2>3. [probe EXCEPT !.reply = probe.on] \in [on: BOOLEAN, reply: BOOLEAN]
      BY Zenon
    <2>4. [probe EXCEPT !.on = FALSE] \in [on: BOOLEAN, reply: BOOLEAN]
      OBVIOUS
    <2>5. QED
      BY <2>1, <2>2, <2>3, <2>4, Zenon
  <1>4. QED
    BY <1>1, <1>2, <1>3 DEF ProbeShape

LEMMA ProbeTypesAre == ProbeShape => ProbeTypeOK
  BY Zenon DEF ProbeShape, ProbeFlags, ProbeKinds, ProbeProbes, ProbeTypeOK

-----------------------------------------------------------------------------
(* The history page: no item has more fade-ins under way than the bound.   *)

Stamps == [is: {"undefined", "shown", "hidden"}, gone: BOOLEAN, clear: BOOLEAN,
           hiding: BOOLEAN, fades: 0..MaxFades]
SectionStamps == [gone: BOOLEAN, hiding: BOOLEAN]

LEMMA TimelineTypesStart == TimelineInit => TimelineTypeOK
  <1> SUFFICES ASSUME TimelineInit PROVE TimelineTypeOK
    OBVIOUS
  <1>1. Untouched \in Stamps
    BY TimelineItems DEF Untouched, Stamps
  <1>2. items \in [Items -> Stamps]
    BY <1>1 DEF TimelineInit
  <1>3. sections \in [Decades -> SectionStamps]
    BY DEF TimelineInit, SectionStamps
  <1>4. activeFilter \in Filters /\ links \subseteq Decades
    <2>1. activeFilter = "all" /\ links = Decades
      BY Zenon DEF TimelineInit
    <2>2. QED
      BY <2>1, Zenon DEF Filters
  <1>5. QED
    BY <1>2, <1>3, <1>4, Zenon DEF TimelineTypeOK, Stamps, SectionStamps

LEMMA RevealTypes ==
  ASSUME NEW item \in Stamps, item.fades < MaxFades, NEW animate \in BOOLEAN
  PROVE  Reveal(item, animate) \in Stamps
  <1>1. item.fades + 1 \in 0..MaxFades /\ item.fades \in 0..MaxFades
    BY TimelineItems DEF Stamps
  <1> DEFINE kept == [item EXCEPT !.hiding = FALSE]
             more == IF animate THEN kept.fades + 1 ELSE kept.fades
  <1>2. kept \in Stamps /\ kept.fades = item.fades
    BY DEF Stamps
  <1>3. more \in 0..MaxFades
    BY <1>1, <1>2
  <1>4. Reveal(item, animate) = IF item.is # "hidden" THEN kept
                                ELSE [kept EXCEPT !.is = "shown", !.gone = FALSE, !.clear = animate, !.fades = more]
    BY Zenon DEF Reveal
  <1> HIDE DEF kept, more
  <1>5. [kept EXCEPT !.is = "shown", !.gone = FALSE, !.clear = animate, !.fades = more] \in Stamps
    BY <1>2, <1>3 DEF Stamps
  <1>6. QED
    BY <1>2, <1>4, <1>5

LEMMA ConcealTypes ==
  ASSUME NEW item \in Stamps, NEW animate \in BOOLEAN
  PROVE  Conceal(item, animate) \in Stamps
  <1>1. [item EXCEPT !.is = "hidden", !.clear = TRUE, !.hiding = TRUE] \in Stamps
    BY DEF Stamps
  <1>2. [item EXCEPT !.is = "hidden", !.gone = TRUE, !.hiding = FALSE] \in Stamps
    BY DEF Stamps
  <1>3. QED
    BY <1>1, <1>2, Zenon DEF Conceal

LEMMA SectionTypes ==
  ASSUME NEW section \in SectionStamps, NEW some \in BOOLEAN, NEW animate \in BOOLEAN
  PROVE  Section(section, some, animate) \in SectionStamps
  <1>1. section.gone \in BOOLEAN /\ (section.gone \/ ~animate) \in BOOLEAN
    BY Zenon DEF SectionStamps
  <1>2. QED
    BY <1>1 DEF Section, SectionStamps

LEMMA FilterTypes ==
  ASSUME TimelineTypeOK, NEW filter \in Filters, ApplyFilter(filter),
         \A i \in Items : items[i].fades < MaxFades
  PROVE  TimelineTypeOK'
  <1>0. items \in [Items -> Stamps] /\ sections \in [Decades -> SectionStamps]
    BY Zenon DEF TimelineTypeOK, Stamps, SectionStamps
  <1>1. PICK animate \in BOOLEAN :
          LET decadesWithMatches == {DecadeOf[i] : i \in {j \in Items : Matches(j, filter)}}
          IN /\ activeFilter' = filter
             /\ items' = [i \in Items |-> IF Matches(i, filter) THEN Reveal(items[i], animate)
                                          ELSE Conceal(items[i], animate)]
             /\ sections' = [d \in Decades |-> Section(sections[d], d \in decadesWithMatches, animate)]
             /\ links' = decadesWithMatches
    BY Zenon DEF ApplyFilter
  <1>2. activeFilter' \in Filters /\ links' \subseteq Decades
    BY <1>1 DEF Decades
  <1>3. items' \in [Items -> Stamps]
    <2>1. \A i \in Items : Reveal(items[i], animate) \in Stamps /\ Conceal(items[i], animate) \in Stamps
      BY <1>0, RevealTypes, ConcealTypes
    <2>2. QED
      BY <1>1, <2>1
  <1>4. sections' \in [Decades -> SectionStamps]
    <2> DEFINE S == {DecadeOf[i] : i \in {j \in Items : Matches(j, filter)}}
    <2>1. sections' = [d \in Decades |-> Section(sections[d], d \in S, animate)]
      BY <1>1
    <2> HIDE DEF S
    <2>2. \A d \in Decades : Section(sections[d], d \in S, animate) \in SectionStamps
      <3> TAKE d \in Decades
      <3>1. sections[d] \in SectionStamps /\ (d \in S) \in BOOLEAN
        BY <1>0
      <3>2. QED
        BY <3>1, SectionTypes, Zenon
    <2>3. QED
      BY <2>1, <2>2
  <1>5. QED
    BY <1>2, <1>3, <1>4, Zenon DEF TimelineTypeOK, Stamps, SectionStamps

LEMMA TimelineTypesStep == ASSUME TimelineTypeOK, [TimelineNext]_timelineVars PROVE TimelineTypeOK'
  <1>0. items \in [Items -> Stamps] /\ sections \in [Decades -> SectionStamps]
    BY Zenon DEF TimelineTypeOK, Stamps, SectionStamps
  <1>1. CASE OnToolbarClick
    <2>1. PICK filter \in Filters : ApplyFilter(filter)
      BY <1>1, Zenon DEF OnToolbarClick
    <2>2. \A i \in Items : items[i].fades < MaxFades
      BY <1>1, Zenon DEF OnToolbarClick
    <2>3. QED
      BY <2>1, <2>2, FilterTypes
  <1>2. CASE OnTagClick
    <2>1. PICK i \in Items : \E tag \in TagsOf[i] : ApplyFilter(IF tag = activeFilter THEN "all" ELSE tag)
      BY <1>2, Zenon DEF OnTagClick
    <2>2. PICK tag \in TagsOf[i] : ApplyFilter(IF tag = activeFilter THEN "all" ELSE tag)
      BY <2>1
    <2>3. "all" \in Filters /\ tag \in Filters
      <3>1. TagsOf[i] \subseteq Filters
        BY <2>1, Zenon DEF Filters
      <3>2. QED
        BY <2>2, <3>1, Zenon DEF Filters
    <2>4. PICK filter \in Filters : ApplyFilter(filter)
      BY <2>2, <2>3, Zenon
    <2>5. \A j \in Items : items[j].fades < MaxFades
      BY <1>2, Zenon DEF OnTagClick
    <2>6. QED
      BY <2>4, <2>5, FilterTypes
  <1>3. ASSUME NEW i \in Items, items'[i] \in Stamps, \E item : items' = [items EXCEPT ![i] = item],
               UNCHANGED <<activeFilter, sections, links>>
        PROVE  TimelineTypeOK'
    <2>1. items' \in [Items -> Stamps]
      BY <1>0, <1>3
    <2>2. QED
      BY <1>3, <2>1, Zenon DEF TimelineTypeOK, Stamps, SectionStamps
  <1>4. ASSUME NEW i \in Items, FadesIn(i)
        PROVE  TimelineTypeOK'
    <2>1. items[i] \in Stamps /\ items[i].fades \in 0..MaxFades /\ items[i].fades > 0
      BY <1>0, <1>4 DEF FadesIn, Stamps
    <2>2. PICK fades : fades = items[i].fades - 1
      OBVIOUS
    <2>3. fades \in 0..MaxFades
      BY <2>1, <2>2, TimelineItems
    <2>4. PICK item : item = [items[i] EXCEPT !.fades = fades, !.clear = FALSE]
      OBVIOUS
    <2>5. item \in Stamps
      BY <2>1, <2>3, <2>4 DEF Stamps
    <2>6. items' = [items EXCEPT ![i] = item]
      BY <1>0, <1>4, <2>2, <2>4 DEF FadesIn
    <2>7. items'[i] \in Stamps
      BY <1>0, <2>5, <2>6
    <2>8. QED
      BY <1>3, <1>4, <2>6, <2>7 DEF FadesIn
  <1>5. ASSUME NEW i \in Items, HideTimer(i)
        PROVE  TimelineTypeOK'
    <2>1. PICK item : item = [items[i] EXCEPT !.hiding = FALSE, !.gone = TRUE]
      OBVIOUS
    <2>2. item \in Stamps
      BY <1>0, <2>1 DEF Stamps
    <2>3. items' = [items EXCEPT ![i] = item]
      BY <1>0, <1>5, <2>1 DEF HideTimer
    <2>4. items'[i] \in Stamps
      BY <1>0, <2>2, <2>3
    <2>5. QED
      BY <1>3, <1>5, <2>3, <2>4 DEF HideTimer
  <1>6. ASSUME NEW d \in Decades, SectionTimer(d)
        PROVE  TimelineTypeOK'
    <2>1. sections' \in [Decades -> SectionStamps]
      BY <1>0, <1>6 DEF SectionTimer, SectionStamps
    <2>2. QED
      BY <1>6, <2>1, Zenon DEF TimelineTypeOK, SectionTimer, SectionStamps
  <1>7. CASE UNCHANGED timelineVars
    BY <1>7, Zenon DEF TimelineTypeOK, timelineVars
  <1>8. QED
    BY <1>1, <1>2, <1>4, <1>5, <1>6, <1>7 DEF TimelineNext

-----------------------------------------------------------------------------
(* The carousel.                                                           *)

CarouselFlags == reduced \in BOOLEAN /\ interval \in BOOLEAN /\ hover \in BOOLEAN /\ hooked \in BOOLEAN
CarouselKinds ==
    /\ slide \in 1..Slides /\ starts \in 0..MaxStarts
    /\ focus \in {"none", "mouse", "keyboard"}

LEMMA AutoplayTypes ==
  ASSUME NEW running, NEW mouse, NEW inside
  PROVE  StartAutoplay(running, mouse, inside) \in BOOLEAN
  BY Zenon DEF StartAutoplay

LEMMA CarouselTypesStart == CarouselInit => CarouselFlags /\ CarouselKinds
  <1> SUFFICES ASSUME CarouselInit PROVE CarouselFlags /\ CarouselKinds
    OBVIOUS
  <1>1. CarouselFlags
    BY Zenon DEF CarouselInit, CarouselFlags
  <1>2. CarouselKinds
    BY CarouselBounds DEF CarouselInit, CarouselKinds
  <1>3. QED
    BY <1>1, <1>2

LEMMA CarouselTypesStep ==
  ASSUME CarouselFlags, CarouselKinds, [CarouselNext]_carouselVars
  PROVE  CarouselFlags' /\ CarouselKinds'
  <1>1. CarouselFlags'
    <2>1. \A running, mouse, inside : StartAutoplay(running, mouse, inside) \in BOOLEAN
      BY AutoplayTypes, Zenon
    <2>2. CASE NextSlide \/ StartTimer \/ HandleMouseEnter \/ HandleMouseLeave
      BY <2>1, <2>2, Zenon DEF CarouselFlags, NextSlide, StartTimer, HandleMouseEnter, HandleMouseLeave
    <2>3. CASE FocusMoves
      BY <2>3, Zenon DEF CarouselFlags, FocusMoves
    <2>4. CASE HandleInteraction \/ ArrowKey \/ CarouselGoes
      BY <2>4, Zenon DEF CarouselFlags, HandleInteraction, ArrowKey, CarouselGoes
    <2>5. CASE UNCHANGED carouselVars
      BY <2>5, Zenon DEF CarouselFlags, carouselVars
    <2>6. QED
      BY <2>2, <2>3, <2>4, <2>5 DEF CarouselNext
  <1>2. CarouselKinds'
    <2> USE CarouselBounds DEF CarouselKinds
    <2>1. CASE NextSlide
      <3>1. slide' \in 1..Slides
        <4>1. slide \in Nat /\ slide % Slides \in 0..(Slides - 1)
          OBVIOUS
        <4>2. slide' = (slide % Slides) + 1
          BY <2>1 DEF NextSlide
        <4>3. QED
          BY <4>1, <4>2
      <3>2. starts' \in {starts, starts + 1} /\ starts < MaxStarts /\ focus' = focus
        BY <2>1, Zenon DEF NextSlide
      <3>3. QED
        BY <3>1, <3>2
    <2>2. CASE StartTimer
      BY <2>2 DEF StartTimer
    <2>3. CASE HandleMouseEnter \/ HandleMouseLeave \/ CarouselGoes
      BY <2>3 DEF HandleMouseEnter, HandleMouseLeave, CarouselGoes
    <2>4. CASE FocusMoves
      <3>1. focus' \in {"none", "mouse", "keyboard"} /\ UNCHANGED slide /\ starts < MaxStarts
            /\ starts' = IF focus = "none" THEN starts ELSE starts + 1
        BY <2>4, Zenon DEF FocusMoves
      <3>2. QED
        BY <3>1
    <2>5. CASE HandleInteraction
      <3>1. slide' \in 1..Slides /\ starts' <= MaxStarts /\ UNCHANGED focus
        BY <2>5 DEF HandleInteraction
      <3>2. starts' \in {starts + 1, starts + 2}
        BY <2>5, Zenon DEF HandleInteraction
      <3>3. QED
        BY <3>1, <3>2
    <2>6. CASE ArrowKey
      <3>1. slide' \in 1..Slides /\ starts' <= MaxStarts /\ focus' = "keyboard"
        BY <2>6 DEF ArrowKey
      <3>2. starts' \in {starts + 1, starts + 2}
        BY <2>6, Zenon DEF ArrowKey
      <3>3. QED
        BY <3>1, <3>2
    <2>7. CASE UNCHANGED carouselVars
      BY <2>7 DEF carouselVars
    <2>8. QED
      BY <2>1, <2>2, <2>3, <2>4, <2>5, <2>6, <2>7 DEF CarouselNext
  <1>3. QED
    BY <1>1, <1>2

LEMMA CarouselTypesAre == CarouselFlags /\ CarouselKinds => CarouselTypeOK
  BY Zenon DEF CarouselFlags, CarouselKinds, CarouselTypeOK

-----------------------------------------------------------------------------
(* The menu: what it waits for has been seen on so many frames at most.    *)

MenuFlags ==
    /\ shown \in BOOLEAN /\ moving \in BOOLEAN /\ inline \in BOOLEAN
    /\ pointer \in BOOLEAN /\ quiet \in BOOLEAN
Waits == [on: BOOLEAN, open: BOOLEAN, frames: 0..MaxFrames]
MenuKinds ==
    /\ menu \in {"idle", "pending", "dragging", "settling"}
    /\ offset \in {"open", "closed", "between"} /\ glide \in {NoTarget, "open", "closed"}
MenuShape == MenuFlags /\ MenuKinds /\ landing \in Seq(BOOLEAN) /\ wait \in Waits
             /\ strays \in Nat

LEMMA AwaitsNothing == NotWaiting \in Waits /\ \A open \in BOOLEAN : [on |-> TRUE, open |-> open, frames |-> 0] \in Waits
  BY MenuBounds DEF NotWaiting, Waits

LEMMA RestIs == \A open \in BOOLEAN : Rest(open) \in {"open", "closed", "between"} /\ Rest(open) \in {NoTarget, "open", "closed"}
  BY Zenon DEF Rest

LEMMA ReleasedTypes ==
  ASSUME MenuShape, NEW open \in BOOLEAN, Released(open)
  PROVE  /\ landing' \in Seq(BOOLEAN) /\ wait' \in Waits /\ inline' \in BOOLEAN
         /\ strays' \in Nat /\ offset' \in {"open", "closed", "between"}
         /\ menu' \in {"idle", "pending", "dragging", "settling"}
  <1>1. CASE open = shown
    <2>1. Complete(open) /\ landing' = landing /\ wait' = wait /\ strays' = strays
      BY <1>1, Zenon DEF Released
    <2>2. inline' = FALSE /\ menu' = "idle" /\ offset' = Rest(open)
      BY <2>1, Zenon DEF Complete
    <2>3. QED
      BY <2>1, <2>2, RestIs, Zenon DEF MenuShape
  <1>2. CASE open # shown
    <2>1. /\ landing' = Append(landing, open) /\ wait' = [on |-> TRUE, open |-> open, frames |-> 0]
          /\ offset' = Rest(open) /\ inline' = TRUE /\ menu' = menu
          /\ strays' \in {strays, strays + 1}
      BY <1>2, Zenon DEF Released
    <2>2. Append(landing, open) \in Seq(BOOLEAN)
      BY AppendProperties DEF MenuShape
    <2>3. strays' \in Nat
      BY <2>1 DEF MenuShape
    <2>4. QED
      BY <2>1, <2>2, <2>3, AwaitsNothing, RestIs, Zenon DEF MenuShape, MenuKinds
  <1>3. QED
    BY <1>1, <1>2

LEMMA ReleaseTypes ==
  ASSUME MenuShape, Release
  PROVE  /\ landing' \in Seq(BOOLEAN) /\ wait' \in Waits /\ inline' \in BOOLEAN
         /\ strays' \in Nat /\ offset' \in {"open", "closed", "between"}
         /\ menu' \in {"idle", "pending", "dragging", "settling"}
         /\ glide' \in {NoTarget, "open", "closed"}
  <1>1. PICK open \in BOOLEAN :
          IF quiet THEN Released(open) /\ UNCHANGED glide
          ELSE /\ menu' = "settling" /\ glide' = Rest(open)
               /\ UNCHANGED <<landing, inline, offset, wait, strays>>
    BY Zenon DEF Release
  <1>2. CASE quiet
    <2>1. Released(open) /\ glide' = glide
      BY <1>1, <1>2, Zenon
    <2>2. QED
      BY <2>1, ReleasedTypes, Zenon DEF MenuShape, MenuKinds
  <1>3. CASE ~quiet
    <2>1. /\ menu' = "settling" /\ glide' = Rest(open)
          /\ landing' = landing /\ inline' = inline /\ offset' = offset /\ wait' = wait
          /\ strays' = strays
      BY <1>1, <1>3, Zenon
    <2>2. QED
      BY <2>1, RestIs, Zenon DEF MenuShape, MenuKinds, MenuFlags
  <1>4. QED
    BY <1>2, <1>3

LEMMA AbandonTypes ==
  ASSUME MenuShape, Abandon
  PROVE  /\ landing' \in Seq(BOOLEAN) /\ wait' \in Waits /\ inline' \in BOOLEAN
         /\ strays' \in Nat /\ offset' \in {"open", "closed", "between"}
         /\ menu' \in {"idle", "pending", "dragging", "settling"}
         /\ glide' \in {NoTarget, "open", "closed"}
  <1>1. CASE inline
    BY <1>1, ReleaseTypes, Zenon DEF Abandon
  <1>2. CASE ~inline
    BY <1>2, Zenon DEF Abandon, MenuShape, MenuKinds, MenuFlags
  <1>3. QED
    BY <1>1, <1>2

LEMMA MenuTypesStart == MenuInit => MenuShape
  <1> SUFFICES ASSUME MenuInit PROVE MenuShape
    OBVIOUS
  <1>1. MenuFlags
    BY Zenon DEF MenuInit, MenuFlags
  <1>2. MenuKinds /\ landing \in Seq(BOOLEAN) /\ wait \in Waits /\ strays \in Nat
    BY AwaitsNothing DEF MenuInit, MenuKinds
  <1>3. QED
    BY <1>1, <1>2 DEF MenuShape

LEMMA MenuTypesStep == ASSUME MenuShape, [MenuNext]_menuVars PROVE MenuShape'
  <1>0. MenuFlags /\ MenuKinds /\ landing \in Seq(BOOLEAN) /\ wait \in Waits /\ strays \in Nat
    BY DEF MenuShape
  <1>1. CASE PointerDown
    <2>1. wait' \in {wait, NotWaiting} /\ glide' \in {glide, NoTarget}
          /\ inline' \in BOOLEAN /\ moving' \in BOOLEAN /\ offset' \in {offset, "between"}
      <3>1. CASE menu = "settling"
        BY <1>0, <1>1, <3>1, Zenon DEF PointerDown, MenuFlags
      <3>2. CASE menu # "settling"
        BY <1>0, <1>1, <3>2, Zenon DEF PointerDown, MenuFlags
      <3>3. QED
        BY <3>1, <3>2
    <2>2. menu' = "pending" /\ landing' = landing /\ strays' = strays
      BY <1>1, Zenon DEF PointerDown
    <2>3. MenuFlags'
      BY <1>0, <1>1, <2>1, Zenon DEF PointerDown, MenuFlags
    <2>4. QED
      BY <1>0, <2>1, <2>2, <2>3, AwaitsNothing, Zenon DEF MenuShape, MenuKinds
  <1>2. CASE PointerMove
    <2>1. CASE menu' = "dragging" /\ inline' = TRUE /\ offset' \in {"open", "between", "closed"}
               /\ moving' = FALSE /\ UNCHANGED <<pointer, landing, glide, wait, strays>>
      <3>1. MenuFlags'
        BY <1>0, <1>2, <2>1, Zenon DEF PointerMove, MenuFlags
      <3>2. QED
        BY <1>0, <2>1, <3>1, Zenon DEF MenuShape, MenuKinds
    <2>2. CASE pointer' = FALSE /\ Abandon /\ UNCHANGED moving
      <3>1. MenuFlags'
        BY <1>0, <1>2, <2>2, AbandonTypes, Zenon DEF PointerMove, MenuFlags
      <3>2. QED
        BY <2>2, <3>1, AbandonTypes, Zenon DEF MenuShape, MenuKinds
    <2>3. QED
      BY <1>2, <2>1, <2>2, Zenon DEF PointerMove
  <1>3. CASE PointerUp
    <2>1. Release \/ Abandon
          \/ UNCHANGED <<menu, landing, inline, offset, glide, wait, strays>>
      BY <1>3, Zenon DEF PointerUp
    <2>2. /\ landing' \in Seq(BOOLEAN) /\ wait' \in Waits /\ inline' \in BOOLEAN
          /\ strays' \in Nat /\ offset' \in {"open", "closed", "between"}
          /\ menu' \in {"idle", "pending", "dragging", "settling"}
          /\ glide' \in {NoTarget, "open", "closed"}
      BY <1>0, <2>1, ReleaseTypes, AbandonTypes, Zenon DEF MenuKinds, MenuFlags
    <2>3. MenuFlags'
      BY <1>0, <1>3, <2>2, Zenon DEF PointerUp, MenuFlags
    <2>4. QED
      BY <2>2, <2>3, Zenon DEF MenuShape, MenuKinds
  <1>4. CASE SpringSettles
    <2>1. PICK open \in BOOLEAN : open = (glide = "open")
      OBVIOUS
    <2>2. Released(open)
      BY <1>4, <2>1, Zenon DEF SpringSettles
    <2>3. /\ landing' \in Seq(BOOLEAN) /\ wait' \in Waits /\ inline' \in BOOLEAN
          /\ strays' \in Nat /\ offset' \in {"open", "closed", "between"}
          /\ menu' \in {"idle", "pending", "dragging", "settling"}
      BY <2>2, ReleasedTypes
    <2>4. MenuFlags'
      BY <1>0, <1>4, <2>3, Zenon DEF SpringSettles, MenuFlags
    <2>5. glide' = NoTarget
      BY <1>4, Zenon DEF SpringSettles
    <2>6. QED
      BY <2>3, <2>4, <2>5, Zenon DEF MenuShape, MenuKinds
  <1>5. CASE NextFrame
    <2>0. wait.open \in BOOLEAN /\ wait.frames \in 0..MaxFrames
      BY <1>0 DEF Waits
    <2>1. CASE wait.open = shown \/ wait.frames + 1 > MaxFrames
      <3>1. /\ inline' = FALSE /\ menu' = "idle" /\ offset' = Rest(wait.open) /\ wait' = NotWaiting
        BY <1>0, <1>5, <2>1, Zenon DEF NextFrame, Complete, MenuFlags
      <3>2. MenuFlags'
        BY <1>0, <1>5, <3>1, Zenon DEF NextFrame, MenuFlags
      <3>3. landing' = landing /\ glide' = glide /\ strays' = strays
        BY <1>5, Zenon DEF NextFrame
      <3>4. QED
        BY <1>0, <2>0, <3>1, <3>2, <3>3, AwaitsNothing, RestIs, Zenon DEF MenuShape, MenuKinds
    <2>2. CASE ~(wait.open = shown \/ wait.frames + 1 > MaxFrames)
      <3>1. /\ wait' = [wait EXCEPT !.frames = @ + 1] /\ inline' = inline /\ menu' = menu
            /\ offset' = offset
        BY <1>5, <2>2, Zenon DEF NextFrame
      <3>2. wait.frames + 1 <= MaxFrames
        BY <2>0, <2>2, MenuBounds
      <3>3. [wait EXCEPT !.frames = @ + 1] \in Waits
        BY <1>0, <2>0, <3>2, MenuBounds DEF Waits
      <3>4. landing' = landing /\ glide' = glide /\ strays' = strays
        BY <1>5, Zenon DEF NextFrame
      <3>5. MenuFlags'
        BY <1>0, <1>5, <3>1, Zenon DEF NextFrame, MenuFlags
      <3>6. QED
        BY <1>0, <3>1, <3>3, <3>4, <3>5, Zenon DEF MenuShape, MenuKinds
    <2>3. QED
      BY <2>1, <2>2
  <1>6. CASE ClassLands
    <2>1. landing' \in Seq(BOOLEAN) /\ shown' \in BOOLEAN
      BY <1>0, <1>6, HeadTailProperties DEF ClassLands
    <2>2. moving' \in BOOLEAN
      BY <1>0, <1>6, Zenon DEF ClassLands, MenuFlags
    <2>3. MenuFlags'
      BY <1>0, <1>6, <2>1, <2>2, Zenon DEF ClassLands, MenuFlags
    <2>4. QED
      BY <1>0, <1>6, <2>1, <2>3, Zenon DEF ClassLands, MenuShape, MenuKinds
  <1>7. CASE TransitionEnds
    <2>1. MenuFlags'
      BY <1>0, <1>7, Zenon DEF TransitionEnds, MenuFlags
    <2>2. QED
      BY <1>0, <1>7, <2>1, Zenon DEF TransitionEnds, MenuShape, MenuKinds
  <1>8. ASSUME NEW open \in BOOLEAN, PressButton(open) PROVE MenuShape'
    <2>1. MenuFlags'
      BY <1>0, <1>8, Zenon DEF PressButton, MenuFlags
    <2>2. landing' = Append(landing, open) /\ UNCHANGED <<menu, offset, glide, wait, strays>>
      BY <1>8, Zenon DEF PressButton
    <2>3. landing' \in Seq(BOOLEAN)
      BY <1>0, <2>2, AppendProperties
    <2>4. QED
      BY <1>0, <2>1, <2>2, <2>3, Zenon DEF MenuShape, MenuKinds
  <1>9. CASE UNCHANGED menuVars
    BY <1>0, <1>9, Zenon DEF MenuShape, MenuKinds, MenuFlags, menuVars
  <1>10. CASE StrayEnds
    <2>1. PICK open \in BOOLEAN : Complete(open)
      BY <1>10, Zenon DEF StrayEnds
    <2>2. inline' = FALSE /\ menu' = "idle" /\ offset' = Rest(open)
      BY <2>1, Zenon DEF Complete
    <2>3. MenuFlags'
      BY <1>0, <1>10, <2>2, Zenon DEF StrayEnds, MenuFlags
    <2>4. strays' \in Nat
      BY <1>0, <1>10 DEF StrayEnds
    <2>5. landing' = landing /\ glide' = glide /\ wait' = wait
      BY <1>10, Zenon DEF StrayEnds
    <2>6. QED
      BY <1>0, <2>2, <2>3, <2>4, <2>5, RestIs, Zenon DEF MenuShape, MenuKinds
  <1>11. QED
    BY <1>1, <1>2, <1>3, <1>4, <1>5, <1>6, <1>7, <1>8, <1>9, <1>10 DEF MenuNext, MenuRuns

LEMMA MenuTypesAre == MenuShape => MenuTypeOK
  BY Zenon DEF MenuShape, MenuFlags, MenuKinds, Waits, MenuTypeOK

-----------------------------------------------------------------------------
(* The modal.                                                              *)

SheetFlags == finger \in BOOLEAN /\ calm \in BOOLEAN /\ waitedOn \in BOOLEAN /\ strayed \in BOOLEAN
SheetKinds == sheet \in SheetStates /\ place \in {"rest", "between", "off"}
SheetModal == modal \in [open: BOOLEAN, round: Nat] /\ asked \in Nat
SheetNames ==
    /\ named \in Nat /\ anim \in 0..named /\ closer \in 0..named
    /\ \A s \in springs : s.to \in {"off", "rest"} /\ s.name \in 1..named
    /\ \A t \in timers : t.name \in 1..named /\ t.rechecks \in 0..MaxRechecks
SheetShape == SheetFlags /\ SheetKinds /\ SheetModal /\ SheetNames

\* Springs and timers are made under the next name.
LEMMA NamesGrow ==
  ASSUME SheetNames, NEW to \in {"off", "rest"}, NEW round, NEW n \in 0..MaxRechecks
  PROVE  /\ \A s \in springs \cup {[name |-> named + 1, to |-> to, round |-> round]} :
               s.to \in {"off", "rest"} /\ s.name \in 1..(named + 1)
         /\ \A t \in timers \cup {[name |-> named + 1, rechecks |-> n]} :
               t.name \in 1..(named + 1) /\ t.rechecks \in 0..MaxRechecks
         /\ named + 1 \in Nat /\ named + 1 \in 0..(named + 1)
         /\ anim \in 0..(named + 1) /\ closer \in 0..(named + 1) /\ None \in 0..(named + 1)
  <1>1. named \in Nat
    BY DEF SheetNames
  <1>2. \A i \in 1..named : i \in 1..(named + 1)
    BY <1>1
  <1>3. \A i \in 0..named : i \in 0..(named + 1)
    BY <1>1
  <1>4. named + 1 \in 1..(named + 1) /\ named + 1 \in Nat /\ named + 1 \in 0..(named + 1) /\ 0 \in 0..(named + 1)
    BY <1>1
  <1>5. QED
    BY <1>2, <1>3, <1>4 DEF SheetNames, None

\* What the handlers leave of springs and timers is what there was, or one more.
Fewer(running, left) == running \subseteq springs /\ left \subseteq timers

LEMMA ResetTypes ==
  ASSUME SheetNames, NEW running, NEW left, Fewer(running, left), ResetSheet(running, left)
  PROVE  SheetNames' /\ SheetKinds'
  <1>1. /\ springs' \subseteq springs /\ timers' \subseteq timers /\ anim' = None
        /\ closer' = closer /\ named' = named /\ sheet' = "idle" /\ place' = "rest"
    BY Zenon DEF ResetSheet, Fewer
  <1>2. None \in 0..named
    BY DEF SheetNames, None
  <1>3. QED
    BY <1>1, <1>2 DEF SheetNames, SheetKinds, SheetStates

LEMMA SpringTypes ==
  ASSUME SheetNames, NEW to \in {"off", "rest"}, NEW running, running \subseteq springs,
         Spring(to, running), timers' \subseteq timers, closer' = closer
  PROVE  SheetNames' /\ SheetKinds'
  <1>1. /\ springs' \subseteq springs \cup {[name |-> named + 1, to |-> to, round |-> modal.round]}
        /\ anim' = named + 1 /\ named' = named + 1 /\ sheet' = "settling" /\ place' = "between"
    BY DEF Spring
  <1>2. 0 \in 0..MaxRechecks
    BY SheetBounds
  <1>3. QED
    BY <1>1, <1>2, NamesGrow DEF SheetNames, SheetKinds, SheetStates

LEMMA SnapBackTypes ==
  ASSUME SheetNames, NEW running, NEW left, Fewer(running, left), SnapBack(running, left)
  PROVE  SheetNames' /\ SheetKinds'
  <1>1. CASE calm
    BY <1>1, ResetTypes, Zenon DEF SnapBack
  <1>2. CASE ~calm
    <2>1. Spring("rest", running) /\ timers' = left /\ closer' = closer
      BY <1>2, Zenon DEF SnapBack
    <2>2. running \subseteq springs /\ left \subseteq timers
      BY Zenon DEF Fewer
    <2>3. QED
      BY <2>1, <2>2, SpringTypes
  <1>3. QED
    BY <1>1, <1>2

LEMMA DismissedTypes ==
  ASSUME SheetFlags, SheetModal, SheetNames, NEW running, running \subseteq springs, NEW round,
         Dismissed(running, round)
  PROVE  SheetNames' /\ SheetKinds' /\ asked' \in Nat /\ strayed' \in BOOLEAN
  <1>1. /\ springs' = running /\ anim' = None /\ sheet' = "idle" /\ place' = "off"
        /\ closer' = named + 1 /\ named' = named + 1
        /\ timers' = timers \cup {[name |-> named + 1, rechecks |-> 0]}
    BY DEF Dismissed
  <1>2. 0 \in 0..MaxRechecks
    BY SheetBounds
  <1>3. SheetNames' /\ SheetKinds'
    BY <1>1, <1>2, NamesGrow DEF SheetNames, SheetKinds, SheetStates
  <1>4. asked' \in Nat
    BY DEF Dismissed, SheetModal
  <1>5. strayed' \in BOOLEAN
    BY Zenon DEF Dismissed, SheetFlags
  <1>6. QED
    BY <1>3, <1>4, <1>5

LEMMA SheetTypesStart == SheetInit => SheetShape
  <1> SUFFICES ASSUME SheetInit PROVE SheetShape
    OBVIOUS
  <1>1. SheetFlags
    BY Zenon DEF SheetInit, SheetFlags
  <1>2. SheetKinds /\ SheetModal /\ SheetNames
    BY DEF SheetInit, SheetKinds, SheetStates, SheetModal, SheetNames, None
  <1>3. QED
    BY <1>1, <1>2 DEF SheetShape

LEMMA SheetTypesStep == ASSUME SheetShape, [SheetNext]_sheetVars PROVE SheetShape'
  <1>0. SheetFlags /\ SheetKinds /\ SheetModal /\ SheetNames
    BY DEF SheetShape
  <1>1. CASE TouchStart
    <2>1. SheetFlags'
      BY <1>0, <1>1, Zenon DEF TouchStart, SheetFlags
    <2>2. SheetModal'
      BY <1>0, <1>1 DEF TouchStart, SheetModal
    <2>3. /\ springs' \subseteq springs /\ timers' \subseteq timers /\ anim' \in {None, anim}
          /\ closer' = closer /\ named' = named /\ sheet' \in {"dragging", "pending", "ignored"}
          /\ place' = place
      <3>1. CASE sheet = "settling"
        BY <1>1, <3>1, Zenon DEF TouchStart
      <3>2. CASE sheet # "settling"
        BY <1>1, <3>2, Zenon DEF TouchStart
      <3>3. QED
        BY <3>1, <3>2
    <2>4. None \in 0..named
      BY <1>0 DEF SheetNames, None
    <2>5. SheetNames' /\ SheetKinds'
      BY <1>0, <2>3, <2>4 DEF SheetNames, SheetKinds, SheetStates
    <2>6. QED
      BY <2>1, <2>2, <2>5 DEF SheetShape
  <1>2. CASE TouchMove
    <2>1. SheetFlags'
      BY <1>0, <1>2, Zenon DEF TouchMove, SheetFlags
    <2>2. SheetModal' /\ SheetNames'
      BY <1>0, <1>2 DEF TouchMove, SheetModal, SheetNames
    <2>3. sheet' \in {"ignored", "dragging"} /\ place' \in {place, "between", "rest"}
      BY <1>2, Zenon DEF TouchMove
    <2>4. SheetKinds'
      BY <1>0, <2>3 DEF SheetKinds, SheetStates
    <2>5. QED
      BY <2>1, <2>2, <2>4 DEF SheetShape
  <1>3. CASE TouchEnd
    <2>0. finger' = FALSE /\ modal' = modal /\ calm' = calm /\ waitedOn' = waitedOn
      BY <1>3, Zenon DEF TouchEnd
    <2>1. CASE sheet' \in {"idle", sheet}
               /\ UNCHANGED <<place, springs, anim, timers, closer, asked, named, strayed>>
      <3>1. SheetFlags'
        BY <1>0, <2>0, <2>1, Zenon DEF SheetFlags
      <3>2. SheetModal' /\ SheetNames' /\ SheetKinds'
        BY <1>0, <2>0, <2>1 DEF SheetModal, SheetNames, SheetKinds, SheetStates
      <3>3. QED
        BY <3>1, <3>2 DEF SheetShape
    <2>2. CASE Dismissed(springs, modal.round)
      <3>1. SheetNames' /\ SheetKinds' /\ asked' \in Nat /\ strayed' \in BOOLEAN
        BY <1>0, <2>2, DismissedTypes
      <3>2. SheetFlags'
        BY <1>0, <2>0, <3>1, Zenon DEF SheetFlags
      <3>3. QED
        BY <1>0, <2>0, <3>1, <3>2 DEF SheetShape, SheetModal
    <2>3. CASE Spring("off", springs) /\ UNCHANGED <<timers, closer, asked, strayed>>
      <3>1. SheetNames' /\ SheetKinds'
        BY <1>0, <2>3, SpringTypes
      <3>2. SheetFlags'
        BY <1>0, <2>0, <2>3, Zenon DEF SheetFlags
      <3>3. QED
        BY <1>0, <2>0, <2>3, <3>1, <3>2 DEF SheetShape, SheetModal
    <2>4. CASE SnapBack(springs, timers) /\ UNCHANGED <<asked, strayed>>
      <3>1. SheetNames' /\ SheetKinds'
        BY <1>0, <2>4, SnapBackTypes DEF Fewer
      <3>2. SheetFlags'
        BY <1>0, <2>0, <2>4, Zenon DEF SheetFlags
      <3>3. QED
        BY <1>0, <2>0, <2>4, <3>1, <3>2 DEF SheetShape, SheetModal
    <2>5. QED
      BY <1>3, <2>1, <2>2, <2>3, <2>4, Zenon DEF TouchEnd
  <1>4. ASSUME NEW s \in springs, SpringRests(s) PROVE SheetShape'
    <2>0. finger' = finger /\ modal' = modal /\ calm' = calm /\ waitedOn' = waitedOn
      BY <1>4, Zenon DEF SpringRests
    <2>1. CASE s.to = "off"
      <3>0. Dismissed(springs \ {s}, s.round)
        BY <1>4, <2>1, Zenon DEF SpringRests
      <3>1. SheetNames' /\ SheetKinds' /\ asked' \in Nat /\ strayed' \in BOOLEAN
        BY <1>0, <3>0, DismissedTypes
      <3>2. SheetFlags'
        BY <1>0, <2>0, <3>1, Zenon DEF SheetFlags
      <3>3. QED
        BY <1>0, <2>0, <3>1, <3>2 DEF SheetShape, SheetModal
    <2>2. CASE s.to # "off"
      <3>0. ResetSheet(springs \ {s}, timers) /\ asked' = asked /\ strayed' = strayed
        BY <1>4, <2>2, Zenon DEF SpringRests
      <3>1. SheetNames' /\ SheetKinds'
        BY <1>0, <3>0, ResetTypes DEF Fewer
      <3>2. SheetFlags'
        BY <1>0, <2>0, <3>0, Zenon DEF SheetFlags
      <3>3. QED
        BY <1>0, <2>0, <3>0, <3>1, <3>2 DEF SheetShape, SheetModal
    <2>3. QED
      BY <2>1, <2>2
  <1>5. ASSUME NEW t \in timers, CloseCheck(t) PROVE SheetShape'
    <2>1. SheetFlags'
      BY <1>0, <1>5, Zenon DEF CloseCheck, SheetFlags
    <2>2. SheetModal'
      BY <1>0, <1>5 DEF CloseCheck, SheetModal
    <2>3. Fewer(springs, timers \ {t})
      BY Zenon DEF Fewer
    <2>4. CASE ResetSheet(springs, timers \ {t}) \/ SnapBack(springs, timers \ {t})
      BY <1>0, <2>1, <2>2, <2>3, <2>4, ResetTypes, SnapBackTypes DEF SheetShape
    <2>5. CASE /\ t.rechecks < MaxRechecks
               /\ named' = named + 1 /\ closer' = named'
               /\ timers' = (timers \ {t}) \cup {[name |-> named', rechecks |-> t.rechecks + 1]}
               /\ UNCHANGED <<springs, anim, sheet, place>>
      <3>1. t.rechecks + 1 \in 0..MaxRechecks
        BY <1>0, <2>5, SheetBounds DEF SheetNames
      <3>2. timers' \subseteq timers \cup {[name |-> named + 1, rechecks |-> t.rechecks + 1]}
        BY <2>5
      <3>3. PICK n : n = t.rechecks + 1
        OBVIOUS
      <3>4. n \in 0..MaxRechecks /\ timers' \subseteq timers \cup {[name |-> named + 1, rechecks |-> n]}
        BY <3>1, <3>2, <3>3
      <3>5. SheetNames'
        BY <1>0, <2>5, <3>4, NamesGrow DEF SheetNames
      <3>6. SheetKinds'
        BY <1>0, <2>5 DEF SheetKinds
      <3>7. QED
        BY <2>1, <2>2, <3>5, <3>6 DEF SheetShape
    <2>6. QED
      BY <1>5, <2>4, <2>5, Zenon DEF CloseCheck
  <1>6. CASE PressX
    <2>1. SheetFlags'
      BY <1>0, <1>6, Zenon DEF PressX, SheetFlags
    <2>2. SheetModal' /\ SheetNames' /\ SheetKinds'
      BY <1>0, <1>6 DEF PressX, SheetModal, SheetNames, SheetKinds
    <2>3. QED
      BY <2>1, <2>2 DEF SheetShape
  <1>7. CASE ServerAnswers
    <2>1. modal' \in [open: BOOLEAN, round: Nat] /\ asked' \in Nat
      <3>1. modal' \in {modal, [modal EXCEPT !.open = FALSE]} /\ asked > 0 /\ asked' = asked - 1
        BY <1>7, Zenon DEF ServerAnswers
      <3>2. [modal EXCEPT !.open = FALSE] \in [open: BOOLEAN, round: Nat]
        BY <1>0 DEF SheetModal
      <3>3. asked' \in Nat
        BY <1>0, <3>1 DEF SheetModal
      <3>4. QED
        BY <1>0, <3>1, <3>2, <3>3, Zenon DEF SheetModal
    <2>2. finger' \in BOOLEAN
      BY <1>0, <1>7, Zenon DEF ServerAnswers, SheetFlags
    <2>3. SheetFlags'
      BY <1>0, <1>7, <2>2, Zenon DEF ServerAnswers, SheetFlags
    <2>4. SheetNames' /\ SheetKinds'
      BY <1>0, <1>7 DEF ServerAnswers, SheetNames, SheetKinds
    <2>5. QED
      BY <2>1, <2>3, <2>4 DEF SheetShape, SheetModal
  <1>8. CASE OpenAgain
    <2>1. SheetFlags'
      BY <1>0, <1>8, Zenon DEF OpenAgain, SheetFlags
    <2>2. SheetModal'
      BY <1>0, <1>8 DEF OpenAgain, SheetModal
    <2>3. SheetNames' /\ SheetKinds'
      BY <1>0, <1>8, ResetTypes DEF OpenAgain, Fewer
    <2>4. QED
      BY <2>1, <2>2, <2>3 DEF SheetShape
  <1>9. CASE UNCHANGED sheetVars
    <2>1. SheetFlags'
      BY <1>0, <1>9, Zenon DEF sheetVars, SheetFlags
    <2>2. SheetModal' /\ SheetNames' /\ SheetKinds'
      BY <1>0, <1>9 DEF sheetVars, SheetModal, SheetNames, SheetKinds
    <2>3. QED
      BY <2>1, <2>2 DEF SheetShape
  <1>10. QED
    BY <1>1, <1>2, <1>3, <1>4, <1>5, <1>6, <1>7, <1>8, <1>9 DEF SheetNext, SheetRuns

LEMMA SheetTypesAre == SheetShape => SheetTypeOK
  <1> SUFFICES ASSUME SheetShape PROVE SheetTypeOK
    OBVIOUS
  <1>1. {finger, calm, waitedOn, strayed} \subseteq BOOLEAN
    BY Zenon DEF SheetShape, SheetFlags
  <1>2. QED
    BY <1>1 DEF SheetShape, SheetKinds, SheetModal, SheetNames, SheetTypeOK

-----------------------------------------------------------------------------
(* The venue: the hook gives up after so many rebuilds and attempts.       *)

MapKinds ==
    /\ rebuild \in BOOLEAN /\ scripts \in {"loading", "ready", "failed"}
    /\ rebuilds \in 0..MaxRebuilds /\ retries \in Seq(0..MaxTries)

SearchShape ==
    /\ text \in Queries /\ searched \in Queries /\ debounce \in BOOLEAN
    /\ searchToken \in 0..MaxSearches
    /\ calls \subseteq [token: Searches, query: Queries]
    /\ list \in [query: Queries, open: BOOLEAN]

LEMMA RetriesShrink ==
  ASSUME NEW i \in DOMAIN retries, retries \in Seq(0..MaxTries)
  PROVE  /\ [j \in 1..(Len(retries) - 1) |-> retries[IF j < i THEN j ELSE j + 1]] \in Seq(0..MaxTries)
         /\ retries[i] # 0 => [retries EXCEPT ![i] = @ - 1] \in Seq(0..MaxTries)
  <1>1. Len(retries) \in Nat /\ DOMAIN retries = 1..Len(retries) /\ \A j \in 1..Len(retries) : retries[j] \in 0..MaxTries
    BY LenProperties, ElementOfSeq
  <1>2. MaxTries \in Nat
    BY VenueBounds
  <1> DEFINE without == [j \in 1..(Len(retries) - 1) |-> retries[IF j < i THEN j ELSE j + 1]]
             n == Len(retries) - 1
  <1>3. n \in Nat
    BY <1>1
  <1>4. \A j \in 1..n : without[j] \in 0..MaxTries
    <2> TAKE j \in 1..n
    <2>1. j \in 1..Len(retries) /\ j + 1 \in 1..Len(retries)
      BY <1>1
    <2>2. without[j] = IF j < i THEN retries[j] ELSE retries[j + 1]
      OBVIOUS
    <2>3. QED
      BY <1>1, <2>1, <2>2
  <1>5. without \in [1..n -> 0..MaxTries]
    BY <1>4
  <1>6. without \in Seq(0..MaxTries)
    BY <1>3, <1>5, IsASeq
  <1>7. ASSUME retries[i] # 0 PROVE [retries EXCEPT ![i] = @ - 1] \in Seq(0..MaxTries)
    <2>1. retries[i] - 1 \in 0..MaxTries
      BY <1>1, <1>2, <1>7
    <2>2. retries \in [1..Len(retries) -> 0..MaxTries]
      BY <1>1
    <2>3. [retries EXCEPT ![i] = @ - 1] \in [1..Len(retries) -> 0..MaxTries]
      BY <2>1, <2>2
    <2>4. QED
      BY <1>1, <2>3, IsASeq
  <1>8. QED
    BY <1>6, <1>7

LEMMA MapKindsStart == MapInit => MapKinds
  <1> SUFFICES ASSUME MapInit PROVE MapKinds
    OBVIOUS
  <1>1. rebuild \in BOOLEAN
    BY Zenon DEF MapInit
  <1>2. rebuilds \in 0..MaxRebuilds /\ retries \in Seq(0..MaxTries) /\ scripts = "loading"
    BY VenueBounds DEF MapInit
  <1>3. QED
    BY <1>1, <1>2, Zenon DEF MapKinds

LEMMA MapKindsStep == ASSUME MapKinds, MapNext PROVE MapKinds'
  <1>1. CASE ReceiveMarker
    <2>1. UNCHANGED <<rebuild, scripts, rebuilds>> /\ retries' \in {retries, Append(retries, MaxTries)}
      BY <1>1, Zenon DEF ReceiveMarker, AddMarker
    <2>2. Append(retries, MaxTries) \in Seq(0..MaxTries)
      BY VenueBounds, AppendProperties DEF MapKinds
    <2>3. QED
      BY <2>1, <2>2 DEF MapKinds
  <1>2. CASE ScriptsLoad
    <2>1. UNCHANGED <<rebuild, rebuilds, retries>> /\ scripts' \in {"ready", "failed"}
      BY <1>2, Zenon DEF ScriptsLoad
    <2>2. QED
      BY <2>1 DEF MapKinds
  <1>3. CASE MapLoads \/ ClickMap \/ ClickPin \/ LocationSelected \/ ToggleMap \/ LoseSocket \/ RejoinSocket
    <2>1. UNCHANGED <<rebuild, scripts, rebuilds, retries>>
      BY <1>3, Zenon DEF MapLoads, ClickMap, ClickPin, LocationSelected, ToggleMap, LoseSocket, RejoinSocket
    <2>2. QED
      BY <2>1 DEF MapKinds
  <1>4. CASE LoseContext
    <2>0. scripts' = scripts /\ retries' = retries
      BY <1>4, Zenon DEF LoseContext
    <2>1. CASE rebuilds < MaxRebuilds
      <3>1. rebuild' = TRUE /\ rebuilds' = rebuilds + 1
        BY <1>4, <2>1, Zenon DEF LoseContext, MayRebuild
      <3>2. rebuilds' \in 0..MaxRebuilds
        BY <2>1, <3>1, VenueBounds DEF MapKinds
      <3>3. QED
        BY <2>0, <3>1, <3>2, Zenon DEF MapKinds
    <2>2. CASE ~(rebuilds < MaxRebuilds)
      BY <1>4, <2>0, <2>2, Zenon DEF LoseContext, MayRebuild, MapKinds
    <2>3. QED
      BY <2>1, <2>2
  <1>5. CASE RebuildMap
    <2>1. UNCHANGED <<scripts, rebuilds, retries>> /\ rebuild' = FALSE
      BY <1>5, Zenon DEF RebuildMap
    <2>2. QED
      BY <2>1 DEF MapKinds
  <1>6. ASSUME NEW i \in DOMAIN retries, RetryMarker(i) PROVE MapKinds'
    <2> DEFINE without == [j \in 1..(Len(retries) - 1) |-> retries[IF j < i THEN j ELSE j + 1]]
    <2>1. UNCHANGED <<rebuild, scripts, rebuilds>>
      BY <1>6, Zenon DEF RetryMarker
    <2>2. \/ retries' = without
          \/ retries[i] # 0 /\ retries' = [retries EXCEPT ![i] = @ - 1]
      BY <1>6, Zenon DEF RetryMarker
    <2>3. retries' \in Seq(0..MaxTries)
      BY <2>2, RetriesShrink DEF MapKinds
    <2> HIDE DEF without
    <2>4. QED
      BY <2>1, <2>3 DEF MapKinds
  <1>7. ASSUME NEW p \in lookups, AddressFound(p) PROVE MapKinds'
    <2>1. UNCHANGED <<rebuild, scripts, rebuilds, retries>>
      BY <1>7, Zenon DEF AddressFound
    <2>2. QED
      BY <2>1 DEF MapKinds
  <1>8. QED
    BY <1>1, <1>2, <1>3, <1>4, <1>5, <1>6, <1>7 DEF MapNext

LEMMA SearchTypesStart == SearchInit => SearchShape
  <1> SUFFICES ASSUME SearchInit PROVE SearchShape
    OBVIOUS
  <1>1. debounce \in BOOLEAN
    BY Zenon DEF SearchInit
  <1>2. 0 \in Queries /\ 0 \in 0..MaxSearches
    BY SearchBounds DEF Queries
  <1>3. list \in [query: Queries, open: BOOLEAN]
    BY <1>2 DEF SearchInit
  <1>4. QED
    BY <1>1, <1>2, <1>3, Zenon DEF SearchInit, SearchShape

LEMMA RefreshTypes ==
  ASSUME SearchShape, NEW query \in Queries, Refresh(query), text' = text, debounce' \in BOOLEAN
  PROVE  SearchShape'
  <1>1. searchToken' = searchToken + 1 /\ searchToken < MaxSearches /\ searched' = query
        /\ \/ list' = [query |-> query, open |-> TRUE] /\ calls' = calls
           \/ list' = list /\ calls' = calls \cup {[token |-> searchToken', query |-> query]}
    BY Zenon DEF Refresh
  <1>2. searchToken' \in Searches /\ searchToken' \in 0..MaxSearches
    BY <1>1, SearchBounds DEF SearchShape, Searches
  <1>3. [query |-> query, open |-> TRUE] \in [query: Queries, open: BOOLEAN]
    OBVIOUS
  <1>4. [token |-> searchToken', query |-> query] \in [token: Searches, query: Queries]
    BY <1>2
  <1>5. list' \in [query: Queries, open: BOOLEAN] /\ calls' \subseteq [token: Searches, query: Queries]
    BY <1>1, <1>3, <1>4, Zenon DEF SearchShape
  <1>6. QED
    BY <1>1, <1>2, <1>5, Zenon DEF SearchShape

LEMMA SearchTypesStep == ASSUME SearchShape, SearchNext PROVE SearchShape'
  <1>1. CASE Focus
    BY <1>1, RefreshTypes, Zenon DEF Focus, SearchShape
  <1>2. CASE TypeQuery
    BY <1>2, Zenon DEF TypeQuery, SearchShape
  <1>3. CASE DebounceEnds
    BY <1>3, RefreshTypes, Zenon DEF DebounceEnds, SearchShape
  <1>4. CASE SelectResult
    <2>1. text' \in Queries /\ list' = [list EXCEPT !.open = FALSE]
          /\ UNCHANGED <<debounce, searchToken, searched, calls>>
      BY <1>4, Zenon DEF SelectResult
    <2>2. list' \in [query: Queries, open: BOOLEAN]
      BY <2>1 DEF SearchShape
    <2>3. QED
      BY <2>1, <2>2, Zenon DEF SearchShape
  <1>5. CASE CloseList
    <2>1. list' = [list EXCEPT !.open = FALSE] /\ UNCHANGED <<text, debounce, searchToken, searched, calls>>
      BY <1>5, Zenon DEF CloseList
    <2>2. list' \in [query: Queries, open: BOOLEAN]
      BY <2>1 DEF SearchShape
    <2>3. QED
      BY <2>1, <2>2, Zenon DEF SearchShape
  <1>6. ASSUME NEW call \in calls, SearchAnswered(call) PROVE SearchShape'
    <2>1. calls' \subseteq calls /\ list' \in {list, [query |-> call.query, open |-> TRUE]}
          /\ UNCHANGED <<text, debounce, searchToken, searched>>
      BY <1>6, Zenon DEF SearchAnswered
    <2>0. calls \subseteq [token: Searches, query: Queries]
      BY Zenon DEF SearchShape
    <2>2. call.query \in Queries
      BY <2>0
    <2>5. [query |-> call.query, open |-> TRUE] \in [query: Queries, open: BOOLEAN]
      BY <2>2
    <2>3. list' \in [query: Queries, open: BOOLEAN]
      BY <2>1, <2>5, Zenon DEF SearchShape
    <2>4. QED
      BY <2>1, <2>3, Zenon DEF SearchShape
  <1>7. QED
    BY <1>1, <1>2, <1>3, <1>4, <1>5, <1>6 DEF SearchNext

LEMMA VenueTypesStart == VenueInit => MapKinds /\ SearchShape
  BY MapKindsStart, SearchTypesStart DEF VenueInit

LEMMA VenueTypesStep ==
  ASSUME MapKinds, SearchShape, [VenueNext]_venueVars PROVE (MapKinds /\ SearchShape)'
  <1>1. CASE MapNext /\ UNCHANGED searchVars
    <2>1. SearchShape'
      BY <1>1, Zenon DEF SearchShape, searchVars
    <2>2. QED
      BY <1>1, <2>1, MapKindsStep
  <1>2. CASE SearchNext
    <2>1. UNCHANGED <<rebuild, scripts, rebuilds, retries>>
      BY <1>2, Zenon DEF SearchNext, Focus, TypeQuery, DebounceEnds, SelectResult, CloseList,
                         SearchAnswered, mapVars
    <2>2. MapKinds'
      BY <2>1 DEF MapKinds
    <2>3. QED
      BY <1>2, <2>2, SearchTypesStep
  <1>3. CASE UNCHANGED venueVars
    <2>1. MapKinds'
      BY <1>3 DEF venueVars, mapVars, MapKinds
    <2>2. SearchShape'
      BY <1>3, Zenon DEF venueVars, searchVars, SearchShape
    <2>3. QED
      BY <2>1, <2>2
  <1>4. QED
    BY <1>1, <1>2, <1>3 DEF VenueNext

LEMMA VenueTypesAre == PinInv /\ MapKinds /\ SearchShape => VenueTypeOK
  <1> SUFFICES ASSUME PinInv, MapKinds, SearchShape PROVE VenueTypeOK
    OBVIOUS
  <1>0. VenueShape
    BY Zenon DEF PinInv
  <1>1. MaxPlaces \in Nat /\ Storable \subseteq MaybePlace /\ Places \subseteq MaybePlace /\ NoPlace \in MaybePlace
    BY VenueBounds DEF Storable, MaybePlace, Places, NoPlace
  <1>2. {locked, online, pinned, rebuild, crowded, taken} \subseteq BOOLEAN
    BY <1>0, Zenon DEF VenueShape, MapKinds
  <1>3. /\ stored \in MaybePlace /\ pending \in MaybePlace /\ pin \in MaybePlace
        /\ picks \in Seq(Places) /\ lookups \subseteq Places /\ map \in {"none", "building", "loaded"}
    BY <1>0, <1>1 DEF VenueShape
  <1>4. markers \in Seq(MaybePlace)
    BY <1>0, <1>1 DEF VenueShape
  <1>5. MapTypeOK
    BY <1>2, <1>3, <1>4 DEF MapTypeOK, MapKinds
  <1>6. QED
    BY <1>5, Zenon DEF VenueTypeOK, SearchShape

-----------------------------------------------------------------------------
(* The scanner: the life on the page is one of those there have been.      *)

HookLives == [starting: {"no", "permission", "start", "stop"}, scanner: BOOLEAN,
              active: BOOLEAN, destroyed: BOOLEAN, stopRequested: BOOLEAN,
              stopping: BOOLEAN, rejected: BOOLEAN]

LEMMA ScannerTypesStart == ScannerInit => ScannerTypeOK
  <1> SUFFICES ASSUME ScannerInit PROVE ScannerTypeOK
    OBVIOUS
  <1>1. /\ session \in [scanning: BOOLEAN, desk: BOOLEAN] /\ linked \in BOOLEAN
    BY DEF ScannerInit
  <1>2. replies = <<>> /\ life = <<>> /\ mounted = NoLife /\ cameras = {}
    BY DEF ScannerInit
  <1>3. /\ replies \in Seq({"scanning", "setup", "stop-camera"}) /\ life \in Seq(HookLives)
    BY <1>2
  <1>4. QED
    BY <1>1, <1>2, <1>3, Zenon DEF ScannerTypeOK, HookLives

LEMMA LifeIsSet ==
  ASSUME life \in Seq(HookLives), NEW n \in Lives, NEW f \in HookLives, Set(n, f)
  PROVE  life' \in Seq(HookLives) /\ Lives' = Lives
  BY ExceptSeq DEF Set, Lives

\* What stopCamera does to a life leaves it one.
LEMMA StopLeavesLife ==
  ASSUME NEW f \in HookLives
  PROVE  StopCamera(f) \in HookLives
  <1>1. StopCamera(f) \in {f, [f EXCEPT !.stopRequested = TRUE], [f EXCEPT !.stopping = TRUE]}
    BY Zenon DEF StopCamera
  <1>2. QED
    BY <1>1 DEF HookLives

LEMMA ScannerTypesStep == ASSUME ScannerTypeOK, [ScannerNext]_scannerVars PROVE ScannerTypeOK'
  <1>1. /\ session \in [scanning: BOOLEAN, desk: BOOLEAN] /\ linked \in BOOLEAN
        /\ replies \in Seq({"scanning", "setup", "stop-camera"})
        /\ mounted \in Lives \cup {NoLife} /\ cameras \subseteq Lives /\ life \in Seq(HookLives)
    BY Zenon DEF ScannerTypeOK, HookLives
  <1>2. CASE ReceivePage
    <2>1. UNCHANGED <<session, linked, cameras>> /\ replies # <<>> /\ replies' = Tail(replies)
      BY <1>2, Zenon DEF ReceivePage
    <2>2. replies' \in Seq({"scanning", "setup", "stop-camera"})
      BY <1>1, <2>1, HeadTailProperties
    <2>3. mounted' \in Lives' \cup {NoLife} /\ Lives \subseteq Lives' /\ life' \in Seq(HookLives)
      <3>1. CASE MountHook
        <4>1. PICK starting \in {"permission", "no"} :
                 life' = Append(life, [NewLife EXCEPT !.starting = starting])
          BY <3>1, Zenon DEF MountHook
        <4>2. [NewLife EXCEPT !.starting = starting] \in HookLives
          BY DEF NewLife, HookLives
        <4>3. mounted' = Len(life) + 1 /\ Len(life) \in Nat
          BY <1>1, <3>1, LenProperties DEF MountHook
        <4>4. /\ life' \in Seq(HookLives) /\ Lives' = 1..(Len(life) + 1) /\ Lives = 1..Len(life)
          BY <1>1, <4>1, <4>2, AppendProperties, LenProperties DEF Lives
        <4>5. QED
          BY <4>3, <4>4
      <3>2. ASSUME mounted # NoLife, DestroyHook \/ (Set(mounted, StopCamera(life[mounted])) /\ UNCHANGED mounted)
            PROVE  mounted' \in Lives' \cup {NoLife} /\ Lives \subseteq Lives' /\ life' \in Seq(HookLives)
        <4>1. mounted \in Lives
          BY <1>1, <3>2
        <4>2. life[mounted] \in HookLives
          BY <1>1, <4>1, ElementOfSeq DEF Lives
        <4>3. [life[mounted] EXCEPT !.destroyed = TRUE] \in HookLives
          BY <4>2 DEF HookLives
        <4>4. \E f \in HookLives : Set(mounted, f)
          BY <3>2, <4>2, <4>3, StopLeavesLife, Zenon DEF DestroyHook
        <4>5. mounted' \in {mounted, NoLife}
          BY <3>2 DEF DestroyHook
        <4>6. QED
          BY <1>1, <4>1, <4>4, <4>5, LifeIsSet
      <3>3. CASE UNCHANGED <<mounted, life>>
        BY <1>1, <3>3 DEF Lives
      <3>4. QED
        BY <1>2, <3>1, <3>2, <3>3, Zenon DEF ReceivePage
    <2>4. QED
      BY <1>1, <2>1, <2>2, <2>3, Zenon DEF ScannerTypeOK, HookLives
  <1>3. ASSUME NEW n \in Lives, Library(n) \/ StartFails(n) PROVE ScannerTypeOK'
    <2>1. life[n] \in HookLives
      BY <1>1, ElementOfSeq DEF Lives
    <2>2. \E f \in HookLives : Set(n, f)
      <3>1. \E f \in {[life[n] EXCEPT !.starting = "start", !.scanner = TRUE],
                      [life[n] EXCEPT !.starting = "no"],
                      [life[n] EXCEPT !.starting = "stop", !.stopRequested = FALSE],
                      [life[n] EXCEPT !.starting = "no", !.active = TRUE],
                      [life[n] EXCEPT !.starting = "no", !.scanner = FALSE, !.rejected = TRUE],
                      [life[n] EXCEPT !.starting = "no", !.active = FALSE, !.scanner = FALSE],
                      [life[n] EXCEPT !.stopping = FALSE, !.active = FALSE, !.scanner = FALSE],
                      [life[n] EXCEPT !.stopping = FALSE, !.rejected = TRUE]} : Set(n, f)
        BY <1>3, Zenon DEF Library, PermissionSettles, Started, LateStopEnds, StopEnds, StartFails
      <3>2. \A f \in {[life[n] EXCEPT !.starting = "start", !.scanner = TRUE],
                      [life[n] EXCEPT !.starting = "no"],
                      [life[n] EXCEPT !.starting = "stop", !.stopRequested = FALSE],
                      [life[n] EXCEPT !.starting = "no", !.active = TRUE],
                      [life[n] EXCEPT !.starting = "no", !.scanner = FALSE, !.rejected = TRUE],
                      [life[n] EXCEPT !.starting = "no", !.active = FALSE, !.scanner = FALSE],
                      [life[n] EXCEPT !.stopping = FALSE, !.active = FALSE, !.scanner = FALSE],
                      [life[n] EXCEPT !.stopping = FALSE, !.rejected = TRUE]} : f \in HookLives
        BY <2>1, ZenonT(60) DEF HookLives
      <3>3. QED
        BY <3>1, <3>2, Zenon
    <2>3. life' \in Seq(HookLives) /\ Lives' = Lives
      BY <1>1, <2>2, LifeIsSet
    <2>4. UNCHANGED <<session, linked, replies, mounted>>
      BY <1>3, Zenon DEF Library, PermissionSettles, Started, LateStopEnds, StopEnds, StartFails
    <2>5. cameras' \subseteq Lives
      <3>1. cameras' \in {cameras, cameras \cup {n}, cameras \ {n}}
        BY <1>3, Zenon DEF Library, PermissionSettles, Started, LateStopEnds, StopEnds, StartFails
      <3>2. QED
        BY <1>1, <3>1
    <2>6. QED
      BY <1>1, <2>3, <2>4, <2>5, Zenon DEF ScannerTypeOK, HookLives
  <1>4. CASE OpenSession \/ EndSession \/ LoseScanner \/ RejoinScanner
    <2>1. UNCHANGED <<mounted, life, cameras>>
      BY <1>4, Zenon DEF OpenSession, EndSession, LoseScanner, RejoinScanner
    <2>2. Lives' = Lives
      BY <2>1 DEF Lives
    <2>3. linked' \in BOOLEAN
      BY <1>1, <1>4, Zenon DEF OpenSession, EndSession, LoseScanner, RejoinScanner
    <2>4. session' \in [scanning: BOOLEAN, desk: BOOLEAN]
      <3>1. \E on \in BOOLEAN : session' \in {session, [session EXCEPT !.scanning = on]}
        <4>1. (session.scanning /\ session.desk) \in BOOLEAN
          BY Zenon
        <4>2. QED
          BY <1>4, <4>1, Zenon DEF OpenSession, EndSession, LoseScanner, RejoinScanner
      <3>2. QED
        BY <1>1, <3>1
    <2>5. replies' \in Seq({"scanning", "setup", "stop-camera"})
      <3>1. \/ replies' \in {Append(replies, "scanning"), Append(replies, "setup"), <<>>}
            \/ replies' = replies \o <<"stop-camera", "setup">>
            \/ replies' = replies \o <<"setup", "stop-camera">>
        BY <1>4, Zenon DEF OpenSession, EndSession, LoseScanner, RejoinScanner, Show
      <3>2. /\ Append(replies, "scanning") \in Seq({"scanning", "setup", "stop-camera"})
            /\ Append(replies, "setup") \in Seq({"scanning", "setup", "stop-camera"})
        BY <1>1, AppendProperties
      <3>3. /\ <<"stop-camera", "setup">> \in Seq({"scanning", "setup", "stop-camera"})
            /\ <<"setup", "stop-camera">> \in Seq({"scanning", "setup", "stop-camera"})
        OBVIOUS
      <3>4. \A s \in Seq({"scanning", "setup", "stop-camera"}) :
              replies \o s \in Seq({"scanning", "setup", "stop-camera"})
        BY <1>1, ConcatProperties
      <3>5. <<>> \in Seq({"scanning", "setup", "stop-camera"})
        OBVIOUS
      <3>6. QED
        BY <3>1, <3>2, <3>3, <3>4, <3>5, Zenon
    <2>6. QED
      BY <1>1, <2>1, <2>2, <2>3, <2>4, <2>5, Zenon DEF ScannerTypeOK, HookLives
  <1>5. CASE UNCHANGED scannerVars
    BY <1>1, <1>5, Zenon DEF scannerVars, ScannerTypeOK, HookLives, Lives
  <1>6. QED
    BY <1>2, <1>3, <1>4, <1>5, Zenon DEF ScannerNext

-----------------------------------------------------------------------------
(* The editor: whatever goes wrong, what waits and what was said of it is  *)
(* about posts that there are.                                             *)

Drafts == [title: Texts, body: Texts]
EditTypes ==
    /\ wrote \in [title: Texts, body: Texts, last: Fields] /\ unsent \subseteq Fields
    /\ edits \in Nat /\ uploads \in Nat /\ uploads <= edits /\ edits + uploads <= 2 * MaxEdits
PushTypes == pushes \in Seq([event: Fields \cup {"settings"}, text: Texts])
EditorFlags == attached \in BOOLEAN /\ twice \in BOOLEAN /\ mishap \in BOOLEAN

\* A closure, or the news of a save, that is about a post finds the page on one.
Waiting == {c \in [key: 0..Len(posts), values: Drafts] : c.key # Unsaved => editor.post # Unsaved}
Tidings == {n \in [event: {"created", "saved", "failed"}, post: 0..Len(posts)] :
            IF n.event = "created" THEN n.post # Unsaved
            ELSE n.event = "saved" => editor.post # Unsaved}
PostTypes ==
    /\ posts \in Seq(Drafts) /\ editor \in [post: 0..Len(posts), copy: Drafts, values: Drafts]
    /\ delayed \subseteq Waiting /\ notices \in Seq(Tidings)
    /\ \A c, d \in delayed : c.key = d.key => c = d

DraftTypes == EditTypes /\ PushTypes /\ EditorFlags /\ PostTypes

LEMMA TextsAre ==
  /\ 0 \in Texts /\ Absent \in Texts /\ \A n \in 0..(2 * MaxEdits) : n \in Texts
  /\ \A title, body \in Texts : Text(title, body) \in Drafts
  <1>1. 0 \in Texts /\ Absent \in Texts /\ \A n \in 0..(2 * MaxEdits) : n \in Texts
    BY AbsentIs DEF Texts
  <1>2. QED
    BY <1>1 DEF Text, Drafts

LEMMA EditorTypesStart == EditorInit => DraftTypes
  <1> SUFFICES ASSUME EditorInit PROVE DraftTypes
    OBVIOUS
  <1>1. /\ wrote = [title |-> 0, body |-> 0, last |-> "body"] /\ unsent = {} /\ uploads = 0
        /\ pushes = <<>> /\ delayed = {} /\ posts = <<>> /\ notices = <<>> /\ edits = 0
        /\ editor = [post |-> 0, copy |-> Text(0, 0), values |-> Text(0, Absent)]
        /\ twice = FALSE /\ mishap = FALSE /\ attached = TRUE
    BY Zenon DEF EditorInit, Unsaved
  <1>2. EditTypes
    BY <1>1, TextsAre, AbsentIs DEF EditTypes, Fields
  <1>3. PushTypes /\ posts \in Seq(Drafts) /\ notices \in Seq(Tidings) /\ Len(posts) = 0
    BY <1>1, EmptySeq DEF PushTypes
  <1>4. editor \in [post: 0..Len(posts), copy: Drafts, values: Drafts]
    BY <1>1, <1>3, TextsAre
  <1>5. EditorFlags
    BY <1>1, Zenon DEF EditorFlags
  <1>6. QED
    BY <1>1, <1>2, <1>3, <1>4, <1>5 DEF DraftTypes, PostTypes

LEMMA WriteTyped ==
  ASSUME EditTypes, NEW field \in Fields, Write(field),
         uploads' \in Nat, uploads' <= edits', edits' + uploads' <= 2 * MaxEdits
  PROVE  EditTypes'
  <1>1. edits' = edits + 1 /\ wrote' = [wrote EXCEPT ![field] = edits'] /\ unsent' = unsent \cup {field}
        /\ edits' \in Nat
    BY DEF Write, EditTypes
  <1>2. PICK n : n = edits'
    OBVIOUS
  <1>3. n \in Texts
    BY <1>1, <1>2, TextsAre, AbsentIs
  <1>4. wrote' \in [title: Texts, body: Texts, last: Fields] /\ unsent' \subseteq Fields
    BY <1>1, <1>2, <1>3 DEF EditTypes, Fields
  <1>5. QED
    BY <1>1, <1>4 DEF EditTypes

LEMMA EditTypesStep == ASSUME EditTypes, [EditorNext]_editorVars PROVE EditTypes'
  <1>1. /\ wrote \in [title: Texts, body: Texts, last: Fields] /\ unsent \subseteq Fields
        /\ edits \in Nat /\ uploads \in Nat /\ uploads <= edits /\ edits + uploads <= 2 * MaxEdits
    BY DEF EditTypes
  <1>2. ASSUME NEW field \in Fields, TypeText(field) PROVE EditTypes'
    <2>1. edits < MaxEdits /\ Write(field) /\ uploads' = uploads /\ edits' = edits + 1
      BY <1>2 DEF TypeText, Write
    <2>2. QED
      BY <1>1, <2>1, AbsentIs, WriteTyped
  <1>3. CASE AttachFile
    <2>1. edits < MaxEdits /\ Write("body") /\ uploads' = uploads + 1 /\ edits' = edits + 1
      BY <1>3 DEF AttachFile, Write
    <2>2. QED
      BY <1>1, <2>1, AbsentIs, WriteTyped DEF Fields
  <1>4. CASE UploadEnds
    <2>1. uploads > 0 /\ Write("body") /\ uploads' = uploads - 1 /\ edits' = edits + 1
      BY <1>4 DEF UploadEnds, Write
    <2>2. QED
      BY <1>1, <2>1, AbsentIs, WriteTyped DEF Fields
  <1>5. ASSUME NEW field \in Fields, Push(field) PROVE EditTypes'
    <2>1. /\ wrote' = [wrote EXCEPT !.last = field] /\ unsent' \subseteq unsent
          /\ edits' = edits /\ uploads' = uploads
      BY <1>5 DEF Push
    <2>2. QED
      BY <1>1, <2>1 DEF EditTypes
  <1>6. CASE RejoinEditor
    <2>1. /\ wrote' = [wrote EXCEPT !.last = "title"] /\ unsent' \subseteq unsent
          /\ edits' = edits /\ uploads' = uploads
      BY <1>6 DEF RejoinEditor
    <2>2. QED
      BY <1>1, <2>1 DEF EditTypes, Fields
  <1>7. CASE UNCHANGED <<wrote, unsent, edits, uploads>>
    BY <1>7 DEF EditTypes
  <1>8. QED
    BY <1>2, <1>3, <1>4, <1>5, <1>6, <1>7, Zenon
    DEF EditorNext, editorVars, PressSettings, HandleUpdate, HandleSettings, HandleNotice, OtherBegins,
        LoseEditor, SaveRuns

LEMMA PushTypesStep == ASSUME EditTypes, PushTypes, [EditorNext]_editorVars PROVE PushTypes'
  <1> DEFINE Said == [event: Fields \cup {"settings"}, text: Texts]
  <1>1. /\ pushes \in Seq(Said)
        /\ \A field \in Fields : [event |-> field, text |-> wrote[field]] \in Said
        /\ [event |-> "settings", text |-> 0] \in Said
        /\ [event |-> "title", text |-> wrote.title] \in Said
    BY TextsAre DEF EditTypes, PushTypes, Fields
  <1> HIDE DEF Said
  <1>2. ASSUME NEW s \in Said, pushes' = Append(pushes, s) \/ pushes' = <<s>> PROVE pushes' \in Seq(Said)
    <2>1. Append(pushes, s) \in Seq(Said)
      BY <1>1, AppendProperties
    <2>2. <<s>> \in Seq(Said)
      OBVIOUS
    <2>3. QED
      BY <1>2, <2>1, <2>2, Zenon
  <1>3. CASE pushes' = pushes \/ pushes' = <<>> \/ (pushes # <<>> /\ pushes' = Tail(pushes))
    BY <1>1, <1>3, QueueMoves DEF PushTypes, Said
  <1>4. CASE EditorNext
    <2>1. CASE \E field \in Fields : Push(field)
      BY <1>1, <1>2, <1>3, <2>1, Zenon DEF Push, PushTypes, Said
    <2>2. CASE PressSettings
      BY <1>1, <1>2, <2>2, Zenon DEF PressSettings, PushTypes, Said
    <2>3. CASE RejoinEditor
      BY <1>1, <1>2, <2>3, Zenon DEF RejoinEditor, PushTypes, Said
    <2>4. CASE HandleUpdate \/ HandleSettings
      BY <1>3, <2>4, Zenon DEF HandleUpdate, HandleSettings, PushTypes, Said
    <2>5. QED
      BY <1>3, <1>4, <2>1, <2>2, <2>3, <2>4, Zenon
      DEF EditorNext, AttachFile, UploadEnds, HandleNotice, OtherBegins, LoseEditor, SaveRuns, TypeText,
          PushTypes, Said
  <1>5. CASE UNCHANGED editorVars
    <2>1. pushes' = pushes
      BY <1>5, Zenon DEF editorVars
    <2>2. QED
      BY <1>3, <2>1 DEF PushTypes, Said
  <1>6. QED
    BY <1>4, <1>5

LEMMA EditorFlagsStep == ASSUME EditorFlags, [EditorNext]_editorVars PROVE EditorFlags'
  <1>1. \A b \in BOOLEAN, P \in BOOLEAN : (b \/ P) \in BOOLEAN
    OBVIOUS
  <1>2. attached' \in BOOLEAN
    BY Zenon DEF EditorFlags, EditorNext, editorVars, AttachFile, UploadEnds, PressSettings, HandleUpdate,
       HandleSettings, HandleNotice, OtherBegins, LoseEditor, RejoinEditor, TypeText, Push, SaveRuns,
       PageFrame
  <1>3. twice' \in BOOLEAN
    <2>1. HandleUpdate => twice' = (twice \/ (editor.post = Unsaved /\ notices # <<>>))
      BY Zenon DEF HandleUpdate
    <2>2. HandleSettings => twice' = twice \/ twice' = (twice \/ delayed # {} \/ notices # <<>>)
      BY Zenon DEF HandleSettings
    <2>3. HandleUpdate \/ HandleSettings \/ twice' = twice
      BY Zenon DEF EditorNext, editorVars, AttachFile, UploadEnds, PressSettings, HandleNotice, OtherBegins,
         LoseEditor, RejoinEditor, TypeText, Push, SaveRuns, PageFrame
    <2>4. QED
      BY <2>1, <2>2, <2>3, Zenon DEF EditorFlags
  <1>4. mishap' \in BOOLEAN
    BY Zenon DEF EditorFlags, EditorNext, editorVars, AttachFile, UploadEnds, PressSettings, HandleUpdate,
       HandleSettings, HandleNotice, OtherBegins, LoseEditor, RejoinEditor, TypeText, Push, SaveRuns,
       PageFrame
  <1>5. QED
    BY <1>2, <1>3, <1>4, Zenon DEF EditorFlags

\* Posts are only added, and a page that is on one stays on one: what waits and what was
\* said keeps its meaning.
LEMMA PostsCarry ==
  ASSUME PostTypes, posts' \in Seq(Drafts), Len(posts) <= Len(posts'),
         editor' \in [post: 0..Len(posts'), copy: Drafts, values: Drafts],
         editor.post # Unsaved => editor'.post # Unsaved,
         delayed' \subseteq delayed \cup Waiting', \A c, d \in delayed' : c.key = d.key => c = d,
         \/ notices' = notices \/ notices' = <<>> \/ (notices # <<>> /\ notices' = Tail(notices))
         \/ \E n \in Tidings' : notices' = Append(notices, n)
  PROVE  PostTypes'
  <1>1. Len(posts) \in Nat /\ Len(posts') \in Nat /\ notices \in Seq(Tidings) /\ delayed \subseteq Waiting
    BY LenProperties DEF PostTypes
  <1>2. 0..Len(posts) \subseteq 0..Len(posts')
    BY <1>1
  <1>3. Waiting \subseteq Waiting' /\ Tidings \subseteq Tidings'
    BY <1>2 DEF Waiting, Tidings
  <1>4. notices \in Seq(Tidings')
    BY <1>1, <1>3, SeqMonotonic
  <1>5. notices' \in Seq(Tidings')
    BY <1>4, QueueMoves, Zenon
  <1>6. QED
    BY <1>1, <1>3, <1>5 DEF PostTypes

LEMMA PostTypesStep ==
  ASSUME EditTypes, PushTypes, PostTypes, [EditorNext]_editorVars PROVE PostTypes'
  <1>1. /\ posts \in Seq(Drafts) /\ Len(posts) \in Nat /\ DOMAIN posts = 1..Len(posts)
        /\ editor \in [post: 0..Len(posts), copy: Drafts, values: Drafts]
        /\ delayed \subseteq Waiting /\ notices \in Seq(Tidings)
        /\ \A c, d \in delayed : c.key = d.key => c = d
    BY LenProperties DEF PostTypes
  <1>2. \A n \in 1..Len(posts) : posts[n] \in Drafts
    BY <1>1, ElementOfSeq
  <1>3. \A v \in Drafts : Created(v) \in Drafts
    <2>1. SUFFICES ASSUME NEW v \in Drafts PROVE Created(v) \in Drafts
      OBVIOUS
    <2>2. v.title \in Texts /\ v.body \in Texts
      BY DEF Drafts
    <2>3. QED
      BY <2>2, TextsAre DEF Created
  <1>4. CASE HandleUpdate
    <2>1. PICK values : /\ editor' = [editor EXCEPT !.values = values]
                        /\ Delay([key |-> editor.post, values |-> values])
                        /\ values = IF Head(pushes).event = "title" THEN Text(Head(pushes).text, Absent)
                                    ELSE Text(editor.copy.title, Head(pushes).text)
      BY <1>4, Zenon DEF HandleUpdate
    <2>2. values \in Drafts
      <3>1. Head(pushes).text \in Texts
        <4>1. Head(pushes) \in [event: Fields \cup {"settings"}, text: Texts]
          BY <1>4, HeadTailProperties DEF PushTypes, HandleUpdate
        <4>2. QED
          BY <4>1
      <3>2. editor.copy.title \in Texts
        BY <1>1 DEF Drafts
      <3>3. QED
        BY <2>1, <3>1, <3>2, TextsAre
    <2>3. /\ posts' = posts /\ notices' = notices
          /\ editor' \in [post: 0..Len(posts), copy: Drafts, values: Drafts] /\ editor'.post = editor.post
      BY <1>1, <1>4, <2>1, <2>2 DEF HandleUpdate
    <2>4. PICK closure : closure = [key |-> editor.post, values |-> values]
      OBVIOUS
    <2>5. closure \in Waiting' /\ closure.key = editor.post
      BY <1>1, <2>2, <2>3, <2>4 DEF Waiting
    <2>6. delayed' = {c \in delayed : c.key # closure.key} \cup {closure}
      BY <2>1, <2>4, Zenon DEF Delay
    <2>7. delayed' \subseteq delayed \cup Waiting' /\ \A c, d \in delayed' : c.key = d.key => c = d
      BY <1>1, <2>5, <2>6
    <2>8. QED
      BY <1>1, <2>3, <2>7, PostsCarry
  <1>5. CASE HandleSettings
    <2>1. delayed' = delayed /\ notices' = notices
      BY <1>5, Zenon DEF HandleSettings
    <2>2. CASE editor.post # Unsaved
      <3>1. posts' = posts /\ editor' = editor
        BY <1>5, <2>2, Zenon DEF HandleSettings
      <3>2. QED
        BY <1>1, <2>1, <3>1, PostsCarry
    <2>3. CASE editor.post = Unsaved
      <3>1. /\ posts' = Append(posts, Created(editor.values))
            /\ editor' = [editor EXCEPT !.post = Len(posts'), !.copy = posts'[Len(posts')]]
        BY <1>5, <2>3, Zenon DEF HandleSettings
      <3>2. Created(editor.values) \in Drafts
        BY <1>1, <1>3
      <3>3. posts' \in Seq(Drafts) /\ Len(posts') = Len(posts) + 1 /\ posts'[Len(posts')] \in Drafts
        BY <1>1, <3>1, <3>2, AppendProperties
      <3>4. editor' \in [post: 0..Len(posts'), copy: Drafts, values: Drafts] /\ Len(posts) <= Len(posts')
        <4>1. PICK post, copy : post = Len(posts') /\ copy = posts'[Len(posts')]
          OBVIOUS
        <4>2. post \in 0..Len(posts') /\ copy \in Drafts /\ Len(posts) <= Len(posts')
          BY <1>1, <3>3, <4>1
        <4>3. editor' = [editor EXCEPT !.post = post, !.copy = copy]
          BY <3>1, <4>1, Zenon
        <4>4. QED
          BY <1>1, <4>2, <4>3
      <3>5. QED
        BY <1>1, <2>1, <2>3, <3>3, <3>4, PostsCarry
    <2>4. QED
      BY <2>2, <2>3
  <1>6. ASSUME NEW c \in delayed, SaveRuns(c) PROVE PostTypes'
    <2>1. editor' = editor /\ delayed' = delayed \ {c}
      BY <1>6, Zenon DEF SaveRuns
    <2>2. c.key \in 0..Len(posts) /\ c.values \in Drafts /\ (c.key # Unsaved => editor.post # Unsaved)
      BY <1>1 DEF Waiting
    <2>3. c.values.title \in Texts /\ c.values.body \in Texts
      BY <2>2 DEF Drafts
    <2>4. PICK event, post : /\ notices' = notices \/ notices' = Append(notices, [event |-> event, post |-> post])
                             /\ \/ /\ event = "created" /\ post = Len(posts') /\ c.key = Unsaved
                                   /\ posts' = Append(posts, Created(c.values))
                                \/ /\ event = "saved" /\ post = c.key /\ c.key # Unsaved
                                   /\ posts' = [posts EXCEPT ![c.key] = Text(c.values.title,
                                         IF c.values.body = Absent THEN @.body ELSE c.values.body)]
                                \/ event = "failed" /\ post = c.key /\ posts' = posts
      BY <1>6, Zenon DEF SaveRuns, Notify
    <2>5. /\ posts' \in Seq(Drafts) /\ Len(posts') \in Nat /\ Len(posts) <= Len(posts')
          /\ [event |-> event, post |-> post] \in Tidings'
      <3>1. CASE event = "created" /\ post = Len(posts') /\ posts' = Append(posts, Created(c.values))
        <4>1. posts' \in Seq(Drafts) /\ Len(posts') = Len(posts) + 1
          BY <1>1, <1>3, <2>2, <3>1, AppendProperties
        <4>2. QED
          BY <1>1, <3>1, <4>1 DEF Tidings, Unsaved
      <3>2. CASE /\ event = "saved" /\ post = c.key /\ c.key # Unsaved
                 /\ posts' = [posts EXCEPT ![c.key] = Text(c.values.title,
                                         IF c.values.body = Absent THEN @.body ELSE c.values.body)]
        <4>1. c.key \in 1..Len(posts)
          BY <2>2, <3>2 DEF Unsaved
        <4>2. posts[c.key].body \in Texts
          BY <1>2, <4>1 DEF Drafts
        <4>3. PICK draft \in Drafts : posts' = [posts EXCEPT ![c.key] = draft]
          BY <2>3, <3>2, <4>2, TextsAre
        <4>4. posts' \in Seq(Drafts) /\ Len(posts') = Len(posts)
          BY <1>1, <4>1, <4>3, ExceptSeq
        <4>5. QED
          BY <1>1, <2>1, <2>2, <3>2, <4>4 DEF Tidings
      <3>3. CASE event = "failed" /\ post = c.key /\ posts' = posts
        BY <1>1, <2>1, <2>2, <3>3 DEF Tidings
      <3>4. QED
        BY <2>4, <3>1, <3>2, <3>3, Zenon
    <2>6. editor' \in [post: 0..Len(posts'), copy: Drafts, values: Drafts]
      <3>1. 0..Len(posts) \subseteq 0..Len(posts')
        BY <1>1, <2>5
      <3>2. QED
        BY <1>1, <2>1, <3>1
    <2>7. QED
      BY <1>1, <2>1, <2>4, <2>5, <2>6, PostsCarry
  <1>7. CASE HandleNotice
    <2> DEFINE n == Head(notices)
    <2>1. /\ notices # <<>> /\ notices' = Tail(notices) /\ posts' = posts /\ delayed' = delayed
          /\ editor' = LET post == IF n.event = "created" THEN n.post ELSE editor.post
                       IN  IF n.event = "failed" THEN editor
                           ELSE [editor EXCEPT !.post = post, !.copy = posts[post]]
      BY <1>7, Zenon DEF HandleNotice
    <2>2. n \in Tidings
      BY <1>1, <2>1, HeadTailProperties
    <2> HIDE DEF n
    <2>3. CASE n.event = "failed"
      <3>1. editor' = editor /\ UNCHANGED <<posts, delayed>>
            /\ (notices # <<>> /\ notices' = Tail(notices))
        BY <2>1, <2>3, Zenon
      <3>2. QED
        BY <1>1, <3>1, PostsCarry
    <2>4. CASE n.event # "failed"
      <3>1. PICK post \in 1..Len(posts) : editor' = [editor EXCEPT !.post = post, !.copy = posts[post]]
        <4>1. (IF n.event = "created" THEN n.post ELSE editor.post) \in 1..Len(posts)
          BY <1>1, <2>2, <2>4 DEF Tidings, Unsaved
        <4>2. QED
          BY <2>1, <2>4, <4>1
      <3>2. editor' \in [post: 0..Len(posts), copy: Drafts, values: Drafts] /\ editor'.post # Unsaved
        <4>1. PICK copy \in Drafts : editor' = [editor EXCEPT !.post = post, !.copy = copy]
          BY <1>2, <3>1
        <4>2. post \in 0..Len(posts) /\ post # 0
          BY <1>1
        <4>3. QED
          BY <1>1, <4>1, <4>2 DEF Unsaved
      <3>3. UNCHANGED <<posts, delayed>> /\ (notices # <<>> /\ notices' = Tail(notices))
        BY <2>1, Zenon
      <3>4. QED
        BY <1>1, <3>2, <3>3, PostsCarry
    <2>5. QED
      BY <2>3, <2>4
  <1>8. CASE OtherBegins \/ LoseEditor
    <2>1. /\ posts' = posts /\ editor' = editor /\ delayed' \subseteq delayed
          /\ notices' = notices \/ notices' = <<>>
      BY <1>8 DEF OtherBegins, LoseEditor
    <2>2. QED
      BY <1>1, <2>1, PostsCarry
  <1>9. CASE RejoinEditor
    <2>1. /\ posts' = posts /\ delayed' = delayed /\ notices' = notices
          /\ editor' = IF editor.post = Unsaved THEN [editor EXCEPT !.values = Text(0, Absent)]
                       ELSE [editor EXCEPT !.copy = posts[editor.post]]
      BY <1>9, Zenon DEF RejoinEditor
    <2>2. editor' \in [post: 0..Len(posts), copy: Drafts, values: Drafts] /\ editor'.post = editor.post
      <3>1. editor.post # Unsaved => posts[editor.post] \in Drafts
        BY <1>1, <1>2 DEF Unsaved
      <3>2. Text(0, Absent) \in Drafts
        BY TextsAre
      <3>3. QED
        BY <1>1, <2>1, <3>1, <3>2
    <2>3. QED
      BY <1>1, <2>1, <2>2, PostsCarry
  <1>10. CASE UNCHANGED <<editor, delayed, posts, notices>>
    BY <1>1, <1>10, PostsCarry
  <1>11. QED
    BY <1>4, <1>5, <1>6, <1>7, <1>8, <1>9, <1>10, Zenon
    DEF EditorNext, editorVars, AttachFile, UploadEnds, PressSettings, TypeText, Push, PageFrame

LEMMA EditorTypesStep == ASSUME DraftTypes, [EditorNext]_editorVars PROVE DraftTypes'
  BY EditTypesStep, PushTypesStep, EditorFlagsStep, PostTypesStep DEF DraftTypes

LEMMA EditorTypesAre == DraftTypes => EditorTypeOK
  <1> SUFFICES ASSUME DraftTypes PROVE EditorTypeOK
    OBVIOUS
  <1>1. editor.post \in 0..Len(posts) /\ {editor.copy, editor.values} \subseteq [title: Texts, body: Texts]
    BY DEF DraftTypes, PostTypes, Drafts
  <1>2. {attached, twice, mishap} \subseteq BOOLEAN
    BY Zenon DEF DraftTypes, EditorFlags
  <1>3. QED
    BY <1>1, <1>2, Zenon DEF DraftTypes, EditTypes, PostTypes, Drafts, EditorTypeOK

-----------------------------------------------------------------------------
(* The gallery: the reader is always in the list, and the scrubber's timers*)
(* are no more than the years asked for.                                   *)

YearLists == {l \in [from: 1..Years, upto: 1..Years, ended: BOOLEAN] : l.from <= l.upto}
YearPages == [list: YearLists, reset: BOOLEAN, to: 0..Years]
YearBars == [year: 0..Years, debounce: BOOLEAN, pending: 0..Years, retry: SUBSET (1..Years),
             scrolling: BOOLEAN, resets: Nat, glide: 0..Years]
GalleryFlags ==
    /\ picker \in BOOLEAN /\ tall \in BOOLEAN /\ exact \in BOOLEAN /\ serving \in BOOLEAN
    /\ cooling \in BOOLEAN /\ frame \in BOOLEAN /\ resized \in BOOLEAN
    /\ recheck \in {"no", "cooling", "due"}

\* A patch that is not of a year asked for adds to the list before it.
Grows(l, m) == l.from = m.from /\ l.upto <= m.upto
Chain(first, queue) ==
    \A i \in DOMAIN queue : queue[i].reset = FALSE =>
        Grows(IF i = 1 THEN first ELSE queue[i - 1].list, queue[i].list)
GalleryViews ==
    /\ assigns \in YearLists /\ browse \in YearLists /\ reading \in Listed(browse)
    /\ requests \in Seq(0..Years) /\ pages \in Seq(YearPages) /\ Chain(browse, pages)
    /\ serving = FALSE => requests = <<>> /\ pages = <<>>

\* Every timer of the scrubber goes back to a year that was asked for.
OwedNet(called, told) == Cardinality(PositionsOf(called, 1..Years))
                        + Cardinality(PositionsOf(told, {p \in YearPages : p.to # NoYear}))
OwedBar(b) == (IF b.pending = NoYear THEN 0 ELSE 1) + Cardinality(b.retry) + b.resets
WithinJumps ==
    /\ bar \in YearBars /\ moves \in [jumps: 0..MaxJumps, drops: Nat]
    /\ OwedNet(requests, pages) + OwedBar(bar) <= moves.jumps

GalleryTypes == GalleryFlags /\ GalleryViews /\ WithinJumps

LEMMA GalleryFlagsStep == ASSUME GalleryFlags, [GalleryNext]_galleryVars PROVE GalleryFlags'
  <1>1. UNCHANGED <<picker, tall, exact>>
    BY Zenon DEF GalleryNext, galleryVars, pageVars, FrameRuns, RecheckRuns, ResizeSeen, CooldownEnds,
       ScrollSettles, PendingTimer, ScrollingReset, Glides, ReaderScrolls, AskForYear, ServeAsk,
       ReceiveGallery, LoseGallery, RejoinGallery, RetryTimer
  <1>2. serving' \in BOOLEAN
    BY Zenon DEF GalleryFlags, GalleryNext, galleryVars, netVars, FrameRuns, RecheckRuns, ResizeSeen,
       CooldownEnds, ScrollSettles, PendingTimer, ScrollingReset, Glides, ReaderScrolls, AskForYear, ServeAsk,
       ReceiveGallery, LoseGallery, RejoinGallery, RetryTimer
  <1>3. /\ cooling' \in BOOLEAN /\ frame' \in BOOLEAN
        /\ resized' \in BOOLEAN \/ resized' = ~picker
        /\ recheck' \in {recheck, "no", "cooling", "due"}
    BY Zenon DEF GalleryFlags, GalleryNext, galleryVars, clockVars, FrameRuns, RecheckRuns, ResizeSeen,
       CooldownEnds, ScrollSettles, PendingTimer, ScrollingReset, Glides, ReaderScrolls, AskForYear, ServeAsk,
       ReceiveGallery, LoseGallery, RejoinGallery, RetryTimer, Check, Updated
  <1>4. (~picker) \in BOOLEAN
    BY Zenon
  <1>5. recheck' \in {"no", "cooling", "due"}
    BY <1>3 DEF GalleryFlags
  <1>6. resized' \in BOOLEAN
    BY <1>3, <1>4, Zenon
  <1>7. QED
    BY <1>1, <1>2, <1>3, <1>5, <1>6, Zenon DEF GalleryFlags

-----------------------------------------------------------------------------
LEMMA ChainAppended ==
  ASSUME NEW first, NEW queue \in Seq(YearPages), NEW page \in YearPages, Chain(first, queue),
         page.reset = TRUE \/ Grows(IF queue = <<>> THEN first ELSE queue[Len(queue)].list, page.list)
  PROVE  Chain(first, Append(queue, page))
  <1> DEFINE more == Append(queue, page)
  <1>1. /\ Len(queue) \in Nat /\ DOMAIN queue = 1..Len(queue) /\ DOMAIN more = 1..(Len(queue) + 1)
        /\ more[Len(queue) + 1] = page /\ \A i \in 1..Len(queue) : more[i] = queue[i]
        /\ queue = <<>> <=> Len(queue) = 0
    BY AppendProperties, LenProperties, EmptySeq
  <1> HIDE DEF more
  <1>2. SUFFICES ASSUME NEW i \in DOMAIN more, more[i].reset = FALSE
                 PROVE  Grows(IF i = 1 THEN first ELSE more[i - 1].list, more[i].list)
    BY Zenon DEF Chain, more
  <1>3. CASE i \in 1..Len(queue)
    <2>1. Grows(IF i = 1 THEN first ELSE queue[i - 1].list, queue[i].list)
      BY <1>1, <1>2, <1>3 DEF Chain
    <2>2. more[i] = queue[i] /\ (i # 1 => more[i - 1] = queue[i - 1])
      BY <1>1, <1>3
    <2>3. QED
      BY <2>1, <2>2
  <1>4. CASE i = Len(queue) + 1
    <2>1. more[i] = page
      BY <1>1, <1>4
    <2>2. Grows(IF queue = <<>> THEN first ELSE queue[Len(queue)].list, page.list)
      BY <1>2, <2>1
    <2>3. (i = 1 <=> queue = <<>>) /\ (i # 1 => more[i - 1] = queue[Len(queue)])
      BY <1>1, <1>4
    <2>4. QED
      BY <2>1, <2>2, <2>3
  <1>5. QED
    BY <1>1, <1>3, <1>4

LEMMA ChainTaken ==
  ASSUME NEW first, NEW queue \in Seq(YearPages), queue # <<>>, Chain(first, queue)
  PROVE  /\ Chain(Head(queue).list, Tail(queue))
         /\ Head(queue).reset = FALSE => Grows(first, Head(queue).list)
  <1>1. /\ Len(queue) \in Nat /\ Len(queue) > 0 /\ DOMAIN queue = 1..Len(queue)
        /\ DOMAIN Tail(queue) = 1..(Len(queue) - 1)
        /\ \A i \in 1..(Len(queue) - 1) : Tail(queue)[i] = queue[i + 1]
        /\ Head(queue) = queue[1]
    BY HeadTailProperties, LenProperties, EmptySeq
  <1>2. Head(queue).reset = FALSE => Grows(first, Head(queue).list)
    BY <1>1 DEF Chain
  <1>3. SUFFICES ASSUME NEW i \in DOMAIN Tail(queue), Tail(queue)[i].reset = FALSE
                 PROVE  Grows(IF i = 1 THEN Head(queue).list ELSE Tail(queue)[i - 1].list, Tail(queue)[i].list)
    BY <1>2, Zenon DEF Chain
  <1>4. i + 1 \in DOMAIN queue /\ Tail(queue)[i] = queue[i + 1] /\ i + 1 # 1 /\ (i + 1) - 1 = i
        /\ (i # 1 => Tail(queue)[i - 1] = queue[i])
    BY <1>1
  <1>5. Grows(queue[i].list, queue[i + 1].list)
    BY <1>3, <1>4 DEF Chain
  <1>6. QED
    BY <1>1, <1>4, <1>5

LEMMA ListsOfYears ==
  ASSUME exact \in BOOLEAN
  PROVE  /\ \A year \in 1..Years : Loaded(year, year) \in YearLists
         /\ \A l \in YearLists : LoadMore(l) \in YearLists /\ Grows(l, LoadMore(l))
  <1>0. Years \in Nat /\ Years > 0
    BY GalleryBounds
  <1>1. \A from, upto \in 1..Years : from <= upto =>
           Loaded(from, upto) \in YearLists /\ Loaded(from, upto).from = from /\ Loaded(from, upto).upto = upto
    <2>1. SUFFICES ASSUME NEW from \in 1..Years, NEW upto \in 1..Years, from <= upto
                   PROVE  /\ Loaded(from, upto) \in YearLists
                          /\ Loaded(from, upto).from = from /\ Loaded(from, upto).upto = upto
      OBVIOUS
    <2>2. PICK last \in BOOLEAN : Loaded(from, upto) = [from |-> from, upto |-> upto, ended |-> last]
      <3>1. (upto = Years /\ ~exact) \in BOOLEAN
        BY Zenon
      <3>2. QED
        BY <3>1, Zenon DEF Loaded
    <2>3. QED
      BY <2>1, <2>2 DEF YearLists
  <1>2. SUFFICES ASSUME NEW l \in YearLists PROVE LoadMore(l) \in YearLists /\ Grows(l, LoadMore(l))
    BY <1>0, <1>1
  <1>3. l.from \in 1..Years /\ l.upto \in 1..Years /\ l.from <= l.upto /\ l.ended \in BOOLEAN
        /\ l \in [from: 1..Years, upto: 1..Years, ended: BOOLEAN]
    BY DEF YearLists
  <1>4. CASE l.ended = TRUE
    <2>1. LoadMore(l) = l
      BY <1>4, Zenon DEF LoadMore
    <2>2. QED
      BY <1>3, <2>1 DEF Grows
  <1>5. CASE l.ended = FALSE /\ l.upto = Years
    <2>1. LoadMore(l) = [l EXCEPT !.ended = TRUE]
      BY <1>5, Zenon DEF LoadMore
    <2>2. PICK m : m = LoadMore(l)
      OBVIOUS
    <2>3. m \in [from: 1..Years, upto: 1..Years, ended: BOOLEAN] /\ m.from = l.from /\ m.upto = l.upto
      BY <1>3, <2>1, <2>2
    <2>4. m \in YearLists /\ Grows(l, m)
      BY <1>3, <2>3 DEF YearLists, Grows
    <2>5. QED
      BY <2>2, <2>4
  <1>6. CASE l.ended = FALSE /\ l.upto # Years
    <2>1. LoadMore(l) = Loaded(l.from, l.upto + 1)
      BY <1>6, Zenon DEF LoadMore
    <2>2. l.upto + 1 \in 1..Years /\ l.from <= l.upto + 1 /\ l.upto <= l.upto + 1
      BY <1>0, <1>3, <1>6
    <2>3. QED
      BY <1>1, <1>3, <2>1, <2>2 DEF Grows
  <1>7. QED
    BY <1>3, <1>4, <1>5, <1>6

\* What check() asks for is one more page, and only of a server that is there.
LEMMA CheckAsks ==
  ASSUME GalleryViews, serving \in BOOLEAN, NEW at, Check(at)
  PROVE  /\ requests' \in Seq(0..Years)
         /\ requests' = requests \/ (serving = TRUE /\ requests' = Append(requests, More))
  <1>1. requests' = requests \/ (serving = TRUE /\ requests' = Append(requests, More))
    BY Zenon DEF Check
  <1>2. requests \in Seq(0..Years) /\ More \in 0..Years
    BY GalleryBounds DEF GalleryViews, More
  <1>3. QED
    BY <1>1, <1>2, QueueMoves, Zenon

LEMMA GalleryViewsStep ==
  ASSUME GalleryFlags, PageFollows, GalleryViews, [GalleryNext]_galleryVars PROVE GalleryViews'
  <1>1. /\ assigns \in YearLists /\ browse \in YearLists /\ reading \in Listed(browse)
        /\ requests \in Seq(0..Years) /\ pages \in Seq(YearPages) /\ Chain(browse, pages)
        /\ serving = FALSE => requests = <<>> /\ pages = <<>>
    BY Zenon DEF GalleryViews
  <1>2. serving \in BOOLEAN /\ exact \in BOOLEAN /\ picker \in BOOLEAN
    BY DEF GalleryFlags
  <1>3. ASSUME UNCHANGED <<assigns, pages, serving, browse>>, requests' \in Seq(0..Years),
               reading' \in Listed(browse), serving = FALSE => requests' = requests
        PROVE  GalleryViews'
    BY <1>1, <1>3, Zenon DEF GalleryViews, Listed
  <1>4. CASE FrameRuns \/ RecheckRuns \/ ResizeSeen \/ Glides \/ ReaderScrolls
    <2>1. UNCHANGED <<assigns, pages, serving, browse>>
      BY <1>4, Zenon DEF FrameRuns, RecheckRuns, ResizeSeen, Glides, ReaderScrolls
    <2>2. reading' \in Listed(browse)
      BY <1>1, <1>4, Zenon DEF FrameRuns, RecheckRuns, ResizeSeen, Glides, ReaderScrolls
    <2>3. \E at \in {reading, reading'} : Check(at)
      BY <1>4, Zenon DEF FrameRuns, RecheckRuns, ResizeSeen, Glides, ReaderScrolls
    <2>4. requests' \in Seq(0..Years) /\ (serving = FALSE => requests' = requests)
      BY <1>2, <2>3, CheckAsks, Zenon
    <2>5. QED
      BY <1>3, <2>1, <2>2, <2>4
  <1>5. CASE CooldownEnds \/ ScrollSettles \/ PendingTimer \/ ScrollingReset \/ (\E year \in bar.retry : RetryTimer(year))
             \/ UNCHANGED galleryVars
    <2>1. UNCHANGED <<assigns, pages, serving, browse, requests, reading>>
      BY <1>5, Zenon DEF CooldownEnds, ScrollSettles, PendingTimer, ScrollingReset, RetryTimer, galleryVars, netVars
    <2>2. QED
      BY <1>1, <1>3, <2>1
  <1>6. CASE AskForYear
    <2>1. PICK year \in 1..Years : requests' = Append(requests, year)
      BY <1>6 DEF AskForYear
    <2>2. requests' \in Seq(0..Years)
      BY <1>1, <2>1, AppendProperties
    <2>3. UNCHANGED <<assigns, pages, serving, browse, reading>> /\ serving = TRUE
      BY <1>2, <1>6, Zenon DEF AskForYear
    <2>4. QED
      BY <1>1, <1>3, <2>2, <2>3
  <1>7. CASE ServeAsk
    <2> DEFINE ask == Head(requests)
               next == IF ask = More THEN LoadMore(assigns) ELSE Loaded(ask, ask)
    <2>1. /\ requests # <<>> /\ requests' = Tail(requests) /\ assigns' = next
          /\ UNCHANGED <<serving, browse, reading>>
      BY <1>7, Zenon DEF ServeAsk
    <2>2. PICK to \in IF ask = More \/ picker THEN {NoYear} ELSE {ask, NoYear} :
             pages' = IF ask = More /\ next = assigns THEN pages
                      ELSE Append(pages, [list |-> next, reset |-> ask # More, to |-> to])
      BY <1>7, Zenon DEF ServeAsk
    <2>3. ask \in 0..Years /\ requests' \in Seq(0..Years)
      BY <1>1, <2>1, HeadTailProperties
    <2>4. to \in 0..Years
      <3>1. to = NoYear \/ to = ask
        BY <2>2, Zenon
      <3>2. QED
        BY <2>3, <3>1, GalleryBounds DEF NoYear
    <2>5. next \in YearLists /\ (ask = More => Grows(assigns, next))
      <3>1. CASE ask = More
        BY <1>1, <1>2, <3>1, ListsOfYears
      <3>2. CASE ask # More
        <4>1. ask \in 1..Years
          BY <2>3, <3>2, GalleryBounds DEF More
        <4>2. QED
          BY <1>2, <3>2, <4>1, ListsOfYears
      <3>3. QED
        BY <3>1, <3>2
    <2>6. serving = TRUE
      BY <1>1, <1>2, <2>1
    <2>7. assigns = IF pages = <<>> THEN browse ELSE pages[Len(pages)].list
      BY <2>6 DEF PageFollows
    <2> DEFINE reset == ask # More
               page == [list |-> next, reset |-> reset, to |-> to]
    <2>8. reset \in BOOLEAN /\ (reset = TRUE \/ ask = More)
      BY Zenon
    <2>9. pages' = pages \/ pages' = Append(pages, page)
      BY <2>2, Zenon
    <2> HIDE DEF next, reset
    <2>10. page \in YearPages /\ page.list = next /\ page.reset = reset
      BY <2>4, <2>5, <2>8 DEF YearPages
    <2> HIDE DEF page
    <2>11. Chain(browse, Append(pages, page))
      BY <1>1, <2>5, <2>7, <2>8, <2>10, ChainAppended, Zenon
    <2>12. pages' \in Seq(YearPages) /\ Chain(browse, pages')
      <3>1. Append(pages, page) \in Seq(YearPages)
        BY <1>1, <2>10, AppendProperties
      <3>2. QED
        BY <1>1, <2>9, <2>11, <3>1, Zenon
    <2>13. QED
      BY <1>1, <2>1, <2>3, <2>5, <2>6, <2>12, Zenon DEF GalleryViews, Listed
  <1>8. CASE ReceiveGallery
    <2> DEFINE page == Head(pages)
    <2>1. /\ pages # <<>> /\ pages' = Tail(pages) /\ browse' = page.list
          /\ reading' = IF page.reset THEN page.list.from ELSE reading
          /\ UNCHANGED <<assigns, requests, serving>>
      BY <1>8, Zenon DEF ReceiveGallery
    <2>2. page \in YearPages /\ pages' \in Seq(YearPages)
      BY <1>1, <2>1, HeadTailProperties
    <2>3. Chain(page.list, Tail(pages)) /\ (page.reset = FALSE => Grows(browse, page.list))
      BY <1>1, <2>1, ChainTaken
    <2>4. Chain(browse', pages')
      BY <2>1, <2>3, Zenon
    <2> HIDE DEF page
    <2>5. /\ page.list \in YearLists /\ page.reset \in BOOLEAN
          /\ page.list.from \in 1..Years /\ page.list.upto \in 1..Years /\ page.list.from <= page.list.upto
      BY <2>2 DEF YearPages, YearLists
    <2>6. reading' \in Listed(page.list)
      <3>1. CASE page.reset = TRUE
        <4>1. reading' = page.list.from
          BY <2>1, <3>1, Zenon
        <4>2. QED
          BY <2>5, <4>1 DEF Listed
      <3>2. CASE page.reset = FALSE
        <4>1. reading' = reading
          BY <2>1, <3>2, Zenon
        <4>2. browse.from \in 1..Years /\ browse.upto \in 1..Years
          BY <1>1 DEF YearLists
        <4>3. QED
          BY <1>1, <2>3, <2>5, <3>2, <4>1, <4>2 DEF Listed, Grows
      <3>3. QED
        BY <2>5, <3>1, <3>2
    <2>7. serving = TRUE
      BY <1>1, <1>2, <2>1
    <2>8. reading' \in Listed(browse)'
      BY <2>1, <2>6, Zenon DEF Listed
    <2>9. QED
      BY <1>1, <2>1, <2>2, <2>4, <2>5, <2>7, <2>8, Zenon DEF GalleryViews
  <1>9. CASE LoseGallery
    <2>1. /\ requests' = <<>> /\ pages' = <<>> /\ UNCHANGED <<assigns, browse, reading>>
      BY <1>9, Zenon DEF LoseGallery
    <2>2. requests' \in Seq(0..Years) /\ pages' \in Seq(YearPages) /\ DOMAIN pages' = {}
      BY <2>1, EmptySeq
    <2>3. Chain(browse', pages')
      BY <2>2, Zenon DEF Chain
    <2>4. QED
      BY <1>1, <2>1, <2>2, <2>3, Zenon DEF GalleryViews, Listed
  <1>10. CASE RejoinGallery
    <2>1. /\ serving = FALSE /\ serving' = TRUE /\ assigns' = Loaded(1, 1)
          /\ pages' = <<[list |-> assigns', reset |-> TRUE, to |-> NoYear]>>
          /\ UNCHANGED <<requests, browse, reading>>
      BY <1>2, <1>10, Zenon DEF RejoinGallery
    <2>2. assigns' \in YearLists
      BY <1>2, <2>1, ListsOfYears, GalleryBounds
    <2>3. PICK page : page = [list |-> assigns', reset |-> TRUE, to |-> NoYear]
      OBVIOUS
    <2>4. page \in YearPages /\ page.reset = TRUE
      BY <2>2, <2>3, GalleryBounds DEF YearPages, NoYear
    <2>5. pages' = <<page>>
      BY <2>1, <2>3, Zenon
    <2>6. pages' \in Seq(YearPages) /\ \A i \in DOMAIN pages' : pages'[i].reset = TRUE
      BY <2>4, <2>5
    <2>7. Chain(browse', pages')
      BY <2>6 DEF Chain
    <2>8. QED
      BY <1>1, <2>1, <2>2, <2>6, <2>7, Zenon DEF GalleryViews, Listed
  <1>11. QED
    BY <1>4, <1>5, <1>6, <1>7, <1>8, <1>9, <1>10, Zenon DEF GalleryNext

-----------------------------------------------------------------------------
LEMMA NetIs ==
  ASSUME NEW called \in Seq(0..Years), NEW told \in Seq(YearPages)
  PROVE  OwedNet(called, told) \in Nat
  <1>1. Cardinality(PositionsOf(called, 1..Years)) \in Nat
    BY PositionsAreCounted
  <1>2. Cardinality(PositionsOf(told, {p \in YearPages : p.to # NoYear})) \in Nat
    BY PositionsAreCounted
  <1>3. QED
    BY <1>1, <1>2 DEF OwedNet

LEMMA BarIs ==
  ASSUME NEW b \in YearBars
  PROVE  IsFiniteSet(b.retry) /\ Cardinality(b.retry) \in Nat /\ OwedBar(b) \in Nat
  <1>1. b.retry \subseteq 1..Years /\ b.resets \in Nat
    BY DEF YearBars
  <1>2. IsFiniteSet(b.retry) /\ Cardinality(b.retry) \in Nat
    <2>1. IsFiniteSet(1..Years)
      BY GalleryBounds, FS_Interval
    <2>2. QED
      BY <1>1, <2>1, FS_Subset, FS_CardinalityType
  <1>3. QED
    BY <1>1, <1>2 DEF OwedBar

\* What the net brings and what the scrubber waits for, together, do not become more.
LEMMA OwedStays ==
  ASSUME WithinJumps, requests \in Seq(0..Years), pages \in Seq(YearPages),
         requests' \in Seq(0..Years), pages' \in Seq(YearPages), bar' \in YearBars,
         moves' \in [jumps: 0..MaxJumps, drops: Nat], moves'.jumps = moves.jumps,
         OwedNet(requests', pages') + OwedBar(bar') <= OwedNet(requests, pages) + OwedBar(bar)
  PROVE  WithinJumps'
  <1>1. PICK queued, left, more, grown :
           /\ queued = OwedNet(requests, pages) /\ left = OwedBar(bar)
           /\ more = OwedNet(requests', pages') /\ grown = OwedBar(bar')
    OBVIOUS
  <1>2. queued \in Nat /\ left \in Nat /\ more \in Nat /\ grown \in Nat /\ moves.jumps \in Nat
    BY <1>1, NetIs, BarIs, GalleryBounds DEF WithinJumps
  <1>3. queued + left <= moves.jumps /\ more + grown <= queued + left
    BY <1>1 DEF WithinJumps
  <1>4. more + grown <= moves.jumps
    BY ONLY <1>2, <1>3
  <1>5. QED
    BY <1>1, <1>4 DEF WithinJumps

LEMMA SameBar ==
  ASSUME NEW b \in YearBars, NEW c \in YearBars,
         c.pending = b.pending, c.retry = b.retry, c.resets = b.resets
  PROVE  OwedBar(c) = OwedBar(b)
  BY Zenon DEF OwedBar

LEMMA HandledBar ==
  ASSUME NEW b \in YearBars
  PROVE  HandleScroll(b) \in YearBars /\ OwedBar(HandleScroll(b)) = OwedBar(b)
         /\ HandleScroll(b).pending = b.pending /\ HandleScroll(b).retry = b.retry
         /\ HandleScroll(b).resets = b.resets
  <1>1. HandleScroll(b) \in {b, [b EXCEPT !.debounce = TRUE]}
    BY Zenon DEF HandleScroll
  <1>2. /\ HandleScroll(b) \in YearBars /\ HandleScroll(b).pending = b.pending
        /\ HandleScroll(b).retry = b.retry /\ HandleScroll(b).resets = b.resets
    BY <1>1 DEF YearBars
  <1>3. QED
    BY <1>2, SameBar

LEMMA ScrolledBar ==
  ASSUME NEW b \in YearBars, NEW year \in 1..Years
  PROVE  ScrollToYear(b, year) \in YearBars /\ OwedBar(ScrollToYear(b, year)) <= OwedBar(b) + 1
  <1>1. CASE year \in Listed(browse)
    <2>1. PICK n, c : n = b.resets + 1 /\ c = ScrollToYear(b, year)
      OBVIOUS
    <2>2. c = [b EXCEPT !.scrolling = TRUE, !.resets = n, !.glide = year]
      BY <1>1, <2>1, Zenon DEF ScrollToYear
    <2>3. n \in Nat /\ year \in 0..Years
      BY <2>1, GalleryBounds DEF YearBars
    <2>4. c \in YearBars /\ c.pending = b.pending /\ c.retry = b.retry /\ c.resets = n
      BY <2>2, <2>3 DEF YearBars
    <2>5. OwedBar(c) = OwedBar(b) + 1
      <3>1. b.resets \in Nat /\ Cardinality(b.retry) \in Nat
        BY BarIs DEF YearBars
      <3>2. QED
        BY <2>1, <2>4, <3>1 DEF OwedBar
    <2>6. OwedBar(b) \in Nat
      BY BarIs
    <2>7. QED
      BY <2>1, <2>4, <2>5, <2>6
  <1>2. CASE year \notin Listed(browse)
    <2>1. PICK c : c = ScrollToYear(b, year)
      OBVIOUS
    <2>2. c = [b EXCEPT !.retry = @ \cup {year}]
      BY <1>2, <2>1, Zenon DEF ScrollToYear
    <2>3. c \in YearBars /\ c.pending = b.pending /\ c.retry = b.retry \cup {year} /\ c.resets = b.resets
      BY <2>2 DEF YearBars
    <2>4. Cardinality(c.retry) <= Cardinality(b.retry) + 1 /\ Cardinality(c.retry) \in Nat
      <3>1. Cardinality(b.retry) \in Nat
        BY BarIs
      <3>2. PICK old : old = b.retry
        OBVIOUS
      <3>3. IsFiniteSet(old) /\ Cardinality(old) \in Nat
        BY <3>2, BarIs
      <3>4. /\ Cardinality(old \cup {year}) = Cardinality(old) \/ Cardinality(old \cup {year}) = Cardinality(old) + 1
        BY <3>3, FS_AddElement
      <3>5. c.retry = old \cup {year}
        BY <2>3, <3>2
      <3>6. QED
        BY <3>2, <3>3, <3>4, <3>5
    <2>5. OwedBar(c) <= OwedBar(b) + 1
      <3>1. PICK r, s : r = Cardinality(b.retry) /\ s = Cardinality(c.retry)
        OBVIOUS
      <3>2. r \in Nat /\ s \in Nat /\ s <= r + 1 /\ b.resets \in Nat
        BY <2>4, <3>1, BarIs DEF YearBars
      <3>3. QED
        BY <2>3, <3>1, <3>2 DEF OwedBar
    <2>6. QED
      BY <2>1, <2>3, <2>5
  <1>3. QED
    BY <1>1, <1>2

LEMMA WithinJumpsStep ==
  ASSUME GalleryFlags, GalleryViews, GalleryViews', WithinJumps, [GalleryNext]_galleryVars PROVE WithinJumps'
  <1>1. /\ bar \in YearBars /\ moves \in [jumps: 0..MaxJumps, drops: Nat]
        /\ requests \in Seq(0..Years) /\ pages \in Seq(YearPages)
        /\ requests' \in Seq(0..Years) /\ pages' \in Seq(YearPages)
    BY Zenon DEF WithinJumps, GalleryViews
  <1>2. OwedNet(requests, pages) \in Nat /\ OwedBar(bar) \in Nat /\ OwedNet(requests', pages') \in Nat
    BY <1>1, NetIs, BarIs
  <1>3. ASSUME moves' = moves, bar' \in YearBars,
               OwedNet(requests', pages') + OwedBar(bar') <= OwedNet(requests, pages) + OwedBar(bar)
        PROVE  WithinJumps'
    BY <1>1, <1>3, OwedStays
  <1>4. ASSUME moves' = moves, bar' \in YearBars, OwedBar(bar') <= OwedBar(bar),
               UNCHANGED <<requests, pages>> \/ (requests' = Append(requests, More) /\ pages' = pages)
        PROVE  WithinJumps'
    <2>1. OwedNet(requests', pages') = OwedNet(requests, pages)
      <3>1. CASE UNCHANGED <<requests, pages>>
        BY <3>1
      <3>2. CASE requests' = Append(requests, More) /\ pages' = pages
        <4>1. More \in 0..Years /\ More \notin 1..Years
          BY GalleryBounds DEF More
        <4>2. PositionsOf(requests', 1..Years) = PositionsOf(requests, 1..Years)
          BY <1>1, <3>2, <4>1, PositionAdded, ZenonT(60)
        <4>3. QED
          BY <3>2, <4>2, Zenon DEF OwedNet
      <3>3. QED
        BY <1>4, <3>1, <3>2
    <2>2. OwedBar(bar') \in Nat
      BY <1>4, BarIs
    <2>3. PICK queued, left, less : queued = OwedNet(requests, pages) /\ left = OwedBar(bar) /\ less = OwedBar(bar')
      OBVIOUS
    <2>4. queued + less <= queued + left
      BY <1>2, <1>4, <2>2, <2>3
    <2>5. QED
      BY <1>3, <1>4, <2>1, <2>3, <2>4
  <1>5. CASE FrameRuns \/ RecheckRuns \/ ResizeSeen \/ Glides \/ ReaderScrolls
    <2>1. moves' = moves /\ pages' = pages /\ \E at \in {reading, reading'} : Check(at)
      BY <1>5, Zenon DEF FrameRuns, RecheckRuns, ResizeSeen, Glides, ReaderScrolls
    <2>2. requests' = requests \/ requests' = Append(requests, More)
      BY <2>1, Zenon DEF Check
    <2>3. bar' = bar \/ bar' = [HandleScroll(bar) EXCEPT !.glide = NoYear]
      BY <1>5, Zenon DEF FrameRuns, RecheckRuns, ResizeSeen, Glides, ReaderScrolls
    <2>4. bar' \in YearBars /\ OwedBar(bar') = OwedBar(bar)
      <3>1. CASE bar' = [HandleScroll(bar) EXCEPT !.glide = NoYear]
        <4>1. PICK b : b = HandleScroll(bar)
          OBVIOUS
        <4>2. b \in YearBars /\ b.pending = bar.pending /\ b.retry = bar.retry /\ b.resets = bar.resets
          BY <1>1, <4>1, HandledBar
        <4>3. /\ bar' \in YearBars /\ bar'.pending = bar.pending /\ bar'.retry = bar.retry
              /\ bar'.resets = bar.resets
          BY <3>1, <4>1, <4>2, GalleryBounds DEF YearBars, NoYear
        <4>4. QED
          BY <1>1, <4>3, SameBar
      <3>2. QED
        BY <1>1, <2>3, <3>1
    <2>5. OwedBar(bar') <= OwedBar(bar)
      BY <1>2, <2>4
    <2>6. QED
      BY <1>4, <2>1, <2>2, <2>4, <2>5
  <1>6. CASE CooldownEnds \/ ScrollSettles \/ UNCHANGED galleryVars
    <2>1. moves' = moves /\ UNCHANGED <<requests, pages>>
      BY <1>6, Zenon DEF CooldownEnds, ScrollSettles, galleryVars, netVars
    <2>2. bar' = bar \/ bar' = [bar EXCEPT !.debounce = FALSE, !.year = reading]
      BY <1>6, Zenon DEF CooldownEnds, ScrollSettles, galleryVars
    <2>3. reading \in 0..Years
      BY GalleryBounds, SMTT(30) DEF GalleryViews, YearLists, Listed
    <2>4. bar' \in YearBars /\ bar'.pending = bar.pending /\ bar'.retry = bar.retry /\ bar'.resets = bar.resets
      BY <1>1, <2>2, <2>3 DEF YearBars
    <2>5. OwedBar(bar') <= OwedBar(bar)
      BY <1>1, <1>2, <2>4, SameBar
    <2>6. QED
      BY <1>4, <2>1, <2>4, <2>5
  <1>7. CASE PendingTimer
    <2>1. PICK b, year : b = [bar EXCEPT !.pending = NoYear] /\ year = bar.pending
      OBVIOUS
    <2>2. year # NoYear /\ bar' = ScrollToYear(b, year) /\ moves' = moves /\ UNCHANGED <<requests, pages>>
      BY <1>7, <2>1, Zenon DEF PendingTimer, netVars
    <2>3. /\ b \in YearBars /\ b.pending = NoYear /\ b.retry = bar.retry /\ b.resets = bar.resets
          /\ year \in 1..Years
      <3>1. 0 \in 0..Years /\ year \in 0..Years /\ year # 0
        BY <1>1, <2>1, <2>2, GalleryBounds DEF YearBars, NoYear
      <3>2. b \in YearBars /\ b.pending = NoYear /\ b.retry = bar.retry /\ b.resets = bar.resets
        BY <1>1, <2>1, <3>1 DEF YearBars, NoYear
      <3>3. QED
        BY <3>1, <3>2
    <2>4. OwedBar(b) + 1 = OwedBar(bar)
      <3>1. Cardinality(b.retry) \in Nat /\ b.resets \in Nat
        BY <2>3, BarIs DEF YearBars
      <3>2. QED
        BY <2>1, <2>2, <2>3, <3>1 DEF OwedBar
    <2>5. bar' \in YearBars /\ OwedBar(bar') <= OwedBar(b) + 1
      BY <2>2, <2>3, ScrolledBar
    <2>6. QED
      BY <1>4, <2>2, <2>4, <2>5
  <1>8. ASSUME NEW year \in bar.retry, RetryTimer(year) PROVE WithinJumps'
    <2>1. PICK b : b = [bar EXCEPT !.retry = @ \ {year}]
      OBVIOUS
    <2>2. /\ bar' = ScrollToYear(b, year) \/ bar' = b
          /\ moves' = moves /\ UNCHANGED <<requests, pages>>
      BY <1>8, <2>1, Zenon DEF RetryTimer, netVars
    <2>3. /\ b \in YearBars /\ b.pending = bar.pending /\ b.retry = bar.retry \ {year} /\ b.resets = bar.resets
          /\ year \in 1..Years
      BY <1>1, <2>1 DEF YearBars
    <2>4. OwedBar(b) + 1 = OwedBar(bar)
      <3>1. Cardinality(b.retry) = Cardinality(bar.retry) - 1
        <4>1. PICK old : old = bar.retry
          OBVIOUS
        <4>2. IsFiniteSet(old) /\ year \in old /\ b.retry = old \ {year}
          BY <1>1, <2>3, <4>1, BarIs
        <4>3. Cardinality(old \ {year}) = Cardinality(old) - 1
          BY <4>2, FS_RemoveElement
        <4>4. QED
          BY <4>1, <4>2, <4>3
      <3>2. Cardinality(bar.retry) \in Nat /\ Cardinality(b.retry) \in Nat /\ b.resets \in Nat
        BY <1>1, <2>3, BarIs DEF YearBars
      <3>3. QED
        BY <2>3, <3>1, <3>2 DEF OwedBar
    <2>5. bar' \in YearBars /\ OwedBar(bar') <= OwedBar(b) + 1
      <3>1. OwedBar(b) \in Nat
        BY <2>3, BarIs
      <3>2. QED
        BY <2>2, <2>3, <3>1, ScrolledBar
    <2>6. QED
      BY <1>4, <2>2, <2>4, <2>5
  <1>9. CASE ScrollingReset
    <2>1. PICK b, n : b = [bar EXCEPT !.resets = n, !.scrolling = FALSE] /\ n = bar.resets - 1
      OBVIOUS
    <2>2. /\ bar.resets > 0 /\ bar' = HandleScroll(b) /\ moves' = moves /\ UNCHANGED <<requests, pages>>
      BY <1>9, <2>1, Zenon DEF ScrollingReset, netVars
    <2>3. n \in Nat /\ bar.resets \in Nat
      BY <1>1, <2>1, <2>2 DEF YearBars
    <2>4. b \in YearBars /\ b.pending = bar.pending /\ b.retry = bar.retry /\ b.resets = n
      BY <1>1, <2>1, <2>3 DEF YearBars
    <2>5. OwedBar(b) + 1 = OwedBar(bar)
      <3>1. Cardinality(b.retry) \in Nat
        BY <2>4, BarIs
      <3>2. QED
        BY <2>1, <2>3, <2>4, <3>1 DEF OwedBar
    <2>6. bar' \in YearBars /\ OwedBar(bar') = OwedBar(b) /\ OwedBar(b) \in Nat
      BY <2>2, <2>4, HandledBar, BarIs
    <2>7. QED
      BY <1>4, <2>2, <2>5, <2>6
  <1>10. CASE AskForYear
    <2>1. PICK year \in 1..Years : requests' = Append(requests, year)
      BY <1>10 DEF AskForYear
    <2>2. /\ moves.jumps < MaxJumps /\ moves' = [moves EXCEPT !.jumps = @ + 1]
          /\ pages' = pages /\ bar' = bar
      BY <1>10, Zenon DEF AskForYear
    <2>3. moves' \in [jumps: 0..MaxJumps, drops: Nat] /\ moves'.jumps = moves.jumps + 1
      <3>1. PICK n : n = moves.jumps + 1
        OBVIOUS
      <3>2. n \in 0..MaxJumps
        BY <1>1, <2>2, <3>1, GalleryBounds
      <3>3. moves' = [moves EXCEPT !.jumps = n]
        BY <2>2, <3>1, Zenon
      <3>4. QED
        BY <1>1, <3>1, <3>2, <3>3
    <2>4. OwedNet(requests', pages') <= OwedNet(requests, pages) + 1
      <3>1. PICK called, more, told :
              /\ called = Cardinality(PositionsOf(requests, 1..Years))
              /\ more = Cardinality(PositionsOf(requests', 1..Years))
              /\ told = Cardinality(PositionsOf(pages, {p \in YearPages : p.to # NoYear}))
        OBVIOUS
      <3>2. more <= called + 1
        <4>1. year \in 0..Years
          BY <2>1
        <4>2. Cardinality(PositionsOf(Append(requests, year), 1..Years)) <= called + 1
          BY <1>1, <3>1, <4>1, PositionAdded
        <4>3. QED
          BY <2>1, <3>1, <4>2
      <3>3. called \in Nat /\ more \in Nat /\ told \in Nat
        BY <1>1, <3>1, PositionsAreCounted
      <3>4. OwedNet(requests, pages) = called + told /\ OwedNet(requests', pages') = more + told
        BY <2>2, <3>1, Zenon DEF OwedNet
      <3>5. QED
        BY <3>2, <3>3, <3>4
    <2>5. PICK queued, more, left : /\ queued = OwedNet(requests, pages) /\ more = OwedNet(requests', pages')
                                 /\ left = OwedBar(bar)
      OBVIOUS
    <2>6. more + left <= moves.jumps + 1
      <3>1. moves.jumps \in Nat
        BY <1>1, GalleryBounds
      <3>2. queued + left <= moves.jumps
        BY <2>5 DEF WithinJumps
      <3>3. QED
        BY <1>2, <2>4, <2>5, <3>1, <3>2
    <2>7. OwedNet(requests', pages') + OwedBar(bar') <= moves'.jumps
      BY <2>2, <2>3, <2>5, <2>6
    <2>8. QED
      BY <1>1, <2>2, <2>3, <2>7 DEF WithinJumps
  <1>11. CASE ServeAsk
    <2> DEFINE ask == Head(requests)
               next == IF ask = More THEN LoadMore(assigns) ELSE Loaded(ask, ask)
               jumping == {p \in YearPages : p.to # NoYear}
    <2>1. requests # <<>> /\ requests' = Tail(requests) /\ assigns' = next /\ bar' = bar /\ moves' = moves
      BY <1>11, Zenon DEF ServeAsk
    <2>2. PICK to \in IF ask = More \/ picker THEN {NoYear} ELSE {ask, NoYear} :
             pages' = IF ask = More /\ next = assigns THEN pages
                      ELSE Append(pages, [list |-> next, reset |-> ask # More, to |-> to])
      BY <1>11, Zenon DEF ServeAsk
    <2>3. ask \in 0..Years
      BY <1>1, <2>1, HeadTailProperties
    <2>4. next \in YearLists
      BY <2>1 DEF GalleryViews
    <2>5. to \in 0..Years /\ (ask = More => to = NoYear)
      <3>1. (to = NoYear \/ to = ask) /\ (ask = More => to = NoYear)
        BY <2>2, Zenon
      <3>2. QED
        BY <2>3, <3>1, GalleryBounds DEF NoYear
    <2>6. PICK reset \in BOOLEAN : reset = (ask # More)
      BY Zenon
    <2>7. PICK page : page = [list |-> next, reset |-> reset, to |-> to]
      OBVIOUS
    <2>8. pages' = pages \/ pages' = Append(pages, page)
      BY <2>2, <2>6, <2>7, Zenon
    <2> HIDE DEF next
    <2>9. page \in YearPages /\ page.to = to
      BY <2>4, <2>5, <2>7 DEF YearPages
    <2> HIDE DEF ask
    <2>10. PICK called, less, told, more :
              /\ called = Cardinality(PositionsOf(requests, 1..Years))
              /\ less = Cardinality(PositionsOf(requests', 1..Years))
              /\ told = Cardinality(PositionsOf(pages, jumping))
              /\ more = Cardinality(PositionsOf(pages', jumping))
      OBVIOUS
    <2>11. called \in Nat /\ less \in Nat /\ told \in Nat /\ more \in Nat
      BY <1>1, <2>10, PositionsAreCounted
    <2>12. less <= called /\ (ask # More => less + 1 <= called)
      <3>1. ask # More => ask \in 1..Years
        BY <2>3, GalleryBounds DEF More
      <3>2. QED
        BY <1>1, <2>1, <2>10, <3>1, PositionTaken DEF ask
    <2>13. more <= told + 1 /\ (ask = More => more = told)
      <3>1. CASE pages' = pages
        BY <2>10, <2>11, <3>1
      <3>2. CASE pages' = Append(pages, page)
        <4>1. ask = More => page \notin jumping
          BY <2>5, <2>9
        <4>2. more <= told + 1
          BY <1>1, <2>9, <2>10, <3>2, PositionAdded
        <4>3. page \notin jumping => PositionsOf(pages', jumping) = PositionsOf(pages, jumping)
          BY <1>1, <2>9, <3>2, PositionAdded, Zenon
        <4>4. page \notin jumping => more = told
          BY <2>10, <4>3, Zenon
        <4>5. QED
          BY <4>1, <4>2, <4>4
      <3>3. QED
        BY <2>8, <3>1, <3>2
    <2>14. less + more <= called + told
      BY ONLY <2>11, <2>12, <2>13
    <2>15. OwedNet(requests, pages) = called + told /\ OwedNet(requests', pages') = less + more
      BY <2>10, Zenon DEF OwedNet
    <2>16. PICK left \in Nat : left = OwedBar(bar) /\ left = OwedBar(bar')
      BY <1>2, <2>1
    <2>17. less + more + left <= called + told + left
      BY <2>11, <2>14
    <2>18. QED
      BY <1>1, <1>3, <2>1, <2>15, <2>16, <2>17
  <1>12. CASE ReceiveGallery
    <2> DEFINE page == Head(pages)
               jumping == {p \in YearPages : p.to # NoYear}
    <2>1. /\ pages # <<>> /\ pages' = Tail(pages) /\ moves' = moves /\ requests' = requests
          /\ bar' = [HandleScroll(bar) EXCEPT !.pending = IF page.to = NoYear THEN @ ELSE page.to]
      BY <1>12, Zenon DEF ReceiveGallery
    <2>2. page \in YearPages /\ page.to \in 0..Years
      <3>1. page \in YearPages
        BY <1>1, <2>1, HeadTailProperties
      <3>2. QED
        BY <3>1 DEF YearPages
    <2>3. PICK b, kept : /\ b = HandleScroll(bar)
                            /\ kept = IF page.to = NoYear THEN b.pending ELSE page.to
      OBVIOUS
    <2>4. b \in YearBars /\ b.pending = bar.pending /\ b.retry = bar.retry /\ b.resets = bar.resets
      BY <1>1, <2>3, HandledBar
    <2>5. bar' = [b EXCEPT !.pending = kept] /\ kept \in 0..Years
      BY <2>1, <2>2, <2>3, <2>4 DEF YearBars
    <2>6. /\ bar' \in YearBars /\ bar'.pending = kept /\ bar'.retry = bar.retry
          /\ bar'.resets = bar.resets
      BY <2>4, <2>5 DEF YearBars
    <2>7. PICK called, told, less :
              /\ called = Cardinality(PositionsOf(requests, 1..Years))
              /\ told = Cardinality(PositionsOf(pages, jumping))
              /\ less = Cardinality(PositionsOf(pages', jumping))
      OBVIOUS
    <2>8. called \in Nat /\ told \in Nat /\ less \in Nat
      BY <1>1, <2>7, PositionsAreCounted
    <2>9. less <= told /\ (page.to # NoYear => less + 1 <= told)
      <3>1. page.to # NoYear => page \in jumping
        BY <2>2
      <3>2. QED
        BY <1>1, <2>1, <2>7, <3>1, PositionTaken
    <2>10. OwedNet(requests, pages) = called + told /\ OwedNet(requests', pages') = called + less
      BY <2>1, <2>7, Zenon DEF OwedNet
    <2>11. OwedBar(bar') <= OwedBar(bar) + 1 /\ (page.to = NoYear => OwedBar(bar') = OwedBar(bar))
      <3>1. Cardinality(bar.retry) \in Nat /\ bar.resets \in Nat
        BY <1>1, BarIs DEF YearBars
      <3>2. page.to = NoYear => bar'.pending = bar.pending
        BY <2>3, <2>4, <2>6
      <3>3. QED
        BY <2>6, <3>1, <3>2 DEF OwedBar
    <2>12. PICK left, more : left = OwedBar(bar) /\ more = OwedBar(bar')
      OBVIOUS
    <2>13. left \in Nat /\ more \in Nat
      BY <1>1, <2>6, <2>12, BarIs
    <2>14. called + less + more <= called + told + left
      <3>1. more <= left + 1 /\ (page.to = NoYear => more = left)
        BY <2>11, <2>12
      <3>2. QED
        BY ONLY <2>8, <2>9, <2>13, <3>1
    <2>15. QED
      BY <1>3, <2>1, <2>6, <2>10, <2>12, <2>14
  <1>13. CASE LoseGallery \/ RejoinGallery
    <2>1. bar' = bar /\ requests' = <<>>
      <3>1. RejoinGallery => requests = <<>>
        BY Zenon DEF RejoinGallery, GalleryViews, GalleryFlags
      <3>2. QED
        BY <1>13, <3>1, Zenon DEF LoseGallery, RejoinGallery
    <2>2. moves' \in [jumps: 0..MaxJumps, drops: Nat] /\ moves'.jumps = moves.jumps
      <3>1. CASE LoseGallery
        <4>1. PICK n : n = moves.drops + 1
          OBVIOUS
        <4>2. moves' = [moves EXCEPT !.drops = n]
          BY <3>1, <4>1, Zenon DEF LoseGallery
        <4>3. n \in Nat
          BY <1>1, <4>1
        <4>4. QED
          BY <1>1, <4>2, <4>3
      <3>2. CASE RejoinGallery
        <4>1. moves' = moves
          BY <3>2, Zenon DEF RejoinGallery
        <4>2. QED
          BY <1>1, <4>1
      <3>3. QED
        BY <1>13, <3>1, <3>2
    <2>3. \A i \in DOMAIN pages' : pages'[i].to = NoYear
      <3>1. CASE LoseGallery
        <4>1. pages' = <<>>
          BY <3>1, Zenon DEF LoseGallery
        <4>2. QED
          BY <4>1
      <3>2. CASE RejoinGallery
        <4>1. PICK page : page = [list |-> assigns', reset |-> TRUE, to |-> NoYear]
          OBVIOUS
        <4>2. page.to = NoYear
          BY <4>1
        <4>3. pages' = <<page>>
          BY <3>2, <4>1, Zenon DEF RejoinGallery
        <4>4. QED
          BY <4>2, <4>3
      <3>3. QED
        BY <1>13, <3>1, <3>2
    <2>4. /\ PositionsOf(requests', 1..Years) = {}
          /\ PositionsOf(pages', {p \in YearPages : p.to # NoYear}) = {}
      BY <2>1, <2>3 DEF PositionsOf
    <2>5. OwedNet(requests', pages') = 0
      <3>1. Cardinality({}) = 0
        BY FS_EmptySet
      <3>2. OwedNet(requests', pages') = 0 + 0
        BY <2>4, <3>1, Zenon DEF OwedNet
      <3>3. QED
        BY <3>2
    <2>6. PICK queued, left : queued = OwedNet(requests, pages) /\ left = OwedBar(bar)
      OBVIOUS
    <2>7. 0 + left <= queued + left
      BY <1>2, <2>6
    <2>8. QED
      BY <1>1, <2>1, <2>2, <2>5, <2>6, <2>7, OwedStays
  <1>14. QED
    BY <1>5, <1>6, <1>7, <1>8, <1>9, <1>10, <1>11, <1>12, <1>13, Zenon DEF GalleryNext

LEMMA GalleryTypesStart == GalleryInit => GalleryTypes
  <1> SUFFICES ASSUME GalleryInit PROVE GalleryTypes
    OBVIOUS
  <1>1. /\ picker \in BOOLEAN /\ tall \in BOOLEAN /\ exact \in BOOLEAN /\ serving = TRUE
        /\ cooling = FALSE /\ frame = TRUE /\ recheck = "no" /\ resized = TRUE
        /\ assigns = Loaded(1, 1) /\ browse = assigns /\ reading = 1 /\ requests = <<>> /\ pages = <<>>
        /\ bar = (IF picker THEN [NewBar EXCEPT !.debounce = FALSE] ELSE NewBar)
        /\ moves = [jumps |-> 0, drops |-> 0]
    BY Zenon DEF GalleryInit
  <1>2. GalleryFlags
    BY <1>1, Zenon DEF GalleryFlags
  <1>3. assigns \in YearLists /\ assigns.from = 1 /\ assigns.upto = 1
    BY <1>1, ListsOfYears, GalleryBounds DEF Loaded
  <1>4. requests \in Seq(0..Years) /\ pages \in Seq(YearPages) /\ DOMAIN requests = {} /\ DOMAIN pages = {}
    BY <1>1, EmptySeq
  <1>5. GalleryViews
    <2>1. reading \in Listed(browse)
      BY <1>1, <1>3 DEF Listed
    <2>2. Chain(browse, pages)
      BY <1>4, Zenon DEF Chain
    <2>3. QED
      BY <1>1, <1>3, <1>4, <2>1, <2>2, Zenon DEF GalleryViews
  <1>6. bar \in YearBars /\ bar.pending = NoYear /\ bar.retry = {} /\ bar.resets = 0
    <2>1. bar \in {NewBar, [NewBar EXCEPT !.debounce = FALSE]}
      BY <1>1, Zenon
    <2>2. QED
      <3>1. NewBar \in YearBars /\ NewBar.pending = NoYear /\ NewBar.retry = {} /\ NewBar.resets = 0
        <4>1. 0 \in 0..Years
          BY GalleryBounds
        <4>2. QED
          BY <4>1 DEF NewBar, YearBars, NoYear
      <3>2. PICK b : b = [NewBar EXCEPT !.debounce = FALSE]
        OBVIOUS
      <3>3. b \in YearBars /\ b.pending = NoYear /\ b.retry = {} /\ b.resets = 0
        BY <3>1, <3>2 DEF YearBars
      <3>4. QED
        BY <2>1, <3>1, <3>2, <3>3
  <1>7. WithinJumps
    <2>1. moves \in [jumps: 0..MaxJumps, drops: Nat] /\ moves.jumps = 0
      BY <1>1, GalleryBounds
    <2>2. /\ PositionsOf(requests, 1..Years) = {}
          /\ PositionsOf(pages, {p \in YearPages : p.to # NoYear}) = {}
      BY <1>4 DEF PositionsOf
    <2>3. Cardinality({}) = 0
      BY FS_EmptySet
    <2>4. OwedNet(requests, pages) = 0 + 0 /\ OwedBar(bar) = 0 + 0 + 0
      BY <1>6, <2>2, <2>3, Zenon DEF OwedNet, OwedBar
    <2>5. QED
      BY <1>6, <2>1, <2>4 DEF WithinJumps
  <1>8. QED
    BY <1>2, <1>5, <1>7 DEF GalleryTypes

LEMMA GalleryTypesStep == ASSUME GalleryInv, GalleryTypes, [GalleryNext]_galleryVars PROVE GalleryTypes'
  BY GalleryFlagsStep, GalleryViewsStep, WithinJumpsStep DEF GalleryInv, GalleryTypes

LEMMA GalleryTypesAre == GalleryTypes => GalleryTypeOK
  <1> SUFFICES ASSUME GalleryTypes PROVE GalleryTypeOK
    OBVIOUS
  <1>1. bar \in YearBars /\ bar.resets \in 0..MaxJumps
    <2>1. bar \in YearBars /\ moves.jumps \in 0..MaxJumps /\ OwedNet(requests, pages) + OwedBar(bar) <= moves.jumps
      BY DEF GalleryTypes, WithinJumps
    <2>2. OwedNet(requests, pages) \in Nat
      BY NetIs DEF GalleryTypes, GalleryViews
    <2>3. Cardinality(bar.retry) \in Nat /\ bar.resets \in Nat /\ OwedBar(bar) \in Nat
      BY <2>1, BarIs DEF YearBars
    <2>4. bar.resets <= OwedBar(bar)
      BY <2>3 DEF OwedBar
    <2>5. QED
      BY <2>1, <2>2, <2>3, <2>4, GalleryBounds
  <1>2. bar \in [year: 0..Years, debounce: BOOLEAN, pending: 0..Years, retry: SUBSET (1..Years),
                scrolling: BOOLEAN, resets: 0..MaxJumps, glide: 0..Years]
    BY <1>1 DEF YearBars
  <1>3. {assigns, browse} \subseteq [from: 1..Years, upto: 1..Years, ended: BOOLEAN]
    BY DEF GalleryTypes, GalleryViews, YearLists
  <1>4. {picker, tall, exact, serving, cooling, frame, resized} \subseteq BOOLEAN
    BY Zenon DEF GalleryTypes, GalleryFlags
  <1>5. QED
    BY <1>2, <1>3, <1>4, Zenon DEF GalleryTypes, GalleryFlags, GalleryViews, GalleryTypeOK

-----------------------------------------------------------------------------
(* The types of all the parts.                                             *)

\* In every state each part has its types, for any sizes: no counter passes its bound, the
\* gallery's reader stays within the list, the editor's page is on a post that there is and
\* its debouncer keeps one closure for a post.
THEOREM SiteTypeCorrect == SiteSpec => []SiteTypeOK
  <1>1. SiteSpec => []PasskeyTypeOK
    <2>1. PasskeyInv /\ WithinCeremonies /\ [PasskeyNext]_passkeyVars => WithinCeremonies'
      BY PasskeyWithin
    <2>2. QED
      BY <2>1, SiteIsItsParts, PasskeyStarts, PasskeySteps, PasskeyWithinStart, PasskeyTypesAre, PTL
  <1>2. SiteSpec => []BotTypeOK
    <2>1. BotFlags /\ BotCounts /\ [BotNext]_botVars => (BotFlags /\ BotCounts)'
      BY BotFlagsStep, BotCountsStep
    <2>2. QED
      BY <2>1, SiteIsItsParts, BotTypesStart, BotTypesAre, PTL
  <1>3. SiteSpec => []SheetTypeOK
    <2>1. SheetShape /\ [SheetNext]_sheetVars => SheetShape'
      BY SheetTypesStep
    <2>2. QED
      BY <2>1, SiteIsItsParts, SheetTypesStart, SheetTypesAre, PTL
  <1>4. SiteSpec => []MenuTypeOK
    <2>1. MenuShape /\ [MenuNext]_menuVars => MenuShape'
      BY MenuTypesStep
    <2>2. QED
      BY <2>1, SiteIsItsParts, MenuTypesStart, MenuTypesAre, PTL
  <1>5. SiteSpec => []ProbeTypeOK
    <2>1. ProbeShape /\ [ProbeNext]_probeVars => ProbeShape'
      BY ProbeTypesStep
    <2>2. QED
      BY <2>1, SiteIsItsParts, ProbeTypesStart, ProbeTypesAre, PTL
  <1>6. SiteSpec => []TimelineTypeOK
    <2>1. TimelineTypeOK /\ [TimelineNext]_timelineVars => TimelineTypeOK'
      BY TimelineTypesStep
    <2>2. QED
      BY <2>1, SiteIsItsParts, TimelineTypesStart, PTL DEF TimelineSpec
  <1>7. SiteSpec => []CarouselTypeOK
    <2>1. CarouselFlags /\ CarouselKinds /\ [CarouselNext]_carouselVars => (CarouselFlags /\ CarouselKinds)'
      BY CarouselTypesStep
    <2>2. QED
      BY <2>1, SiteIsItsParts, CarouselTypesStart, CarouselTypesAre, PTL DEF CarouselSpec
  <1>8. SiteSpec => []VenueTypeOK
    <2>1. MapKinds /\ SearchShape /\ [VenueNext]_venueVars => (MapKinds /\ SearchShape)'
      BY VenueTypesStep
    <2>2. QED
      BY <2>1, SiteIsItsParts, PinStarts, PinSteps, VenueTypesStart, VenueTypesAre, PTL DEF VenueSpec
  <1>9. SiteSpec => []DeskTypeOK
    BY SiteIsItsParts, DeskStarts, DeskSteps, DeskInvTypes, PTL DEF DeskSpec
  <1>10. SiteSpec => []ScannerTypeOK
    <2>1. ScannerTypeOK /\ [ScannerNext]_scannerVars => ScannerTypeOK'
      BY ScannerTypesStep
    <2>2. QED
      BY <2>1, SiteIsItsParts, ScannerTypesStart, PTL
  <1>11. SiteSpec => []EditorTypeOK
    <2>1. DraftTypes /\ [EditorNext]_editorVars => DraftTypes'
      BY EditorTypesStep
    <2>2. QED
      BY <2>1, SiteIsItsParts, EditorTypesStart, EditorTypesAre, PTL DEF EditorSpec
  <1>12. SiteSpec => []GalleryTypeOK
    <2>1. GalleryInv /\ GalleryTypes /\ [GalleryNext]_galleryVars => GalleryTypes'
      BY GalleryTypesStep
    <2>2. QED
      BY <2>1, SiteIsItsParts, GalleryStarts, GallerySteps, GalleryTypesStart, GalleryTypesAre, PTL DEF GallerySpec
  <1>13. QED
    BY <1>1, <1>2, <1>3, <1>4, <1>5, <1>6, <1>7, <1>8, <1>9, <1>10, <1>11, <1>12, PTL DEF SiteTypeOK
=============================================================================
