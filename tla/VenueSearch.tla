----------------------------- MODULE VenueSearch -----------------------------
(***************************************************************************)
(* Searching for a venue beside the map: the RadarLocationAutocomplete     *)
(* hook (assets/js/radar_location_autocomplete.js).  Every refresh of the  *)
(* list takes a number; an answer that is not the newest is thrown away.   *)
(*                                                                         *)
(* A query is a number too: 0 is too short to be looked up.  What the list *)
(* holds is abstracted to the query it answers.                            *)
(***************************************************************************)
EXTENDS VenueMap

CONSTANTS
    MaxQueries,  \* different texts in the input, 0 being a short one
    MaxSearches, \* bound: refreshes of the list
    MaxActs      \* bound: refreshes, choices and clicks on the map together

ASSUME SearchBounds == {MaxQueries, MaxSearches, MaxActs} \subseteq Nat

VARIABLES
    text,        \* what the input holds
    debounce,    \* _debounceTimer is set
    searchToken, \* _searchToken
    searched,    \* the text the newest search was made for
    calls,       \* lookups at Radar under way
    list         \* _results: the query they answer, and whether the list is open

searchVars == <<text, debounce, searchToken, searched, calls, list>>
venueVars == <<mapVars, searchVars>>

Queries == 0..MaxQueries
Searches == 1..MaxSearches

SearchInit ==
    /\ text = 0 /\ debounce = FALSE /\ searchToken = 0 /\ searched = 0 /\ calls = {}
    /\ list = [query |-> 0, open |-> FALSE]

\* refreshResults: presets alone answer a short query at once.
Refresh(query) ==
    /\ searchToken < MaxSearches
    /\ searchToken' = searchToken + 1
    /\ searched' = query
    /\ IF query = 0
       THEN list' = [query |-> query, open |-> TRUE] /\ UNCHANGED calls
       ELSE calls' = calls \cup {[token |-> searchToken', query |-> query]} /\ UNCHANGED list

Focus ==
    /\ Refresh(text)
    /\ UNCHANGED <<mapVars, text, debounce>>

TypeQuery ==
    /\ text' \in Queries \ {text}
    /\ debounce' = TRUE
    /\ UNCHANGED <<mapVars, searchToken, searched, calls, list>>

DebounceEnds ==
    /\ debounce
    /\ debounce' = FALSE
    /\ Refresh(text)
    /\ UNCHANGED <<mapVars, text>>

\* Variant: whatever answer comes is shown.
AnyAnswer(call) == TRUE

Newest(call) == call.token = searchToken

\* Radar answers, or fails and the presets are left; either way an old search is dropped.
SearchAnswered(call) ==
    /\ call \in calls
    /\ calls' = calls \ {call}
    /\ list' = IF Newest(call) THEN [query |-> call.query, open |-> TRUE] ELSE list
    /\ UNCHANGED <<mapVars, text, debounce, searchToken, searched>>

\* selectResult: the place is pushed, its label replaces the text and the list closes;
\* a search under way is not given up, and will open the list again.
SelectResult ==
    /\ list.open /\ fresh <= MaxPlaces
    /\ fresh' = fresh + 1
    /\ picks' = IF online THEN Append(picks, fresh) ELSE picks
    /\ list' = [list EXCEPT !.open = FALSE]
    /\ text' \in Queries
    /\ UNCHANGED <<serverSide, markers, scripts, map, pending, pin, pinned, lookups, rebuild,
                   rebuilds, retries, lost, crowded, taken, debounce, searchToken, searched, calls>>

\* Escape, or a click elsewhere.
CloseList ==
    /\ list.open
    /\ list' = [list EXCEPT !.open = FALSE]
    /\ UNCHANGED <<mapVars, text, debounce, searchToken, searched, calls>>

-----------------------------------------------------------------------------
SearchNext == \/ Focus \/ TypeQuery \/ DebounceEnds \/ SelectResult \/ CloseList
              \/ \E call \in calls : SearchAnswered(call)

VenueInit == MapInit /\ SearchInit
VenueNext == /\ \/ MapNext /\ UNCHANGED searchVars
                \/ ~locked /\ SearchNext
             /\ (fresh' - 2) + searchToken' <= MaxActs
VenueSpec == VenueInit /\ [][VenueNext]_venueVars

VenueTypeOK ==
    /\ MapTypeOK
    /\ text \in Queries /\ searched \in Queries /\ debounce \in BOOLEAN
    /\ searchToken \in 0..MaxSearches
    /\ calls \subseteq [token: Searches, query: Queries]
    /\ list \in [query: Queries, open: BOOLEAN]

\* The list answers the newest search, in whatever order Radar's answers come and
\* however many of them fail.
ListAnswersNewestSearch ==
    ~(\E call \in calls : Newest(call)) => list.query = searched
=============================================================================
