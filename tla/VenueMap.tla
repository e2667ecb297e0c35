------------------------------ MODULE VenueMap ------------------------------
(***************************************************************************)
(* A map with the pin of an event's venue: the RadarMap hook               *)
(* (assets/js/radar.js), the component that feeds it (map_component.ex)    *)
(* and the LiveView that stores the place (location-selected in            *)
(* admin_events_new.ex).  The editor's map is unlocked, a click on it      *)
(* moves the pin; the public page's map is locked.                         *)
(*                                                                         *)
(* A place is a number; 0 is "no place".  Addresses and names follow from  *)
(* the place and are left out.                                             *)
(***************************************************************************)
EXTENDS Naturals, Sequences, FiniteSets

CONSTANTS
    MaxPlaces,   \* bound: clicks on the map, choices of a venue
    MaxTries,    \* attempts of addMarkerWithRetry (20)
    MaxRebuilds, \* MAX_CONTEXT_REBUILDS (3)
    MaxLost      \* bound: WebGL contexts and connections lost

ASSUME VenueBounds == {MaxPlaces, MaxTries, MaxRebuilds, MaxLost} \subseteq Nat

VARIABLES
    locked,   \* the page's map is the public one
    stored,   \* the place in the LiveView's form, and in the database
    online,   \* the channel is joined
    picks,    \* location-selected events on their way to the LiveView
    markers,  \* add-marker events on their way to the browser
    scripts,  \* the two Radar scripts
    map,      \* the map of the hook: "none", "building" until its load event, "loaded"
    pending,  \* pendingMarker
    pin,      \* existingMarker
    pinned,   \* that marker is on the map
    lookups,  \* places whose reverse geocoding is under way
    rebuild,  \* _radarRebuildTimer is set
    rebuilds, \* contextRebuilds
    retries,  \* running chains of addMarkerWithRetry: how many attempts each has left
    fresh,    \* the next place nobody has used yet
    lost,
    crowded,  \* history: a marker was put on a map that had one pending
    taken     \* history: the pin was clicked away

mapVars == <<locked, stored, online, picks, markers, scripts, map, pending, pin, pinned,
             lookups, rebuild, rebuilds, retries, fresh, lost, crowded, taken>>

NoPlace == 0
Places == 1..MaxPlaces
MaybePlace == 0..MaxPlaces

\* The component pushes the stored place when it is first rendered.
MapInit ==
    /\ locked \in BOOLEAN
    /\ stored = IF MaxPlaces > 0 THEN 1 ELSE NoPlace
    /\ fresh = 2
    /\ online = TRUE /\ picks = <<>> /\ markers = <<stored>>
    /\ scripts = "loading" /\ map = "none"
    /\ pending = NoPlace /\ pin = NoPlace /\ pinned = FALSE
    /\ lookups = {} /\ rebuild = FALSE /\ rebuilds = 0 /\ retries = <<>>
    /\ lost = 0 /\ crowded = FALSE /\ taken = FALSE

serverSide == <<locked, stored, online>>

-----------------------------------------------------------------------------
(* The hook.                                                                *)

\* setMarker: the old marker is removed first; without a place nothing happens.
SetMarker(p) ==
    IF p = NoPlace THEN UNCHANGED <<pin, pinned>> ELSE pin' = p /\ pinned' = TRUE

\* The handler of "add-marker".  A locked map retries until it is ready.
AddMarker(p) ==
    IF map = "none"
    THEN pending' = p /\ UNCHANGED <<pin, pinned, retries, crowded>>
    ELSE IF locked
    THEN pending' = p /\ retries' = Append(retries, MaxTries) /\ UNCHANGED <<pin, pinned, crowded>>
    ELSE /\ SetMarker(p)
         /\ crowded' = (crowded \/ pending # NoPlace)
         /\ UNCHANGED <<pending, retries>>

ReceiveMarker ==
    /\ markers # <<>>
    /\ markers' = Tail(markers)
    /\ AddMarker(Head(markers))
    /\ UNCHANGED <<serverSide, picks, scripts, map, lookups, rebuild, rebuilds, fresh, lost,
                   taken>>

\* One attempt of a chain: a chain whose marker another one has set runs to its end.
RetryMarker(i) ==
    LET without == [j \in 1..(Len(retries) - 1) |-> retries[IF j < i THEN j ELSE j + 1]]
    IN /\ i \in DOMAIN retries
       /\ IF pending # NoPlace /\ map = "loaded" /\ retries[i] > 0
          THEN SetMarker(pending) /\ pending' = NoPlace /\ retries' = without
          ELSE /\ retries' = IF retries[i] = 0 THEN without
                             ELSE [retries EXCEPT ![i] = @ - 1]
               /\ UNCHANGED <<pin, pinned, pending>>
       /\ UNCHANGED <<serverSide, picks, markers, scripts, map, lookups, rebuild, rebuilds,
                      fresh, lost, crowded, taken>>

\* initMap; where WebGL cannot be had a message is shown and there is no map.
InitMap == map' \in {"building", "none"}

\* A script that fails, or brings no map, ends mounted().
ScriptsLoad ==
    /\ scripts = "loading"
    /\ \/ scripts' = "ready" /\ InitMap
       \/ scripts' = "failed" /\ UNCHANGED map
    /\ UNCHANGED <<serverSide, picks, markers, pending, pin, pinned, lookups, rebuild,
                   rebuilds, retries, fresh, lost, crowded, taken>>

\* The "load" event applies what is pending.
MapLoads ==
    /\ map = "building"
    /\ map' = "loaded"
    /\ SetMarker(pending) /\ pending' = NoPlace
    /\ UNCHANGED <<serverSide, picks, markers, scripts, lookups, rebuild, rebuilds, retries,
                   fresh, lost, crowded, taken>>

\* Variant: the replacement map starts without the marker of the old one.
ForgetsPin == pending

\* A lost context keeps the marker for the replacement map.
KeptPin == IF pin # NoPlace THEN pin ELSE pending

\* Variant: a crash loop is not recognised.
RebuildsAgain == TRUE

MayRebuild == rebuilds < MaxRebuilds

LoseContext ==
    /\ map # "none" /\ lost < MaxLost
    /\ lost' = lost + 1
    /\ pending' = KeptPin
    /\ pin' = NoPlace /\ pinned' = FALSE
    /\ map' = "none"
    /\ IF MayRebuild
       THEN rebuild' = TRUE /\ rebuilds' = rebuilds + 1
       ELSE UNCHANGED <<rebuild, rebuilds>>
    /\ UNCHANGED <<serverSide, picks, markers, scripts, lookups, retries, fresh, crowded, taken>>

RebuildMap ==
    /\ rebuild
    /\ rebuild' = FALSE
    /\ IF map = "none" THEN InitMap ELSE UNCHANGED map
    /\ UNCHANGED <<serverSide, picks, markers, scripts, pending, pin, pinned, lookups,
                   rebuilds, retries, fresh, lost, crowded, taken>>

\* A click on an unlocked, loaded map moves the pin and looks its address up.
ClickMap ==
    /\ map = "loaded" /\ ~locked /\ fresh <= MaxPlaces
    /\ fresh' = fresh + 1
    /\ SetMarker(fresh)
    /\ lookups' = lookups \cup {fresh}
    /\ taken' = FALSE
    /\ UNCHANGED <<serverSide, picks, markers, scripts, map, pending, rebuild, rebuilds,
                   retries, lost, crowded>>

\* A click on the marker takes it off the map; nobody is told.
ClickPin ==
    /\ map = "loaded" /\ ~locked /\ pinned
    /\ pinned' = FALSE /\ taken' = TRUE
    /\ UNCHANGED <<serverSide, picks, markers, scripts, map, pending, pin, lookups, rebuild,
                   rebuilds, retries, fresh, lost, crowded>>

\* Answered or not, the coordinates are pushed, in the order the answers come.
AddressFound(p) ==
    /\ p \in lookups
    /\ lookups' = lookups \ {p}
    /\ picks' = IF online THEN Append(picks, p) ELSE picks
    /\ UNCHANGED <<serverSide, markers, scripts, map, pending, pin, pinned, rebuild, rebuilds,
                   retries, fresh, lost, crowded, taken>>

-----------------------------------------------------------------------------
(* The LiveView.                                                            *)

\* location-selected: the place is saved, the form changes, and the component that is
\* updated with it pushes the marker.
LocationSelected ==
    /\ online /\ picks # <<>>
    /\ picks' = Tail(picks)
    /\ stored' = Head(picks)
    /\ markers' = Append(markers, stored')
    /\ UNCHANGED <<locked, online, scripts, map, pending, pin, pinned, lookups, rebuild,
                   rebuilds, retries, fresh, lost, crowded, taken>>

\* toggle-map of the public page pushes the marker once more.
ToggleMap ==
    /\ online /\ locked /\ fresh <= MaxPlaces
    /\ fresh' = fresh + 1
    /\ markers' = Append(markers, stored)
    /\ UNCHANGED <<serverSide, picks, scripts, map, pending, pin, pinned, lookups, rebuild,
                   rebuilds, retries, lost, crowded, taken>>

LoseSocket ==
    /\ online /\ lost < MaxLost
    /\ lost' = lost + 1
    /\ online' = FALSE /\ picks' = <<>> /\ markers' = <<>>
    /\ UNCHANGED <<locked, stored, scripts, map, pending, pin, pinned, lookups, rebuild,
                   rebuilds, retries, fresh, crowded, taken>>

\* The page is mounted again from the database, the hook lives on.
RejoinSocket ==
    /\ ~online
    /\ online' = TRUE /\ markers' = <<stored>>
    /\ UNCHANGED <<locked, stored, picks, scripts, map, pending, pin, pinned, lookups, rebuild,
                   rebuilds, retries, fresh, lost, crowded, taken>>

-----------------------------------------------------------------------------
MapNext ==
    \/ ReceiveMarker \/ ScriptsLoad \/ MapLoads \/ LoseContext \/ RebuildMap
    \/ ClickMap \/ ClickPin \/ LocationSelected \/ ToggleMap \/ LoseSocket \/ RejoinSocket
    \/ \E i \in DOMAIN retries : RetryMarker(i)
    \/ \E p \in lookups : AddressFound(p)

MapTypeOK ==
    /\ {locked, online, pinned, rebuild, crowded, taken} \subseteq BOOLEAN
    /\ stored \in MaybePlace /\ pending \in MaybePlace /\ pin \in MaybePlace
    /\ picks \in Seq(Places) /\ markers \in Seq(MaybePlace)
    /\ scripts \in {"loading", "ready", "failed"} /\ map \in {"none", "building", "loaded"}
    /\ lookups \subseteq Places
    /\ rebuilds \in 0..MaxRebuilds /\ retries \in Seq(0..MaxTries)

Settled == /\ online /\ picks = <<>> /\ markers = <<>> /\ lookups = {}
           /\ map = "loaded" /\ ~rebuild

\* Once everything has settled the pin stands at the stored place, through answers that
\* overtake each other, lost WebGL contexts and lost connections.  Named exceptions: a
\* pin the editor has clicked away, a locked map that has used up its attempts, and a
\* marker that came to a map with one pending.
PinFollowsPlace ==
    Settled /\ retries = <<>> /\ ~crowded /\ ~taken =>
        \/ locked /\ pending # NoPlace
        \/ pin = stored /\ (pinned \/ pin = NoPlace)
=============================================================================
