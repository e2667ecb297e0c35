---------------------------- MODULE SocketProbe ----------------------------
(***************************************************************************)
(* What every page does with its socket when it is seen again after a      *)
(* suspension (assets/js/app.js): a socket that claims to be open is asked *)
(* for a heartbeat, and replaced if none comes.                            *)
(*                                                                         *)
(* Phoenix's own part is external: its socket notices a close event and    *)
(* reconnects, its heartbeats are answered; that it notices a dead socket  *)
(* whose close event never came is not relied on.                          *)
(***************************************************************************)
EXTENDS Naturals

CONSTANTS
    MaxHides, \* bound: times the page is hidden
    MaxDrops, \* bound: connections lost
    MaxBeats  \* bound: heartbeats of Phoenix's own

ASSUME ProbeBounds == {MaxHides, MaxDrops, MaxBeats} \subseteq Nat

VARIABLES
    visible,
    hiddenAt, \* "unset", "short" of STALE_AFTER_HIDDEN_MS ago, or "long" ago
    wire,     \* "alive"; "dead" but open to its readyState; "closed", which Phoenix knows;
              \* "shut" by disconnect()
    beat,     \* a heartbeat on the live wire has not been answered
    probe,    \* probingLiveness, and gotReply
    dials,    \* connect() timers of forceReconnect
    hides, drops, beats,
    owed,     \* history: the page came back from a long absence to a dead socket
    again     \* history: it came back when a probe was on

probeVars == <<visible, hiddenAt, wire, beat, probe, dials, hides, drops, beats, owed, again>>

ProbeInit ==
    /\ visible = TRUE /\ hiddenAt = "unset" /\ wire = "alive" /\ beat = FALSE
    /\ probe = [on |-> FALSE, reply |-> FALSE] /\ dials = 0
    /\ hides = 0 /\ drops = 0 /\ beats = 0 /\ owed = FALSE /\ again = FALSE

-----------------------------------------------------------------------------
\* visibilitychange to hidden, and freeze: markPageHidden.
Hide ==
    /\ visible /\ hides < MaxHides
    /\ visible' = FALSE /\ hides' = hides + 1
    /\ hiddenAt' = IF hiddenAt = "unset" THEN "short" ELSE hiddenAt
    /\ UNCHANGED <<wire, beat, probe, dials, drops, beats, owed, again>>

StayAway ==
    /\ ~visible /\ hiddenAt = "short" /\ hiddenAt' = "long"
    /\ UNCHANGED <<visible, wire, beat, probe, dials, hides, drops, beats, owed, again>>

\* Variant: a probe that found no answer leaves it at that.
TrustsSocket == UNCHANGED <<wire, beat, dials>>

\* forceReconnect: connect() follows on a later tick.
ForceReconnect == wire' = "shut" /\ beat' = FALSE /\ dials' = dials + 1

\* verifyConnectionAfterHidden, on visibilitychange or resume.
Return ==
    /\ ~visible /\ visible' = TRUE
    /\ hiddenAt' = "unset"
    /\ CASE hiddenAt = "short" \/ probe.on -> UNCHANGED <<wire, beat, probe, dials>>
         [] hiddenAt = "long" /\ ~probe.on /\ wire \in {"closed", "shut"} ->
                ForceReconnect /\ UNCHANGED probe
         [] OTHER ->
                /\ probe' = [on |-> TRUE, reply |-> FALSE]
                /\ beat' = (beat \/ wire = "alive")
                /\ UNCHANGED <<wire, dials>>
    /\ owed' = (owed \/ (hiddenAt = "long" /\ wire = "dead"))
    /\ again' = (again \/ (hiddenAt = "long" /\ probe.on))
    /\ UNCHANGED <<hides, drops, beats>>

\* Any reply on the topic "phoenix" is the answer.
HeartbeatAnswered ==
    /\ wire = "alive" /\ beat /\ beat' = FALSE
    /\ probe' = [probe EXCEPT !.reply = probe.on]
    /\ UNCHANGED <<visible, hiddenAt, wire, dials, hides, drops, beats, owed, again>>

\* LIVENESS_PROBE_TIMEOUT_MS is over.
ProbeEnds ==
    /\ probe.on /\ probe' = [probe EXCEPT !.on = FALSE]
    /\ IF probe.reply THEN UNCHANGED <<wire, beat, dials>> ELSE ForceReconnect
    /\ owed' = (owed /\ wire' = "dead")
    /\ UNCHANGED <<visible, hiddenAt, hides, drops, beats, again>>

\* connect() leaves a socket that has a connection alone.
Dial ==
    /\ dials > 0 /\ dials' = dials - 1
    /\ wire' = IF wire \in {"closed", "shut"} THEN "alive" ELSE wire
    /\ UNCHANGED <<visible, hiddenAt, beat, probe, hides, drops, beats, owed, again>>

-----------------------------------------------------------------------------
(* Phoenix and the network.                                                 *)

OwnHeartbeat ==
    /\ wire = "alive" /\ ~beat /\ beats < MaxBeats
    /\ beat' = TRUE /\ beats' = beats + 1
    /\ UNCHANGED <<visible, hiddenAt, wire, probe, dials, hides, drops, owed, again>>

DropWire ==
    /\ wire = "alive" /\ drops < MaxDrops
    /\ drops' = drops + 1
    /\ wire' \in {"dead", "closed"} /\ beat' = FALSE
    /\ UNCHANGED <<visible, hiddenAt, probe, dials, hides, beats, owed, again>>

CloseEventComes ==
    /\ wire = "dead" /\ wire' = "closed"
    /\ owed' = FALSE
    /\ UNCHANGED <<visible, hiddenAt, beat, probe, dials, hides, drops, beats, again>>

PhoenixReconnects ==
    /\ wire = "closed" /\ wire' = "alive"
    /\ UNCHANGED <<visible, hiddenAt, beat, probe, dials, hides, drops, beats, owed, again>>

-----------------------------------------------------------------------------
ProbeNext ==
    \/ Hide \/ StayAway \/ Return \/ HeartbeatAnswered \/ ProbeEnds \/ Dial
    \/ OwnHeartbeat \/ DropWire \/ CloseEventComes \/ PhoenixReconnects

\* Timers fire, and Phoenix reconnects what it knows to be closed.
ProbeFairness ==
    /\ WF_probeVars(ProbeEnds) /\ WF_probeVars(Dial) /\ WF_probeVars(PhoenixReconnects)

ProbeSpec == ProbeInit /\ [][ProbeNext]_probeVars /\ ProbeFairness

-----------------------------------------------------------------------------
ProbeTypeOK ==
    /\ hiddenAt \in {"unset", "short", "long"} /\ wire \in {"alive", "dead", "closed", "shut"}
    /\ probe \in [on: BOOLEAN, reply: BOOLEAN] /\ dials \in Nat
    /\ {visible, beat, owed, again} \subseteq BOOLEAN

\* A page that comes back from a long absence to a socket that died without a close event
\* gets a new one.  The exception is named: an earlier probe was still on when it came
\* back, and the answer that one has had is taken for the new state of the socket.
DeadSocketIsReplaced == owed /\ ~again ~> ~owed
=============================================================================
