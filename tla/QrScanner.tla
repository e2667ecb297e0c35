------------------------------ MODULE QrScanner ------------------------------
(***************************************************************************)
(* The ticket scanner's camera: the QrScanner hook                         *)
(* (assets/js/qr_scanner.js) and the scanning page that mounts it while a  *)
(* session is open (admin_scanner_live.ex).                                *)
(*                                                                         *)
(* A hook lives as long as the page is in its scanning phase.  Starting    *)
(* the camera takes two awaits (the permission probe, html5-qrcode's       *)
(* start), stopping it takes one, and the hook may be destroyed in any of  *)
(* them.  The camera of each life is a device of its own here; what it     *)
(* scans is left out.                                                      *)
(***************************************************************************)
EXTENDS Naturals, Sequences

CONSTANTS
    MaxScans,  \* bound: times the page enters its scanning phase
    MaxBroken  \* bound: promises of the library that are rejected, connections lost

ASSUME ScannerBounds == {MaxScans, MaxBroken} \subseteq Nat

VARIABLES
    session,  \* the page's assigns: the phase, and whether a desk launched the scanner
    linked,   \* the channel is joined
    replies,  \* what is on its way to the browser: a page with or without the hook, or
              \* the event that stops the camera
    opened,   \* times it was told to scan
    mounted,  \* the life of the hook that is on the page, 0 is none
    life,     \* the fields of every life there has been
    cameras,  \* lives whose camera is on
    broken

scannerVars == <<session, linked, replies, opened, mounted, life, cameras, broken>>

Lives == DOMAIN life
NoLife == 0

\* cameraStarting, as the await it stands in; stopping: calls of stop() under way; whether
\* one of the library's promises was rejected is history.
NewLife == [starting |-> "no", scanner |-> FALSE, active |-> FALSE, destroyed |-> FALSE,
            stopRequested |-> FALSE, stopping |-> FALSE, rejected |-> FALSE]

ScannerInit ==
    /\ session \in [scanning: {FALSE}, desk: BOOLEAN]
    /\ linked = TRUE /\ replies = <<>>
    /\ mounted = NoLife /\ cameras = {} /\ life = <<>>
    /\ broken = 0 /\ opened = 0

Set(n, f) == life' = [life EXCEPT ![n] = f]

-----------------------------------------------------------------------------
(* The hook.                                                                *)

\* mounted() starts the camera: without https or a camera API it ends there.
MountHook ==
    /\ mounted' = Len(life) + 1
    /\ \E starting \in {"permission", "no"} :
          life' = Append(life, [NewLife EXCEPT !.starting = starting])

\* stopCamera
StopCamera(f) ==
    IF f.starting # "no" THEN [f EXCEPT !.stopRequested = TRUE]
    ELSE IF f.scanner /\ f.active THEN [f EXCEPT !.stopping = TRUE] ELSE f

DestroyHook ==
    /\ Set(mounted, StopCamera([life[mounted] EXCEPT !.destroyed = TRUE]))
    /\ mounted' = NoLife

ReceivePage ==
    LET page == Head(replies)
    IN /\ replies # <<>>
       /\ replies' = Tail(replies)
       /\ CASE page = "scanning" /\ mounted = NoLife -> MountHook
            [] page = "setup" /\ mounted # NoLife -> DestroyHook
            [] page = "stop-camera" /\ mounted # NoLife ->
                    Set(mounted, StopCamera(life[mounted])) /\ UNCHANGED mounted
            [] OTHER -> UNCHANGED <<mounted, life>>
       /\ UNCHANGED <<session, linked, opened, cameras, broken>>

\* The probe is answered.  Granted, the hook goes on if it is still there and the page and
\* the library are complete; refused, it gives up.
PermissionSettles(n) ==
    /\ life[n].starting = "permission"
    /\ \/ /\ ~life[n].destroyed
          /\ Set(n, [life[n] EXCEPT !.starting = "start", !.scanner = TRUE])
       \/ /\ Set(n, [life[n] EXCEPT !.starting = "no"])
    /\ UNCHANGED <<session, linked, replies, opened, mounted, cameras, broken>>

\* Variant: what was asked for meanwhile is forgotten.
StartsRegardless(n) ==
    /\ life[n].starting = "start"
    /\ cameras' = cameras \cup {n}
    /\ Set(n, [life[n] EXCEPT !.starting = "no", !.active = TRUE])
    /\ UNCHANGED <<session, linked, replies, opened, mounted, broken>>

\* scanner.start() resolves with the camera on.  A stop that was asked for meanwhile is
\* made up for, and cameraStarting stays set until that has ended.
Started(n) ==
    /\ life[n].starting = "start"
    /\ cameras' = cameras \cup {n}
    /\ IF life[n].destroyed \/ life[n].stopRequested
       THEN Set(n, [life[n] EXCEPT !.starting = "stop", !.stopRequested = FALSE])
       ELSE Set(n, [life[n] EXCEPT !.starting = "no", !.active = TRUE])
    /\ UNCHANGED <<session, linked, replies, opened, mounted, broken>>

\* The catch and finally of the chain: of a start that was rejected, or of that late stop.
StartFails(n) ==
    /\ life[n].starting \in {"start", "stop"} /\ broken < MaxBroken
    /\ broken' = broken + 1
    /\ Set(n, [life[n] EXCEPT !.starting = "no", !.scanner = FALSE, !.rejected = TRUE])
    /\ UNCHANGED <<session, linked, replies, opened, mounted, cameras>>

LateStopEnds(n) ==
    /\ life[n].starting = "stop"
    /\ cameras' = cameras \ {n}
    /\ Set(n, [life[n] EXCEPT !.starting = "no", !.active = FALSE, !.scanner = FALSE])
    /\ UNCHANGED <<session, linked, replies, opened, mounted, broken>>

\* stop() of stopCamera settles; rejected, the hook keeps its scanner.
StopEnds(n) ==
    /\ life[n].stopping
    /\ \/ /\ cameras' = cameras \ {n}
          /\ Set(n, [life[n] EXCEPT !.stopping = FALSE, !.active = FALSE, !.scanner = FALSE])
          /\ UNCHANGED broken
       \/ /\ broken < MaxBroken /\ broken' = broken + 1
          /\ Set(n, [life[n] EXCEPT !.stopping = FALSE, !.rejected = TRUE])
          /\ UNCHANGED cameras
    /\ UNCHANGED <<session, linked, replies, opened, mounted>>

-----------------------------------------------------------------------------
(* The LiveView.                                                            *)

Show(page) == replies' = Append(replies, page)

\* start_session and resume_session.
OpenSession ==
    /\ linked /\ ~session.scanning /\ opened < MaxScans
    /\ opened' = opened + 1
    /\ session' = [session EXCEPT !.scanning = TRUE]
    /\ Show("scanning")
    /\ UNCHANGED <<linked, mounted, life, cameras, broken>>

\* end_session: a scanner that a desk launched navigates there, and the camera is told to
\* stop while the page is still up; the setup page is shown before that event is.
EndSession ==
    /\ linked /\ session.scanning
    /\ session' = [session EXCEPT !.scanning = FALSE]
    /\ replies' = replies \o (IF session.desk THEN <<"stop-camera", "setup">>
                                              ELSE <<"setup", "stop-camera">>)
    /\ UNCHANGED <<linked, opened, mounted, life, cameras, broken>>

LoseScanner ==
    /\ linked /\ broken < MaxBroken
    /\ broken' = broken + 1
    /\ linked' = FALSE /\ replies' = <<>>
    /\ UNCHANGED <<session, opened, mounted, life, cameras>>

\* The new process scans on only where the address names an open session, as a desk's link
\* does; elsewhere the session is to be resumed by hand.
RejoinScanner ==
    /\ ~linked /\ linked' = TRUE
    /\ \E on \in {FALSE, session.scanning /\ session.desk} :
          /\ session' = [session EXCEPT !.scanning = on]
          /\ Show(IF on THEN "scanning" ELSE "setup")
    /\ UNCHANGED <<opened, mounted, life, cameras, broken>>

-----------------------------------------------------------------------------
Library(n) == PermissionSettles(n) \/ Started(n) \/ LateStopEnds(n) \/ StopEnds(n)

ScannerNext ==
    \/ ReceivePage \/ OpenSession \/ EndSession \/ LoseScanner \/ RejoinScanner
    \/ \E n \in Lives : Library(n) \/ StartFails(n)

\* The library's promises settle.
ScannerFairness == \A n \in 1..MaxScans : WF_scannerVars(n \in Lives /\ Library(n))

ScannerSpec == ScannerInit /\ [][ScannerNext]_scannerVars /\ ScannerFairness

-----------------------------------------------------------------------------
ScannerTypeOK ==
    /\ session \in [scanning: BOOLEAN, desk: BOOLEAN] /\ linked \in BOOLEAN
    /\ replies \in Seq({"scanning", "setup", "stop-camera"})
    /\ mounted \in Lives \cup {NoLife} /\ cameras \subseteq Lives
    /\ life \in Seq([starting: {"no", "permission", "start", "stop"}, scanner: BOOLEAN,
                           active: BOOLEAN, destroyed: BOOLEAN, stopRequested: BOOLEAN,
                           stopping: BOOLEAN, rejected: BOOLEAN])

\* The camera does not stay on behind a page that has gone: whichever await the hook is
\* destroyed in, its camera is switched off in the end.  The exception is named: one of
\* html5-qrcode's promises was rejected.
CameraIsReleased ==
    \A n \in 1..MaxScans : n \in Lives /\ life[n].destroyed
        ~> n \in Lives /\ ((n \notin cameras /\ life[n].starting = "no") \/ life[n].rejected)
=============================================================================
