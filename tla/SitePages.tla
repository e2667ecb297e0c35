------------------------------ MODULE SitePages ------------------------------
(***************************************************************************)
(* The parts of the site's pages that keep state of their own in the       *)
(* browser and stand by themselves: for a visitor a form guarded by        *)
(* BotCheck, passkeys, a modal, the mobile menu, the history page, a       *)
(* carousel and the socket under every page; for an admin the venue, the   *)
(* check-in desk, the ticket scanner, the post editor and the media        *)
(* library.  They share nothing, so a behaviour is about one of them and   *)
(* the others stand still.                                                 *)
(***************************************************************************)
EXTENDS PasskeyAuth, BotCheck, ModalSheet, SwipeSheet, SocketProbe, HistoryTimeline,
        ImageCarousel, VenueSearch, CheckInDesk, QrScanner, PostEditor, MediaGallery

VARIABLE part

formVars == <<passkeyVars, botVars>>
surfaceVars == <<sheetVars, menuVars, probeVars>>
showVars == <<timelineVars, carouselVars>>
venueDeskVars == <<venueVars, deskVars>>
officeVars == <<scannerVars, editorVars, galleryVars>>
siteVars == <<part, formVars, surfaceVars, showVars, venueDeskVars, officeVars>>

Parts == {"passkeys", "form", "modal", "menu", "socket", "timeline", "carousel",
          "venue", "desk", "scanner", "editor", "gallery"}

\* The choices a part makes when it is mounted are made where the behaviour is about it.
SiteInit ==
    /\ part \in Parts
    /\ PasskeyInit /\ (part # "passkeys" => entry = "login" /\ supports)
    /\ BotInit /\ (part # "form" => ~asleep)
    /\ SheetInit /\ (part # "modal" => ~calm)
    /\ MenuInit /\ (part # "menu" => ~quiet)
    /\ ProbeInit
    /\ TimelineInit
    /\ CarouselInit /\ (part # "carousel" => reduced /\ ~hover /\ focus = "none" /\ slide = 1)
    /\ VenueInit /\ (part # "venue" => ~locked)
    /\ DeskInit
    /\ ScannerInit /\ (part # "scanner" => ~session.desk)
    /\ EditorInit
    /\ GalleryInit /\ (part # "gallery" => picker /\ ~tall /\ ~exact)

FormNext ==
    \/ part = "passkeys" /\ PasskeyNext /\ UNCHANGED botVars
    \/ part = "form" /\ BotNext /\ UNCHANGED passkeyVars

SurfaceNext ==
    \/ part = "modal" /\ SheetNext /\ UNCHANGED <<menuVars, probeVars>>
    \/ part = "menu" /\ MenuNext /\ UNCHANGED <<sheetVars, probeVars>>
    \/ part = "socket" /\ ProbeNext /\ UNCHANGED <<sheetVars, menuVars>>

ShowNext ==
    \/ part = "timeline" /\ TimelineNext /\ UNCHANGED carouselVars
    \/ part = "carousel" /\ CarouselNext /\ UNCHANGED timelineVars

VenueDeskNext ==
    \/ part = "venue" /\ VenueNext /\ UNCHANGED deskVars
    \/ part = "desk" /\ DeskNext /\ UNCHANGED venueVars

OfficeNext ==
    \/ part = "scanner" /\ ScannerNext /\ UNCHANGED <<editorVars, galleryVars>>
    \/ part = "editor" /\ EditorNext /\ UNCHANGED <<scannerVars, galleryVars>>
    \/ part = "gallery" /\ GalleryNext /\ UNCHANGED <<scannerVars, editorVars>>

SiteNext ==
    /\ UNCHANGED part
    /\ \/ FormNext /\ UNCHANGED <<surfaceVars, showVars, venueDeskVars, officeVars>>
       \/ SurfaceNext /\ UNCHANGED <<formVars, showVars, venueDeskVars, officeVars>>
       \/ ShowNext /\ UNCHANGED <<formVars, surfaceVars, venueDeskVars, officeVars>>
       \/ VenueDeskNext /\ UNCHANGED <<formVars, surfaceVars, showVars, officeVars>>
       \/ OfficeNext /\ UNCHANGED <<formVars, surfaceVars, showVars, venueDeskVars>>

\* The fairness of each part, where the behaviour is about it.
SiteFairness ==
    /\ WF_passkeyVars(part = "passkeys" /\ Serve)
    /\ WF_passkeyVars(part = "passkeys" /\ ReceiveDiff)
    /\ WF_passkeyVars(part = "passkeys" /\ RejoinPage)
    /\ \A n \in Ceremonies : WF_passkeyVars(part = "passkeys" /\ PromptEnds(n))
    /\ WF_botVars(part = "form" /\ HoldEnds) /\ WF_botVars(part = "form" /\ SendReleased)
    /\ WF_sheetVars(part = "modal" /\ SheetRuns) /\ WF_sheetVars(part = "modal" /\ TouchEnd)
    /\ WF_menuVars(part = "menu" /\ MenuRuns) /\ WF_menuVars(part = "menu" /\ PointerUp)
    /\ WF_probeVars(part = "socket" /\ ProbeEnds) /\ WF_probeVars(part = "socket" /\ Dial)
    /\ WF_probeVars(part = "socket" /\ PhoenixReconnects)
    /\ \A n \in 1..MaxScans : WF_scannerVars(part = "scanner" /\ n \in Lives /\ Library(n))

SiteSpec == SiteInit /\ [][SiteNext]_siteVars /\ SiteFairness

\* The types of all twelve.
SiteTypeOK ==
    /\ PasskeyTypeOK /\ BotTypeOK /\ SheetTypeOK /\ MenuTypeOK /\ ProbeTypeOK
    /\ TimelineTypeOK /\ CarouselTypeOK
    /\ VenueTypeOK /\ DeskTypeOK /\ ScannerTypeOK /\ EditorTypeOK /\ GalleryTypeOK

\* Nobody waits on a page that has given up: the passkey button comes back whatever becomes
\* of the prompt, and a submit held for a token leaves whether or not the widget answers.
WaitingEnds == ButtonComesBack /\ HeldSubmitLeaves

\* A surface that a finger moves is never left hanging, whatever else moves it: the modal
\* comes back or closes, the menu's styles are handed back.
GestureEnds == SheetComesBack /\ MenuIsHandedBack
=============================================================================
