----------------------------- MODULE CheckInDesk -----------------------------
(***************************************************************************)
(* The check-in desk of an event: the list of pending tickets that         *)
(* admin_event_check_in_live.ex keeps, what other desks and the scanner do *)
(* to the same tickets (scanning.ex), and the EventCheckInKeyboard hook    *)
(* (assets/js/event_checkin_keyboard.js), which acts on the Nth row that   *)
(* the page shows when the key is pressed.                                 *)
(*                                                                         *)
(* The page holds every row twice, in the table and in the phone's cards.  *)
(* A search is on or off; on, it matches the tickets in Matching.  Every   *)
(* ticket has an order: the column may be null, but nothing in src/ books  *)
(* a ticket without one.                                                   *)
(***************************************************************************)
EXTENDS Integers, Sequences, SequencesExt, FiniteSets

CONSTANTS
    Listing,   \* the tickets of the event, in the order the desk lists them
    OrderOf,   \* the order of each ticket; the tickets of one are listed together
    Matching,  \* the tickets the search finds
    MaxMoves   \* bound: check-ins, undos and repetitions at other desks, keys pressed,
               \* searches typed and lost connections, together

Tickets == ToSet(Listing)

ASSUME DeskBounds == MaxMoves \in Nat
ASSUME DeskTickets ==
    /\ Listing \in Seq(Tickets) /\ IsInjective(Listing)
    /\ Matching \subseteq Tickets /\ DOMAIN OrderOf = Tickets

VARIABLES
    checked,  \* the tickets that are checked in, in the database
    sending,  \* changes committed by others whose broadcast has not been sent
    news,     \* broadcasts in the mailbox of the LiveView
    desk,     \* its assigns
    keys,     \* events on their way to it
    patches,  \* diffs on their way to the browser
    tab,      \* the rows on the page, the search in its address, the text in the input
    connected,
    others, resets, pressed,
    crossed,  \* history: a ticket changed again before its last change was broadcast
    readAhead \* history: a ticket the desk does not hold was read from the database before
              \* the broadcast that tells what was read, or was told of again

deskVars == <<checked, sending, news, desk, keys, patches, tab, connected, others, resets,
              pressed, crossed, readAhead>>

MaxShortcuts == 8
MayMove == others + pressed + resets < MaxMoves
Found(search) == IF search THEN Matching ELSE Tickets
News(t, in) == [ticket |-> t, in |-> in]

-----------------------------------------------------------------------------
(* The assigns.                                                             *)

\* The rows of tickets in S, in the order they have.
Kept(rows, S) ==
    LET kept[n \in 0..Len(rows)] ==
            IF n = 0 THEN <<>>
            ELSE IF rows[n] \in S THEN Append(kept[n - 1], rows[n]) ELSE kept[n - 1]
    IN kept[Len(rows)]

\* reload_tickets: the list is read from the database, and so is the count.
Reloaded(search) ==
    [known |-> [t \in Tickets |-> IF t \notin Found(search) THEN "unknown"
                                  ELSE IF t \in checked THEN "in" ELSE "pending"],
     rows |-> Kept(Listing, Found(search) \ checked),
     count |-> Cardinality(checked),
     search |-> search]

\* remove_ticket_from_pending
WithoutRow(rows, t) == Kept(rows, Tickets \ {t})

\* add_ticket_to_pending: to the front of its order's group, or in a new group at the end.
WithRow(rows, t) ==
    LET group == {i \in DOMAIN rows : OrderOf[rows[i]] = OrderOf[t]}
    IN IF group = {} THEN Append(rows, t)
       ELSE LET at == CHOOSE i \in group : \A j \in group : i <= j
            IN SubSeq(rows, 1, at - 1) \o <<t>> \o SubSeq(rows, at, Len(rows))

\* ticket_in_current_view?
InView(d, t) == d.known[t] # "unknown" \/ t \in Found(d.search)

\* Variant: every broadcast counts, the desk's own as well.
AppliesAgain(d, t, in) ==
    [d EXCEPT !.known[t] = IF in THEN "in" ELSE "pending",
              !.rows = IF ~InView(d, t) THEN @ ELSE IF in THEN WithoutRow(@, t) ELSE WithRow(@, t),
              !.count = IF in THEN @ + 1 ELSE @ - 1]

\* apply_ticket_checked_in and apply_ticket_unchecked: what the desk knows already
\* changes nothing.
Applied(d, t, in) ==
    IF d.known[t] = (IF in THEN "in" ELSE "pending") THEN d
    ELSE [d EXCEPT !.known[t] = IF in THEN "in" ELSE "pending",
                   !.rows = IF ~InView(d, t) THEN @
                            ELSE IF in THEN WithoutRow(@, t) ELSE WithRow(@, t),
                   !.count = IF in THEN @ + 1 ELSE @ - 1]

Page(d) == [rows |-> d.rows, search |-> d.search]

DeskInit ==
    /\ checked = {} /\ sending = {} /\ news = <<>>
    /\ desk = Reloaded(FALSE)
    /\ keys = <<>> /\ patches = <<>> /\ connected = TRUE
    /\ tab = [rows |-> desk.rows, search |-> FALSE, text |-> FALSE]
    /\ others = 0 /\ resets = 0 /\ pressed = 0 /\ crossed = FALSE /\ readAhead = FALSE

-----------------------------------------------------------------------------
(* The page.                                                                *)

DomRows == tab.rows \o tab.rows
Quiet == connected /\ MayMove
PressKey(key) == keys' = Append(keys, key) /\ pressed' = pressed + 1
Toggle(t, shortcut) == [event |-> "toggle-check-in", of |-> t, shortcut |-> shortcut]
AllOf(t) == [event |-> "check-in-order", of |-> t, shortcut |-> TRUE]
Search(on) == [event |-> "search", of |-> on, shortcut |-> FALSE]

KeyFrame == UNCHANGED <<checked, sending, news, desk, patches, connected, others, resets,
                        crossed, readAhead>>

\* Alt+N, and Shift+Ctrl+N for the whole order: only while the input holds a search.  An
\* order of one ticket has no such control, and the chord falls back to the ticket.
PressShortcut(n) ==
    /\ Quiet /\ tab.text /\ n <= MaxShortcuts /\ n \in DOMAIN DomRows
    /\ LET t == DomRows[n]
       IN \/ PressKey(Toggle(t, TRUE))
          \/ PressKey(IF \E i \in DOMAIN tab.rows : tab.rows[i] # t /\ OrderOf[tab.rows[i]] = OrderOf[t]
                      THEN AllOf(t) ELSE Toggle(t, TRUE))
    /\ KeyFrame /\ UNCHANGED tab

\* Enter acts on the highlighted row, a click on the row it hits.  The arrows move the
\* highlight over the rows and round, and updated() keeps it on one of them; which one is
\* left open.
PressRow(n) ==
    /\ Quiet /\ n \in DOMAIN DomRows
    /\ PressKey(Toggle(DomRows[n], FALSE))
    /\ KeyFrame /\ UNCHANGED tab

\* Escape clears the search; a focused input keeps its text.
PressEscape ==
    /\ Quiet /\ tab.text
    /\ PressKey(Search(FALSE))
    /\ KeyFrame /\ UNCHANGED tab

TypeSearch ==
    /\ Quiet
    /\ tab' = [tab EXCEPT !.text = ~@]
    /\ PressKey(Search(~tab.text))
    /\ KeyFrame

\* A checked-in ticket's own row has a button that undoes it.
ClickUndo(t) ==
    /\ Quiet /\ desk.known[t] = "in" /\ patches = <<>>
    /\ PressKey(Toggle(t, FALSE))
    /\ KeyFrame /\ UNCHANGED tab

\* A patch may overwrite the input, unless it is focused.
ReceivePatch ==
    /\ patches # <<>>
    /\ patches' = Tail(patches)
    /\ \E text \in {tab.text, Head(patches).search} :
          tab' = [rows |-> Head(patches).rows, search |-> Head(patches).search, text |-> text]
    /\ UNCHANGED <<checked, sending, news, desk, keys, connected, others, resets, crossed,
                   readAhead, pressed>>

-----------------------------------------------------------------------------
(* The LiveView.                                                            *)

Shows(d) ==
    /\ desk' = d
    /\ patches' = IF Page(d) = Page(desk) THEN patches ELSE Append(patches, Page(d))

OnItsWay(t) == (\E s \in sending : s.ticket = t) \/ (\E i \in DOMAIN news : news[i].ticket = t)
Changes(t) == crossed' = (crossed \/ (checked' # checked /\ \E s \in sending : s.ticket = t))

\* Any exit of the process: the page joins a new one, which reads everything again.
Restarted ==
    LET fresh == Reloaded(tab.search)
    IN /\ desk' = fresh /\ news' = <<>> /\ keys' = <<>> /\ patches' = <<>>
       /\ tab' = [tab EXCEPT !.rows = fresh.rows]
       /\ readAhead' = (readAhead \/ (tab.search /\ sending # {}))

Head1 == Head(keys)

\* toggle-check-in goes by what the desk knows of the ticket, and reads one it does not
\* hold.  A ticket another desk has checked in meanwhile is answered by check_in_single
\* with a tuple that do_check_in has no clause for: the process exits.  But a row is read
\* before it is written: the other desk's change may come in between (late), and the
\* ticket is checked in, or undone, a second time and broadcast again.
HandleToggle ==
    \E late \in BOOLEAN :
    LET t == Head1.of
        known == IF desk.known[t] # "unknown" THEN desk.known[t]
                 ELSE IF (t \in checked) # late THEN "in" ELSE "pending"
        in == known = "pending"
    IN /\ connected /\ keys # <<>> /\ Head1.event = "toggle-check-in"
       /\ late => others > 0
       /\ IF in /\ t \in checked /\ ~late
          THEN Restarted /\ UNCHANGED <<checked, crossed>>
          ELSE /\ keys' = Tail(keys)
               /\ checked' = IF in THEN checked \cup {t} ELSE checked \ {t}
               /\ news' = Append(news, News(t, in))
               /\ Changes(t)
               /\ Shows(Applied(desk, t, in))
               /\ readAhead' = (readAhead \/ (desk.known[t] = "unknown" /\ (late \/ OnItsWay(t))))
               /\ UNCHANGED tab
       /\ UNCHANGED <<sending, connected, others, resets, pressed>>

\* check-in-order checks in what is left of the order and leaves the list to the
\* broadcasts.
HandleOrder ==
    LET left == {t \in Tickets : OrderOf[t] = OrderOf[Head1.of]} \ checked
    IN /\ connected /\ keys # <<>> /\ Head1.event = "check-in-order"
       /\ keys' = Tail(keys)
       /\ checked' = checked \cup left
       /\ news' = news \o [i \in 1..Cardinality(left) |->
                             News(SetToSeq(left)[i], TRUE)]
       /\ crossed' = (crossed \/ \E s \in sending : s.ticket \in left)
       /\ UNCHANGED <<sending, desk, patches, tab, connected, others, resets, readAhead, pressed>>

\* search and clear-search patch the address, and handle_params reloads.
HandleSearch ==
    /\ connected /\ keys # <<>> /\ Head1.event = "search"
    /\ keys' = Tail(keys)
    /\ Shows(Reloaded(Head1.of))
    /\ readAhead' = (readAhead \/ (Head1.of /\ (sending # {} \/ news # <<>>)))
    /\ UNCHANGED <<checked, sending, news, tab, connected, others, resets, crossed, pressed>>

HandleNews ==
    /\ connected /\ news # <<>>
    /\ news' = Tail(news)
    /\ Shows(Applied(desk, Head(news).ticket, Head(news).in))
    /\ UNCHANGED <<checked, sending, keys, tab, connected, others, resets, crossed, readAhead, pressed>>

-----------------------------------------------------------------------------
(* Other desks and the scanner: commit, then broadcast.                      *)

OtherCommits(t) ==
    /\ MayMove
    /\ others' = others + 1
    /\ checked' = IF t \in checked THEN checked \ {t} ELSE checked \cup {t}
    /\ sending' = sending \cup {[ticket |-> t, in |-> t \notin checked, at |-> others]}
    /\ Changes(t)
    /\ UNCHANGED <<news, desk, keys, patches, tab, connected, resets, readAhead, pressed>>

\* undo_check_in asks nothing of the row, and another desk's row may be out of date; two
\* desks may both have read a ticket as not checked in.  The second change changes nothing
\* and is broadcast like the first.
OtherRepeats(t) ==
    /\ MayMove
    /\ others' = others + 1
    /\ sending' = sending \cup {[ticket |-> t, in |-> t \in checked, at |-> others]}
    /\ readAhead' = (readAhead \/ desk.known[t] = "unknown")
    /\ UNCHANGED <<checked, news, desk, keys, patches, tab, connected, resets, crossed, pressed>>

OtherBroadcasts(s) ==
    /\ s \in sending
    /\ sending' = sending \ {s}
    /\ news' = IF connected THEN Append(news, News(s.ticket, s.in)) ELSE news
    /\ UNCHANGED <<checked, desk, keys, patches, tab, connected, others, resets, crossed,
                   readAhead, pressed>>

LoseDesk ==
    /\ connected /\ MayMove
    /\ resets' = resets + 1
    /\ connected' = FALSE /\ keys' = <<>> /\ patches' = <<>> /\ news' = <<>>
    /\ UNCHANGED <<checked, sending, desk, tab, others, crossed, readAhead, pressed>>

RejoinDesk ==
    /\ ~connected /\ connected' = TRUE
    /\ Restarted
    /\ UNCHANGED <<checked, sending, others, resets, crossed, pressed>>

-----------------------------------------------------------------------------
DeskNext ==
    \/ PressEscape \/ TypeSearch \/ ReceivePatch
    \/ HandleToggle \/ HandleOrder \/ HandleSearch \/ HandleNews
    \/ LoseDesk \/ RejoinDesk
    \/ \E n \in DOMAIN DomRows : PressShortcut(n) \/ PressRow(n)
    \/ \E t \in Tickets : ClickUndo(t) \/ OtherCommits(t) \/ OtherRepeats(t)
    \/ \E s \in sending : OtherBroadcasts(s)

DeskSpec == DeskInit /\ [][DeskNext]_deskVars

-----------------------------------------------------------------------------
DeskTypeOK ==
    /\ checked \subseteq Tickets
    /\ desk.known \in [Tickets -> {"unknown", "pending", "in"}]
    /\ desk.rows \in Seq(Tickets) /\ desk.count \in Int
    /\ tab.rows \in Seq(Tickets) /\ {tab.text, tab.search} \subseteq BOOLEAN
    /\ {connected, crossed, readAhead} \subseteq BOOLEAN

DeskSettled == connected /\ sending = {} /\ news = <<>> /\ keys = <<>> /\ patches = <<>>

\* Once nothing is under way the desk lists the tickets that are still to be checked in,
\* each of them once: every one the search finds, and none that another desk, the scanner
\* or a whole-order check-in has taken.  The exception is named: broadcasts of one ticket
\* that were sent in another order than its changes were committed.
ListShowsWhoIsMissing ==
    DeskSettled /\ ~crossed =>
        /\ \A t \in Found(desk.search) \ checked : t \in ToSet(tab.rows)
        /\ ToSet(tab.rows) \cap checked = {}
        /\ Cardinality(ToSet(tab.rows)) = Len(tab.rows)

\* The count of checked-in guests, kept by adding and subtracting, is what the database
\* says.  Its exception, named: the desk is told of a ticket it does not hold, one outside
\* its search, what the count it has read from the database includes already.  Either it
\* read the count (a search that reloads it, a key for a row that has left the list)
\* between a change and its broadcast, or the broadcast repeats what was so before.
CountIsTrue ==
    DeskSettled /\ ~crossed /\ ~readAhead => desk.count = Cardinality(checked)

\* What the door goes by: the list of who is missing and the count of who is in.
DeskIsTrue == ListShowsWhoIsMissing /\ CountIsTrue
=============================================================================
