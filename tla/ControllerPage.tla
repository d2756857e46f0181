--------------------------- MODULE ControllerPage ---------------------------
(***************************************************************************)
(* Controller pages in browsers, which come and go, and a server that is   *)
(* started again with another number of columns.  Who connects makes the   *)
(* web thread send the session and the whole status to every open page,    *)
(* while another thread may press buttons.  A page keeps what it showed    *)
(* until it hears of another session.                                      *)
(***************************************************************************)
EXTENDS Integers, Sequences, FiniteSetsExt

CONSTANTS
  Pages,
  MaxColumns, Slots,       (* slots of every column                        *)
  OtherThread,  (* a MIDI controller presses buttons as well               *)
  MaxSessions, MaxInbox

PageAssumption ==
  /\ {MaxColumns, Slots, MaxSessions, MaxInbox} \subseteq Nat \ {0}
  /\ OtherThread \in BOOLEAN

Places == (1 .. MaxColumns) \X (1 .. Slots)

VARIABLES
  session,      (* Utils::getRuntimeSessionId                              *)
  hub,          (* activated, per slot of the columns there are            *)
  status,       (* the places sendCurrentStatus still has to send          *)
  column,       (* its copy of the column it is in                         *)
  visible,      (* pages that are not hidden                               *)
  open,         (* pages with an open socket                               *)
  inbox,        (* what was sent on it                                     *)
  known,        (* state.runtimeSessionId, 0 for null                      *)
  shown,        (* state.columns: active, per slot                         *)
  broken        (* the page met a slot that its arrays skip                *)

server == <<session, hub, status, column>>
page   == <<known, shown, broken>>
vars   == <<server, visible, open, inbox, page>>

Session(n)  == [session |-> n]
Active(p, v) == [place |-> p, active |-> v]

TypeOK ==
  /\ session \in 1 .. MaxSessions
  /\ DOMAIN hub \subseteq Places
  /\ \A p \in DOMAIN hub : hub[p] \in BOOLEAN
  /\ status \in Seq(Places) /\ Len(status) <= MaxColumns * Slots
  /\ open \subseteq visible /\ visible \subseteq Pages
  /\ \A p \in Pages :
       /\ p \notin open => inbox[p] = <<>>
       /\ Len(inbox[p]) <= MaxInbox
       /\ known[p] \in 0 .. session
       /\ DOMAIN shown[p] \subseteq Places
       /\ known[p] = 0 => shown[p] = <<>>

Hubs == UNION {[(1 .. n) \X (1 .. Slots) -> BOOLEAN] : n \in 1 .. MaxColumns}

Init ==
  /\ session = 1 /\ hub \in Hubs
  /\ status = <<>> /\ column = <<>>
  /\ visible = {} /\ open = {}
  /\ inbox = [p \in Pages |-> <<>>]
  /\ known = [p \in Pages |-> 0] /\ shown = [p \in Pages |-> <<>>]
  /\ broken = [p \in Pages |-> FALSE]

-----------------------------------------------------------------------------
(* The server.                                                             *)

SendAll(to, msg) ==
  /\ \A p \in to : Len(inbox[p]) < MaxInbox
  /\ inbox' = [p \in Pages |-> IF p \in to THEN Append(inbox[p], msg) ELSE inbox[p]]

(* Column by column, slot by slot.                                         *)
StatusOrder(n) == [i \in 1 .. n * Slots |->
                     <<((i - 1) \div Slots) + 1, ((i - 1) % Slots) + 1>>]

Columns == Max({p[1] : p \in DOMAIN hub})

(* connectionHandler: all open pages are told again.                       *)
Connected(p) ==
  /\ open' = open \cup {p}
  /\ SendAll(open', Session(session))
  /\ status' = StatusOrder(Columns)
  /\ UNCHANGED <<session, hub, column, visible, page>>

(* sendCurrentStatus copies a column before it sends its slots.            *)
CopyColumn ==
  /\ status # <<>> /\ column = <<>>
  /\ column' = [s \in 1 .. Slots |-> hub[<<Head(status)[1], s>>]]
  /\ UNCHANGED <<session, hub, status, visible, open, inbox, page>>

SendSlot ==
  /\ column # <<>>
  /\ LET at == Head(status) IN
       /\ SendAll(open, Active(at, column[at[2]]))
       /\ column' = IF at[2] = Slots THEN <<>> ELSE column
  /\ status' = Tail(status)
  /\ UNCHANGED <<session, hub, visible, open, page>>

(* A button of a page, which the web thread serves, or of a controller.    *)
Press ==
  /\ OtherThread \/ status = <<>>
  /\ \E at \in DOMAIN hub :
       /\ hub' = [hub EXCEPT ![at] = ~@]
       /\ SendAll(open, Active(at, hub'[at]))
  /\ UNCHANGED <<session, status, column, visible, open, page>>

(* The next build may have other columns; all sockets are closed.          *)
Restart ==
  /\ session < MaxSessions
  /\ session' = session + 1
  /\ hub' \in Hubs
  /\ status' = <<>> /\ column' = <<>>
  /\ open' = {} /\ inbox' = [p \in Pages |-> <<>>]
  /\ UNCHANGED <<visible, page>>

-----------------------------------------------------------------------------
(* A page.                                                                 *)

(* fixSocket, on a timer and when the page becomes visible.                *)
Connect(p) ==
  /\ p \in visible \ open /\ status = <<>>
  /\ Connected(p)

Show(p) ==
  /\ p \notin visible
  /\ visible' = visible \cup {p}
  /\ UNCHANGED <<server, open, inbox, page>>

(* A socket is closed when its page is hidden, or is lost.                 *)
Close(p) ==
  /\ p \in visible
  /\ visible' \in {visible, visible \ {p}}
  /\ open' = open \ {p} /\ inbox' = [inbox EXCEPT ![p] = <<>>]
  /\ UNCHANGED <<server, page>>

(* Wrong on purpose: takes the new session, keeps the old columns.         *)
KeepsColumns(p, n) == shown[p]

(* The first session is stored, another one resets all.                    *)
AfterSession(p, n) == IF known[p] \in {0, n} THEN shown[p] ELSE <<>>

(* resizeController makes a column or slot that is past the end; one that  *)
(* was skipped is undefined, and set() fails on it.                        *)
Skipped(p, at) ==
  LET has == DOMAIN shown[p]
  IN  \/ /\ \E q \in has : q[1] > at[1]
         /\ ~\E q \in has : q[1] = at[1]
      \/ /\ \E q \in has : q[1] = at[1] /\ q[2] > at[2]
         /\ at \notin has

Receive(p) ==
  /\ inbox[p] # <<>>
  /\ inbox' = [inbox EXCEPT ![p] = Tail(@)]
  /\ LET m == Head(inbox[p]) IN
       IF "session" \in DOMAIN m
       THEN /\ known' = [known EXCEPT ![p] = m.session]
            /\ shown' = [shown EXCEPT ![p] = AfterSession(p, m.session)]
            /\ UNCHANGED broken
       ELSE /\ broken' = [broken EXCEPT ![p] = @ \/ Skipped(p, m.place)]
            /\ shown' = IF Skipped(p, m.place) THEN shown
                        ELSE [shown EXCEPT ![p] =
                               [q \in DOMAIN @ \cup {m.place} |->
                                  IF q = m.place THEN m.active ELSE @[q]]]
            /\ UNCHANGED known
  /\ UNCHANGED <<server, visible, open>>

Serve == CopyColumn \/ SendSlot
Next ==
  \/ Serve \/ Press \/ Restart
  \/ \E p \in Pages : Connect(p) \/ Show(p) \/ Close(p) \/ Receive(p)

Spec == Init /\ [][Next]_vars

(* The web thread and the pages go on; a page that is shown long enough    *)
(* gets a socket, as the timer of the others does not stop it.             *)
FairSpec ==
  /\ Spec /\ WF_vars(Serve)
  /\ \A p \in Pages : SF_vars(Connect(p)) /\ WF_vars(Receive(p))

-----------------------------------------------------------------------------
(* Properties.                                                             *)

(* "This resets and rebuilds the internal state of the client so           *)
(* everything is guaranteed to be in sync with the new version": an open   *)
(* page that heard everything shows the slots there are, as they are.      *)
InSync ==
  \A p \in open : status = <<>> /\ inbox[p] = <<>> => shown[p] = hub

(* No page meets a slot that its arrays skip.                              *)
NoHole == \A p \in Pages : ~broken[p]

=============================================================================
