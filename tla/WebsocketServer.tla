--------------------------- MODULE WebsocketServer ---------------------------
(***************************************************************************)
(* The clients of one websocket path.  The io thread connects sessions,    *)
(* handles their messages and destroys them; other threads broadcast at    *)
(* the same time.  A mutex guards the set of clients.                      *)
(***************************************************************************)
EXTENDS Integers, Sequences, FiniteSets

CONSTANTS
  Sender,       (* threads other than the io thread that broadcast         *)
  Session,      (* sessions of browsers (bound)                            *)
  Io,           (* the io thread                                           *)
  MaxSent       (* bound on the broadcasts                                 *)

Thread == Sender \cup {Io}
Nobody == "nobody"

ASSUME ServerAssumption ==
  /\ Io \notin Sender /\ Nobody \notin Thread
  /\ MaxSent \in Nat

VARIABLES
  clients,
  mutex,        (* the thread that holds m, or Nobody                      *)
  pc,           (* what each thread is doing                               *)
  todo,         (* per thread: the sessions its broadcast still goes to    *)
  msg,          (* per thread: the message it broadcasts                   *)
  session,      (* what the io thread is connecting or destroying          *)
  memory,       (* per session: none, alive, or freed                      *)
  sent,         (* broadcasts so far; each is a message number             *)
  inbox         (* per session: the messages written to it                 *)

vars == <<clients, mutex, pc, todo, msg, session, memory, sent, inbox>>

TypeOK ==
  /\ clients \subseteq Session /\ mutex \in Thread \cup {Nobody}
  /\ pc \in [Thread -> {"idle", "lock", "write", "insert", "connected",
                        "disconnected", "erase", "free"}]
  /\ session \in Session
  /\ todo \in [Thread -> SUBSET Session] /\ msg \in [Thread -> 0 .. MaxSent]
  /\ memory \in [Session -> {"none", "alive", "broken", "freed"}]
  /\ sent \in 0 .. MaxSent
  /\ \A t \in Thread : mutex = t <=> pc[t] = "write"

Init ==
  /\ clients = {} /\ mutex = Nobody
  /\ pc = [t \in Thread |-> "idle"]
  /\ todo = [t \in Thread |-> {}] /\ msg = [t \in Thread |-> 0]
  /\ session \in Session
  /\ memory = [s \in Session |-> "none"]
  /\ sent = 0 /\ inbox = [s \in Session |-> <<>>]

Goto(t, l) == pc' = [pc EXCEPT ![t] = l]

(* sendAll: the message is ready, then the mutex is asked for.             *)
Broadcast(t, from, to) ==
  /\ pc[t] = from /\ sent < MaxSent
  /\ sent' = sent + 1
  /\ msg' = [msg EXCEPT ![t] = sent + 1]
  /\ Goto(t, to)

(* Wrong on purpose: the mutex guards the copy of the set only.            *)
LockForCopy(t) == mutex = Nobody /\ UNCHANGED mutex

Lock(t) == mutex = Nobody /\ mutex' = t

LockClients(t) ==
  /\ pc[t] = "lock"
  /\ Lock(t)
  /\ todo' = [todo EXCEPT ![t] = clients]
  /\ Goto(t, "write")
  /\ UNCHANGED <<clients, msg, session, memory, sent, inbox>>

(* The write is synchronous: it returns when the client has room for it.   *)
(* On a broken session nothing arrives: the stream throws or, between Drop *)
(* and Erase, is destroyed already (what the write does is undefined).     *)
Write(t) ==
  /\ pc[t] = "write"
  /\ \E s \in todo[t] :
       /\ todo' = [todo EXCEPT ![t] = @ \ {s}]
       /\ inbox' = IF memory[s] = "alive" THEN [inbox EXCEPT ![s] = Append(@, msg[t])]
                                          ELSE inbox
  /\ UNCHANGED <<clients, mutex, pc, msg, session, memory, sent>>

(* The io thread goes back to the handler that broadcast.                  *)
Unlock(t) ==
  /\ pc[t] = "write" /\ todo[t] = {}
  /\ mutex' = IF mutex = t THEN Nobody ELSE mutex
  /\ Goto(t, IF t = Io /\ memory[session] = "broken" THEN "erase" ELSE "idle")
  /\ UNCHANGED <<clients, todo, msg, session, memory, sent, inbox>>

SendAll(t) == LockClients(t) \/ Write(t) \/ Unlock(t)

-----------------------------------------------------------------------------
(* The io thread.                                                          *)

Accept ==
  /\ pc[Io] = "idle"
  /\ \E s \in Session : memory[s] = "none" /\ session' = s
                        /\ memory' = [memory EXCEPT ![s] = "alive"]
  /\ Goto(Io, "insert")
  /\ UNCHANGED <<clients, mutex, todo, msg, sent, inbox>>

(* Wrong on purpose: the handler is called with the mutex held.            *)
InsertHolding ==
  /\ pc[Io] = "insert" /\ mutex = Nobody
  /\ clients' = clients \cup {session}
  /\ mutex' = Io
  /\ Goto(Io, "connected")
  /\ UNCHANGED <<todo, msg, session, memory, sent, inbox>>

(* on_connect: insert, then the connection handler, which may broadcast    *)
(* (websocketOutput does) and so must not hold the mutex.                  *)
Insert ==
  /\ pc[Io] = "insert" /\ mutex = Nobody
  /\ clients' = clients \cup {session}
  /\ Goto(Io, "connected")
  /\ UNCHANGED <<mutex, todo, msg, session, memory, sent, inbox>>

Connected ==
  /\ pc[Io] = "connected"
  /\ \/ Broadcast(Io, "connected", "lock")
     \/ Goto(Io, "idle") /\ UNCHANGED <<sent, msg>>
  /\ UNCHANGED <<clients, mutex, todo, session, memory, inbox>>

(* A message of a client whose handler tells all.                          *)
OnReceive ==
  /\ Broadcast(Io, "idle", "lock")
  /\ \E s \in clients : memory[s] = "alive" /\ session' = s
  /\ UNCHANGED <<clients, mutex, todo, memory, inbox>>

(* The last reference to the session goes: its stream is destroyed before  *)
(* ~websocket_session tells the receiver.                                  *)
Drop ==
  /\ pc[Io] = "idle"
  /\ \E s \in Session : memory[s] = "alive" /\ session' = s
                        /\ memory' = [memory EXCEPT ![s] = "broken"]
  /\ Goto(Io, "disconnected")
  /\ UNCHANGED <<clients, mutex, todo, msg, sent, inbox>>

(* on_disconnect: the handler, then the erase, then the memory is freed.   *)
Disconnected ==
  /\ pc[Io] = "disconnected"
  /\ \/ Broadcast(Io, "disconnected", "lock")
     \/ Goto(Io, "erase") /\ UNCHANGED <<sent, msg>>
  /\ UNCHANGED <<clients, mutex, todo, session, memory, inbox>>

Erase ==
  /\ pc[Io] = "erase" /\ mutex = Nobody
  /\ clients' = clients \ {session}
  /\ Goto(Io, "free")
  /\ UNCHANGED <<mutex, todo, msg, session, memory, sent, inbox>>

Free ==
  /\ pc[Io] = "free"
  /\ memory' = [memory EXCEPT ![session] = "freed"]
  /\ Goto(Io, "idle")
  /\ UNCHANGED <<clients, mutex, todo, msg, session, sent, inbox>>

SendFrom(t) == 
  /\ Broadcast(t, "idle", "lock")
  /\ UNCHANGED <<clients, mutex, todo, session, memory, inbox>>

IoThread == Insert \/ Connected \/ Disconnected \/ Erase \/ Free

Next ==
  \/ \E t \in Thread : SendAll(t)
  \/ \E t \in Sender : SendFrom(t)
  \/ Accept \/ OnReceive \/ Drop \/ IoThread

Spec == Init /\ [][Next]_vars

(* Threads go on, writes return (the browsers read), and a mutex that is   *)
(* free again and again is got in the end.                                 *)
FairSpec ==
  /\ Spec /\ SF_vars(IoThread)
  /\ \A t \in Thread : SF_vars(SendAll(t))

-----------------------------------------------------------------------------
(* Properties.                                                             *)

(* A broadcast writes to no session whose memory was given back.           *)
NoWriteToFreed ==
  \A t \in Thread : pc[t] = "write" => \A s \in todo[t] : memory[s] # "freed"

(* Two browsers see the broadcasts they both get in the same order, so     *)
(* that they end up showing the same.                                      *)
SameOrder ==
  \A s, r \in Session :
    \A i, j \in DOMAIN inbox[s] : \A k, l \in DOMAIN inbox[r] :
      i < j /\ inbox[s][i] = inbox[r][k] /\ inbox[s][j] = inbox[r][l] => k < l

(* No thread waits for ever: handlers that broadcast do not hold what they *)
(* ask for.                                                                *)
BroadcastsEnd == \A t \in Thread : pc[t] # "idle" ~> pc[t] = "idle"

=============================================================================
