------------------------------ MODULE WebProofs ------------------------------
(***************************************************************************)
(* Proofs about the servers and clients of the network layer: the clients  *)
(* of a websocket path, an HTTP connection and the cache of names, each    *)
(* first, then the program that uses one of them.                          *)
(***************************************************************************)
EXTENDS Web, SequenceTheorems, TLAPS

-----------------------------------------------------------------------------
(* The clients of a websocket path.                                        *)

(* A broadcast under way has the mutex and writes to clients only.         *)
WritesToClients == \A t \in Thread : pc[t] = "write" => todo[t] \subseteq clients

(* A client was not freed; the io thread has taken a session out of the    *)
(* clients before it frees it, and puts in only sessions that are alive.   *)
ClientsLive ==
  /\ \A s \in clients : memory[s] # "freed"
  /\ pc[Io] = "free" => session \notin clients
  /\ pc[Io] = "insert" => memory[session] = "alive"

(* The strengthening of NoWriteToFreed that steps preserve.                *)
ServerInv == TypeOK /\ WritesToClients /\ ClientsLive

LEMMA IoIsThread == Io \in Thread /\ Sender \subseteq Thread /\ Nobody \notin Thread
BY ServerAssumption DEF Thread

LEMMA ServerInit == Init => ServerInv
BY IoIsThread, ServerAssumption DEF Init, ServerInv, TypeOK, WritesToClients, ClientsLive

(* A thread goes where no session is written, inserted or freed.           *)
LEMMA GotoHarmless ==
  ASSUME ServerInv, NEW t \in Thread, NEW l \in {"idle", "lock", "connected", "disconnected", "erase"},
         Goto(t, l), pc[t] # "write",
         UNCHANGED <<clients, mutex, todo, memory, inbox>>,
         session' \in Session, t # Io => UNCHANGED session,
         sent' \in 0 .. MaxSent, msg' \in [Thread -> 0 .. MaxSent]
  PROVE  ServerInv'
<1>1. pc' = [pc EXCEPT ![t] = l] /\ pc \in [Thread -> {"idle", "lock", "write", "insert",
             "connected", "disconnected", "erase", "free"}]
  BY DEF Goto, ServerInv, TypeOK
<1>2. TypeOK'
  BY <1>1 DEF ServerInv, TypeOK
<1>3. WritesToClients'
  BY <1>1 DEF ServerInv, WritesToClients
<1>4. ClientsLive'
  BY <1>1, IoIsThread DEF ServerInv, ClientsLive
<1>5. QED
  BY <1>2, <1>3, <1>4 DEF ServerInv

LEMMA BroadcastTypes ==
  ASSUME ServerInv, NEW t \in Thread, NEW from, NEW to, Broadcast(t, from, to)
  PROVE  sent' \in 0 .. MaxSent /\ msg' \in [Thread -> 0 .. MaxSent]
BY ServerAssumption DEF ServerInv, TypeOK, Broadcast

(* The mutex makes the copy of the clients a set that stays.               *)
LEMMA SendAllStep ==
  ASSUME ServerInv, NEW t \in Thread, SendAll(t)
  PROVE  ServerInv'
<1>1. CASE LockClients(t)
  <2>1. mutex = Nobody /\ mutex' = t /\ pc' = [pc EXCEPT ![t] = "write"]
    BY <1>1 DEF LockClients, Lock, Goto
  <2>2. TypeOK'
    BY <1>1, <2>1, IoIsThread DEF ServerInv, TypeOK, LockClients
  <2>3. WritesToClients' /\ ClientsLive'
    BY <1>1, <2>1, IoIsThread DEF ServerInv, TypeOK, WritesToClients, ClientsLive, LockClients
  <2>4. QED
    BY <2>2, <2>3 DEF ServerInv
<1>2. CASE Write(t)
  <2>1. TypeOK'
    BY <1>2 DEF ServerInv, TypeOK, Write
  <2>2. WritesToClients' /\ ClientsLive'
    BY <1>2 DEF ServerInv, TypeOK, WritesToClients, ClientsLive, Write
  <2>3. QED
    BY <2>1, <2>2 DEF ServerInv
<1>3. CASE Unlock(t)
  <2>1. PICK l \in {"erase", "idle"} : pc' = [pc EXCEPT ![t] = l]
    BY <1>3 DEF Unlock, Goto
  <2>2. mutex = t /\ mutex' = Nobody
    BY <1>3 DEF ServerInv, TypeOK, Unlock
  <2>3. TypeOK'
    BY <1>3, <2>1, <2>2, IoIsThread DEF ServerInv, TypeOK, Unlock
  <2>4. WritesToClients' /\ ClientsLive'
    BY <1>3, <2>1, IoIsThread DEF ServerInv, TypeOK, WritesToClients, ClientsLive, Unlock
  <2>5. QED
    BY <2>3, <2>4 DEF ServerInv
<1>4. QED
  BY <1>1, <1>2, <1>3 DEF SendAll

(* Sessions come: an accepted one is alive until it is a client.           *)
LEMMA AcceptStep == ASSUME ServerInv, Accept PROVE ServerInv'
<1>1. /\ pc' = [pc EXCEPT ![Io] = "insert"]
      /\ memory' = [memory EXCEPT ![session'] = "alive"] /\ session' \in Session
  BY DEF Accept, Goto
<1>2. TypeOK'
  BY <1>1, IoIsThread DEF ServerInv, TypeOK, Accept
<1>3. WritesToClients' /\ ClientsLive'
  BY <1>1, IoIsThread DEF ServerInv, TypeOK, WritesToClients, ClientsLive, Accept
<1>4. QED
  BY <1>2, <1>3 DEF ServerInv

LEMMA InsertStep == ASSUME ServerInv, Insert PROVE ServerInv'
<1>1. pc' = [pc EXCEPT ![Io] = "connected"] /\ memory[session] = "alive"
  BY DEF ServerInv, ClientsLive, Insert, Goto
<1>2. TypeOK'
  BY <1>1, IoIsThread DEF ServerInv, TypeOK, Insert
<1>3. WritesToClients' /\ ClientsLive'
  BY <1>1, IoIsThread DEF ServerInv, TypeOK, WritesToClients, ClientsLive, Insert
<1>4. QED
  BY <1>2, <1>3 DEF ServerInv

(* Sessions go: broken, then out of the clients while nobody has the       *)
(* mutex, then freed.                                                      *)
LEMMA DropStep == ASSUME ServerInv, Drop PROVE ServerInv'
<1>1. /\ pc' = [pc EXCEPT ![Io] = "disconnected"]
      /\ memory' = [memory EXCEPT ![session'] = "broken"] /\ session' \in Session
  BY DEF Drop, Goto
<1>2. TypeOK'
  BY <1>1, IoIsThread DEF ServerInv, TypeOK, Drop
<1>3. WritesToClients' /\ ClientsLive'
  BY <1>1, IoIsThread DEF ServerInv, TypeOK, WritesToClients, ClientsLive, Drop
<1>4. QED
  BY <1>2, <1>3 DEF ServerInv

LEMMA EraseStep == ASSUME ServerInv, Erase PROVE ServerInv'
<1>1. pc' = [pc EXCEPT ![Io] = "free"]
  BY DEF Erase, Goto
<1>2. \A t \in Thread : pc[t] # "write"
  BY IoIsThread DEF ServerInv, TypeOK, Erase
<1>3. TypeOK'
  BY <1>1, IoIsThread DEF ServerInv, TypeOK, Erase
<1>4. WritesToClients'
  BY <1>1, <1>2, IoIsThread DEF ServerInv, TypeOK, WritesToClients, Erase
<1>5. ClientsLive'
  BY <1>1, IoIsThread DEF ServerInv, TypeOK, ClientsLive, Erase
<1>6. QED
  BY <1>3, <1>4, <1>5 DEF ServerInv

LEMMA FreeStep == ASSUME ServerInv, Free PROVE ServerInv'
<1>1. /\ pc' = [pc EXCEPT ![Io] = "idle"] /\ session \notin clients
      /\ memory' = [memory EXCEPT ![session] = "freed"]
  BY DEF ServerInv, ClientsLive, Free, Goto
<1>2. TypeOK'
  BY <1>1, IoIsThread DEF ServerInv, TypeOK, Free
<1>3. WritesToClients' /\ ClientsLive'
  BY <1>1, IoIsThread DEF ServerInv, TypeOK, WritesToClients, ClientsLive, Free
<1>4. QED
  BY <1>2, <1>3 DEF ServerInv

LEMMA ServerNext == ServerInv /\ [Next]_vars => ServerInv'
<1> SUFFICES ASSUME ServerInv, [Next]_vars
             PROVE  ServerInv'
  OBVIOUS
<1> session \in Session /\ sent \in 0 .. MaxSent /\ msg \in [Thread -> 0 .. MaxSent]
  BY DEF ServerInv, TypeOK
<1>1. ASSUME NEW t \in Thread, SendAll(t) PROVE ServerInv'
  BY <1>1, SendAllStep
<1>2. ASSUME NEW t \in Sender, SendFrom(t) PROVE ServerInv'
  <2>1. t \in Thread /\ Broadcast(t, "idle", "lock")
    BY <1>2, IoIsThread DEF SendFrom
  <2>2. sent' \in 0 .. MaxSent /\ msg' \in [Thread -> 0 .. MaxSent]
    BY <2>1, BroadcastTypes
  <2>3. Goto(t, "lock") /\ pc[t] # "write"
    BY <2>1 DEF Broadcast
  <2>4. QED
    BY <1>2, <2>1, <2>2, <2>3, GotoHarmless DEF SendFrom
<1>3. CASE Connected
  <2>1. CASE Broadcast(Io, "connected", "lock")
    <3>1. sent' \in 0 .. MaxSent /\ msg' \in [Thread -> 0 .. MaxSent]
      BY <2>1, IoIsThread, BroadcastTypes
    <3>2. QED
      BY <1>3, <2>1, <3>1, IoIsThread, GotoHarmless DEF Connected, Broadcast
  <2>2. CASE Goto(Io, "idle") /\ UNCHANGED <<sent, msg>>
    BY <1>3, <2>2, IoIsThread, GotoHarmless DEF Connected
  <2>3. QED
    BY <1>3, <2>1, <2>2 DEF Connected
<1>4. CASE Disconnected
  <2>1. CASE Broadcast(Io, "disconnected", "lock")
    <3>1. sent' \in 0 .. MaxSent /\ msg' \in [Thread -> 0 .. MaxSent]
      BY <2>1, IoIsThread, BroadcastTypes
    <3>2. QED
      BY <1>4, <2>1, <3>1, IoIsThread, GotoHarmless DEF Disconnected, Broadcast
  <2>2. CASE Goto(Io, "erase") /\ UNCHANGED <<sent, msg>>
    BY <1>4, <2>2, IoIsThread, GotoHarmless DEF Disconnected
  <2>3. QED
    BY <1>4, <2>1, <2>2 DEF Disconnected
<1>5. CASE OnReceive
  <2>1. Broadcast(Io, "idle", "lock")
    BY <1>5 DEF OnReceive
  <2>2. sent' \in 0 .. MaxSent /\ msg' \in [Thread -> 0 .. MaxSent]
    BY <2>1, IoIsThread, BroadcastTypes
  <2>3. session' \in Session
    BY <1>5 DEF OnReceive, ServerInv, TypeOK
  <2>4. QED
    BY <1>5, <2>1, <2>2, <2>3, IoIsThread, GotoHarmless DEF OnReceive, Broadcast
<1>6. CASE Accept
  BY <1>6, AcceptStep
<1>7. CASE Insert
  BY <1>7, InsertStep
<1>8. CASE Drop
  BY <1>8, DropStep
<1>9. CASE Erase
  BY <1>9, EraseStep
<1>10. CASE Free
  BY <1>10, FreeStep
<1>11. CASE UNCHANGED vars
  BY <1>11 DEF ServerInv, TypeOK, WritesToClients, ClientsLive, vars
<1>12. QED
  BY <1>1, <1>2, <1>3, <1>4, <1>5, <1>6, <1>7, <1>8, <1>9, <1>10, <1>11
  DEF Next, IoThread

LEMMA ServerIsSafe == ServerInv => NoWriteToFreed
BY DEF ServerInv, TypeOK, WritesToClients, ClientsLive, NoWriteToFreed

(* What the order of the messages rests on: every broadcast has a number   *)
(* of its own; one that waits for the mutex has reached nobody; one that   *)
(* has the mutex has reached some, as their last message, and does not     *)
(* reach them again.                                                       *)
Pending(t) == pc[t] \in {"lock", "write"}

NumbersApart ==
  /\ inbox \in [Session -> Seq(1 .. MaxSent)]
  /\ \A s \in Session : \A i \in DOMAIN inbox[s] : inbox[s][i] <= sent
  /\ \A t \in Thread : Pending(t) => msg[t] \in 1 .. sent
  /\ \A t, u \in Thread : t # u /\ Pending(t) /\ Pending(u) => msg[t] # msg[u]

NotYetWritten ==
  \A t \in Thread : pc[t] = "lock" =>
    \A s \in Session : \A i \in DOMAIN inbox[s] : inbox[s][i] # msg[t]

WrittenLast ==
  \A t \in Thread : pc[t] = "write" =>
    \A s \in Session : \A i \in DOMAIN inbox[s] :
      inbox[s][i] = msg[t] => i = Len(inbox[s]) /\ s \notin todo[t]

OrderInv == NumbersApart /\ NotYetWritten /\ WrittenLast /\ SameOrder

LEMMA InboxFacts ==
  ASSUME inbox \in [Session -> Seq(1 .. MaxSent)]
  PROVE  \A s \in Session :
           /\ inbox[s] \in Seq(1 .. MaxSent) /\ Len(inbox[s]) \in Nat
           /\ DOMAIN inbox[s] = 1 .. Len(inbox[s])
           /\ \A i \in DOMAIN inbox[s] : inbox[s][i] \in 1 .. MaxSent
<1> TAKE s \in Session
<1>1. inbox[s] \in Seq(1 .. MaxSent)
  OBVIOUS
<1>2. Len(inbox[s]) \in Nat /\ DOMAIN inbox[s] = 1 .. Len(inbox[s])
  BY <1>1
<1>3. \A i \in DOMAIN inbox[s] : inbox[s][i] \in 1 .. MaxSent
  BY <1>1, <1>2, ElementOfSeq
<1>4. QED
  BY <1>1, <1>2, <1>3

LEMMA OrderInit == Init => OrderInv
<1> SUFFICES ASSUME Init PROVE OrderInv
  OBVIOUS
<1>1. \A s \in Session : inbox[s] = <<>> /\ DOMAIN inbox[s] = {}
  BY DEF Init
<1>2. inbox \in [Session -> Seq(1 .. MaxSent)] /\ \A t \in Thread : ~Pending(t)
  BY DEF Init, Pending
<1>3. NumbersApart
  BY <1>1, <1>2 DEF NumbersApart
<1>4. NotYetWritten /\ WrittenLast /\ SameOrder
  BY <1>1 DEF NotYetWritten, WrittenLast, SameOrder
<1>5. QED
  BY <1>3, <1>4 DEF OrderInv

(* Steps that begin no broadcast and write nothing.                        *)
LEMMA QuietOrder ==
  ASSUME OrderInv, UNCHANGED <<todo, msg, sent, inbox>>,
         \A t \in Thread : pc'[t] \in {"lock", "write"} => pc'[t] = pc[t]
  PROVE  OrderInv'
<1>1. NumbersApart'
  BY DEF OrderInv, NumbersApart, Pending
<1>2. NotYetWritten' /\ WrittenLast' /\ SameOrder'
  BY DEF OrderInv, NotYetWritten, WrittenLast, SameOrder
<1>3. QED
  BY <1>1, <1>2 DEF OrderInv

(* A broadcast that begins has a number that nobody has seen.              *)
LEMMA BroadcastOrder ==
  ASSUME ServerInv, OrderInv, NEW t \in Thread, NEW from, Broadcast(t, from, "lock"),
         from \notin {"lock", "write"}, UNCHANGED <<todo, inbox>>
  PROVE  OrderInv'
<1>1. /\ pc' = [pc EXCEPT ![t] = "lock"] /\ msg' = [msg EXCEPT ![t] = sent + 1]
      /\ sent' = sent + 1 /\ sent' \in 0 .. MaxSent /\ sent \in 0 .. MaxSent
      /\ pc[t] = from
  BY ServerAssumption DEF Broadcast, Goto, ServerInv, TypeOK
<1>2. DOMAIN pc = Thread /\ DOMAIN msg = Thread
  BY DEF ServerInv, TypeOK
<1>3. /\ pc'[t] = "lock" /\ msg'[t] = sent + 1
      /\ \A u \in Thread : u # t => pc'[u] = pc[u] /\ msg'[u] = msg[u]
  BY <1>1, <1>2
<1>4. NumbersApart'
  <2>1. \A s \in Session : \A i \in DOMAIN inbox[s] : inbox[s][i] \in 1 .. MaxSent
    BY InboxFacts DEF OrderInv, NumbersApart
  <2>2. \A s \in Session : \A i \in DOMAIN inbox'[s] : inbox'[s][i] <= sent'
    BY <1>1, <2>1 DEF OrderInv, NumbersApart
  <2>3. \A u \in Thread : Pending(u)' => msg'[u] \in 1 .. sent'
    BY <1>1, <1>3 DEF OrderInv, NumbersApart, Pending
  <2>4. \A u, v \in Thread : u # v /\ Pending(u)' /\ Pending(v)' => msg'[u] # msg'[v]
    BY <1>1, <1>3 DEF OrderInv, NumbersApart, Pending
  <2>5. QED
    BY <2>2, <2>3, <2>4 DEF OrderInv, NumbersApart
<1>5. NotYetWritten'
  <2>1. \A s \in Session : \A i \in DOMAIN inbox[s] : inbox[s][i] # sent + 1
    BY <1>1 DEF OrderInv, NumbersApart
  <2>2. QED
    BY <1>3, <2>1 DEF OrderInv, NotYetWritten
<1>6. WrittenLast' /\ SameOrder'
  BY <1>3 DEF OrderInv, WrittenLast, SameOrder
<1>7. QED
  BY <1>4, <1>5, <1>6 DEF OrderInv

LEMMA LockOrder ==
  ASSUME ServerInv, OrderInv, NEW t \in Thread, LockClients(t)
  PROVE  OrderInv'
<1>1. /\ pc' = [pc EXCEPT ![t] = "write"] /\ pc[t] = "lock" /\ DOMAIN pc = Thread
      /\ todo' = [todo EXCEPT ![t] = clients] /\ DOMAIN todo = Thread
      /\ UNCHANGED <<msg, sent, inbox>>
  BY DEF LockClients, Goto, ServerInv, TypeOK
<1>2. \A u \in Thread : Pending(u)' <=> Pending(u)
  BY <1>1 DEF Pending
<1>3. NumbersApart'
  BY <1>1, <1>2 DEF OrderInv, NumbersApart
<1>4. NotYetWritten' /\ WrittenLast' /\ SameOrder'
  BY <1>1 DEF OrderInv, NotYetWritten, WrittenLast, SameOrder
<1>5. QED
  BY <1>3, <1>4 DEF OrderInv

(* The message goes to the end of an inbox that does not hold it, and in   *)
(* every inbox that holds it, it is the last, since the mutex keeps the    *)
(* other broadcasts out.                                                   *)
LEMMA WriteOrder ==
  ASSUME ServerInv, OrderInv, NEW t \in Thread, Write(t)
  PROVE  OrderInv'
<1> DEFINE m == msg[t]
<1>1. PICK w \in todo[t] :
        /\ todo' = [todo EXCEPT ![t] = @ \ {w}]
        /\ inbox' = IF memory[w] = "alive" THEN [inbox EXCEPT ![w] = Append(@, m)] ELSE inbox
  BY DEF Write
<1>2. /\ pc[t] = "write" /\ UNCHANGED <<pc, msg, sent>> /\ w \in Session
      /\ DOMAIN todo = Thread /\ DOMAIN inbox = Session
      /\ inbox \in [Session -> Seq(1 .. MaxSent)] /\ sent \in 0 .. MaxSent
  BY <1>1 DEF Write, ServerInv, TypeOK, OrderInv, NumbersApart
<1>3. \A u \in Thread : pc[u] = "write" => u = t
  BY <1>2 DEF ServerInv, TypeOK
<1>4. m \in 1 .. sent /\ m \in 1 .. MaxSent
  <2>1. m \in 1 .. sent
    BY <1>2 DEF OrderInv, NumbersApart, Pending
  <2>2. QED
    BY <1>2, <2>1, ServerAssumption
<1>5. /\ w \notin todo'[t] /\ \A s \in Session : s \notin todo[t] => s \notin todo'[t]
  BY <1>1, <1>2
<1>6. CASE memory[w] # "alive"
  <2>1. inbox' = inbox
    BY <1>1, <1>6
  <2>2. NumbersApart' /\ NotYetWritten' /\ SameOrder'
    BY <1>2, <2>1 DEF OrderInv, NumbersApart, Pending, NotYetWritten, SameOrder
  <2>3. WrittenLast'
    BY <1>2, <1>3, <1>5, <2>1 DEF OrderInv, WrittenLast
  <2>4. QED
    BY <2>2, <2>3 DEF OrderInv
<1>7. CASE memory[w] = "alive"
  <2> DEFINE q == inbox[w]
  <2>1. /\ inbox'[w] = Append(q, m) /\ \A s \in Session : s # w => inbox'[s] = inbox[s]
        /\ inbox' \in [Session -> Seq(1 .. MaxSent)] /\ q \in Seq(1 .. MaxSent)
    BY <1>1, <1>2, <1>4, <1>7
  <2>2. /\ Len(q) \in Nat /\ DOMAIN q = 1 .. Len(q) /\ Len(inbox'[w]) = Len(q) + 1
        /\ DOMAIN inbox'[w] = 1 .. Len(q) + 1 /\ inbox'[w][Len(q) + 1] = m
        /\ \A i \in 1 .. Len(q) : inbox'[w][i] = q[i]
    BY <2>1
  <2>3. \A i \in 1 .. Len(q) : q[i] # m
    BY <1>1, <1>2, <2>2 DEF OrderInv, WrittenLast
  <2>4. NumbersApart'
    <3>1. ASSUME NEW s \in Session, NEW i \in DOMAIN inbox'[s]
          PROVE  inbox'[s][i] <= sent'
      <4>1. CASE s = w /\ i = Len(q) + 1
        BY <1>2, <1>4, <2>2, <4>1
      <4>2. CASE ~(s = w /\ i = Len(q) + 1)
        <5>1. i \in DOMAIN inbox[s] /\ inbox'[s][i] = inbox[s][i]
          BY <2>1, <2>2, <3>1, <4>2
        <5>2. QED
          BY <1>2, <5>1 DEF OrderInv, NumbersApart
      <4>3. QED
        BY <4>1, <4>2
    <3>2. QED
      BY <1>2, <2>1, <3>1 DEF OrderInv, NumbersApart, Pending
  <2>5. NotYetWritten'
    <3>1. \A u \in Thread : pc[u] = "lock" => msg[u] # m
      BY <1>2 DEF OrderInv, NumbersApart, Pending
    <3>2. ASSUME NEW u \in Thread, pc[u] = "lock",
                 NEW s \in Session, NEW i \in DOMAIN inbox'[s]
          PROVE  inbox'[s][i] # msg[u]
      <4>1. CASE s = w /\ i = Len(q) + 1
        BY <2>2, <3>1, <3>2, <4>1
      <4>2. CASE ~(s = w /\ i = Len(q) + 1)
        <5>1. i \in DOMAIN inbox[s] /\ inbox'[s][i] = inbox[s][i]
          BY <2>1, <2>2, <3>2, <4>2
        <5>2. QED
          BY <3>2, <5>1 DEF OrderInv, NotYetWritten
      <4>3. QED
        BY <4>1, <4>2
    <3>3. QED
      BY <1>2, <3>2 DEF NotYetWritten
  <2>6. WrittenLast'
    <3>1. ASSUME NEW s \in Session, NEW i \in DOMAIN inbox'[s], inbox'[s][i] = m
          PROVE  i = Len(inbox'[s]) /\ s \notin todo'[t]
      <4>1. CASE s = w
        BY <1>5, <2>2, <2>3, <3>1, <4>1
      <4>2. CASE s # w
        BY <1>2, <1>5, <2>1, <3>1, <4>2 DEF OrderInv, WrittenLast
      <4>3. QED
        BY <4>1, <4>2
    <3>2. QED
      BY <1>2, <1>3, <3>1 DEF WrittenLast
  <2>7. SameOrder'
    <3>1. ASSUME NEW s \in Session, NEW r \in Session,
                 NEW i \in DOMAIN inbox'[s], NEW j \in DOMAIN inbox'[s],
                 NEW k \in DOMAIN inbox'[r], NEW l \in DOMAIN inbox'[r],
                 i < j, inbox'[s][i] = inbox'[r][k], inbox'[s][j] = inbox'[r][l]
          PROVE  k < l
      <4>1. /\ Len(inbox'[s]) \in Nat /\ DOMAIN inbox'[s] = 1 .. Len(inbox'[s])
            /\ Len(inbox'[r]) \in Nat /\ DOMAIN inbox'[r] = 1 .. Len(inbox'[r])
        BY <2>1
      <4>2. (\A x \in Session : \A y \in DOMAIN inbox'[x] :
              inbox'[x][y] = m => y = Len(inbox'[x]))
        BY <1>2, <2>6 DEF WrittenLast
      <4>3. inbox'[r][k] # m
        BY <3>1, <4>1, <4>2
      <4>4. CASE inbox'[r][l] = m
        BY <3>1, <4>1, <4>2, <4>3, <4>4
      <4>5. CASE inbox'[r][l] # m
        <5> HIDE DEF q
        <5>0. ASSUME NEW x \in Session, NEW y \in DOMAIN inbox'[x], inbox'[x][y] # m
              PROVE  y \in DOMAIN inbox[x] /\ inbox[x][y] = inbox'[x][y]
          <6>1. CASE x = w
            <7>1. y \in 1 .. Len(q) + 1 /\ y # Len(q) + 1
              BY <2>2, <5>0, <6>1
            <7>2. y \in 1 .. Len(q)
              BY <2>2, <7>1
            <7>3. QED
              BY <2>2, <6>1, <7>2 DEF q
          <6>2. CASE x # w
            BY <2>1, <5>0, <6>2
          <6>3. QED
            BY <6>1, <6>2
        <5>1. /\ i \in DOMAIN inbox[s] /\ inbox[s][i] = inbox'[s][i]
              /\ j \in DOMAIN inbox[s] /\ inbox[s][j] = inbox'[s][j]
          BY <3>1, <4>3, <4>5, <5>0
        <5>2. /\ k \in DOMAIN inbox[r] /\ inbox[r][k] = inbox'[r][k]
              /\ l \in DOMAIN inbox[r] /\ inbox[r][l] = inbox'[r][l]
          BY <3>1, <4>3, <4>5, <5>0
        <5>3. QED
          BY <3>1, <5>1, <5>2 DEF OrderInv, SameOrder
      <4>6. QED
        BY <4>4, <4>5
    <3>2. QED
      BY <3>1 DEF SameOrder
  <2>8. QED
    BY <2>4, <2>5, <2>6, <2>7 DEF OrderInv
<1>8. QED
  BY <1>6, <1>7

LEMMA OrderNext == ServerInv /\ OrderInv /\ [Next]_vars => OrderInv'
<1> SUFFICES ASSUME ServerInv, OrderInv, [Next]_vars
             PROVE  OrderInv'
  OBVIOUS
<1>1. ASSUME NEW t \in Thread, NEW l, l \notin {"lock", "write"}, Goto(t, l),
             UNCHANGED <<todo, msg, sent, inbox>>
      PROVE  OrderInv'
  <2>1. \A u \in Thread : pc'[u] = IF u = t THEN l ELSE pc[u]
    BY <1>1 DEF Goto, ServerInv, TypeOK
  <2>2. QED
    BY <1>1, <2>1, QuietOrder
<1>2. ASSUME NEW t \in Thread, SendAll(t) PROVE OrderInv'
  <2>1. CASE LockClients(t)
    BY <2>1, LockOrder
  <2>2. CASE Write(t)
    BY <2>2, WriteOrder
  <2>3. CASE Unlock(t)
    BY <1>1, <2>3 DEF Unlock
  <2>4. QED
    BY <1>2, <2>1, <2>2, <2>3 DEF SendAll
<1>3. ASSUME NEW t \in Sender, SendFrom(t) PROVE OrderInv'
  BY <1>3, IoIsThread, BroadcastOrder DEF SendFrom
<1>4. CASE Connected
  BY <1>1, <1>4, IoIsThread, BroadcastOrder DEF Connected
<1>5. CASE Disconnected
  BY <1>1, <1>5, IoIsThread, BroadcastOrder DEF Disconnected
<1>6. CASE OnReceive
  BY <1>6, IoIsThread, BroadcastOrder DEF OnReceive
<1>7. CASE Accept
  BY <1>1, <1>7, IoIsThread DEF Accept
<1>8. CASE Insert
  BY <1>1, <1>8, IoIsThread DEF Insert
<1>9. CASE Drop
  BY <1>1, <1>9, IoIsThread DEF Drop
<1>10. CASE Erase
  BY <1>1, <1>10, IoIsThread DEF Erase
<1>11. CASE Free
  BY <1>1, <1>11, IoIsThread DEF Free
<1>12. CASE UNCHANGED vars
  BY <1>12, QuietOrder DEF vars
<1>13. QED
  BY <1>2, <1>3, <1>4, <1>5, <1>6, <1>7, <1>8, <1>9, <1>10, <1>11, <1>12
  DEF Next, IoThread

-----------------------------------------------------------------------------
(* An HTTP connection.                                                     *)

(* Every request that was read is in one place, and there once: in the     *)
(* queue, being written, or answered (after an upgrade it is nowhere).     *)
Separate(q, w, a, n) ==
  /\ q \in Seq(1 .. n) /\ w \subseteq 1 .. n /\ a \in Seq(1 .. n)
  /\ \A i \in 1 .. Len(q) : q[i] \notin w
  /\ \A i \in 1 .. Len(a) : a[i] \notin w
  /\ \A i \in 1 .. Len(a), j \in 1 .. Len(q) : a[i] # q[j]
  /\ \A i, j \in 1 .. Len(q) : q[i] = q[j] => i = j
  /\ \A i, j \in 1 .. Len(a) : a[i] = a[j] => i = j

(* No read is under way while the queue is full, so that the write that    *)
(* makes room starts the only one.                                         *)
HttpInv ==
  /\ requests \in Seq(Http!Kinds) /\ Len(requests) <= Requests /\ eof \in BOOLEAN
  /\ read \in 0 .. Len(requests) /\ state \in {"http", "closed", "websocket"}
  /\ reads \in 0 .. 1 /\ Len(queue) <= Limit /\ (Len(queue) = Limit => reads = 0)
  /\ Separate(queue, writing, answered, read)

(* A request that is read has a new number.                                *)
LEMMA SeparateRead ==
  ASSUME NEW n \in Nat, NEW q, NEW w, NEW a, Separate(q, w, a, n)
  PROVE  /\ Separate(q, w, a, n + 1)
         /\ Separate(q, w \cup {n + 1}, a, n + 1)
         /\ Separate(Append(q, n + 1), w, a, n + 1)
<1>1. 1 .. n \subseteq 1 .. n + 1 /\ n + 1 \notin 1 .. n /\ n + 1 \in 1 .. n + 1
  OBVIOUS
<1>2. q \in Seq(1 .. n) /\ a \in Seq(1 .. n) /\ w \subseteq 1 .. n
  BY DEF Separate
<1>3. q \in Seq(1 .. n + 1) /\ a \in Seq(1 .. n + 1) /\ w \subseteq 1 .. n + 1
  BY <1>1, <1>2, SeqMonotonic
<1>4. /\ Len(q) \in Nat /\ \A i \in 1 .. Len(q) : q[i] \in 1 .. n
      /\ Len(a) \in Nat /\ \A i \in 1 .. Len(a) : a[i] \in 1 .. n
  BY <1>2, ElementOfSeq
<1>5. Separate(q, w, a, n + 1)
  BY <1>3 DEF Separate
<1>6. Separate(q, w \cup {n + 1}, a, n + 1)
  BY <1>1, <1>3, <1>4 DEF Separate
<1>7. Separate(Append(q, n + 1), w, a, n + 1)
  <2> DEFINE p == Append(q, n + 1)
  <2>1. /\ p \in Seq(1 .. n + 1) /\ Len(p) = Len(q) + 1 /\ p[Len(q) + 1] = n + 1
        /\ \A i \in 1 .. Len(q) : p[i] = q[i]
    BY <1>1, <1>3, AppendProperties
  <2> HIDE DEF p
  <2>2. \A i \in 1 .. Len(p) : i # Len(q) + 1 => i \in 1 .. Len(q)
    BY <1>4, <2>1
  <2>3. \A i \in 1 .. Len(p) : p[i] \notin w
    BY <1>1, <1>2, <2>1, <2>2 DEF Separate
  <2>4. ASSUME NEW i \in 1 .. Len(a), NEW j \in 1 .. Len(p)
        PROVE  a[i] # p[j]
    <3>1. CASE j = Len(q) + 1
      BY <1>1, <1>4, <2>1, <3>1
    <3>2. CASE j # Len(q) + 1
      BY <2>1, <2>2, <2>4, <3>2 DEF Separate
    <3>3. QED
      BY <3>1, <3>2
  <2>5. ASSUME NEW i \in 1 .. Len(p), NEW j \in 1 .. Len(p), p[i] = p[j]
        PROVE  i = j
    <3>1. \A k \in 1 .. Len(q) : p[k] # n + 1
      BY <1>1, <1>4, <2>1
    <3>2. CASE i = Len(q) + 1 \/ j = Len(q) + 1
      BY <2>1, <2>2, <2>5, <3>1, <3>2
    <3>3. CASE i # Len(q) + 1 /\ j # Len(q) + 1
      <4>1. i \in 1 .. Len(q) /\ j \in 1 .. Len(q) /\ q[i] = q[j]
        BY <2>1, <2>2, <2>5, <3>3
      <4>2. QED
        BY <4>1 DEF Separate
    <3>4. QED
      BY <3>2, <3>3
  <2>6. Separate(p, w, a, n + 1)
    BY <1>3, <2>1, <2>3, <2>4, <2>5 DEF Separate
  <2>7. QED
    BY <2>6 DEF p
<1>8. QED
  BY <1>5, <1>6, <1>7

LEMMA SeparateAnswer ==
  ASSUME NEW n \in Nat, NEW q, NEW w, NEW a, Separate(q, w, a, n), NEW r \in w
  PROVE  Separate(q, w \ {r}, Append(a, r), n)
<1> DEFINE b == Append(a, r)
<1>1. q \in Seq(1 .. n) /\ a \in Seq(1 .. n) /\ w \subseteq 1 .. n /\ r \in 1 .. n
  BY DEF Separate
<1>2. Len(a) \in Nat
  BY <1>1
<1>3. /\ b \in Seq(1 .. n) /\ Len(b) = Len(a) + 1 /\ b[Len(a) + 1] = r
      /\ \A i \in 1 .. Len(a) : b[i] = a[i]
  BY <1>1, AppendProperties
<1> HIDE DEF b
<1>4. \A i \in 1 .. Len(b) : i # Len(a) + 1 => i \in 1 .. Len(a)
  BY <1>2, <1>3
<1>5. \A i \in 1 .. Len(b) : b[i] \notin w \ {r}
  BY <1>3, <1>4 DEF Separate
<1>6. \A i \in 1 .. Len(b), j \in 1 .. Len(q) : b[i] # q[j]
  BY <1>3, <1>4 DEF Separate
<1>7. ASSUME NEW i \in 1 .. Len(b), NEW j \in 1 .. Len(b), b[i] = b[j]
      PROVE  i = j
  <2>1. \A k \in 1 .. Len(a) : b[k] # r
    BY <1>3 DEF Separate
  <2>2. CASE i = Len(a) + 1 \/ j = Len(a) + 1
    BY <1>3, <1>4, <1>7, <2>1, <2>2
  <2>3. CASE i # Len(a) + 1 /\ j # Len(a) + 1
    <3>1. i \in 1 .. Len(a) /\ j \in 1 .. Len(a) /\ a[i] = a[j]
      BY <1>3, <1>4, <1>7, <2>3
    <3>2. QED
      BY <3>1 DEF Separate
  <2>4. QED
    BY <2>2, <2>3
<1>8. Separate(q, w \ {r}, b, n)
  BY <1>1, <1>3, <1>5, <1>6, <1>7 DEF Separate
<1>9. QED
  BY <1>8 DEF b

LEMMA SeparateStart ==
  ASSUME NEW n \in Nat, NEW q, NEW w, NEW a, Separate(q, w, a, n), q # <<>>
  PROVE  Separate(Tail(q), w \cup {Head(q)}, a, n)
<1> DEFINE p == Tail(q)
<1>1. q \in Seq(1 .. n) /\ a \in Seq(1 .. n) /\ w \subseteq 1 .. n
  BY DEF Separate
<1>2. /\ p \in Seq(1 .. n) /\ Len(p) = Len(q) - 1 /\ Len(q) \in Nat \ {0}
      /\ \A i \in 1 .. Len(p) : p[i] = q[i + 1]
      /\ Head(q) = q[1] /\ Head(q) \in 1 .. n
  BY <1>1, HeadTailProperties, LenProperties
<1> HIDE DEF p
<1>3. 1 \in 1 .. Len(q) /\ \A i \in 1 .. Len(p) : i + 1 \in 1 .. Len(q) /\ i + 1 # 1
  BY <1>2
<1>4. \A i \in 1 .. Len(p) : p[i] \notin w \cup {Head(q)}
  BY <1>2, <1>3 DEF Separate
<1>5. \A i \in 1 .. Len(a) : a[i] \notin w \cup {Head(q)}
  BY <1>2, <1>3 DEF Separate
<1>6. \A i \in 1 .. Len(a), j \in 1 .. Len(p) : a[i] # p[j]
  BY <1>2, <1>3 DEF Separate
<1>7. ASSUME NEW i \in 1 .. Len(p), NEW j \in 1 .. Len(p), p[i] = p[j]
      PROVE  i = j
  <2>1. i + 1 \in 1 .. Len(q) /\ j + 1 \in 1 .. Len(q) /\ q[i + 1] = q[j + 1]
    BY <1>2, <1>3, <1>7
  <2>2. i + 1 = j + 1
    BY <2>1 DEF Separate
  <2>3. QED
    BY <1>2, <2>2
<1>8. Separate(p, w \cup {Head(q)}, a, n)
  BY <1>1, <1>2, <1>4, <1>5, <1>6, <1>7 DEF Separate
<1>9. QED
  BY <1>8 DEF p

LEMMA HttpConstants == Limit \in Nat \ {0} /\ Requests \in Nat
BY WebAssumption DEF Http!HttpAssumption

LEMMA HttpInit == Http!Init => HttpInv
<1> SUFFICES ASSUME Http!Init PROVE HttpInv
  OBVIOUS
<1>1. /\ requests = <<>> /\ eof = FALSE /\ read = 0 /\ reads = 1
      /\ queue = <<>> /\ writing = {} /\ answered = <<>> /\ state = "http"
  BY DEF Http!Init
<1>2. Len(queue) = 0 /\ Len(answered) = 0 /\ Len(requests) = 0
  BY <1>1
<1>3. Separate(queue, writing, answered, read)
  BY <1>1, <1>2 DEF Separate
<1>4. requests \in Seq(Http!Kinds)
  BY <1>1
<1>5. eof \in BOOLEAN
  BY <1>1
<1>6. Len(requests) <= Requests /\ Len(queue) <= Limit /\ Len(queue) # Limit
  BY <1>2, HttpConstants
<1>7. read \in 0 .. Len(requests) /\ reads \in 0 .. 1
  BY <1>1, <1>2
<1>8. state \in {"http", "closed", "websocket"}
  BY <1>1
<1>9. QED
  BY <1>3, <1>4, <1>5, <1>6, <1>7, <1>8 DEF HttpInv

LEMMA OnReadStep == ASSUME HttpInv, Http!OnRead PROVE HttpInv'
<1>1. /\ state = "http" /\ reads = 1 /\ read < Len(requests) /\ read' = read + 1
      /\ UNCHANGED <<requests, eof, answered>> /\ read \in Nat
      /\ requests \in Seq(Http!Kinds) /\ Len(requests) \in Nat
      /\ Separate(queue, writing, answered, read)
      /\ queue \in Seq(1 .. read) /\ Len(queue) \in Nat /\ Len(queue) < Limit
  BY HttpConstants DEF Http!OnRead, HttpInv, Separate
<1>2. read' \in 0 .. Len(requests')
  BY <1>1
<1>3. CASE requests[read + 1] = "upgrade"
  <2>1. state' = "websocket" /\ reads' = 0 /\ UNCHANGED <<queue, writing>>
    BY <1>1, <1>3 DEF Http!OnRead
  <2>2. Separate(queue, writing, answered, read + 1)
    BY <1>1, SeparateRead
  <2>3. QED
    BY <1>1, <1>2, <2>1, <2>2 DEF HttpInv
<1>4. CASE requests[read + 1] # "upgrade"
  <2>1. /\ queue' = Http!QueueWrite(read + 1).queue
        /\ writing' = Http!QueueWrite(read + 1).writing
        /\ reads' = reads - 1 + Http!RoomToRead(queue') /\ state' = state
    BY <1>4 DEF Http!OnRead
  <2>2. Separate(queue', writing', answered', read') /\ Len(queue') <= Limit
    <3>1. CASE queue = <<>>
      <4>1. /\ Http!QueueWrite(read + 1) = Http!DoWrite(<<read + 1>>, writing)
            /\ <<read + 1>> # <<>> /\ Tail(<<read + 1>>) = <<>>
            /\ Head(<<read + 1>>) = read + 1
        BY <3>1 DEF Http!QueueWrite
      <4>2. queue' = queue /\ writing' = writing \cup {read + 1}
        BY <2>1, <3>1, <4>1 DEF Http!DoWrite
      <4>3. Separate(queue, writing \cup {read + 1}, answered, read + 1)
        BY <1>1, SeparateRead
      <4>4. QED
        BY <1>1, <4>2, <4>3, HttpConstants
    <3>2. CASE queue # <<>>
      <4>1. queue' = Append(queue, read + 1) /\ writing' = writing
        BY <2>1, <3>2 DEF Http!QueueWrite
      <4>2. Len(queue') = Len(queue) + 1
        BY <1>1, <4>1
      <4>3. Separate(Append(queue, read + 1), writing, answered, read + 1)
        BY <1>1, SeparateRead
      <4>4. QED
        BY <1>1, <4>1, <4>2, <4>3, HttpConstants
    <3>3. QED
      BY <3>1, <3>2
  <2>3. Len(queue') \in Nat
    BY <2>2 DEF Separate
  <2>4. reads' \in 0 .. 1 /\ (Len(queue') = Limit => reads' = 0)
    BY <1>1, <2>1, <2>2, <2>3, HttpConstants DEF Http!RoomToRead
  <2>5. QED
    BY <1>1, <1>2, <2>1, <2>2, <2>4 DEF HttpInv
<1>5. QED
  BY <1>3, <1>4

(* The write that makes room in a full queue reads on.                     *)
LEMMA OnWriteStep == ASSUME HttpInv, Http!OnWrite PROVE HttpInv'
<1>1. PICK r \in writing :
        /\ answered' = Append(answered, r)
        /\ IF requests[r] = "close"
           THEN /\ state' = (IF state = "http" THEN "closed" ELSE state)
                /\ writing' = writing \ {r}
                /\ UNCHANGED <<reads, queue>>
           ELSE /\ queue' = Http!DoWrite(queue, writing \ {r}).queue
                /\ writing' = Http!DoWrite(queue, writing \ {r}).writing
                /\ reads' = reads + (IF Http!WasFull(queue) THEN 1 ELSE 0)
                /\ UNCHANGED state
        /\ UNCHANGED <<requests, eof, read>>
  BY DEF Http!OnWrite
<1>2. read \in Nat /\ Separate(queue, writing, answered, read) /\ queue \in Seq(1 .. read)
  BY HttpConstants DEF HttpInv, Separate
<1>3. Separate(queue, writing \ {r}, answered', read)
  BY <1>1, <1>2, SeparateAnswer
<1>4. CASE requests[r] = "close"
  BY <1>1, <1>3, <1>4 DEF HttpInv
<1>5. CASE requests[r] # "close" /\ queue = <<>>
  <2>1. queue' = queue /\ writing' = writing \ {r} /\ Len(queue) = 0
    BY <1>1, <1>5 DEF Http!DoWrite
  <2>2. reads' = reads
    BY <1>1, <1>5, <2>1, HttpConstants DEF Http!WasFull, HttpInv
  <2>3. QED
    BY <1>1, <1>3, <1>5, <2>1, <2>2 DEF HttpInv
<1>6. CASE requests[r] # "close" /\ queue # <<>>
  <2>1. queue' = Tail(queue) /\ writing' = (writing \ {r}) \cup {Head(queue)}
    BY <1>1, <1>6 DEF Http!DoWrite
  <2>2. Separate(queue', writing', answered', read)
    BY <1>2, <1>3, <1>6, <2>1, SeparateStart
  <2>3. Len(queue) \in Nat \ {0} /\ Len(queue') = Len(queue) - 1
    BY <1>2, <1>6, <2>1, HeadTailProperties, LenProperties
  <2>4. reads' \in 0 .. 1 /\ Len(queue') <= Limit /\ Len(queue') # Limit
    BY <1>1, <1>6, <2>3, HttpConstants DEF Http!WasFull, HttpInv
  <2>5. QED
    BY <1>1, <1>6, <2>2, <2>4 DEF HttpInv
<1>7. QED
  BY <1>4, <1>5, <1>6

LEMMA HttpNext == HttpInv /\ [Http!Next]_(Http!vars) => HttpInv'
<1> SUFFICES ASSUME HttpInv, [Http!Next]_(Http!vars)
             PROVE  HttpInv'
  OBVIOUS
<1>1. CASE Http!SendRequest
  <2>1. PICK k \in Http!Kinds : requests' = Append(requests, k)
    BY <1>1 DEF Http!SendRequest
  <2>2. requests \in Seq(Http!Kinds) /\ Len(requests) \in Nat /\ Len(requests) < Requests
    BY <1>1 DEF HttpInv, Http!SendRequest
  <2>3. requests' \in Seq(Http!Kinds) /\ Len(requests') = Len(requests) + 1
    BY <2>1, <2>2
  <2>4. QED
    BY <1>1, <2>2, <2>3, HttpConstants DEF HttpInv, Http!SendRequest
<1>2. CASE Http!CloseByClient
  BY <1>2 DEF HttpInv, Http!CloseByClient
<1>3. CASE Http!OnRead
  BY <1>3, OnReadStep
<1>4. CASE Http!OnEof
  BY <1>4 DEF HttpInv, Http!OnEof
<1>5. CASE Http!OnWrite
  BY <1>5, OnWriteStep
<1>6. CASE UNCHANGED Http!vars
  BY <1>6 DEF HttpInv, Http!vars
<1>7. QED
  BY <1>1, <1>2, <1>3, <1>4, <1>5, <1>6 DEF Http!Next, Http!Server

LEMMA HttpIsSafe == HttpInv => Http!TypeOK /\ Http!OneReader /\ Http!NoneTwice
<1> SUFFICES ASSUME HttpInv PROVE Http!TypeOK /\ Http!OneReader /\ Http!NoneTwice
  OBVIOUS
<1>1. /\ queue \in Seq(1 .. read) /\ writing \subseteq 1 .. read
      /\ answered \in Seq(1 .. read)
      /\ read \in 0 .. Len(requests) /\ Len(requests) \in Nat /\ Len(requests) <= Requests
  BY DEF HttpInv, Separate
<1>2. 1 .. read \subseteq 1 .. Requests
  BY <1>1, HttpConstants
<1>3. queue \in Seq(1 .. Requests) /\ writing \subseteq 1 .. Requests
  BY <1>1, <1>2, SeqMonotonic
<1>4. Http!TypeOK
  BY <1>3 DEF HttpInv, Http!TypeOK
<1>5. DOMAIN answered = 1 .. Len(answered)
  BY <1>1
<1>6. QED
  BY <1>4, <1>5 DEF HttpInv, Separate, Http!OneReader, Http!NoneTwice

-----------------------------------------------------------------------------
(* The cache of names.                                                     *)

Busy(t) == resolver[t] # "idle"

AnswerTypes ==
  \A t \in Tasks :
    /\ resolver[t] = "ip" => answer[t] \in Addresses \cup {Unknown}
    /\ resolver[t] = "found" => answer[t] \in BOOLEAN

(* As long as no two attempts overlapped, there is one at a time, and what *)
(* it is about to store in found is about the address in the item.         *)
OneAtATime ==
  ~overlapped =>
    /\ \A t, u \in Tasks : Busy(t) /\ Busy(u) => t = u
    /\ \A t \in Tasks : resolver[t] = "found" => (answer[t] <=> ip # Unknown)

(* The age of the item is not above the time since the last attempt; it is *)
(* the time since the last answer unless an answer is being waited for.    *)
Ages ==
  /\ ~exists => sinceStart = Cache!Cap
  /\ exists =>
       /\ updated <= sinceStart /\ Tasks # {}
       /\ \/ updated = sinceAnswer
          \/ \E t \in Tasks : resolver[t] \in {"asking", "ip", "updated"}

CacheInv ==
  Cache!TypeOK /\ AnswerTypes /\ OneAtATime /\ Cache!HitIsAnAddress /\ Ages

LEMMA CacheConstants ==
  /\ Retry \in Nat \ {0} /\ Refresh \in Nat /\ Retry <= Refresh
  /\ Unknown \notin Addresses /\ Cache!Cap \in Nat /\ Retry < Cache!Cap
  /\ Refresh < Cache!Cap
BY WebAssumption DEF Cache!CacheAssumption, Cache!Cap

LEMMA CacheInit == Cache!Init => CacheInv
<1> SUFFICES ASSUME Cache!Init PROVE CacheInv
  OBVIOUS
<1>1. /\ exists = FALSE /\ found = FALSE /\ overlapped = FALSE /\ updated = 0
      /\ ip = Unknown /\ dns \in Addresses \cup {Unknown}
      /\ sinceStart = Cache!Cap /\ sinceAnswer = Cache!Cap
      /\ resolver = [t \in Tasks |-> "idle"] /\ answer = [t \in Tasks |-> Unknown]
  BY DEF Cache!Init
<1>2. \A t \in Tasks : resolver[t] = "idle"
  BY <1>1
<1>3. {updated, sinceStart, sinceAnswer} \subseteq Cache!Age
  BY <1>1, CacheConstants DEF Cache!Age
<1>4. Cache!Running = {}
  BY <1>2 DEF Cache!Running
<1>5. /\ resolver \in [Tasks -> {"idle", "asking", "ip", "updated", "found"}]
      /\ answer \in [Tasks -> Addresses \cup {Unknown} \cup BOOLEAN]
  BY <1>1
<1>6. Cache!TypeOK
  BY <1>1, <1>3, <1>4, <1>5 DEF Cache!TypeOK
<1>7. AnswerTypes /\ OneAtATime /\ Cache!HitIsAnAddress /\ Ages
  BY <1>1, <1>2 DEF AnswerTypes, OneAtATime, Busy, Cache!HitIsAnAddress, Cache!Hit, Ages
<1>8. QED
  BY <1>6, <1>7 DEF CacheInv

(* An attempt that is started is noted in the item and the only one, or    *)
(* overlaps.                                                               *)
LEMMA LookupStep == ASSUME CacheInv, Cache!Lookup PROVE CacheInv'
<1>1. /\ exists' = TRUE /\ updated' = 0 /\ sinceStart' = 0
      /\ UNCHANGED <<dns, ip, found, answer, sinceAnswer>>
  BY DEF Cache!Lookup, Cache!Miss, Cache!RetryUnknown, Cache!RefreshOld, Cache!StartTask
<1>2. PICK t \in Tasks \ Cache!Running :
        /\ resolver' = [resolver EXCEPT ![t] = "asking"]
        /\ overlapped' = (overlapped \/ Cache!Running # {})
  BY DEF Cache!Lookup, Cache!Miss, Cache!RetryUnknown, Cache!RefreshOld, Cache!StartTask
<1>3. /\ resolver \in [Tasks -> {"idle", "asking", "ip", "updated", "found"}]
      /\ resolver[t] = "idle" /\ t \in Tasks
      /\ \A u \in Tasks : resolver'[u] = IF u = t THEN "asking" ELSE resolver[u]
  BY <1>2 DEF CacheInv, Cache!TypeOK, Cache!Running
<1>4. ~overlapped' => ~overlapped /\ \A u \in Tasks : resolver[u] = "idle"
  BY <1>2 DEF Cache!Running
<1>5. /\ {updated', sinceStart', sinceAnswer'} \subseteq Cache!Age
      /\ overlapped' \in BOOLEAN
  BY <1>1, <1>2, CacheConstants DEF CacheInv, Cache!TypeOK, Cache!Age
<1>6. resolver' \in [Tasks -> {"idle", "asking", "ip", "updated", "found"}]
  BY <1>2, <1>3
<1>7. Cache!TypeOK'
  BY <1>1, <1>5, <1>6 DEF CacheInv, Cache!TypeOK
<1>8. AnswerTypes'
  BY <1>1, <1>3 DEF CacheInv, AnswerTypes
<1>9. OneAtATime'
  BY <1>1, <1>3, <1>4 DEF CacheInv, OneAtATime, Busy
<1>10. Cache!HitIsAnAddress'
  <2>1. SUFFICES ASSUME ~overlapped', found, ip = Unknown PROVE FALSE
    BY <1>1 DEF Cache!HitIsAnAddress, Cache!Hit
  <2>2. exists
    BY <2>1 DEF CacheInv, Cache!TypeOK
  <2>3. QED
    BY <1>4, <2>1, <2>2 DEF CacheInv, Cache!HitIsAnAddress, Cache!Hit
<1>11. Ages'
  BY <1>1, <1>3 DEF Ages
<1>12. QED
  BY <1>7, <1>8, <1>9, <1>10, <1>11 DEF CacheInv

(* The four steps of a resolver.                                           *)
LEMMA ResolveStep ==
  ASSUME CacheInv, NEW t \in Tasks, Cache!ResolveTask(t)
  PROVE  CacheInv'
<1> DEFINE Stages == {"idle", "asking", "ip", "updated", "found"}
<1>1. /\ resolver \in [Tasks -> Stages] /\ resolver[t] # "idle"
      /\ answer \in [Tasks -> Addresses \cup {Unknown} \cup BOOLEAN]
      /\ exists /\ UNCHANGED <<dns, exists, sinceStart, overlapped>>
  BY DEF CacheInv, Cache!TypeOK, Cache!Running, Cache!ResolveTask, Cache!Ask,
     Cache!StoreIp, Cache!StoreUpdated, Cache!StoreFound
<1>2. CASE Cache!Ask(t)
  <2>1. /\ resolver[t] = "asking" /\ resolver' = [resolver EXCEPT ![t] = "ip"]
        /\ answer' = [answer EXCEPT ![t] = dns]
        /\ UNCHANGED <<ip, found, updated, sinceAnswer>>
        /\ dns \in Addresses \cup {Unknown}
    BY <1>2 DEF Cache!Ask, CacheInv, Cache!TypeOK
  <2>2. \A u \in Tasks : resolver'[u] = IF u = t THEN "ip" ELSE resolver[u]
    BY <1>1, <2>1
  <2>3. answer'[t] = dns /\ \A u \in Tasks : u # t => answer'[u] = answer[u]
    BY <1>1, <2>1
  <2>4. resolver' \in [Tasks -> Stages] /\ answer' \in [Tasks -> Addresses \cup {Unknown} \cup BOOLEAN]
    BY <1>1, <2>1
  <2>5. Cache!TypeOK'
    BY <1>1, <2>1, <2>4 DEF CacheInv, Cache!TypeOK
  <2>6. AnswerTypes' /\ OneAtATime'
    BY <1>1, <2>1, <2>2, <2>3 DEF CacheInv, AnswerTypes, OneAtATime, Busy
  <2>7. Cache!HitIsAnAddress'
    BY <1>1, <2>1, <2>2 DEF CacheInv, Cache!HitIsAnAddress, Cache!Hit
  <2>8. Ages'
    BY <1>1, <2>1, <2>2 DEF CacheInv, Ages
  <2>9. QED
    BY <2>5, <2>6, <2>7, <2>8 DEF CacheInv
<1>3. CASE Cache!StoreIp(t)
  <2>1. /\ resolver[t] = "ip" /\ resolver' = [resolver EXCEPT ![t] = "updated"]
        /\ ip' = answer[t] /\ ip' \in Addresses \cup {Unknown}
        /\ UNCHANGED <<found, updated, answer, sinceAnswer>>
    BY <1>3 DEF Cache!StoreIp, CacheInv, AnswerTypes
  <2>2. \A u \in Tasks : resolver'[u] = IF u = t THEN "updated" ELSE resolver[u]
    BY <1>1, <2>1
  <2>3. resolver' \in [Tasks -> Stages]
    BY <1>1, <2>1
  <2>4. Cache!TypeOK'
    BY <1>1, <2>1, <2>3 DEF CacheInv, Cache!TypeOK
  <2>5. AnswerTypes'
    BY <1>1, <2>1, <2>2 DEF CacheInv, AnswerTypes
  <2>6. OneAtATime'
    BY <1>1, <2>1, <2>2 DEF CacheInv, OneAtATime, Busy
  <2>7. Cache!HitIsAnAddress'
    BY <1>1, <2>1, <2>2 DEF Cache!HitIsAnAddress, Cache!Hit
  <2>8. Ages'
    BY <1>1, <2>1, <2>2 DEF CacheInv, Ages
  <2>9. QED
    BY <2>4, <2>5, <2>6, <2>7, <2>8 DEF CacheInv
<1>4. CASE Cache!StoreUpdated(t)
  <2>1. /\ resolver[t] = "updated" /\ resolver' = [resolver EXCEPT ![t] = "found"]
        /\ updated' = 0 /\ sinceAnswer' = 0 /\ UNCHANGED <<ip, found>>
        /\ answer' = [answer EXCEPT ![t] = (ip # Unknown)]
    BY <1>4 DEF Cache!StoreUpdated
  <2>2. /\ \A u \in Tasks : resolver'[u] = IF u = t THEN "found" ELSE resolver[u]
        /\ \A u \in Tasks : u # t => answer'[u] = answer[u]
        /\ answer'[t] = (ip # Unknown)
    BY <1>1, <2>1
  <2>3. resolver' \in [Tasks -> Stages] /\ answer' \in [Tasks -> Addresses \cup {Unknown} \cup BOOLEAN]
    BY <1>1, <2>1
  <2>4. updated' \in Cache!Age /\ sinceAnswer' \in Cache!Age /\ updated' <= sinceStart'
    BY <1>1, <2>1, CacheConstants DEF CacheInv, Cache!TypeOK, Cache!Age
  <2>5. Cache!TypeOK'
    BY <1>1, <2>1, <2>3, <2>4 DEF CacheInv, Cache!TypeOK
  <2>6. AnswerTypes' /\ OneAtATime'
    BY <1>1, <2>1, <2>2 DEF CacheInv, AnswerTypes, OneAtATime, Busy
  <2>7. Cache!HitIsAnAddress'
    BY <1>1, <2>1, <2>2 DEF CacheInv, Cache!HitIsAnAddress, Cache!Hit
  <2>8. Ages'
    BY <1>1, <2>1, <2>4 DEF CacheInv, Ages
  <2>9. QED
    BY <2>5, <2>6, <2>7, <2>8 DEF CacheInv
<1>5. CASE Cache!StoreFound(t)
  <2>1. /\ resolver[t] = "found" /\ resolver' = [resolver EXCEPT ![t] = "idle"]
        /\ found' = answer[t] /\ found' \in BOOLEAN
        /\ answer' = [answer EXCEPT ![t] = Unknown]
        /\ UNCHANGED <<ip, updated, sinceAnswer>>
    BY <1>5 DEF Cache!StoreFound, CacheInv, AnswerTypes
  <2>2. /\ \A u \in Tasks : resolver'[u] = IF u = t THEN "idle" ELSE resolver[u]
        /\ \A u \in Tasks : u # t => answer'[u] = answer[u]
    BY <1>1, <2>1
  <2>3. resolver' \in [Tasks -> Stages] /\ answer' \in [Tasks -> Addresses \cup {Unknown} \cup BOOLEAN]
    BY <1>1, <2>1
  <2>4. Cache!TypeOK'
    BY <1>1, <2>1, <2>3 DEF CacheInv, Cache!TypeOK
  <2>5. AnswerTypes' /\ OneAtATime'
    BY <1>1, <2>1, <2>2 DEF CacheInv, AnswerTypes, OneAtATime, Busy
  <2>6. Cache!HitIsAnAddress'
    BY <1>1, <2>1, <2>2 DEF CacheInv, OneAtATime, Cache!HitIsAnAddress, Cache!Hit
  <2>7. Ages'
    BY <1>1, <2>1, <2>2 DEF CacheInv, Ages
  <2>8. QED
    BY <2>4, <2>5, <2>6, <2>7 DEF CacheInv
<1>6. QED
  BY <1>2, <1>3, <1>4, <1>5 DEF Cache!ResolveTask

LEMMA TickStep == ASSUME CacheInv, Cache!Tick PROVE CacheInv'
<1>1. /\ updated' = Cache!Older(updated)
      /\ sinceStart' = Cache!Older(sinceStart) /\ sinceAnswer' = Cache!Older(sinceAnswer)
      /\ UNCHANGED <<dns, exists, ip, found, resolver, answer, overlapped>>
  BY DEF Cache!Tick, Cache!task
<1>2. /\ updated \in 0 .. Cache!Cap /\ sinceStart \in 0 .. Cache!Cap
      /\ sinceAnswer \in 0 .. Cache!Cap
  BY DEF CacheInv, Cache!TypeOK, Cache!Age
<1>3. /\ updated' \in 0 .. Cache!Cap /\ sinceStart' \in 0 .. Cache!Cap
      /\ sinceAnswer' \in 0 .. Cache!Cap
      /\ updated <= sinceStart => updated' <= sinceStart'
      /\ updated = sinceAnswer => updated' = sinceAnswer'
      /\ sinceStart = Cache!Cap => sinceStart' = Cache!Cap
  BY <1>1, <1>2, CacheConstants DEF Cache!Older
<1>4. Cache!TypeOK'
  BY <1>1, <1>3 DEF CacheInv, Cache!TypeOK, Cache!Age, Cache!Running
<1>5. AnswerTypes' /\ OneAtATime' /\ Cache!HitIsAnAddress'
  BY <1>1 DEF CacheInv, AnswerTypes, OneAtATime, Busy, Cache!HitIsAnAddress, Cache!Hit
<1>6. Ages'
  BY <1>1, <1>3 DEF CacheInv, Ages
<1>7. QED
  BY <1>4, <1>5, <1>6 DEF CacheInv

LEMMA CacheNext == CacheInv /\ [Cache!Next]_(Cache!vars) => CacheInv'
<1> SUFFICES ASSUME CacheInv, [Cache!Next]_(Cache!vars)
             PROVE  CacheInv'
  OBVIOUS
<1>1. ASSUME dns' \in Addresses \cup {Unknown},
             UNCHANGED <<exists, ip, found, updated, resolver, answer, sinceStart,
                         sinceAnswer, overlapped>>
      PROVE  CacheInv'
  <2>1. Cache!TypeOK'
    BY <1>1 DEF CacheInv, Cache!TypeOK, Cache!Running
  <2>2. AnswerTypes' /\ OneAtATime' /\ Cache!HitIsAnAddress' /\ Ages'
    BY <1>1 DEF CacheInv, AnswerTypes, OneAtATime, Busy, Cache!HitIsAnAddress, Cache!Hit, Ages
  <2>3. QED
    BY <2>1, <2>2 DEF CacheInv
<1>2. CASE Cache!Lookup
  BY <1>2, LookupStep
<1>3. CASE Cache!Tick
  BY <1>3, TickStep
<1>4. CASE Cache!NameMoves
  BY <1>1, <1>4 DEF Cache!NameMoves, Cache!item, Cache!task, Cache!history
<1>5. ASSUME NEW t \in Tasks, Cache!ResolveTask(t) PROVE CacheInv'
  BY <1>5, ResolveStep
<1>6. CASE UNCHANGED Cache!vars
  BY <1>1, <1>6 DEF Cache!vars, Cache!item, Cache!task, Cache!history, CacheInv, Cache!TypeOK
<1>7. QED
  BY <1>2, <1>3, <1>4, <1>5, <1>6 DEF Cache!Next

(* An attempt starts only when the last one is the retry time ago.         *)
LEMMA AttemptsApart ==
  ASSUME CacheInv, Cache!Next,
         NEW t \in Tasks, resolver'[t] = "asking", resolver[t] = "idle"
  PROVE  sinceStart >= Retry
<1>1. /\ sinceStart \in Nat /\ updated \in Nat
      /\ resolver \in [Tasks -> {"idle", "asking", "ip", "updated", "found"}]
  BY CacheConstants DEF CacheInv, Cache!TypeOK, Cache!Age
<1>2. CASE Cache!Lookup
  <2>1. CASE ~exists
    BY <2>1, CacheConstants DEF CacheInv, Ages
  <2>2. CASE exists
    <3>1. updated >= Retry \/ updated > Refresh
      BY <1>2, <2>2, Zenon DEF Cache!Lookup, Cache!Miss, Cache!RetryUnknown, Cache!RefreshOld
    <3>2. updated <= sinceStart
      BY <2>2, Zenon DEF CacheInv, Ages
    <3>3. QED
      BY <1>1, <3>1, <3>2, CacheConstants
  <2>3. QED
    BY <2>1, <2>2
<1>3. CASE Cache!Tick \/ Cache!NameMoves
  BY <1>3 DEF Cache!Tick, Cache!NameMoves, Cache!task
<1>4. ASSUME NEW u \in Tasks, Cache!ResolveTask(u) PROVE FALSE
  BY <1>1, <1>4 DEF Cache!ResolveTask, Cache!Ask, Cache!StoreIp, Cache!StoreUpdated,
     Cache!StoreFound
<1>5. QED
  BY <1>2, <1>3, <1>4 DEF Cache!Next

(* The lookups in every frame do not let an old address get older unless   *)
(* somebody is asking.                                                     *)
LEMMA OldIsAsked ==
  ASSUME CacheInv, Cache!Tick, Cache!Hit, sinceAnswer > Refresh, Cache!Running = {}
  PROVE  FALSE
<1>1. exists /\ found
  BY DEF Cache!Hit
<1>2. \A t \in Tasks : resolver[t] = "idle"
  BY DEF Cache!Running
<1>3. updated = sinceAnswer /\ Tasks # {}
  BY <1>1, <1>2 DEF CacheInv, Ages
<1>4. Cache!LookupIsDue
  BY <1>1, <1>3 DEF Cache!LookupIsDue
<1>5. QED
  BY <1>4 DEF Cache!Tick

-----------------------------------------------------------------------------
(* The program: a step of it is a step of one of the three.                *)

WebSafe ==
  /\ part \in {"websocket", "http", "cache"}
  /\ ServerInv /\ OrderInv /\ HttpInv /\ CacheInv

LEMMA WebSteps ==
  [WebNext]_webVars =>
    [Next]_vars /\ [Http!Next]_(Http!vars) /\ [Cache!Next]_(Cache!vars) /\ UNCHANGED part
<1> USE DEF Http!vars, Cache!vars, Cache!item, Cache!task, Cache!history, httpVars, cacheVars
<1> SUFFICES ASSUME [WebNext]_webVars
             PROVE  /\ [Next]_vars /\ [Http!Next]_(Http!vars) /\ [Cache!Next]_(Cache!vars)
                    /\ UNCHANGED part
  OBVIOUS
<1>1. CASE InWebsocket /\ Next
  BY <1>1 DEF InWebsocket
<1>2. CASE InHttp /\ Http!Next
  BY <1>2 DEF InHttp
<1>3. CASE InCache /\ Cache!Next
  BY <1>3 DEF InCache
<1>4. CASE UNCHANGED webVars
  BY <1>4 DEF webVars
<1>5. QED
  BY <1>1, <1>2, <1>3, <1>4 DEF WebNext

LEMMA WebStaysSafe == WebSpec => []WebSafe
<1>1. WebInit => WebSafe
  BY ServerInit, OrderInit, HttpInit, CacheInit DEF WebInit, WebSafe
<1>2. WebSafe /\ [WebNext]_webVars => WebSafe'
  BY WebSteps, ServerNext, OrderNext, HttpNext, CacheNext DEF WebSafe
<1>3. QED
  BY <1>1, <1>2, PTL DEF WebSpec

(* However many browsers come and go while however many threads broadcast, *)
(* no broadcast writes to a session whose memory was given back: sendAll   *)
(* writes under the mutex under which a session leaves the clients.        *)
THEOREM NobodyWritesToFreed == WebSpec => []NoWriteToFreed
<1>1. WebSafe => NoWriteToFreed
  BY ServerIsSafe DEF WebSafe
<1>2. QED
  BY <1>1, WebStaysSafe, PTL

(* Two browsers see broadcasts in the same order, since each goes to all   *)
(* clients under one mutex; a connection has one read under way and        *)
(* answers no request twice, for every limit of its queue and however      *)
(* many writes it has going; and lookup hands out an address that is not   *)
(* valid only while a failed refresh is storing, unless attempts overlap.  *)
THEOREM WebIsSafe == WebSpec => []WebInv
<1>1. WebSafe => WebInv
  BY HttpIsSafe DEF WebSafe, WebInv, ServerInv, OrderInv, CacheInv
<1>2. QED
  BY <1>1, WebStaysSafe, PTL

(* lookup starts no resolver before the retry time is over, whatever the   *)
(* times are, as long as a refresh takes no less; and while lookups go on, *)
(* no address is handed out beyond the refresh time with nobody asking.    *)
THEOREM ResolverIsAsked == WebSpec => NotAskedTooOften
<1>1. WebSafe /\ [WebNext]_webVars =>
        [\A t \in Tasks : resolver'[t] = "asking" /\ resolver[t] = "idle" =>
           sinceStart >= Retry]_(Cache!vars)
  BY WebSteps, AttemptsApart DEF WebSafe
<1>2. WebSafe /\ [WebNext]_webVars =>
        [Cache!Tick => ~(Cache!Hit /\ sinceAnswer > Refresh /\ Cache!Running = {})]_(Cache!vars)
  BY WebSteps, OldIsAsked DEF WebSafe
<1>3. QED
  BY <1>1, <1>2, WebStaysSafe, PTL
  DEF WebSpec, NotAskedTooOften, Cache!NotAskedTooOften, Cache!StaleIsAsked

=============================================================================
