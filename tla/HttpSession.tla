----------------------------- MODULE HttpSession -----------------------------
(***************************************************************************)
(* One HTTP connection of the web server: requests of the client are read  *)
(* one at a time and answered through a queue of responses.  Requests are  *)
(* numbered in the order in which the client sends them.                   *)
(***************************************************************************)
EXTENDS Integers, Sequences, FiniteSets

CONSTANTS
  Limit,        (* queue_limit                                             *)
  Requests,     (* bound on the requests of a connection                   *)
  Pipelining    (* the client sends requests before it has its answers     *)

HttpAssumption ==
  Limit \in Nat \ {0} /\ Requests \in Nat /\ Pipelining \in BOOLEAN

Kinds == {"keep", "close", "upgrade"}

VARIABLES
  sent,         (* what the client sent: a sequence of kinds of requests   *)
  eof,          (* the client closed its side                              *)
  read,         (* how many of them were read                              *)
  reads,        (* async_reads under way                                   *)
  queue,        (* response_queue_: numbers of requests                    *)
  writing,      (* async_writes under way                                  *)
  answered,     (* what the client got, in the order it got it             *)
  state         (* "http", "closed" or "websocket"                         *)

vars == <<sent, eof, read, reads, queue, writing, answered, state>>

TypeOK ==
  /\ sent \in Seq(Kinds) /\ Len(sent) <= Requests /\ eof \in BOOLEAN
  /\ read \in 0 .. Len(sent) /\ reads \in 0 .. 2
  /\ queue \in Seq(1 .. Requests) /\ Len(queue) <= Limit
  /\ writing \subseteq 1 .. Requests
  /\ state \in {"http", "closed", "websocket"}

(* run(): the first do_read.                                               *)
Init ==
  /\ sent = <<>> /\ eof = FALSE /\ read = 0 /\ reads = 1
  /\ queue = <<>> /\ writing = {} /\ answered = <<>> /\ state = "http"

SendRequest ==
  /\ Len(sent) < Requests /\ ~eof
  /\ Pipelining \/ Len(answered) = Len(sent)
  /\ \E k \in Kinds : sent' = Append(sent, k)
  /\ UNCHANGED <<eof, read, reads, queue, writing, answered, state>>

CloseByClient ==
  /\ ~eof /\ eof' = TRUE
  /\ UNCHANGED <<sent, read, reads, queue, writing, answered, state>>

(* do_write: takes the first response out of the queue and starts a write. *)
DoWrite(q, w) ==
  IF q = <<>> THEN [queue |-> q, writing |-> w]
  ELSE [queue |-> Tail(q), writing |-> w \cup {Head(q)}]

(* queue_write: a queue of length one means that nothing is being written. *)
QueueWrite(r) ==
  IF queue = <<>> THEN DoWrite(<<r>>, writing)
  ELSE [queue |-> Append(queue, r), writing |-> writing]

RoomToRead(q) == IF Len(q) < Limit THEN 1 ELSE 0

OnRead ==
  /\ state = "http" /\ reads > 0 /\ read < Len(sent)
  /\ read' = read + 1
  /\ IF sent[read + 1] = "upgrade"
     THEN /\ state' = "websocket" /\ reads' = reads - 1
          /\ UNCHANGED <<queue, writing>>
     ELSE LET after == QueueWrite(read + 1) IN
            /\ queue' = after.queue /\ writing' = after.writing
            /\ reads' = reads - 1 + RoomToRead(after.queue)
            /\ UNCHANGED state
  /\ UNCHANGED <<sent, eof, answered>>

(* end_of_stream: do_eof.                                                  *)
OnEof ==
  /\ state = "http" /\ reads > 0 /\ eof /\ read = Len(sent)
  /\ state' = "closed" /\ reads' = reads - 1
  /\ UNCHANGED <<sent, eof, read, queue, writing, answered>>

(* Wrong on purpose: reads on after every write.                           *)
AnyRoom(q) == TRUE

WasFull(q) == Len(q) = Limit

OnWrite ==
  \E r \in writing :
    LET writing1 == writing \ {r} IN
    /\ answered' = Append(answered, r)
    /\ IF sent[r] = "close"
       THEN (* do_eof; what was read ahead cannot be answered any more.   *)
            /\ state' = (IF state = "http" THEN "closed" ELSE state)
            /\ writing' = writing1
            /\ UNCHANGED <<reads, queue>>
       ELSE /\ queue' = DoWrite(queue, writing1).queue
            /\ writing' = DoWrite(queue, writing1).writing
            /\ reads' = reads + (IF WasFull(queue) THEN 1 ELSE 0)
            /\ UNCHANGED state
    /\ UNCHANGED <<sent, eof, read>>

Server == OnRead \/ OnEof \/ OnWrite
Next == SendRequest \/ CloseByClient \/ Server

Spec == Init /\ [][Next]_vars

(* The io thread runs every handler that is due.                           *)
FairSpec == Spec /\ WF_vars(OnRead \/ OnEof) /\ WF_vars(OnWrite)

-----------------------------------------------------------------------------
(* Properties.                                                             *)

(* There is never more than one read under way: its parser is shared.      *)
OneReader == reads <= 1

(* A client that waits for its answers gets each of them, once, until the  *)
(* connection is closed or handed over to a websocket.                     *)
Answered ==
  \A r \in 1 .. Requests :
    (r \in DOMAIN sent) ~> (r \in {answered[i] : i \in DOMAIN answered} \/ state # "http")
NoneTwice == \A i, j \in DOMAIN answered : answered[i] = answered[j] => i = j

=============================================================================
