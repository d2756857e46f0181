--------------------------------- MODULE Web --------------------------------
(***************************************************************************)
(* What the servers and clients of the network layer do on their threads:  *)
(* the clients of a websocket path (WebsocketServer), an HTTP connection   *)
(* (HttpSession) and the cache of resolved names (HostnameCache).  They    *)
(* share no state, so that one is looked at and the others stay as they    *)
(* were created.                                                           *)
(***************************************************************************)
EXTENDS WebsocketServer

CONSTANTS
  Limit, Requests, Pipelining,
  Addresses, Retry, Refresh, Tasks, Unknown

VARIABLES
  part,         (* the one that is looked at                               *)
  requests, eof, read, reads, queue, writing, answered, state,
  dns, exists, ip, found, updated, resolver, answer, sinceStart, sinceAnswer,
  overlapped

httpVars == <<requests, eof, read, reads, queue, writing, answered, state>>
cacheVars == <<dns, exists, ip, found, updated, resolver, answer, sinceStart,
               sinceAnswer, overlapped>>
webVars == <<part, vars, httpVars, cacheVars>>

Http == INSTANCE HttpSession WITH sent <- requests
Cache == INSTANCE HostnameCache WITH pc <- resolver

ASSUME WebAssumption == Http!HttpAssumption /\ Cache!CacheAssumption

WebInit ==
  /\ part \in {"websocket", "http", "cache"}
  /\ Init /\ Http!Init /\ Cache!Init
  /\ part # "websocket" => session = CHOOSE s \in Session : TRUE
  /\ part # "cache" => dns = Unknown

InWebsocket == part = "websocket" /\ UNCHANGED <<part, httpVars, cacheVars>>
InHttp == part = "http" /\ UNCHANGED <<part, vars, cacheVars>>
InCache == part = "cache" /\ UNCHANGED <<part, vars, httpVars>>

WebNext ==
  \/ InWebsocket /\ Next
  \/ InHttp /\ Http!Next
  \/ InCache /\ Cache!Next

(* What the specifications of the parts take for granted, gathered.        *)
Reading ==
  \/ InHttp /\ (Http!OnRead \/ Http!OnEof)
  \/ InCache /\ Cache!Lookup

Writing ==
  \/ InHttp /\ Http!OnWrite
  \/ InCache /\ Cache!Tick

(* The io thread runs every handler that is due, and a mutex that is free  *)
(* again and again is got in the end (the browsers read what is written);  *)
(* the output keeps looking up, time passes and every resolver returns.    *)
WebSpec ==
  /\ WebInit /\ [][WebNext]_webVars
  /\ SF_webVars(InWebsocket /\ IoThread)
  /\ \A t \in Thread : SF_webVars(InWebsocket /\ SendAll(t))
  /\ WF_webVars(Reading)
  /\ WF_webVars(Writing)
  /\ \A t \in Tasks : WF_webVars(InCache /\ Cache!ResolveTask(t))

-----------------------------------------------------------------------------
(* Properties, beside those of WebsocketServer.                            *)

(* The types; two browsers see the broadcasts they both get in the same    *)
(* order, so that they end up showing the same; one read of an HTTP        *)
(* connection is under way at a time, and nothing is answered twice; an    *)
(* address that is not valid is handed out only while a failed refresh is  *)
(* halfway through its stores.                                             *)
WebInv ==
  /\ part = "websocket" => TypeOK /\ SameOrder
  /\ part = "http" => Http!TypeOK /\ Http!OneReader /\ Http!NoneTwice
  /\ part = "cache" => Cache!TypeOK /\ Cache!HitIsAnAddress

(* What a browser waits for comes: every broadcast ends, though sessions   *)
(* come and go meanwhile; every HTTP request that was sent is answered     *)
(* until the connection is closed or handed over to a websocket, though    *)
(* reading stops while the queue of responses is full.                     *)
PagesAreServed == BroadcastsEnd /\ Http!Answered

(* The resolver is asked when it should be: however answers and failures   *)
(* fall, two attempts for a name are at least the retry time apart, and no *)
(* time passes while an address older than the refresh time is handed out  *)
(* and no resolver is under way.                                           *)
NotAskedTooOften == Cache!NotAskedTooOften /\ Cache!StaleIsAsked

(* A name that settles on an address is found there for good, whatever     *)
(* late answers and failures came before.                                  *)
NameSettles == Cache!NameSettles

=============================================================================
