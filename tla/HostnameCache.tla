---------------------------- MODULE HostnameCache ----------------------------
(***************************************************************************)
(* The entry of one host name in HostnameCache, between the output that    *)
(* looks it up before it sends and the resolver threads it starts.         *)
(* millis() differences are ages, capped where nothing compares further.   *)
(***************************************************************************)
EXTENDS Integers

CONSTANTS
  Addresses,    (* addresses the name may have                             *)
  Retry,        (* 5 s: time between two attempts for an unknown name      *)
  Refresh,      (* 60 s: age of an entry that is asked for again           *)
  Tasks,        (* resolver threads that may exist at a time (bound)       *)
  Unknown       (* the address 0, which is not valid                       *)

CacheAssumption == 
  Retry \in Nat \ {0} /\ Refresh \in Nat /\ Retry <= Refresh /\ Unknown \notin Addresses

VARIABLES
  dns,          (* what a resolver would learn now; Unknown: it fails      *)
  exists,       (* the cache has the item                                  *)
  ip, found, updated,   (* the fields of the item; updated is its age      *)
  pc,           (* per resolver thread: idle, asking, ip, updated, found   *)
  answer,       (* per resolver thread: what it learnt, then what it found *)
  sinceStart, sinceAnswer,  (* history: time since the last attempt was    *)
                            (* started and since an answer was noted       *)
  overlapped    (* history: two attempts were under way at a time          *)

item == <<exists, ip, found, updated>>
task == <<pc, answer>>
history == <<sinceStart, sinceAnswer, overlapped>>
vars == <<dns, item, task, history>>

Cap == Refresh + 2
Age == 0 .. Cap
Running == {t \in Tasks : pc[t] # "idle"}

(* The last line is what resolveTask relies on: it finds the item.         *)
TypeOK ==
  /\ dns \in Addresses \cup {Unknown} /\ ip \in Addresses \cup {Unknown}
  /\ exists \in BOOLEAN /\ found \in BOOLEAN /\ updated \in Age
  /\ pc \in [Tasks -> {"idle", "asking", "ip", "updated", "found"}]
  /\ answer \in [Tasks -> Addresses \cup {Unknown} \cup BOOLEAN]
  /\ sinceStart \in Age /\ sinceAnswer \in Age /\ overlapped \in BOOLEAN
  /\ ~exists => Running = {} /\ ~found

Init ==
  /\ dns \in Addresses \cup {Unknown}
  /\ exists = FALSE /\ ip = Unknown /\ found = FALSE /\ updated = 0
  /\ pc = [t \in Tasks |-> "idle"] /\ answer = [t \in Tasks |-> Unknown]
  /\ sinceStart = Cap /\ sinceAnswer = Cap /\ overlapped = FALSE

StartTask ==
  \E t \in Tasks \ Running :
    /\ pc' = [pc EXCEPT ![t] = "asking"]
    /\ overlapped' = (overlapped \/ Running # {})
    /\ sinceStart' = 0
    /\ UNCHANGED <<answer, sinceAnswer>>

Miss ==
  /\ ~exists
  /\ exists' = TRUE /\ updated' = 0
  /\ StartTask
  /\ UNCHANGED <<ip, found>>

(* Wrong on purpose: the time of the attempt is not noted; an unknown name *)
(* is given up.                                                            *)
RetryForgetsTime == 
  /\ exists /\ ~found /\ updated >= Retry
  /\ StartTask
  /\ UNCHANGED item
NoRetry == FALSE /\ RetryForgetsTime

RetryUnknown ==
  /\ exists /\ ~found /\ updated >= Retry
  /\ updated' = 0
  /\ StartTask
  /\ UNCHANGED <<exists, ip, found>>

RefreshOld ==
  /\ exists /\ found /\ updated > Refresh
  /\ updated' = 0
  /\ StartTask
  /\ UNCHANGED <<exists, ip, found>>

(* lookup returns a pointer to ip when the item was found, null otherwise; *)
(* it has nothing else to do in the remaining cases.                       *)
Hit == exists /\ found
Lookup == (Miss \/ RetryUnknown \/ RefreshOld) /\ UNCHANGED dns

(* There is a resolver to start, and the bound on threads allows it.       *)
LookupIsDue ==
  /\ Running # Tasks
  /\ ~exists \/ (~found /\ updated >= Retry) \/ (found /\ updated > Refresh)

(* resolveTask: the answer is a snapshot that may arrive much later; ip,   *)
(* updated and found are stored one after the other, the last from the ip  *)
(* that is in the item by then.                                            *)
Ask(t) ==
  /\ pc[t] = "asking"
  /\ answer' = [answer EXCEPT ![t] = dns]
  /\ pc' = [pc EXCEPT ![t] = "ip"]
  /\ UNCHANGED <<ip, found, updated, sinceAnswer>>

StoreIp(t) ==
  /\ pc[t] = "ip"
  /\ ip' = answer[t]
  /\ pc' = [pc EXCEPT ![t] = "updated"]
  /\ UNCHANGED <<found, updated, answer, sinceAnswer>>

StoreUpdated(t) ==
  /\ pc[t] = "updated"
  /\ updated' = 0 /\ sinceAnswer' = 0
  /\ answer' = [answer EXCEPT ![t] = (ip # Unknown)]
  /\ pc' = [pc EXCEPT ![t] = "found"]
  /\ UNCHANGED <<ip, found>>

StoreFound(t) ==
  /\ pc[t] = "found"
  /\ found' = answer[t]
  /\ pc' = [pc EXCEPT ![t] = "idle"]
  /\ answer' = [answer EXCEPT ![t] = Unknown]
  /\ UNCHANGED <<ip, updated, sinceAnswer>>

ResolveTask(t) ==
  /\ Ask(t) \/ StoreIp(t) \/ StoreUpdated(t) \/ StoreFound(t)
  /\ UNCHANGED <<dns, exists, sinceStart, overlapped>>

Older(a) == IF a < Cap THEN a + 1 ELSE a

(* Time passes.  Nobody waits for the resolvers, but the output looks up   *)
(* in every frame: a lookup that has work to do is not put off.            *)
Tick ==
  /\ ~LookupIsDue
  /\ updated' = Older(updated)
  /\ sinceStart' = Older(sinceStart) /\ sinceAnswer' = Older(sinceAnswer)
  /\ UNCHANGED <<dns, exists, ip, found, task, overlapped>>

(* The name moves, or stops resolving, or comes back.                      *)
NameMoves ==
  /\ dns' \in Addresses \cup {Unknown}
  /\ UNCHANGED <<item, task, history>>

Next == Lookup \/ Tick \/ NameMoves \/ (\E t \in Tasks : ResolveTask(t))

Spec == Init /\ [][Next]_vars

(* The output keeps sending, time passes, and every resolver returns.      *)
FairSpec ==
  /\ Spec /\ WF_vars(Lookup) /\ WF_vars(Tick)
  /\ \A t \in Tasks : WF_vars(ResolveTask(t))

-----------------------------------------------------------------------------
(* Properties.                                                             *)

(* The resolver is not flooded: however answers and failures fall, two     *)
(* attempts for a name are at least the retry time apart.                  *)
NotAskedTooOften ==
  [][\A t \in Tasks : pc'[t] = "asking" /\ pc[t] = "idle" => sinceStart >= Retry]_vars

(* With one attempt at a time, an address that is not valid is handed out  *)
(* only while a failed refresh is halfway through its three stores.        *)
HitIsAnAddress ==
  Hit /\ ip = Unknown => overlapped \/ \E t \in Tasks : pc[t] \in {"updated", "found"}

(* A stale address is being asked for: no time passes while an answer is   *)
(* handed out that is older than the refresh time and no resolver is under *)
(* way.                                                                    *)
StaleIsAsked ==
  [][Tick => ~(Hit /\ sinceAnswer > Refresh /\ Running = {})]_vars

(* A name that settles on an address is found there for good, whatever     *)
(* late answers and failures came before.                                  *)
NameSettles ==
  \A a \in Addresses : <>[](dns = a) => <>[](Hit /\ ip = a)

=============================================================================
