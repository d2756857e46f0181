------------------------------ MODULE ProDjLink ------------------------------
(***************************************************************************)
(* The tempo source that listens to players on the network: which player   *)
(* is the tempo master, which of its packets is a beat, and how the local  *)
(* count is moved to the player's.  Tempo has what follows from a beat.    *)
(***************************************************************************)
EXTENDS Integers

CONSTANTS
  Players, NoMaster,
  MaxBeat       (* bound on the local count                                *)

CdjBar == 4    (* beats of a bar                                          *)
Startup == 16   (* the beat number of a player that starts                 *)

ProDjAssumption == NoMaster \notin Players /\ MaxBeat \in Nat

VARIABLES
  master, lastbeat, beatNumber,
  heard         (* history: the master's last beat packet, 0 before one    *)

vars == <<master, lastbeat, beatNumber, heard>>

CdjBeats == 1 .. CdjBar

TypeOK ==
  /\ master \in Players \cup {NoMaster}
  /\ lastbeat \in -1 .. MaxBeat /\ beatNumber \in -1 .. MaxBeat + Startup
  /\ heard \in {0, Startup} \cup CdjBeats
  /\ master = NoMaster => beatNumber = -1

Init == master = NoMaster /\ lastbeat = -1 /\ beatNumber = -1 /\ heard = 0

-----------------------------------------------------------------------------

FirstBeat(p, n)  == IF master = NoMaster /\ n # Startup THEN p ELSE master

(* A difference of 12 to 15, from a Startup packet, is taken as it is.     *)
Nearest(diff) == CASE diff = -2 -> 2
                   [] diff = -3 -> 1
                   [] diff = 3  -> -1
                   [] OTHER     -> diff

(* beat() and the adjustment to the player's place in the bar; lastbeat    *)
(* has the local count before the adjustment.                              *)
Count(n) ==
  LET b == beatNumber + 1
  IN  /\ b < MaxBeat
      /\ lastbeat' = b
      /\ beatNumber' = b + Nearest((n - 1) - (b % CdjBar))

OnBeat(p, n) ==
  /\ master' = FirstBeat(p, n)
  /\ heard' = IF p = master' THEN n ELSE heard
  /\ IF p = master' /\ lastbeat # n THEN Count(n) ELSE UNCHANGED <<lastbeat, beatNumber>>

(* Wrong on purpose: the beats of the last master still count as seen.     *)
StillSeen(p) == lastbeat
Forget(p) == IF master # p THEN -1 ELSE lastbeat

(* A status packet of a player that says it is the master.                 *)
OnStatus(p) ==
  /\ lastbeat' = Forget(p)
  /\ heard' = IF master # p THEN 0 ELSE heard
  /\ master' = p
  /\ UNCHANGED beatNumber

Next ==
  \E p \in Players : OnStatus(p) \/ \E n \in CdjBeats \cup {Startup} : OnBeat(p, n)

Spec == Init /\ [][Next]_vars

-----------------------------------------------------------------------------
(* Properties.                                                             *)

(* A beat that counts leaves the local count at the player's place in the  *)
(* bar, never turns it back and moves it by less than a bar, whichever     *)
(* player has become the master in between and wherever that one is.       *)
InStep ==
  [][ /\ heard' \in CdjBeats
      /\ beatNumber' # beatNumber \/ lastbeat' \notin {lastbeat, -1}
      => /\ (beatNumber' - (heard' - 1)) % CdjBar = 0
         /\ beatNumber' - beatNumber \in 0 .. CdjBar - 1 ]_vars

(* After a handoff the first beat of the new master counts, whatever has   *)
(* been counted of the old one.                                            *)
HandoffIsFollowed ==
  [][ master' # NoMaster /\ heard = 0 /\ heard' # 0 => lastbeat' = beatNumber + 1 ]_vars

=============================================================================
