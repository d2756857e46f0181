------------------------------- MODULE Tempo --------------------------------
(***************************************************************************)
(* The tempo sources (players on ProDJLink, MIDI clocks, tapping), the     *)
(* choice of the active one, the phrase offset, and the broadcast of its   *)
(* beats to the listeners.  BroadcastBeat asks three times which source is *)
(* active and takes no lock, so each of its reads is a step of the thread  *)
(* that beats.  Time is abstracted to `recent` (two seconds) and `tapping` *)
(* (one second), a player's packet to how far the local count is off.      *)
(***************************************************************************)
EXTENDS Integers, Sequences, SequencesExt

CONSTANTS
  Player,       (* the ProDJLinkTempo                                      *)
  Tap,          (* the TapTempo                                            *)
  Clocks,       (* MidiClockTempos, one per MIDI device                    *)
  TempoThread,  (* runs TempoTask of every source                          *)
  MidiThread,   (* delivers MIDI messages and device changes               *)
  WebThread,    (* delivers taps and alignments                            *)
  BarSize,      (* beats of a bar: 4 in the code                           *)
  PhraseSize,   (* beats of a phrase: 64 in the code                       *)
  TicksPerBeat, (* 24 in the code                                          *)
  MaxBeat,      (* bound on the beat numbers                               *)
  NoSource      (* nullptr                                                 *)

Sources == {Player, Tap} \cup Clocks
Threads == {TempoThread, MidiThread, WebThread}

ASSUME TempoAssumption ==
  /\ Player # Tap /\ {Player, Tap} \cap Clocks = {} /\ NoSource \notin Sources
  /\ BarSize \in Nat \ {0} /\ PhraseSize \in Nat \ {0}
  /\ PhraseSize % BarSize = 0
  /\ TicksPerBeat \in Nat \ {0}
  /\ MaxBeat \in Nat

VARIABLES
  order,        (* Tempo::sources, a set of pointers: in order of address  *)
  registered,   (* the sources in the order of the AddSource calls         *)
  valid,        (* AbstractTempo::validSignal                              *)
  recent,       (* the last beat is less than two seconds ago              *)
  beatNumber,   (* AbstractTempo::beatNumber                               *)
  ticks,        (* MidiClockTempo::tickCount                               *)
  tapping,      (* TapTempo::isTapping()                                   *)
  severalTaps,  (* TapTempo::tapCount > 0                                  *)
  period,       (* TapTempo::period is not 0                               *)
  phraseOffset,
  job           (* what each thread is doing                               *)

tapVars    == <<tapping, severalTaps, period>>
sourceVars == <<valid, recent, beatNumber, ticks>>
vars       == <<order, registered, sourceVars, tapVars, phraseOffset, job>>

(* `then` is what the caller of beat() does after the broadcast.           *)
Stages  == {"check", "name", "number", "after"}
Afters  == {"nothing", "stop", "packet"}
Job     == [stage : Stages, source : Sources, then : Afters,
            name : Sources \cup {NoSource}]
Idle    == [stage |-> "idle"]

Beats == -1 .. MaxBeat

TypeOK ==
  /\ ToSet(order) = ToSet(registered) /\ ToSet(order) \subseteq Sources
  /\ Len(order) = Len(registered) /\ {Player, Tap} \subseteq ToSet(order)
  /\ valid \in [Sources -> BOOLEAN]
  /\ recent \in [Sources -> BOOLEAN]
  /\ beatNumber \in [Sources -> Beats]
  /\ ticks \in [Clocks -> 0 .. TicksPerBeat - 1]
  /\ tapping \in BOOLEAN /\ severalTaps \in BOOLEAN /\ period \in BOOLEAN
  /\ phraseOffset \in Nat
  /\ job \in [Threads -> {Idle} \cup Job]

(* lastTap and tapCount are not initialised: the first tap may look like   *)
(* one of a running session.                                               *)
Init ==
  /\ order \in {<<Player, Tap>>, <<Tap, Player>>}
  /\ registered = <<Player, Tap>>
  /\ valid = [s \in Sources |-> FALSE]
  /\ recent = [s \in Sources |-> FALSE]
  /\ beatNumber = [s \in Sources |-> -1]
  /\ ticks = [c \in Clocks |-> 0]
  /\ tapping \in BOOLEAN
  /\ severalTaps \in BOOLEAN
  /\ period = FALSE
  /\ phraseOffset = 0
  /\ job = [t \in Threads |-> Idle]

-----------------------------------------------------------------------------
(* The active source.                                                      *)

HasSignal(s) == valid[s] /\ recent[s]

FirstWithSignal(seq) ==
  LET live == {i \in DOMAIN seq : HasSignal(seq[i])}
  IN  IF live = {} THEN NoSource ELSE seq[CHOOSE i \in live : \A j \in live : i <= j]

Active == FirstWithSignal(order)

GetBeatNumber == IF Active = NoSource THEN -1 ELSE beatNumber[Active] + phraseOffset

(* The remainder of C++, which has the sign of the dividend.               *)
Rem(a, b) == IF a < 0 THEN -((-a) % b) ELSE a % b

-----------------------------------------------------------------------------
(* A beat and its broadcast.                                               *)

Beat(t, s, n, then) ==
  /\ n \in Beats
  /\ beatNumber' = [beatNumber EXCEPT ![s] = n]
  /\ recent' = [recent EXCEPT ![s] = TRUE]
  /\ job' = [job EXCEPT ![t] =
               [stage |-> "check", source |-> s, then |-> then, name |-> NoSource]]

(* Wrong on purpose: any beat passes as long as some source is active.     *)
BroadcastAny(t) ==
  /\ job[t].stage = "check"
  /\ job' = [job EXCEPT ![t].stage = IF Active # NoSource THEN "name" ELSE "after"]
  /\ UNCHANGED <<order, registered, sourceVars, tapVars, phraseOffset>>

BroadcastCheck(t) ==
  /\ job[t].stage = "check"
  /\ job' = [job EXCEPT ![t].stage = IF Active = job[t].source THEN "name" ELSE "after"]
  /\ UNCHANGED <<order, registered, sourceVars, tapVars, phraseOffset>>

BroadcastName(t) ==
  /\ job[t].stage = "name"
  /\ job' = [job EXCEPT ![t].stage = "number", ![t].name = Active]
  /\ UNCHANGED <<order, registered, sourceVars, tapVars, phraseOffset>>

(* What the listeners are told when the number is read.                    *)
Told(t) == [number |-> GetBeatNumber, name |-> job[t].name]

BroadcastNumber(t) ==
  /\ job[t].stage = "number"
  /\ job' = [job EXCEPT ![t].stage = "after", ![t].name = NoSource]
  /\ UNCHANGED <<order, registered, sourceVars, tapVars, phraseOffset>>

(* The rest of the caller: MIDI stop takes the signal away, a packet gives *)
(* it and moves the count by -1, 1 or 2 to meet the player's.              *)
AfterBeat(t) ==
  /\ job[t].stage = "after"
  /\ LET s == job[t].source
     IN  /\ valid' = CASE job[t].then = "stop"   -> [valid EXCEPT ![s] = FALSE]
                       [] job[t].then = "packet" -> [valid EXCEPT ![s] = TRUE]
                       [] OTHER -> valid
         /\ ticks' = IF job[t].then = "stop" THEN [ticks EXCEPT ![s] = 0] ELSE ticks
         /\ \E diff \in IF job[t].then = "packet" THEN {0, -1, 1, 2} ELSE {0} :
              /\ beatNumber[s] + diff \in Beats
              /\ beatNumber' = [beatNumber EXCEPT ![s] = @ + diff]
  /\ job' = [job EXCEPT ![t] = Idle]
  /\ UNCHANGED <<order, registered, recent, tapVars, phraseOffset>>

Broadcast(t) == BroadcastCheck(t) \/ BroadcastName(t) \/ BroadcastNumber(t) \/ AfterBeat(t)

-----------------------------------------------------------------------------
(* The sources.                                                            *)

Free(t) == job[t] = Idle

(* A packet of the tempo master; any other packet only gives the signal.   *)
PlayerPacket ==
  /\ Free(TempoThread)
  /\ \/ Beat(TempoThread, Player, beatNumber[Player] + 1, "packet") /\ UNCHANGED valid
     \/ valid' = [valid EXCEPT ![Player] = TRUE] /\ UNCHANGED <<recent, beatNumber, job>>
  /\ UNCHANGED <<order, registered, ticks, tapVars, phraseOffset>>

(* The count follows from the clock and the period, which moves as one taps.*)
TapTempoTask ==
  /\ Free(TempoThread)
  /\ valid[Tap] /\ period
  /\ \E n \in 0 .. MaxBeat :
       n # beatNumber[Tap] /\ Beat(TempoThread, Tap, n, "nothing")
  /\ UNCHANGED <<order, registered, valid, ticks, tapVars, phraseOffset>>

(* A tap starts a session or continues one.                                *)
FirstTap ==
  /\ Free(WebThread) /\ ~tapping
  /\ tapping' = TRUE /\ severalTaps' = TRUE
  /\ valid' = [valid EXCEPT ![Tap] = TRUE]
  /\ phraseOffset' = 0
  /\ Beat(WebThread, Tap, 0, "nothing")
  /\ UNCHANGED <<order, registered, ticks, period>>

NextTap ==
  /\ Free(WebThread) /\ tapping
  /\ severalTaps' = TRUE
  /\ IF severalTaps
     THEN period' = TRUE /\ valid' = [valid EXCEPT ![Tap] = TRUE]
     ELSE UNCHANGED <<period, valid>>
  /\ UNCHANGED <<order, registered, recent, beatNumber, ticks, tapping, phraseOffset,
                 job>>

TapStop ==
  /\ Free(WebThread)
  /\ valid' = [valid EXCEPT ![Tap] = FALSE]
  /\ beatNumber' = [beatNumber EXCEPT ![Tap] = -1]
  /\ period' = FALSE
  /\ UNCHANGED <<order, registered, recent, ticks, tapping, severalTaps, phraseOffset,
                 job>>

(* onSystemRealtime.                                                       *)
ClockContinue(c) ==
  /\ valid' = [valid EXCEPT ![c] = TRUE]
  /\ ticks' = [ticks EXCEPT ![c] = 0]
  /\ UNCHANGED <<recent, beatNumber, job>>

ClockStart(c) ==
  /\ valid' = [valid EXCEPT ![c] = TRUE]
  /\ ticks' = [ticks EXCEPT ![c] = 0]
  /\ Beat(MidiThread, c, 0, "nothing")

ClockStop(c) == Beat(MidiThread, c, -1, "stop") /\ UNCHANGED <<valid, ticks>>

ClockTick(c) ==
  /\ valid[c]
  /\ ticks' = [ticks EXCEPT ![c] = (@ + 1) % TicksPerBeat]
  /\ IF ticks'[c] = 0
     THEN Beat(MidiThread, c, beatNumber[c] + 1, "nothing")
     ELSE UNCHANGED <<recent, beatNumber, job>>
  /\ UNCHANGED valid

ClockMessage(c) ==
  /\ Free(MidiThread) /\ c \in ToSet(order)
  /\ ClockContinue(c) \/ ClockStart(c) \/ ClockStop(c) \/ ClockTick(c)
  /\ UNCHANGED <<order, registered, tapVars, phraseOffset>>

(* A MIDI device appears: its clock gets whatever address the heap gives,  *)
(* and with it a place among the sources.                                  *)
AddClock(c) ==
  /\ Free(MidiThread) /\ c \notin ToSet(order)
  /\ \E i \in 1 .. Len(order) + 1 : order' = InsertAt(order, i, c)
  /\ registered' = Append(registered, c)
  /\ valid' = [valid EXCEPT ![c] = FALSE]
  /\ recent' = [recent EXCEPT ![c] = FALSE]
  /\ beatNumber' = [beatNumber EXCEPT ![c] = -1]
  /\ ticks' = [ticks EXCEPT ![c] = 0]
  /\ UNCHANGED <<tapVars, phraseOffset, job>>

RemoveClock(c) ==
  /\ Free(MidiThread) /\ c \in ToSet(order)
  /\ \E i \in DOMAIN order : order[i] = c /\ order' = RemoveAt(order, i)
  /\ \E i \in DOMAIN registered : registered[i] = c /\ registered' = RemoveAt(registered, i)
  /\ UNCHANGED <<sourceVars, tapVars, phraseOffset, job>>

(* Wrong on purpose: the offset may become negative; the offset in use is  *)
(* counted twice.                                                          *)
AlignBackwards ==
  /\ Free(WebThread)
  /\ LET rawBeatNr == GetBeatNumber - phraseOffset
     IN  phraseOffset' = Rem(rawBeatNr, BarSize) - Rem(rawBeatNr, PhraseSize)
  /\ UNCHANGED <<order, registered, sourceVars, tapVars, job>>

AlignTwice ==
  /\ Free(WebThread)
  /\ LET beatNr == GetBeatNumber
     IN  phraseOffset' = PhraseSize - Rem(beatNr, PhraseSize) + Rem(beatNr, BarSize)
  /\ UNCHANGED <<order, registered, sourceVars, tapVars, job>>

(* The raw number is taken back from the reported one, also when nobody    *)
(* has a signal and -1 was reported.                                       *)
AlignPhrase ==
  /\ Free(WebThread)
  /\ LET rawBeatNr == GetBeatNumber - phraseOffset
     IN  phraseOffset' = PhraseSize - Rem(rawBeatNr, PhraseSize) + Rem(rawBeatNr, BarSize)
  /\ UNCHANGED <<order, registered, sourceVars, tapVars, job>>

(* Time passes; a source is not silent while its beat is on its way.       *)
Silence(s) ==
  /\ recent[s]
  /\ \A t \in Threads : ~Free(t) => job[t].source # s
  /\ recent' = [recent EXCEPT ![s] = FALSE]
  /\ UNCHANGED <<order, registered, valid, beatNumber, ticks, tapVars, phraseOffset,
                 job>>

TapTimeout ==
  /\ tapping
  /\ tapping' = FALSE
  /\ UNCHANGED <<order, registered, sourceVars, severalTaps, period, phraseOffset, job>>

Next ==
  \/ \E t \in Threads : Broadcast(t)
  \/ PlayerPacket \/ TapTempoTask
  \/ FirstTap \/ NextTap \/ TapStop \/ TapTimeout
  \/ \E c \in Clocks : ClockMessage(c) \/ AddClock(c) \/ RemoveClock(c)
  \/ AlignPhrase
  \/ \E s \in Sources : Silence(s)

Spec == Init /\ [][Next]_vars

-----------------------------------------------------------------------------
(* Properties.                                                             *)

(* "Dont become negative": whatever the sources count and lose, aligning   *)
(* again and again keeps the offset at a whole number of bars, never       *)
(* negative and below two phrases (the remainders in AlignPhrase are those *)
(* of possibly negative numbers).                                          *)
OffsetIsWholeBars ==
  /\ phraseOffset \in 0 .. 2 * PhraseSize - BarSize
  /\ phraseOffset % BarSize = 0

(* After an alignment the current bar is the first of the phrase, with the *)
(* beat at the same place in the bar.                                      *)
AlignStartsPhrase ==
  [][AlignPhrase /\ Active # NoSource /\ beatNumber[Active] >= 0 =>
       (GetBeatNumber' % PhraseSize) = beatNumber[Active] % BarSize]_vars

(* "If we got a beat from a source that is currently not selected as the   *)
(* active source, we ignore it".  The source is asked for again for the    *)
(* name and for the number, while two other threads go on: they can only   *)
(* put one in its place that comes before it in the set and has a signal   *)
(* by now, never one behind it and never nobody.  Not so for the beats     *)
(* that TempoTask makes of tapping: a page may stop that meanwhile.        *)
OnlyPrecededBy(s, a) ==
  \E i, j \in DOMAIN order : i <= j /\ order[i] = a /\ order[j] = s /\ HasSignal(a)

BeatsAreNotMisplaced ==
  [][\A t \in Threads :
       /\ job[t].stage \in {"name", "number"} /\ job'[t] # job[t]
       /\ job[t].source = Tap => t = WebThread
       => \E a \in Sources :
            /\ OnlyPrecededBy(job[t].source, a)
            /\ job[t].stage = "name" => job'[t].name = a
            /\ job[t].stage = "number" => Told(t).number = beatNumber[a] + phraseOffset]_vars

(* "Add tempo sources in order of importance. first has highest priority": *)
(* the active source is the first added of those with a signal.            *)
HighestPriorityActive == Active = FirstWithSignal(registered)

=============================================================================
