------------------------------ MODULE MidiPorts ------------------------------
(***************************************************************************)
(* How the midi thread pairs input and output ports into devices once the  *)
(* number of ports has changed.  A port is its index; names are what the   *)
(* operating system calls it.                                              *)
(***************************************************************************)
EXTENDS Integers, Sequences, FiniteSets

CONSTANTS
  Names, 
  NamePairs,    (* name_pairs: input name |-> its other output name        *)
  MaxPorts      (* bound on the ports of each direction                    *)

(* The code has one pair: an output name is not the input name of another. *)
PortsAssumption ==
  /\ DOMAIN NamePairs \subseteq Names /\ MaxPorts \in Nat
  /\ \A n \in DOMAIN NamePairs : NamePairs[n] \notin DOMAIN NamePairs

None == 0       (* -1 in the code: no port of that direction               *)

VARIABLES
  ins, outs,    (* the names of the ports, by index                        *)
  inList, outList,  (* what is not paired yet: records of index and name   *)
  devices

vars == <<ins, outs, inList, outList, devices>>

Lists == UNION {[1 .. n -> Names] : n \in 0 .. MaxPorts}
Entries(s) == [i \in DOMAIN s |-> [index |-> i, name |-> s[i]]]

Matches(in, out) ==
  \/ out.name = in.name
  \/ in.name \in DOMAIN NamePairs /\ out.name = NamePairs[in.name]

(* The output names are asked of midiInPoll: the list has the number of    *)
(* outputs and the names of inputs; where there is no input of that index  *)
(* the name is empty and the entry skipped.                                *)
OutEntries ==
  LET n == IF Len(outs) < Len(ins) THEN Len(outs) ELSE Len(ins)
  IN  Entries(SubSeq(ins, 1, n))

Init ==
  /\ ins \in Lists /\ outs \in Lists
  /\ inList = Entries(ins) /\ outList = OutEntries
  /\ devices = {}

Without(i) == SubSeq(outList, 1, i - 1) \o SubSeq(outList, i + 1, Len(outList))

Candidates(in) == {i \in DOMAIN outList : Matches(in, outList[i])}

PairInput ==
  /\ inList # <<>>
  /\ LET in == Head(inList) IN
       IF Candidates(in) # {}
       THEN LET i == CHOOSE i \in Candidates(in) : \A j \in Candidates(in) : i <= j IN
              /\ devices' = devices \cup {[in |-> in.index, out |-> outList[i].index]}
              /\ outList' = Without(i)
       ELSE /\ devices' = devices \cup {[in |-> in.index, out |-> None]}
            /\ UNCHANGED outList
  /\ inList' = Tail(inList)
  /\ UNCHANGED <<ins, outs>>

OutputsOnly ==
  /\ inList = <<>> /\ outList # <<>>
  /\ devices' = devices \cup {[in |-> None, out |-> outList[i].index] : i \in DOMAIN outList}
  /\ outList' = <<>>
  /\ UNCHANGED <<ins, outs, inList>>

Next == PairInput \/ OutputsOnly

Spec == Init /\ [][Next]_vars

-----------------------------------------------------------------------------
(* Properties.                                                             *)

Done == inList = <<>> /\ outList = <<>>

(* No port is opened twice: RtMidi would refuse the second time.           *)
NoPortTwice ==
  \A d, e \in devices : d # e => /\ d.in = e.in => d.in = None
                                 /\ d.out = e.out => d.out = None

(* Every input is opened, and every output as long as there are as many    *)
(* inputs.                                                                 *)
EveryPortOpened ==
  Done => /\ {d.in : d \in devices} \ {None} = DOMAIN ins
          /\ Len(outs) <= Len(ins) => {d.out : d \in devices} \ {None} = DOMAIN outs

TrueName(d) ==
  Matches([name |-> ins[d.in]], [name |-> outs[d.out]])

(* When the system lists both directions of its devices in the same order, *)
(* a device gets the output of its own name, or of the name in name_pairs. *)
PairsOfEqualLists ==
  (Len(ins) = Len(outs) /\ \A i \in DOMAIN ins : TrueName([in |-> i, out |-> i]))
    => \A d \in devices : d.in # None /\ d.out # None => TrueName(d)

=============================================================================
