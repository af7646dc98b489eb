---------------------------- MODULE VesselAdapters ----------------------------
(***************************************************************************)
(* From what a carrier's API answers about a vessel to the list of its     *)
(* port calls: GenerateSchedule and GenerateVesselCalls of the four vessel *)
(* adapters.                                                               *)
(*                                                                         *)
(* The adapters read different documents of the same content: the calls of *)
(* the vessel, each with what happens there.  References, ports, voyages   *)
(* and times are numbers; 0 is the empty string, and the time of a date    *)
(* that is missing or cannot be converted.                                 *)
(***************************************************************************)
EXTENDS Subsequences, SequencesExt

(* type: "ARRI", "DEPA" or one the service does not know.  class: "EST",     *)
(* "PLN" or "ACT".                                                           *)
Event(type, class, time) == [type |-> type, class |-> class, time |-> time]

(* import and export: the voyages that arrive and that leave.  CMA has one   *)
(* for both, the second here.  bare: what the adapter indexes in it without  *)
(* a look is empty.                                                          *)
Call(ref, port, import, export, events, bare) ==
  [ref |-> ref, port |-> port, import |-> import, export |-> export, events |-> events,
   bare |-> bare]

(* All that a carrier may state, whether it makes sense or not. *)
WireEvents == [type : STRING, class : STRING, time : Nat]
WireCalls ==
  [ref : Nat, port : Nat, import : Nat, export : Nat, events : Seq(WireEvents), bare : BOOLEAN]

PortEvent(type) == CASE type = "ARRI" -> "UNL" [] type = "DEPA" -> "LOA" [] OTHER -> ""
VoyageOf(call, type) == IF type = "ARRI" THEN call.import ELSE call.export

(* The bound is told by the voyage's number, or "UNK": never empty. *)
UNK == 9
PortCallOf(call, type, time, key, voyage) ==
  [stop |-> [event |-> PortEvent(type), port |-> call.port, time |-> time],
   key |-> <<key>>, bound |-> <<UNK>>, voyage |-> <<voyage>>]

(* The first date of its kind that is stated. *)
Date(call, type, classes) ==
  LET stated == {i \in DOMAIN call.events :
                   call.events[i].type = type /\ call.events[i].class \in classes}
  IN  IF stated = {} THEN 0
      ELSE call.events[CHOOSE i \in stated : \A j \in stated : i <= j].time

-----------------------------------------------------------------------------
(* CMA: the activities the other way round; the dates are those of berthing  *)
(* and, for loading, of leaving the berth.                                   *)
CmaCalls(call) ==
  Reverse([i \in DOMAIN call.events |->
             LET e == call.events[i] IN PortCallOf(call, e.type, e.time, call.ref, call.export)])

(* Hapag-Lloyd: unloading and loading, where a voyage is given, each with    *)
(* the first estimated or planned date of its kind.                          *)
HapagCalls(call) ==
  LET of(type) == PortCallOf(call, type, Date(call, type, {"EST", "PLN"}), call.ref,
                             VoyageOf(call, type))
      both == <<of("ARRI"), of("DEPA")>>
  IN  ElementsAt(both, {i \in 1..2 : both[i].voyage # <<0>>})

\* mutant of OneCalls: the loading is put under the arriving voyage too
OneCallsArriving(call) ==
  LET of(type) == PortCallOf(call, type, Date(call, type, {"EST"}), 1, call.import)
  IN  <<of("ARRI"), of("DEPA")>>

(* ONE: unloading and loading, always.  A key is never empty. *)
OneCalls(call) ==
  LET of(type) == PortCallOf(call, type, Date(call, type, {"EST"}), 1, VoyageOf(call, type))
  IN  <<of("ARRI"), of("DEPA")>>

(* Maersk: whatever is scheduled. *)
MaerskCalls(call) ==
  [i \in DOMAIN call.events |->
     LET e == call.events[i]
     IN  PortCallOf(call, e.type, IF e.class = "EST" THEN e.time ELSE 0, 1,
                    VoyageOf(call, e.type))]

CallsOf(source, call) ==
  CASE source = "cma" -> CmaCalls(call)
    [] source = "hapag" -> HapagCalls(call)
    [] source = "one" -> OneCalls(call)
    [] source = "maersk" -> MaerskCalls(call)

Generated(source, document) ==
  FlattenSeq([i \in DOMAIN document |-> CallsOf(source, document[i])])

-----------------------------------------------------------------------------
(* The orders that slices.SortFunc may leave calls in: by time, those of the *)
(* same time anyhow.                                                         *)
Orders(calls) ==
  {order \in SetToSeqs(DOMAIN calls) :
     \A i \in 2..Len(order) : calls[order[i - 1]].stop.time <= calls[order[i]].stop.time}

\* mutant of SameStop: a port is called at once
SameStopByPort(a, b) == a.stop.port = b.stop.port

(* unloading and loading at the same time are the same stop *)
SameStop(a, b) == a.stop.port = b.stop.port /\ a.stop.time = b.stop.time

SortAndRemoveDuplicates(calls, order) ==
  LET sorted == [n \in DOMAIN order |-> calls[order[n]]]
  IN  ElementsAt(sorted, {n \in DOMAIN sorted : \A m \in 1..n - 1 : ~SameStop(sorted[m], sorted[n])})

(* Every adapter counts the calls it lists, Hapag-Lloyd's after sorting. *)
GenerateVesselCalls(source, document) ==
  LET calls == Generated(source, document)
      listed == IF source # "hapag" THEN {calls}
                ELSE {SortAndRemoveDuplicates(calls, order) : order \in Orders(calls)}
  IN  {[i \in DOMAIN l |-> [seq |-> i, call |-> l[i]]] : l \in listed}

(* The voyage of the schedule as a whole. *)
VoyageNumber(source, first) ==
  CASE source = "cma" -> first.export
    [] source = "maersk" -> first.import
    [] OTHER -> IF first.import # 0 THEN first.import ELSE first.export

(* The last character of an empty voyage number, or the first element of an  *)
(* empty list: the list of CMA's codes for a port where something happens,   *)
(* of what is in Hapag-Lloyd's first schedule, of all that ONE answered.     *)
AnswerPanics(source, document) ==
  CASE source = "cma" -> \E c \in ToSet(document) : c.bare /\ c.events # << >>
    [] source = "hapag" -> document # << >> /\ document[1].bare
    [] source = "one" -> document = << >> \/ \E c \in ToSet(document) : 0 \in {c.import, c.export}
    [] source = "maersk" ->
         \E c \in ToSet(document) : \E e \in ToSet(c.events) : VoyageOf(c, e.type) = 0
=============================================================================
