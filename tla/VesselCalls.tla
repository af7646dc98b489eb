----------------------------- MODULE VesselCalls -----------------------------
(***************************************************************************)
(* What a vessel request computes for a carrier: one list of port calls.   *)
(*                                                                         *)
(* From a carrier's API it is made of the calls that the answer states, by *)
(* the adapter of the carrier.  From the database it is made of the rows   *)
(* of the current and, if there is one, the next voyage of the vessel, a   *)
(* row or more per stop and voyage.  Where the one voyage ends and the     *)
(* other begins the same stop is in both; it is listed once, under both.   *)
(*                                                                         *)
(* Times, ports and voyage numbers are numbers, which are ordered as the   *)
(* strings are; 0 is the empty string.                                     *)
(***************************************************************************)
EXTENDS VesselAdapters, FiniteSets

CONSTANTS
  StopLists,    \* what the query may select of one voyage: sequences of stops
  Voyages,      \* pairs of voyages [num, bound, id] the query may select
  Documents     \* what a carrier may answer: sequences of calls

(* A stop without a time has the time 0. *)
ASSUME CallsAssumption ==
  /\ StopLists \subseteq Seq([event : STRING, port : Nat, time : Nat])
  /\ Voyages \subseteq [num : Nat, bound : Nat, id : Nat] \X [num : Nat, bound : Nat, id : Nat]
  /\ Documents \subseteq Seq(WireCalls)

VARIABLES
  source,       \* "database", or the adapter of the carrier
  document,     \* what the carrier answers
  selected,     \* the rows that the query selects, in no particular order
  rows,         \* what QueryContext returned
  result,       \* what constructAPIResult or GenerateSchedule returned
  pc

vars == <<source, document, selected, rows, result, pc>>

Row(stop, v) ==
  [event |-> stop.event, port |-> stop.port, time |-> stop.time,
   num |-> v.num, bound |-> v.bound, id |-> v.id]
BlankRow == [event |-> "", port |-> 0, time |-> 0, num |-> 0, bound |-> 0, id |-> 0]
NoResult == [voyage |-> 0, next |-> 0, calls |-> << >>]

RowsOf(stops, v) == [i \in DOMAIN stops |-> Row(stops[i], v)]

(* The query names a stop once for each name of the vessel and for each time *)
(* it is recorded, without DISTINCT: rows may be equal.                      *)
Init ==
  /\ \/ /\ source = "database" /\ document = << >> /\ pc = "query"
        /\ \E v \in Voyages, stops1, stops2 \in StopLists :
             selected = RowsOf(stops1, v[1]) \o RowsOf(stops2, v[2])
     \/ /\ source \in {"cma", "hapag", "one", "maersk"} /\ document \in Documents
        /\ selected = << >> /\ pc = "generate"
  /\ rows = << >> /\ result = NoResult

-----------------------------------------------------------------------------
(* QueryContext. *)

Columns == <<"id", "num", "bound", "port", "event", "time">>    \* as they are scanned

(* A row is kept with the columns before the first that cannot be scanned,   *)
(* as a time that is NULL cannot, and blank from there on.                   *)
Cut(row, n) ==
  [f \in DOMAIN row |-> IF \E i \in 1..n : Columns[i] = f THEN row[f] ELSE BlankRow[f]]

(* What slices.SortFunc compares; how it leaves rows that are equal in it is *)
(* left to chance.                                                           *)
NotAfter(a, b) ==
  \/ a.time < b.time
  \/ a.time = b.time /\ a.num < b.num
  \/ a.time = b.time /\ a.num = b.num /\ a.port <= b.port
Sorted(rs) == \A i \in DOMAIN rs : \A j \in 1..i - 1 : NotAfter(rs[j], rs[i])

(* Each row is scanned on its own and kept in any case.  The error of        *)
(* rows.Next is never looked at, so any of the rows may be all that is got   *)
(* of them; none is an error.                                                *)
QueryContext ==
  /\ pc = "query"
  /\ \E got \in SUBSET DOMAIN selected :
       /\ \E read \in [got -> 0..Len(Columns)], order \in SetToSeqs(got) :
            rows' = [i \in DOMAIN order |-> Cut(selected[order[i]], read[order[i]])]
       /\ Sorted(rows')
       /\ pc' = IF got = {} THEN "failed" ELSE "assemble"
  /\ UNCHANGED <<source, document, selected, result>>

-----------------------------------------------------------------------------
(* The five functions of mvs_stream.go. *)

Key(row) == [event |-> row.event, port |-> row.port, time |-> row.time]

\* mutant of FindOverlappedPorts: count > 2
FindOverlappedPortsTwice(rs) ==
  {k \in {Key(rs[i]) : i \in DOMAIN rs} : Cardinality({i \in DOMAIN rs : Key(rs[i]) = k}) > 2}

FindOverlappedPorts(rs) ==
  {k \in {Key(rs[i]) : i \in DOMAIN rs} : Cardinality({i \in DOMAIN rs : Key(rs[i]) = k}) > 1}

\* mutant of UniqueVoyageNumbers: the current voyage is not left out
UniqueVoyageNumbersAll(rs) == FirstOccurrences([i \in DOMAIN rs |-> rs[i].num])

UniqueVoyageNumbers(rs) ==
  LET nums == [i \in DOMAIN rs |-> rs[i].num]
  IN  ElementsAt(nums, {n \in DOMAIN nums :
                          nums[n] # nums[1] /\ \A m \in 1..n - 1 : nums[m] # nums[n]})

UniqueBounds(rs) == FirstOccurrences([i \in DOMAIN rs |-> rs[i].bound])
UniqueKeys(rs) == FirstOccurrences([i \in DOMAIN rs |-> rs[i].id])

(* The call of one row: an overlapped one is under the bounds and keys of    *)
(* both voyages, the current voyage and the first other.                     *)
PortCall(rs, row) ==
  LET next == UniqueVoyageNumbers(rs)
      overlapped == Key(row) \in FindOverlappedPorts(rs)
  IN  [stop |-> Key(row),
       key |-> IF overlapped THEN UniqueKeys(rs) ELSE <<row.id>>,
       bound |-> IF overlapped THEN UniqueBounds(rs) ELSE <<row.bound>>,
       voyage |-> IF ~overlapped THEN <<row.num>>
                  ELSE IF next = << >> THEN <<rs[1].num>> ELSE <<rs[1].num, next[1]>>]

ConstructPortCalls(rs) == [i \in DOMAIN rs |-> PortCall(rs, rs[i])]

\* mutant of RemoveDuplicates: calls are numbered before duplicates are removed
RemoveDuplicatesLate(calls, overlapped) ==
  LET last(c) == CHOOSE i \in DOMAIN calls : calls[i] = c
      final == IF overlapped = {} THEN calls ELSE FirstOccurrences(calls)
  IN  [i \in DOMAIN final |-> [seq |-> last(final[i]), call |-> final[i]]]

RemoveDuplicates(calls, overlapped) ==
  LET final == IF overlapped = {} THEN calls ELSE FirstOccurrences(calls)
  IN  [i \in DOMAIN final |-> [seq |-> i, call |-> final[i]]]

ConstructAPIResult(rs) ==
  LET next == UniqueVoyageNumbers(rs)
  IN  [voyage |-> rs[1].num,
       next |-> IF next = << >> THEN 0 ELSE next[1],
       calls |-> RemoveDuplicates(ConstructPortCalls(rs), FindOverlappedPorts(rs))]

Assemble ==
  /\ pc = "assemble"
  /\ result' = ConstructAPIResult(rows) /\ pc' = "done"
  /\ UNCHANGED <<source, document, selected, rows>>

-----------------------------------------------------------------------------
(* GenerateSchedule of an adapter: an answer that is empty or of another     *)
(* form is an error.                                                         *)
GenerateSchedule ==
  /\ pc = "generate"
  /\ \/ pc' = "failed" /\ UNCHANGED result
     \/ AnswerPanics(source, document) /\ pc' = "crashed" /\ UNCHANGED result
     \/ /\ document # << >> /\ ~AnswerPanics(source, document)
        /\ \E calls \in GenerateVesselCalls(source, document) :
             result' = [voyage |-> VoyageNumber(source, document[1]), next |-> 0, calls |-> calls]
        /\ pc' = "done"
  /\ UNCHANGED <<source, document, selected, rows>>

(* The validator's word on the result: a port left empty is not accepted,    *)
(* nor an event it does not know; keys, bounds and voyages of a call may be  *)
(* empty, of the type any.  Calls that are none are nil, and refused, where  *)
(* they were appended one by one to nil.                                     *)
Valid(res) ==
  /\ res.voyage # 0
  /\ source \in {"database", "hapag"} => res.calls # << >>
  /\ \A i \in DOMAIN res.calls :
       LET c == res.calls[i].call
       IN  c.stop.event \in {"UNL", "LOA", "PAS"} /\ c.stop.port # 0

Next == QueryContext \/ Assemble \/ GenerateSchedule

Spec == Init /\ [][Next]_vars

-----------------------------------------------------------------------------
(* Properties. *)

Delivered == pc = "done" /\ Valid(result)
Calls == {result.calls[i].call : i \in DOMAIN result.calls}
RowsAt(stop) == {i \in DOMAIN rows : Key(rows[i]) = stop}

FromDatabase == source = "database" /\ Delivered
FromAPI == source # "database" /\ Delivered
Sorts == source \in {"database", "hapag"}

(* A result that is sent lists each stop of the rows that arrived once and   *)
(* only once, also where the voyages overlap, and each of those rows is one  *)
(* the query selected: the validator stops a result with a row in it that    *)
(* was cut in scanning, unless it lacks no more than the time.               *)
OneCallPerStop ==
  FromDatabase =>
    /\ Len(result.calls) = Cardinality({Key(rows[i]) : i \in DOMAIN rows})
    /\ {c.stop : c \in Calls} = {Key(rows[i]) : i \in DOMAIN rows}
    /\ \A i \in DOMAIN rows :
         \E r \in ToSet(selected) : rows[i] \in {r, [r EXCEPT !.time = 0]}

(* The calls are numbered 1, 2, 3, ..., from the database and where an       *)
(* adapter leaves duplicates out in the order of their times.                *)
NumberedInOrder ==
  Delivered =>
    \A i \in DOMAIN result.calls :
      /\ result.calls[i].seq = i
      /\ Sorts /\ i > 1 => result.calls[i - 1].call.stop.time <= result.calls[i].call.stop.time

(* A call names every voyage that makes it, with its bound and its key, and  *)
(* none twice.  It names no voyage that does not make it, unless rows of one *)
(* voyage came twice for it: these, which cannot be told from an overlap,    *)
(* are listed under both voyages of the result.  The next of these is not    *)
(* its current one.                                                          *)
CallsNameTheirVoyages ==
  FromDatabase =>
    /\ \A c \in Calls :
         /\ \A i \in RowsAt(c.stop) : /\ rows[i].num \in ToSet(c.voyage)
                                      /\ rows[i].bound \in ToSet(c.bound)
                                      /\ rows[i].id \in ToSet(c.key)
         /\ Len(c.voyage) = Cardinality(ToSet(c.voyage))
         /\ (\A i, j \in RowsAt(c.stop) : rows[i] = rows[j] => i = j) =>
              ToSet(c.voyage) = {rows[i].num : i \in RowsAt(c.stop)}
    /\ result.next # result.voyage

(* No adapter loses a stop: where an answer gives one estimated date for an  *)
(* arrival or a departure and the voyage it is on, the list has a call at    *)
(* that port and time - of that event, unless unloading and loading at the   *)
(* same time are merged -, though duplicates are left out and events without *)
(* a voyage or a date stand in between.                                      *)
EveryStopListed ==
  FromAPI =>
    \A d \in ToSet(document) : \A e \in ToSet(d.events) :
      /\ e.type \in {"ARRI", "DEPA"} /\ e.class = "EST" /\ e.time # 0
      /\ VoyageOf(d, e.type) # 0
      /\ \A other \in ToSet(d.events) : other.type = e.type => other = e
      => \E c \in Calls : /\ c.stop.port = d.port /\ c.stop.time = e.time
                          /\ source # "hapag" => c.stop.event = PortEvent(e.type)

(* No adapter mixes the calls of an answer up: what is listed as one call is *)
(* from one call of the answer, its port, its event with that event's        *)
(* voyage, and a date the answer has for that very event, or none.           *)
CallsAsStated ==
  FromAPI =>
    \A c \in Calls : \E d \in ToSet(document) : \E type \in {"ARRI", "DEPA"} :
      /\ c.stop.port = d.port /\ c.stop.event = PortEvent(type)
      /\ c.voyage = <<IF source = "cma" THEN d.export ELSE VoyageOf(d, type)>>
      /\ c.stop.time = 0 \/ \E e \in ToSet(d.events) : e.type = type /\ e.time = c.stop.time
=============================================================================
