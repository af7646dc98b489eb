--------------------------- MODULE VesselCallsProofs ---------------------------
(***************************************************************************)
(* The list of port calls, for any stops, any voyages of any length and    *)
(* any answers of the carriers.                                            *)
(*                                                                         *)
(* From the database: each row is one of those selected, cut at any column *)
(* or whole, each selected row once, in the order of the comparison        *)
(* (Fetched); no step looks at how ties were broken.  From an API: each    *)
(* adapter lists every dated event of a call (Lists), an answer is the     *)
(* calls one after another (ListsAll), and the duplicates that are left    *)
(* out have an equal that is kept (DuplicatesRemoved).                     *)
(***************************************************************************)
EXTENDS VesselCalls, SequenceLemmas

-----------------------------------------------------------------------------
(* The rows that are selected, and what is scanned of them. *)

Fields == {"event", "port", "time", "num", "bound", "id"}
Rows ==
  [event : STRING \cup {""}, port : Nat, time : Nat, num : Nat, bound : Nat, id : Nat]

(* What one of two voyages has in a row, its stop aside. *)
OfVoyage(r, w) == r.num = w.num /\ r.bound = w.bound /\ r.id = w.id

LEMMA SelectedRows ==
  ASSUME NEW v \in Voyages, NEW w \in {v[1], v[2]}, NEW stops \in StopLists
  PROVE  /\ RowsOf(stops, w) \in Seq(Rows)
         /\ \A i \in DOMAIN RowsOf(stops, w) : OfVoyage(RowsOf(stops, w)[i], w)
<1> DEFINE T == [event : STRING, port : Nat, time : Nat]
<1>1. stops \in Seq(T) /\ w \in [num : Nat, bound : Nat, id : Nat]
  BY CallsAssumption
<1>2. \A i \in DOMAIN stops : Row(stops[i], w) \in Rows /\ OfVoyage(Row(stops[i], w), w)
  <2>1. ASSUME NEW i \in DOMAIN stops PROVE stops[i] \in T
    <3> HIDE DEF T
    <3> QED BY <1>1
  <2> QED BY <1>1, <2>1 DEF Row, Rows, OfVoyage
<1> HIDE DEF T
<1>3. Len(stops) \in Nat /\ DOMAIN stops = 1..Len(stops)
  BY <1>1
<1> QED BY <1>2, <1>3 DEF RowsOf

(* A row that was cut is one, but lacks its event, or its time only. *)
LEMMA CutRow ==
  ASSUME NEW r \in Rows, NEW n \in 0..Len(Columns)
  PROVE  /\ Cut(r, n) \in Rows
         /\ Cut(r, n).event = "" \/ Cut(r, n) \in {r, [r EXCEPT !.time = 0]}
<1>1. /\ Columns[1] = "id" /\ Columns[2] = "num" /\ Columns[3] = "bound" /\ Columns[4] = "port"
      /\ Columns[5] = "event" /\ Columns[6] = "time"
  BY DEF Columns
<1>2. n \in 0..6
  BY DEF Columns
<1>3. DOMAIN r = Fields /\ r = [f \in Fields |-> r[f]]
  BY DEF Rows, Fields
<1>4. /\ DOMAIN Cut(r, n) = Fields /\ Cut(r, n) = [f \in Fields |-> Cut(r, n)[f]]
      /\ \A f \in Fields : Cut(r, n)[f] = IF \E i \in 1..n : Columns[i] = f THEN r[f] ELSE BlankRow[f]
  BY <1>3 DEF Cut
<1>5. Cut(r, n) \in Rows
  <2>1. BlankRow \in Rows
    BY DEF BlankRow, Rows
  <2>2. \A f \in Fields : Cut(r, n)[f] \in {r[f], BlankRow[f]}
    BY <1>4
  <2> DEFINE c == Cut(r, n)
  <2>3. c = [event |-> c.event, port |-> c.port, time |-> c.time, num |-> c.num,
             bound |-> c.bound, id |-> c.id]
    BY <1>4 DEF Fields
  <2>4. /\ c.event \in {r.event, BlankRow.event} /\ c.port \in {r.port, BlankRow.port}
        /\ c.time \in {r.time, BlankRow.time} /\ c.num \in {r.num, BlankRow.num}
        /\ c.bound \in {r.bound, BlankRow.bound} /\ c.id \in {r.id, BlankRow.id}
    BY <2>2 DEF Fields
  <2> HIDE DEF c
  <2>5. /\ c.event \in STRING \cup {""} /\ c.port \in Nat /\ c.time \in Nat /\ c.num \in Nat
        /\ c.bound \in Nat /\ c.id \in Nat
    BY <2>1, <2>4 DEF Rows
  <2> QED BY <2>3, <2>5 DEF Rows, c
<1>6. CASE n \in 0..4
  <2>1. \A i \in 1..n : Columns[i] # "event"
    <3>1. ASSUME NEW i \in 1..n PROVE i \in {1, 2, 3, 4}
      BY <1>6
    <3> QED BY <1>1, <3>1
  <2>2. BlankRow.event = ""
    BY DEF BlankRow
  <2> QED BY <1>4, <1>5, <2>1, <2>2 DEF Fields
<1>7. CASE n \in {5, 6}
  <2>1. \A f \in Fields \ {"time"} : \E i \in 1..n : Columns[i] = f
    <3>1. 1 \in 1..n /\ 2 \in 1..n /\ 3 \in 1..n /\ 4 \in 1..n /\ 5 \in 1..n
      BY <1>7
    <3> QED BY <1>1, <3>1 DEF Fields
  <2>2. \A f \in Fields \ {"time"} : Cut(r, n)[f] = r[f]
    BY <1>4, <2>1
  <2>3. Cut(r, n).time \in {r.time, 0}
    BY <1>4 DEF Fields, BlankRow
  <2>4. [r EXCEPT !.time = 0] = [f \in Fields |-> IF f = "time" THEN 0 ELSE r[f]]
    BY <1>3
  <2>5. CASE Cut(r, n).time = 0
    <3>1. \A f \in Fields : Cut(r, n)[f] = IF f = "time" THEN 0 ELSE r[f]
      BY <2>2, <2>5
    <3>2. Cut(r, n) = [r EXCEPT !.time = 0]
      BY <1>4, <2>4, <3>1
    <3> QED BY <1>5, <3>2
  <2>6. CASE Cut(r, n).time = r.time
    <3>1. \A f \in Fields : Cut(r, n)[f] = r[f]
      BY <2>2, <2>6
    <3>2. Cut(r, n) = r
      BY <1>3, <1>4, <3>1
    <3> QED BY <1>5, <3>2
  <2> QED BY <2>3, <2>5, <2>6
<1>8. n \in 0..4 \/ n \in {5, 6}
  BY <1>2
<1> QED BY <1>6, <1>7, <1>8

-----------------------------------------------------------------------------
(* What there is at each step of a request. *)

APIs == {"cma", "hapag", "one", "maersk"}

SelectedOf(pair) ==
  /\ pair \in Voyages /\ selected \in Seq(Rows)
  /\ \A i \in DOMAIN selected : OfVoyage(selected[i], pair[1]) \/ OfVoyage(selected[i], pair[2])

(* The rows in order, each from one that was selected, whole or cut, and no  *)
(* two from the same one, though two may be equal.                           *)
Fetched ==
  /\ rows \in Seq(Rows) /\ rows # << >> /\ Sorted(rows)
  /\ \E order \in [DOMAIN rows -> DOMAIN selected] :
       /\ \A i, j \in DOMAIN rows : order[i] = order[j] => i = j
       /\ \A i \in DOMAIN rows : \E n \in 0..Len(Columns) : rows[i] = Cut(selected[order[i]], n)

IInv ==
  /\ source \in {"database"} \cup APIs
  /\ source = "database" =>
       /\ \E pair : SelectedOf(pair)
       /\ pc \in {"query", "assemble", "failed", "done"}
       /\ pc \in {"assemble", "done"} => Fetched
       /\ pc = "done" => result = ConstructAPIResult(rows)
  /\ source # "database" =>
       /\ document \in Documents /\ pc \in {"generate", "failed", "crashed", "done"}
       /\ pc = "done" => result.calls \in GenerateVesselCalls(source, document)

LEMMA Initially == Init => IInv
<1>1. ASSUME NEW v \in Voyages, NEW stops1 \in StopLists, NEW stops2 \in StopLists,
             selected = RowsOf(stops1, v[1]) \o RowsOf(stops2, v[2])
      PROVE  SelectedOf(v)
  <2> DEFINE r1 == RowsOf(stops1, v[1])
             r2 == RowsOf(stops2, v[2])
  <2>1. /\ r1 \in Seq(Rows) /\ \A i \in DOMAIN r1 : OfVoyage(r1[i], v[1])
        /\ r2 \in Seq(Rows) /\ \A i \in DOMAIN r2 : OfVoyage(r2[i], v[2])
    BY SelectedRows
  <2>2. selected = r1 \o r2
    BY <1>1
  <2> HIDE DEF r1, r2
  <2>3. selected \in Seq(Rows)
    BY <2>1, <2>2
  <2>4. ASSUME NEW i \in DOMAIN selected
        PROVE  OfVoyage(selected[i], v[1]) \/ OfVoyage(selected[i], v[2])
    <3>1. \/ i \in DOMAIN r1 /\ selected[i] = r1[i]
          \/ i - Len(r1) \in DOMAIN r2 /\ selected[i] = r2[i - Len(r1)]
      BY <2>1, <2>2
    <3> QED BY <2>1, <3>1
  <2> QED BY <2>3, <2>4 DEF SelectedOf
<1> QED BY <1>1 DEF Init, IInv, APIs

LEMMA QueryFetches ==
  ASSUME IInv, QueryContext, source = "database"
  PROVE  IInv'
<1>1. PICK pair : SelectedOf(pair)
  BY DEF IInv
<1>2. PICK got \in SUBSET DOMAIN selected :
        /\ \E read \in [got -> 0..Len(Columns)], order \in SetToSeqs(got) :
             rows' = [i \in DOMAIN order |-> Cut(selected[order[i]], read[order[i]])]
        /\ Sorted(rows')
        /\ pc' = IF got = {} THEN "failed" ELSE "assemble"
  BY DEF QueryContext
<1>3. PICK read \in [got -> 0..Len(Columns)], order \in SetToSeqs(got) :
        rows' = [i \in DOMAIN order |-> Cut(selected[order[i]], read[order[i]])]
  BY <1>2
<1>4. UNCHANGED <<source, document, selected, result>>
  BY DEF QueryContext
<1> DEFINE n == Cardinality(got)
<1>5. IsFiniteSet(got)
  <2>1. Len(selected) \in Nat /\ DOMAIN selected = 1..Len(selected)
    BY <1>1 DEF SelectedOf
  <2>2. 1 \in Int /\ Len(selected) \in Int
    BY <2>1
  <2>3. IsFiniteSet(DOMAIN selected)
    BY <2>1, <2>2, FS_Interval
  <2> QED BY <2>3, FS_Subset
<1>6. /\ n \in Nat /\ order \in [1..n -> got] /\ DOMAIN order = 1..n
      /\ \A x \in got : \E i \in 1..n : order[i] = x
      /\ \A i, j \in 1..n : order[i] = order[j] => i = j
  <2>1. /\ Cardinality(got) \in Nat /\ order \in [1..Cardinality(got) -> got]
        /\ \A x \in got : \E i \in 1..Cardinality(got) : order[i] = x
        /\ \A i, j \in 1..Cardinality(got) : order[i] = order[j] => i = j
    BY <1>5, Arrangement
  <2> QED BY <2>1
<1> HIDE DEF n
<1>7. ASSUME NEW i \in 1..n
      PROVE  /\ order[i] \in DOMAIN selected /\ read[order[i]] \in 0..Len(Columns)
             /\ rows'[i] = Cut(selected[order[i]], read[order[i]]) /\ rows'[i] \in Rows
  <2>1. order[i] \in got /\ order[i] \in DOMAIN selected /\ read[order[i]] \in 0..Len(Columns)
    BY <1>6
  <2>2. rows'[i] = Cut(selected[order[i]], read[order[i]])
    BY <1>3, <1>6
  <2>3. selected[order[i]] \in Rows
    BY <1>1, <2>1 DEF SelectedOf
  <2> QED BY <2>1, <2>2, <2>3, CutRow
<1>8. ASSUME got # {} PROVE Fetched'
  <2>1. DOMAIN rows' = 1..n /\ rows' = [i \in 1..n |-> rows'[i]]
    BY <1>3, <1>6
  <2>2. rows' \in Seq(Rows) /\ 1 \in 1..n
    BY <1>6, <1>7, <1>8, <2>1
  <2>3. rows' # << >>
    <3>1. DOMAIN rows' # {}
      BY <2>1, <2>2
    <3> QED BY <3>1
  <2>4. order \in [DOMAIN rows' -> DOMAIN selected']
    BY <1>4, <1>6, <2>1
  <2>5. \A i \in DOMAIN rows' : \E m \in 0..Len(Columns) : rows'[i] = Cut(selected'[order[i]], m)
    BY <1>4, <1>7, <2>1
  <2>6. \A i, j \in DOMAIN rows' : order[i] = order[j] => i = j
    BY <1>6, <2>1
  <2> QED BY <1>2, <2>2, <2>3, <2>4, <2>5, <2>6 DEF Fetched
<1>9. SelectedOf(pair)'
  BY <1>1, <1>4 DEF SelectedOf
<1> QED BY <1>2, <1>4, <1>8, <1>9 DEF IInv, APIs

(* The inductive invariant of a vessel request's calls. *)
THEOREM Invariance == Spec => []IInv
<1>1. Init => IInv
  BY Initially
<1>2. ASSUME IInv, Next
      PROVE  IInv'
  <2>1. CASE QueryContext
    <3>1. source = "database"
      BY <1>2, <2>1 DEF IInv, QueryContext
    <3> QED BY <1>2, <2>1, <3>1, QueryFetches
  <2>2. CASE Assemble
    <3>1. /\ source = "database" /\ pc = "assemble" /\ pc' = "done"
          /\ UNCHANGED <<source, document, selected, rows>>
          /\ result' = ConstructAPIResult(rows)
      BY <1>2, <2>2 DEF IInv, Assemble
    <3>2. Fetched' /\ \E pair : SelectedOf(pair)'
      BY <1>2, <3>1 DEF IInv, Fetched, SelectedOf
    <3>3. result' = ConstructAPIResult(rows)'
      BY <3>1 DEF ConstructAPIResult
    <3> QED BY <1>2, <3>1, <3>2, <3>3 DEF IInv
  <2>3. CASE GenerateSchedule
    <3>1. /\ source # "database" /\ document \in Documents
          /\ UNCHANGED <<source, document, selected, rows>>
          /\ pc' \in {"failed", "crashed", "done"}
      BY <1>2, <2>3 DEF IInv, GenerateSchedule
    <3>2. pc' = "done" => result'.calls \in GenerateVesselCalls(source, document)
      BY <2>3 DEF GenerateSchedule
    <3> QED BY <1>2, <3>1, <3>2 DEF IInv
  <2> QED BY <1>2, <2>1, <2>2, <2>3 DEF Next
<1>3. IInv /\ UNCHANGED vars => IInv'
  <2>1. ASSUME IInv, UNCHANGED vars PROVE IInv'
    <3>1. UNCHANGED <<source, document, selected, rows, result, pc>>
      BY <2>1 DEF vars
    <3>2. (Fetched => Fetched') /\ \A pair : SelectedOf(pair) => SelectedOf(pair)'
      BY <3>1 DEF Fetched, SelectedOf
    <3>3. ConstructAPIResult(rows)' = ConstructAPIResult(rows)
      BY <3>1
    <3> QED BY <2>1, <3>1, <3>2, <3>3 DEF IInv
  <2> QED BY <2>1
<1> QED BY <1>1, <1>2, <1>3, PTL DEF Spec

-----------------------------------------------------------------------------
(* The calls from the database. *)

(* A stop overlaps if it is in two rows. *)
LEMMA Overlapped ==
  ASSUME NEW S, NEW rs \in Seq(S), NEW k
  PROVE  k \in FindOverlappedPorts(rs) <=>
           \E i, j \in DOMAIN rs : i # j /\ Key(rs[i]) = k /\ Key(rs[j]) = k
<1> DEFINE I == {i \in DOMAIN rs : Key(rs[i]) = k}
<1>1. k \in FindOverlappedPorts(rs) <=> I # {} /\ Cardinality(I) > 1
  BY DEF FindOverlappedPorts
<1>2. IsFiniteSet(I)
  <2>1. IsFiniteSet(1..Len(rs)) /\ I \in SUBSET (1..Len(rs))
    <3>1. Len(rs) \in Nat /\ DOMAIN rs = 1..Len(rs)
      OBVIOUS
    <3>2. 1 \in Int /\ Len(rs) \in Int
      BY <3>1
    <3> QED BY <3>1, <3>2, FS_Interval
  <2> HIDE DEF I
  <2> QED BY <2>1, FS_Subset
<1>3. Cardinality(I) \in Nat
  BY <1>2, FS_CardinalityType
<1>4. (Cardinality(I) = 0 <=> I = {}) /\ (Cardinality(I) = 1 <=> \E x : I = {x})
  BY <1>2, FS_EmptySet, FS_Singleton
<1>5. ASSUME NEW i \in DOMAIN rs, NEW j \in DOMAIN rs, i # j, Key(rs[i]) = k, Key(rs[j]) = k
      PROVE  I # {} /\ Cardinality(I) > 1
  <2>1. i \in I /\ j \in I
    BY <1>5
  <2> HIDE DEF I
  <2>2. Cardinality(I) # 0 /\ Cardinality(I) # 1
    BY <1>4, <1>5, <2>1
  <2> QED BY <1>3, <2>1, <2>2
<1>6. ASSUME I # {}, Cardinality(I) > 1
      PROVE  \E i, j \in DOMAIN rs : i # j /\ Key(rs[i]) = k /\ Key(rs[j]) = k
  <2>1. PICK i \in I : TRUE
    BY <1>6
  <2>2. I # {i}
    BY <1>4, <1>6
  <2>3. PICK j \in I : j # i
    BY <2>1, <2>2
  <2> QED BY <2>1, <2>3
<1> HIDE DEF I
<1> QED BY <1>1, <1>5, <1>6

(* What RemoveDuplicates numbers. *)
Final(rs) ==
  IF FindOverlappedPorts(rs) = {} THEN ConstructPortCalls(rs)
  ELSE FirstOccurrences(ConstructPortCalls(rs))

LEMMA FinalCalls ==
  ASSUME NEW S, NEW rs \in Seq(S)
  PROVE  /\ Len(Final(rs)) \in Nat /\ DOMAIN Final(rs) = 1..Len(Final(rs))
         /\ Selects(Final(rs), ConstructPortCalls(rs), DOMAIN rs)
         /\ \A j, k \in DOMAIN Final(rs) : Final(rs)[j].stop = Final(rs)[k].stop => j = k
<1> DEFINE calls == ConstructPortCalls(rs)
           final == Final(rs)
           P == {PortCall(rs, rs[i]) : i \in DOMAIN rs}
<1>1. DOMAIN rs = 1..Len(rs) /\ Len(rs) \in Nat
  OBVIOUS
<1>2. /\ calls \in Seq(P) /\ DOMAIN calls = DOMAIN rs
      /\ \A i \in DOMAIN rs : calls[i] = PortCall(rs, rs[i]) /\ calls[i].stop = Key(rs[i])
  BY <1>1 DEF ConstructPortCalls, PortCall
<1> HIDE DEF calls, P, final
<1>3. ASSUME NEW i \in DOMAIN rs, NEW j \in DOMAIN rs, i # j, Key(rs[i]) = Key(rs[j])
      PROVE  FindOverlappedPorts(rs) # {} /\ calls[i] = calls[j]
  <2>1. Key(rs[i]) \in FindOverlappedPorts(rs)
    BY <1>3, Overlapped
  <2>2. PortCall(rs, rs[i]) = PortCall(rs, rs[j])
    BY <1>3, <2>1 DEF PortCall
  <2> QED BY <1>2, <2>1, <2>2
<1>4. CASE FindOverlappedPorts(rs) = {}
  <2>1. final = calls
    BY <1>4 DEF final, Final, calls
  <2>2. Selects(calls, calls, DOMAIN rs)
    BY <1>2 DEF Selects
  <2>3. \A j, k \in DOMAIN calls : calls[j].stop = calls[k].stop => j = k
    BY <1>2, <1>3, <1>4
  <2>4. Len(calls) \in Nat /\ DOMAIN calls = 1..Len(calls)
    BY <1>2
  <2> QED BY <2>1, <2>2, <2>3, <2>4 DEF final, calls
<1>5. CASE FindOverlappedPorts(rs) # {}
  <2>1. final = FirstOccurrences(calls)
    BY <1>5 DEF final, Final, calls
  <2>2. final \in Seq(P) /\ Deduplicates(final, calls)
    BY <1>2, <2>1, FirstOccurrencesDeduplicates
  <2>3. Selects(final, calls, DOMAIN rs)
    BY <1>2, <2>2 DEF Deduplicates
  <2>4. Len(final) \in Nat /\ DOMAIN final = 1..Len(final)
    BY <2>2
  <2>5. ASSUME NEW j \in DOMAIN final, NEW k \in DOMAIN final, final[j].stop = final[k].stop
        PROVE  j = k
    <3>1. PICK a \in DOMAIN rs : final[j] = calls[a]
      BY <2>3 DEF Selects
    <3>2. PICK b \in DOMAIN rs : final[k] = calls[b]
      BY <2>3 DEF Selects
    <3>3. Key(rs[a]) = Key(rs[b])
      BY <1>2, <2>5, <3>1, <3>2
    <3>4. calls[a] = calls[b]
      BY <1>3, <3>3
    <3> QED BY <2>2, <3>1, <3>2, <3>4 DEF Deduplicates
  <2> QED BY <2>3, <2>4, <2>5 DEF final, calls
<1> QED BY <1>4, <1>5

LEMMA ResultCalls ==
  ASSUME NEW rs
  PROVE  /\ DOMAIN ConstructAPIResult(rs).calls = DOMAIN Final(rs)
         /\ ConstructAPIResult(rs).calls = [i \in DOMAIN Final(rs) |-> [seq |-> i, call |-> Final(rs)[i]]]
         /\ \A i \in DOMAIN Final(rs) : /\ ConstructAPIResult(rs).calls[i].seq = i
                                        /\ ConstructAPIResult(rs).calls[i].call = Final(rs)[i]
BY DEF ConstructAPIResult, RemoveDuplicates, Final

(* Before the theorems: a delivered result, in terms of the rows. *)
LEMMA Database ==
  ASSUME IInv, FromDatabase
  PROVE  /\ rows \in Seq(Rows)
         /\ result = ConstructAPIResult(rows)
         /\ Len(rows) \in Nat /\ DOMAIN rows = 1..Len(rows) /\ 1 \in DOMAIN rows
         /\ \A i, j \in DOMAIN rows : i < j => rows[i].time <= rows[j].time
         /\ Calls = {PortCall(rows, rows[i]) : i \in DOMAIN rows}
         /\ \A i \in DOMAIN rows :
              \E q \in ToSet(selected) : rows[i] \in {q, [q EXCEPT !.time = 0]}
<1>1. result = ConstructAPIResult(rows) /\ Fetched
  BY DEF IInv, FromDatabase, Delivered
<1>2. /\ rows \in Seq(Rows) /\ DOMAIN rows = 1..Len(rows) /\ Len(rows) \in Nat
      /\ 1 \in DOMAIN rows
  BY <1>1 DEF Fetched
<1>3. ASSUME NEW i \in DOMAIN rows, NEW j \in DOMAIN rows, i < j
      PROVE  rows[i].time <= rows[j].time
  <2>1. i \in 1..j - 1
    BY <1>2, <1>3
  <2>2. NotAfter(rows[i], rows[j])
    BY <1>1, <2>1 DEF Fetched, Sorted
  <2>3. rows[i] \in Rows /\ rows[j] \in Rows
    BY <1>2
  <2>4. rows[i].time \in Nat /\ rows[j].time \in Nat
    BY <2>3 DEF Rows
  <2> QED BY <2>2, <2>4 DEF NotAfter
<1>4. /\ Selects(Final(rows), ConstructPortCalls(rows), DOMAIN rows)
      /\ \A i \in DOMAIN rows : ConstructPortCalls(rows)[i] = PortCall(rows, rows[i])
  BY <1>2, FinalCalls DEF ConstructPortCalls
<1>5. Calls = {Final(rows)[i] : i \in DOMAIN Final(rows)}
  <2> DEFINE r == ConstructAPIResult(rows)
  <2>1. /\ DOMAIN r.calls = DOMAIN Final(rows)
        /\ \A i \in DOMAIN Final(rows) : r.calls[i].call = Final(rows)[i]
    BY ResultCalls
  <2>2. result = r
    BY <1>1
  <2> HIDE DEF r
  <2> QED BY <2>1, <2>2 DEF Calls
<1>6. Calls = {PortCall(rows, rows[i]) : i \in DOMAIN rows}
  BY <1>4, <1>5 DEF Selects
<1>7. ASSUME NEW i \in DOMAIN rows
      PROVE  \E q \in ToSet(selected) : rows[i] \in {q, [q EXCEPT !.time = 0]}
  <2>1. PortCall(rows, rows[i]).stop.event = rows[i].event
    BY DEF PortCall, Key
  <2>2. PICK j \in DOMAIN result.calls : result.calls[j].call = PortCall(rows, rows[i])
    BY <1>6 DEF Calls
  <2>3. rows[i].event # ""
    BY <2>1, <2>2 DEF FromDatabase, Delivered, Valid
  <2>4. PICK order \in [DOMAIN rows -> DOMAIN selected] :
          \A k \in DOMAIN rows : \E n \in 0..Len(Columns) : rows[k] = Cut(selected[order[k]], n)
    BY <1>1 DEF Fetched
  <2>5. PICK n \in 0..Len(Columns) : rows[i] = Cut(selected[order[i]], n)
    BY <2>4
  <2>6. order[i] \in DOMAIN selected /\ selected[order[i]] \in ToSet(selected)
    BY DEF ToSet
  <2>7. selected[order[i]] \in Rows
    <3>1. selected \in Seq(Rows)
      BY DEF IInv, FromDatabase, SelectedOf
    <3> QED BY <2>6, <3>1
  <2>8. Cut(selected[order[i]], n) \in {selected[order[i]], [selected[order[i]] EXCEPT !.time = 0]}
    BY <2>3, <2>5, <2>7, CutRow
  <2> QED BY <2>5, <2>6, <2>8
<1> QED BY <1>1, <1>2, <1>3, <1>6, <1>7

(* The result lists each stop of the rows that arrived once and only once,   *)
(* and each of those rows is one the query selected, its time aside.         *)
LEMMA StopsListedOnce ==
  ASSUME IInv, FromDatabase
  PROVE  OneCallPerStop
<1> DEFINE Keys == {Key(rows[i]) : i \in DOMAIN rows}
           final == Final(rows)
           n == Len(final)
           stopAt == [i \in 1..n |-> final[i].stop]
<1>1. {c.stop : c \in Calls} = Keys
  <2>1. Calls = {PortCall(rows, rows[i]) : i \in DOMAIN rows}
    BY Database
  <2>2. \A i \in DOMAIN rows : PortCall(rows, rows[i]).stop = Key(rows[i])
    BY DEF PortCall
  <2> QED BY <2>1, <2>2
<1>2. /\ n \in Nat /\ DOMAIN final = 1..n
      /\ Selects(final, ConstructPortCalls(rows), DOMAIN rows)
      /\ \A j, k \in DOMAIN final : final[j].stop = final[k].stop => j = k
  BY Database, FinalCalls
<1>3. \A i \in DOMAIN rows : ConstructPortCalls(rows)[i].stop = Key(rows[i])
  BY DEF ConstructPortCalls, PortCall
<1> HIDE DEF final, n
<1>4. Len(result.calls) = n
  <2>1. result.calls = [i \in DOMAIN final |-> [seq |-> i, call |-> final[i]]]
    BY Database, ResultCalls DEF final
  <2> QED BY <1>2, <2>1
<1>5. stopAt \in Bijection(1..n, Keys)
  <2>1. \A i \in 1..n : stopAt[i] \in Keys
    BY <1>2, <1>3 DEF Selects
  <2>2. ASSUME NEW k \in Keys PROVE \E j \in 1..n : stopAt[j] = k
    <3>1. PICK i \in DOMAIN rows : k = Key(rows[i])
      OBVIOUS
    <3>2. PICK j \in 1..n : final[j] = ConstructPortCalls(rows)[i]
      BY <1>2 DEF Selects
    <3>3. stopAt[j] = final[j].stop
      OBVIOUS
    <3> HIDE DEF stopAt
    <3> QED BY <1>3, <3>1, <3>2, <3>3
  <2>3. \A i, j \in 1..n : stopAt[i] = stopAt[j] => i = j
    BY <1>2
  <2>4. DOMAIN stopAt = 1..n /\ stopAt = [i \in 1..n |-> stopAt[i]]
    OBVIOUS
  <2> HIDE DEF stopAt, Keys
  <2>5. stopAt \in [1..n -> Keys]
    BY <2>1, <2>4
  <2> QED BY <2>2, <2>3, <2>4, <2>5 DEF Bijection, Injection, Surjection, IsInjective
<1>6. Cardinality(Keys) = n
  <2> HIDE DEF stopAt, Keys
  <2>1. ExistsBijection(1..n, Keys)
    BY <1>5 DEF ExistsBijection
  <2> QED BY <1>2, <2>1, FS_CountingElements
<1>7. \A i \in DOMAIN rows : \E q \in ToSet(selected) : rows[i] \in {q, [q EXCEPT !.time = 0]}
  BY Database
<1> QED BY <1>1, <1>4, <1>6, <1>7 DEF OneCallPerStop

(* A result that is sent lists each stop once and only once. *)
THEOREM StopsOnce == Spec => []OneCallPerStop
<1>1. IInv => OneCallPerStop
  BY StopsListedOnce DEF OneCallPerStop
<1> QED BY <1>1, Invariance, PTL

-----------------------------------------------------------------------------
(* The voyages of a call. *)

(* The first voyage and, if there is one, the first other. *)
LEMMA NextVoyage ==
  ASSUME NEW S, NEW rs \in Seq(S), 1 \in DOMAIN rs
  PROVE  /\ \A i \in DOMAIN rs : rs[i].num # rs[1].num => UniqueVoyageNumbers(rs) # << >>
         /\ UniqueVoyageNumbers(rs) # << >> =>
              \E i \in DOMAIN rs : rs[i].num = UniqueVoyageNumbers(rs)[1] /\ rs[i].num # rs[1].num
<1> DEFINE nums == [i \in DOMAIN rs |-> rs[i].num]
           N == {rs[i].num : i \in DOMAIN rs}
           I == {n \in DOMAIN nums : nums[n] # nums[1] /\ \A m \in 1..n - 1 : nums[m] # nums[n]}
           next == UniqueVoyageNumbers(rs)
<1>1. Len(rs) \in Nat /\ DOMAIN rs = 1..Len(rs)
  OBVIOUS
<1>2. nums \in Seq(N) /\ DOMAIN nums = DOMAIN rs /\ \A i \in DOMAIN rs : nums[i] = rs[i].num
  BY <1>1
<1>3. next = ElementsAt(nums, I)
  BY DEF UniqueVoyageNumbers
<1>4. next \in Seq(N) /\ Selects(next, nums, I)
  <2>1. I \in SUBSET DOMAIN nums
    OBVIOUS
  <2> HIDE DEF I, N, nums, next
  <2> QED BY <1>2, <1>3, <2>1, ElementsAtSelects
<1>5. ASSUME NEW i \in DOMAIN rs, rs[i].num # rs[1].num PROVE next # << >>
  <2> DEFINE Same == {n \in 1..Len(rs) : rs[n].num = rs[i].num}
  <2>1. PICK first \in Same : \A n \in Same : first <= n
    <3>1. Same \in SUBSET Nat /\ i \in Same
      BY <1>1, <1>5
    <3> HIDE DEF Same
    <3> QED BY <3>1, LeastElement
  <2>2. \A m \in 1..first - 1 : m \in 1..Len(rs) /\ m \notin Same
    BY <1>1, <2>1
  <2>3. first \in I
    BY <1>1, <1>2, <1>5, <2>1, <2>2
  <2>4. \E j \in DOMAIN next : next[j] = nums[first]
    <3> HIDE DEF I, nums, next
    <3> QED BY <1>4, <2>3 DEF Selects
  <2> QED BY <2>4
<1>6. ASSUME next # << >>
      PROVE  \E i \in DOMAIN rs : rs[i].num = next[1] /\ rs[i].num # rs[1].num
  <2>1. 1 \in DOMAIN next
    <3> HIDE DEF next
    <3> QED BY <1>4, <1>6
  <2>2. PICK i \in I : next[1] = nums[i]
    <3> HIDE DEF next, I, nums
    <3> QED BY <1>4, <2>1 DEF Selects
  <2> HIDE DEF next
  <2> QED BY <1>2, <2>2
<1> QED BY <1>5, <1>6

LEMMA RowsOfPair ==
  ASSUME NEW pair, SelectedOf(pair), NEW r, NEW q \in ToSet(selected),
         r \in {q, [q EXCEPT !.time = 0]}
  PROVE  OfVoyage(r, pair[1]) \/ OfVoyage(r, pair[2])
<1>1. q \in Rows /\ (OfVoyage(q, pair[1]) \/ OfVoyage(q, pair[2]))
  <2>1. PICK i \in DOMAIN selected : q = selected[i]
    BY DEF ToSet
  <2> QED BY <2>1 DEF SelectedOf
<1>2. r.num = q.num /\ r.bound = q.bound /\ r.id = q.id
  BY <1>1 DEF Rows
<1> QED BY <1>1, <1>2 DEF OfVoyage

(* Two rows of a voyage at one stop are equal. *)
LEMMA SameRow ==
  ASSUME NEW r \in Rows, NEW q \in Rows, NEW w, Key(r) = Key(q), OfVoyage(r, w), OfVoyage(q, w)
  PROVE  r = q
<1>1. r.event = q.event /\ r.port = q.port /\ r.time = q.time
  BY DEF Key
<1>2. r.num = q.num /\ r.bound = q.bound /\ r.id = q.id
  BY DEF OfVoyage
<1>3. r = [f \in Fields |-> r[f]] /\ q = [f \in Fields |-> q[f]]
  BY DEF Rows, Fields
<1>4. \A f \in Fields : r[f] = q[f]
  BY <1>1, <1>2 DEF Fields
<1> QED BY <1>3, <1>4

LEMMA PairOf ==
  ASSUME NEW x, NEW y
  PROVE  /\ ToSet(<<x>>) = {x} /\ ToSet(<<x, y>>) = {x, y} /\ Len(<<x>>) = 1 /\ Len(<<x, y>>) = 2
         /\ Cardinality({x}) = 1 /\ (x # y => Cardinality({x, y}) = 2)
<1>1. ToSet(<<x>>) = {x} /\ ToSet(<<x, y>>) = {x, y}
  BY DEF ToSet
<1>2. IsFiniteSet({x}) /\ Cardinality({x}) = 1
  BY FS_Singleton
<1>3. {x, y} = {x} \cup {y}
  OBVIOUS
<1>4. Cardinality({x} \cup {y}) = IF y \in {x} THEN 1 ELSE 1 + 1
  BY <1>2, FS_AddElement
<1> QED BY <1>1, <1>2, <1>3, <1>4

(* Every bound and every key of the rows is among the unique ones. *)
LEMMA UniqueOfEach ==
  ASSUME NEW i \in DOMAIN rows, rows \in Seq(Rows)
  PROVE  rows[i].bound \in ToSet(UniqueBounds(rows)) /\ rows[i].id \in ToSet(UniqueKeys(rows))
<1> DEFINE bounds == [k \in DOMAIN rows |-> rows[k].bound]
           ids == [k \in DOMAIN rows |-> rows[k].id]
<1>1. Len(rows) \in Nat /\ DOMAIN rows = 1..Len(rows)
  OBVIOUS
<1>2. \A k \in DOMAIN rows : rows[k].bound \in Nat /\ rows[k].id \in Nat
  <2>1. ASSUME NEW k \in DOMAIN rows PROVE rows[k] \in Rows
    OBVIOUS
  <2> QED BY <2>1 DEF Rows
<1>3. /\ bounds \in Seq(Nat) /\ DOMAIN bounds = DOMAIN rows /\ bounds[i] = rows[i].bound
      /\ ids \in Seq(Nat) /\ DOMAIN ids = DOMAIN rows /\ ids[i] = rows[i].id
  BY <1>1, <1>2
<1>4. UniqueBounds(rows) = FirstOccurrences(bounds) /\ UniqueKeys(rows) = FirstOccurrences(ids)
  BY DEF UniqueBounds, UniqueKeys
<1> HIDE DEF bounds, ids
<1>5. Deduplicates(FirstOccurrences(bounds), bounds) /\ Deduplicates(FirstOccurrences(ids), ids)
  BY <1>3, FirstOccurrencesDeduplicates
<1> QED BY <1>3, <1>4, <1>5 DEF Deduplicates, Selects, ToSet

LEMMA VoyagesNamed ==
  ASSUME IInv, FromDatabase
  PROVE  CallsNameTheirVoyages
<1> DEFINE next == UniqueVoyageNumbers(rows)
           first == rows[1].num
<1>1. PICK pair : SelectedOf(pair)
  BY DEF IInv, FromDatabase
<1>2. /\ Calls = {PortCall(rows, rows[i]) : i \in DOMAIN rows} /\ 1 \in DOMAIN rows
      /\ rows \in Seq(Rows) /\ result = ConstructAPIResult(rows)
  BY Database
<1>3. ASSUME NEW i \in DOMAIN rows
      PROVE  rows[i] \in Rows /\ (OfVoyage(rows[i], pair[1]) \/ OfVoyage(rows[i], pair[2]))
  <2>1. PICK q \in ToSet(selected) : rows[i] \in {q, [q EXCEPT !.time = 0]}
    BY Database
  <2> QED BY <1>1, <1>2, <2>1, RowsOfPair
<1>4. /\ \A i \in DOMAIN rows : rows[i].num # first => next # << >>
      /\ next # << >> => \E i \in DOMAIN rows : rows[i].num = next[1] /\ rows[i].num # first
  BY <1>2, NextVoyage
<1> HIDE DEF next
<1>5. \A i \in DOMAIN rows : next = << >> => rows[i].num = first
  BY <1>4
<1>6. \A i \in DOMAIN rows : next # << >> => rows[i].num \in {first, next[1]} /\ next[1] # first
  <2> DEFINE P == {pair[1].num, pair[2].num}
  <2>1. \A j \in DOMAIN rows : rows[j].num \in P
    BY <1>3 DEF OfVoyage
  <2>2. first \in P /\ (next # << >> => next[1] \in P /\ next[1] # first)
    BY <1>2, <1>4, <2>1 DEF first
  <2> QED BY <2>1, <2>2
<1>7. ASSUME NEW i \in DOMAIN rows
      PROVE  LET c == PortCall(rows, rows[i])
             IN  /\ \A j \in RowsAt(c.stop) : /\ rows[j].num \in ToSet(c.voyage)
                                              /\ rows[j].bound \in ToSet(c.bound)
                                              /\ rows[j].id \in ToSet(c.key)
                 /\ Len(c.voyage) = Cardinality(ToSet(c.voyage))
                 /\ (\A j, k \in RowsAt(c.stop) : rows[j] = rows[k] => j = k) =>
                      ToSet(c.voyage) = {rows[j].num : j \in RowsAt(c.stop)}
  <2> DEFINE c == PortCall(rows, rows[i])
             k == Key(rows[i])
             At == RowsAt(k)
  <2>1. c.stop = k
    BY DEF PortCall
  <2>2. i \in At /\ \A j \in At : j \in DOMAIN rows /\ Key(rows[j]) = k
    BY DEF RowsAt
  <2>3. CASE k \notin FindOverlappedPorts(rows)
    <3>1. c.voyage = <<rows[i].num>> /\ c.bound = <<rows[i].bound>> /\ c.key = <<rows[i].id>>
      BY <2>3 DEF PortCall
    <3>2. \A j \in At : j = i
      BY <1>2, <2>2, <2>3, Overlapped
    <3>3. At = {i}
      <4> HIDE DEF At
      <4> QED BY <2>2, <3>2
    <3>4. /\ ToSet(c.voyage) = {rows[i].num} /\ ToSet(c.bound) = {rows[i].bound}
          /\ ToSet(c.key) = {rows[i].id} /\ Len(c.voyage) = Cardinality({rows[i].num})
      BY <3>1, PairOf
    <3>5. {rows[j].num : j \in At} = {rows[i].num}
      BY <3>3
    <3> HIDE DEF c, k, At
    <3> QED BY <2>1, <3>3, <3>4, <3>5 DEF c, At
  <2>4. CASE k \in FindOverlappedPorts(rows)
    <3>1. /\ c.voyage = IF next = << >> THEN <<first>> ELSE <<first, next[1]>>
          /\ c.bound = UniqueBounds(rows) /\ c.key = UniqueKeys(rows)
      BY <2>4 DEF PortCall, next
    <3>2. ASSUME NEW j \in At
          PROVE  rows[j].bound \in ToSet(c.bound) /\ rows[j].id \in ToSet(c.key)
      BY <1>2, <2>2, <3>1, UniqueOfEach
    <3>3. PICK a \in DOMAIN rows, b \in DOMAIN rows : a # b /\ Key(rows[a]) = k /\ Key(rows[b]) = k
      BY <1>2, <2>4, Overlapped
    <3>4. a \in At /\ b \in At
      BY <3>3 DEF RowsAt
    <3>5. ASSUME \A j, m \in At : rows[j] = rows[m] => j = m
          PROVE  {rows[a].num, rows[b].num} = {pair[1].num, pair[2].num}
      <4>1. rows[a] # rows[b]
        BY <3>3, <3>4, <3>5
      <4>2. \A w : ~(OfVoyage(rows[a], w) /\ OfVoyage(rows[b], w))
        BY <1>3, <3>3, <4>1, SameRow
      <4> QED BY <1>3, <4>2 DEF OfVoyage
    <3>6. \A j \in At : rows[j].num \in {pair[1].num, pair[2].num}
      BY <1>3, <2>2 DEF OfVoyage
    <3>7. first \in {pair[1].num, pair[2].num}
      BY <1>2, <1>3 DEF OfVoyage, first
    <3> HIDE DEF c, k, At, first
    <3>8. CASE next = << >>
      <4>1. ToSet(c.voyage) = {first} /\ Len(c.voyage) = Cardinality(ToSet(c.voyage))
        BY <3>1, <3>8, PairOf
      <4>2. \A j \in At : rows[j].num = first
        BY <1>5, <2>2, <3>8
      <4>3. {rows[j].num : j \in At} = {first}
        BY <3>4, <4>2
      <4> QED BY <2>1, <3>2, <4>1, <4>2, <4>3 DEF c, At
    <3>9. CASE next # << >>
      <4>1. ToSet(c.voyage) = {first, next[1]} /\ Len(c.voyage) = Cardinality(ToSet(c.voyage))
        <5>1. next[1] # first
          BY <1>2, <1>6, <3>9
        <5>2. c.voyage = <<first, next[1]>>
          BY <3>1, <3>9
        <5>3. /\ ToSet(c.voyage) = {first, next[1]} /\ Len(c.voyage) = 2
              /\ Cardinality({first, next[1]}) = 2
          BY <5>1, <5>2, PairOf
        <5> QED BY <5>3
      <4>2. \A j \in At : rows[j].num \in {first, next[1]}
        BY <1>6, <2>2, <3>9
      <4>3. ASSUME \A j, m \in At : rows[j] = rows[m] => j = m
            PROVE  {rows[j].num : j \in At} = {first, next[1]}
        <5>1. {rows[a].num, rows[b].num} = {pair[1].num, pair[2].num}
          BY <3>5, <4>3
        <5>2. \E d \in DOMAIN rows : rows[d].num = next[1]
          BY <1>4, <3>9
        <5>3. next[1] \in {pair[1].num, pair[2].num}
          BY <1>3, <5>2 DEF OfVoyage
        <5> QED BY <3>4, <3>7, <4>2, <5>1, <5>3
      <4> QED BY <2>1, <3>2, <4>1, <4>2, <4>3 DEF c, At
    <3> QED BY <3>8, <3>9
  <2> QED BY <2>3, <2>4
<1>8. result.next # result.voyage
  <2>1. result.voyage = first /\ result.next = IF next = << >> THEN 0 ELSE next[1]
    BY <1>2 DEF ConstructAPIResult, next
  <2>2. result.voyage # 0
    BY DEF FromDatabase, Delivered, Valid
  <2> QED BY <1>4, <2>1, <2>2
<1> QED BY <1>2, <1>7, <1>8 DEF CallsNameTheirVoyages

(* A call names every voyage that makes it, with its bound and key, and none *)
(* twice; and no other voyage, unless rows of one voyage came twice for it.  *)
THEOREM VoyagesOfCalls == Spec => []CallsNameTheirVoyages
<1>1. IInv => CallsNameTheirVoyages
  BY VoyagesNamed DEF CallsNameTheirVoyages
<1> QED BY <1>1, Invariance, PTL

-----------------------------------------------------------------------------
(* The calls from an API. *)

Voyage(api, call, type) == IF api = "cma" THEN call.export ELSE VoyageOf(call, type)

(* What is listed as one call is from one call of the answer. *)
FromCall(api, c, call, type) ==
  /\ c.stop.port = call.port /\ c.stop.event = PortEvent(type)
  /\ c.voyage = <<Voyage(api, call, type)>>
  /\ c.stop.time \in Nat
  /\ c.stop.time = 0 \/ \E e \in ToSet(call.events) : e.type = type /\ e.time = c.stop.time

(* The only event of its kind that a call states, with an estimated date. *)
OnlyEvent(call, e) ==
  /\ e \in ToSet(call.events)
  /\ e.type \in {"ARRI", "DEPA"} /\ e.class = "EST" /\ e.time # 0
  /\ VoyageOf(call, e.type) # 0
  /\ \A other \in ToSet(call.events) : other.type = e.type => other = e

(* cs lists each such event, and nothing that is not of the call. *)
Lists(api, cs, call) ==
  /\ Len(cs) \in Nat /\ DOMAIN cs = 1..Len(cs) /\ cs = [j \in 1..Len(cs) |-> cs[j]]
  /\ \A j \in DOMAIN cs : \E type : FromCall(api, cs[j], call, type)
  /\ \A e : OnlyEvent(call, e) =>
       \E j \in DOMAIN cs : cs[j].stop = [event |-> PortEvent(e.type), port |-> call.port, time |-> e.time]

LEMMA Events ==
  ASSUME NEW call \in WireCalls
  PROVE  /\ Len(call.events) \in Nat /\ DOMAIN call.events = 1..Len(call.events)
         /\ \A e \in ToSet(call.events) : e.time \in Nat
         /\ ToSet(call.events) = {call.events[i] : i \in DOMAIN call.events}
<1>1. call.events \in Seq(WireEvents)
  BY DEF WireCalls
<1>2. ASSUME NEW i \in DOMAIN call.events PROVE call.events[i].time \in Nat
  <2>1. call.events[i] \in WireEvents
    BY <1>1
  <2> QED BY <2>1 DEF WireEvents
<1> QED BY <1>1, <1>2 DEF ToSet

LEMMA DateStated ==
  ASSUME NEW call \in WireCalls, NEW type, NEW classes
  PROVE  /\ Date(call, type, classes) \in Nat
         /\ Date(call, type, classes) = 0
            \/ \E e \in ToSet(call.events) : e.type = type /\ e.time = Date(call, type, classes)
         /\ \A e : OnlyEvent(call, e) /\ e.type = type /\ "EST" \in classes =>
              Date(call, type, classes) = e.time
<1> DEFINE stated == {i \in DOMAIN call.events :
                        call.events[i].type = type /\ call.events[i].class \in classes}
           least == CHOOSE i \in stated : \A j \in stated : i <= j
<1>1. /\ DOMAIN call.events \subseteq Nat
      /\ \A e \in ToSet(call.events) : e.time \in Nat
      /\ ToSet(call.events) = {call.events[i] : i \in DOMAIN call.events}
  BY Events
<1>2. CASE stated = {}
  <2>1. Date(call, type, classes) = 0
    BY <1>2 DEF Date
  <2>2. \A e : ~(OnlyEvent(call, e) /\ e.type = type /\ "EST" \in classes)
    BY <1>1, <1>2 DEF OnlyEvent
  <2> QED BY <2>1, <2>2
<1>3. CASE stated # {}
  <2>1. Date(call, type, classes) = call.events[least].time
    BY <1>3 DEF Date
  <2>2. least \in stated
    <3>1. stated \in SUBSET Nat
      BY <1>1
    <3> HIDE DEF stated
    <3> QED BY <1>3, <3>1, LeastElement
  <2> HIDE DEF least
  <2>3. call.events[least] \in ToSet(call.events) /\ call.events[least].type = type
    BY <1>1, <2>2
  <2>4. ASSUME NEW e, OnlyEvent(call, e), e.type = type
        PROVE  call.events[least] = e
    BY <2>3, <2>4 DEF OnlyEvent
  <2> HIDE DEF stated
  <2> QED BY <1>1, <2>1, <2>3, <2>4
<1> QED BY <1>2, <1>3

LEMMA CmaLists ==
  ASSUME NEW call \in WireCalls
  PROVE  Lists("cma", CmaCalls(call), call)
<1> DEFINE cs == CmaCalls(call)
           n == Len(call.events)
           Of(e) == PortCallOf(call, e.type, e.time, call.ref, call.export)
<1>1. /\ n \in Nat /\ DOMAIN call.events = 1..n
      /\ \A e \in ToSet(call.events) : e.time \in Nat
      /\ ToSet(call.events) = {call.events[i] : i \in DOMAIN call.events}
  BY Events
<1>2. cs = [j \in 1..n |-> Of(call.events[(n - j) + 1])]
  <2> DEFINE all == [i \in DOMAIN call.events |-> Of(call.events[i])]
  <2>1. Len(all) = n /\ cs = Reverse(all)
    BY <1>1 DEF CmaCalls
  <2>2. \A j \in 1..n : (n - j) + 1 \in 1..n
    BY <1>1
  <2>3. Reverse(all) = [j \in 1..n |-> all[(n - j) + 1]]
    <3> HIDE DEF all, n
    <3> QED BY <2>1 DEF Reverse
  <2> QED BY <1>1, <2>1, <2>2, <2>3
<1>3. Len(cs) = n /\ DOMAIN cs = 1..n
  BY <1>1, <1>2
<1>4. ASSUME NEW j \in 1..n
      PROVE  \E type : FromCall("cma", cs[j], call, type)
  <2> DEFINE e == call.events[(n - j) + 1]
  <2>1. e \in ToSet(call.events) /\ cs[j] = Of(e)
    <3>1. (n - j) + 1 \in 1..n
      BY <1>1
    <3> HIDE DEF n, Of
    <3> QED BY <1>1, <1>2, <3>1
  <2> HIDE DEF e, cs
  <2>2. FromCall("cma", cs[j], call, e.type)
    BY <1>1, <2>1 DEF FromCall, PortCallOf, Voyage
  <2> QED BY <2>2
<1>5. ASSUME NEW e, OnlyEvent(call, e)
      PROVE  \E j \in 1..n : cs[j].stop = [event |-> PortEvent(e.type), port |-> call.port, time |-> e.time]
  <2>1. PICK i \in 1..n : e = call.events[i]
    BY <1>1, <1>5 DEF OnlyEvent
  <2>2. (n - i) + 1 \in 1..n /\ (n - ((n - i) + 1)) + 1 = i
    BY <1>1
  <2>3. cs[(n - i) + 1] = Of(e)
    BY <1>2, <2>1, <2>2
  <2>4. Of(e).stop = [event |-> PortEvent(e.type), port |-> call.port, time |-> e.time]
    BY DEF PortCallOf
  <2> QED BY <2>2, <2>3, <2>4
<1>6. cs = [j \in 1..n |-> cs[j]]
  BY <1>2
<1> HIDE DEF cs
<1> QED BY <1>1, <1>3, <1>4, <1>5, <1>6 DEF Lists, cs

LEMMA OneLists ==
  ASSUME NEW call \in WireCalls
  PROVE  Lists("one", OneCalls(call), call)
<1> DEFINE Of(type) == PortCallOf(call, type, Date(call, type, {"EST"}), 1, VoyageOf(call, type))
           cs == <<Of("ARRI"), Of("DEPA")>>
<1>1. OneCalls(call) = cs
  BY DEF OneCalls
<1>2. ASSUME NEW type
      PROVE  /\ FromCall("one", Of(type), call, type)
             /\ \A e : OnlyEvent(call, e) /\ e.type = type =>
                  Of(type).stop = [event |-> PortEvent(type), port |-> call.port, time |-> e.time]
  <2> DEFINE date == Date(call, type, {"EST"})
  <2>1. /\ date \in Nat
        /\ date = 0 \/ \E e \in ToSet(call.events) : e.type = type /\ e.time = date
        /\ \A e : OnlyEvent(call, e) /\ e.type = type => date = e.time
    BY DateStated
  <2>2. /\ Of(type).stop = [event |-> PortEvent(type), port |-> call.port, time |-> date]
        /\ Of(type).voyage = <<VoyageOf(call, type)>>
    BY DEF PortCallOf
  <2> HIDE DEF date, Of
  <2> QED BY <2>1, <2>2 DEF FromCall, Voyage
<1>3. \A e : OnlyEvent(call, e) => e.type = "ARRI" \/ e.type = "DEPA"
  BY DEF OnlyEvent
<1> HIDE DEF Of
<1>4. Len(cs) = 2 /\ DOMAIN cs = 1..2 /\ cs[1] = Of("ARRI") /\ cs[2] = Of("DEPA")
      /\ cs = [j \in 1..2 |-> cs[j]]
  OBVIOUS
<1> HIDE DEF cs
<1>5. ASSUME NEW j \in 1..2 PROVE \E type : FromCall("one", cs[j], call, type)
  <2>1. j = 1 \/ j = 2
    OBVIOUS
  <2> QED BY <1>2, <1>4, <2>1
<1>6. ASSUME NEW e, OnlyEvent(call, e)
      PROVE  \E j \in 1..2 : cs[j].stop = [event |-> PortEvent(e.type), port |-> call.port, time |-> e.time]
  <2>1. CASE e.type = "ARRI"
    BY <1>2, <1>4, <1>6, <2>1
  <2>2. CASE e.type = "DEPA"
    BY <1>2, <1>4, <1>6, <2>2
  <2> QED BY <1>3, <1>6, <2>1, <2>2
<1> QED BY <1>1, <1>4, <1>5, <1>6 DEF Lists

LEMMA MaerskLists ==
  ASSUME NEW call \in WireCalls
  PROVE  Lists("maersk", MaerskCalls(call), call)
<1> DEFINE cs == MaerskCalls(call)
           n == Len(call.events)
           Time(e) == IF e.class = "EST" THEN e.time ELSE 0
           Of(e) == PortCallOf(call, e.type, Time(e), 1, VoyageOf(call, e.type))
<1>1. /\ n \in Nat /\ DOMAIN call.events = 1..n
      /\ \A e \in ToSet(call.events) : e.time \in Nat
      /\ ToSet(call.events) = {call.events[i] : i \in DOMAIN call.events}
  BY Events
<1>2. cs = [j \in 1..n |-> Of(call.events[j])]
  BY <1>1 DEF MaerskCalls
<1>3. Len(cs) = n /\ DOMAIN cs = 1..n /\ cs = [j \in 1..n |-> cs[j]]
  BY <1>1, <1>2
<1>4. ASSUME NEW e \in ToSet(call.events)
      PROVE  FromCall("maersk", Of(e), call, e.type)
  <2>1. Time(e) \in Nat /\ (Time(e) = 0 \/ Time(e) = e.time)
    BY <1>1
  <2>2. /\ Of(e).stop = [event |-> PortEvent(e.type), port |-> call.port, time |-> Time(e)]
        /\ Of(e).voyage = <<VoyageOf(call, e.type)>>
    BY DEF PortCallOf
  <2> HIDE DEF Of, Time
  <2> QED BY <2>1, <2>2 DEF FromCall, Voyage
<1>5. ASSUME NEW e, OnlyEvent(call, e)
      PROVE  Of(e).stop = [event |-> PortEvent(e.type), port |-> call.port, time |-> e.time]
  BY <1>5 DEF OnlyEvent, PortCallOf
<1> HIDE DEF cs, Of, n
<1>6. ASSUME NEW j \in 1..n PROVE \E type : FromCall("maersk", cs[j], call, type)
  BY <1>1, <1>2, <1>4
<1>7. ASSUME NEW e, OnlyEvent(call, e)
      PROVE  \E j \in 1..n : cs[j].stop = [event |-> PortEvent(e.type), port |-> call.port, time |-> e.time]
  <2>1. PICK i \in 1..n : e = call.events[i]
    BY <1>1, <1>7 DEF OnlyEvent
  <2>2. cs[i] = Of(e)
    BY <1>2, <2>1
  <2> QED BY <1>5, <1>7, <2>2
<1> QED BY <1>1, <1>3, <1>6, <1>7 DEF Lists, cs

LEMMA HapagLists ==
  ASSUME NEW call \in WireCalls
  PROVE  Lists("hapag", HapagCalls(call), call)
<1> DEFINE Of(type) == PortCallOf(call, type, Date(call, type, {"EST", "PLN"}), call.ref,
                                  VoyageOf(call, type))
           both == <<Of("ARRI"), Of("DEPA")>>
           I == {i \in 1..2 : both[i].voyage # <<0>>}
           cs == ElementsAt(both, I)
           S == {Of("ARRI"), Of("DEPA")}
<1>1. HapagCalls(call) = cs
  BY DEF HapagCalls
<1>2. ASSUME NEW type
      PROVE  /\ FromCall("hapag", Of(type), call, type)
             /\ Of(type).voyage = <<VoyageOf(call, type)>>
             /\ \A e : OnlyEvent(call, e) /\ e.type = type =>
                  Of(type).stop = [event |-> PortEvent(type), port |-> call.port, time |-> e.time]
  <2> DEFINE date == Date(call, type, {"EST", "PLN"})
  <2>1. /\ date \in Nat
        /\ date = 0 \/ \E e \in ToSet(call.events) : e.type = type /\ e.time = date
        /\ \A e : OnlyEvent(call, e) /\ e.type = type => date = e.time
    BY DateStated
  <2>2. /\ Of(type).stop = [event |-> PortEvent(type), port |-> call.port, time |-> date]
        /\ Of(type).voyage = <<VoyageOf(call, type)>>
    BY DEF PortCallOf
  <2> HIDE DEF date, Of
  <2> QED BY <2>1, <2>2 DEF FromCall, Voyage
<1> HIDE DEF Of
<1>3. /\ both \in Seq(S) /\ DOMAIN both = 1..2
      /\ both[1] = Of("ARRI") /\ both[2] = Of("DEPA")
  OBVIOUS
<1> HIDE DEF both, S
<1>4. cs \in Seq(S) /\ Selects(cs, both, I)
  <2>1. I \in SUBSET DOMAIN both
    BY <1>3
  <2> HIDE DEF I
  <2> QED BY <1>3, <2>1, ElementsAtSelects
<1>5. ASSUME NEW i \in 1..2 PROVE \E type : both[i] = Of(type)
  <2>1. i = 1 \/ i = 2
    OBVIOUS
  <2> QED BY <1>3, <2>1
<1> HIDE DEF cs
<1>6. Len(cs) \in Nat /\ DOMAIN cs = 1..Len(cs) /\ cs = [j \in 1..Len(cs) |-> cs[j]]
  BY <1>4
<1>7. ASSUME NEW j \in DOMAIN cs PROVE \E type : FromCall("hapag", cs[j], call, type)
  <2>1. PICK i \in I : cs[j] = both[i]
    BY <1>4 DEF Selects
  <2> QED BY <1>2, <1>5, <2>1
<1>8. ASSUME NEW e, OnlyEvent(call, e)
      PROVE  \E j \in DOMAIN cs :
               cs[j].stop = [event |-> PortEvent(e.type), port |-> call.port, time |-> e.time]
  <2>1. PICK i \in 1..2 : both[i] = Of(e.type)
    <3>1. e.type = "ARRI" \/ e.type = "DEPA"
      BY <1>8 DEF OnlyEvent
    <3>2. 1 \in 1..2 /\ 2 \in 1..2
      OBVIOUS
    <3> QED BY <1>3, <3>1, <3>2
  <2>2. i \in I
    <3>1. VoyageOf(call, e.type) # 0
      BY <1>8 DEF OnlyEvent
    <3>2. <<VoyageOf(call, e.type)>> # <<0>>
      <4>1. \A v : <<v>> = <<0>> => v = 0
        OBVIOUS
      <4> QED BY <3>1, <4>1
    <3> QED BY <1>2, <2>1, <3>2
  <2>3. PICK j \in DOMAIN cs : cs[j] = both[i]
    BY <1>4, <2>2 DEF Selects
  <2> QED BY <1>2, <1>8, <2>1, <2>3
<1> QED BY <1>1, <1>6, <1>7, <1>8 DEF Lists

(* What is listed of a whole answer. *)
ListsAll(api, cs, doc) ==
  /\ Len(cs) \in Nat /\ DOMAIN cs = 1..Len(cs)
  /\ \A j \in DOMAIN cs : \E d \in ToSet(doc) : \E type : FromCall(api, cs[j], d, type)
  /\ \A d \in ToSet(doc) : \A e : OnlyEvent(d, e) =>
       \E j \in DOMAIN cs : /\ cs[j].stop.port = d.port /\ cs[j].stop.time = e.time
                            /\ api # "hapag" => cs[j].stop.event = PortEvent(e.type)

LEMMA GeneratedLists ==
  ASSUME NEW api \in APIs, NEW doc \in Seq(WireCalls)
  PROVE  ListsAll(api, Generated(api, doc), doc) /\ \E S : Generated(api, doc) \in Seq(S)
<1> DEFINE n == Len(doc)
           ss == [i \in DOMAIN doc |-> CallsOf(api, doc[i])]
           S == UNION {{ss[i][j] : j \in DOMAIN ss[i]} : i \in 1..n}
           g == Generated(api, doc)
<1>1. /\ n \in Nat /\ DOMAIN doc = 1..n /\ \A i \in 1..n : doc[i] \in WireCalls
      /\ ToSet(doc) = {doc[i] : i \in 1..n}
  BY DEF ToSet
<1>2. ASSUME NEW i \in 1..n PROVE Lists(api, ss[i], doc[i])
  <2>1. ss[i] = CallsOf(api, doc[i]) /\ doc[i] \in WireCalls
    BY <1>1
  <2> HIDE DEF ss, n
  <2> QED BY <2>1, CmaLists, HapagLists, OneLists, MaerskLists DEF APIs, CallsOf
<1>3. g = FlattenSeq(ss)
  BY DEF Generated
<1>4. DOMAIN ss = 1..n /\ Len(ss) = n /\ ss = [i \in 1..n |-> ss[i]]
  BY <1>1
<1> HIDE DEF ss
<1>5. ss \in Seq(Seq(S))
  <2>1. ASSUME NEW i \in 1..n PROVE ss[i] \in Seq(S)
    <3>1. /\ Len(ss[i]) \in Nat /\ DOMAIN ss[i] = 1..Len(ss[i])
          /\ ss[i] = [j \in 1..Len(ss[i]) |-> ss[i][j]]
      BY <1>2 DEF Lists
    <3>2. \A j \in 1..Len(ss[i]) : ss[i][j] \in S
      BY <3>1
    <3> HIDE DEF S
    <3>3. ss[i] \in [1..Len(ss[i]) -> S]
      BY <3>1, <3>2
    <3> QED BY <3>1, <3>3
  <2> HIDE DEF S, n
  <2>2. ss \in [1..n -> Seq(S)]
    BY <1>4, <2>1
  <2> QED BY <1>1, <2>2 DEF n
<1> HIDE DEF S, g, n
<1>6. g \in Seq(S) /\ Flattens(g, ss, n)
  BY <1>3, <1>4, <1>5, FlattenSeqFlattens
<1>7. ASSUME NEW k \in DOMAIN g
      PROVE  \E d \in ToSet(doc) : \E type : FromCall(api, g[k], d, type)
  <2>1. PICK i \in 1..n : \E j \in DOMAIN ss[i] : g[k] = ss[i][j]
    BY <1>6 DEF Flattens
  <2>2. \E type : FromCall(api, g[k], doc[i], type)
    BY <1>2, <2>1 DEF Lists
  <2> QED BY <1>1, <2>2
<1>8. ASSUME NEW d \in ToSet(doc), NEW e, OnlyEvent(d, e)
      PROVE  \E k \in DOMAIN g : /\ g[k].stop.port = d.port /\ g[k].stop.time = e.time
                                 /\ g[k].stop.event = PortEvent(e.type)
  <2>1. PICK i \in 1..n : d = doc[i]
    BY <1>1
  <2>2. PICK j \in DOMAIN ss[i] :
          ss[i][j].stop = [event |-> PortEvent(e.type), port |-> d.port, time |-> e.time]
    BY <1>2, <1>8, <2>1 DEF Lists
  <2>3. PICK k \in DOMAIN g : g[k] = ss[i][j]
    BY <1>6 DEF Flattens
  <2> QED BY <2>2, <2>3
<1>9. Len(g) \in Nat /\ DOMAIN g = 1..Len(g)
  BY <1>6
<1> QED BY <1>6, <1>7, <1>8, <1>9 DEF ListsAll, g

(* One call at each port and time that occurs, in the order of their times. *)
LEMMA DuplicatesRemoved ==
  ASSUME NEW S, NEW calls \in Seq(S), \A c \in S : c.stop.time \in Nat,
         NEW order \in Orders(calls)
  PROVE  LET kept == SortAndRemoveDuplicates(calls, order)
         IN  /\ kept \in Seq(S)
             /\ \A j \in DOMAIN kept : \E i \in DOMAIN calls : kept[j] = calls[i]
             /\ \A i \in DOMAIN calls : \E j \in DOMAIN kept : SameStop(kept[j], calls[i])
             /\ \A j, k \in DOMAIN kept : j < k => kept[j].stop.time <= kept[k].stop.time
<1> DEFINE n == Len(calls)
           sorted == [i \in DOMAIN order |-> calls[order[i]]]
           I == {i \in DOMAIN sorted : \A m \in 1..i - 1 : ~SameStop(sorted[m], sorted[i])}
           kept == ElementsAt(sorted, I)
           time == [i \in 1..n |-> sorted[i].stop.time]
<1>1. n \in Nat /\ DOMAIN calls = 1..n
  OBVIOUS
<1>2. SortAndRemoveDuplicates(calls, order) = kept
  BY DEF SortAndRemoveDuplicates
<1>3. /\ order \in [1..n -> 1..n]
      /\ \A x \in 1..n : \E i \in 1..n : order[i] = x
  <2>1. order \in SetToSeqs(1..n)
    BY <1>1 DEF Orders
  <2>2. IsFiniteSet(1..n) /\ Cardinality(1..n) = n
    <3> HIDE DEF n
    <3>1. 1 \in Int /\ n \in Int
      BY <1>1
    <3>2. IsFiniteSet(1..n) /\ Cardinality(1..n) = IF 1 > n THEN 0 ELSE n - 1 + 1
      BY <3>1, FS_Interval
    <3> QED BY <1>1, <3>2
  <2> DEFINE D == 1..n
  <2> HIDE DEF n, D
  <2>3. /\ order \in [1..Cardinality(D) -> D]
        /\ \A x \in D : \E i \in 1..Cardinality(D) : order[i] = x
    BY <2>1, <2>2, Arrangement DEF D
  <2>4. Cardinality(D) = n
    BY <2>2 DEF D
  <2>5. order \in [1..n -> D] /\ \A x \in D : \E i \in 1..n : order[i] = x
    BY <2>3, <2>4
  <2> QED BY <2>5 DEF D
<1>4. \A i \in 2..n : calls[order[i - 1]].stop.time <= calls[order[i]].stop.time
  <2>1. Len(order) = n
    BY <1>1, <1>3
  <2> QED BY <2>1 DEF Orders
<1>5. /\ sorted \in Seq(S) /\ DOMAIN sorted = 1..n
      /\ \A i \in 1..n : sorted[i] = calls[order[i]] /\ sorted[i].stop.time \in Nat
  <2>1. sorted = [i \in 1..n |-> calls[order[i]]]
    BY <1>3
  <2>2. \A i \in 1..n : calls[order[i]] \in S
    BY <1>1, <1>3
  <2> HIDE DEF sorted
  <2>3. sorted \in [1..n -> S]
    BY <2>1, <2>2
  <2> QED BY <1>1, <2>1, <2>2, <2>3
<1> HIDE DEF sorted
<1>6. I \in SUBSET (1..n)
  BY <1>5
<1>7. kept \in Seq(S) /\ Selects(kept, sorted, I)
  <2> HIDE DEF I
  <2> QED BY <1>5, <1>6, ElementsAtSelects
<1>8. ASSUME NEW j \in 1..n, NEW k \in 1..n, j < k
      PROVE  sorted[j].stop.time <= sorted[k].stop.time
  <2>1. \A i \in 1..n : time[i] \in Int
    BY <1>5
  <2>2. \A i \in 2..n : time[i - 1] <= time[i]
    <3>1. \A i \in 2..n : i \in 1..n /\ i - 1 \in 1..n
      BY <1>1
    <3> QED BY <1>4, <1>5, <3>1
  <2>3. j <= k
    BY <1>1, <1>8
  <2>4. time[j] = sorted[j].stop.time /\ time[k] = sorted[k].stop.time
    OBVIOUS
  <2> HIDE DEF time, n
  <2>5. time[j] <= time[k]
    BY <1>1, <2>1, <2>2, <2>3, Ascending
  <2> QED BY <2>4, <2>5
<1> HIDE DEF kept
<1>9. ASSUME NEW j \in DOMAIN kept PROVE \E i \in DOMAIN calls : kept[j] = calls[i]
  <2>1. PICK i \in I : kept[j] = sorted[i]
    BY <1>7 DEF Selects
  <2> QED BY <1>1, <1>3, <1>5, <1>6, <2>1
<1>10. ASSUME NEW i \in DOMAIN calls PROVE \E j \in DOMAIN kept : SameStop(kept[j], calls[i])
  <2> DEFINE Same == {m \in 1..n : SameStop(sorted[m], calls[i])}
  <2>1. PICK at \in 1..n : order[at] = i
    BY <1>1, <1>3
  <2>2. at \in Same
    BY <1>5, <2>1 DEF SameStop
  <2>3. PICK first \in Same : \A m \in Same : first <= m
    <3>1. Same \in SUBSET Nat
      BY <1>1
    <3> HIDE DEF Same
    <3> QED BY <2>2, <3>1, LeastElement
  <2>4. ASSUME NEW m \in 1..first - 1 PROVE ~SameStop(sorted[m], sorted[first])
    <3>1. m \in 1..n /\ m \notin Same
      BY <1>1, <2>3
    <3> QED BY <2>3, <3>1 DEF SameStop
  <2>5. first \in I
    BY <1>5, <2>3, <2>4
  <2>6. PICK j \in DOMAIN kept : kept[j] = sorted[first]
    BY <1>7, <2>5 DEF Selects
  <2> QED BY <2>3, <2>6
<1>11. ASSUME NEW j \in DOMAIN kept, NEW k \in DOMAIN kept, j < k
       PROVE  kept[j].stop.time <= kept[k].stop.time
  <2>1. PICK i \in I, l \in I : i < l /\ kept[j] = sorted[i] /\ kept[k] = sorted[l]
    BY <1>7, <1>11 DEF Selects
  <2> QED BY <1>6, <1>8, <2>1
<1> QED BY <1>2, <1>7, <1>9, <1>10, <1>11

LEMMA HapagListsAll ==
  ASSUME NEW doc \in Seq(WireCalls), NEW order \in Orders(Generated("hapag", doc))
  PROVE  LET kept == SortAndRemoveDuplicates(Generated("hapag", doc), order)
         IN  /\ ListsAll("hapag", kept, doc)
             /\ \A j, k \in DOMAIN kept : j < k => kept[j].stop.time <= kept[k].stop.time
<1> DEFINE g == Generated("hapag", doc)
           kept == SortAndRemoveDuplicates(g, order)
           C == {g[i] : i \in DOMAIN g}
<1>1. PICK S : g \in Seq(S)
  BY GeneratedLists DEF APIs
<1>2. ListsAll("hapag", g, doc)
  BY GeneratedLists DEF APIs
<1>3. order \in Orders(g)
  OBVIOUS
<1> HIDE DEF g
<1>4. g \in Seq(C)
  BY <1>1
<1>5. \A c \in C : c.stop.time \in Nat
  BY <1>2 DEF ListsAll, FromCall
<1>6. /\ kept \in Seq(C)
      /\ \A j \in DOMAIN kept : \E i \in DOMAIN g : kept[j] = g[i]
      /\ \A i \in DOMAIN g : \E j \in DOMAIN kept : SameStop(kept[j], g[i])
      /\ \A j, k \in DOMAIN kept : j < k => kept[j].stop.time <= kept[k].stop.time
  <2> HIDE DEF C
  <2> QED BY <1>3, <1>4, <1>5, DuplicatesRemoved
<1> HIDE DEF kept
<1>7. Len(kept) \in Nat /\ DOMAIN kept = 1..Len(kept)
  BY <1>6
<1>8. \A j \in DOMAIN kept : \E d \in ToSet(doc) : \E type : FromCall("hapag", kept[j], d, type)
  BY <1>2, <1>6 DEF ListsAll
<1>9. ASSUME NEW d \in ToSet(doc), NEW e, OnlyEvent(d, e)
      PROVE  \E j \in DOMAIN kept : kept[j].stop.port = d.port /\ kept[j].stop.time = e.time
  <2>1. PICK i \in DOMAIN g : g[i].stop.port = d.port /\ g[i].stop.time = e.time
    BY <1>2, <1>9 DEF ListsAll
  <2> QED BY <1>6, <2>1 DEF SameStop
<1>10. ListsAll("hapag", kept, doc)
  BY <1>7, <1>8, <1>9 DEF ListsAll
<1> QED BY <1>6, <1>10 DEF kept, g

Ordered(cs) == \A j, k \in DOMAIN cs : j < k => cs[j].stop.time <= cs[k].stop.time

(* A result from an API, in terms of the answer. *)
LEMMA Answer ==
  ASSUME IInv, FromAPI
  PROVE  /\ source \in APIs
         /\ \E cs : /\ ListsAll(source, cs, document)
                    /\ result.calls = [i \in DOMAIN cs |-> [seq |-> i, call |-> cs[i]]]
                    /\ source = "hapag" => Ordered(cs)
<1>1. /\ source \in APIs /\ document \in Documents
      /\ result.calls \in GenerateVesselCalls(source, document)
  BY DEF IInv, FromAPI, Delivered, APIs
<1>2. document \in Seq(WireCalls)
  BY <1>1, CallsAssumption
<1>3. CASE source = "hapag"
  <2>1. PICK order \in Orders(Generated("hapag", document)) :
          LET cs == SortAndRemoveDuplicates(Generated("hapag", document), order)
          IN  result.calls = [i \in DOMAIN cs |-> [seq |-> i, call |-> cs[i]]]
    BY <1>1, <1>3 DEF GenerateVesselCalls
  <2> QED BY <1>1, <1>2, <1>3, <2>1, HapagListsAll DEF Ordered
<1>4. CASE source # "hapag"
  <2> DEFINE cs == Generated(source, document)
  <2>1. result.calls = [i \in DOMAIN cs |-> [seq |-> i, call |-> cs[i]]]
    BY <1>1, <1>4 DEF GenerateVesselCalls
  <2>2. ListsAll(source, cs, document)
    BY <1>1, <1>2, GeneratedLists
  <2> QED BY <1>1, <1>4, <2>1, <2>2
<1> QED BY <1>3, <1>4

(* The calls are numbered 1, 2, 3, ..., and where they are sorted none is    *)
(* before an earlier one.                                                    *)
THEOREM NumberedByTime == Spec => []NumberedInOrder
<1>1. ASSUME IInv, FromDatabase
      PROVE  NumberedInOrder
  <2> DEFINE final == Final(rows)
  <2>1. /\ rows \in Seq(Rows)
        /\ result = ConstructAPIResult(rows)
        /\ \A i, j \in DOMAIN rows : i < j => rows[i].time <= rows[j].time
    BY <1>1, Database
  <2>2. /\ Len(final) \in Nat /\ DOMAIN final = 1..Len(final)
        /\ Selects(final, ConstructPortCalls(rows), DOMAIN rows)
    BY <2>1, FinalCalls
  <2>3. /\ DOMAIN result.calls = DOMAIN final
        /\ \A i \in DOMAIN final : result.calls[i].seq = i /\ result.calls[i].call = final[i]
    <3> DEFINE r == ConstructAPIResult(rows)
    <3>1. /\ DOMAIN r.calls = DOMAIN final
          /\ \A i \in DOMAIN final : r.calls[i].seq = i /\ r.calls[i].call = final[i]
      BY ResultCalls
    <3> HIDE DEF r
    <3> QED BY <2>1, <3>1 DEF r
  <2>4. \A i \in DOMAIN rows : ConstructPortCalls(rows)[i].stop.time = rows[i].time
    BY DEF ConstructPortCalls, PortCall, Key
  <2> HIDE DEF final
  <2>5. ASSUME NEW i \in DOMAIN final, i > 1
        PROVE  final[i - 1].stop.time <= final[i].stop.time
    <3>1. i - 1 \in DOMAIN final /\ i - 1 < i
      BY <2>2, <2>5
    <3>2. PICK j, l \in DOMAIN rows :
            /\ j < l /\ final[i - 1] = ConstructPortCalls(rows)[j]
            /\ final[i] = ConstructPortCalls(rows)[l]
      BY <2>2, <3>1 DEF Selects
    <3> QED BY <2>1, <2>4, <3>2
  <2>6. \A i \in DOMAIN final : i > 1 => i - 1 \in DOMAIN final
    BY <2>2
  <2> QED BY <2>3, <2>5, <2>6 DEF NumberedInOrder
<1>2. ASSUME IInv, FromAPI
      PROVE  NumberedInOrder
  <2>1. PICK cs : /\ ListsAll(source, cs, document)
                  /\ result.calls = [i \in DOMAIN cs |-> [seq |-> i, call |-> cs[i]]]
                  /\ source = "hapag" => Ordered(cs)
    BY <1>2, Answer
  <2>2. DOMAIN cs = 1..Len(cs) /\ Len(cs) \in Nat
    BY <2>1 DEF ListsAll
  <2>3. \A i \in DOMAIN cs : i > 1 => i - 1 \in DOMAIN cs /\ i - 1 < i
    BY <2>2
  <2>4. /\ DOMAIN result.calls = DOMAIN cs
        /\ \A i \in DOMAIN cs : result.calls[i].seq = i /\ result.calls[i].call = cs[i]
    BY <2>1
  <2>5. Sorts => source = "hapag"
    BY <1>2 DEF FromAPI, Sorts
  <2> QED BY <2>1, <2>3, <2>4, <2>5 DEF NumberedInOrder, Ordered
<1>3. IInv => NumberedInOrder
  BY <1>1, <1>2 DEF NumberedInOrder, FromDatabase, FromAPI
<1> QED BY <1>3, Invariance, PTL

LEMMA CallsOfAnswer ==
  ASSUME IInv, FromAPI
  PROVE  \E cs : /\ ListsAll(source, cs, document)
                 /\ Calls = {cs[i] : i \in DOMAIN cs}
<1>1. PICK cs : /\ ListsAll(source, cs, document)
                /\ result.calls = [i \in DOMAIN cs |-> [seq |-> i, call |-> cs[i]]]
  BY Answer
<1>2. /\ DOMAIN result.calls = DOMAIN cs
      /\ \A i \in DOMAIN cs : result.calls[i].call = cs[i]
  BY <1>1
<1>3. Calls = {cs[i] : i \in DOMAIN cs}
  BY <1>2 DEF Calls
<1> QED BY <1>1, <1>3

(* An arrival or a departure that an answer dates and gives a voyage for is  *)
(* in the list, whatever else the answer has.                                *)
THEOREM StopsListed == Spec => []EveryStopListed
<1>1. ASSUME IInv, FromAPI
      PROVE  EveryStopListed
  <2>1. PICK cs : ListsAll(source, cs, document) /\ Calls = {cs[i] : i \in DOMAIN cs}
    BY <1>1, CallsOfAnswer
  <2>2. ASSUME NEW d \in ToSet(document), NEW e, OnlyEvent(d, e)
        PROVE  \E c \in Calls : /\ c.stop.port = d.port /\ c.stop.time = e.time
                                /\ source # "hapag" => c.stop.event = PortEvent(e.type)
    BY <2>1, <2>2 DEF ListsAll
  <2> QED BY <2>2 DEF EveryStopListed, OnlyEvent
<1> QED BY <1>1, Invariance, PTL DEF EveryStopListed

(* What is listed as one call is from one call of the answer, with its own   *)
(* port, event, voyage and date.                                             *)
THEOREM CallsFromAnswer == Spec => []CallsAsStated
<1>1. ASSUME IInv, FromAPI
      PROVE  CallsAsStated
  <2>1. PICK cs : ListsAll(source, cs, document) /\ Calls = {cs[i] : i \in DOMAIN cs}
    BY <1>1, CallsOfAnswer
  <2>2. \A c \in Calls : c.stop.event \in {"UNL", "LOA", "PAS"}
    BY <1>1 DEF FromAPI, Delivered, Valid, Calls
  <2>3. \A type : PortEvent(type) \in {"UNL", "LOA", "PAS"} => type \in {"ARRI", "DEPA"}
    BY DEF PortEvent
  <2>4. ASSUME NEW c \in Calls
        PROVE  \E d \in ToSet(document) : \E type \in {"ARRI", "DEPA"} : FromCall(source, c, d, type)
    <3>1. PICK d \in ToSet(document) : \E type : FromCall(source, c, d, type)
      BY <2>1 DEF ListsAll
    <3>2. PICK type : FromCall(source, c, d, type)
      BY <3>1
    <3>3. type \in {"ARRI", "DEPA"}
      BY <2>2, <2>3, <3>2 DEF FromCall
    <3> QED BY <3>2, <3>3
  <2> QED BY <2>4 DEF CallsAsStated, FromCall, Voyage
<1> QED BY <1>1, Invariance, PTL DEF CallsAsStated
=============================================================================
