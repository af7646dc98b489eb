-------------------------- MODULE CarrierFetchProofs --------------------------
(***************************************************************************)
(* For any routes, of any number and of any length, and any queries: a     *)
(* carrier is asked only with what it requires, what it answers completely *)
(* is valid, legs stay joined, and the searches by a vessel and by a port  *)
(* of transshipment find what they should.                                 *)
(*                                                                         *)
(* Whether the calls before were made, and what they yielded, follows from *)
(* where the fetch is (Prepared); so does what the schedules are made of   *)
(* and what is kept of them (Adapted).  The rest is about the adapters: a  *)
(* schedule shows the legs at some indexes of its route, all that lead     *)
(* somewhere among them (LegsShown), each as the adapter makes it (LegBy). *)
(***************************************************************************)
EXTENDS CarrierFetch, SequenceLemmas

Ready ==
  /\ adapter # "unsupported"
  /\ adapter \in RequiresAuth => token = "token"
  /\ adapter \in RequiresLocation => origin = "found" /\ destination = "found"

Prepared ==
  /\ pc = "token" => adapter \in RequiresAuth
  /\ pc \in {"origin", "destination"} => adapter \in RequiresLocation
  /\ pc = "destination" => origin \in {"found", "no match", "error"}
  /\ pc \in {"create", "token", "origin", "destination"} => schedules = << >>
  /\ pc \in {"ask", "generate", "filter"} => Ready

IInv == Prepared /\ AskedWithWhatItRequires

(* The inductive invariant of a fetch. *)
THEOREM Invariance == Spec => []IInv
<1> USE DEF IInv, Prepared, AskedWithWhatItRequires, Ready, RequiresAuth, RequiresLocation
<1>1. Init => IInv
  BY DEF Init
<1>2. ASSUME IInv, Next
      PROVE  IInv'
  <2>1. CASE Create
    BY <1>2, <2>1 DEF Create, asked
  <2>2. CASE GetOAuthToken
    BY <1>2, <2>2 DEF GetOAuthToken, asked, Return, Panic
  <2>3. CASE GetOrigin
    BY <1>2, <2>3 DEF GetOrigin, asked
  <2>4. CASE GetDestination
    BY <1>2, <2>4 DEF GetDestination, asked, Return, Panic
  <2>5. CASE Ask
    BY <1>2, <2>5 DEF Ask, asked, Return
  <2>6. CASE Generate
    <3>1. UNCHANGED <<asked, token, origin, destination>> /\ pc = "generate"
      BY <2>6 DEF Generate
    <3>2. pc' \in {"generate", "filter"}
      BY <2>6 DEF Generate, Panic
    <3> QED BY <1>2, <3>1, <3>2 DEF asked
  <2>7. CASE Filter
    <3>1. UNCHANGED <<asked, token, origin, destination, schedules>> /\ pc = "filter"
      BY <2>7 DEF Filter, Panic
    <3>2. pc' \in {"filter", "returned"}
      BY <2>7 DEF Filter, Panic
    <3> QED BY <1>2, <3>1, <3>2 DEF asked
  <2> QED BY <1>2, <2>1, <2>2, <2>3, <2>4, <2>5, <2>6, <2>7 DEF Next
<1>3. IInv /\ UNCHANGED vars => IInv'
  BY DEF vars, asked
<1> QED BY <1>1, <1>2, <1>3, PTL DEF Spec

(* A carrier is asked, and its answer adapted, only with the token or the    *)
(* details of both ports that it requires.                                   *)
THEOREM AskedPrepared == Spec => []AskedWithWhatItRequires
BY Invariance, PTL DEF IInv

-----------------------------------------------------------------------------
(* What the schedules are made of, and what is kept of them. *)

Adapted ==
  /\ adapter \in Adapters \cup {"unsupported"}
  /\ routes \in Seq(WireRoutes)
  /\ pc \in {"create", "token", "origin", "destination", "ask", "generate"} => schedules = << >>
  /\ schedules # << >> => /\ adapter # "unsupported"
                          /\ schedules = [i \in DOMAIN routes |-> GenerateSchedule(adapter, routes[i])]
  /\ pc = "returned" /\ schedules # << >> => kept = PostFilter(schedules, query)

LEMMA AdaptedInvariance == Spec => [](Adapted /\ IInv)
<1>1. Init => Adapted
  BY DEF Init, Adapted
<1>2. ASSUME Adapted, IInv, Next
      PROVE  Adapted'
  <2> USE DEF Adapted
  <2>1. CASE Create
    BY <1>2, <2>1 DEF Create, asked
  <2>2. CASE GetOAuthToken
    BY <1>2, <2>2 DEF GetOAuthToken, asked, Return, Panic
  <2>3. CASE GetOrigin
    BY <1>2, <2>3 DEF GetOrigin, asked
  <2>4. CASE GetDestination
    BY <1>2, <2>4 DEF GetDestination, asked, Return, Panic
  <2>5. CASE Ask
    <3>1. UNCHANGED <<adapter, query, schedules>> /\ pc = "ask" /\ pc' \in {"generate", "returned"}
      BY <2>5 DEF Ask, asked, Return
    <3>2. routes' \in Seq(WireRoutes)
      <4>1. CASE UNCHANGED routes
        BY <1>2, <4>1
      <4>2. ASSUME NEW n \in 0..MaxRoutes, routes' \in [1..n -> Routes] PROVE routes' \in Seq(WireRoutes)
        BY <4>2, FetchAssumption
      <4> QED BY <2>5, <4>1, <4>2 DEF Ask, Return
    <3> QED BY <1>2, <3>1, <3>2
  <2>6. CASE Generate
    <3>1. UNCHANGED <<adapter, query, routes>> /\ pc = "generate"
      BY <2>6 DEF Generate, Panic, asked
    <3>2. CASE \E i \in DOMAIN routes : Panics(adapter, routes[i])
      BY <1>2, <2>6, <3>1, <3>2 DEF Generate, Panic
    <3>3. CASE ~(\E i \in DOMAIN routes : Panics(adapter, routes[i]))
      <4>1. /\ pc' = "filter"
            /\ schedules' = [i \in DOMAIN routes |-> GenerateSchedule(adapter, routes[i])]
        BY <2>6, <3>3 DEF Generate
      <4>2. adapter # "unsupported"
        BY <1>2, <3>1 DEF IInv, Prepared, Ready
      <4> QED BY <1>2, <3>1, <4>1, <4>2
    <3> QED BY <3>2, <3>3
  <2>7. CASE Filter
    <3>1. UNCHANGED <<adapter, query, routes, schedules>> /\ pc = "filter"
      BY <2>7 DEF Filter, Panic, asked
    <3>2. pc' = "filter" \/ (pc' = "returned" /\ kept' = PostFilter(schedules, query))
      BY <2>7 DEF Filter, Panic
    <3> QED BY <1>2, <3>1, <3>2
  <2> QED BY <1>2, <2>1, <2>2, <2>3, <2>4, <2>5, <2>6, <2>7 DEF Next
<1>3. Adapted /\ UNCHANGED vars => Adapted'
  BY DEF Adapted, vars, asked
<1> QED BY <1>1, <1>2, <1>3, Invariance, PTL DEF Spec

-----------------------------------------------------------------------------
(* The adapters. *)

LegBy(a, i, route) ==
  CASE a = "cma" -> CmaLeg(i, route)
    [] a = "iqax" -> IqaxLeg(i, route)
    [] a = "msc" -> MscLeg(i, route)
    [] a \in {"one", "hapag"} -> OneLeg(i, route)
    [] a = "maersk" -> MaerskLeg(i, route)
    [] a = "zim" -> ZimLeg(i, route)

Moving(route) == {i \in DOMAIN route.legs : route.legs[i].from # route.legs[i].to}
ShownIndexes(a, route) == IF a = "iqax" THEN Moving(route) ELSE DOMAIN route.legs

LEMMA LegsTyped ==
  ASSUME NEW route \in WireRoutes
  PROVE  /\ route.legs \in Seq(WireLegs) /\ Len(route.legs) \in Nat
         /\ DOMAIN route.legs = 1..Len(route.legs)
         /\ \A i \in DOMAIN route.legs : route.legs[i] \in WireLegs
BY DEF WireRoutes

(* The legs of a schedule are those at the shown indexes, as adapted. *)
LEMMA LegsShown ==
  ASSUME NEW a \in Adapters, NEW route \in WireRoutes
  PROVE  /\ GenerateSchedule(a, route).legs \in Seq({LegBy(a, i, route) : i \in DOMAIN route.legs})
         /\ \E at : Indexes(GenerateSchedule(a, route).legs,
                            [i \in DOMAIN route.legs |-> LegBy(a, i, route)], ShownIndexes(a, route), at)
<1> DEFINE all == [i \in DOMAIN route.legs |-> LegBy(a, i, route)]
           S == {LegBy(a, i, route) : i \in DOMAIN route.legs}
           shown == GenerateSchedule(a, route).legs
<1>1. all \in Seq(S) /\ Len(all) = Len(route.legs) /\ DOMAIN all = DOMAIN route.legs
  BY LegsTyped
<1>2. CASE a = "iqax"
  <2>1. shown = ElementsAt(all, Moving(route))
    BY <1>2 DEF GenerateSchedule, IqaxSchedule, ScheduleOf, IqaxLegs, Each, Moving, LegBy
  <2>2. Moving(route) \in SUBSET DOMAIN all
    BY DEF Moving
  <2>3. ElementsAt(all, Moving(route)) \in Seq(S)
        /\ \E at : Indexes(ElementsAt(all, Moving(route)), all, Moving(route), at)
    <3> HIDE DEF all, S
    <3> QED BY <1>1, <2>2, ElementsAtIndexes
  <2> HIDE DEF all, S, shown
  <2>4. \E at : Indexes(shown, all, ShownIndexes(a, route), at)
    BY <1>2, <2>1, <2>3 DEF ShownIndexes
  <2> QED BY <2>1, <2>3, <2>4 DEF all, S, shown
<1>3. CASE a # "iqax"
  <2>1. shown = all
    BY <1>3 DEF GenerateSchedule, CmaSchedule, MscSchedule, OneSchedule, HapagSchedule,
                MaerskSchedule, ZimSchedule, ScheduleOf, Each, LegBy, Adapters
  <2>2. Indexes(all, all, ShownIndexes(a, route), [i \in 1..Len(all) |-> i])
    <3>1. ShownIndexes(a, route) = 1..Len(all) /\ Len(all) \in Nat
      BY <1>1, <1>3, LegsTyped DEF ShownIndexes
    <3> HIDE DEF all
    <3> QED BY <3>1 DEF Indexes
  <2> HIDE DEF all, S, shown
  <2> QED BY <1>1, <2>1, <2>2 DEF all, S, shown
<1> QED BY <1>2, <1>3

(* No adapter changes what a leg leads from or to. *)
LEMMA LegByPorts ==
  ASSUME NEW a \in Adapters, NEW route \in WireRoutes, NEW i \in DOMAIN route.legs
  PROVE  /\ LegBy(a, i, route).from = route.legs[i].from
         /\ LegBy(a, i, route).to = route.legs[i].to
BY DEF LegBy, CmaLeg, IqaxLeg, MscLeg, OneLeg, MaerskLeg, ZimLeg, LegOf, Adapters

-----------------------------------------------------------------------------
(* Legs stay joined. *)

(* Where the cargo is after the first i legs. *)
At(ends, legs, i) == IF i = 0 THEN ends.from ELSE legs[i].to

LEMMA JoinedLegs ==
  ASSUME NEW ends, NEW legs \in Seq(WireLegs), Joined(ends, legs)
  PROVE  /\ Len(legs) \in Nat \ {0} /\ DOMAIN legs = 1..Len(legs)
         /\ \A i \in 1..Len(legs) : legs[i].from = At(ends, legs, i - 1)
         /\ At(ends, legs, 0) = ends.from /\ At(ends, legs, Len(legs)) = ends.to
<1>1. Len(legs) \in Nat \ {0} /\ DOMAIN legs = 1..Len(legs)
  BY DEF Joined
<1>2. ASSUME NEW i \in 1..Len(legs) PROVE legs[i].from = At(ends, legs, i - 1)
  <2>1. CASE i = 1
    BY <2>1 DEF Joined, At
  <2>2. CASE i # 1
    <3>1. i \in 2..Len(legs) /\ i - 1 # 0
      BY <1>1, <2>2
    <3> QED BY <3>1 DEF Joined, At
  <2> QED BY <2>1, <2>2
<1> QED BY <1>1, <1>2 DEF Joined, At

(* Legs that lead nowhere leave it there. *)
LEMMA Standing ==
  ASSUME NEW ends, NEW legs \in Seq(WireLegs), Joined(ends, legs),
         NEW low \in 0..Len(legs), NEW high \in 0..Len(legs), low <= high,
         \A i \in low + 1..high : legs[i].from = legs[i].to
  PROVE  At(ends, legs, high) = At(ends, legs, low)
<1> DEFINE n == high - low
           T == {k \in 0..n : At(ends, legs, low + k) = At(ends, legs, low)}
<1>1. n \in Nat /\ low \in Nat /\ high \in Nat /\ low + n = high
  OBVIOUS
<1>2. 0 \in T
  BY <1>1
<1>3. ASSUME NEW k \in 1..n, k - 1 \in T PROVE k \in T
  <2>1. low + k \in low + 1..high /\ low + k \in 1..Len(legs) /\ (low + k) - 1 = low + (k - 1)
        /\ low + k # 0
    BY <1>1
  <2>2. legs[low + k].from = At(ends, legs, low + (k - 1))
    BY <2>1, JoinedLegs
  <2>3. At(ends, legs, low + k) = legs[low + k].to
    BY <2>1 DEF At
  <2> QED BY <1>3, <2>1, <2>2, <2>3
<1>4. \A k \in 0..n : k \in T
  <2> HIDE DEF T, n
  <2> QED BY <1>1, <1>2, <1>3, UpTo
<1> QED BY <1>1, <1>4

(* A schedule has the ends of a joined route. *)
LEMMA ScheduleEnds ==
  ASSUME NEW a \in Adapters, NEW route \in WireRoutes, Joined(route, route.legs)
  PROVE  /\ GenerateSchedule(a, route).from = route.from
         /\ GenerateSchedule(a, route).to = route.to
BY DEF Joined, GenerateSchedule, CmaSchedule, IqaxSchedule, MscSchedule, OneSchedule, HapagSchedule,
       MaerskSchedule, ZimSchedule, ScheduleOf, FirstLeg, LastLeg, Adapters

(* Each leg of a schedule has the ports of the leg at its index, and every   *)
(* leg that leads somewhere is shown.                                        *)
ShowsAt(legs, shown, at) ==
  /\ \A k \in 1..Len(shown) : /\ at[k] \in 1..Len(legs)
                              /\ shown[k].from = legs[at[k]].from /\ shown[k].to = legs[at[k]].to
  /\ \A i \in 1..Len(legs) : legs[i].from # legs[i].to => \E k \in 1..Len(shown) : at[k] = i
  /\ \A j, k \in 1..Len(shown) : j < k => at[j] < at[k]

LEMMA PortsShown ==
  ASSUME NEW a \in Adapters, NEW route \in WireRoutes
  PROVE  /\ Len(GenerateSchedule(a, route).legs) \in Nat
         /\ DOMAIN GenerateSchedule(a, route).legs = 1..Len(GenerateSchedule(a, route).legs)
         /\ \E at : ShowsAt(route.legs, GenerateSchedule(a, route).legs, at)
<1> DEFINE legs == route.legs
           shown == GenerateSchedule(a, route).legs
           I == ShownIndexes(a, route)
           n == Len(shown)
<1>1. Len(legs) \in Nat /\ DOMAIN legs = 1..Len(legs)
  BY LegsTyped
<1>2. shown \in Seq({LegBy(a, i, route) : i \in DOMAIN legs})
  BY LegsShown
<1>3. PICK at : Indexes(shown, [i \in DOMAIN legs |-> LegBy(a, i, route)], I, at)
  BY LegsShown
<1> HIDE DEF shown
<1>4. n \in Nat /\ DOMAIN shown = 1..n
  BY <1>2
<1>5. I \subseteq 1..Len(legs) /\ \A i \in 1..Len(legs) : i \notin I => legs[i].from = legs[i].to
  BY <1>1 DEF ShownIndexes, Moving
<1> HIDE DEF I
<1>6. /\ \A k \in 1..n : at[k] \in I /\ shown[k] = [i \in DOMAIN legs |-> LegBy(a, i, route)][at[k]]
      /\ \A i \in I : \E k \in 1..n : at[k] = i
      /\ \A j, k \in 1..n : j < k => at[j] < at[k]
  BY <1>3, <1>4 DEF Indexes
<1>7. ASSUME NEW k \in 1..n
      PROVE  /\ at[k] \in 1..Len(legs)
             /\ shown[k].from = legs[at[k]].from /\ shown[k].to = legs[at[k]].to
  <2>1. at[k] \in I /\ at[k] \in DOMAIN legs
    BY <1>1, <1>5, <1>6
  <2>2. shown[k] = LegBy(a, at[k], route)
    BY <1>6, <2>1
  <2> QED BY <1>1, <2>1, <2>2, LegByPorts
<1>8. ShowsAt(legs, shown, at)
  BY <1>5, <1>6, <1>7 DEF ShowsAt
<1> QED BY <1>4, <1>8 DEF shown

LEMMA LegsStayJoined ==
  ASSUME NEW a \in Adapters, NEW route \in WireRoutes, Joined(route, route.legs),
         route.from # route.to
  PROVE  Joined(GenerateSchedule(a, route), GenerateSchedule(a, route).legs)
<1> DEFINE legs == route.legs
           shown == GenerateSchedule(a, route).legs
           n == Len(shown)
<1>1. /\ Len(legs) \in Nat \ {0} /\ DOMAIN legs = 1..Len(legs) /\ legs \in Seq(WireLegs)
      /\ \A i \in 1..Len(legs) : legs[i].from = At(route, legs, i - 1)
      /\ At(route, legs, 0) = route.from /\ At(route, legs, Len(legs)) = route.to
  BY LegsTyped, JoinedLegs
<1>2. PICK at : ShowsAt(legs, shown, at)
  BY PortsShown
<1>4. n \in Nat /\ DOMAIN shown = 1..n
  BY PortsShown
<1> DEFINE I == {i \in 1..Len(legs) : legs[i].from # legs[i].to}
<1>5. I \subseteq 1..Len(legs) /\ \A i \in 1..Len(legs) : i \notin I => legs[i].from = legs[i].to
  OBVIOUS
<1> HIDE DEF shown, I
<1>6. /\ \A k \in 1..n : /\ at[k] \in 1..Len(legs)
                         /\ shown[k].from = legs[at[k]].from /\ shown[k].to = legs[at[k]].to
      /\ \A i \in I : \E k \in 1..n : at[k] = i
      /\ \A j, k \in 1..n : j < k => at[j] < at[k]
  BY <1>2 DEF ShowsAt, I
<1>7. \A k \in 1..n : /\ shown[k].from = At(route, legs, at[k] - 1)
                      /\ shown[k].to = At(route, legs, at[k])
  BY <1>1, <1>6 DEF At
<1> HIDE DEF legs, n
<1>8. ASSUME NEW low \in 0..Len(legs), NEW high \in 0..Len(legs), low <= high,
             \A i \in low + 1..high : i \notin I
      PROVE  At(route, legs, high) = At(route, legs, low)
  <2>1. \A i \in low + 1..high : legs[i].from = legs[i].to
    BY <1>1, <1>5, <1>8
  <2> QED BY <1>1, <1>8, <2>1, Standing DEF legs
<1>9. n # 0
  <2> SUFFICES ASSUME n = 0 PROVE FALSE
    OBVIOUS
  <2>1. At(route, legs, Len(legs)) = At(route, legs, 0)
    BY <1>1, <1>6, <1>8
  <2> QED BY <1>1, <2>1
<1>10. shown[1].from = route.from
  <2>1. 1 \in 1..n /\ at[1] \in 1..Len(legs)
    BY <1>4, <1>6, <1>9
  <2>2. ASSUME NEW i \in 0 + 1..at[1] - 1, i \in I PROVE FALSE
    <3>1. PICK k \in 1..n : at[k] = i
      BY <1>6, <2>2
    <3>2. k = 1 \/ at[1] < at[k]
      BY <1>4, <1>6, <2>1
    <3> QED BY <1>1, <2>1, <3>1, <3>2
  <2>3. At(route, legs, at[1] - 1) = At(route, legs, 0)
    BY <1>1, <1>8, <2>1, <2>2
  <2> QED BY <1>1, <1>7, <2>1, <2>3
<1>11. shown[n].to = route.to
  <2>1. n \in 1..n /\ at[n] \in 1..Len(legs)
    BY <1>4, <1>6, <1>9
  <2>2. ASSUME NEW i \in at[n] + 1..Len(legs), i \in I PROVE FALSE
    <3>1. PICK k \in 1..n : at[k] = i
      BY <1>6, <2>2
    <3>2. k = n \/ at[k] < at[n]
      BY <1>4, <1>6, <2>1
    <3> QED BY <1>1, <2>1, <3>1, <3>2
  <2>3. At(route, legs, Len(legs)) = At(route, legs, at[n])
    BY <1>1, <1>8, <2>1, <2>2
  <2> QED BY <1>1, <1>7, <2>1, <2>3
<1>12. ASSUME NEW k \in 2..n PROVE shown[k].from = shown[k - 1].to
  <2>1. k \in 1..n /\ k - 1 \in 1..n /\ at[k - 1] < at[k]
        /\ at[k] \in 1..Len(legs) /\ at[k - 1] \in 1..Len(legs)
    BY <1>4, <1>6
  <2>2. ASSUME NEW i \in at[k - 1] + 1..at[k] - 1, i \in I PROVE FALSE
    <3>1. PICK j \in 1..n : at[j] = i
      BY <1>6, <2>2
    <3>2. j <= k - 1 \/ j >= k
      BY <1>4
    <3>3. j < k - 1 \/ j = k - 1 \/ j = k \/ k < j
      BY <1>4, <3>2
    <3>4. at[j] \in 1..Len(legs) /\ (at[j] < at[k - 1] \/ at[j] = at[k - 1] \/ at[j] = at[k] \/ at[k] < at[j])
      BY <1>6, <2>1, <3>3
    <3> QED BY <1>1, <2>1, <3>1, <3>4
  <2>3. at[k - 1] \in 0..Len(legs) /\ at[k] - 1 \in 0..Len(legs) /\ at[k - 1] <= at[k] - 1
    BY <1>1, <2>1
  <2>4. At(route, legs, at[k] - 1) = At(route, legs, at[k - 1])
    BY <1>8, <2>2, <2>3
  <2> QED BY <1>7, <2>1, <2>4
<1>13. shown # << >>
  BY <1>9 DEF n
<1> QED BY <1>10, <1>11, <1>12, <1>13, ScheduleEnds DEF Joined, n, shown

(* The legs of a schedule lead from its origin to its destination whenever   *)
(* those of the route do, for routes of any length.                          *)
THEOREM Joins == Spec => []StaysJoined
<1>1. Adapted => StaysJoined
  <2> SUFFICES ASSUME Adapted, NEW i \in DOMAIN schedules,
                      Joined(routes[i], routes[i].legs), routes[i].from # routes[i].to
               PROVE  Joined(schedules[i], schedules[i].legs)
    BY DEF StaysJoined
  <2>1. schedules # << >>
    OBVIOUS
  <2>2. /\ adapter \in Adapters /\ routes[i] \in WireRoutes
        /\ schedules[i] = GenerateSchedule(adapter, routes[i])
    BY <2>1 DEF Adapted
  <2> QED BY <2>2, LegsStayJoined
<1> QED BY <1>1, AdaptedInvariance, PTL

-----------------------------------------------------------------------------
(* What is stated completely is valid. *)

LEMMA References ==
  /\ Known = {"Vessel", "Truck", "Road", "Intermodal", "Barge", "Feeder", "Roadrail", "Rail", "Truckrail"}
  /\ ReferenceMapping["Vessel"] = "1" /\ ReferenceMapping["Truck"] = "3"
  /\ ReferenceMapping["Road"] = "3" /\ ReferenceMapping["Intermodal"] = "5"
  /\ ReferenceMapping["Barge"] = "9" /\ ReferenceMapping["Feeder"] = "9"
  /\ ReferenceMapping["Roadrail"] = "11" /\ ReferenceMapping["Rail"] = "11"
  /\ ReferenceMapping["Truckrail"] = "11"
BY DEF Known, ReferenceMapping

LEMMA KnownIsValid ==
  ASSUME NEW type \in Known, NEW reference
  PROVE  ValidTransport(MapTransport(type, reference))
<1>1. type # "" /\ ReferenceMapping[type] # ""
  BY References
<1> QED BY <1>1 DEF ValidTransport, MapTransport

Complete(a, route) ==
  /\ Described(a, route) /\ Dated(a, route)
  /\ Chronological(route) /\ Joined(route, route.legs)

LEMMA TransportValid ==
  ASSUME NEW a \in Adapters, NEW route \in WireRoutes, NEW i \in DOMAIN route.legs,
         route.legs[i].mode \in Known
  PROVE  ValidTransport(LegBy(a, i, route).transport)
<1> DEFINE leg == route.legs[i]
<1>1. leg \in WireLegs
  BY LegsTyped
<1>2. leg.mode \in Known /\ leg.mode # ""
      /\ "Vessel" \in Known /\ TransportType(leg.mode) \in Known
  BY <1>1, References DEF WireLegs, TransportType
<1>3. ASSUME NEW type \in Known, NEW reference,
             LegBy(a, i, route).transport = MapTransport(type, reference)
      PROVE  ValidTransport(LegBy(a, i, route).transport)
  BY <1>3, KnownIsValid
<1> HIDE DEF leg
<1>4. CASE a = "cma"
  <2> DEFINE reference == IF leg.imo = "" /\ leg.mode = "Barge" THEN "9" ELSE leg.imo
  <2>1. LegBy(a, i, route).transport = MapTransport(leg.mode, reference)
    BY <1>4 DEF LegBy, CmaLeg, LegOf, leg
  <2> HIDE DEF reference
  <2> QED BY <1>2, <1>3, <2>1
<1>5. CASE a = "iqax"
  <2>1. LegBy(a, i, route).transport = MapTransport(leg.mode, IqaxReference(leg))
    BY <1>5 DEF LegBy, IqaxLeg, LegOf, leg
  <2> QED BY <1>2, <1>3, <2>1
<1>6. CASE a = "msc"
  <2>1. LegBy(a, i, route).transport = MapTransport("Vessel", leg.imo)
    BY <1>6 DEF LegBy, MscLeg, LegOf, leg
  <2> QED BY <1>2, <1>3, <2>1
<1>7. CASE a \in {"one", "hapag"}
  <2>1. LegBy(a, i, route).transport = MapTransport(leg.mode, DcsaReference(leg))
    BY <1>2, <1>7 DEF LegBy, OneLeg, LegOf, leg
  <2> QED BY <1>2, <1>3, <2>1
<1>8. CASE a = "maersk"
  <2> DEFINE reference == IF leg.imo = "placeholder" THEN "1" ELSE leg.imo
  <2>1. LegBy(a, i, route).transport = MapTransport(TransportType(leg.mode), reference)
    BY <1>8 DEF LegBy, MaerskLeg, LegOf, leg
  <2> HIDE DEF reference
  <2> QED BY <1>2, <1>3, <2>1
<1>9. CASE a = "zim"
  <2> DEFINE reference == IF leg.mode = "Truck" THEN "3" ELSE leg.imo
  <2>1. LegBy(a, i, route).transport = ZimTransport(leg)
    BY <1>9 DEF LegBy, ZimLeg, LegOf, leg
  <2>2. ZimTransport(leg) \in {MapTransport("Vessel", "9"), MapTransport("Vessel", "1"),
                               MapTransport(TransportType(leg.mode), reference)}
    BY DEF ZimTransport
  <2> HIDE DEF reference
  <2> QED BY <1>2, <1>3, <2>1, <2>2
<1> QED BY <1>4, <1>5, <1>6, <1>7, <1>8, <1>9 DEF Adapters

(* A date that the adapter reads is stated, and shown by its clock. *)
LEMMA DateShown ==
  ASSUME NEW a \in Adapters, NEW date \in Dates
  PROVE  /\ Readable(a, date) => date # NoDate /\ Shown(date, a) = date.clock /\ Shown(date, a) \in Int
         /\ date = NoDate => Shown(date, a) = None
         /\ None \notin Int
<1>1. Layout(a) \in {"utc", "offset", "local"}
  BY DEF Layout, Adapters
<1>2. Shown(date, a) = IF date.form \in {"local", Layout(a)} THEN date.clock ELSE None
  BY DEF Shown, ConvertDateFormat
<1>3. date.clock \in Int /\ None \notin Int
  BY FetchAssumption DEF Dates
<1>4. date = NoDate => date.form = ""
  <2>1. NoDate.form = ""
    BY DEF NoDate, Date
  <2> QED BY <2>1
<1>5. date = NoDate => Shown(date, a) = None
  BY <1>1, <1>2, <1>4
<1>6. Readable(a, date) => Shown(date, a) = date.clock /\ date # NoDate
  BY <1>2, <1>5 DEF Readable
<1> QED BY <1>3, <1>5, <1>6

LEMMA TransitNotNegative ==
  ASSUME NEW etd \in Int, NEW eta \in Int, etd <= eta
  PROVE  TransitTime(etd, eta) \in Int /\ TransitTime(etd, eta) >= 0
<1>1. None \notin {etd, eta}
  BY FetchAssumption
<1>2. (eta - etd) \div 24 \in Int /\ (eta - etd) \div 24 >= 0
  OBVIOUS
<1> QED BY <1>1, <1>2 DEF TransitTime, Day

(* What a leg of a complete route is known to have. *)
LEMMA LegComplete ==
  ASSUME NEW a \in Adapters, NEW route \in WireRoutes, Complete(a, route), NEW i \in DOMAIN route.legs
  PROVE  LET leg == route.legs[i]
         IN  /\ leg.days \in Int /\ leg.days >= 0
             /\ leg.from # NoPort /\ leg.to # NoPort /\ leg.mode \in Known /\ leg.voyage # "blank"
             /\ leg.dep \in Dates /\ leg.arr \in Dates
             /\ leg.dep = NoDate \/ Readable(a, leg.dep)
             /\ leg.arr = NoDate \/ Readable(a, leg.arr)
             /\ \A c \in leg.cut : c.form \in {"local", Layout(a)}
             /\ NotAfter(leg.dep, leg.arr)
             /\ NotAfter(route.etd, leg.arr) /\ NotAfter(leg.dep, route.eta)
<1>1. route.legs[i] \in WireLegs /\ i \in i..Len(route.legs)
  BY LegsTyped
<1> QED BY <1>1 DEF Complete, Described, Dated, Chronological, WireLegs

(* The route's own dates. *)
LEMMA RouteDates ==
  ASSUME NEW a \in Adapters, NEW route \in WireRoutes, Complete(a, route)
  PROVE  /\ route.etd \in Dates /\ route.eta \in Dates
         /\ Readable(a, route.etd) /\ Readable(a, route.eta)
         /\ Shown(route.etd, a) \in Int /\ Shown(route.eta, a) \in Int
         /\ Shown(route.etd, a) <= Shown(route.eta, a)
         /\ Shown(route.etd, a) = route.etd.clock /\ Shown(route.eta, a) = route.eta.clock
<1>1. route.etd \in Dates /\ route.eta \in Dates
  BY DEF WireRoutes
<1>2. Readable(a, route.etd) /\ Readable(a, route.eta) /\ NotAfter(route.etd, route.eta)
  BY DEF Complete, Dated, Chronological
<1>3. /\ Shown(route.etd, a) = route.etd.clock /\ Shown(route.etd, a) \in Int /\ route.etd # NoDate
      /\ Shown(route.eta, a) = route.eta.clock /\ Shown(route.eta, a) \in Int /\ route.eta # NoDate
  BY <1>1, <1>2, DateShown
<1> QED BY <1>1, <1>2, <1>3 DEF NotAfter

(* The dates that IQAX works out are in order as well. *)
LEMMA IqaxInOrder ==
  ASSUME NEW route \in WireRoutes, Complete("iqax", route), NEW i \in DOMAIN route.legs
  PROVE  /\ IqaxDates(i, route)[1] \in Int /\ IqaxDates(i, route)[2] \in Int
         /\ IqaxDates(i, route)[1] <= IqaxDates(i, route)[2]
<1> DEFINE leg == route.legs[i]
           dep == Shown(leg.dep, "iqax")
           arr == Shown(leg.arr, "iqax")
           from == Shown(route.etd, "iqax")
           to == Shown(route.eta, "iqax")
           etd == Or(dep, from)
           eta == Or(arr, to)
           span == leg.days * Day
<1>1. "iqax" \in Adapters
  BY DEF Adapters
<1>2. span \in Int /\ span >= 0
  BY <1>1, LegComplete DEF Day
<1>3. /\ from \in Int /\ to \in Int /\ from <= to /\ None \notin Int
      /\ from = route.etd.clock /\ to = route.eta.clock /\ route.etd # NoDate /\ route.eta # NoDate
  BY <1>1, RouteDates, DateShown
<1>4. dep = None \/ (dep \in Int /\ leg.dep # NoDate /\ dep = leg.dep.clock)
  BY <1>1, LegComplete, DateShown
<1>5. arr = None \/ (arr \in Int /\ leg.arr # NoDate /\ arr = leg.arr.clock)
  BY <1>1, LegComplete, DateShown
<1>6. NotAfter(leg.dep, leg.arr) /\ NotAfter(route.etd, leg.arr) /\ NotAfter(leg.dep, route.eta)
  BY <1>1, LegComplete
<1>7. i = 2 => leg.name # "truck"
  BY DEF Complete, Dated
<1>8. /\ dep # None /\ arr # None => dep <= arr
      /\ arr # None => from <= arr
      /\ dep # None => dep <= to
  BY <1>3, <1>4, <1>5, <1>6 DEF NotAfter
<1>9. IqaxDates(i, route) =
        IF i # 2 THEN <<Or(dep, Parsed(eta) - span), eta>> ELSE <<etd, Or(arr, Parsed(etd) + span)>>
  BY <1>7 DEF IqaxDates
<1> HIDE DEF leg, dep, arr, from, to, span
<1>10. etd \in Int /\ eta \in Int /\ Parsed(etd) = etd /\ Parsed(eta) = eta
  BY <1>3, <1>4, <1>5 DEF Or, Parsed
<1>11. CASE i # 2
  <2>1. Or(dep, eta - span) \in Int /\ Or(dep, eta - span) <= eta
    BY <1>2, <1>3, <1>4, <1>5, <1>8, <1>10 DEF Or
  <2> QED BY <1>9, <1>10, <1>11, <2>1
<1>12. CASE i = 2
  <2>1. Or(arr, etd + span) \in Int /\ etd <= Or(arr, etd + span)
    BY <1>2, <1>3, <1>4, <1>5, <1>8, <1>10 DEF Or
  <2> QED BY <1>9, <1>10, <1>12, <2>1
<1> QED BY <1>11, <1>12

LEMMA LegInOrder ==
  ASSUME NEW a \in Adapters, NEW route \in WireRoutes, Complete(a, route), NEW i \in DOMAIN route.legs
  PROVE  /\ LegBy(a, i, route).etd \in Int /\ LegBy(a, i, route).eta \in Int
         /\ LegBy(a, i, route).etd <= LegBy(a, i, route).eta
         /\ LegBy(a, i, route).transit >= 0
<1> DEFINE leg == route.legs[i]
<1>1. /\ leg.days \in Int /\ leg.days >= 0 /\ NotAfter(leg.dep, leg.arr)
      /\ leg.dep = NoDate \/ Readable(a, leg.dep)
      /\ leg.arr = NoDate \/ Readable(a, leg.arr)
      /\ leg.dep \in Dates /\ leg.arr \in Dates
  BY LegComplete
<1>2. None \notin Int /\ Now \in Int
  BY FetchAssumption
<1>3. ASSUME leg.dep # NoDate, leg.arr # NoDate
      PROVE  /\ Shown(leg.dep, a) \in Int /\ Shown(leg.arr, a) \in Int
             /\ Shown(leg.dep, a) <= Shown(leg.arr, a)
  BY <1>1, <1>3, DateShown DEF NotAfter
<1>4. CASE a = "iqax"
  BY <1>1, <1>4, IqaxInOrder DEF LegBy, IqaxLeg, LegOf
<1>5. CASE a = "cma"
  <2>1. /\ LegBy(a, i, route).etd = Or(Shown(leg.dep, a), Now)
        /\ LegBy(a, i, route).eta = Or(Shown(leg.arr, a), Now)
        /\ LegBy(a, i, route).transit = leg.days
    BY <1>5 DEF LegBy, CmaLeg, LegOf
  <2>2. leg.dep = NoDate <=> leg.arr = NoDate
    BY <1>5 DEF Complete, Dated
  <2>3. CASE leg.dep = NoDate
    <3>1. Shown(leg.dep, a) = None /\ Shown(leg.arr, a) = None
      BY <1>1, <2>2, <2>3, DateShown
    <3> QED BY <1>1, <1>2, <2>1, <3>1 DEF Or
  <2>4. CASE leg.dep # NoDate
    BY <1>1, <1>2, <1>3, <2>1, <2>2, <2>4 DEF Or
  <2> QED BY <2>3, <2>4
<1>6. CASE a \notin {"cma", "iqax"}
  <2>1. leg.dep # NoDate /\ leg.arr # NoDate
    BY <1>6 DEF Complete, Dated
  <2>2. Shown(leg.dep, "hapag") = Shown(leg.dep, "one") /\ Shown(leg.arr, "hapag") = Shown(leg.arr, "one")
    BY DEF Shown, Layout
  <2>3. /\ LegBy(a, i, route).etd = Shown(leg.dep, a) /\ LegBy(a, i, route).eta = Shown(leg.arr, a)
        /\ LegBy(a, i, route).transit = TransitTime(Shown(leg.dep, a), Shown(leg.arr, a))
    BY <1>6, <2>2 DEF LegBy, MscLeg, OneLeg, MaerskLeg, ZimLeg, LegOf, Adapters
  <2> QED BY <1>3, <2>1, <2>3, TransitNotNegative
<1> QED BY <1>4, <1>5, <1>6

(* Its voyage has a number and its cut-offs are dates. *)
LEMMA LegDescribed ==
  ASSUME NEW a \in Adapters, NEW route \in WireRoutes, Complete(a, route), NEW i \in DOMAIN route.legs
  PROVE  /\ LegBy(a, i, route).voyage # ""
         /\ \A c \in LegBy(a, i, route).cutoffs : c.form \in {"", "local"}
<1> DEFINE leg == route.legs[i]
<1>1. leg.voyage # "blank" /\ \A c \in leg.cut : c.form \in {"local", Layout(a)}
  BY LegComplete
<1>2. VoyageOf(leg) # ""
  BY DEF VoyageOf
<1>3. LegBy(a, i, route).voyage = VoyageOf(leg)
  BY <1>1 DEF LegBy, CmaLeg, IqaxLeg, MscLeg, OneLeg, MaerskLeg, ZimLeg, LegOf, Adapters
<1>4. ASSUME NEW b, NEW c \in Cutoffs(leg.cut, b) PROVE c.form = "local"
  BY <1>4 DEF Cutoffs, Cutoff
<1>5. CASE a = "msc"
  <2>1. LegBy(a, i, route).cutoffs = leg.cut /\ Layout(a) = "local"
    BY <1>5 DEF LegBy, MscLeg, LegOf, Layout
  <2> QED BY <1>1, <1>2, <1>3, <2>1
<1>6. CASE a # "msc"
  <2>1. \E b : LegBy(a, i, route).cutoffs \subseteq Cutoffs(leg.cut, b)
    <3>1. CASE a = "cma"
      BY <3>1 DEF LegBy, CmaLeg, LegOf
    <3>2. CASE a = "iqax"
      BY <3>2 DEF LegBy, IqaxLeg, LegOf
    <3>3. CASE a \in {"one", "hapag"}
      BY <3>3 DEF LegBy, OneLeg, LegOf
    <3>4. CASE a = "maersk"
      BY <3>4 DEF LegBy, MaerskLeg, LegOf
    <3>5. CASE a = "zim"
      BY <3>5 DEF LegBy, ZimLeg, LegOf
    <3> QED BY <1>6, <3>1, <3>2, <3>3, <3>4, <3>5 DEF Adapters
  <2> QED BY <1>2, <1>3, <1>4, <2>1
<1> QED BY <1>5, <1>6

LEMMA LegValid ==
  ASSUME NEW a \in Adapters, NEW route \in WireRoutes, Complete(a, route), NEW i \in DOMAIN route.legs
  PROVE  ValidLeg(LegBy(a, i, route))
<1>1. ValidVoyage(LegBy(a, i, route))
  BY LegComplete, LegByPorts, LegInOrder, FetchAssumption DEF ValidVoyage
<1>2. ValidTransport(LegBy(a, i, route).transport)
  BY LegComplete, TransportValid
<1> QED BY <1>1, <1>2, LegDescribed DEF ValidLeg

(* A leg does not arrive before it or an earlier one departs: the first date *)
(* and the last date of a CMA route are in order.                            *)
LEMMA CmaEndsInOrder ==
  ASSUME NEW route \in WireRoutes, Complete("cma", route)
  PROVE  /\ FirstEtd(route.legs) \in Int /\ LastEta(route.legs) \in Int
         /\ FirstEtd(route.legs) <= LastEta(route.legs)
<1> DEFINE legs == route.legs
           S == {i \in DOMAIN legs : legs[i].dep # NoDate}
           f == CHOOSE i \in S : \A j \in S : i <= j
           l == CHOOSE i \in S : \A j \in S : j <= i
<1>1. "cma" \in Adapters /\ Len(legs) \in Nat /\ DOMAIN legs = 1..Len(legs)
  BY LegsTyped DEF Adapters
<1>2. S = {i \in DOMAIN legs : legs[i].arr # NoDate}
  BY DEF Complete, Dated
<1>3. CASE S = {}
  <2>1. FirstEtd(legs) = Now /\ LastEta(legs) = Now
    BY <1>2, <1>3 DEF FirstEtd, LastEta
  <2> QED BY <2>1, FetchAssumption
<1>4. CASE S # {}
  <2>1. S \in SUBSET (0..Len(legs)) /\ S \in SUBSET Nat
    BY <1>1
  <2>2. f \in S /\ l \in S /\ f <= l
    <3> HIDE DEF S, legs
    <3>1. f \in S /\ \A j \in S : f <= j
      BY <1>4, <2>1, LeastElement
    <3>2. l \in S /\ \A j \in S : j <= l
      BY <1>1, <1>4, <2>1, GreatestElement
    <3> QED BY <3>1, <3>2
  <2>3. FirstEtd(legs) = Or(Shown(legs[f].dep, "cma"), Now)
    BY <1>4 DEF FirstEtd
  <2>4. LastEta(legs) = Or(Shown(legs[l].arr, "cma"), Now)
    BY <1>2, <1>4 DEF LastEta
  <2>5. f \in DOMAIN legs /\ legs[f].dep # NoDate
    <3> HIDE DEF f
    <3> QED BY <2>2
  <2>6. l \in DOMAIN legs /\ legs[l].arr # NoDate /\ l \in f..Len(legs)
    <3> HIDE DEF f, l
    <3> QED BY <1>1, <1>2, <2>2
  <2> HIDE DEF f, l, S
  <2>7. /\ Shown(legs[f].dep, "cma") = legs[f].dep.clock /\ Shown(legs[f].dep, "cma") \in Int
        /\ Shown(legs[l].arr, "cma") = legs[l].arr.clock /\ Shown(legs[l].arr, "cma") \in Int
    BY <1>1, <2>5, <2>6, LegComplete, DateShown
  <2>8. NotAfter(legs[f].dep, legs[l].arr)
    BY <2>5, <2>6 DEF Complete, Chronological
  <2>9. legs[f].dep.clock <= legs[l].arr.clock
    BY <2>5, <2>6, <2>8 DEF NotAfter
  <2> QED BY <2>3, <2>4, <2>7, <2>9, FetchAssumption DEF Or
<1> QED BY <1>3, <1>4

LEMMA MscEndsInOrder ==
  ASSUME NEW route \in WireRoutes, Complete("msc", route)
  PROVE  /\ Shown(FirstLeg(route).dep, "msc") \in Int /\ Shown(LastLeg(route).arr, "msc") \in Int
         /\ Shown(FirstLeg(route).dep, "msc") <= Shown(LastLeg(route).arr, "msc")
<1> DEFINE legs == route.legs
           n == Len(legs)
<1>1. "msc" \in Adapters /\ n \in Nat /\ n >= 1 /\ 1 \in DOMAIN legs /\ n \in DOMAIN legs
  BY LegsTyped DEF Adapters, Complete, Joined
<1>2. legs[1].dep # NoDate /\ legs[n].arr # NoDate
  BY <1>1 DEF Complete, Dated
<1>3. NotAfter(legs[1].dep, legs[n].arr)
  BY <1>1 DEF Complete, Chronological
<1>4. /\ Shown(legs[1].dep, "msc") = legs[1].dep.clock /\ Shown(legs[1].dep, "msc") \in Int
      /\ Shown(legs[n].arr, "msc") = legs[n].arr.clock /\ Shown(legs[n].arr, "msc") \in Int
  BY <1>1, <1>2, LegComplete, DateShown
<1> QED BY <1>2, <1>3, <1>4 DEF NotAfter, FirstLeg, LastLeg

LEMMA CompleteScheduleValid ==
  ASSUME NEW a \in Adapters, NEW route \in WireRoutes, Complete(a, route)
  PROVE  ValidSchedule(GenerateSchedule(a, route))
<1> DEFINE s == GenerateSchedule(a, route)
           legs == route.legs
           etd == Shown(route.etd, a)
           eta == Shown(route.eta, a)
<1>1. /\ route.scac /\ route.from # NoPort /\ route.to # NoPort /\ Joined(route, legs)
      /\ route.days \in Int /\ route.days >= 0
  BY DEF Complete, Described, Chronological, WireRoutes
<1>2. etd \in Int /\ eta \in Int /\ etd <= eta
  BY RouteDates
<1>3. s.scac /\ s.from = route.from /\ s.to = route.to
  <2>1. s.scac
    BY <1>1 DEF GenerateSchedule, CmaSchedule, IqaxSchedule, MscSchedule, OneSchedule, HapagSchedule,
                MaerskSchedule, ZimSchedule, ScheduleOf, Adapters
  <2> QED BY <1>1, <2>1, ScheduleEnds
<1>4. s.etd \in Int /\ s.eta \in Int /\ s.etd <= s.eta /\ s.transit >= 0
  <2>1. CASE a = "cma"
    BY <1>1, <2>1, CmaEndsInOrder DEF GenerateSchedule, CmaSchedule, ScheduleOf
  <2>2. CASE a = "msc"
    BY <2>2, MscEndsInOrder, TransitNotNegative DEF GenerateSchedule, MscSchedule, ScheduleOf
  <2>3. CASE a \in {"one", "hapag"}
    <3>1. Shown(route.etd, "one") = etd /\ Shown(route.eta, "one") = eta
      BY <2>3 DEF Shown, Layout
    <3>2. /\ s.etd = etd /\ s.eta = eta
          /\ s.transit = IF route.days = 0 THEN TransitTime(etd, eta) ELSE route.days
      BY <2>3, <3>1 DEF GenerateSchedule, OneSchedule, HapagSchedule, ScheduleOf
    <3> HIDE DEF s, etd, eta
    <3> QED BY <1>1, <1>2, <3>2, TransitNotNegative
  <2>4. CASE a = "maersk"
    <3>1. (route.days * 1440) \div 1400 >= 0
      BY <1>1
    <3> QED BY <1>2, <2>4, <3>1 DEF GenerateSchedule, MaerskSchedule, ScheduleOf
  <2>5. CASE a \in {"iqax", "zim"}
    BY <1>1, <1>2, <2>5 DEF GenerateSchedule, IqaxSchedule, ZimSchedule, ScheduleOf
  <2> QED BY <2>1, <2>2, <2>3, <2>4, <2>5 DEF Adapters
<1>5. ValidVoyage(s)
  <2> HIDE DEF s
  <2> QED BY <1>1, <1>3, <1>4, FetchAssumption DEF ValidVoyage
<1>6. ASSUME NEW j \in DOMAIN s.legs
      PROVE  ValidLeg(s.legs[j])
  <2>1. s.legs \in Seq({LegBy(a, i, route) : i \in DOMAIN legs})
    BY LegsShown
  <2>2. PICK i \in DOMAIN legs : s.legs[j] = LegBy(a, i, route)
    <3> HIDE DEF s
    <3> QED BY <2>1
  <2> HIDE DEF s
  <2> QED BY <2>2, LegValid
<1> QED BY <1>3, <1>5, <1>6 DEF ValidSchedule

(* What a carrier states completely, but for the dates that its adapter      *)
(* makes up for, and in the order of the clocks is never why its answer is   *)
(* turned down.                                                              *)
THEOREM CompleteAccepted == Spec => []CompleteIsValid
<1>1. Adapted => CompleteIsValid
  <2> SUFFICES ASSUME Adapted, NEW i \in DOMAIN schedules, Complete(adapter, routes[i])
               PROVE  ValidSchedule(schedules[i])
    BY DEF CompleteIsValid, Complete
  <2>1. schedules # << >>
    OBVIOUS
  <2>2. /\ adapter \in Adapters /\ routes[i] \in WireRoutes
        /\ schedules[i] = GenerateSchedule(adapter, routes[i])
    BY <2>1 DEF Adapted
  <2> QED BY <2>2, CompleteScheduleValid
<1> QED BY <1>1, AdaptedInvariance, PTL

-----------------------------------------------------------------------------
(* The searches. *)

(* A schedule is found exactly when the filters let it through. *)
LEMMA FoundIfLetThrough ==
  ASSUME Adapted, pc = "returned", NEW i \in DOMAIN schedules
  PROVE  /\ adapter \in Adapters /\ routes[i] \in WireRoutes
         /\ schedules[i] = GenerateSchedule(adapter, routes[i])
         /\ Found(i) <=> ScheduleFilters(schedules[i], query)
<1>1. schedules # << >>
  OBVIOUS
<1>2. /\ adapter \in Adapters /\ routes[i] \in WireRoutes
      /\ schedules[i] = GenerateSchedule(adapter, routes[i])
  BY <1>1 DEF Adapted
<1> DEFINE S == {GenerateSchedule(adapter, routes[k]) : k \in DOMAIN routes}
           Through == {k \in DOMAIN schedules : ScheduleFilters(schedules[k], query)}
<1>3. schedules \in Seq(S)
  BY <1>1 DEF Adapted
<1>4. kept = ElementsAt(schedules, Through)
  BY <1>1 DEF Adapted, PostFilter
<1>5. kept \in Seq(S) /\ Selects(kept, schedules, Through)
  <2>1. Through \in SUBSET DOMAIN schedules
    OBVIOUS
  <2> HIDE DEF Through, S
  <2> QED BY <1>3, <1>4, <2>1, ElementsAtSelects
<1>6. ASSUME Found(i) PROVE ScheduleFilters(schedules[i], query)
  <2>1. PICK k \in DOMAIN kept : kept[k] = schedules[i]
    BY <1>6 DEF Found
  <2>2. PICK j \in Through : kept[k] = schedules[j]
    BY <1>5 DEF Selects
  <2> QED BY <2>1, <2>2
<1>7. ASSUME ScheduleFilters(schedules[i], query) PROVE Found(i)
  <2>1. i \in Through
    BY <1>7
  <2> QED BY <1>5, <2>1 DEF Selects, Found
<1> QED BY <1>2, <1>6, <1>7

(* Only a vessel's own number is shown as a vessel's number, and it is shown *)
(* of every leg on a named vessel.                                           *)
LEMMA RealReference ==
  ASSUME NEW a \in Adapters, NEW route \in WireRoutes, NEW i \in DOMAIN route.legs
  PROVE  /\ LegBy(a, i, route).transport.reference = "real" => route.legs[i].imo = "real"
         /\ route.legs[i].imo = "real" /\ route.legs[i].name = "named"
            /\ route.legs[i].mode # "Truck" => LegBy(a, i, route).transport.reference = "real"
<1> DEFINE leg == route.legs[i]
<1>1. ASSUME NEW type, NEW reference
      PROVE  MapTransport(type, reference).reference = "real" <=> reference = "real"
  BY References DEF MapTransport
<1> HIDE DEF leg
<1>2. CASE a = "cma"
  <2> DEFINE reference == IF leg.imo = "" /\ leg.mode = "Barge" THEN "9" ELSE leg.imo
  <2>1. LegBy(a, i, route).transport = MapTransport(leg.mode, reference)
    BY <1>2 DEF LegBy, CmaLeg, LegOf, leg
  <2>2. reference = "real" <=> leg.imo = "real"
    OBVIOUS
  <2> HIDE DEF reference
  <2> QED BY <1>1, <2>1, <2>2 DEF leg
<1>3. CASE a = "iqax"
  <2>1. LegBy(a, i, route).transport = MapTransport(leg.mode, IqaxReference(leg))
    BY <1>3 DEF LegBy, IqaxLeg, LegOf, leg
  <2>2. IqaxReference(leg) = "real" <=> leg.imo = "real"
    BY DEF IqaxReference
  <2> QED BY <1>1, <2>1, <2>2 DEF leg
<1>4. CASE a = "msc"
  <2>1. LegBy(a, i, route).transport = MapTransport("Vessel", leg.imo)
    BY <1>4 DEF LegBy, MscLeg, LegOf, leg
  <2> QED BY <1>1, <2>1 DEF leg
<1>5. CASE a \in {"one", "hapag"}
  <2> DEFINE type == IF leg.mode = "" THEN "Vessel" ELSE leg.mode
  <2>1. LegBy(a, i, route).transport = MapTransport(type, DcsaReference(leg))
    BY <1>5 DEF LegBy, OneLeg, LegOf, leg
  <2>2. DcsaReference(leg) = "real" <=> leg.imo = "real"
    BY DEF DcsaReference
  <2> HIDE DEF type
  <2> QED BY <1>1, <2>1, <2>2 DEF leg
<1>6. CASE a = "maersk"
  <2> DEFINE reference == IF leg.imo = "placeholder" THEN "1" ELSE leg.imo
  <2>1. LegBy(a, i, route).transport = MapTransport(TransportType(leg.mode), reference)
    BY <1>6 DEF LegBy, MaerskLeg, LegOf, leg
  <2>2. reference = "real" <=> leg.imo = "real"
    OBVIOUS
  <2> HIDE DEF reference
  <2> QED BY <1>1, <2>1, <2>2 DEF leg
<1>7. CASE a = "zim"
  <2>1. LegBy(a, i, route).transport = ZimTransport(leg)
    BY <1>7 DEF LegBy, ZimLeg, LegOf, leg
  <2>2. CASE leg.name = "unknown line"
    <3>1. ZimTransport(leg) = MapTransport("Vessel", "9")
      BY <2>2 DEF ZimTransport
    <3> QED BY <1>1, <2>1, <2>2, <3>1 DEF leg
  <2>3. CASE leg.name = "tba"
    <3>1. ZimTransport(leg) = MapTransport("Vessel", "1")
      BY <2>3 DEF ZimTransport
    <3> QED BY <1>1, <2>1, <2>3, <3>1 DEF leg
  <2>4. CASE leg.name \notin {"unknown line", "tba"}
    <3> DEFINE reference == IF leg.mode = "Truck" THEN "3" ELSE leg.imo
    <3>1. ZimTransport(leg) = MapTransport(TransportType(leg.mode), reference)
      BY <2>4 DEF ZimTransport
    <3>2. /\ reference = "real" => leg.imo = "real"
          /\ leg.imo = "real" /\ leg.mode # "Truck" => reference = "real"
      OBVIOUS
    <3> HIDE DEF reference
    <3> QED BY <1>1, <2>1, <3>1, <3>2 DEF leg
  <2> QED BY <2>2, <2>3, <2>4
<1> QED BY <1>2, <1>3, <1>4, <1>5, <1>6, <1>7 DEF Adapters

LEMMA VesselShown ==
  ASSUME NEW a \in Adapters, NEW route \in WireRoutes
  PROVE  LET legs == GenerateSchedule(a, route).legs
             On(w) == route.legs[w].imo = "real"
             Plain(w) == /\ route.legs[w].from # route.legs[w].to
                         /\ route.legs[w].name = "named" /\ route.legs[w].mode # "Truck"
         IN  /\ (\E j \in DOMAIN legs : legs[j].transport.reference = "real")
                  => \E w \in DOMAIN route.legs : On(w)
             /\ (\E w \in DOMAIN route.legs : On(w) /\ Plain(w))
                  => \E j \in DOMAIN legs : legs[j].transport.reference = "real"
<1> DEFINE shown == GenerateSchedule(a, route).legs
           all == [i \in DOMAIN route.legs |-> LegBy(a, i, route)]
           I == ShownIndexes(a, route)
<1>1. PICK at : Indexes(shown, all, I, at)
  BY LegsShown
<1>2. DOMAIN shown = 1..Len(shown)
  BY PortsShown
<1>3. I \subseteq DOMAIN route.legs
      /\ \A w \in DOMAIN route.legs : route.legs[w].from # route.legs[w].to => w \in I
  BY DEF ShownIndexes, Moving
<1> HIDE DEF shown, I
<1>4. ASSUME NEW j \in DOMAIN shown, shown[j].transport.reference = "real"
      PROVE  \E w \in DOMAIN route.legs : route.legs[w].imo = "real"
  <2>1. at[j] \in DOMAIN route.legs /\ shown[j] = LegBy(a, at[j], route)
    <3>1. at[j] \in I /\ shown[j] = all[at[j]]
      BY <1>1, <1>2 DEF Indexes
    <3> QED BY <1>3, <3>1
  <2> QED BY <1>4, <2>1, RealReference
<1>5. ASSUME NEW w \in DOMAIN route.legs, route.legs[w].imo = "real",
             route.legs[w].from # route.legs[w].to,
             route.legs[w].name = "named", route.legs[w].mode # "Truck"
      PROVE  \E j \in DOMAIN shown : shown[j].transport.reference = "real"
  <2>1. w \in I
    BY <1>3, <1>5
  <2>2. PICK j \in 1..Len(shown) : at[j] = w
    BY <1>1, <2>1 DEF Indexes
  <2>3. shown[j] = LegBy(a, w, route)
    BY <1>1, <2>2 DEF Indexes
  <2> QED BY <1>2, <1>5, <2>3, RealReference
<1> QED BY <1>4, <1>5 DEF shown

(* A search by a vessel finds the itineraries that the carrier says are on   *)
(* it, and no others.                                                        *)
THEOREM VesselsFound == Spec => []VesselSearch
<1>1. Adapted => VesselSearch
  <2> SUFFICES ASSUME Adapted, Searched(Query(FALSE, NoPort, "real", "")),
                      NEW i \in DOMAIN schedules
               PROVE  /\ Found(i) => \E w \in DOMAIN routes[i].legs : routes[i].legs[w].imo = "real"
                      /\ (\E w \in DOMAIN routes[i].legs :
                            /\ routes[i].legs[w].imo = "real"
                            /\ routes[i].legs[w].from # routes[i].legs[w].to
                            /\ routes[i].legs[w].name = "named" /\ routes[i].legs[w].mode # "Truck")
                         => Found(i)
    BY DEF VesselSearch
  <2>1. /\ adapter \in Adapters /\ routes[i] \in WireRoutes
        /\ schedules[i] = GenerateSchedule(adapter, routes[i])
        /\ Found(i) <=> ScheduleFilters(schedules[i], query)
    BY FoundIfLetThrough DEF Searched
  <2>2. ScheduleFilters(schedules[i], query) <=>
          \E j \in DOMAIN schedules[i].legs : schedules[i].legs[j].transport.reference = "real"
    BY DEF Searched, Query, ScheduleFilters, WithDirectOnly, WithTSP, WithVesselIMO, WithService
  <2> QED BY <2>1, <2>2, VesselShown
<1> QED BY <1>1, AdaptedInvariance, PTL

(* The port is where a leg after the first leads from or to. *)
ComesAfterwards(port, legs) == \E j \in 2..Len(legs) : port \in {legs[j].from, legs[j].to}

LEMMA TransshipmentShown ==
  ASSUME NEW a \in Adapters, NEW route \in WireRoutes, Joined(route, route.legs),
         route.from # route.to, NEW port
  PROVE  /\ port \notin {route.from, route.to} /\ (\E w \in DOMAIN route.legs : route.legs[w].to = port)
              => ComesAfterwards(port, GenerateSchedule(a, route).legs)
         /\ ComesAfterwards(port, GenerateSchedule(a, route).legs)
              => /\ Len(route.legs) > 1
                 /\ \E w \in DOMAIN route.legs : port \in {route.legs[w].from, route.legs[w].to}
<1> DEFINE legs == route.legs
           shown == GenerateSchedule(a, route).legs
<1>1. /\ Len(legs) \in Nat \ {0} /\ DOMAIN legs = 1..Len(legs)
      /\ legs[Len(legs)].to = route.to
      /\ \A i \in 2..Len(legs) : legs[i].from = legs[i - 1].to
  BY LegsTyped DEF Joined
<1>2. PICK at : ShowsAt(legs, shown, at)
  BY PortsShown
<1>3. Len(shown) \in Nat
  BY PortsShown
<1>4. shown[1].from = route.from
  BY LegsStayJoined, ScheduleEnds DEF Joined
<1> HIDE DEF legs, shown
<1>5. /\ \A k \in 1..Len(shown) : /\ at[k] \in 1..Len(legs)
                                  /\ shown[k].from = legs[at[k]].from /\ shown[k].to = legs[at[k]].to
      /\ \A i \in 1..Len(legs) : legs[i].from # legs[i].to => \E k \in 1..Len(shown) : at[k] = i
      /\ \A j, k \in 1..Len(shown) : j < k => at[j] < at[k]
  BY <1>2 DEF ShowsAt
<1>6. ASSUME port \notin {route.from, route.to}, NEW v \in DOMAIN legs, legs[v].to = port
      PROVE  \E j \in 2..Len(shown) : port \in {shown[j].from, shown[j].to}
  <2> DEFINE T == {w \in 1..Len(legs) : legs[w].to = port}
  <2>1. PICK w \in T : \A x \in T : x <= w
    <3>1. v \in T /\ T \in SUBSET (0..Len(legs)) /\ Len(legs) \in Nat
      BY <1>1, <1>6
    <3> HIDE DEF T
    <3> QED BY <3>1, GreatestElement
  <2>2. w # Len(legs) /\ w \in 1..Len(legs)
    BY <1>1, <1>6
  <2>3. w + 1 \in 2..Len(legs) /\ w + 1 \in 1..Len(legs) /\ (w + 1) - 1 = w /\ ~(w + 1 <= w)
    <3>1. Len(legs) \in Nat
      BY <1>1
    <3> HIDE DEF T
    <3> QED BY <2>2, <3>1
  <2>4. legs[w + 1].from = port
    BY <1>1, <2>3
  <2>5. legs[w + 1].to # port
    BY <2>1, <2>3
  <2>6. PICK j \in 1..Len(shown) : at[j] = w + 1
    BY <1>5, <2>3, <2>4, <2>5
  <2>7. shown[j].from = port
    BY <1>5, <2>4, <2>6
  <2>8. j # 1
    BY <1>4, <1>6, <2>7
  <2>9. j \in 2..Len(shown)
    BY <1>3, <2>8
  <2> QED BY <2>7, <2>9
<1>7. ASSUME NEW j \in 2..Len(shown), port \in {shown[j].from, shown[j].to}
      PROVE  Len(legs) > 1 /\ \E w \in DOMAIN legs : port \in {legs[w].from, legs[w].to}
  <2>1. j \in 1..Len(shown) /\ 1 \in 1..Len(shown) /\ 1 < j
    BY <1>3
  <2>2. at[j] \in 1..Len(legs) /\ at[1] \in 1..Len(legs) /\ at[1] < at[j]
    BY <1>5, <2>1
  <2>3. Len(legs) > 1
    BY <1>1, <2>2
  <2>4. port \in {legs[at[j]].from, legs[at[j]].to}
    BY <1>5, <1>7, <2>1
  <2> QED BY <1>1, <2>2, <2>3, <2>4
<1> QED BY <1>6, <1>7 DEF legs, shown, ComesAfterwards

(* A search by a port of transshipment finds every itinerary that changes    *)
(* there, and none that never comes there or has a single leg.               *)
THEOREM TransshipmentsFound == Spec => []TransshipmentSearch
<1>1. Adapted => TransshipmentSearch
  <2> SUFFICES ASSUME Adapted, NEW port \in {query.tsp} \ {NoPort},
                      Searched(Query(FALSE, port, "", "")), NEW i \in DOMAIN schedules,
                      Joined(routes[i], routes[i].legs), routes[i].from # routes[i].to
               PROVE  /\ (/\ port \notin {routes[i].from, routes[i].to}
                          /\ \E w \in DOMAIN routes[i].legs : routes[i].legs[w].to = port) => Found(i)
                      /\ Found(i) => /\ Len(routes[i].legs) > 1
                                     /\ \E w \in DOMAIN routes[i].legs :
                                          port \in {routes[i].legs[w].from, routes[i].legs[w].to}
    BY DEF TransshipmentSearch
  <2>1. /\ adapter \in Adapters /\ routes[i] \in WireRoutes
        /\ schedules[i] = GenerateSchedule(adapter, routes[i])
        /\ Found(i) <=> ScheduleFilters(schedules[i], query)
    BY FoundIfLetThrough DEF Searched
  <2>2. ScheduleFilters(schedules[i], query) <=> ComesAfterwards(port, schedules[i].legs)
    BY DEF Searched, Query, ScheduleFilters, WithDirectOnly, WithTSP, WithVesselIMO, WithService,
           ComesAfterwards
  <2> QED BY <2>1, <2>2, TransshipmentShown
<1> QED BY <1>1, AdaptedInvariance, PTL
=============================================================================
