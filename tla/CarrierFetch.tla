---------------------------- MODULE CarrierFetch ----------------------------
(***************************************************************************)
(* FetchCarrierSchedule for one carrier: the factory picks the service,    *)
(* FetchSchedule gets what the carrier wants first - a token, or details   *)
(* of both ports, one after the other -, asks for the schedules and hands  *)
(* the answer to the adapter; what it makes of it is then filtered.  Each  *)
(* call is a Fetch of HttpFetch; here it yields a document or an error.    *)
(***************************************************************************)
EXTENDS PostFilters

CONSTANTS
  Routes,       \* what a carrier may say of a route
  MaxRoutes,    \* bound: routes in an answer
  Queries       \* what a request may ask its schedules to be filtered by

ASSUME FetchAssumption ==
  None \notin Int /\ Now \in Int /\ MaxRoutes \in Nat /\ Routes \subseteq WireRoutes

VARIABLES
  adapter,      \* the provider of the carrier asked for, or "unsupported"
  query,        \* the parameters of the request
  pc,
  token,        \* what the call for a token yielded
  origin, destination,  \* what the calls for the ports' details yielded
  routes,       \* what the carrier answered: unmarshalled and not yet adapted
  schedules,    \* what FetchSchedule returned
  kept,         \* what of it the filters let through
  crashed       \* the goroutine panicked: the process is gone

vars == <<adapter, query, pc, token, origin, destination, routes, schedules, kept, crashed>>
asked == <<adapter, query>>

Adapters == {"cma", "iqax", "msc", "one", "hapag", "maersk", "zim"}
RequiresAuth == {"msc", "one", "zim"}
RequiresLocation == {"maersk"}

Init ==
  /\ adapter \in Adapters \cup {"unsupported"} /\ query \in Queries
  /\ pc = "create"
  /\ token = "none" /\ origin = "none" /\ destination = "none"
  /\ routes = << >> /\ schedules = << >> /\ kept = << >>
  /\ crashed = FALSE

Return == pc' = "returned" /\ UNCHANGED <<routes, schedules, crashed>>
Panic == crashed' = TRUE /\ UNCHANGED <<pc, routes, schedules>>

(* CreateScheduleService, and the switch of FetchSchedule. *)
Create ==
  /\ pc = "create"
  /\ pc' = CASE adapter = "unsupported" -> "returned"
             [] adapter \in RequiresAuth -> "token"
             [] adapter \in RequiresLocation -> "origin"
             [] OTHER -> "ask"
  /\ UNCHANGED <<asked, token, origin, destination, routes, schedules, kept, crashed>>

(* A document without access_token panics: its value is asserted a string.   *)
GetOAuthToken ==
  /\ pc = "token"
  /\ \/ token' = "token" /\ pc' = "ask" /\ UNCHANGED <<routes, schedules, crashed>>
     \/ token' = "error" /\ Return
     \/ token' = "other document" /\ Panic
  /\ UNCHANGED <<asked, origin, destination, kept>>

(* The error of either call is not looked at; its location stays nil. *)
GetOrigin ==
  /\ pc = "origin"
  /\ origin' \in {"found", "no match", "error"}
  /\ pc' = "destination"
  /\ UNCHANGED <<asked, token, destination, routes, schedules, kept, crashed>>

\* mutant of GetDestination: gives up only when neither end is known
GetDestinationEither ==
  /\ pc = "destination"
  /\ destination' \in {"found", "no match", "error"}
  /\ IF origin = "error" /\ destination' = "error" THEN Return
     ELSE pc' = "ask" /\ UNCHANGED <<routes, schedules, crashed>>
  /\ UNCHANGED <<asked, token, origin, kept>>

(* nil for either: break, and nothing is asked.  An empty list is not nil:   *)
(* its first element is indexed, and panics.                                 *)
GetDestination ==
  /\ pc = "destination"
  /\ destination' \in {"found", "no match", "error"}
  /\ IF "error" \in {origin, destination'} THEN Return
     ELSE IF "no match" \in {origin, destination'} THEN Panic
     ELSE pc' = "ask" /\ UNCHANGED <<routes, schedules, crashed>>
  /\ UNCHANGED <<asked, token, origin, kept>>

(* The call for the schedules: an answer, or an error of the call or of the  *)
(* unmarshalling.                                                            *)
Ask ==
  /\ pc = "ask"
  /\ \/ /\ pc' = "generate"
        /\ \E n \in 0..MaxRoutes : routes' \in [1..n -> Routes]
        /\ UNCHANGED <<schedules, crashed>>
     \/ Return
  /\ UNCHANGED <<asked, token, origin, destination, kept>>

Generate ==
  /\ pc = "generate"
  /\ IF \E i \in DOMAIN routes : Panics(adapter, routes[i]) THEN Panic
     ELSE /\ pc' = "filter"
          /\ schedules' = [i \in DOMAIN routes |-> GenerateSchedule(adapter, routes[i])]
          /\ UNCHANGED <<routes, crashed>>
  /\ UNCHANGED <<asked, token, origin, destination, kept>>

(* FilterSchedule, for the batch of this carrier. *)
Filter ==
  /\ pc = "filter"
  /\ IF \E i \in DOMAIN schedules : FilterPanics(schedules[i], query)
     THEN Panic /\ UNCHANGED kept
     ELSE /\ pc' = "returned" /\ kept' = PostFilter(schedules, query)
          /\ UNCHANGED <<routes, schedules, crashed>>
  /\ UNCHANGED <<asked, token, origin, destination>>

Next ==
  /\ ~crashed
  /\ Create \/ GetOAuthToken \/ GetOrigin \/ GetDestination \/ Ask \/ Generate \/ Filter

Spec == Init /\ [][Next]_vars

-----------------------------------------------------------------------------
(* Properties. *)

(* A carrier is asked, and its answer adapted, only with what it requires:   *)
(* a token, or the details of both ports; an error of any of those calls     *)
(* ends the fetch with nothing.                                              *)
AskedWithWhatItRequires ==
  pc \in {"ask", "generate"} \/ schedules # << >> =>
    /\ adapter # "unsupported"
    /\ adapter \in RequiresAuth => token = "token"
    /\ adapter \in RequiresLocation => origin = "found" /\ destination = "found"

(* One date is not after another, by the clocks of their places and where    *)
(* both are stated.                                                          *)
NotAfter(date, other) == NoDate \notin {date, other} => date.clock <= other.clock

(* The dates of a route follow one another: no leg arrives before it or an   *)
(* earlier one departs, or before the route does, and none departs after the *)
(* route arrives; nothing takes less than no time.                           *)
Chronological(route) ==
  /\ route.days >= 0 /\ \A i \in DOMAIN route.legs : route.legs[i].days >= 0
  /\ NotAfter(route.etd, route.eta)
  /\ \A i \in DOMAIN route.legs :
       /\ NotAfter(route.etd, route.legs[i].arr) /\ NotAfter(route.legs[i].dep, route.eta)
       /\ \A j \in i..Len(route.legs) : NotAfter(route.legs[i].dep, route.legs[j].arr)

(* The dates are in a form that the adapter reads, and stated: those of the  *)
(* route, and of its legs, or else the adapter makes up for them: IQAX works *)
(* a leg's date out from the other one, the duration and the route, but not  *)
(* the arrival of a second leg on TRUCK; CMA takes now for both dates.       *)
Readable(by, date) == Shown(date, by) # None
Dated(by, route) ==
  /\ Readable(by, route.etd) /\ Readable(by, route.eta)
  /\ \A i \in DOMAIN route.legs :
       LET leg == route.legs[i]
       IN  /\ \A date \in {leg.dep, leg.arr} : date = NoDate \/ Readable(by, date)
           /\ CASE by = "iqax" -> i = 2 => leg.name # "truck"
                [] by = "cma" -> leg.dep = NoDate <=> leg.arr = NoDate
                [] OTHER -> NoDate \notin {leg.dep, leg.arr}

(* What else the carrier has to state: ports, a mode the service knows, a    *)
(* voyage that has a number if it is listed, and cut-offs that can be read.  *)
Described(by, route) ==
  /\ route.scac /\ NoPort \notin {route.from, route.to}
  /\ \A i \in DOMAIN route.legs :
       LET leg == route.legs[i]
       IN  /\ NoPort \notin {leg.from, leg.to} /\ leg.mode \in Known /\ leg.voyage # "blank"
           /\ \A c \in leg.cut : c.form \in {"local", Layout(by)}

(* The legs lead from the route's origin to its destination. *)
Joined(ends, legs) ==
  /\ legs # << >> /\ legs[1].from = ends.from /\ legs[Len(legs)].to = ends.to
  /\ \A i \in 2..Len(legs) : legs[i].from = legs[i - 1].to

(* A route that the carrier describes, dates - but for the dates of legs that *)
(* the adapter makes up for - and puts in order makes a valid schedule,      *)
(* whichever adapter reads it: one that is invalid would take the whole      *)
(* answer of its carrier with it.  In order is by the clocks: offsets are    *)
(* not looked at, so a leg that ends in a zone further west at an earlier    *)
(* hour than it began is turned down, which this does not deny.              *)
CompleteIsValid ==
  \A i \in DOMAIN schedules :
    LET route == routes[i]
    IN  /\ Described(adapter, route) /\ Dated(adapter, route)
        /\ Chronological(route) /\ Joined(route, route.legs)
        => ValidSchedule(schedules[i])

(* The legs of a schedule lead from its origin to its destination whenever   *)
(* those of the route do, although one adapter leaves legs out and two read  *)
(* the ends off the legs.                                                    *)
StaysJoined ==
  \A i \in DOMAIN schedules :
    Joined(routes[i], routes[i].legs) /\ routes[i].from # routes[i].to =>
      Joined(schedules[i], schedules[i].legs)

(* The search of the request, if it narrows it by one parameter only, was    *)
(* made in a batch, and this schedule was found.                             *)
Searched(by) == pc = "returned" /\ schedules # << >> /\ query = by
Found(i) == \E k \in DOMAIN kept : kept[k] = schedules[i]

(* A search by a vessel finds the itineraries one leg of which the carrier   *)
(* says is on it, and no other: whatever an adapter puts into the reference  *)
(* of a leg without a vessel, a placeholder or a type's code, is no vessel's *)
(* number, and no leg on a named vessel loses its own.                       *)
VesselSearch ==
  Searched(Query(FALSE, NoPort, "real", "")) =>
    \A i \in DOMAIN schedules :
      LET On(w) == routes[i].legs[w].imo = "real"
          Plain(w) ==
            LET leg == routes[i].legs[w]
            IN  leg.from # leg.to /\ leg.name = "named" /\ leg.mode # "Truck"
      IN  /\ Found(i) => \E w \in DOMAIN routes[i].legs : On(w)
          /\ (\E w \in DOMAIN routes[i].legs : On(w) /\ Plain(w)) => Found(i)

(* A search by a port of transshipment finds every itinerary that changes    *)
(* there on its way, although the filter skips the first leg and an adapter  *)
(* leaves legs out, and none that never comes there or has a single leg.     *)
(* (It also finds those that end there after a change elsewhere.)            *)
TransshipmentSearch ==
  \A port \in {query.tsp} \ {NoPort} : Searched(Query(FALSE, port, "", "")) =>
    \A i \in DOMAIN schedules :
      LET legs == routes[i].legs
          route == routes[i]
      IN  Joined(route, legs) /\ route.from # route.to =>
            /\ (port \notin {route.from, route.to} /\ \E w \in DOMAIN legs : legs[w].to = port)
                 => Found(i)
            /\ Found(i) =>
                 Len(legs) > 1 /\ \E w \in DOMAIN legs : port \in {legs[w].from, legs[w].to}

(* The description of the parameter service (request_schema.go:67): "Service *)
(* code or service name".  A search by a service finds the itineraries one   *)
(* leg of which is shown with it, by its code or by its name.                *)
ServiceByCodeOrName ==
  \A service \in {query.service} \ {""} : Searched(Query(FALSE, NoPort, "", service)) =>
    \A i \in DOMAIN schedules :
      (\E j \in DOMAIN schedules[i].legs :
         LET shown == schedules[i].legs[j].services IN service \in {shown.code, shown.name})
      => Found(i)
=============================================================================
