----------------------------- MODULE PostFilters -----------------------------
(***************************************************************************)
(* The filters a carrier's schedules go through when the request narrows   *)
(* its search: post_filters.go.  A parameter that is left out filters      *)
(* nothing; the request that leaves out all of them has no filter stage.   *)
(***************************************************************************)
EXTENDS CarrierAdapters

(* The parameters of a request that its schedules are filtered by. *)
Query(directOnly, tsp, vesselIMO, service) ==
  [directOnly |-> directOnly, tsp |-> tsp, vesselIMO |-> vesselIMO, service |-> service]

WithDirectOnly(schedule, query) == query.directOnly => ~schedule.transshipment

\* mutant of WithTSP: only where the legs lead to is looked at
WithTSPLeadingTo(schedule, query) ==
  query.tsp # NoPort => \E i \in 2..Len(schedule.legs) : query.tsp = schedule.legs[i].to

(* Legs[1:]: the end of the first leg is looked at as the start of another.  *)
WithTSP(schedule, query) ==
  query.tsp # NoPort =>
    \E i \in 2..Len(schedule.legs) : query.tsp \in {schedule.legs[i].from, schedule.legs[i].to}

WithVesselIMO(schedule, query) ==
  query.vesselIMO # "" =>
    \E i \in DOMAIN schedule.legs : schedule.legs[i].transport.reference = query.vesselIMO

(* The name of a service is not looked at. *)
WithService(schedule, query) ==
  query.service # "" =>
    \E i \in DOMAIN schedule.legs : schedule.legs[i].services.code = query.service

ScheduleFilters(schedule, query) ==
  /\ WithDirectOnly(schedule, query) /\ WithTSP(schedule, query)
  /\ WithVesselIMO(schedule, query) /\ WithService(schedule, query)

(* Legs[1:] of no legs, unless an earlier filter has turned the schedule     *)
(* down.                                                                     *)
FilterPanics(schedule, query) ==
  WithDirectOnly(schedule, query) /\ query.tsp # NoPort /\ schedule.legs = << >>

PostFilter(schedules, query) ==
  ElementsAt(schedules, {i \in DOMAIN schedules : ScheduleFilters(schedules[i], query)})
=============================================================================
