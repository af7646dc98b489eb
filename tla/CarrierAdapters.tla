--------------------------- MODULE CarrierAdapters ---------------------------
(***************************************************************************)
(* From the route a carrier answers with to the schedule that is streamed: *)
(* GenerateSchedule of the seven point-to-point adapters, MapTransport and *)
(* the validator of the response.                                          *)
(*                                                                         *)
(* The adapters read different documents of the same content.  A route is  *)
(* that content: ports are positive numbers, a leg's mode is a transport   *)
(* type, one the service does not know or "", its imo is a vessel's        *)
(* number, the carrier's placeholder for one, or "", and its voyage is "", *)
(* a number or "blank": listed without one.  Names and terminals are left  *)
(* out.                                                                    *)
(***************************************************************************)
EXTENDS Integers, Sequences, Subsequences

CONSTANTS
  None,     \* no date, or none that can be read: it converts to ""
  Now       \* the clock at the request

NoPort == 0     \* no port code, or one that is not of the form of a UN/LOCODE

(* A date on the wire: the hour that the clocks of its place show, and the   *)
(* form it is written in: "local" without an offset, in "utc", or with an    *)
(* "offset".  The offset itself is read nowhere (see ConvertDateFormat).     *)
Date(form, clock) == [form |-> form, clock |-> clock]
NoDate == Date("", 0)
Day == 24

(* What a carrier says of a leg, of its cut-off dates, and of a route.       *)
(* bare: something the adapter indexes or dereferences is not there.         *)
WireLeg(from, to, dep, arr, days, mode, name, imo, cut, service, voyage, bare) ==
  [from |-> from, to |-> to, dep |-> dep, arr |-> arr, days |-> days, mode |-> mode, name |-> name,
   imo |-> imo, cut |-> cut, service |-> service, voyage |-> voyage, bare |-> bare]

Cutoff(kind, form) == [kind |-> kind, form |-> form]

Service(code, name) == [code |-> code, name |-> name]
NoService == Service("", "")

Route(scac, from, to, etd, eta, days, direct, bare, legs) ==
  [scac |-> scac, from |-> from, to |-> to, etd |-> etd, eta |-> eta, days |-> days,
   direct |-> direct, bare |-> bare, legs |-> legs]

(* All that a carrier may state, whether it makes sense or not. *)
Dates == [form : STRING, clock : Int]
WireLegs ==
  [from : Nat, to : Nat, dep : Dates, arr : Dates, days : Int, mode : STRING, name : STRING,
   imo : STRING, cut : SUBSET [kind : STRING, form : STRING],
   service : [code : STRING, name : STRING], voyage : STRING, bare : BOOLEAN]
WireRoutes ==
  [scac : BOOLEAN, from : Nat, to : Nat, etd : Dates, eta : Dates, days : Int, direct : BOOLEAN,
   bare : BOOLEAN, legs : Seq(WireLegs)]

-----------------------------------------------------------------------------
(* What the adapters share. *)

Or(date, other) == IF date = None THEN other ELSE date
Parsed(date) == Or(date, 0)                        \* time.Parse of "": the year 1

(* Whatever offset a date has is parsed with the rest and not printed: the   *)
(* dates of two time zones are from now on compared by their clocks.         *)
ConvertDateFormat(date, form) == IF date.form \in {"local", form} THEN date.clock ELSE None

(* The layout that each adapter converts from.  MSC and Maersk show a date   *)
(* as they get it, and only one without an offset is taken for a date.       *)
Layout(adapter) ==
  CASE adapter \in {"cma", "iqax"} -> "utc"
    [] adapter \in {"one", "hapag", "zim"} -> "offset"
    [] adapter \in {"msc", "maersk"} -> "local"
Shown(date, adapter) == ConvertDateFormat(date, Layout(adapter))

(* A cut-off that cannot be read is dropped. *)
Cutoffs(cut, adapter) ==
  {Cutoff(c.kind, "local") : c \in {d \in cut : d.form \in {"local", Layout(adapter)}}}

(* Whole days, rounded towards none. *)
TransitTime(etd, eta) ==
  IF None \in {etd, eta} THEN 0
  ELSE IF etd <= eta THEN (eta - etd) \div Day ELSE -((etd - eta) \div Day)

ReferenceMapping ==
  [Vessel |-> "1", Truck |-> "3", Road |-> "3", Intermodal |-> "5", Barge |-> "9", Feeder |-> "9",
   Roadrail |-> "11", Rail |-> "11", Truckrail |-> "11"]
Known == DOMAIN ReferenceMapping

(* GetTransportType leads to these only. *)
TransportType(key) == IF key \in {"Truck", "Feeder", "Barge", "Rail"} THEN key ELSE "Vessel"

MapTransport(type, reference) ==
  [type |-> type,
   referenceType |-> IF reference = "" /\ type = "" THEN "" ELSE "IMO",
   reference |-> IF reference = "" /\ type \in Known THEN ReferenceMapping[type] ELSE reference]

\* mutant of DcsaReference: any seven digits are a vessel's number
DcsaReferenceUnchecked(leg) == IF leg.imo = "" THEN "" ELSE "real"

(* ValidateIMO(vesselIMO) && vesselIMO != "0000000" *)
DcsaReference(leg) == IF leg.imo = "real" THEN "real" ELSE ""

(* Most show a service that has a code, with its name. *)
ServiceOf(wire) ==
  IF wire.service.code = "" THEN NoService ELSE wire.service

VoyageOf(wire) == IF wire.voyage \in {"", "blank"} THEN "TBN" ELSE wire.voyage

LegOf(wire, etd, eta, transit, cutoffs, transport, services, voyage) ==
  [from |-> wire.from, to |-> wire.to, etd |-> etd, eta |-> eta, transit |-> transit,
   cutoffs |-> cutoffs, transport |-> transport, services |-> services, voyage |-> voyage]

ScheduleOf(scac, from, to, etd, eta, transit, transshipment, legs) ==
  [scac |-> scac, from |-> from, to |-> to, etd |-> etd, eta |-> eta, transit |-> transit,
   transshipment |-> transshipment, legs |-> legs]

Each(Op(_, _), route) == [i \in DOMAIN route.legs |-> Op(i, route)]
FirstLeg(route) == route.legs[1]
LastLeg(route) == route.legs[Len(route.legs)]

-----------------------------------------------------------------------------
(* CMA (and APL, ANL, CNC).  The time of the request stands for a missing    *)
(* date; there are all cut-offs or none.                                     *)
CmaLeg(i, route) ==
  LET leg == route.legs[i]
      cut == Cutoffs(leg.cut, "cma")
  IN  LegOf(leg, Or(Shown(leg.dep, "cma"), Now), Or(Shown(leg.arr, "cma"), Now), leg.days,
            IF {c.kind : c \in cut} = {"cy", "doc", "vgm"} THEN cut ELSE {},
            MapTransport(leg.mode, IF leg.imo = "" /\ leg.mode = "Barge" THEN "9" ELSE leg.imo),
            Service(leg.service.code, ""), VoyageOf(leg))

(* The first and the last date that is stated, whether it can be read or not. *)
FirstEtd(legs) ==
  LET stated == {i \in DOMAIN legs : legs[i].dep # NoDate}
  IN  IF stated = {} THEN Now
      ELSE Or(Shown(legs[CHOOSE i \in stated : \A j \in stated : i <= j].dep, "cma"), Now)
LastEta(legs) ==
  LET stated == {i \in DOMAIN legs : legs[i].arr # NoDate}
  IN  IF stated = {} THEN Now
      ELSE Or(Shown(legs[CHOOSE i \in stated : \A j \in stated : j <= i].arr, "cma"), Now)

CmaSchedule(route) ==
  ScheduleOf(route.scac, FirstLeg(route).from, LastLeg(route).to, FirstEtd(route.legs),
             LastEta(route.legs), route.days, Len(route.legs) > 1, Each(CmaLeg, route))

-----------------------------------------------------------------------------
(* IQAX (COSCO, OOCL).  The second leg (index 1) departs as stated, or with  *)
(* the route; every other one arrives as stated, or with the route; the      *)
(* other date is worked out, but for the arrival of one on the vessel TRUCK. *)

\* mutant of IqaxDates: the arrival is worked out from what the leg states only
IqaxDatesAsStated(i, route) ==
  LET leg == route.legs[i]
      dep == Shown(leg.dep, "iqax")
      arr == Shown(leg.arr, "iqax")
      etd == Or(dep, Shown(route.etd, "iqax"))
      eta == Or(arr, Shown(route.eta, "iqax"))
  IN  IF i # 2 THEN <<Or(dep, Parsed(eta) - leg.days * Day), eta>>
      ELSE IF leg.name = "truck" THEN <<Parsed(etd) - leg.days * Day, None>>
      ELSE <<etd, Or(arr, Parsed(dep) + leg.days * Day)>>

IqaxDates(i, route) ==
  LET leg == route.legs[i]
      dep == Shown(leg.dep, "iqax")
      arr == Shown(leg.arr, "iqax")
      etd == Or(dep, Shown(route.etd, "iqax"))
      eta == Or(arr, Shown(route.eta, "iqax"))
  IN  IF i # 2 THEN <<Or(dep, Parsed(eta) - leg.days * Day), eta>>
      ELSE IF leg.name = "truck" THEN <<Parsed(etd) - leg.days * Day, None>>
      ELSE <<etd, Or(arr, Parsed(etd) + leg.days * Day)>>

IqaxReference(leg) ==
  IF leg.imo = "real" THEN "real"
  ELSE IF leg.imo = "" /\ leg.name = "tba" /\ leg.mode \in {"Feeder", "Barge"} THEN "1"
  ELSE ""

IqaxLeg(i, route) ==
  LET leg == route.legs[i]
      dates == IqaxDates(i, route)
  IN  LegOf(leg, dates[1], dates[2], leg.days, {c \in Cutoffs(leg.cut, "iqax") : c.kind = "cy"},
            MapTransport(leg.mode, IqaxReference(leg)), ServiceOf(leg), VoyageOf(leg))

\* mutant of IqaxLegs: a leg that leaves the origin is taken for a move in port
IqaxLegsFromOrigin(route) ==
  ElementsAt(Each(IqaxLeg, route),
             {i \in DOMAIN route.legs : route.legs[i].from # route.from})

(* Moves within a port are left out. *)
IqaxLegs(route) ==
  ElementsAt(Each(IqaxLeg, route),
             {i \in DOMAIN route.legs : route.legs[i].from # route.legs[i].to})

IqaxSchedule(route) ==
  ScheduleOf(route.scac, route.from, route.to, Shown(route.etd, "iqax"), Shown(route.eta, "iqax"),
             route.days, ~route.direct, IqaxLegs(route))

-----------------------------------------------------------------------------
(* MSC: the ends, the dates and the duration are those of the calls.  The    *)
(* dates, those of the cut-offs too, are shown as they are stated, and so is *)
(* the first voyage, if any is listed; the description of a service, its     *)
(* name, is shown as its code.                                               *)
MscLeg(i, route) ==
  LET leg == route.legs[i]
      etd == Shown(leg.dep, "msc")
      eta == Shown(leg.arr, "msc")
  IN  LegOf(leg, etd, eta, TransitTime(etd, eta), leg.cut, MapTransport("Vessel", leg.imo),
            Service(leg.service.name, ""), IF leg.voyage = "blank" THEN "" ELSE VoyageOf(leg))

MscSchedule(route) ==
  LET etd == Shown(FirstLeg(route).dep, "msc")
      eta == Shown(LastLeg(route).arr, "msc")
  IN  ScheduleOf(TRUE, FirstLeg(route).from, LastLeg(route).to, etd, eta, TransitTime(etd, eta),
                 Len(route.legs) > 1, Each(MscLeg, route))

-----------------------------------------------------------------------------
(* ONE and Hapag-Lloyd answer with the document of the DCSA: its cut-offs    *)
(* are the route's, and shown on the first leg.                              *)
OneLeg(i, route) ==
  LET leg == route.legs[i]
      etd == Shown(leg.dep, "one")
      eta == Shown(leg.arr, "one")
  IN  LegOf(leg, etd, eta, TransitTime(etd, eta), IF i = 1 THEN Cutoffs(leg.cut, "one") ELSE {},
            MapTransport(IF leg.mode = "" THEN "Vessel" ELSE leg.mode, DcsaReference(leg)),
            ServiceOf(leg), VoyageOf(leg))

OneSchedule(route) ==
  LET etd == Shown(route.etd, "one")
      eta == Shown(route.eta, "one")
  IN  ScheduleOf(TRUE, route.from, route.to, etd, eta,
                 IF route.days = 0 THEN TransitTime(etd, eta) ELSE route.days,
                 Len(route.legs) > 1, Each(OneLeg, route))

HapagSchedule(route) == OneSchedule(route)    \* the same steps, in a file of its own

-----------------------------------------------------------------------------
(* Maersk: the duration is stated in minutes, and divided by 1400; a service *)
(* is shown by its name, if it has one, as its code and as its name.         *)
MaerskLeg(i, route) ==
  LET leg == route.legs[i]
      etd == Shown(leg.dep, "maersk")
      eta == Shown(leg.arr, "maersk")
      shown == IF leg.service.name = "" THEN leg.service.code ELSE leg.service.name
  IN  LegOf(leg, etd, eta, TransitTime(etd, eta), {},
            MapTransport(TransportType(leg.mode), IF leg.imo = "placeholder" THEN "1" ELSE leg.imo),
            Service(shown, shown), VoyageOf(leg))

MaerskSchedule(route) ==
  ScheduleOf(route.scac, route.from, route.to, Shown(route.etd, "maersk"),
             Shown(route.eta, "maersk"), (route.days * 1440) \div 1400, Len(route.legs) > 1,
             Each(MaerskLeg, route))

-----------------------------------------------------------------------------
(* ZIM: a leg's mode is told by the name of its vessel, which TO BE NAMED is *)
(* a vessel's, of a known line or not.  A leg shows its line as its service  *)
(* if it has the number of a voyage.                                         *)
ZimTransport(leg) ==
  IF leg.name = "unknown line" THEN MapTransport("Vessel", "9")
  ELSE IF leg.name = "tba" THEN MapTransport("Vessel", "1")
  ELSE MapTransport(TransportType(leg.mode), IF leg.mode = "Truck" THEN "3" ELSE leg.imo)

ZimLeg(i, route) ==
  LET leg == route.legs[i]
      etd == Shown(leg.dep, "zim")
      eta == Shown(leg.arr, "zim")
  IN  LegOf(leg, etd, eta, TransitTime(etd, eta), Cutoffs(leg.cut, "zim"), ZimTransport(leg),
            IF leg.voyage \in {"", "blank"} THEN NoService ELSE Service(leg.service.code, ""),
            VoyageOf(leg))

ZimSchedule(route) ==
  ScheduleOf(TRUE, route.from, route.to, Shown(route.etd, "zim"), Shown(route.eta, "zim"),
             route.days, Len(route.legs) > 1, Each(ZimLeg, route))

-----------------------------------------------------------------------------
(* A missing array, pointer or leg panics; so do no legs at all where the    *)
(* ends of the route are read from its legs.                                 *)
Panics(adapter, route) ==
  \/ \E i \in DOMAIN route.legs : route.legs[i].bare
  \/ adapter \in {"cma", "msc"} /\ route.legs = << >>
  \/ adapter = "iqax" /\ route.bare

GenerateSchedule(adapter, route) ==
  CASE adapter = "cma" -> CmaSchedule(route)
    [] adapter = "iqax" -> IqaxSchedule(route)
    [] adapter = "msc" -> MscSchedule(route)
    [] adapter = "one" -> OneSchedule(route)
    [] adapter = "hapag" -> HapagSchedule(route)
    [] adapter = "maersk" -> MaerskSchedule(route)
    [] adapter = "zim" -> ZimSchedule(route)

-----------------------------------------------------------------------------
(* P2PResponseValidate: what it wants of a schedule and of each leg alike,   *)
(* of a transport and a leg, and of the schedule as a whole.                 *)
ValidVoyage(v) ==
  /\ v.from # NoPort /\ v.to # NoPort
  /\ v.etd # None /\ v.eta # None /\ v.etd <= v.eta
  /\ v.transit >= 0

ValidTransport(t) == t.type # "" /\ (t.referenceType = "" <=> t.reference = "")

ValidLeg(leg) ==
  /\ ValidVoyage(leg) /\ ValidTransport(leg.transport)
  /\ leg.voyage # "" /\ \A c \in leg.cutoffs : c.form \in {"", "local"}

ValidSchedule(s) == s.scac /\ ValidVoyage(s) /\ \A i \in DOMAIN s.legs : ValidLeg(s.legs[i])
=============================================================================
