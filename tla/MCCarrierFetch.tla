--------------------------- MODULE MCCarrierFetch ---------------------------
EXTENDS CarrierFetch

(* Legs that differ where the adapters do: two consecutive sailings, moves   *)
(* within a port, missing dates, modes, names, numbers, cut-offs and arrays. *)
At(clock) == Date("local", clock)
Loop == Service("L1", "Loop One")
All == {Cutoff(kind, "local") : kind \in {"cy", "doc", "vgm"}}
Cy(form) == {Cutoff("cy", form)}

FirstLegs ==
  {WireLeg(1, 2, dep, arr, 2, mode, name, imo, Cy("local"), Loop, "V1", FALSE) :
     dep \in {At(1030), NoDate}, arr \in {At(1080), NoDate}, mode \in {"Vessel", "Barge", "Mule", ""},
     name \in {"named", "tba"}, imo \in {"real", "placeholder", ""}}
  \cup {WireLeg(1, 1, At(1030), At(1030), 0, "Truck", "named", "", All, NoService, "", FALSE),
        WireLeg(1, 2, At(1030), At(1080), 2, "Vessel", "unknown line", "", {}, NoService, "", TRUE),
        WireLeg(NoPort, 2, At(1030), At(1080), 2, "Rail", "unknown line", "", All, NoService, "", FALSE)}
SecondLegs ==
  {WireLeg(2, 3, dep, arr, 2, mode, "named", "", {}, Service("L2", ""), "", FALSE) :
     dep \in {At(1100), At(1020), NoDate}, arr \in {At(1150), NoDate}, mode \in {"Feeder", "Truck"}}
  \cup {WireLeg(2, 2, At(1100), At(1100), 0, "Truck", "named", "", {}, Service("L2", ""), "", FALSE),
        WireLeg(1, 3, At(1100), At(1150), 2, "Vessel", "tba", "real", Cy("local"),
                Service("", "Loop One"), "", FALSE)}

Direct(leg, etd) == Route(TRUE, 1, 2, etd, At(1080), 40, TRUE, FALSE, <<leg>>)
Transshipped(first, second) ==
  Route(TRUE, 1, second.to, At(1030), At(1160), 5, FALSE, FALSE, <<first, second>>)
Haul == WireLeg(2, 2, At(1100), At(1100), 0, "Truck", "named", "", {}, NoService, "", FALSE)
Hauled(first, third) ==
  Route(TRUE, 1, third.to, At(1030), At(1160), 5, FALSE, FALSE, <<first, Haul, third>>)

(* Legs and routes whose dates come in every form, or go back an hour, and   *)
(* what else the validator looks at.                                         *)
Odd(dep, arr, mode, name, cut, voyage) ==
  WireLeg(2, 3, dep, arr, 2, mode, name, "real", cut, Loop, voyage, FALSE)
OddLegs ==
  {Odd(Date(form, 1100), Date(other, arr), "Roadrail", "named", Cy(form), "V2") :
     form, other \in {"local", "utc", "offset"}, arr \in {1150, 1099}}
  \cup {Odd(dep, arr, mode, "truck", All, "V2") :
          dep \in {At(1100), NoDate}, arr \in {At(1150), NoDate}, mode \in {"Truck", "Intermodal"}}
  \cup {Odd(At(1100), At(1150), "Truckrail", "named", cut, "blank") : cut \in {All, Cy("utc"), Cy("")}}
Sailing(form) ==
  WireLeg(1, 2, Date(form, 1030), Date(form, 1080), 2, "Road", "named", "real", {}, Loop, "V1", FALSE)
OddRoutes ==
  {Route(TRUE, 1, 3, Date(form, 1030), Date(form, 1160), 0, FALSE, FALSE, <<Sailing(form), leg>>) :
     form \in {"local", "utc", "offset"}, leg \in OddLegs}

MCRoutes ==
  {Direct(leg, etd) : leg \in FirstLegs, etd \in {At(1030), NoDate}}
  \cup {Transshipped(first, second) : first \in FirstLegs, second \in SecondLegs}
  \cup {Hauled(first, third) :
          first \in {leg \in FirstLegs : leg.dep = At(1030) /\ leg.name = "named"}, third \in SecondLegs}
  \cup {Route(scac, 1, 2, At(1030), At(1080), 0, TRUE, bare, << >>) : scac, bare \in BOOLEAN}
  \cup OddRoutes

(* One parameter at a time, and a contradiction. *)
MCQueries ==
  {Query(FALSE, NoPort, "", ""), Query(TRUE, NoPort, "", ""), Query(TRUE, 2, "", ""),
   Query(FALSE, NoPort, "real", ""), Query(FALSE, NoPort, "", "L1"), Query(FALSE, NoPort, "", "Loop One")}
  \cup {Query(FALSE, port, "", "") : port \in 1..3}
=============================================================================
