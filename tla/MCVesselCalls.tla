---------------------------- MODULE MCVesselCalls ----------------------------
EXTENDS VesselCalls

Stop(e, p, t) == [event |-> e, port |-> p, time |-> t]
MCStops ==
  {Stop("UNL", 1, 1), Stop("LOA", 1, 1), Stop("UNL", 2, 2), Stop("UNL", 1, 0)}

(* No stop, one, one twice, or two. *)
MCStopLists ==
  {<< >>} \cup {<<s>> : s \in MCStops} \cup {<<s, s>> : s \in {Stop("UNL", 1, 1), Stop("UNL", 1, 0)}}
  \cup {<<Stop("UNL", 1, 1), Stop("LOA", 1, 1)>>, <<Stop("UNL", 1, 1), Stop("UNL", 2, 2)>>,
        <<Stop("UNL", 1, 0), Stop("UNL", 2, 2)>>}

Voyage(n, b, i) == [num |-> n, bound |-> b, id |-> i]

(* The next voyage has another number, or another bound, or both. *)
MCVoyages ==
  {<<Voyage(1, 1, 1), Voyage(2, 1, 2)>>, <<Voyage(1, 1, 1), Voyage(1, 2, 2)>>,
   <<Voyage(1, 1, 1), Voyage(2, 2, 2)>>}

(* Up to two calls, at one port or two, with a voyage, two or none, and what *)
(* happens there in order, out of order, at once, before, or unheard of.     *)
Happenings ==
  {<< >>, <<Event("ARRI", "EST", 1), Event("DEPA", "EST", 2)>>,
   <<Event("DEPA", "EST", 1), Event("ARRI", "PLN", 1)>>,
   <<Event("ARRI", "ACT", 1), Event("DEPA", "EST", 1)>>,
   <<Event("ARRI", "EST", 2), Event("ARRI", "PLN", 1)>>,
   <<Event("DEPA", "EST", 3)>>, <<Event("other", "EST", 2)>>}
MCCalls ==
  {Call(1, port, import, export, events, FALSE) :
     port \in {1, 2}, import \in {0, 1}, export \in {0, 2}, events \in Happenings}
  \cup {Call(1, 1, 1, 2, events, TRUE) : events \in Happenings} \cup {Call(0, 1, 1, 2, << >>, FALSE)}
MCDocuments == UNION {[1..n -> MCCalls] : n \in 0..2}
=============================================================================
