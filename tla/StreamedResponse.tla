--------------------------- MODULE StreamedResponse ---------------------------
(***************************************************************************)
(* What the reader of a streamed schedule response is promised, without    *)
(* goroutines or channels: each carrier comes up with one batch, batches   *)
(* are written whole and one after the other in any order, and the         *)
(* document is completed by a footer that says whether there was anything. *)
(***************************************************************************)
EXTENDS Naturals, Sequences

CONSTANTS Carriers, Schedules

VARIABLES
  offered,  \* each carrier's batch, by place; empty until it is known
  body,     \* the schedules written, each with its carrier and its place
  footer,   \* "none" while the document is open
  gone      \* the client went away

contract == <<offered, body, footer, gone>>

Written(c) == {i \in DOMAIN body : body[i].carrier = c}
Complete(c) == \A k \in DOMAIN offered[c] : \E i \in Written(c) : body[i].place = k

Init == /\ offered = [c \in Carriers |-> [k \in {} |-> k]]
        /\ body = << >> /\ footer = "none" /\ gone = FALSE

(* A carrier's batch becomes known, before anything of it is written and,   *)
(* for a client that is still there, before the document is completed.      *)
Offer(c) ==
  /\ Written(c) = {} /\ (footer = "none" \/ gone)
  /\ \A k \in DOMAIN offered'[c] : offered'[c][k] \in Schedules
  /\ offered' = [offered EXCEPT ![c] = offered'[c]]
  /\ UNCHANGED <<body, footer, gone>>

(* The next schedule of a batch; another batch starts only when the one     *)
(* before it is complete.                                                   *)
Stream(c, k) ==
  /\ footer = "none"
  /\ \A j \in DOMAIN offered[c] : j < k <=> \E i \in Written(c) : body[i].place = j
  /\ body = << >> \/ body[Len(body)].carrier = c \/ Complete(body[Len(body)].carrier)
  /\ body' = Append(body, [carrier |-> c, place |-> k, schedule |-> offered[c][k]])
  /\ UNCHANGED <<offered, footer, gone>>

Finish ==
  /\ footer = "none"
  /\ gone \/ \A c \in Carriers : Complete(c)
  /\ footer' = IF body = << >> THEN "message" ELSE "plain"
  /\ UNCHANGED <<offered, body, gone>>

GoAway == ~gone /\ gone' = TRUE /\ UNCHANGED <<offered, body, footer>>

Next == \/ \E c \in Carriers : Offer(c) \/ \E k \in DOMAIN offered[c] : Stream(c, k)
        \/ Finish \/ GoAway

Spec == Init /\ [][Next]_contract
=============================================================================
