--------------------------- MODULE VesselSchedules ---------------------------
(***************************************************************************)
(* Requests to the master vessel voyage handler.  For each carrier code a  *)
(* goroutine asks the carrier's API or the database for one schedule, and  *)
(* two more pass it on over unbuffered channels to the one that writes:    *)
(*                                                                         *)
(*   consolidate -> validate -> transfer -> fannedIn -> writer             *)
(*                                                                         *)
(* A request asks about one vessel.  The Maersk provider keeps the code it *)
(* was asked with, and the vessel it was answered with, in two variables   *)
(* of its package, which the goroutines of all requests share unguarded;   *)
(* the ONE provider puts the second into the keys of its own calls.        *)
(***************************************************************************)
EXTENDS Naturals, Sequences, FiniteSets

CONSTANTS
  Requests,
  Carriers,     \* the codes of a request's scac list
  Vessels,
  Vessel,       \* Vessel[r]: the IMO that request r asks for
  External,     \* codes that externalAPICarriers switches on
  Supported,    \* codes the factory has a provider for
  Maersk,       \* codes served by the Maersk provider
  ReadsImo,     \* codes whose provider takes the keys of its calls from imo
  Indexing,     \* codes whose provider indexes a field it has not checked
  Unset         \* the empty string, and the absence of a schedule

ASSUME VesselAssumption ==
  /\ Vessel \in [Requests -> Vessels]
  /\ Maersk \subseteq ReadsImo /\ ReadsImo \cup Indexing \subseteq Supported
  /\ Unset \notin Vessels /\ Unset \notin Carriers

VARIABLES
  handler,      \* handler[r]
  gone,         \* gone[r]: the client went away
  consolidate,  \* consolidate[t]: where the fetch of a request's carrier is
  schedule,     \* schedule[t]: what it came up with
  validate,     \* validate[t]
  transfer,     \* transfer[t]
  fannedIn,     \* fannedIn[r]: "open" or "closed"
  writer,       \* writer[r]: what the writer does, and whose schedule it holds
  body,         \* body[r]: the schedules written, in order
  footer,       \* footer[r]
  scac, imo,    \* the variables of the Maersk provider's package
  crashed       \* a goroutine panicked: the process is gone

stages == <<consolidate, schedule, validate, transfer>>
response == <<fannedIn, writer, body, footer>>
package == <<scac, imo>>
vars == <<handler, gone, stages, response, package, crashed>>

Tasks == Requests \X Carriers
Of(r) == {r} \X Carriers
Schedule(code, vessel, key, valid) ==
  [scac |-> code, vessel |-> vessel, key |-> key, valid |-> valid]
Nothing == Schedule(Unset, Unset, Unset, FALSE)

WriterIs(state) == [at |-> state, from |-> Unset]
WriterHolds(c) == [at |-> "write", from |-> c]

(* ctx.Done() is closed by the client's leaving and by the handler's return. *)
Cancelled(r) == gone[r] \/ handler[r] = "returned"

Init ==
  /\ handler = [r \in Requests |-> "start"]
  /\ gone = [r \in Requests |-> FALSE]
  /\ consolidate = [t \in Tasks |-> "none"]
  /\ schedule = [t \in Tasks |-> Nothing]
  /\ validate = [t \in Tasks |-> "none"] /\ transfer = [t \in Tasks |-> "none"]
  /\ fannedIn = [r \in Requests |-> "open"]
  /\ writer = [r \in Requests |-> WriterIs("none")]
  /\ body = [r \in Requests |-> << >>] /\ footer = [r \in Requests |-> "none"]
  /\ scac = Unset /\ imo = Unset
  /\ crashed = FALSE

-----------------------------------------------------------------------------
(* VoyageHandler, and the header and footer of StreamMasterVesselSchedule. *)

Goroutines(stage, r, state) == [t \in Tasks |-> IF t[1] = r THEN state ELSE stage[t]]

(* Without externalAPICarriers in the configuration the request is refused. *)
Refuse(r) ==
  /\ ~crashed /\ handler[r] = "start"
  /\ handler' = [handler EXCEPT ![r] = "refused"]
  /\ UNCHANGED <<gone, stages, response, package, crashed>>

Begin(r) ==
  /\ ~crashed /\ handler[r] = "start"
  /\ handler' = [handler EXCEPT ![r] = "waiting"]
  /\ consolidate' = Goroutines(consolidate, r, "fetch")
  /\ validate' = Goroutines(validate, r, "receive")
  /\ transfer' = Goroutines(transfer, r, "receive")
  /\ writer' = [writer EXCEPT ![r] = WriterIs("receive")]
  /\ UNCHANGED <<gone, schedule, fannedIn, body, footer, package, crashed>>

\* mutant of Finish: does not wait for doneProcessing
FinishEarly(r) ==
  /\ ~crashed /\ handler[r] = "waiting"
  /\ footer' = [footer EXCEPT ![r] = IF body[r] = << >> THEN "message" ELSE "plain"]
  /\ handler' = [handler EXCEPT ![r] = "returned"]
  /\ UNCHANGED <<gone, stages, fannedIn, writer, body, package, crashed>>

(* <-doneProcessing, the footer, and the return with its deferred cancel. *)
Finish(r) ==
  /\ ~crashed /\ handler[r] = "waiting" /\ writer[r].at = "ended"
  /\ footer' = [footer EXCEPT ![r] = IF body[r] = << >> THEN "message" ELSE "plain"]
  /\ handler' = [handler EXCEPT ![r] = "returned"]
  /\ UNCHANGED <<gone, stages, fannedIn, writer, body, package, crashed>>

Disconnect(r) ==
  /\ ~crashed /\ ~gone[r] /\ handler[r] \in {"start", "waiting"}
  /\ gone' = [gone EXCEPT ![r] = TRUE]
  /\ UNCHANGED <<handler, stages, response, package, crashed>>

-----------------------------------------------------------------------------
(* FetchMasterVesselSchedule. *)

FetchOnly == ~crashed /\ UNCHANGED <<handler, gone, validate, transfer, response, crashed>>
To(t, state) == consolidate' = [consolidate EXCEPT ![t] = state]

(* The API if the configuration says so, else the database.  The Maersk      *)
(* ScheduleHeaderParams leaves its code in scac.                             *)
Fetch(t) ==
  /\ consolidate[t] = "fetch"
  /\ LET c == t[2] IN
     /\ To(t, IF c \notin External THEN "query" ELSE IF c \in Supported THEN "ask" ELSE "send")
     /\ scac' = IF c \in External \cap Maersk THEN c ELSE scac
  /\ UNCHANGED <<schedule, imo>> /\ FetchOnly

(* No usable answer, no token, or a done context: the fetch yields nil. *)
AskFails(t) ==
  /\ consolidate[t] = "ask" /\ To(t, "send")
  /\ UNCHANGED <<schedule, package>> /\ FetchOnly

(* An answer about the vessel asked for.  The Maersk GenerateSchedule first  *)
(* leaves that vessel's number in imo; the others label the schedule with    *)
(* what they were answered, and take the keys from it or, next, from imo.    *)
Answer(t) ==
  /\ consolidate[t] = "ask"
  /\ LET r == t[1]
         c == t[2]
         Labels(key, v) == schedule' = [schedule EXCEPT ![t] = Schedule(c, Vessel[r], key, v)]
     IN  \/ c \in Maersk /\ To(t, "label") /\ imo' = Vessel[r] /\ UNCHANGED schedule
         \/ c \in ReadsImo \ Maersk /\ To(t, "keys") /\ Labels(Unset, FALSE) /\ UNCHANGED imo
         \/ /\ c \notin ReadsImo /\ To(t, "send") /\ UNCHANGED imo
            /\ \E v \in BOOLEAN : Labels(Vessel[r], v)
  /\ UNCHANGED scac /\ FetchOnly

(* An unchecked index on the answer panics outside any recovery. *)
AnswerPanics(t) ==
  /\ ~crashed /\ consolidate[t] = "ask" /\ t[2] \in Indexing
  /\ crashed' = TRUE
  /\ UNCHANGED <<handler, gone, stages, response, package>>

(* GenerateSchedule reads scac and imo back into the schedule ...  A racing  *)
(* read may take the pointer of one string and the length of the other, but  *)
(* codes all have four characters and IMO numbers seven: it reads one of the *)
(* values written.                                                           *)
Label(t) ==
  /\ consolidate[t] = "label" /\ To(t, "keys")
  /\ schedule' = [schedule EXCEPT ![t] = Schedule(scac, imo, Unset, FALSE)]
  /\ UNCHANGED package /\ FetchOnly

(* ... and GenerateVesselCalls, that of ONE too, reads imo for the key of    *)
(* each call; one of them stands for all.  A key is not empty even when imo  *)
(* is: the number of the voyage is in it.                                    *)
Keys(t) ==
  /\ consolidate[t] = "keys" /\ To(t, "send")
  /\ \E v \in BOOLEAN :
       schedule' = [schedule EXCEPT ![t] = Schedule(@.scac, @.vessel, imo, v)]
  /\ UNCHANGED package /\ FetchOnly

\* mutant of Query: the query has no time-out of its own
QueryUnbounded(t) == FALSE /\ consolidate' = [consolidate EXCEPT ![t] = "send"] /\ UNCHANGED vars

(* The query runs under a time-out of its own and not under the request's    *)
(* context: an error, the time-out or no row yields nil.  The rows are those *)
(* of the code and the vessel asked for; a row that cannot be scanned is     *)
(* kept, blank, and the schedule made of it is invalid.                      *)
Query(t) ==
  /\ consolidate[t] = "query" /\ To(t, "send")
  /\ \/ UNCHANGED schedule
     \/ \E v \in BOOLEAN :
          schedule' = [schedule EXCEPT ![t] = Schedule(t[2], Vessel[t[1]], Vessel[t[1]], v)]
  /\ UNCHANGED package /\ FetchOnly

-----------------------------------------------------------------------------
(* The chain of channels. *)

ChainOnly == ~crashed /\ UNCHANGED <<handler, gone, schedule, body, footer, package, crashed>>

\* mutant of ToValidate: an invalid schedule is logged and let through
ToValidateLax(t) ==
  /\ consolidate[t] = "send" /\ validate[t] = "receive" /\ To(t, "ended")
  /\ validate' = [validate EXCEPT ![t] = IF schedule[t] # Nothing THEN "send" ELSE "receive"]
  /\ UNCHANGED <<transfer, fannedIn, writer>> /\ ChainOnly

(* stream <- the schedule, nil or not; the goroutine returns and closes its  *)
(* channel.  nil and invalid schedules go no further.                        *)
ToValidate(t) ==
  /\ consolidate[t] = "send" /\ validate[t] = "receive" /\ To(t, "ended")
  /\ validate' = [validate EXCEPT ![t] = IF schedule[t].valid THEN "send" ELSE "receive"]
  /\ UNCHANGED <<transfer, fannedIn, writer>> /\ ChainOnly

ToTransfer(t) ==
  /\ validate[t] = "send" /\ transfer[t] = "receive"
  /\ validate' = [validate EXCEPT ![t] = "receive"]
  /\ transfer' = [transfer EXCEPT ![t] = "send"]
  /\ UNCHANGED <<consolidate, fannedIn, writer>> /\ ChainOnly

ToWriter(t) ==
  /\ transfer[t] = "send" /\ writer[t[1]].at = "receive"
  /\ transfer' = [transfer EXCEPT ![t] = "receive"]
  /\ writer' = [writer EXCEPT ![t[1]] = WriterHolds(t[2])]
  /\ UNCHANGED <<consolidate, validate, fannedIn>> /\ ChainOnly

\* mutant of Ends: only the fetching goroutine looks at ctx.Done()
EndsUnaware(t) ==
  /\ \/ /\ consolidate[t] = "send" /\ Cancelled(t[1])
        /\ To(t, "ended") /\ UNCHANGED <<validate, transfer>>
     \/ /\ validate[t] = "receive" /\ consolidate[t] = "ended"
        /\ validate' = [validate EXCEPT ![t] = "ended"] /\ UNCHANGED <<consolidate, transfer>>
     \/ /\ transfer[t] = "receive" /\ validate[t] = "ended"
        /\ transfer' = [transfer EXCEPT ![t] = "ended"] /\ UNCHANGED <<consolidate, validate>>
  /\ UNCHANGED <<fannedIn, writer>> /\ ChainOnly

(* A goroutine ends when the channel it ranges over is closed, or, at a      *)
(* send, when the context is done.                                           *)
Ends(t) ==
  /\ \/ /\ consolidate[t] = "send" /\ Cancelled(t[1])
        /\ To(t, "ended") /\ UNCHANGED <<validate, transfer>>
     \/ /\ \/ validate[t] = "send" /\ Cancelled(t[1])
           \/ validate[t] = "receive" /\ consolidate[t] = "ended"
        /\ validate' = [validate EXCEPT ![t] = "ended"] /\ UNCHANGED <<consolidate, transfer>>
     \/ /\ \/ transfer[t] = "send" /\ Cancelled(t[1])
           \/ transfer[t] = "receive" /\ validate[t] = "ended"
        /\ transfer' = [transfer EXCEPT ![t] = "ended"] /\ UNCHANGED <<consolidate, validate>>
  /\ UNCHANGED <<fannedIn, writer>> /\ ChainOnly

\* mutant of Close: wg.Wait() returns when the first transfer is done
CloseByFirst(r) ==
  /\ handler[r] # "start" /\ fannedIn[r] = "open"
  /\ \E t \in Of(r) : transfer[t] = "ended"
  /\ fannedIn' = [fannedIn EXCEPT ![r] = "closed"]
  /\ UNCHANGED <<consolidate, validate, transfer, writer>> /\ ChainOnly

(* wg.Wait(), close(fannedInStream). *)
Close(r) ==
  /\ fannedIn[r] = "open" /\ \A t \in Of(r) : transfer[t] = "ended"
  /\ fannedIn' = [fannedIn EXCEPT ![r] = "closed"]
  /\ UNCHANGED <<consolidate, validate, transfer, writer>> /\ ChainOnly

WriterEnds(r) ==
  /\ \/ writer[r].at = "receive" /\ fannedIn[r] = "closed"
     \/ writer[r].at = "write" /\ Cancelled(r)
  /\ writer' = [writer EXCEPT ![r] = WriterIs("ended")]
  /\ UNCHANGED <<consolidate, validate, transfer, fannedIn>> /\ ChainOnly

Write(r) ==
  /\ ~crashed /\ writer[r].at = "write" /\ ~Cancelled(r)
  /\ body' = [body EXCEPT ![r] =
       Append(@, [carrier |-> writer[r].from, place |-> 1,
                  schedule |-> schedule[<<r, writer[r].from>>]])]
  /\ writer' = [writer EXCEPT ![r] = WriterIs("receive")]
  /\ UNCHANGED <<handler, gone, stages, fannedIn, footer, package, crashed>>

-----------------------------------------------------------------------------
Consolidate(t) ==
  Fetch(t) \/ AskFails(t) \/ Answer(t) \/ AnswerPanics(t) \/ Label(t) \/ Keys(t) \/ Query(t)
Chain(t) == ToValidate(t) \/ ToTransfer(t) \/ ToWriter(t) \/ Ends(t)
Response(r) == Begin(r) \/ Finish(r) \/ Close(r) \/ WriterEnds(r) \/ Write(r)

Next ==
  \/ \E t \in Tasks : Consolidate(t) \/ Chain(t)
  \/ \E r \in Requests : Response(r) \/ Refuse(r) \/ Disconnect(r)

(* Goroutines are scheduled; a call of a carrier ends (Returns of HttpFetch) *)
(* and so does a query, by its time-out.                                     *)
Fairness ==
  /\ \A t \in Tasks : WF_vars(Consolidate(t)) /\ WF_vars(Chain(t))
  /\ \A r \in Requests : WF_vars(Response(r))

Spec == Init /\ [][Next]_vars
FairSpec == Spec /\ Fairness

-----------------------------------------------------------------------------
(* Properties. *)

ScheduleType ==
  [scac : Carriers \cup {Unset}, vessel : Vessels \cup {Unset}, key : Vessels \cup {Unset},
   valid : BOOLEAN]

TypeOK ==
  /\ handler \in [Requests -> {"start", "refused", "waiting", "returned"}]
  /\ gone \in [Requests -> BOOLEAN]
  /\ consolidate \in [Tasks ->
       {"none", "fetch", "ask", "label", "keys", "query", "send", "ended"}]
  /\ schedule \in [Tasks -> ScheduleType]
  /\ validate \in [Tasks -> {"none", "receive", "send", "ended"}]
  /\ transfer \in [Tasks -> {"none", "receive", "send", "ended"}]
  /\ fannedIn \in [Requests -> {"open", "closed"}]
  /\ writer \in [Requests -> [at : {"none", "receive", "write", "ended"},
                           from : Carriers \cup {Unset}]]
  /\ body \in [Requests -> Seq([carrier : Carriers, place : {1},
                              schedule : {s \in ScheduleType : s.valid}])]
  /\ footer \in [Requests -> {"none", "plain", "message"}]
  /\ scac \in Carriers \cup {Unset} /\ imo \in Vessels \cup {Unset}
  /\ crashed \in BOOLEAN

Answered(r, c) == \E i \in DOMAIN body[r] : body[r][i].carrier = c

(* A response completed for a client that is still there holds the schedule  *)
(* of every carrier that came up with a valid one, from the API or from the  *)
(* database, however late, and no other.                                     *)
EveryCarrierAnswered ==
  \A r \in Requests : handler[r] = "returned" /\ ~gone[r] =>
    \A c \in Carriers : Answered(r, c) <=> schedule[<<r, c>>].valid

(* The handler returns, client or no client, although a database query does  *)
(* not hear of the cancellation.                                             *)
HandlerReturns == \A r \in Requests : <>(handler[r] \in {"returned", "refused"} \/ crashed)

AllEnded(r) ==
  /\ \A t \in Of(r) : {consolidate[t], validate[t], transfer[t]} \subseteq {"ended", "none"}
  /\ writer[r].at \in {"ended", "none"}

(* None of the goroutines of a cancelled request stays blocked on a send. *)
NoGoroutineLeak ==
  \A r \in Requests : handler[r] = "returned" ~> (AllEnded(r) \/ crashed)

(* The response of request r as its reader sees it. *)
Contract(r) == INSTANCE StreamedResponse WITH
  Schedules <- ScheduleType,
  offered <- [c \in Carriers |->
                [k \in {k \in {1} : schedule[<<r, c>>].valid} |-> schedule[<<r, c>>]]],
  body <- body[r], footer <- footer[r], gone <- gone[r]

(* Every response keeps the contract of a streamed response. *)
ImplementsContract ==
  /\ \A r \in Requests : Contract(r)!Init
  /\ [][\A r \in Requests : Contract(r)!Next \/ UNCHANGED Contract(r)!contract]_vars

(* README.md on /schedule/mastervoyage: "providing the latest voyage route   *)
(* based on the requested vessel IMO": what a response holds, it says of the *)
(* vessel that the request asked for.                                        *)
RequestedVessel ==
  \A r \in Requests : \A i \in DOMAIN body[r] :
    body[r][i].schedule.vessel = Vessel[r] /\ body[r][i].schedule.key = Vessel[r]
=============================================================================
