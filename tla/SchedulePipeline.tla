-------------------------- MODULE SchedulePipeline --------------------------
(***************************************************************************)
(* One request to the point-to-point handler: a chain of goroutines per    *)
(* carrier code joined by unbuffered channels, merged into one channel and *)
(* written to the response by one more goroutine.                          *)
(*                                                                         *)
(*   consolidate -> [filter] -> validate -> transfer -> fannedIn -> writer *)
(*                                                                         *)
(* Every stage sends inside a select with ctx.Done(), so each send is      *)
(* either a rendezvous with the next stage or an abort of the sender.      *)
(* What a goroutine computes between a receive and its next select touches *)
(* only its own batch, so it is one step with the receive.  A batch is what *)
(* is left of the schedules one carrier answered with: a function from     *)
(* their places in the answer to the schedules.                            *)
(***************************************************************************)
EXTENDS Naturals, Sequences, FiniteSets

CONSTANTS
  Carriers,    \* the codes of the request's scac list
  Schedules,   \* kinds of schedule a carrier adapter may produce
  Answers,     \* Answers[c]: the batches carrier c may answer with
  Valid,       \* schedules that P2PResponseValidate accepts
  Matching,    \* schedules that every requested post filter accepts
  Legless      \* schedules without any leg

ASSUME CarriersAssumption == IsFiniteSet(Carriers)
ASSUME KindsAssumption ==
  Valid \subseteq Schedules /\ Matching \subseteq Schedules /\ Legless \subseteq Schedules

Places == UNION {DOMAIN b : b \in UNION {Answers[c] : c \in Carriers}}
Batches == UNION {[D -> Schedules] : D \in SUBSET Places}

ASSUME AnswersAssumption ==
  /\ Places \subseteq Nat
  /\ \A c \in Carriers : Answers[c] \subseteq Batches

VARIABLES
  query,        \* which post filters the request asks for
  gone,         \* r.Context() is cancelled: the client went away
  cancelled,    \* ctx.Done() is closed
  answer,       \* history: what each carrier's fetch returned
  consolidate,  \* the goroutine ConsolidateSchedule starts, per carrier
  filter,       \* the goroutine FilterSchedule starts, per carrier
  validate,     \* the goroutine ValidateSchedules starts, per carrier
  transfer,     \* the transfer goroutine of FanIn, per carrier
  wg,           \* the WaitGroup counter of FanIn
  fannedIn,     \* fannedInStream: "open" or "closed"
  writer,       \* the goroutine StreamResponse starts
  handler,      \* the goroutine that serves the request
  body,         \* the schedules written to the response, in order
  footer,       \* how the response was completed
  crashed       \* a goroutine panicked: the process is gone

chain == <<consolidate, filter, validate, transfer>>
vars == <<query, gone, cancelled, answer, chain, wg, fannedIn, writer, handler,
          body, footer, crashed>>

Queries == {"plain", "filtered", "tsp"}

-----------------------------------------------------------------------------
(* Goroutines of a carrier's chain. *)

NoBatch == [i \in {} |-> i]
Starting == [at |-> "start", batch |-> NoBatch]
Fetching == [at |-> "fetch", batch |-> NoBatch]
Receiving == [at |-> "receive", batch |-> NoBatch]
Sending(b) == [at |-> "send", batch |-> b]
Ended == [at |-> "ended", batch |-> NoBatch]     \* returned, its channel closed

\* slices.Collect(PostFilter(...)): the matching schedules, in their order.
Filtered(b) == [i \in {j \in DOMAIN b : b[j] \in Matching} |-> b[i]]

\* WithTSP slices Legs[1:]: without legs the filter goroutine panics.
FilterPanics(b) == query = "tsp" /\ \E i \in DOMAIN b : b[i] \in Legless

First(b) == {i \in DOMAIN b : \A j \in DOMAIN b : i <= j}

\* validSchedulesFn returns at the first schedule, whatever the verdict; an
\* empty batch is valid.
ValidBatch(b) == \A i \in First(b) : b[i] \in Valid

\* The channel a validator reads: FanOutScheduleChannels puts a filter in
\* front of it only when the query names one.
Source(c) == IF query = "plain" THEN consolidate[c] ELSE filter[c]

SourceSent(c) ==
  IF query = "plain"
  THEN consolidate' = [consolidate EXCEPT ![c] = Ended] /\ UNCHANGED filter
  ELSE filter' = [filter EXCEPT ![c] = Receiving] /\ UNCHANGED consolidate

Without(b, i) == [j \in DOMAIN b \ {i} |-> b[j]]

\* What the chain of a carrier lets through of an answer.
Passed(b) == LET f == IF query = "plain" THEN b ELSE Filtered(b)
             IN  IF ValidBatch(f) THEN f ELSE NoBatch

-----------------------------------------------------------------------------
WriterAt(at) == [at |-> at, carrier |-> "none", batch |-> NoBatch]
WriterHolds(at, c, b) == [at |-> at, carrier |-> c, batch |-> b]

\* mutant of Init: wg.Add once more than there are transfer goroutines
InitExtraAdd ==
  /\ query \in Queries
  /\ gone = FALSE /\ cancelled = FALSE /\ crashed = FALSE
  /\ answer = [c \in Carriers |-> NoBatch]
  /\ consolidate = [c \in Carriers |-> Starting]
  /\ filter = [c \in Carriers |-> IF query = "plain" THEN Ended ELSE Receiving]
  /\ validate = [c \in Carriers |-> Receiving]
  /\ transfer = [c \in Carriers |-> Receiving]
  /\ wg = Cardinality(Carriers) + 1
  /\ fannedIn = "open" /\ writer = WriterAt("none") /\ handler = "header"
  /\ body = << >> /\ footer = "none"

Init ==
  /\ query \in Queries
  /\ gone = FALSE /\ cancelled = FALSE /\ crashed = FALSE
  /\ answer = [c \in Carriers |-> NoBatch]
  /\ consolidate = [c \in Carriers |-> Starting]
  /\ filter = [c \in Carriers |-> IF query = "plain" THEN Ended ELSE Receiving]
  /\ validate = [c \in Carriers |-> Receiving]
  /\ transfer = [c \in Carriers |-> Receiving]
  /\ wg = Cardinality(Carriers)
  /\ fannedIn = "open"
  /\ writer = WriterAt("none")
  /\ handler = "header"
  /\ body = << >>
  /\ footer = "none"

(* The operand of a send is evaluated before the select chooses, so the fetch *)
(* runs even for a request that is already cancelled; FetchCarrierSchedule    *)
(* then returns nil at once.                                                  *)
BeginFetch(c) ==
  /\ consolidate[c] = Starting
  /\ consolidate' = [consolidate EXCEPT ![c] = IF cancelled THEN Sending(NoBatch)
                                                            ELSE Fetching]
  /\ UNCHANGED <<query, gone, cancelled, answer, filter, validate, transfer, wg,
                 fannedIn, writer, handler, body, footer, crashed>>

(* An unknown carrier, a failed request and an error of the adapter all come *)
(* back as nil: the empty batch.                                             *)
EndFetch(c) ==
  /\ consolidate[c] = Fetching
  /\ \E b \in Answers[c] \cup {NoBatch} :
       /\ answer' = [answer EXCEPT ![c] = b]
       /\ consolidate' = [consolidate EXCEPT ![c] = Sending(b)]
  /\ UNCHANGED <<query, gone, cancelled, filter, validate, transfer, wg,
                 fannedIn, writer, handler, body, footer, crashed>>

(* select: case <-ctx.Done() of the consolidating goroutine. *)
AbortConsolidate(c) ==
  /\ cancelled /\ consolidate[c].at = "send"
  /\ consolidate' = [consolidate EXCEPT ![c] = Ended]
  /\ UNCHANGED <<query, gone, cancelled, answer, filter, validate, transfer, wg,
                 fannedIn, writer, handler, body, footer, crashed>>

FilterReceive(c) ==
  /\ query # "plain" /\ filter[c] = Receiving /\ consolidate[c].at = "send"
  /\ IF FilterPanics(consolidate[c].batch)
     THEN crashed' = TRUE /\ UNCHANGED <<consolidate, filter>>
     ELSE /\ filter' = [filter EXCEPT ![c] = Sending(Filtered(consolidate[c].batch))]
          /\ consolidate' = [consolidate EXCEPT ![c] = Ended]
          /\ UNCHANGED crashed
  /\ UNCHANGED <<query, gone, cancelled, answer, validate, transfer, wg,
                 fannedIn, writer, handler, body, footer>>

\* mutant of ValidateReceive: the verdict is logged and the batch sent anyway
ValidateReceiveUnchecked(c) ==
  /\ validate[c] = Receiving /\ Source(c).at = "send"
  /\ SourceSent(c)
  /\ validate' = [validate EXCEPT ![c] = Sending(Source(c).batch)]
  /\ UNCHANGED <<query, gone, cancelled, answer, transfer, wg,
                 fannedIn, writer, handler, body, footer, crashed>>

(* The range over the channel ends, or the select takes ctx.Done(). *)
FilterEnd(c) ==
  /\ \/ filter[c] = Receiving /\ consolidate[c] = Ended
     \/ filter[c].at = "send" /\ cancelled
  /\ filter' = [filter EXCEPT ![c] = Ended]
  /\ UNCHANGED <<query, gone, cancelled, answer, consolidate, validate, transfer, wg,
                 fannedIn, writer, handler, body, footer, crashed>>

ValidateReceive(c) ==
  /\ validate[c] = Receiving /\ Source(c).at = "send"
  /\ SourceSent(c)
  /\ validate' = [validate EXCEPT ![c] = IF ValidBatch(Source(c).batch)
                                         THEN Sending(Source(c).batch)
                                         ELSE Receiving]
  /\ UNCHANGED <<query, gone, cancelled, answer, transfer, wg,
                 fannedIn, writer, handler, body, footer, crashed>>

ValidateEnd(c) ==
  /\ \/ validate[c] = Receiving /\ Source(c) = Ended
     \/ validate[c].at = "send" /\ cancelled
  /\ validate' = [validate EXCEPT ![c] = Ended]
  /\ UNCHANGED <<query, gone, cancelled, answer, consolidate, filter, transfer, wg,
                 fannedIn, writer, handler, body, footer, crashed>>

TransferReceive(c) ==
  /\ transfer[c] = Receiving /\ validate[c].at = "send"
  /\ transfer' = [transfer EXCEPT ![c] = Sending(validate[c].batch)]
  /\ validate' = [validate EXCEPT ![c] = Receiving]
  /\ UNCHANGED <<query, gone, cancelled, answer, consolidate, filter, wg,
                 fannedIn, writer, handler, body, footer, crashed>>

\* mutant of TransferEnd: wg.Done both deferred and called after the loop
TransferEndTwice(c) ==
  /\ transfer[c] = Receiving /\ validate[c] = Ended
  /\ transfer' = [transfer EXCEPT ![c] = Ended]
  /\ wg' = wg - 2
  /\ UNCHANGED <<query, gone, cancelled, answer, consolidate, filter, validate,
                 fannedIn, writer, handler, body, footer, crashed>>

\* mutant of TransferEnd: a plain send to fannedInStream, without the select
TransferEndDrained(c) ==
  /\ transfer[c] = Receiving /\ validate[c] = Ended
  /\ transfer' = [transfer EXCEPT ![c] = Ended]
  /\ wg' = wg - 1
  /\ UNCHANGED <<query, gone, cancelled, answer, consolidate, filter, validate,
                 fannedIn, writer, handler, body, footer, crashed>>

\* mutant of CloseFannedIn: the first transfer goroutine to finish closes it
CloseFannedInByFirst ==
  /\ wg < Cardinality(Carriers) /\ fannedIn = "open"
  /\ fannedIn' = "closed"
  /\ UNCHANGED <<query, gone, cancelled, answer, chain, wg, writer, handler,
                 body, footer, crashed>>

(* Either way out runs the deferred wg.Done(). *)
TransferEnd(c) ==
  /\ \/ transfer[c] = Receiving /\ validate[c] = Ended
     \/ transfer[c].at = "send" /\ cancelled
  /\ transfer' = [transfer EXCEPT ![c] = Ended]
  /\ wg' = wg - 1
  /\ UNCHANGED <<query, gone, cancelled, answer, consolidate, filter, validate,
                 fannedIn, writer, handler, body, footer, crashed>>

CloseFannedIn ==
  /\ wg = 0 /\ fannedIn = "open"
  /\ fannedIn' = "closed"
  /\ UNCHANGED <<query, gone, cancelled, answer, chain, wg, writer, handler,
                 body, footer, crashed>>

-----------------------------------------------------------------------------
(* The writer goroutine of StreamResponse. *)

WriterReceive(c) ==
  /\ writer.at = "receive" /\ transfer[c].at = "send"
  /\ writer' = WriterHolds("check", c, transfer[c].batch)
  /\ transfer' = [transfer EXCEPT ![c] = Receiving]
  /\ UNCHANGED <<query, gone, cancelled, answer, consolidate, filter, validate, wg,
                 fannedIn, handler, body, footer, crashed>>

\* mutant of WriteSchedule: the batch was collected in a map and has no order
WriteScheduleUnordered ==
  /\ writer.at = "write"
  /\ \E i \in DOMAIN writer.batch :
       /\ body' = Append(body, [carrier |-> writer.carrier, place |-> i,
                                schedule |-> writer.batch[i]])
       /\ writer' = WriterHolds("write", writer.carrier, Without(writer.batch, i))
  /\ UNCHANGED <<query, gone, cancelled, answer, chain, wg, fannedIn, handler,
                 footer, crashed>>

(* A select with a default: ctx.Done() is taken whenever it is closed. *)
WriterCheck ==
  /\ writer.at = "check"
  /\ writer' = IF cancelled THEN WriterAt("ended")
                            ELSE WriterHolds("write", writer.carrier, writer.batch)
  /\ UNCHANGED <<query, gone, cancelled, answer, chain, wg, fannedIn, handler,
                 body, footer, crashed>>

WriteSchedule ==
  /\ writer.at = "write"
  /\ \E i \in First(writer.batch) :
       /\ body' = Append(body, [carrier |-> writer.carrier, place |-> i,
                                schedule |-> writer.batch[i]])
       /\ writer' = WriterHolds("write", writer.carrier, Without(writer.batch, i))
  /\ UNCHANGED <<query, gone, cancelled, answer, chain, wg, fannedIn, handler,
                 footer, crashed>>

\* mutant of WriterNext: the writer returns after the first batch
WriterNextReturns ==
  /\ \/ writer.at = "write" /\ writer.batch = NoBatch
     \/ writer.at = "receive" /\ fannedIn = "closed"
  /\ writer' = WriterAt("ended")
  /\ UNCHANGED <<query, gone, cancelled, answer, chain, wg, fannedIn, handler,
                 body, footer, crashed>>

(* The batch is written: back to the range; or fannedIn is closed. *)
WriterNext ==
  /\ \/ /\ writer.at = "write" /\ writer.batch = NoBatch
        /\ writer' = WriterAt("receive")
     \/ /\ writer.at = "receive" /\ fannedIn = "closed"
        /\ writer' = WriterAt("ended")
  /\ UNCHANGED <<query, gone, cancelled, answer, chain, wg, fannedIn, handler,
                 body, footer, crashed>>

-----------------------------------------------------------------------------
(* The handler goroutine and the client. *)

WriteHeader ==
  /\ handler = "header"
  /\ handler' = "waiting"
  /\ writer' = WriterAt("receive")
  /\ UNCHANGED <<query, gone, cancelled, answer, chain, wg, fannedIn, body, footer,
                 crashed>>

\* mutant of WriteFooter: the handler does not wait for doneProcessing
WriteFooterEarly ==
  /\ handler = "waiting"
  /\ handler' = "completed"
  /\ footer' = IF body = << >> THEN "message" ELSE "plain"
  /\ UNCHANGED <<query, gone, cancelled, answer, chain, wg, fannedIn, writer, body,
                 crashed>>

\* mutant of WriteFooter: the document is always closed the same way
WriteFooterPlain ==
  /\ handler = "waiting" /\ writer.at = "ended"
  /\ handler' = "completed" /\ footer' = "plain"
  /\ UNCHANGED <<query, gone, cancelled, answer, chain, wg, fannedIn, writer, body,
                 crashed>>

(* <-doneProcessing returned: complete the JSON document. *)
WriteFooter ==
  /\ handler = "waiting" /\ writer.at = "ended"
  /\ handler' = "completed"
  /\ footer' = IF body = << >> THEN "message" ELSE "plain"
  /\ UNCHANGED <<query, gone, cancelled, answer, chain, wg, fannedIn, writer, body,
                 crashed>>

(* The deferred cancel() closes ctx.Done(). *)
Return ==
  /\ handler = "completed"
  /\ handler' = "returned"
  /\ cancelled' = TRUE
  /\ UNCHANGED <<query, gone, answer, chain, wg, fannedIn, writer, body, footer,
                 crashed>>

Disconnect ==
  /\ handler # "returned" /\ ~gone
  /\ gone' = TRUE /\ cancelled' = TRUE
  /\ UNCHANGED <<query, answer, chain, wg, fannedIn, writer, handler, body, footer,
                 crashed>>

-----------------------------------------------------------------------------
Consolidate(c) == BeginFetch(c) \/ EndFetch(c) \/ AbortConsolidate(c)
Filter(c) == FilterReceive(c) \/ FilterEnd(c)
Validate(c) == ValidateReceive(c) \/ ValidateEnd(c)
Transfer(c) == TransferReceive(c) \/ TransferEnd(c)
Writer == (\E c \in Carriers : WriterReceive(c)) \/ WriterCheck \/ WriteSchedule \/ WriterNext
Handler == WriteHeader \/ WriteFooter \/ Return

Running ==
  \/ \E c \in Carriers : Consolidate(c) \/ Filter(c) \/ Validate(c) \/ Transfer(c)
  \/ CloseFannedIn \/ Writer \/ Handler \/ Disconnect

Next == ~crashed /\ Running

(* The Go scheduler runs every goroutine that can run; a fetch returns     *)
(* because each HTTP attempt has a deadline.  Nothing obliges the client   *)
(* to disconnect.                                                          *)
Fairness ==
  /\ \A c \in Carriers : /\ WF_vars(~crashed /\ Consolidate(c))
                         /\ WF_vars(~crashed /\ Filter(c))
                         /\ WF_vars(~crashed /\ Validate(c))
                         /\ WF_vars(~crashed /\ Transfer(c))
  /\ WF_vars(~crashed /\ CloseFannedIn)
  /\ WF_vars(~crashed /\ Writer)
  /\ WF_vars(~crashed /\ Handler)

Spec == Init /\ [][Next]_vars
FairSpec == Spec /\ Fairness

-----------------------------------------------------------------------------
(* Properties. *)

Cell == [at : {"start", "fetch", "receive", "send", "ended"}, batch : Batches]

(* Every goroutine, channel and counter has the shape the code gives it. *)
TypeOK ==
  /\ query \in Queries
  /\ {gone, cancelled, crashed} \subseteq BOOLEAN
  /\ answer \in [Carriers -> Batches]
  /\ consolidate \in [Carriers -> Cell] /\ filter \in [Carriers -> Cell]
  /\ validate \in [Carriers -> Cell] /\ transfer \in [Carriers -> Cell]
  /\ wg \in Nat
  /\ fannedIn \in {"open", "closed"}
  /\ writer \in [at : {"none", "receive", "check", "write", "ended"},
                 carrier : Carriers \cup {"none"}, batch : Batches]
  /\ handler \in {"header", "waiting", "completed", "returned"}
  /\ body \in Seq([carrier : Carriers, place : Places, schedule : Schedules])
  /\ footer \in {"none", "plain", "message"}

(* FanIn closes fannedInStream only after the last transfer goroutine has   *)
(* returned: a send on a closed channel would panic outside any recovery.   *)
NoSendOnClosedChannel == fannedIn = "closed" => \A c \in Carriers : transfer[c] = Ended

(* A schedule is written at most once, and the schedules of one carrier     *)
(* keep the order of its answer, whatever the goroutines' interleaving.     *)
StreamedOnceInOrder ==
  \A i, j \in DOMAIN body :
    i < j /\ body[i].carrier = body[j].carrier => body[i].place < body[j].place

(* What is written for a carrier is what its own fetch returned, after the  *)
(* post filter and the validator: no batch is mixed up, written unfiltered  *)
(* or written after the validator dropped it.                               *)
StreamedIsPassed ==
  \A i \in DOMAIN body :
    LET batch == Passed(answer[body[i].carrier])
    IN  body[i].place \in DOMAIN batch /\ body[i].schedule = batch[body[i].place]

(* A response that is completed while its client is still there holds every *)
(* schedule the chains let through: the footer waits for all the carriers.  *)
NothingLost ==
  handler \in {"completed", "returned"} /\ ~gone =>
    \A c \in Carriers : \A k \in DOMAIN Passed(answer[c]) :
      \E i \in DOMAIN body : body[i].carrier = c /\ body[i].place = k

(* StreamResponse blocks on doneProcessing: once the JSON document is       *)
(* completed no schedule follows it.                                        *)
BodyFinalOnceCompleted ==
  [][(handler \in {"completed", "returned"}) => body' = body]_vars

(* The response is completed and the handler returns, client or no client,  *)
(* unless a panicking goroutine takes the process down.                     *)
HandlerReturns == <>(handler = "returned" \/ crashed)

AllEnded == /\ \A c \in Carriers : \A g \in {consolidate[c], filter[c], validate[c], transfer[c]} :
                 g = Ended
            /\ fannedIn = "closed" /\ writer.at = "ended"

(* Cancelling the context, which the handler's return does too, lets every  *)
(* goroutine of the request end: none stays blocked on a send nobody takes. *)
NoGoroutineLeak == cancelled ~> (AllEnded \/ crashed)

(* The comment on validSchedulesFn: it "validates individual schedules", so *)
(* each streamed schedule is one the validator accepts.                     *)
StreamedAreValid == \A i \in DOMAIN body : body[i].schedule \in Valid

(* The response as its reader sees it. *)
Contract == INSTANCE StreamedResponse
              WITH offered <- [c \in Carriers |-> Passed(answer[c])]

(* The pipeline keeps the contract of a streamed response: batches whole,   *)
(* one after the other, and a footer that is true of what was written.      *)
ImplementsContract == Contract!Spec
=============================================================================
