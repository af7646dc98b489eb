----------------------- MODULE SchedulePipelineProofs -----------------------
(***************************************************************************)
(* Safety of SchedulePipeline for every set of carriers and every answer.  *)
(*                                                                         *)
(* The inductive invariant says where a carrier's batch is: Counted ties   *)
(* the WaitGroup to the transfers still running, OneBatch gives the batch  *)
(* a single place at a time, Carried says what it looks like there, and    *)
(* Streamed relates what is written to what the writer still holds.        *)
(*                                                                         *)
(* The pipeline implements the contract of a streamed response: a step of  *)
(* the fetches offers a batch, one of the writer streams a schedule, the   *)
(* footer finishes the document and a disconnection is the client's going  *)
(* away; every other step is a stutter.  For this one must know too that   *)
(* the writer has ended once the document is completed (Completion), and   *)
(* that it leaves a batch only when all of it is written (LastWhole).      *)
(***************************************************************************)
EXTENDS SchedulePipeline, FiniteSetTheorems, SequenceTheorems, TLAPS

Transferring == {c \in Carriers : transfer[c] # Ended}

(* The WaitGroup counts the transfer goroutines that have not returned. *)
Counted == /\ wg = Cardinality(Transferring)
           /\ fannedIn = "closed" => Transferring = {}

Unsent(c) == consolidate[c].at \in {"start", "fetch", "send"}
HeldBy(g, c) == g[c].at = "send"
AtWriter(c) == writer.at \in {"check", "write"} /\ writer.carrier = c
InBody(c) == \E i \in DOMAIN body : body[i].carrier = c

(* The batch of a carrier is in one place at a time, and never goes back. *)
OneBatch == \A c \in Carriers :
  /\ Unsent(c) => /\ ~HeldBy(filter, c) /\ ~HeldBy(validate, c) /\ ~HeldBy(transfer, c)
                  /\ ~AtWriter(c) /\ ~InBody(c)
  /\ HeldBy(filter, c) => /\ ~HeldBy(validate, c) /\ ~HeldBy(transfer, c)
                          /\ ~AtWriter(c) /\ ~InBody(c)
  /\ HeldBy(validate, c) => ~HeldBy(transfer, c) /\ ~AtWriter(c) /\ ~InBody(c)
  /\ HeldBy(transfer, c) => ~AtWriter(c) /\ ~InBody(c)
  /\ AtWriter(c) /\ writer.at = "check" => ~InBody(c)

(* What each goroutine holds is its carrier's answer, as far as processed. *)
Carried ==
  /\ \A c \in Carriers :
       /\ consolidate[c].at \in {"start", "fetch"} => answer[c] = NoBatch
       /\ consolidate[c].at = "send" => consolidate[c].batch = answer[c]
       /\ filter[c].at = "send" => query # "plain" /\ filter[c].batch = Filtered(answer[c])
       /\ validate[c].at = "send" => validate[c].batch = Passed(answer[c])
       /\ transfer[c].at = "send" => transfer[c].batch = Passed(answer[c])
  /\ writer.at \in {"check", "write"} => writer.carrier \in Carriers
  /\ writer.at = "check" => writer.batch = Passed(answer[writer.carrier])
  /\ handler = "header" => writer.at = "none"

(* While a batch is written the writer holds its unwritten end. *)
Streamed ==
  writer.at = "write" =>
    LET all == Passed(answer[writer.carrier])
    IN  /\ DOMAIN writer.batch \subseteq DOMAIN all
        /\ \A k \in DOMAIN writer.batch :
             /\ writer.batch[k] = all[k]
             /\ \A i \in DOMAIN body : body[i].carrier = writer.carrier => body[i].place < k

Done(c) == \A k \in DOMAIN Passed(answer[c]) :
             \E i \in DOMAIN body : body[i].carrier = c /\ body[i].place = k

Underway(c) == \/ Unsent(c) \/ HeldBy(filter, c) \/ HeldBy(validate, c)
               \/ HeldBy(transfer, c) \/ AtWriter(c)

(* Until the context is cancelled no goroutine ends before its source. *)
EndsInOrder ==
  /\ \A c \in Carriers :
       /\ query = "plain" => filter[c] = Ended
       /\ ~cancelled => /\ query # "plain" /\ filter[c] = Ended => consolidate[c] = Ended
                        /\ validate[c] = Ended => Source(c) = Ended
                        /\ transfer[c] = Ended => validate[c] = Ended
  /\ ~cancelled /\ writer.at = "ended" => fannedIn = "closed"

(* Until then each batch is underway or written, and a response completed  *)
(* for a client that is still there has them all.                          *)
Settled ==
  /\ ~gone /\ handler # "returned" => ~cancelled
  /\ ~cancelled => \A c \in Carriers : Underway(c) \/ Done(c)
  /\ writer.at = "write" =>
       \A k \in DOMAIN Passed(answer[writer.carrier]) \ DOMAIN writer.batch :
         \E i \in DOMAIN body : body[i].carrier = writer.carrier /\ body[i].place = k
  /\ handler \in {"completed", "returned"} /\ ~gone =>
       \A c \in Carriers : consolidate[c] = Ended /\ Done(c)

IInv == /\ TypeOK /\ Counted /\ OneBatch /\ Carried /\ Streamed
        /\ StreamedIsPassed /\ StreamedOnceInOrder /\ EndsInOrder /\ Settled

-----------------------------------------------------------------------------
(* Batches. *)

(* A batch loses schedules on its way and stays a batch. *)
LEMMA BatchKept ==
  ASSUME NEW b \in Batches
  PROVE  /\ NoBatch \in Batches
         /\ Filtered(b) \in Batches
         /\ \A i : Without(b, i) \in Batches
         /\ Passed(b) \in Batches
<1>1. PICK D \in SUBSET Places : b \in [D -> Schedules]
  BY DEF Batches
<1>2. ASSUME NEW E \in SUBSET D
      PROVE  [i \in E |-> b[i]] \in Batches
  <2>1. [i \in E |-> b[i]] \in [E -> Schedules] /\ E \in SUBSET Places
    BY <1>1, <1>2
  <2> QED BY <2>1 DEF Batches
<1>3. NoBatch \in Batches
  <2>1. NoBatch \in [{} -> Schedules] /\ {} \in SUBSET Places
    BY DEF NoBatch
  <2> QED BY <2>1 DEF Batches
<1>4. Filtered(b) \in Batches
  <2>1. {j \in DOMAIN b : b[j] \in Matching} \in SUBSET D
    BY <1>1
  <2> QED BY <1>2, <2>1 DEF Filtered
<1>5. ASSUME NEW i PROVE Without(b, i) \in Batches
  <2>1. DOMAIN b \ {i} \in SUBSET D
    BY <1>1
  <2> QED BY <1>2, <2>1 DEF Without
<1> QED BY <1>3, <1>4, <1>5 DEF Passed

(* A batch maps places to schedules. *)
LEMMA BatchTyped ==
  ASSUME NEW b \in Batches
  PROVE  /\ DOMAIN b \subseteq Places /\ Places \subseteq Nat
         /\ \A i \in DOMAIN b : b[i] \in Schedules
BY AnswersAssumption DEF Batches

(* The states a goroutine of a chain can be put in are typed. *)
LEMMA CellTyped ==
  /\ Starting \in Cell /\ Fetching \in Cell /\ Receiving \in Cell /\ Ended \in Cell
  /\ \A b \in Batches : Sending(b) \in Cell
<1>1. NoBatch \in Batches
  <2>1. NoBatch \in [{} -> Schedules] /\ {} \in SUBSET Places
    BY DEF NoBatch
  <2> QED BY <2>1 DEF Batches
<1> QED BY <1>1 DEF Starting, Fetching, Receiving, Ended, Sending, Cell

-----------------------------------------------------------------------------
(* Types. *)

LEMMA InitTyped == Init => TypeOK
<1> SUFFICES ASSUME Init PROVE TypeOK
  OBVIOUS
<1>1. NoBatch \in Batches
  <2>1. NoBatch \in [{} -> Schedules] /\ {} \in SUBSET Places
    BY DEF NoBatch
  <2> QED BY <2>1 DEF Batches
<1>2. wg \in Nat
  BY CarriersAssumption, FS_CardinalityType DEF Init
<1>3. /\ consolidate \in [Carriers -> Cell] /\ filter \in [Carriers -> Cell]
      /\ validate \in [Carriers -> Cell] /\ transfer \in [Carriers -> Cell]
  BY CellTyped DEF Init
<1>4. answer \in [Carriers -> Batches]
  BY <1>1 DEF Init
<1>5. body \in Seq([carrier : Carriers, place : Places, schedule : Schedules])
  BY DEF Init
<1>6. writer \in [at : {"none", "receive", "check", "write", "ended"},
                  carrier : Carriers \cup {"none"}, batch : Batches]
  BY <1>1 DEF Init, WriterAt
<1>7. /\ query \in Queries /\ {gone, cancelled, crashed} \subseteq BOOLEAN
      /\ fannedIn \in {"open", "closed"}
      /\ handler \in {"header", "waiting", "completed", "returned"}
      /\ footer \in {"none", "plain", "message"}
  BY DEF Init
<1> QED BY <1>2, <1>3, <1>4, <1>5, <1>6, <1>7 DEF TypeOK

(* No step of a carrier's chain leaves the types, given that the WaitGroup *)
(* is positive while a transfer goroutine runs.                            *)
LEMMA ChainTyped ==
  ASSUME TypeOK, Counted, NEW c \in Carriers,
         Consolidate(c) \/ Filter(c) \/ Validate(c) \/ Transfer(c)
  PROVE  TypeOK'
<1> USE CellTyped DEF TypeOK
<1>1. CASE BeginFetch(c)
  <2>1. NoBatch \in Batches
    BY BatchKept
  <2> QED BY <1>1, <2>1 DEF BeginFetch
<1>2. CASE EndFetch(c)
  <2>1. PICK b \in Answers[c] \cup {NoBatch} :
          /\ answer' = [answer EXCEPT ![c] = b]
          /\ consolidate' = [consolidate EXCEPT ![c] = Sending(b)]
    BY <1>2 DEF EndFetch
  <2>2. b \in Batches
    BY AnswersAssumption, BatchKept
  <2> QED BY <1>2, <2>1, <2>2 DEF EndFetch
<1>3. CASE AbortConsolidate(c)
  BY <1>3 DEF AbortConsolidate
<1>4. CASE FilterReceive(c)
  <2>1. consolidate[c].batch \in Batches
    BY DEF Cell
  <2>2. Sending(Filtered(consolidate[c].batch)) \in Cell
    BY <2>1, BatchKept
  <2> QED BY <1>4, <2>2 DEF FilterReceive
<1>5. CASE FilterEnd(c)
  BY <1>5 DEF FilterEnd
<1>6. CASE ValidateReceive(c)
  <2>1. Source(c).batch \in Batches
    BY DEF Cell, Source
  <2> QED BY <1>6, <2>1 DEF ValidateReceive, SourceSent
<1>7. CASE ValidateEnd(c)
  BY <1>7 DEF ValidateEnd
<1>8. CASE TransferReceive(c)
  <2>1. validate[c].batch \in Batches
    BY DEF Cell
  <2> QED BY <1>8, <2>1 DEF TransferReceive
<1>9. CASE TransferEnd(c)
  <2>1. c \in Transferring
    BY <1>9 DEF TransferEnd, Transferring, Receiving, Ended
  <2>2. IsFiniteSet(Transferring)
    BY CarriersAssumption, FS_Subset DEF Transferring
  <2>3. wg \in Nat /\ wg # 0
    BY <2>1, <2>2, FS_EmptySet DEF Counted
  <2> QED BY <1>9, <2>3 DEF TransferEnd
<1> QED BY <1>1, <1>2, <1>3, <1>4, <1>5, <1>6, <1>7, <1>8, <1>9
        DEF Consolidate, Filter, Validate, Transfer

(* Nor does a step of the writer, the handler, the closer or the client. *)
LEMMA RestTyped ==
  ASSUME TypeOK, Carried, CloseFannedIn \/ Writer \/ Handler \/ Disconnect
  PROVE  TypeOK'
<1> USE DEF TypeOK
<1>0. NoBatch \in Batches
  BY CellTyped DEF Cell, Ended
<1>1. CASE CloseFannedIn
  BY <1>1 DEF CloseFannedIn, chain
<1>2. ASSUME NEW c \in Carriers, WriterReceive(c) PROVE TypeOK'
  <2>1. transfer[c].batch \in Batches
    BY DEF Cell
  <2> QED BY <1>2, <2>1, CellTyped DEF WriterReceive, WriterHolds
<1>3. CASE WriterCheck
  BY <1>0, <1>3 DEF WriterCheck, WriterAt, WriterHolds, chain
<1>4. CASE WriteSchedule
  <2>1. PICK i \in First(writer.batch) :
          /\ body' = Append(body, [carrier |-> writer.carrier, place |-> i,
                                   schedule |-> writer.batch[i]])
          /\ writer' = WriterHolds("write", writer.carrier, Without(writer.batch, i))
    BY <1>4 DEF WriteSchedule
  <2>2. writer.batch \in Batches /\ writer.carrier \in Carriers
    BY <1>4 DEF WriteSchedule, Carried
  <2>3. i \in Places /\ writer.batch[i] \in Schedules
    BY <2>1, <2>2, BatchTyped DEF First
  <2>4. Without(writer.batch, i) \in Batches
    BY <2>2, BatchKept
  <2>5. [carrier |-> writer.carrier, place |-> i, schedule |-> writer.batch[i]]
          \in [carrier : Carriers, place : Places, schedule : Schedules]
    BY <2>2, <2>3
  <2>6. body' \in Seq([carrier : Carriers, place : Places, schedule : Schedules])
    BY <2>1, <2>5
  <2> QED BY <1>4, <2>1, <2>4, <2>6 DEF WriteSchedule, WriterHolds, chain
<1>5. CASE WriterNext
  BY <1>0, <1>5 DEF WriterNext, WriterAt, chain
<1>6. CASE WriteHeader
  BY <1>0, <1>6 DEF WriteHeader, WriterAt, chain
<1>7. CASE WriteFooter
  BY <1>7 DEF WriteFooter, chain
<1>8. CASE Return
  BY <1>8 DEF Return, chain
<1>9. CASE Disconnect
  BY <1>9 DEF Disconnect, chain
<1> QED BY <1>1, <1>2, <1>3, <1>4, <1>5, <1>6, <1>7, <1>8, <1>9 DEF Writer, Handler

-----------------------------------------------------------------------------
(* The WaitGroup. *)

LEMMA InitCounted == Init => Counted
<1> SUFFICES ASSUME Init PROVE Counted
  OBVIOUS
<1>1. Transferring = Carriers
  BY DEF Init, Transferring, Receiving, Ended
<1> QED BY <1>1 DEF Init, Counted

(* Only a transfer goroutine's return changes who is counted. *)
LEMMA CountedKept ==
  ASSUME TypeOK, Counted, Next
  PROVE  Counted'
<1>0. IsFiniteSet(Transferring)
  BY CarriersAssumption, FS_Subset DEF Transferring
<1>1. ASSUME NEW c \in Carriers, Consolidate(c) \/ Filter(c) \/ Validate(c)
      PROVE  Counted'
  <2>1. UNCHANGED <<transfer, wg, fannedIn>>
    BY <1>1 DEF Consolidate, BeginFetch, EndFetch, AbortConsolidate, Filter, FilterReceive,
                FilterEnd, Validate, ValidateReceive, ValidateEnd
  <2> QED BY <2>1 DEF Counted, Transferring
<1>2. ASSUME NEW c \in Carriers, TransferReceive(c)
      PROVE  Counted'
  <2>1. Transferring' = Transferring
    BY <1>2 DEF TransferReceive, Transferring, TypeOK, Receiving, Sending, Ended
  <2> QED BY <1>2, <2>1 DEF Counted, TransferReceive
<1>3. ASSUME NEW c \in Carriers, TransferEnd(c)
      PROVE  Counted'
  <2>1. c \in Transferring /\ Transferring' = Transferring \ {c}
    BY <1>3 DEF TransferEnd, Transferring, TypeOK, Receiving, Ended
  <2>2. Cardinality(Transferring') = wg - 1
    BY <1>0, <2>1, FS_RemoveElement DEF Counted
  <2> QED BY <1>3, <2>1, <2>2 DEF Counted, TransferEnd
<1>4. ASSUME NEW c \in Carriers, WriterReceive(c)
      PROVE  Counted'
  <2>1. Transferring' = Transferring
    BY <1>4 DEF WriterReceive, Transferring, TypeOK, Receiving, Ended
  <2> QED BY <1>4, <2>1 DEF Counted, WriterReceive
<1>5. CASE CloseFannedIn
  <2>1. Transferring = {}
    BY <1>0, <1>5, FS_EmptySet DEF CloseFannedIn, Counted
  <2> QED BY <1>5, <2>1 DEF CloseFannedIn, Counted, chain, Transferring
<1>6. CASE WriterCheck \/ WriteSchedule \/ WriterNext \/ Handler \/ Disconnect
  <2>1. UNCHANGED <<transfer, wg, fannedIn>>
    BY <1>6 DEF WriterCheck, WriteSchedule, WriterNext, Handler, WriteHeader, WriteFooter,
                Return, Disconnect, chain
  <2> QED BY <2>1 DEF Counted, Transferring
<1> QED BY <1>1, <1>2, <1>3, <1>4, <1>5, <1>6 DEF Next, Running, Transfer, Writer

-----------------------------------------------------------------------------
(* Where the batches are. *)

LEMMA InitPlaced == Init => OneBatch /\ Carried /\ Streamed
BY DEF Init, OneBatch, Carried, Streamed, Unsent, HeldBy, AtWriter, InBody, WriterAt,
       Starting, Receiving, Ended

(* A batch moves on from where it was, so it stays in one place. *)
LEMMA OneBatchKept ==
  ASSUME TypeOK, OneBatch, Carried, Next
  PROVE  OneBatch'
<1> USE DEF OneBatch, Unsent, HeldBy, AtWriter, InBody, Starting, Fetching, Receiving,
            Sending, Ended, TypeOK
<1>1. ASSUME NEW c \in Carriers, Consolidate(c) PROVE OneBatch'
  <2>1. CASE BeginFetch(c)
    BY <2>1 DEF BeginFetch
  <2>2. CASE EndFetch(c)
    BY <2>2 DEF EndFetch
  <2>3. CASE AbortConsolidate(c)
    BY <2>3 DEF AbortConsolidate
  <2> QED BY <1>1, <2>1, <2>2, <2>3 DEF Consolidate
<1>2. ASSUME NEW c \in Carriers, Filter(c) PROVE OneBatch'
  <2>1. CASE FilterReceive(c) /\ FilterPanics(consolidate[c].batch)
    BY <2>1 DEF FilterReceive
  <2>2. CASE FilterReceive(c) /\ ~FilterPanics(consolidate[c].batch)
    <3>1. /\ consolidate' = [consolidate EXCEPT ![c] = Ended]
          /\ filter' = [filter EXCEPT ![c] = Sending(Filtered(consolidate[c].batch))]
          /\ consolidate[c].at = "send"
          /\ UNCHANGED <<validate, transfer, writer, body>>
      BY <2>2 DEF FilterReceive
    <3> QED BY <3>1
  <2>3. CASE FilterEnd(c)
    BY <2>3 DEF FilterEnd
  <2> QED BY <1>2, <2>1, <2>2, <2>3 DEF Filter
<1>3. ASSUME NEW c \in Carriers, Validate(c) PROVE OneBatch'
  <2>1. CASE ValidateReceive(c)
    BY <2>1 DEF ValidateReceive, Source, SourceSent
  <2>2. CASE ValidateEnd(c)
    BY <2>2 DEF ValidateEnd
  <2> QED BY <1>3, <2>1, <2>2 DEF Validate
<1>4. ASSUME NEW c \in Carriers, Transfer(c) PROVE OneBatch'
  <2>1. CASE TransferReceive(c)
    BY <2>1 DEF TransferReceive
  <2>2. CASE TransferEnd(c)
    BY <2>2 DEF TransferEnd
  <2> QED BY <1>4, <2>1, <2>2 DEF Transfer
<1>5. ASSUME NEW c \in Carriers, WriterReceive(c) PROVE OneBatch'
  BY <1>5 DEF WriterReceive, WriterHolds
<1>6. CASE WriterCheck \/ WriterNext
  BY <1>6 DEF WriterCheck, WriterNext, WriterAt, WriterHolds, chain
<1>7. CASE WriteSchedule
  BY <1>7 DEF WriteSchedule, WriterHolds, chain
<1>8. CASE CloseFannedIn \/ Handler \/ Disconnect
  BY <1>8 DEF CloseFannedIn, Handler, WriteHeader, WriteFooter, Return, Disconnect,
              WriterAt, chain
<1> QED BY <1>1, <1>2, <1>3, <1>4, <1>5, <1>6, <1>7, <1>8 DEF Next, Running, Writer

(* What a goroutine holds is what the stages before it made of the answer. *)
LEMMA CarriedKept ==
  ASSUME TypeOK, OneBatch, Carried, Next
  PROVE  Carried'
<1> USE DEF Carried, Starting, Fetching, Receiving, Sending, Ended, TypeOK, Passed
<1>1. ASSUME NEW c \in Carriers, Consolidate(c) PROVE Carried'
  <2>1. CASE BeginFetch(c)
    BY <2>1 DEF BeginFetch
  <2>2. CASE EndFetch(c)
    <3>1. PICK b \in Answers[c] \cup {NoBatch} :
            /\ answer' = [answer EXCEPT ![c] = b]
            /\ consolidate' = [consolidate EXCEPT ![c] = Sending(b)]
      BY <2>2 DEF EndFetch
    <3>2. /\ ~HeldBy(filter, c) /\ ~HeldBy(validate, c) /\ ~HeldBy(transfer, c) /\ ~AtWriter(c)
      BY <2>2 DEF EndFetch, OneBatch, Unsent
    <3> QED BY <2>2, <3>1, <3>2 DEF EndFetch, HeldBy, AtWriter
  <2>3. CASE AbortConsolidate(c)
    BY <2>3 DEF AbortConsolidate
  <2> QED BY <1>1, <2>1, <2>2, <2>3 DEF Consolidate
<1>2. ASSUME NEW c \in Carriers, Filter(c) PROVE Carried'
  <2>1. CASE FilterReceive(c) /\ FilterPanics(consolidate[c].batch)
    BY <2>1 DEF FilterReceive
  <2>2. CASE FilterReceive(c) /\ ~FilterPanics(consolidate[c].batch)
    <3>1. /\ consolidate' = [consolidate EXCEPT ![c] = Ended]
          /\ filter' = [filter EXCEPT ![c] = Sending(Filtered(consolidate[c].batch))]
          /\ consolidate[c].batch = answer[c] /\ query # "plain"
          /\ UNCHANGED <<query, answer, validate, transfer, writer, handler>>
      BY <2>2 DEF FilterReceive
    <3> QED BY <3>1
  <2>3. CASE FilterEnd(c)
    BY <2>3 DEF FilterEnd
  <2> QED BY <1>2, <2>1, <2>2, <2>3 DEF Filter
<1>3. ASSUME NEW c \in Carriers, Validate(c) PROVE Carried'
  <2>1. CASE ValidateReceive(c)
    <3>1. Source(c).batch = IF query = "plain" THEN answer[c] ELSE Filtered(answer[c])
      BY <2>1 DEF ValidateReceive, Source
    <3> QED BY <2>1, <3>1 DEF ValidateReceive, SourceSent
  <2>2. CASE ValidateEnd(c)
    BY <2>2 DEF ValidateEnd
  <2> QED BY <1>3, <2>1, <2>2 DEF Validate
<1>4. ASSUME NEW c \in Carriers, Transfer(c) PROVE Carried'
  <2>1. CASE TransferReceive(c)
    BY <2>1 DEF TransferReceive
  <2>2. CASE TransferEnd(c)
    BY <2>2 DEF TransferEnd
  <2> QED BY <1>4, <2>1, <2>2 DEF Transfer
<1>5. ASSUME NEW c \in Carriers, WriterReceive(c) PROVE Carried'
  BY <1>5 DEF WriterReceive, WriterHolds
<1>6. CASE WriterCheck \/ WriterNext
  BY <1>6 DEF WriterCheck, WriterNext, WriterAt, WriterHolds, chain
<1>7. CASE WriteSchedule
  <2>1. PICK i \in First(writer.batch) :
          writer' = WriterHolds("write", writer.carrier, Without(writer.batch, i))
    BY <1>7 DEF WriteSchedule
  <2>2. /\ writer.carrier \in Carriers /\ handler # "header"
        /\ UNCHANGED <<query, answer, chain, handler>>
    BY <1>7 DEF WriteSchedule
  <2> QED BY <2>1, <2>2 DEF WriterHolds, chain
<1>8. CASE CloseFannedIn \/ Handler \/ Disconnect
  BY <1>8 DEF CloseFannedIn, Handler, WriteHeader, WriteFooter, Return, Disconnect,
              WriterAt, chain
<1> QED BY <1>1, <1>2, <1>3, <1>4, <1>5, <1>6, <1>7, <1>8 DEF Next, Running, Writer

-----------------------------------------------------------------------------
(* What is written. *)

(* A fetch answers before anything of its carrier is written, and no other *)
(* step but the writer's changes what Streamed and the body speak of.      *)
LEMMA PassedKept ==
  ASSUME TypeOK, OneBatch, Next, ~Writer, ~WriteHeader
  PROVE  /\ UNCHANGED <<body, writer, query>>
         /\ \A c \in Carriers : InBody(c) \/ AtWriter(c) => Passed(answer[c])' = Passed(answer[c])
<1>1. ASSUME NEW c \in Carriers, EndFetch(c)
      PROVE  /\ UNCHANGED <<body, writer, query>>
             /\ \A d \in Carriers : InBody(d) \/ AtWriter(d) => answer'[d] = answer[d]
  <2>1. ~InBody(c) /\ ~AtWriter(c)
    BY <1>1 DEF EndFetch, OneBatch, Unsent, Fetching
  <2> QED BY <1>1, <2>1 DEF EndFetch, TypeOK
<1>2. CASE ~\E c \in Carriers : EndFetch(c)
  <2>1. UNCHANGED <<body, writer, query, answer>>
    BY <1>2 DEF Next, Running, Consolidate, BeginFetch, AbortConsolidate, Filter, FilterReceive,
                FilterEnd, Validate, ValidateReceive, ValidateEnd, Transfer, TransferReceive,
                TransferEnd, CloseFannedIn, Handler, WriteFooter, Return, Disconnect, chain
  <2> QED BY <2>1 DEF Passed
<1> QED BY <1>1, <1>2 DEF Passed

LEMMA StreamedKept ==
  ASSUME TypeOK, OneBatch, Carried, Streamed, Next
  PROVE  Streamed'
<1>1. CASE ~Writer /\ ~WriteHeader
  <2>1. writer.at = "write" => writer.carrier \in Carriers /\ AtWriter(writer.carrier)
    BY DEF Carried, AtWriter
  <2> QED BY <1>1, <2>1, PassedKept DEF Streamed
<1>2. ASSUME NEW c \in Carriers, WriterReceive(c) PROVE Streamed'
  BY <1>2 DEF WriterReceive, WriterHolds, Streamed
<1>3. CASE WriterCheck
  <2>1. writer.batch = Passed(answer[writer.carrier]) /\ ~InBody(writer.carrier)
    BY <1>3 DEF WriterCheck, Carried, OneBatch, AtWriter
  <2> QED BY <1>3, <2>1 DEF WriterCheck, WriterAt, WriterHolds, Streamed, InBody, Passed, chain
<1>4. CASE WriteSchedule
  <2>1. PICK i \in First(writer.batch) :
          /\ body' = Append(body, [carrier |-> writer.carrier, place |-> i,
                                   schedule |-> writer.batch[i]])
          /\ writer' = WriterHolds("write", writer.carrier, Without(writer.batch, i))
    BY <1>4 DEF WriteSchedule
  <2>2. DOMAIN writer.batch \subseteq Nat /\ i \in Nat
    BY <2>1, BatchTyped DEF TypeOK, First
  <2>3. \A k \in DOMAIN Without(writer.batch, i) :
          k \in DOMAIN writer.batch /\ Without(writer.batch, i)[k] = writer.batch[k] /\ i < k
    BY <2>1, <2>2 DEF First, Without
  <2>4. /\ writer.at = "write" /\ UNCHANGED <<query, answer>>
        /\ writer'.batch = Without(writer.batch, i) /\ writer'.carrier = writer.carrier
    BY <1>4, <2>1 DEF WriteSchedule, WriterHolds
  <2>5. \A j \in DOMAIN body' :
          \/ j \in DOMAIN body /\ body'[j] = body[j]
          \/ body'[j].place = i
    BY <2>1 DEF TypeOK
  <2> QED BY <2>3, <2>4, <2>5 DEF Streamed, Passed
<1>5. CASE WriterNext \/ WriteHeader
  BY <1>5 DEF WriterNext, WriteHeader, WriterAt, Streamed
<1> QED BY <1>1, <1>2, <1>3, <1>4, <1>5 DEF Writer

(* The writer appends the first schedule it still holds, so the body keeps *)
(* to the answers and to their order.                                      *)
LEMMA BodyKept ==
  ASSUME TypeOK, OneBatch, Carried, Streamed, StreamedIsPassed, StreamedOnceInOrder, Next
  PROVE  StreamedIsPassed' /\ StreamedOnceInOrder'
<1>1. CASE ~Writer /\ ~WriteHeader
  <2>1. \A i \in DOMAIN body : body[i].carrier \in Carriers /\ InBody(body[i].carrier)
    <3> DEFINE Entry == [carrier : Carriers, place : Places, schedule : Schedules]
    <3>1. body \in Seq(Entry) /\ DOMAIN body = 1..Len(body)
      BY DEF TypeOK
    <3>2. \A i \in DOMAIN body : body[i] \in Entry
      <4> HIDE DEF Entry
      <4> QED BY <3>1, ElementOfSeq
    <3> QED BY <3>2 DEF InBody
  <2>2. body' = body /\ \A i \in DOMAIN body :
          Passed(answer[body[i].carrier])' = Passed(answer[body[i].carrier])
    BY <1>1, <2>1, PassedKept
  <2> QED BY <2>2 DEF StreamedIsPassed, StreamedOnceInOrder
<1>2. CASE WriteSchedule
  <2>1. PICK i \in First(writer.batch) :
          body' = Append(body, [carrier |-> writer.carrier, place |-> i,
                                schedule |-> writer.batch[i]])
    BY <1>2 DEF WriteSchedule
  <2>2. /\ UNCHANGED <<query, answer>> /\ i \in DOMAIN writer.batch
        /\ i \in DOMAIN Passed(answer[writer.carrier])
        /\ writer.batch[i] = Passed(answer[writer.carrier])[i]
        /\ \A j \in DOMAIN body : body[j].carrier = writer.carrier => body[j].place < i
    BY <1>2, <2>1 DEF WriteSchedule, Streamed, First
  <2>3. \A j \in DOMAIN body' :
          \/ j \in DOMAIN body /\ body'[j] = body[j]
          \/ /\ j = Len(body) + 1 /\ body'[j].carrier = writer.carrier
             /\ body'[j].place = i /\ body'[j].schedule = writer.batch[i]
    BY <2>1 DEF TypeOK
  <2>4. StreamedIsPassed'
    BY <2>2, <2>3 DEF StreamedIsPassed, Passed
  <2>5. \A j \in DOMAIN body : j \in Nat /\ j <= Len(body)
    BY DEF TypeOK
  <2>6. StreamedOnceInOrder'
    <3> SUFFICES ASSUME NEW j \in DOMAIN body', NEW k \in DOMAIN body', j < k,
                        body'[j].carrier = body'[k].carrier
                 PROVE  body'[j].place < body'[k].place
      BY DEF StreamedOnceInOrder
    <3>1. j \in DOMAIN body /\ body'[j] = body[j]
      <4>1. Len(body) \in Nat /\ k <= Len(body) + 1 /\ j \in Nat /\ k \in Nat
        BY <2>3, <2>5 DEF TypeOK
      <4> QED BY <2>3, <4>1
    <3>2. CASE k \in DOMAIN body /\ body'[k] = body[k]
      BY <3>1, <3>2 DEF StreamedOnceInOrder
    <3>3. CASE body'[k].carrier = writer.carrier /\ body'[k].place = i
      BY <2>2, <3>1, <3>3
    <3> QED BY <2>3, <3>2, <3>3
  <2> QED BY <2>4, <2>6
<1>3. CASE (\E c \in Carriers : WriterReceive(c)) \/ WriterCheck \/ WriterNext \/ WriteHeader
  <2>1. UNCHANGED <<body, query, answer>>
    BY <1>3 DEF WriterReceive, WriterCheck, WriterNext, WriteHeader
  <2> QED BY <2>1 DEF StreamedIsPassed, StreamedOnceInOrder, Passed
<1> QED BY <1>1, <1>2, <1>3 DEF Writer

-----------------------------------------------------------------------------
(* Nothing is lost. *)

LEMMA InitSettled == Init => EndsInOrder /\ Settled
BY DEF Init, EndsInOrder, Settled, Underway, Unsent, WriterAt, Source, Starting, Receiving, Ended

(* A goroutine ends when its source has, or on cancellation. *)
LEMMA EndsInOrderKept ==
  ASSUME TypeOK, Counted, EndsInOrder, Settled, Next
  PROVE  EndsInOrder'
<1> USE DEF EndsInOrder, Source, Starting, Fetching, Receiving, Sending, Ended, TypeOK
<1>1. ASSUME NEW c \in Carriers, Consolidate(c) PROVE EndsInOrder'
  <2>1. CASE BeginFetch(c)
    BY <2>1 DEF BeginFetch
  <2>2. CASE EndFetch(c)
    BY <2>2 DEF EndFetch
  <2>3. CASE AbortConsolidate(c)
    BY <2>3 DEF AbortConsolidate
  <2> QED BY <1>1, <2>1, <2>2, <2>3 DEF Consolidate
<1>2. ASSUME NEW c \in Carriers, Filter(c) PROVE EndsInOrder'
  <2>1. CASE FilterReceive(c) /\ FilterPanics(consolidate[c].batch)
    BY <2>1 DEF FilterReceive
  <2>2. CASE FilterReceive(c) /\ ~FilterPanics(consolidate[c].batch)
    <3>1. /\ consolidate' = [consolidate EXCEPT ![c] = Ended]
          /\ filter' = [filter EXCEPT ![c] = Sending(Filtered(consolidate[c].batch))]
          /\ filter[c] = Receiving /\ query # "plain"
          /\ UNCHANGED <<query, cancelled, validate, transfer, writer, fannedIn>>
      BY <2>2 DEF FilterReceive
    <3> QED BY <3>1
  <2>3. CASE FilterEnd(c)
    BY <2>3 DEF FilterEnd
  <2> QED BY <1>2, <2>1, <2>2, <2>3 DEF Filter
<1>3. ASSUME NEW c \in Carriers, Validate(c) PROVE EndsInOrder'
  <2>1. CASE ValidateReceive(c)
    BY <2>1 DEF ValidateReceive, SourceSent
  <2>2. CASE ValidateEnd(c)
    BY <2>2 DEF ValidateEnd
  <2> QED BY <1>3, <2>1, <2>2 DEF Validate
<1>4. ASSUME NEW c \in Carriers, Transfer(c) PROVE EndsInOrder'
  <2>1. CASE TransferReceive(c)
    BY <2>1 DEF TransferReceive
  <2>2. CASE TransferEnd(c)
    BY <2>2 DEF TransferEnd
  <2> QED BY <1>4, <2>1, <2>2 DEF Transfer
<1>5. ASSUME NEW c \in Carriers, WriterReceive(c) PROVE EndsInOrder'
  BY <1>5 DEF WriterReceive, WriterHolds
<1>6. CASE WriterCheck \/ WriterNext
  BY <1>6 DEF WriterCheck, WriterNext, WriterAt, WriterHolds, chain
<1>7. CASE WriteSchedule
  <2>1. writer'.at = "write" /\ UNCHANGED <<query, cancelled, chain, fannedIn>>
    BY <1>7 DEF WriteSchedule, WriterHolds
  <2> QED BY <2>1 DEF chain
<1>8. CASE CloseFannedIn \/ Handler \/ Disconnect
  BY <1>8 DEF CloseFannedIn, Handler, WriteHeader, WriteFooter, Return, Disconnect,
              WriterAt, chain
<1> QED BY <1>1, <1>2, <1>3, <1>4, <1>5, <1>6, <1>7, <1>8 DEF Next, Running, Writer

(* What the body holds of a carrier only grows, and its answer is fixed by *)
(* then: what is done stays done.                                          *)
LEMMA DoneStable ==
  ASSUME TypeOK, Next
  PROVE  /\ \A i \in DOMAIN body : i \in DOMAIN body' /\ body'[i] = body[i]
         /\ \A c \in Carriers : ~Unsent(c) /\ Done(c) => Done(c)'
<1>1. query' = query
  BY DEF Next, Running, Consolidate, BeginFetch, EndFetch, AbortConsolidate, Filter,
         FilterReceive, FilterEnd, Validate, ValidateReceive, ValidateEnd, Transfer,
         TransferReceive, TransferEnd, CloseFannedIn, Writer, WriterReceive, WriterCheck,
         WriteSchedule, WriterNext, Handler, WriteHeader, WriteFooter, Return, Disconnect
<1>2. \A i \in DOMAIN body : i \in DOMAIN body' /\ body'[i] = body[i]
  <2>1. CASE WriteSchedule
    <3>1. PICK i \in First(writer.batch) :
            body' = Append(body, [carrier |-> writer.carrier, place |-> i,
                                  schedule |-> writer.batch[i]])
      BY <2>1 DEF WriteSchedule
    <3> QED BY <3>1 DEF TypeOK
  <2>2. CASE ~WriteSchedule
    <3>1. body' = body
      BY <2>2 DEF Next, Running, Consolidate, BeginFetch, EndFetch, AbortConsolidate, Filter,
             FilterReceive, FilterEnd, Validate, ValidateReceive, ValidateEnd, Transfer,
             TransferReceive, TransferEnd, CloseFannedIn, Writer, WriterReceive, WriterCheck,
             WriterNext, Handler, WriteHeader, WriteFooter, Return, Disconnect
    <3> QED BY <3>1
  <2> QED BY <2>1, <2>2
<1>3. \A c \in Carriers : ~Unsent(c) => answer'[c] = answer[c]
  <2>1. ASSUME NEW d \in Carriers, EndFetch(d), NEW c \in Carriers, ~Unsent(c)
        PROVE  answer'[c] = answer[c]
    <3>1. c # d
      BY <2>1 DEF EndFetch, Unsent, Fetching
    <3> QED BY <2>1, <3>1 DEF EndFetch, TypeOK
  <2>2. CASE ~\E d \in Carriers : EndFetch(d)
    <3>1. answer' = answer
      BY <2>2 DEF Next, Running, Consolidate, BeginFetch, AbortConsolidate, Filter,
             FilterReceive, FilterEnd, Validate, ValidateReceive, ValidateEnd, Transfer,
             TransferReceive, TransferEnd, CloseFannedIn, Writer, WriterReceive, WriterCheck,
             WriteSchedule, WriterNext, Handler, WriteHeader, WriteFooter, Return, Disconnect,
             chain
    <3> QED BY <3>1
  <2> QED BY <2>1, <2>2
<1> QED BY <1>1, <1>2, <1>3 DEF Done, Passed

(* A batch on its way is not lost by a step of a context that is not       *)
(* cancelled: it moves on, is dropped as invalid, or is written.           *)
LEMMA NotLost ==
  ASSUME TypeOK, OneBatch, Carried, Settled, Next, ~cancelled', NEW d \in Carriers,
         Underway(d)
  PROVE  Underway(d)' \/ Done(d)'
<1> USE DEF Underway, Unsent, HeldBy, AtWriter, Starting, Fetching, Receiving, Sending, Ended,
            TypeOK
<1>1. ASSUME NEW c \in Carriers, Consolidate(c) PROVE Underway(d)'
  <2>1. CASE BeginFetch(c)
    BY <2>1 DEF BeginFetch
  <2>2. CASE EndFetch(c)
    BY <2>2 DEF EndFetch
  <2>3. CASE AbortConsolidate(c)
    BY <2>3 DEF AbortConsolidate
  <2> QED BY <1>1, <2>1, <2>2, <2>3 DEF Consolidate
<1>2. ASSUME NEW c \in Carriers, Filter(c) PROVE Underway(d)'
  <2>1. CASE FilterReceive(c) /\ FilterPanics(consolidate[c].batch)
    BY <2>1 DEF FilterReceive
  <2>2. CASE FilterReceive(c) /\ ~FilterPanics(consolidate[c].batch)
    <3>1. /\ consolidate' = [consolidate EXCEPT ![c] = Ended]
          /\ filter' = [filter EXCEPT ![c] = Sending(Filtered(consolidate[c].batch))]
          /\ UNCHANGED <<validate, transfer, writer>>
      BY <2>2 DEF FilterReceive
    <3> QED BY <3>1
  <2>3. CASE FilterEnd(c)
    BY <2>3 DEF FilterEnd
  <2> QED BY <1>2, <2>1, <2>2, <2>3 DEF Filter
<1>3. ASSUME NEW c \in Carriers, ValidateReceive(c) PROVE Underway(d)' \/ Done(d)'
  <2>1. CASE ValidBatch(Source(c).batch)
    BY <1>3, <2>1 DEF ValidateReceive, SourceSent, Source
  <2>2. CASE ~ValidBatch(Source(c).batch) /\ d = c
    <3>1. Source(c).batch = IF query = "plain" THEN answer[c] ELSE Filtered(answer[c])
      BY <1>3 DEF ValidateReceive, Source, Carried
    <3>2. Passed(answer[c])' = NoBatch
      BY <1>3, <2>2, <3>1 DEF Passed, ValidateReceive
    <3> QED BY <2>2, <3>2 DEF Done, NoBatch
  <2>3. CASE d # c
    BY <1>3, <2>3 DEF ValidateReceive, SourceSent, Source
  <2> QED BY <2>1, <2>2, <2>3
<1>4. ASSUME NEW c \in Carriers, ValidateEnd(c) PROVE Underway(d)'
  BY <1>4 DEF ValidateEnd
<1>5. ASSUME NEW c \in Carriers, Transfer(c) PROVE Underway(d)'
  BY <1>5 DEF Transfer, TransferReceive, TransferEnd
<1>6. ASSUME NEW c \in Carriers, WriterReceive(c) PROVE Underway(d)'
  BY <1>6 DEF WriterReceive, WriterHolds
<1>7. CASE WriterCheck
  BY <1>7 DEF WriterCheck, WriterHolds, chain
<1>8. CASE WriteSchedule
  <2>1. writer'.at = "write" /\ writer'.carrier = writer.carrier /\ UNCHANGED chain
    BY <1>8 DEF WriteSchedule, WriterHolds
  <2> QED BY <1>8, <2>1 DEF chain, WriteSchedule
<1>9. CASE WriterNext
  <2>1. CASE AtWriter(d)
    <3>1. writer.at = "write" /\ writer.batch = NoBatch /\ writer.carrier = d
      BY <1>9, <2>1 DEF WriterNext
    <3>2. Done(d)
      BY <3>1 DEF Settled, Done, NoBatch
    <3>3. UNCHANGED <<body, answer, query>>
      BY <1>9 DEF WriterNext
    <3> QED BY <3>2, <3>3 DEF Done, Passed
  <2>2. CASE ~AtWriter(d)
    BY <1>9, <2>2 DEF WriterNext, chain
  <2> QED BY <2>1, <2>2
<1>10. CASE CloseFannedIn \/ Handler \/ Disconnect
  <2>1. CASE WriteHeader \/ Return \/ Disconnect \/ WriteFooter \/ CloseFannedIn
    BY <2>1 DEF WriteHeader, Return, Disconnect, WriteFooter, CloseFannedIn, chain, WriterAt,
                Carried
  <2> QED BY <1>10, <2>1 DEF Handler
<1> QED BY <1>1, <1>2, <1>3, <1>4, <1>5, <1>6, <1>7, <1>8, <1>9, <1>10
        DEF Next, Running, Validate, Writer

LEMMA SettledKept ==
  ASSUME TypeOK, Counted, OneBatch, Carried, Streamed, EndsInOrder, Settled, Next
  PROVE  Settled'
<1>1. /\ (cancelled => cancelled') /\ (gone => gone')
      /\ handler = "returned" => handler' = "returned"
      /\ cancelled' /\ ~cancelled => gone' \/ handler' = "returned"
  <2>1. CASE Handler \/ Disconnect
    BY <2>1 DEF Handler, WriteHeader, WriteFooter, Return, Disconnect
  <2>2. CASE ~Handler /\ ~Disconnect
    <3>1. UNCHANGED <<cancelled, gone, handler>>
      BY <2>2 DEF Next, Running, Consolidate, BeginFetch, EndFetch, AbortConsolidate, Filter,
             FilterReceive, FilterEnd, Validate, ValidateReceive, ValidateEnd, Transfer,
             TransferReceive, TransferEnd, CloseFannedIn, Writer, WriterReceive, WriterCheck,
             WriteSchedule, WriterNext
    <3> QED BY <3>1
  <2> QED BY <2>1, <2>2
<1>2. ~gone' /\ handler' # "returned" => ~cancelled'
  BY <1>1 DEF Settled
<1>3. ASSUME ~cancelled', NEW c \in Carriers
      PROVE  Underway(c)' \/ Done(c)'
  <2>1. CASE Underway(c)
    BY <1>3, <2>1, NotLost
  <2>2. CASE ~Underway(c)
    <3>1. Done(c)
      BY <1>1, <1>3, <2>2 DEF Settled
    <3> QED BY <2>2, <3>1, DoneStable DEF Underway
  <2> QED BY <2>1, <2>2
<1>4. writer'.at = "write" =>
        \A k \in DOMAIN Passed(answer[writer.carrier])' \ DOMAIN writer'.batch :
          \E i \in DOMAIN body' : body'[i].carrier = writer'.carrier /\ body'[i].place = k
  <2>1. CASE ~Writer /\ ~WriteHeader
    <3>1. writer.at = "write" => writer.carrier \in Carriers /\ AtWriter(writer.carrier)
      BY DEF Carried, AtWriter
    <3> QED BY <2>1, <3>1, PassedKept DEF Settled
  <2>2. CASE (\E c \in Carriers : WriterReceive(c)) \/ WriterNext \/ WriteHeader
    BY <2>2 DEF WriterReceive, WriterNext, WriteHeader, WriterAt, WriterHolds
  <2>3. CASE WriterCheck
    BY <2>3 DEF WriterCheck, WriterAt, WriterHolds, Carried, Passed, chain
  <2>4. CASE WriteSchedule
    <3>1. PICK i \in First(writer.batch) :
            /\ body' = Append(body, [carrier |-> writer.carrier, place |-> i,
                                     schedule |-> writer.batch[i]])
            /\ writer' = WriterHolds("write", writer.carrier, Without(writer.batch, i))
      BY <2>4 DEF WriteSchedule
    <3>2. /\ writer'.carrier = writer.carrier
          /\ DOMAIN writer'.batch = DOMAIN writer.batch \ {i}
          /\ writer.at = "write" /\ UNCHANGED <<query, answer>>
      BY <2>4, <3>1 DEF WriterHolds, Without, WriteSchedule
    <3>3. /\ Len(body) + 1 \in DOMAIN body'
          /\ body'[Len(body) + 1].carrier = writer.carrier
          /\ body'[Len(body) + 1].place = i
      BY <3>1 DEF TypeOK
    <3>4. \A j \in DOMAIN body : j \in DOMAIN body' /\ body'[j] = body[j]
      BY DoneStable
    <3>5. Passed(answer[writer.carrier])' = Passed(answer[writer.carrier])
      BY <3>1, <3>2 DEF Passed
    <3> QED BY <3>2, <3>3, <3>4, <3>5 DEF Settled
  <2> QED BY <2>1, <2>2, <2>3, <2>4 DEF Writer
<1>5. ASSUME handler' \in {"completed", "returned"}, ~gone', NEW c \in Carriers
      PROVE  consolidate'[c] = Ended /\ Done(c)'
  <2>1. CASE handler \in {"completed", "returned"}
    <3>1. consolidate[c] = Ended /\ Done(c)
      BY <1>1, <1>5, <2>1 DEF Settled
    <3>2. consolidate'[c] = Ended
      BY <3>1 DEF Next, Running, Consolidate, BeginFetch, EndFetch, AbortConsolidate, Filter,
             FilterReceive, FilterEnd, Validate, ValidateReceive, ValidateEnd, SourceSent,
             Transfer, TransferReceive, TransferEnd, CloseFannedIn, Writer, WriterReceive,
             WriterCheck, WriteSchedule, WriterNext, Handler, WriteHeader, WriteFooter, Return,
             Disconnect, chain, TypeOK, Starting, Fetching, Ended
    <3> QED BY <3>1, <3>2, DoneStable DEF Unsent, Ended
  <2>2. CASE handler \notin {"completed", "returned"}
    <3>1. WriteFooter
      BY <1>5, <2>2 DEF Next, Running, Consolidate, BeginFetch, EndFetch, AbortConsolidate,
             Filter, FilterReceive, FilterEnd, Validate, ValidateReceive, ValidateEnd, Transfer,
             TransferReceive, TransferEnd, CloseFannedIn, Writer, WriterReceive, WriterCheck,
             WriteSchedule, WriterNext, Handler, WriteHeader, Return, Disconnect
    <3>2. ~cancelled /\ writer.at = "ended"
      BY <1>5, <3>1 DEF WriteFooter, Settled
    <3>3. transfer[c] = Ended /\ validate[c] = Ended /\ Source(c) = Ended
      BY <3>2 DEF EndsInOrder, Counted, Transferring
    <3>4. consolidate[c] = Ended /\ filter[c] = Ended
      BY <3>2, <3>3 DEF EndsInOrder, Source
    <3>5. Done(c)
      BY <3>2, <3>3, <3>4 DEF Settled, Underway, Unsent, HeldBy, AtWriter, Ended
    <3>6. consolidate'[c] = Ended
      BY <3>1, <3>4 DEF WriteFooter, chain
    <3> QED BY <3>4, <3>5, <3>6, DoneStable DEF Unsent, Ended
  <2> QED BY <2>1, <2>2
<1> QED BY <1>2, <1>3, <1>4, <1>5 DEF Settled

-----------------------------------------------------------------------------
(* The theorems. *)

LEMMA InitIInv == Init => IInv
<1> SUFFICES ASSUME Init PROVE IInv
  OBVIOUS
<1>1. StreamedIsPassed /\ StreamedOnceInOrder
  BY DEF Init, StreamedIsPassed, StreamedOnceInOrder
<1> QED BY <1>1, InitTyped, InitCounted, InitPlaced, InitSettled DEF IInv

LEMMA NextIInv == IInv /\ [Next]_vars => IInv'
<1> SUFFICES ASSUME IInv, [Next]_vars PROVE IInv'
  OBVIOUS
<1>1. CASE Next
  <2>1. TypeOK'
    BY <1>1, ChainTyped, RestTyped DEF IInv, Next, Running
  <2> QED BY <1>1, <2>1, CountedKept, OneBatchKept, CarriedKept, StreamedKept, BodyKept,
             EndsInOrderKept, SettledKept DEF IInv
<1>2. CASE UNCHANGED vars
  BY <1>2 DEF vars, chain, IInv, TypeOK, Counted, Transferring, OneBatch, Carried, Streamed,
              StreamedIsPassed, StreamedOnceInOrder, EndsInOrder, Settled, Unsent, HeldBy,
              AtWriter, InBody, Passed, Source, Underway, Done
<1> QED BY <1>1, <1>2

(* The inductive invariant holds in every reachable state. *)
THEOREM Invariance == Spec => []IInv
BY InitIInv, NextIInv, PTL DEF Spec

(* Every variable keeps its type. *)
THEOREM TypeCorrect == Spec => []TypeOK
<1>1. IInv => TypeOK
  BY DEF IInv
<1> QED BY <1>1, Invariance, PTL

(* fannedInStream is closed only after every transfer goroutine returned,  *)
(* for any number of carriers.                                             *)
THEOREM ClosedAfterTransfers == Spec => []NoSendOnClosedChannel
<1>1. IInv => NoSendOnClosedChannel
  BY DEF IInv, Counted, Transferring, NoSendOnClosedChannel
<1> QED BY <1>1, Invariance, PTL

(* Every schedule written is one its carrier's chain let through.          *)
THEOREM StreamedFaithfully == Spec => []StreamedIsPassed
<1>1. IInv => StreamedIsPassed
  BY DEF IInv
<1> QED BY <1>1, Invariance, PTL

(* No schedule is written twice or out of its answer's order.              *)
THEOREM StreamedOnce == Spec => []StreamedOnceInOrder
<1>1. IInv => StreamedOnceInOrder
  BY DEF IInv
<1> QED BY <1>1, Invariance, PTL

(* A response completed for a client that is still there has lost nothing. *)
THEOREM Complete == Spec => []NothingLost
<1>1. IInv => NothingLost
  BY DEF IInv, Settled, Done, NothingLost
<1> QED BY <1>1, Invariance, PTL

-----------------------------------------------------------------------------
(* The contract. *)

(* The footer follows the end of the writer. *)
Completion ==
  /\ handler \in {"completed", "returned"} => writer.at = "ended"
  /\ footer = "none" <=> handler \notin {"completed", "returned"}

(* The batch that was written last is being written, or is written whole. *)
LastWhole ==
  body # << >> =>
    LET c == body[Len(body)].carrier
    IN  (writer.at = "write" /\ writer.carrier = c) \/ Done(c)

RInv == IInv /\ Completion /\ LastWhole

-----------------------------------------------------------------------------
(* A step that is none of the writer's, the handler's and the client's. *)
LEMMA ChainStep ==
  ASSUME Next, ~Writer, ~Handler
  PROVE  UNCHANGED <<query, writer, handler, body, footer>>
BY DEF Next, Running, Consolidate, BeginFetch, EndFetch, AbortConsolidate, Filter, FilterReceive,
       FilterEnd, Validate, ValidateReceive, ValidateEnd, Transfer, TransferReceive, TransferEnd,
       CloseFannedIn, Disconnect

LEMMA CompletionKept ==
  ASSUME IInv, Completion, Next
  PROVE  Completion'
<1>1. CASE ~Writer /\ ~Handler
  BY <1>1, ChainStep DEF Completion
<1>2. CASE Writer
  BY <1>2 DEF Writer, WriterReceive, WriterCheck, WriteSchedule, WriterNext, Completion
<1>3. CASE Handler
  <2>1. handler = "header" => writer.at = "none"
    BY DEF IInv, Carried
  <2> QED BY <1>3, <2>1 DEF Handler, WriteHeader, WriteFooter, Return, Completion, WriterAt
<1> QED BY <1>1, <1>2, <1>3

(* Who wrote last, and that its batch is no longer with its fetch. *)
LEMMA LastWriter ==
  ASSUME IInv, body # << >>
  PROVE  /\ Len(body) \in DOMAIN body /\ body[Len(body)].carrier \in Carriers
         /\ ~Unsent(body[Len(body)].carrier)
<1> DEFINE Entry == [carrier : Carriers, place : Places, schedule : Schedules]
<1>1. body \in Seq(Entry)
  BY DEF IInv, TypeOK
<1>2. Len(body) \in DOMAIN body /\ body[Len(body)] \in Entry
  <2>1. Len(body) \in Nat \ {0} /\ DOMAIN body = 1..Len(body)
    BY <1>1, EmptySeq
  <2> HIDE DEF Entry
  <2> QED BY <1>1, <2>1
<1>3. InBody(body[Len(body)].carrier)
  BY <1>2 DEF InBody
<1> QED BY <1>2, <1>3 DEF IInv, OneBatch

LEMMA LastWholeKept ==
  ASSUME IInv, LastWhole, Next
  PROVE  LastWhole'
<1>1. CASE WriteSchedule
  <2>1. PICK i \in First(writer.batch) :
          /\ body' = Append(body, [carrier |-> writer.carrier, place |-> i,
                                   schedule |-> writer.batch[i]])
          /\ writer' = WriterHolds("write", writer.carrier, Without(writer.batch, i))
    BY <1>1 DEF WriteSchedule
  <2>2. body'[Len(body')].carrier = writer.carrier
    BY <2>1 DEF IInv, TypeOK
  <2> QED BY <2>1, <2>2 DEF LastWhole, WriterHolds
<1>2. CASE ~WriteSchedule
  <2>1. UNCHANGED body
    BY <1>2, ChainStep DEF Writer, WriterReceive, WriterCheck, WriterNext, Handler, WriteHeader,
       WriteFooter, Return
  <2> SUFFICES ASSUME body # << >> PROVE LastWhole'
    BY <2>1 DEF LastWhole
  <2> DEFINE c == body[Len(body)].carrier
  <2>2. c \in Carriers /\ ~Unsent(c)
    BY LastWriter
  <2>3. CASE Done(c)
    <3>1. Done(c)'
      BY <2>1, <2>2, <2>3, DoneStable DEF IInv
    <3> QED BY <2>1, <3>1 DEF LastWhole
  <2>4. CASE ~Done(c)
    <3>1. writer.at = "write" /\ writer.carrier = c
      BY <2>4 DEF LastWhole
    <3>2. writer.batch # NoBatch
      BY <2>4, <3>1 DEF IInv, Settled, Done, NoBatch
    <3>3. UNCHANGED writer
      BY <1>2, <3>1, <3>2, ChainStep DEF Writer, WriterReceive, WriterCheck, WriterNext,
         Handler, WriteHeader, WriteFooter, Return, IInv, Carried
    <3> QED BY <2>1, <3>1, <3>3 DEF LastWhole
  <2> QED BY <2>3, <2>4
<1> QED BY <1>1, <1>2

LEMMA RefinementInvariance == Spec => []RInv
<1>1. Init => RInv
  BY InitIInv DEF Init, RInv, Completion, LastWhole
<1>2. RInv /\ [Next]_vars => RInv'
  <2> SUFFICES ASSUME RInv, [Next]_vars PROVE RInv'
    OBVIOUS
  <2>1. CASE Next
    BY <2>1, NextIInv, CompletionKept, LastWholeKept DEF RInv
  <2>2. CASE UNCHANGED vars
    BY <2>2, NextIInv DEF vars, chain, RInv, Completion, LastWhole, Done, Passed
  <2> QED BY <2>1, <2>2
<1> QED BY <1>1, <1>2, PTL DEF Spec

-----------------------------------------------------------------------------
(* Step by step. *)

LEMMA InitRefines == Init => Contract!Init
<1> SUFFICES ASSUME Init PROVE Contract!Init
  OBVIOUS
<1>1. Passed(NoBatch) = NoBatch
  BY DEF Passed, NoBatch, Filtered
<1> QED BY <1>1 DEF Init, Contract!Init, NoBatch

(* A batch is offered when the fetch that answers with it ends. *)
LEMMA FetchOffers ==
  ASSUME RInv, NEW c \in Carriers, EndFetch(c)
  PROVE  Contract!Offer(c)
<1> DEFINE offered == [d \in Carriers |-> Passed(answer[d])]
<1>1. PICK b \in Answers[c] \cup {NoBatch} : answer' = [answer EXCEPT ![c] = b]
  BY DEF EndFetch
<1>2. UNCHANGED <<query, body, footer, gone>> /\ Unsent(c) /\ consolidate[c] # Ended
  BY DEF EndFetch, Unsent, Fetching, Ended
<1>3. Contract!Written(c) = {}
  BY <1>2 DEF Contract!Written, RInv, IInv, OneBatch, InBody
<1>4. footer = "none" \/ gone
  BY <1>2 DEF RInv, Completion, IInv, Settled
<1>5. b \in Batches
  BY AnswersAssumption, BatchKept, CellTyped, <1>1 DEF Cell, Ended
<1>6. Passed(b)' = Passed(b) /\ \A k \in DOMAIN Passed(b) : Passed(b)[k] \in Schedules
  BY <1>2, <1>5, BatchKept, BatchTyped DEF Passed
<1>7. \A d \in Carriers : offered'[d] = IF d = c THEN Passed(b) ELSE offered[d]
  BY <1>1, <1>2 DEF RInv, IInv, TypeOK, Passed
<1>8. offered' = [offered EXCEPT ![c] = offered'[c]]
  BY <1>7
<1> QED BY <1>2, <1>3, <1>4, <1>6, <1>7, <1>8 DEF Contract!Offer

(* The writer writes the next schedule of a batch, after whole batches. *)
LEMMA WriterStreams ==
  ASSUME RInv, WriteSchedule
  PROVE  \E c \in Carriers : \E k \in DOMAIN [d \in Carriers |-> Passed(answer[d])][c] :
           Contract!Stream(c, k)
<1> DEFINE c == writer.carrier
           all == Passed(answer[c])
<1>1. PICK k \in First(writer.batch) :
        body' = Append(body, [carrier |-> c, place |-> k, schedule |-> writer.batch[k]])
  BY DEF WriteSchedule
<1>2. /\ UNCHANGED <<query, answer, footer, gone>> /\ writer.at = "write"
      /\ c \in Carriers
  BY DEF WriteSchedule, RInv, IInv, Carried
<1>3. footer = "none"
  BY <1>2 DEF RInv, Completion, IInv, TypeOK
<1>4. k \in DOMAIN writer.batch /\ k \in DOMAIN all /\ writer.batch[k] = all[k]
  BY <1>1, <1>2 DEF First, RInv, IInv, Streamed
<1>5. \A j \in DOMAIN all : j < k <=> \E i \in Contract!Written(c) : body[i].place = j
  <2>1. ASSUME NEW i \in Contract!Written(c)
        PROVE  body[i].place < k
    BY <1>2, <1>4, <2>1 DEF Contract!Written, RInv, IInv, Streamed
  <2>2. ASSUME NEW j \in DOMAIN all, j < k
        PROVE  \E i \in Contract!Written(c) : body[i].place = j
    <3>1. j \in Nat /\ k \in Nat
      <4>1. all \in Batches
        BY <1>2, BatchKept DEF RInv, IInv, TypeOK
      <4> QED BY <1>4, <4>1, BatchTyped
    <3>2. j \notin DOMAIN writer.batch
      BY <1>1, <2>2, <3>1 DEF First
    <3> QED BY <1>2, <2>2, <3>2 DEF Contract!Written, RInv, IInv, Settled
  <2> QED BY <2>1, <2>2
<1>6. body = << >> \/ body[Len(body)].carrier = c \/ Contract!Complete(body[Len(body)].carrier)
  BY <1>2, LastWriter DEF RInv, LastWhole, Done, Contract!Complete, Contract!Written
<1>7. UNCHANGED [d \in Carriers |-> Passed(answer[d])]
  BY <1>2 DEF Passed
<1>8. Contract!Stream(c, k)
  BY <1>1, <1>2, <1>3, <1>4, <1>5, <1>6, <1>7 DEF Contract!Stream
<1> QED BY <1>2, <1>4, <1>8

(* The footer is written for all batches, or for nobody. *)
LEMMA FooterFinishes ==
  ASSUME RInv, RInv', WriteFooter
  PROVE  Contract!Finish
<1>1. UNCHANGED <<query, answer, body, gone>> /\ handler' = "completed"
  BY DEF WriteFooter, chain
<1>2. footer = "none"
  BY DEF WriteFooter, RInv, Completion
<1>3. gone \/ \A c \in Carriers : Contract!Complete(c)
  BY <1>1 DEF RInv, IInv, Settled, Done, Passed, Contract!Complete, Contract!Written
<1>4. UNCHANGED [d \in Carriers |-> Passed(answer[d])]
  BY <1>1 DEF Passed
<1> QED BY <1>1, <1>2, <1>3, <1>4 DEF Contract!Finish, WriteFooter

(* All that is left changes nothing of what the reader sees. *)
LEMMA OthersStutter ==
  ASSUME Next, ~\E c \in Carriers : EndFetch(c), ~WriteSchedule, ~WriteFooter, ~Disconnect
  PROVE  UNCHANGED <<query, answer, body, footer, gone>>
BY DEF Next, Running, Consolidate, BeginFetch, AbortConsolidate, Filter, FilterReceive,
       FilterEnd, Validate, ValidateReceive, ValidateEnd, Transfer, TransferReceive, TransferEnd,
       CloseFannedIn, Writer, WriterReceive, WriterCheck, WriterNext, Handler, WriteHeader,
       Return, chain

LEMMA StepRefines ==
  ASSUME RInv, RInv', [Next]_vars
  PROVE  [Contract!Next]_(Contract!contract)
<1>1. CASE \E c \in Carriers : EndFetch(c)
  BY <1>1, FetchOffers DEF Contract!Next
<1>2. CASE WriteSchedule
  BY <1>2, WriterStreams DEF Contract!Next
<1>3. CASE WriteFooter
  BY <1>3, FooterFinishes DEF Contract!Next
<1>4. CASE Disconnect
  <2>1. UNCHANGED <<query, answer, body, footer>> /\ ~gone /\ gone' = TRUE
    BY <1>4 DEF Disconnect, chain
  <2> QED BY <2>1 DEF Contract!Next, Contract!GoAway, Passed
<1>5. CASE UNCHANGED <<query, answer, body, footer, gone>>
  BY <1>5 DEF Contract!contract, Passed
<1>6. CASE UNCHANGED vars
  BY <1>5, <1>6 DEF vars
<1> QED BY <1>1, <1>2, <1>3, <1>4, <1>5, <1>6, OthersStutter

-----------------------------------------------------------------------------
(* The theorems. *)

(* Once the JSON document is completed no schedule follows it: the writer    *)
(* has ended, whatever the carriers and the client do.                       *)
THEOREM NothingAfterFooter == Spec => BodyFinalOnceCompleted
<1>1. ASSUME RInv, [Next]_vars
      PROVE  [(handler \in {"completed", "returned"}) => body' = body]_vars
  <2>1. CASE Next /\ handler \in {"completed", "returned"}
    <3>1. writer.at = "ended"
      BY <2>1, <1>1 DEF RInv, Completion
    <3> QED BY <2>1, <3>1, ChainStep DEF Writer, WriterReceive, WriterCheck, WriteSchedule,
               WriterNext, Handler, WriteHeader, WriteFooter, Return
  <2> QED BY <1>1, <2>1
<1> QED BY <1>1, RefinementInvariance, PTL DEF Spec, BodyFinalOnceCompleted

(* The pipeline implements the contract: batches whole, one after the other, *)
(* in the order of the answers, and a footer that is true of them.           *)
THEOREM Refinement == Spec => ImplementsContract
BY InitRefines, StepRefines, RefinementInvariance, PTL DEF Spec, ImplementsContract, Contract!Spec
=============================================================================
