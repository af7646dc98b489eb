------------------------ MODULE VesselSchedulesProofs ------------------------
(***************************************************************************)
(* Safety of the vessel voyage handler for any requests and carriers: what *)
(* a completed response holds.                                             *)
(*                                                                         *)
(* A schedule passes from goroutine to goroutine of its own chain, so that *)
(* the invariant says for every task where its schedule is (Carried), that *)
(* its goroutines end one after the other (EndsInOrder) and, while the     *)
(* request is not cancelled, that a valid schedule is under way or written *)
(* (Settled).  How the package variables got their values does not matter. *)
(***************************************************************************)
EXTENDS VesselSchedules, SequenceTheorems, TLAPS

Fresh ==
  \A r \in Requests : handler[r] \in {"start", "refused"} =>
    /\ writer[r].at = "none" /\ body[r] = << >>
    /\ \A t \in Of(r) : consolidate[t] = "none" /\ validate[t] = "none" /\ transfer[t] = "none"

(* A schedule is valid only when it is finished. *)
Finished == \A t \in Tasks : schedule[t].valid => consolidate[t] \in {"send", "ended"}

InChain(t) ==
  \/ validate[t] = "send" \/ transfer[t] = "send"
  \/ writer[t[1]].at = "write" /\ writer[t[1]].from = t[2]

Carried ==
  /\ \A r \in Requests : writer[r].at = "write" => writer[r].from \in Carriers
  /\ \A t \in Tasks : InChain(t) \/ Answered(t[1], t[2]) =>
       consolidate[t] = "ended" /\ schedule[t].valid

EndsInOrder ==
  \A t \in Tasks : ~Cancelled(t[1]) =>
    /\ validate[t] = "ended" => consolidate[t] = "ended"
    /\ transfer[t] = "ended" => validate[t] = "ended"

Closed ==
  \A r \in Requests :
    /\ fannedIn[r] = "closed" => \A t \in Of(r) : transfer[t] = "ended"
    /\ writer[r].at = "ended" /\ ~Cancelled(r) => fannedIn[r] = "closed"

Settled ==
  \A t \in Tasks : ~Cancelled(t[1]) /\ consolidate[t] = "ended" /\ schedule[t].valid =>
    InChain(t) \/ Answered(t[1], t[2])

Completed ==
  \A t \in Tasks : handler[t[1]] = "returned" /\ ~gone[t[1]] =>
    consolidate[t] = "ended" /\ (schedule[t].valid => Answered(t[1], t[2]))

IInv == TypeOK /\ Fresh /\ Finished /\ Carried /\ EndsInOrder /\ Closed /\ Settled /\ Completed

-----------------------------------------------------------------------------
LEMMA TasksTyped ==
  /\ \A t \in Tasks : t[1] \in Requests /\ t[2] \in Carriers /\ t \in Of(t[1]) /\ t = <<t[1], t[2]>>
  /\ \A r \in Requests : \A t \in Of(r) : t \in Tasks /\ t[1] = r
  /\ \A r \in Requests, c \in Carriers : <<r, c>> \in Tasks /\ <<r, c>> \in Of(r)
BY DEF Tasks, Of

(* A step of a fetch touches its own schedule, which is valid only when done. *)
LEMMA ConsolidateStep ==
  ASSUME TypeOK, Finished, NEW t \in Tasks, Consolidate(t)
  PROVE  /\ UNCHANGED <<handler, gone, validate, transfer, fannedIn, writer, body, footer>>
         /\ \A u \in Tasks \ {t} : consolidate'[u] = consolidate[u] /\ schedule'[u] = schedule[u]
         /\ consolidate[t] \notin {"none", "send", "ended"}
         /\ consolidate'[t] \in {"ask", "label", "keys", "query", "send"}
         /\ schedule'[t].valid => consolidate'[t] = "send"
         /\ consolidate' \in [Tasks ->
              {"none", "fetch", "ask", "label", "keys", "query", "send", "ended"}]
<1> USE DEF TypeOK, FetchOnly, To, response
<1>0. ~schedule[t].valid \/ consolidate[t] \in {"send", "ended"}
  BY DEF Finished
<1>1. CASE Fetch(t)
  BY <1>0, <1>1 DEF Fetch
<1>2. CASE AskFails(t)
  BY <1>0, <1>2 DEF AskFails
<1>3. CASE Answer(t)
  BY <1>0, <1>3 DEF Answer, Schedule
<1>4. CASE AnswerPanics(t)
  BY <1>0, <1>4 DEF AnswerPanics, stages
<1>5. CASE Label(t)
  BY <1>0, <1>5 DEF Label, Schedule
<1>6. CASE Keys(t)
  BY <1>0, <1>6 DEF Keys, Schedule
<1>7. CASE Query(t)
  BY <1>0, <1>7 DEF Query, Schedule
<1> QED BY <1>1, <1>2, <1>3, <1>4, <1>5, <1>6, <1>7 DEF Consolidate

LEMMA ConsolidateKept ==
  ASSUME IInv, NEW t \in Tasks, Consolidate(t), TypeOK'
  PROVE  IInv'
<1> USE DEF IInv
<1>1. Fresh'
  BY ConsolidateStep, TasksTyped DEF Fresh
<1>2. Finished'
  BY ConsolidateStep DEF Finished
<1>3. Carried'
  <2>1. ASSUME NEW u \in Tasks, (InChain(u) \/ Answered(u[1], u[2]))'
        PROVE  consolidate'[u] = "ended" /\ schedule'[u].valid
    <3>1. InChain(u) \/ Answered(u[1], u[2])
      BY <2>1, ConsolidateStep DEF InChain, Answered
    <3>2. consolidate[u] = "ended" /\ schedule[u].valid
      BY <3>1 DEF Carried
    <3> QED BY <3>2, ConsolidateStep
  <2>2. \A r \in Requests : writer'[r].at = "write" => writer'[r].from \in Carriers
    BY ConsolidateStep DEF Carried
  <2> QED BY <2>1, <2>2 DEF Carried
<1>4. EndsInOrder' /\ Closed'
  BY ConsolidateStep DEF EndsInOrder, Closed, Cancelled
<1>5. Settled' /\ Completed'
  BY ConsolidateStep DEF Settled, Completed, Cancelled, InChain, Answered
<1> QED BY <1>1, <1>2, <1>3, <1>4, <1>5

(* The values that a fetch leaves behind are of their types. *)
LEMMA ConsolidateTyped ==
  ASSUME TypeOK, Finished, NEW t \in Tasks, Consolidate(t)
  PROVE  TypeOK'
<1> USE VesselAssumption, TasksTyped
<1>1. scac' \in Carriers \cup {Unset} /\ imo' \in Vessels \cup {Unset}
  <2>1. t[2] \in Carriers /\ Vessel[t[1]] \in Vessels
    OBVIOUS
  <2>2. scac' \in {scac, t[2]} /\ imo' \in {imo, Vessel[t[1]]}
    BY DEF Consolidate, Fetch, AskFails, Answer, AnswerPanics, Label, Keys, Query, package
  <2> QED BY <2>1, <2>2 DEF TypeOK
<1>2. schedule' \in [Tasks -> ScheduleType]
  <2>1. \A x \in Carriers \cup {Unset}, v, k \in Vessels \cup {Unset}, b \in BOOLEAN :
          Schedule(x, v, k, b) \in ScheduleType
    BY DEF Schedule, ScheduleType
  <2>2. /\ t[2] \in Carriers \cup {Unset} /\ Vessel[t[1]] \in Vessels \cup {Unset}
        /\ Unset \in Vessels \cup {Unset}
    OBVIOUS
  <2>3. /\ schedule[t].scac \in Carriers \cup {Unset} /\ schedule[t].vessel \in Vessels \cup {Unset}
        /\ scac \in Carriers \cup {Unset} /\ imo \in Vessels \cup {Unset}
    BY DEF TypeOK, ScheduleType
  <2>4. schedule' = schedule \/ \E s \in ScheduleType : schedule' = [schedule EXCEPT ![t] = s]
    <3>1. CASE Fetch(t) \/ AskFails(t) \/ AnswerPanics(t)
      BY <3>1 DEF Fetch, AskFails, AnswerPanics, stages
    <3>2. CASE Answer(t)
      BY <2>1, <2>2, <3>2 DEF Answer
    <3>3. CASE Label(t)
      BY <2>1, <2>2, <2>3, <3>3 DEF Label
    <3>4. CASE Keys(t)
      <4>1. PICK v \in BOOLEAN : schedule' =
              [schedule EXCEPT ![t] = Schedule(schedule[t].scac, schedule[t].vessel, imo, v)]
        BY <3>4 DEF Keys, TypeOK
      <4> QED BY <2>1, <2>3, <4>1
    <3>5. CASE Query(t)
      <4>1. CASE UNCHANGED schedule
        BY <4>1
      <4>2. ASSUME NEW v \in BOOLEAN, schedule' =
                   [schedule EXCEPT ![t] = Schedule(t[2], Vessel[t[1]], Vessel[t[1]], v)]
            PROVE  \E s \in ScheduleType : schedule' = [schedule EXCEPT ![t] = s]
        BY <2>1, <2>2, <4>2
      <4> QED BY <3>5, <4>1, <4>2 DEF Query
    <3> QED BY <3>1, <3>2, <3>3, <3>4, <3>5 DEF Consolidate
  <2>5. schedule \in [Tasks -> ScheduleType]
    BY DEF TypeOK
  <2> QED BY <2>4, <2>5
<1>3. crashed' \in BOOLEAN
  BY DEF Consolidate, Fetch, AskFails, Answer, AnswerPanics, Label, Keys, Query, FetchOnly, TypeOK
<1>4. /\ UNCHANGED <<handler, gone, validate, transfer, fannedIn, writer, body, footer>>
      /\ consolidate' \in [Tasks ->
           {"none", "fetch", "ask", "label", "keys", "query", "send", "ended"}]
  BY ConsolidateStep
<1> QED BY <1>1, <1>2, <1>3, <1>4 DEF TypeOK

-----------------------------------------------------------------------------
(* A schedule is passed on: along the chain, and to the writer. *)

LEMMA ChainTyped ==
  ASSUME TypeOK, NEW t \in Tasks, Chain(t)
  PROVE  TypeOK'
<1> DEFINE Stage == {"none", "receive", "send", "ended"}
<1>1. UNCHANGED <<handler, gone, schedule, fannedIn, body, footer, scac, imo, crashed>>
  BY DEF Chain, ToValidate, ToTransfer, ToWriter, Ends, ChainOnly, package
<1>2. consolidate' = consolidate \/ consolidate' = [consolidate EXCEPT ![t] = "ended"]
  BY DEF Chain, ToValidate, ToTransfer, ToWriter, Ends, To
<1>3. /\ validate' = validate \/ \E s \in Stage : validate' = [validate EXCEPT ![t] = s]
      /\ transfer' = transfer \/ \E s \in Stage : transfer' = [transfer EXCEPT ![t] = s]
  BY DEF Chain, ToValidate, ToTransfer, ToWriter, Ends
<1>4. writer' = writer \/ writer' = [writer EXCEPT ![t[1]] = WriterHolds(t[2])]
  BY DEF Chain, ToValidate, ToTransfer, ToWriter, Ends
<1>5. consolidate' \in [Tasks ->
        {"none", "fetch", "ask", "label", "keys", "query", "send", "ended"}]
  BY <1>2 DEF TypeOK
<1>6. validate' \in [Tasks -> Stage]
  BY <1>3 DEF TypeOK
<1>7. transfer' \in [Tasks -> Stage]
  BY <1>3 DEF TypeOK
<1>8. writer' \in [Requests -> [at : {"none", "receive", "write", "ended"},
                              from : Carriers \cup {Unset}]]
  BY <1>4, TasksTyped DEF WriterHolds, TypeOK
<1> QED BY <1>1, <1>5, <1>6, <1>7, <1>8 DEF TypeOK

(* The schedule leaves the fetch, and is in the chain if it is valid. *)
LEMMA ToValidateKept ==
  ASSUME IInv, NEW t \in Tasks, ToValidate(t)
  PROVE  IInv'
<1> USE TasksTyped DEF IInv
<1>1. TypeOK'
  BY ChainTyped DEF Chain
<1>2. UNCHANGED <<handler, gone, schedule, body>>
  BY DEF ToValidate, ChainOnly
<1>f. /\ UNCHANGED <<transfer, fannedIn, writer>>
      /\ \A u \in Tasks \ {t} : consolidate'[u] = consolidate[u] /\ validate'[u] = validate[u]
      /\ consolidate[t] = "send" /\ validate[t] = "receive" /\ consolidate'[t] = "ended"
      /\ validate'[t] = IF schedule[t].valid THEN "send" ELSE "receive"
  BY DEF ToValidate, To, TypeOK
<1>3. Fresh'
  BY <1>2, <1>f DEF Fresh
<1>4. Finished'
  BY <1>2, <1>f DEF Finished
<1>5. Carried'
  BY <1>2, <1>f DEF Carried, InChain, Answered
<1>6. EndsInOrder'
  BY <1>2, <1>f DEF EndsInOrder, Cancelled
<1>7. Closed'
  BY <1>2, <1>f DEF Closed, Cancelled
<1>8. Settled'
  BY <1>2, <1>f DEF Settled, Cancelled, InChain, Answered
<1>9. Completed'
  BY <1>2, <1>f DEF Completed, Answered
<1> QED BY <1>1, <1>3, <1>4, <1>5, <1>6, <1>7, <1>8, <1>9

(* The schedule moves on. *)
LEMMA ToTransferKept ==
  ASSUME IInv, NEW t \in Tasks, ToTransfer(t)
  PROVE  IInv'
<1> USE TasksTyped DEF IInv
<1>1. TypeOK'
  BY ChainTyped DEF Chain
<1>2. UNCHANGED <<handler, gone, schedule, body>>
  BY DEF ToTransfer, ChainOnly
<1>f. /\ UNCHANGED <<consolidate, fannedIn, writer>>
      /\ \A u \in Tasks \ {t} : validate'[u] = validate[u] /\ transfer'[u] = transfer[u]
      /\ validate[t] = "send" /\ transfer[t] = "receive"
      /\ validate'[t] = "receive" /\ transfer'[t] = "send"
  BY DEF ToTransfer, TypeOK
<1>3. Fresh'
  BY <1>2, <1>f DEF Fresh
<1>4. Finished'
  BY <1>2, <1>f DEF Finished
<1>5. Carried'
  BY <1>2, <1>f DEF Carried, InChain, Answered
<1>6. EndsInOrder'
  BY <1>2, <1>f DEF EndsInOrder, Cancelled
<1>7. Closed'
  BY <1>2, <1>f DEF Closed, Cancelled
<1>8. Settled'
  BY <1>2, <1>f DEF Settled, Cancelled, InChain, Answered
<1>9. Completed'
  BY <1>2, <1>f DEF Completed, Answered
<1> QED BY <1>1, <1>3, <1>4, <1>5, <1>6, <1>7, <1>8, <1>9

(* The schedule reaches the writer, which held none. *)
LEMMA ToWriterKept ==
  ASSUME IInv, NEW t \in Tasks, ToWriter(t)
  PROVE  IInv'
<1> USE TasksTyped DEF IInv
<1>1. TypeOK'
  BY ChainTyped DEF Chain
<1>2. UNCHANGED <<handler, gone, schedule, body>>
  BY DEF ToWriter, ChainOnly
<1>f. /\ UNCHANGED <<consolidate, validate, fannedIn>>
      /\ \A u \in Tasks \ {t} : transfer'[u] = transfer[u]
      /\ \A r \in Requests \ {t[1]} : writer'[r] = writer[r]
      /\ transfer[t] = "send" /\ writer[t[1]].at = "receive"
      /\ transfer'[t] = "receive"
      /\ writer'[t[1]].at = "write" /\ writer'[t[1]].from = t[2]
  BY DEF ToWriter, WriterHolds, TypeOK
<1>3. Fresh'
  BY <1>2, <1>f DEF Fresh
<1>4. Finished'
  BY <1>2, <1>f DEF Finished
<1>5. Carried'
  BY <1>2, <1>f DEF Carried, InChain, Answered
<1>6. EndsInOrder'
  BY <1>2, <1>f DEF EndsInOrder, Cancelled
<1>7. Closed'
  BY <1>2, <1>f DEF Closed, Cancelled
<1>8. Settled'
  BY <1>2, <1>f DEF Settled, Cancelled, InChain, Answered
<1>9. Completed'
  BY <1>2, <1>f DEF Completed, Answered
<1> QED BY <1>1, <1>3, <1>4, <1>5, <1>6, <1>7, <1>8, <1>9

(* A goroutine ends after the one before it, or drops what it has. *)
LEMMA EndsKept ==
  ASSUME IInv, NEW t \in Tasks, Ends(t)
  PROVE  IInv'
<1> USE TasksTyped DEF IInv
<1>1. TypeOK'
  BY ChainTyped DEF Chain
<1>2. UNCHANGED <<handler, gone, schedule, body>>
  BY DEF Ends, ChainOnly
<1>f. /\ UNCHANGED <<fannedIn, writer>>
      /\ \A u \in Tasks \ {t} : /\ consolidate'[u] = consolidate[u]
                                /\ validate'[u] = validate[u] /\ transfer'[u] = transfer[u]
      /\ \/ /\ consolidate[t] = "send" /\ consolidate'[t] = "ended" /\ Cancelled(t[1])
            /\ UNCHANGED <<validate, transfer>>
         \/ /\ (validate[t] = "send" /\ Cancelled(t[1])) \/ validate[t] = "receive"
            /\ Cancelled(t[1]) \/ consolidate[t] = "ended"
            /\ validate'[t] = "ended" /\ UNCHANGED <<consolidate, transfer>>
         \/ /\ (transfer[t] = "send" /\ Cancelled(t[1])) \/ transfer[t] = "receive"
            /\ Cancelled(t[1]) \/ validate[t] = "ended"
            /\ transfer'[t] = "ended" /\ UNCHANGED <<consolidate, validate>>
  BY DEF Ends, To, TypeOK
<1>3. Fresh'
  BY <1>2, <1>f DEF Fresh
<1>4. Finished'
  BY <1>2, <1>f DEF Finished
<1>5. Carried'
  BY <1>2, <1>f DEF Carried, InChain, Answered
<1>6. EndsInOrder'
  BY <1>2, <1>f DEF EndsInOrder, Cancelled
<1>7. Closed'
  BY <1>2, <1>f DEF Closed, Cancelled
<1>8. Settled'
  BY <1>2, <1>f DEF Settled, Cancelled, InChain, Answered
<1>9. Completed'
  BY <1>2, <1>f DEF Completed, Answered
<1> QED BY <1>1, <1>3, <1>4, <1>5, <1>6, <1>7, <1>8, <1>9

-----------------------------------------------------------------------------
(* The handler and its writer. *)

LEMMA ResponseTyped ==
  ASSUME TypeOK, Carried, NEW r \in Requests, Response(r) \/ Refuse(r) \/ Disconnect(r)
  PROVE  TypeOK'
<1> USE TasksTyped DEF TypeOK, ChainOnly, stages, response, package
<1>1. CASE Begin(r)
  BY <1>1 DEF Begin, Goroutines, WriterIs
<1>2. CASE Finish(r)
  BY <1>2 DEF Finish
<1>3. CASE Close(r)
  BY <1>3 DEF Close
<1>4. CASE WriterEnds(r)
  BY <1>4 DEF WriterEnds, WriterIs
<1>5. CASE Write(r)
  <2> DEFINE c == writer[r].from
             entry == [carrier |-> c, place |-> 1, schedule |-> schedule[<<r, c>>]]
             Written == [carrier : Carriers, place : {1}, schedule : {s \in ScheduleType : s.valid}]
  <2>1. c \in Carriers /\ <<r, c>> \in Tasks
    BY <1>5 DEF Write, Carried
  <2>2. schedule[<<r, c>>] \in ScheduleType /\ schedule[<<r, c>>].valid
    BY <1>5, <2>1 DEF Write, Carried, InChain
  <2>3. entry \in Written
    BY <2>1, <2>2
  <2>4. body \in [Requests -> Seq(Written)] /\ Append(body[r], entry) \in Seq(Written)
    BY <2>3, AppendProperties
  <2>5. body' = [body EXCEPT ![r] = Append(body[r], entry)]
    BY <1>5 DEF Write
  <2>6. body' \in [Requests -> Seq(Written)]
    BY <2>4, <2>5
  <2>7. writer' \in [Requests -> [at : {"none", "receive", "write", "ended"},
                                  from : Carriers \cup {Unset}]]
    BY <1>5 DEF Write, WriterIs
  <2>8. UNCHANGED <<handler, gone, consolidate, schedule, validate, transfer, fannedIn, footer,
                    scac, imo, crashed>>
    BY <1>5 DEF Write
  <2> QED BY <2>6, <2>7, <2>8
<1>6. CASE Refuse(r)
  BY <1>6 DEF Refuse
<1>7. CASE Disconnect(r)
  BY <1>7 DEF Disconnect
<1> QED BY <1>1, <1>2, <1>3, <1>4, <1>5, <1>6, <1>7 DEF Response

(* A request begins with all its goroutines. *)
LEMMA BeginKept ==
  ASSUME IInv, NEW r \in Requests, Begin(r)
  PROVE  IInv'
<1> USE TasksTyped DEF IInv
<1>1. TypeOK'
  BY ResponseTyped DEF Response
<1>2. /\ UNCHANGED <<gone, schedule, fannedIn, body>>
      /\ handler[r] = "start" /\ handler'[r] = "waiting"
      /\ \A q \in Requests \ {r} : handler'[q] = handler[q] /\ writer'[q] = writer[q]
      /\ \A t \in Tasks : IF t[1] = r
                          THEN /\ consolidate'[t] = "fetch"
                               /\ validate'[t] = "receive" /\ transfer'[t] = "receive"
                          ELSE /\ consolidate'[t] = consolidate[t]
                               /\ validate'[t] = validate[t] /\ transfer'[t] = transfer[t]
      /\ writer'[r].at = "receive"
  BY DEF Begin, Goroutines, WriterIs, TypeOK
<1>3. Fresh'
  BY <1>2 DEF Fresh
<1>4. Finished'
  BY <1>2 DEF Finished, Fresh
<1>5. Carried'
  <2>1. \A c : ~Answered(r, c)
    BY <1>2 DEF Answered, Fresh
  <2>2. \A c : ~Answered(r, c)'
    BY <1>2, <2>1 DEF Answered
  <2>3. ASSUME NEW t \in Tasks, (InChain(t) \/ Answered(t[1], t[2]))'
        PROVE  t[1] # r /\ (InChain(t) \/ Answered(t[1], t[2]))
    BY <1>2, <2>2, <2>3 DEF InChain, Answered
  <2>4. \A q \in Requests : writer'[q].at = "write" => writer'[q].from \in Carriers
    BY <1>2 DEF Carried
  <2> QED BY <1>2, <2>3, <2>4 DEF Carried
<1>6. EndsInOrder'
  BY <1>2 DEF EndsInOrder, Cancelled
<1>7. Closed'
  <2>1. fannedIn[r] = "closed" => Of(r) = {}
    BY <1>2 DEF Closed, Fresh
  <2> QED BY <1>2, <2>1 DEF Closed, Cancelled
<1>8. Settled'
  BY <1>2 DEF Settled, Cancelled, InChain, Answered
<1>9. Completed'
  BY <1>2 DEF Completed, Answered
<1> QED BY <1>1, <1>3, <1>4, <1>5, <1>6, <1>7, <1>8, <1>9

(* The handler returns when the writer has ended: every chain has. *)
LEMMA FinishKept ==
  ASSUME IInv, NEW r \in Requests, Finish(r)
  PROVE  IInv'
<1> USE TasksTyped DEF IInv
<1>1. TypeOK'
  BY ResponseTyped DEF Response
<1>2. /\ UNCHANGED <<gone, consolidate, schedule, validate, transfer, fannedIn, writer, body>>
      /\ handler[r] = "waiting" /\ handler'[r] = "returned" /\ writer[r].at = "ended"
      /\ \A q \in Requests \ {r} : handler'[q] = handler[q]
  BY DEF Finish, stages, TypeOK
<1>3. Fresh'
  BY <1>2 DEF Fresh
<1>4. Finished'
  BY <1>2 DEF Finished
<1>5. Carried'
  BY <1>2 DEF Carried, InChain, Answered
<1>6. EndsInOrder'
  BY <1>2 DEF EndsInOrder, Cancelled
<1>7. Closed'
  BY <1>2 DEF Closed, Cancelled
<1>8. Settled'
  BY <1>2 DEF Settled, Cancelled, InChain, Answered
<1>9. Completed'
  <2>1. ASSUME NEW t \in Of(r), ~gone[r]
        PROVE  consolidate[t] = "ended" /\ (schedule[t].valid => Answered(r, t[2]))
    <3>1. ~Cancelled(r)
      BY <1>2, <2>1 DEF Cancelled
    <3>2. transfer[t] = "ended"
      BY <1>2, <3>1 DEF Closed
    <3>3. validate[t] = "ended" /\ consolidate[t] = "ended"
      BY <3>1, <3>2 DEF EndsInOrder
    <3> QED BY <1>2, <3>1, <3>2, <3>3 DEF Settled, InChain
  <2>2. \A q \in Requests, c \in Carriers : Answered(q, c)' <=> Answered(q, c)
    BY <1>2 DEF Answered
  <2> QED BY <1>2, <2>1, <2>2 DEF Completed
<1> QED BY <1>1, <1>3, <1>4, <1>5, <1>6, <1>7, <1>8, <1>9

(* The merged channel is closed when every chain has ended. *)
LEMMA CloseKept ==
  ASSUME IInv, NEW r \in Requests, Close(r)
  PROVE  IInv'
<1> USE TasksTyped DEF IInv
<1>1. TypeOK'
  BY ResponseTyped DEF Response
<1>2. /\ UNCHANGED <<handler, gone, consolidate, schedule, validate, transfer, writer, body>>
      /\ \A t \in Of(r) : transfer[t] = "ended"
      /\ fannedIn'[r] = "closed"
      /\ \A q \in Requests \ {r} : fannedIn'[q] = fannedIn[q]
  BY DEF Close, ChainOnly, TypeOK
<1>3. Fresh'
  BY <1>2 DEF Fresh
<1>4. Finished'
  BY <1>2 DEF Finished
<1>5. Carried'
  BY <1>2 DEF Carried, InChain, Answered
<1>6. EndsInOrder'
  BY <1>2 DEF EndsInOrder, Cancelled
<1>7. Closed'
  BY <1>2 DEF Closed, Cancelled
<1>8. Settled'
  BY <1>2 DEF Settled, Cancelled, InChain, Answered
<1>9. Completed'
  BY <1>2 DEF Completed, Answered
<1> QED BY <1>1, <1>3, <1>4, <1>5, <1>6, <1>7, <1>8, <1>9

(* The writer ends with its channel, or with what it holds unwritten. *)
LEMMA WriterEndsKept ==
  ASSUME IInv, NEW r \in Requests, WriterEnds(r)
  PROVE  IInv'
<1> USE TasksTyped DEF IInv
<1>1. TypeOK'
  BY ResponseTyped DEF Response
<1>2. /\ UNCHANGED <<handler, gone, consolidate, schedule, validate, transfer, fannedIn, body>>
      /\ \/ writer[r].at = "receive" /\ fannedIn[r] = "closed"
         \/ writer[r].at = "write" /\ Cancelled(r)
      /\ writer'[r].at = "ended"
      /\ \A q \in Requests \ {r} : writer'[q] = writer[q]
  BY DEF WriterEnds, ChainOnly, WriterIs, TypeOK
<1>3. Fresh'
  BY <1>2 DEF Fresh
<1>4. Finished'
  BY <1>2 DEF Finished
<1>5. Carried'
  BY <1>2 DEF Carried, InChain, Answered
<1>6. EndsInOrder'
  BY <1>2 DEF EndsInOrder, Cancelled
<1>7. Closed'
  BY <1>2 DEF Closed, Cancelled
<1>8. Settled'
  BY <1>2 DEF Settled, Cancelled, InChain, Answered
<1>9. Completed'
  BY <1>2 DEF Completed, Answered
<1> QED BY <1>1, <1>3, <1>4, <1>5, <1>6, <1>7, <1>8, <1>9

(* The schedule that the writer holds is in the response. *)
LEMMA WriteKept ==
  ASSUME IInv, NEW r \in Requests, Write(r)
  PROVE  IInv'
<1> USE TasksTyped DEF IInv
<1>1. TypeOK'
  BY ResponseTyped DEF Response
<1>2. /\ UNCHANGED <<handler, gone, consolidate, schedule, validate, transfer, fannedIn>>
      /\ writer[r].at = "write" /\ ~Cancelled(r) /\ writer'[r].at = "receive"
      /\ \A q \in Requests \ {r} : writer'[q] = writer[q] /\ body'[q] = body[q]
      /\ \A c \in Carriers : Answered(r, c)' <=> Answered(r, c) \/ c = writer[r].from
      /\ \A q \in Requests \ {r}, c \in Carriers : Answered(q, c)' <=> Answered(q, c)
  <2> DEFINE entry == [carrier |-> writer[r].from, place |-> 1,
                       schedule |-> schedule[<<r, writer[r].from>>]]
  <2>1. /\ UNCHANGED <<handler, gone, consolidate, schedule, validate, transfer, fannedIn>>
        /\ writer[r].at = "write" /\ ~Cancelled(r) /\ writer'[r].at = "receive"
        /\ \A q \in Requests \ {r} : writer'[q] = writer[q] /\ body'[q] = body[q]
        /\ body'[r] = Append(body[r], entry)
    BY DEF Write, WriterIs, TypeOK, stages
  <2>2. /\ DOMAIN body[r] = 1..Len(body[r]) /\ DOMAIN body'[r] = 1..(Len(body[r]) + 1)
        /\ Len(body[r]) \in Nat /\ \A i \in DOMAIN body[r] : body'[r][i] = body[r][i]
        /\ body'[r][Len(body[r]) + 1].carrier = writer[r].from
    <3>1. body[r] \in Seq([carrier : Carriers, place : {1},
                            schedule : {s \in ScheduleType : s.valid}])
      BY DEF TypeOK
    <3> HIDE DEF entry
    <3>2. /\ DOMAIN body[r] = 1..Len(body[r]) /\ DOMAIN body'[r] = 1..(Len(body[r]) + 1)
          /\ Len(body[r]) \in Nat /\ \A i \in DOMAIN body[r] : body'[r][i] = body[r][i]
          /\ body'[r][Len(body[r]) + 1] = entry
      BY <2>1, <3>1
    <3>3. entry.carrier = writer[r].from
      BY DEF entry
    <3> QED BY <3>2, <3>3
  <2>3. \A c \in Carriers : Answered(r, c)' <=> Answered(r, c) \/ c = writer[r].from
    BY <2>2 DEF Answered
  <2>4. \A q \in Requests \ {r}, c \in Carriers : Answered(q, c)' <=> Answered(q, c)
    BY <2>1 DEF Answered
  <2> QED BY <2>1, <2>3, <2>4
<1>3. Fresh'
  <2>1. handler[r] \notin {"start", "refused"}
    BY <1>2 DEF Fresh
  <2> QED BY <1>2, <2>1 DEF Fresh
<1>4. Finished'
  BY <1>2 DEF Finished
<1>5. Carried'
  <2>1. /\ <<r, writer[r].from>> \in Tasks
        /\ consolidate[<<r, writer[r].from>>] = "ended" /\ schedule[<<r, writer[r].from>>].valid
    BY <1>2 DEF Carried, InChain
  <2>2. ASSUME NEW t \in Tasks, InChain(t)'
        PROVE  InChain(t)
    BY <1>2, <2>2 DEF InChain
  <2>3. ASSUME NEW t \in Tasks, Answered(t[1], t[2])'
        PROVE  Answered(t[1], t[2]) \/ t = <<r, writer[r].from>>
    BY <1>2, <2>3
  <2>4. \A q \in Requests : writer'[q].at = "write" => writer'[q].from \in Carriers
    BY <1>2 DEF Carried
  <2> QED BY <1>2, <2>1, <2>2, <2>3, <2>4 DEF Carried
<1>6. EndsInOrder'
  BY <1>2 DEF EndsInOrder, Cancelled
<1>7. Closed'
  BY <1>2 DEF Closed, Cancelled
<1>8. Settled'
  BY <1>2 DEF Settled, Cancelled, InChain
<1>9. Completed'
  BY <1>2 DEF Completed, Cancelled
<1> QED BY <1>1, <1>3, <1>4, <1>5, <1>6, <1>7, <1>8, <1>9

(* A request is refused, or its client leaves. *)
LEMMA LeaveKept ==
  ASSUME IInv, NEW r \in Requests, Refuse(r) \/ Disconnect(r)
  PROVE  IInv'
<1> USE TasksTyped DEF IInv
<1>1. TypeOK'
  BY ResponseTyped DEF Response
<1>2. /\ UNCHANGED <<consolidate, schedule, validate, transfer, fannedIn, writer, body>>
      /\ \A q \in Requests : handler'[q] = handler[q] \/ (handler[q] = "start" /\ handler'[q] = "refused")
      /\ \A q \in Requests : gone[q] => gone'[q]
      /\ \A q \in Requests : handler[q] = "returned" => gone'[q] = gone[q]
  BY DEF Refuse, Disconnect, stages, response, TypeOK
<1>3. Fresh'
  BY <1>2 DEF Fresh
<1>4. Finished'
  BY <1>2 DEF Finished
<1>5. Carried'
  BY <1>2 DEF Carried, InChain, Answered
<1>6. EndsInOrder'
  BY <1>2 DEF EndsInOrder, Cancelled
<1>7. Closed'
  BY <1>2 DEF Closed, Cancelled
<1>8. Settled'
  BY <1>2 DEF Settled, Cancelled, InChain, Answered
<1>9. Completed'
  BY <1>2 DEF Completed, Answered
<1> QED BY <1>1, <1>3, <1>4, <1>5, <1>6, <1>7, <1>8, <1>9

-----------------------------------------------------------------------------
(* The invariant and the theorems. *)

LEMMA InitIInv == Init => IInv
<1> SUFFICES ASSUME Init PROVE IInv
  OBVIOUS
<1> USE TasksTyped, VesselAssumption DEF Init, Nothing, Schedule, WriterIs
<1>1. TypeOK
  BY EmptySeq DEF TypeOK, ScheduleType
<1>2. Fresh /\ Finished /\ EndsInOrder /\ Closed /\ Settled /\ Completed
  BY DEF Fresh, Finished, EndsInOrder, Closed, Settled, Completed
<1>3. Carried
  BY DEF Carried, InChain, Answered
<1> QED BY <1>1, <1>2, <1>3 DEF IInv

(* The inductive invariant of the voyage handler, for any number of requests *)
(* and carriers.                                                             *)
THEOREM Invariance == Spec => []IInv
<1>1. IInv /\ [Next]_vars => IInv'
  <2> SUFFICES ASSUME IInv, [Next]_vars PROVE IInv'
    OBVIOUS
  <2>1. ASSUME NEW t \in Tasks, Consolidate(t)
        PROVE  IInv'
    BY <2>1, ConsolidateKept, ConsolidateTyped DEF IInv
  <2>2. ASSUME NEW t \in Tasks, Chain(t)
        PROVE  IInv'
    BY <2>2, ToValidateKept, ToTransferKept, ToWriterKept, EndsKept DEF Chain
  <2>3. ASSUME NEW r \in Requests, Response(r) \/ Refuse(r) \/ Disconnect(r)
        PROVE  IInv'
    BY <2>3, BeginKept, FinishKept, CloseKept, WriterEndsKept, WriteKept, LeaveKept DEF Response
  <2>4. CASE UNCHANGED vars
    BY <2>4 DEF vars, stages, response, package, IInv, TypeOK, Fresh, Finished, Carried, EndsInOrder,
       Closed, Settled, Completed, InChain, Answered, Cancelled
  <2> QED BY <2>1, <2>2, <2>3, <2>4 DEF Next
<1> QED BY InitIInv, <1>1, PTL DEF Spec

(* Every variable keeps its type, and only valid schedules are written.      *)
THEOREM TypeCorrect == Spec => []TypeOK
BY Invariance, PTL DEF IInv

(* A response completed for a client that is still there holds the schedule  *)
(* of every carrier that came up with a valid one, and no other.             *)
THEOREM Complete == Spec => []EveryCarrierAnswered
<1>1. IInv => EveryCarrierAnswered
  BY TasksTyped DEF IInv, Carried, Completed, EveryCarrierAnswered
<1> QED BY Invariance, <1>1, PTL

-----------------------------------------------------------------------------
(* The refinement, for the response of each request.                         *)

(* A schedule is at one place of its chain, or written. *)
OnePlace ==
  \A t \in Tasks :
    LET held == writer[t[1]].at = "write" /\ writer[t[1]].from = t[2]
    IN  /\ validate[t] = "send" => transfer[t] # "send" /\ ~held
        /\ transfer[t] = "send" => ~held
        /\ InChain(t) => ~Answered(t[1], t[2])

FooterLast == \A r \in Requests : footer[r] = "none" <=> handler[r] # "returned"

RInv == IInv /\ OnePlace /\ FooterLast

LEMMA OnePlaceConsolidate ==
  ASSUME IInv, OnePlace, NEW t \in Tasks, Consolidate(t)
  PROVE  OnePlace'
<1>1. UNCHANGED <<validate, transfer, writer, body>>
  BY ConsolidateStep DEF IInv
<1> QED BY <1>1 DEF OnePlace, InChain, Answered

LEMMA OnePlaceChain ==
  ASSUME IInv, OnePlace, NEW t \in Tasks, Chain(t)
  PROVE  OnePlace'
<1> USE TasksTyped DEF OnePlace, InChain
<1>1. UNCHANGED body /\ \A u \in Tasks : Answered(u[1], u[2])' <=> Answered(u[1], u[2])
  BY DEF Chain, ToValidate, ToTransfer, ToWriter, Ends, ChainOnly, Answered
<1>2. CASE ToValidate(t)
  <2>1. ~InChain(t) /\ ~Answered(t[1], t[2])
    BY <1>2 DEF ToValidate, IInv, Carried
  <2> QED BY <1>1, <1>2, <2>1 DEF ToValidate, IInv, TypeOK
<1>3. CASE ToTransfer(t)
  BY <1>1, <1>3 DEF ToTransfer, IInv, TypeOK
<1>4. CASE ToWriter(t)
  BY <1>1, <1>4 DEF ToWriter, WriterHolds, IInv, TypeOK
<1>5. CASE Ends(t)
  <2>1. /\ UNCHANGED writer
        /\ \A u \in Tasks : /\ validate'[u] = "send" => validate[u] = "send"
                            /\ transfer'[u] = "send" => transfer[u] = "send"
    BY <1>5 DEF Ends, IInv, TypeOK
  <2> QED BY <1>1, <2>1
<1> QED BY <1>2, <1>3, <1>4, <1>5 DEF Chain

(* What is written last. *)
LEMMA WriteAppends ==
  ASSUME TypeOK, NEW r \in Requests, Write(r)
  PROVE  /\ DOMAIN body[r] = 1..Len(body[r]) /\ DOMAIN body'[r] = 1..(Len(body[r]) + 1)
         /\ Len(body[r]) \in Nat /\ \A i \in DOMAIN body[r] : body'[r][i] = body[r][i]
         /\ body'[r][Len(body[r]) + 1].carrier = writer[r].from
         /\ \A q \in Requests \ {r} : writer'[q] = writer[q] /\ body'[q] = body[q]
         /\ writer[r].at = "write" /\ writer'[r].at = "receive"
         /\ UNCHANGED <<handler, gone, consolidate, schedule, validate, transfer, footer>>
<1> DEFINE entry == [carrier |-> writer[r].from, place |-> 1,
                     schedule |-> schedule[<<r, writer[r].from>>]]
<1>1. /\ body'[r] = Append(body[r], entry)
      /\ \A q \in Requests \ {r} : writer'[q] = writer[q] /\ body'[q] = body[q]
      /\ writer[r].at = "write" /\ writer'[r].at = "receive"
      /\ UNCHANGED <<handler, gone, consolidate, schedule, validate, transfer, footer>>
  BY DEF Write, WriterIs, TypeOK, stages
<1>2. body[r] \in Seq([carrier : Carriers, place : {1}, schedule : {s \in ScheduleType : s.valid}])
  BY DEF TypeOK
<1>3. entry.carrier = writer[r].from
  OBVIOUS
<1> HIDE DEF entry
<1>4. /\ DOMAIN body[r] = 1..Len(body[r]) /\ DOMAIN body'[r] = 1..(Len(body[r]) + 1)
      /\ Len(body[r]) \in Nat /\ \A i \in DOMAIN body[r] : body'[r][i] = body[r][i]
      /\ body'[r][Len(body[r]) + 1] = entry
  BY <1>1, <1>2
<1> QED BY <1>1, <1>3, <1>4

LEMMA OnePlaceWrite ==
  ASSUME IInv, OnePlace, NEW r \in Requests, Write(r)
  PROVE  OnePlace'
<1> USE TasksTyped DEF IInv, OnePlace, InChain
<1>1. \A c \in Carriers : Answered(r, c)' => Answered(r, c) \/ c = writer[r].from
  BY WriteAppends DEF Answered
<1>2. \A q \in Requests \ {r}, c \in Carriers : Answered(q, c)' => Answered(q, c)
  BY WriteAppends DEF Answered
<1> QED BY <1>1, <1>2, WriteAppends

LEMMA OnePlaceResponse ==
  ASSUME IInv, OnePlace, NEW r \in Requests,
         Begin(r) \/ Finish(r) \/ Close(r) \/ WriterEnds(r) \/ Refuse(r) \/ Disconnect(r)
  PROVE  OnePlace'
<1>1. UNCHANGED body /\ \A u \in Tasks : Answered(u[1], u[2])' <=> Answered(u[1], u[2])
  BY DEF Begin, Finish, Close, WriterEnds, Refuse, Disconnect, ChainOnly, response, Answered
<1>2. /\ \A u \in Tasks : /\ validate'[u] = "send" => validate[u] = "send"
                          /\ transfer'[u] = "send" => transfer[u] = "send"
      /\ \A q \in Requests : writer'[q].at = "write" => writer'[q] = writer[q]
  BY DEF IInv, TypeOK, Begin, Goroutines, WriterIs, Finish, Close, WriterEnds, Refuse, Disconnect,
     ChainOnly, response, stages
<1> QED BY <1>1, <1>2, TasksTyped DEF OnePlace, InChain

LEMMA FooterKept ==
  ASSUME IInv, FooterLast, Next
  PROVE  FooterLast'
<1>1. CASE UNCHANGED <<footer, handler>>
  BY <1>1 DEF FooterLast
<1>2. ASSUME NEW t \in Tasks, Consolidate(t) \/ Chain(t)
      PROVE  FooterLast'
  BY <1>1, <1>2, ConsolidateStep DEF IInv, Chain, ToValidate, ToTransfer, ToWriter, Ends, ChainOnly
<1>3. ASSUME NEW r \in Requests, Response(r) \/ Refuse(r) \/ Disconnect(r)
      PROVE  FooterLast'
  BY <1>3 DEF IInv, TypeOK, FooterLast, Response, Begin, Finish, Close, WriterEnds, Write, Refuse,
     Disconnect, ChainOnly, response
<1> QED BY <1>2, <1>3 DEF Next

LEMMA RefinementInvariance == Spec => []RInv
<1>1. Init => OnePlace /\ FooterLast
  BY TasksTyped DEF Init, OnePlace, FooterLast, InChain, WriterIs
<1>2. RInv /\ IInv' /\ [Next]_vars => RInv'
  <2>1. CASE Next
    BY <2>1, OnePlaceConsolidate, OnePlaceChain, OnePlaceWrite, OnePlaceResponse, FooterKept
       DEF RInv, Next, Response
  <2>2. CASE UNCHANGED vars
    BY <2>2 DEF vars, stages, response, RInv, OnePlace, FooterLast, InChain, Answered
  <2> QED BY <2>1, <2>2
<1> QED BY <1>1, <1>2, Invariance, PTL DEF Spec, RInv

(* A batch has one place, 1, if the schedule is valid, and none otherwise. *)
Batch(s) == [k \in {k \in {1} : s.valid} |-> s]
Offers(r) == [c \in Carriers |-> Batch(schedule[<<r, c>>])]

LEMMA BatchPlaces ==
  ASSUME NEW s
  PROVE  DOMAIN Batch(s) = {k \in {1} : s.valid} /\ \A k \in DOMAIN Batch(s) : k = 1 /\ Batch(s)[k] = s
BY DEF Batch

(* What is written is at place 1 of its batch. *)
LEMMA PlacesWritten ==
  ASSUME TypeOK, NEW r \in Requests, NEW i \in DOMAIN body[r]
  PROVE  body[r][i].place = 1 /\ body[r][i].carrier \in Carriers
<1> DEFINE Entry == [carrier : Carriers, place : {1}, schedule : {s \in ScheduleType : s.valid}]
<1>1. body[r] \in Seq(Entry)
  BY DEF TypeOK
<1>2. body[r][i] \in Entry
  <2> HIDE DEF Entry
  <2> QED BY <1>1
<1> QED BY <1>2

LEMMA Completion ==
  ASSUME TypeOK, NEW r \in Requests, NEW c \in Carriers, schedule[<<r, c>>].valid => Answered(r, c)
  PROVE  Contract(r)!Complete(c)
<1>1. \A k \in DOMAIN Offers(r)[c] : k = 1 /\ schedule[<<r, c>>].valid
  BY BatchPlaces DEF Offers
<1>2. Answered(r, c) => \E i \in Contract(r)!Written(c) : body[r][i].place = 1
  BY PlacesWritten DEF Answered, Contract!Written
<1> QED BY <1>1, <1>2 DEF Contract!Complete, Offers, Batch

LEMMA InitRefines == ASSUME Init, NEW r \in Requests PROVE Contract(r)!Init
<1>1. \A c \in Carriers : ~schedule[<<r, c>>].valid
  BY TasksTyped DEF Init, Nothing, Schedule
<1>2. \A c \in Carriers : Batch(schedule[<<r, c>>]) = [k \in {} |-> k]
  BY <1>1 DEF Batch
<1>3. Offers(r) = [c \in Carriers |-> [k \in {} |-> k]]
  BY <1>2 DEF Offers
<1> QED BY <1>3 DEF Init, Contract!Init, Offers, Batch

(* A fetch that comes up with a schedule offers it. *)
LEMMA FetchOffers ==
  ASSUME RInv, RInv', NEW t \in Tasks, Consolidate(t), NEW r \in Requests
  PROVE  Contract(r)!Next \/ UNCHANGED Contract(r)!contract
<1>1. UNCHANGED <<body, footer, gone, handler>> /\ consolidate[t] # "ended"
  BY ConsolidateStep DEF RInv, IInv
<1>2. \A u \in Tasks \ {t} : schedule'[u] = schedule[u]
  BY ConsolidateStep DEF RInv, IInv
<1>3. CASE r # t[1]
  <2>1. \A c \in Carriers : schedule'[<<r, c>>] = schedule[<<r, c>>]
    BY <1>2, <1>3, TasksTyped
  <2>2. Offers(r)' = Offers(r)
    BY <2>1 DEF Offers
  <2> QED BY <1>1, <2>2 DEF Contract!contract, Offers, Batch
<1>4. CASE r = t[1]
  <2> DEFINE c == t[2]
  <2>1. c \in Carriers /\ t = <<r, c>>
    BY <1>4, TasksTyped
  <2>2. \A d \in Carriers \ {c} : schedule'[<<r, d>>] = schedule[<<r, d>>]
    BY <1>2, <2>1, TasksTyped
  <2>3. ~Answered(r, c)
    BY <1>1, <2>1 DEF RInv, IInv, Carried
  <2>4. Contract(r)!Written(c) = {}
    BY <2>3 DEF Answered, Contract!Written
  <2>5. footer[r] = "none" \/ gone[r]
    BY <1>1, <1>4 DEF RInv, IInv, Completed, FooterLast
  <2>6. schedule'[t] \in ScheduleType
    BY DEF RInv, IInv, TypeOK
  <2>7. \A k \in DOMAIN Offers(r)'[c] : Offers(r)'[c][k] \in ScheduleType
    BY <2>1, <2>6, BatchPlaces DEF Offers
  <2>8. Offers(r)' = [Offers(r) EXCEPT ![c] = Offers(r)'[c]]
    BY <2>1, <2>2 DEF Offers
  <2>9. Contract(r)!Offer(c)
    BY <1>1, <2>4, <2>5, <2>7, <2>8 DEF Contract!Offer, Offers, Batch
  <2> QED BY <2>1, <2>9 DEF Contract!Next
<1> QED BY <1>3, <1>4

(* A step of the writer streams the schedule it holds. *)
LEMMA WriterStreams ==
  ASSUME RInv, NEW r \in Requests, Write(r)
  PROVE  Contract(r)!Next
<1> DEFINE c == writer[r].from
<1>1. /\ c \in Carriers /\ <<r, c>> \in Tasks /\ schedule[<<r, c>>].valid /\ ~Answered(r, c)
      /\ UNCHANGED <<schedule, footer, gone>>
  BY TasksTyped, WriteAppends DEF RInv, IInv, Carried, OnePlace, InChain
<1>2. footer[r] = "none"
  BY DEF Write, Cancelled, RInv, FooterLast
<1>3. Offers(r)[c] = Batch(schedule[<<r, c>>]) /\ DOMAIN Offers(r)[c] = {1}
      /\ Offers(r)[c][1] = schedule[<<r, c>>]
  BY <1>1 DEF Offers, Batch
<1>4. Contract(r)!Written(c) = {}
  BY <1>1 DEF Answered, Contract!Written
<1>5. \A j \in DOMAIN Offers(r)[c] : j < 1 <=> \E i \in Contract(r)!Written(c) : body[r][i].place = j
  BY <1>3, <1>4
<1>6. body[r] # << >> => Contract(r)!Complete(body[r][Len(body[r])].carrier)
  <2> SUFFICES ASSUME body[r] # << >>
               PROVE  Contract(r)!Complete(body[r][Len(body[r])].carrier)
    OBVIOUS
  <2> DEFINE d == body[r][Len(body[r])].carrier
  <2>1. body[r] \in Seq([carrier : Carriers, place : {1}, schedule : {s \in ScheduleType : s.valid}])
    BY DEF RInv, IInv, TypeOK
  <2>2. Len(body[r]) \in DOMAIN body[r]
    BY <2>1, EmptySeq
  <2>3. d \in Carriers /\ Answered(r, d)
    BY <2>2, PlacesWritten DEF Answered, RInv, IInv
  <2> QED BY <2>3, Completion DEF RInv, IInv
<1>7. body'[r] = Append(body[r], [carrier |-> c, place |-> 1, schedule |-> Offers(r)[c][1]])
  BY <1>3 DEF Write, RInv, IInv, TypeOK
<1>8. Offers(r)' = Offers(r)
  BY <1>1 DEF Offers
<1>9. Contract(r)!Stream(c, 1)
  BY <1>1, <1>2, <1>5, <1>6, <1>7, <1>8 DEF Contract!Stream, Offers, Batch
<1> QED BY <1>1, <1>3, <1>9 DEF Contract!Next, Offers, Batch

(* The footer is written when every valid schedule is. *)
LEMMA FooterFinishes ==
  ASSUME RInv, RInv', NEW r \in Requests, Finish(r)
  PROVE  Contract(r)!Next
<1>1. /\ UNCHANGED <<schedule, body, gone>> /\ handler[r] = "waiting" /\ handler'[r] = "returned"
      /\ footer'[r] = IF body[r] = << >> THEN "message" ELSE "plain"
  BY DEF Finish, stages, RInv, IInv, TypeOK
<1>2. footer[r] = "none"
  BY <1>1 DEF RInv, FooterLast
<1>3. ASSUME NEW c \in Carriers, ~gone[r]
      PROVE  Contract(r)!Complete(c)
  <2>1. schedule[<<r, c>>].valid => Answered(r, c)
    BY <1>1, <1>3, TasksTyped DEF RInv, IInv, Completed, Answered
  <2> QED BY <2>1, Completion DEF RInv, IInv
<1>4. Offers(r)' = Offers(r)
  BY <1>1 DEF Offers
<1>5. Contract(r)!Finish
  BY <1>1, <1>2, <1>3, <1>4 DEF Contract!Finish, Offers, Batch
<1> QED BY <1>5 DEF Contract!Next

(* What changes nothing that the reader of r sees. *)
LEMMA Stutters ==
  ASSUME NEW r \in Requests, UNCHANGED <<schedule, body[r], footer[r], gone[r]>>
  PROVE  UNCHANGED Contract(r)!contract
<1>1. Offers(r)' = Offers(r)
  BY DEF Offers
<1> QED BY <1>1 DEF Contract!contract, Offers, Batch

LEMMA StepRefines ==
  ASSUME RInv, RInv', Next, NEW r \in Requests
  PROVE  Contract(r)!Next \/ UNCHANGED Contract(r)!contract
<1> USE DEF RInv, IInv, TypeOK
<1>1. ASSUME NEW t \in Tasks, Chain(t)
      PROVE  UNCHANGED Contract(r)!contract
  BY <1>1, Stutters DEF Chain, ToValidate, ToTransfer, ToWriter, Ends, ChainOnly
<1>2. ASSUME NEW q \in Requests, Begin(q) \/ Close(q) \/ WriterEnds(q) \/ Refuse(q)
      PROVE  UNCHANGED Contract(r)!contract
  BY <1>2, Stutters DEF Begin, Close, WriterEnds, Refuse, ChainOnly, stages, response
<1>3. ASSUME NEW q \in Requests, q # r, Write(q) \/ Finish(q) \/ Disconnect(q)
      PROVE  UNCHANGED Contract(r)!contract
  BY <1>3, Stutters DEF Write, Finish, Disconnect, stages, response
<1>4. CASE Disconnect(r)
  <2>1. ~gone[r] /\ gone'[r] = TRUE /\ UNCHANGED <<schedule, body, footer>>
    BY <1>4 DEF Disconnect, stages, response
  <2>2. Offers(r)' = Offers(r)
    BY <2>1 DEF Offers
  <2> QED BY <2>1, <2>2 DEF Contract!Next, Contract!GoAway, Offers, Batch
<1> QED
  BY <1>1, <1>2, <1>3, <1>4, FetchOffers, WriterStreams, FooterFinishes DEF Next, Response

(* The response of every request implements the contract, whatever the other *)
(* requests do.                                                              *)
THEOREM Refinement == Spec => ImplementsContract
<1>1. Init => \A r \in Requests : Contract(r)!Init
  BY InitRefines
<1>2. RInv /\ RInv' /\ [Next]_vars =>
        [\A r \in Requests : Contract(r)!Next \/ UNCHANGED Contract(r)!contract]_vars
  BY StepRefines
<1> QED BY <1>1, <1>2, RefinementInvariance, PTL DEF Spec, ImplementsContract
=============================================================================
