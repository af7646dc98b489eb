------------------------- MODULE MCSchedulePipeline -------------------------
(* Instances of SchedulePipeline for TLC. *)
EXTENDS SchedulePipelineProofs

CONSTANTS c1, c2, good, invalid, offroute, bare

MCSchedules == {good, invalid, offroute, bare}
MCValid == {good, offroute, bare}      \* an empty, non-nil Legs is accepted
MCMatching == {good, invalid}
MCLegless == {bare}

\* Batches in which the filter, the validator's verdict on the first schedule
\* and the panic on a schedule without legs all matter.
MCAnswers == [c \in Carriers |->
  {<<good, good>>, <<good, invalid>>, <<invalid, good>>, <<offroute, good>>, <<bare>>}]
=============================================================================
