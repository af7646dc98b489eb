SPECIFICATION Spec
CONSTANTS
  c1 = c1  c2 = c2
  good = good  invalid = invalid  offroute = offroute  bare = bare
  Carriers = {c1, c2}
  Schedules <- MCSchedules
  Valid <- MCValid
  Matching <- MCMatching
  Legless <- MCLegless
  Answers <- MCAnswers
INVARIANT StreamedAreValid
CHECK_DEADLOCK FALSE
