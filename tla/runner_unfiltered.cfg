SPECIFICATION Spec
CONSTANTS
  NumStages = 6
  Llm <- MCLlm
  Prefilter = 3
  Incremental <- MCIncremental
  Repeatable <- MCRepeatable
  Guarded <- MCGuarded
  Size <- MCSize
  Invocations <- AutoInvocations
  MaxVersion = 1
  MaxFaults = 3
  Absent = Absent
  Torn = Torn
INVARIANT DownstreamReadsFiltered
CHECK_DEADLOCK FALSE
