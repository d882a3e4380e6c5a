SPECIFICATION Spec
CONSTANTS
  NumStages = 6
  Llm <- MCLlm
  Prefilter = 3
  Incremental <- MCIncremental
  Repeatable <- MCRepeatable
  Guarded <- MCGuarded
  Size <- MCSize
  Invocations <- ForcedInvocations
  MaxVersion = 2
  MaxFaults = 2
  Absent = Absent
  Torn = Torn
PROPERTY ForcedRunPropagates
