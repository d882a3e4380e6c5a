SPECIFICATION FairSpec
CONSTANTS
  NumStages = 6
  Llm <- MCLlm
  Prefilter = 3
  Incremental <- MCIncremental
  Repeatable <- MCRepeatable
  Guarded <- MCGuarded
  Size <- MCSize
  Invocations <- AutoInvocations
  MaxVersion = 3
  MaxFaults = 3
  Absent = Absent
  Torn = Torn
INVARIANTS TypeOK CertifiedWhole
PROPERTIES ResumesOverWhole PipelineCompletes
CHECK_DEADLOCK FALSE
