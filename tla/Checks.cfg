CONSTANTS
  None = None
  Inputs <- MCInputs
SPECIFICATION Spec
INVARIANTS
  GreenIsRight
  RedHasACause
  EndianSlipIsSeen
  RewriteIsStable
  ConvertedReadsTheSame
  MaskAgreesWithC
  IdsNameOneMatch
  SampleIsEven
  FailFirstIsThePlainRun
  UniqueOnlyFalls
CHECK_DEADLOCK FALSE
