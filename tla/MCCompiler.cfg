CONSTANTS
  Null = Null
  RuleId <- MCRuleId
  Inputs <- MCInputs
  Instant = {1, 2, 3}
SPECIFICATION Spec
INVARIANTS
  CTypeOK
  EffectiveIsReference
  TraceExplains
  ResolutionIsDetermined
  NothingDropped
  ConsumersShareTheContract
  DomainIntentIsKept
  RequirementsAreTraced
  AppliedIsCompliant
  PlannedIsLoaded
  TokensResolve
  CyclesAreReported
  ImportsResolve
CHECK_DEADLOCK FALSE
