CONSTANTS
  Null = Null
  Api = Api
  Worker = Worker
  Template <- MCTemplate
  Definition = "asteria"
  Catalog = {"v1"}
  Acceptor <- MCAcceptor
  MaxRevision = 2
  MaxRecords = 2
  MaxMoves = 4
SYMMETRY ComponentSymmetry
SPECIFICATION Spec
INVARIANTS
  PTypeOK
  UndecidedWasSuperseded
  ExportVerifies
  EvidenceIsAboutThis
PROPERTIES
  LifecycleIsNotContent
CHECK_DEADLOCK FALSE
