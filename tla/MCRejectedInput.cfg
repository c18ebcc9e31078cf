CONSTANTS
  Null = Null
  Api = Api
  Worker = Worker
  Template <- MCTemplate
  Definition = "asteria"
  Catalog = {"v1"}
  Acceptor <- MCAcceptor
  MaxRevision = 2
  MaxRecords = 2
  MaxMoves = 5
SYMMETRY ComponentSymmetry
SPECIFICATION Spec
INVARIANT CompiledIsDecided
CHECK_DEADLOCK FALSE
