SPECIFICATION Spec
CONSTANTS
  Null = Null
  purpose = purpose
  label = label
  old = old
  new = new
  api = api
  web = web
  job = job
  Member <- MCMember
  Value <- MCValue
  Change = {c1, c2}
  Request <- MCRequest
  FirstSpec <- MCFirstSpec
  Correction <- MCCorrection
  MaxRevisions = 4
  MaxEdits = 1
INVARIANTS AppliedChangesSurvive
CHECK_DEADLOCK FALSE
