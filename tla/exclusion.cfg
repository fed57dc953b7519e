SPECIFICATION Spec
CONSTANTS
  Jobs = {1, 2}
  Live = {2}
  Messages = {1, 2}
  Says <- TwoSources
  Callers = {c1, c2}
  Keys = {"hide", "back", "drop"}
  Requests <- Decisions
  NoRow = NoRow
  Disturbances = {"error", "crash", "silence"}
SYMMETRY Symmetry
INVARIANTS
  TypeOK
  ShownIffSupported
  OneWriter
  CompletedIsDecided
PROPERTIES
  DecisionsRebuild
  RetriesDecideNothing
