SPECIFICATION Spec
CONSTANTS
  Drivers = {d1}
  Prober = prober
  Nobody = nobody
  Pages = {p1, p2}
  MaxRounds = 2
  MaxSeq = 13
  MaxCalls = 2
  Modes = {"gpfifo-entry", "graph-entry"}
  Cases = 2
INVARIANTS
  TypeOK
  LoadsAreAudited
  ReportIsComplete
PROPERTIES
  Concludes
