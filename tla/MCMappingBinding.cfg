SPECIFICATION BindingSpec
CONSTANTS
  Memories = {"m1", "m2"}
  Files = {"f1"}
  Usual <- UsualCalls
  Others <- OtherRows
  MaxOthers = 2
  Pages = {0, 1, 2, 3}
  Vas = {0, 1}
INVARIANTS
  BindingTypeOK
  ResolvedIsLive
