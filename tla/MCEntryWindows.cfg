SPECIFICATION Spec
CONSTANTS
  Count = 2
  Sizes = {2, 4}
  GraphSizes = {2}
  MaxEntries <- EntriesOfALaunch
INVARIANTS
  TypeOK
  FramesAreInstants
  AttributionIsTrue
  VerifiedIsFresh
