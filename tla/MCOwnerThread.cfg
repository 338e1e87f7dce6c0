SPECIFICATION Spec
CONSTANTS
  Tasks = {t1, t2, t3}
  NoTask = NoTask
INVARIANTS
  TypeOK
  NothingIsLost
PROPERTIES
  Progress
  ChannelSpec
