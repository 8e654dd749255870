CONSTANTS
  uim = uim
  async = async
  worker1 = worker1
  worker2 = worker2
  Loop = loop
  NoThread = none
  UIMThread = uim
  Serialized <- MCSerialized
  Workers <- MCWorkers
SPECIFICATION FairAccessSpec
INVARIANTS
  AccessTypeOK
  ExclusiveAccess
  ParkedForSomebody
  HoldEventIsFresh
  WaiterHasHolder
PROPERTIES
  WaitersGetIn
  LoopResumes
  ImplementsLibPurpleOwner
