CONSTANTS
  uim = uim
  async = async
  notifier = notifier
  requester = requester
  Loop = loop
  NoThread = none
  UIMThread = uim
  AsyncThread = async
  Serialized <- MCSerialized
  Workers <- MCWorkers
  Requesters <- MCRequesters
  Operations = {disconnect}
  MaxQueued = 2
SPECIFICATION FairServiceSpec
CHECK_DEADLOCK FALSE
INVARIANTS
  ServiceTypeOK
  JoinedBeforeDeleted
  ExecOutlivesFinish
PROPERTIES
  JoinLoopUndisturbed
  ImplementsLibPurpleAccess
  FinalizeEnds
