CONSTANTS
  Accounts = {account}
  WithoutInvisible = {account}
  UserStatuses = {"busy", "invisible"}
  MaxUserActs = 2
  MaxPending = 3
SPECIFICATION FairAccountSpec
CHECK_DEADLOCK FALSE
PROPERTIES
  DisconnectTakesEffect
  ConnectingEnds
