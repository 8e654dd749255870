CONSTANTS
  Accounts = {account}
  WithoutInvisible = {account}
  UserStatuses = {"busy", "invisible"}
  MaxUserActs = 3
  MaxPending = 3
SPECIFICATION AccountSpec
CHECK_DEADLOCK FALSE
PROPERTIES
  ReturnRestores
