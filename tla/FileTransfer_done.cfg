CONSTANTS
  s1 = s1
  r1 = r1
  ca = ca
  cb = cb
  Sends = {s1}
  Receives = {r1}
  Contacts = {ca, cb}
  Who <- WhoIs
  NoXfer = NoXfer
  MaxRefs = 5
CHECK_DEADLOCK FALSE
SPECIFICATION FairFileTransferSpec
PROPERTY DeletedIsIncomplete
