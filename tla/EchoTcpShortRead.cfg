CONSTANTS
  Clients = {c1}
  MaxLines = 1
  LineLen = 2
  AcceptQueue = 1
SPECIFICATION FairSpec
INVARIANT EchoIsTheLine
