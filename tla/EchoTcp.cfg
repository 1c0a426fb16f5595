CONSTANTS
  Clients = {c1, c2}
  MaxLines = 2
  LineLen = 3
  AcceptQueue = 1
SPECIFICATION FairSpec
INVARIANTS EchoIntegrity NoConnectionLeak Answerable
PROPERTY NoWaitInVain
