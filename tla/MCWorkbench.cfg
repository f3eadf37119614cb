SPECIFICATION FairTabSpec
CONSTANTS
  h1 = h1
  x1 = x1
  x2 = x2
  x3 = x3
  None = None
  Handlers = {h1}
  Txs = {x1, x2, x3}
  w1 = w1
  w2 = w2
  Wallets = {w1, w2}
  Drafter = w1
INVARIANTS
  TabTypeOK
  OfferedIsAccepted
PROPERTIES
  RevocationSticks
  AuthorityFollowsChain
  ClicksEnd
