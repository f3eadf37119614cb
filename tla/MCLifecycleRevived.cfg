SPECIFICATION Spec
CONSTANTS
  h1 = h1
  h2 = h2
  x1 = x1
  x2 = x2
  x3 = x3
  None = None
  Handlers = {h1, h2}
  Txs = {x1, x2, x3}
  w1 = w1
  w2 = w2
  Wallets = {w1, w2}
  Drafter = w1
SYMMETRY Symmetry
PROPERTIES
  RevocationSticks
CHECK_DEADLOCK FALSE
