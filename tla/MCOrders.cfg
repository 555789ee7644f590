SPECIFICATION Spec
CONSTANTS
  Ops <- MCOps
  RailOps <- MCRailOps
  MaxOrderSize = 200
  FragSize = 328
  Sync = TRUE
  MaxDepth = 2
  MaxOrders = 3
INVARIANTS TypeOK DrawnAsAsked StatesAgree NoOrderLost NothingLeftWaiting OneFragment
