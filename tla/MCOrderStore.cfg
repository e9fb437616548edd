CONSTANTS
  Ids = {a, b}
  Instruments = {i1, i2}
  Prices = {1, 2}
  NoPrice = NoPrice
  Orders <- MCOrders
  Snapshots <- MCSnapshots
  NoOrder = NoOrder
SPECIFICATION Spec
SYMMETRY Symmetry
INVARIANTS
  IndexExact
  NoEmptyLevels
  EveryBookListed
PROPERTY Implements
