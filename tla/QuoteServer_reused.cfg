CONSTANTS
  Symbols = {"a", "b"}
  Traded = {"b"}
  Bids = {1, 2}
  Second = 2
  Minute = 2
  MaxTicks = 2
  Sockets = {"s1", "s2"}
  Programs = {"publish", "point"}
  Lists <- MCLists
  MaxOpens = 2
  AddressReused = TRUE
SPECIFICATION Spec
CHECK_DEADLOCK FALSE
INVARIANT Converges
