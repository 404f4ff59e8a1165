CONSTANTS
  Symbols = {"a", "b"}
  Traded = {"b"}
  Bids = {1, 2}
  Second = 2
  Minute = 2
  MaxTicks = 2
  Sockets = {"s1", "s2"}
  Programs = {"publish", "point"}
  Lists <- MCLists
  MaxOpens = 2
  AddressReused = FALSE
SPECIFICATION FairSpec
INVARIANTS OnlySubscribers BarExact
PROPERTIES Delivered
CHECK_DEADLOCK FALSE
