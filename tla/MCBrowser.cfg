SPECIFICATION BrowserSpec
CONSTANTS
  Hooks = {h1, h2}
  Checkouts = {c1, c2}
  Notes = {"n"}
  Patches <- MCPatches
  MaxEdits = 1
  Amounts = {19900}
  MaxDeliveries = 2
  MaxCheckouts = 2
  MaxServed = 3
  Models = {"a", "b"}
  NoModel = "none"
  MaxAsks = 3
  MaxVisits = 2
  MaxPast = 2
  Statuses = {"success", "error"}
  StatusOf <- MCStatusOf
  MaxRequests = 2
  MaxStreams = 3
  MaxArrivals = 3
  MaxEntries = 2
  Filters = {"all", "some"}
  Choices = {"one"}
  Nothing = "nothing"
  MaxWrites = 1
  MaxSends = 3
  Items = {i1, i2}
  NoItem = NoItem
  MaxOrders = 2
  LimitedRoutes = {"r1"}
  LimitedKeys = {"k1"}
  MaxWishes = 2
SYMMETRY Symmetry
INVARIANTS OneCustomer PlanAsSold OneStream OwnWriteShown EnteredAndDone EditsKept
PROPERTIES OneKeyAtATime ChatKept
CHECK_DEADLOCK FALSE
