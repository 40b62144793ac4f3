SPECIFICATION Spec
CONSTANTS
  Member = {"ann", "bob", "cat", "dan", "eve"}
  Device = {1, 2}
  Stamp = {1}
  Amount <- Amounts
  Payer = {"ann"}
  Sharer = {"ann", "bob"}
  MaxEntries = 4
  MaxClock = 3
  MaxBalance = 3
  MaxLate = 2
  MaxBehind = 1
  MaxPaid = 5
INVARIANTS PaysOverlaps SettlesAll LastWordCounts BalancesCancel
PROPERTIES Returns PaidApproaches
CHECK_DEADLOCK FALSE
