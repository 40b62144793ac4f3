SPECIFICATION FairSpecFormed
CONSTANTS
  Device = {1, 2}
  Member <- MembersOf2
  Owner <- OwnDevice
  Founder = 1
  Stamp = {1}
  Amount = {0, 1, 2}
  Ops = {"expense", "edit"}
  CarefulUsers = TRUE
  PatientUsers = TRUE
  Faults = {}
  RelayLimit = 9
  MaxEntries = 6
  MaxFaults = 0
INVARIANTS ClocksDistinct Converged CaughtUp
PROPERTIES Delivered
CHECK_DEADLOCK FALSE
