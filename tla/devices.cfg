SPECIFICATION SpecFormed
CONSTANTS
  Device = {1, 2, 3}
  Member <- MembersOf2
  Owner <- SharedDevices
  Founder = 1
  Stamp = {1}
  Amount = {0, 1, 2}
  Ops = {"authorize", "revoke"}
  CarefulUsers = TRUE
  PatientUsers = TRUE
  Faults = {}
  RelayLimit = 9
  MaxEntries = 4
  MaxFaults = 0
INVARIANTS Accountable
CHECK_DEADLOCK FALSE
