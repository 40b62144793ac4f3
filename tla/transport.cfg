SPECIFICATION FairSpec
CONSTANTS
  Group = {"home", "trip"}
  MaxStarts = 2
  MaxFaults = 2
  MaxSockets = 4
INVARIANTS TypeOK PendingAsks ConnectedIsOpen NeverStranded
PROPERTIES RequestsSettle Reconnects Subscribed
CHECK_DEADLOCK FALSE
