SPECIFICATION Spec
CONSTANTS
  ann = ann  k1 = k1  k2 = k2
  Givers = {ann}
  Pats = {k1, k2}
  Revocable = {k1}
  MaxFlight = 1
  MaxFaults = 1
  MaxMonth = 2
  Entitlement = 1
  DefaultPledge = 1
  Nothing = Nothing
INVARIANTS DisconnectSticks
