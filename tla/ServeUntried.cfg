SPECIFICATION ConnSpec
CONSTANTS
  c1 = c1  ann = ann  bob = bob
  Clients = {c1}
  Givers = {ann, bob}
  Sources = {1, 2, 3, 4}
  Self = {}
  GiverOf <- LastIsBobs
  MaxCalls = 1
  MaxChanges = 1
  Nothing = Nothing
  MaxBody = 0
  RESTRICT_CONNECT = FALSE
INVARIANTS BlockedOnlyWhenDry
