SPECIFICATION Spec
CONSTANTS
  ann = ann  bob = bob  cy = cy
  r1 = r1  r2 = r2
  NoUser = NoUser
  Users = {ann, bob, cy}
  Requests = {r1, r2}
  Owner <- MCOwner
  Needed <- TwoAndOne
  QuotaChoices <- TwoGivers
  MaxAmount = 2
  MaxGrants = 3
  MaxContributions = 1
  MaxBurn = 2
INVARIANTS TypeOK NeverOverfunded PledgeCoversDraws ReportsAgree NobodyVanishes StandingsInOrder
PROPERTIES FillsWithinSources ReturnedCreditFirst
CHECK_DEADLOCK FALSE
