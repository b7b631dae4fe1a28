SPECIFICATION SpecDebit
CONSTANTS
  ann = ann  bob = bob  cy = cy
  r1 = r1  r2 = r2
  c1 = c1  c2 = c2
  NoUser = NoUser  NoCall = NoCall
  Users = {ann, bob, cy}
  Requests = {r1, r2}
  Owner <- MCOwner
  Needed <- MCNeeded
  QuotaChoices <- MCQuota
  Calls = {c1, c2}
  Caller <- AnnAndBob
  Costs = {2}
  MaxAmount = 2
  MaxGrants = 3
  MaxContributions = 0
  MaxBurn = 4
INVARIANTS TypeOKDebit CostAccounted
PROPERTIES ImplementsMarketplace OnlySourceOvershoots DebitEnds
CHECK_DEADLOCK FALSE
