SPECIFICATION ConnSpec
CONSTANTS
  c1 = c1  ann = ann  bob = bob
  Clients = {c1}
  Givers = {ann, bob}
  Sources = {1, 2}
  Self = {ann}
  GiverOf <- LastIsBobs
  MaxCalls = 2
  MaxChanges = 2
  MaxBody = 1
  RESTRICT_CONNECT = TRUE
  Nothing = Nothing
INVARIANTS TypeOKServe AnsweredOnce DebitedOnce WholeBody
PROPERTIES CallEnds ImplementsCall ReadingEnds ImplementsServe
