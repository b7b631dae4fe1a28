SPECIFICATION Spec
CONSTANTS
  c1 = c1  c2 = c2
  Calls = {}
  MaxFlight = 2
  Burnt = {0}
  Entitlement = 4
  MaxOutOfBand = 1
  MaxVisits = 1
  Ttl = 2  Throttle = 2  ConfirmMin = 3  ConfirmMax = 4  ConfirmDelay = 3  Interval = 5
  Nothing = Nothing
PROPERTIES SweepConfirms
