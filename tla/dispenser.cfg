SPECIFICATION Spec
CONSTANTS
  Claims = {c1, c2, c3}
  Capacity = 2
  Drip = 3
  GasLimit = 1
  GasPrices = {0, 2}
  GasPriceOverride = FALSE
  Funds = 8
  U128Max = 100
  Faults = {"drop"}
INVARIANTS
  DispenserTypeOK
  FreshNonce
  OutcomeTruthful
PROPERTIES
  SingleFlightPromise
