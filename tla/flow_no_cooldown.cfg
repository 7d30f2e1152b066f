SPECIFICATION Spec
CONSTANTS
  Salts = {s1, s2}
  Addresses = {a1, a2}
  Cooldown = 0
  Ttl = 1
  U64Max = 100
  PinnedSecret = TRUE
  Claims = {c1, c2, c3}
  Capacity = 2
  Drip = 1
  GasLimit = 1
  GasPrices = {1}
  GasPriceOverride = TRUE
  Funds = 4
  U128Max = 100
  Faults = {"drop"}
  MaxSyncSecs = 0
  MaxClaimSecs = 1
  MaxTime = 3
  MaxBoots = 0
  MaxSetBack = 0
SYMMETRY Symmetry
INVARIANTS
  OneDripPerChallenge
  FailureLeavesNoTrace
