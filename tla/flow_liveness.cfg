SPECIFICATION FairSpec
CONSTANTS
  Salts = {s1, s2}
  Addresses = {a1, a2}
  Cooldown = 2
  Ttl = 1
  U64Max = 100
  PinnedSecret = TRUE
  Claims = {c1, c2}
  Capacity = 1
  Drip = 1
  GasLimit = 1
  GasPrices = {1}
  GasPriceOverride = TRUE
  Funds = 4
  U128Max = 100
  Faults = {"drop"}
  MaxSyncSecs = 1
  MaxClaimSecs = 1
  MaxTime = 2
  MaxBoots = 0
  MaxSetBack = 1
INVARIANTS
  FailureLeavesNoTrace
PROPERTIES
  EveryClaimAnswered
