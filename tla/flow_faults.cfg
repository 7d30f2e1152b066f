SPECIFICATION Spec
CONSTANTS
  Salts = {s1, s2}
  Addresses = {a1, a2}
  Cooldown = 2
  Ttl = 2
  U64Max = 100
  PinnedSecret = TRUE
  Claims = {c1, c2, c3}
  Capacity = 2
  Drip = 1
  GasLimit = 1
  GasPrices = {1}
  GasPriceOverride = TRUE
  Funds = 4
  U128Max = 100
  Faults = {"drop", "disconnect", "crash"}
  MaxSyncSecs = 1
  MaxClaimSecs = 2
  MaxTime = 2
  MaxBoots = 1
  MaxSetBack = 0
SYMMETRY Symmetry
INVARIANTS
  OneDripPerChallenge
  SpacedUpToDelay
  ResponseTruthful
  OnlyHangUpsLeaveTraces
