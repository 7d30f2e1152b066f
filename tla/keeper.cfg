SPECIFICATION Spec
CONSTANTS
  Salts = {s1, s2}
  Addresses = {a1, a2}
  Cooldown = 2
  Ttl = 2
  U64Max = 5
  PinnedSecret = TRUE
  MaxTime = 4
  MaxBoots = 1
SYMMETRY Symmetry
INVARIANTS
  TypeOK
  NoReplay
  GrantsSpaced
  RefusalsJustified
