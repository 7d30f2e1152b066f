SPECIFICATION Spec
CONSTANTS
  Radix = 8
  WordBytes = 2
  AddressBytes = 2
  SigBytes = 14
  Defaults <- MCDefaults
  MaxPowBits = 28
  MaxPowPuzzles = 60
  KeyOrder = 50
  FallbackChain = 1337
  IntrinsicGas = 21
  Environments <- MCEnvironments
  NodeChains = {1, 1337, 2029, 2030}
  Recipients <- MCRecipients
  Signatures <- MCSignatures
  NodeStates <- MCNodeStates
INVARIANTS
  ServiceTypeOK
  ListeningIsSane
  BlankIsUnset
  DripAsConfigured
  RefusalsExplained
  FailuresExplained
  RecoversExactly
