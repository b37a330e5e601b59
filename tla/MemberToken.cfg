CONSTANTS
  Gw = gw
  Life = 6
  Refresh = 4
  Period = 3
  Delay = 1
  MaxAttempts = 2
  MaxFaults = 2
SPECIFICATION FairSpec
INVARIANTS
  TypeOK
  TokenValid
  RolledWithToken
PROPERTY
  TokenRecovers
