CONSTANTS
  g1 = g1
  p1 = p1
  c1 = c1
  c2 = c2
  c3 = c3
  Gateways <- OneGateway
  Policies <- OnePolicy
  Certs <- ThreeCerts
  Declarations <- GatewayAndPolicy
  Volumes <- ThreeCerts
  Volume <- TwoCollide
  MaxAttempts = 2
  MaxEdits = 2
  MaxFaults = 1
SPECIFICATION FairSpec
INVARIANT
  TypeOK
PROPERTIES
  RefreshKeepsMounts
  MountsConverge
