\* A call ends with its result.
CHECK_DEADLOCK FALSE
CONSTANTS
  Nil = Nil
  Names <- AllNames
  Hostnames <- AllHostnames
  Attachments <- AllAttachments
  Backends <- AllBackends
  GrantCalls <- AllGrantCalls
  Validations <- AllValidations
  Listings <- AllListings
  ServiceApplies <- AllServiceApplies
SPECIFICATION CallSpec
INVARIANTS
  HostnamesIntersectIsSetIntersection
  AcceptedMeansReachable
  ResolvedMeansAllExist
  GrantRulesAgree
  ValidatedMeansMounted
  TemplateIsOfTheSet
  PortsKeepNodePorts
