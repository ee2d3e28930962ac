SPECIFICATION Spec
CONSTANTS
  Procs = {1, 2}
  Paths = {"a", "b"}
  Ids = {"i", "j"}
  Features = {"AwsKms", "AwsSecretManager", "GcpSecretManager"}
  Servers = {1, 2}
  Backends = {"memory", "krs", "ssh-agent"}
  MaxSigns = 2
  MaxValues = 1
  Deployments <- TestDeployments
INVARIANTS
  EnvelopeNamesItsSeed
  SignsAsConfigured
  SeedStaysAvailable
PROPERTIES
  CallsReturn
CHECK_DEADLOCK FALSE
