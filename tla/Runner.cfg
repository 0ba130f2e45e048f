SPECIFICATION Spec
CONSTANTS
  Regions = {"us-west-2", "eu-central-1"}
  AwsRegions = {"us-west-2"}
  ChainSelectors <- MCChainSelectors
  Workflows <- MCWorkflows
  Configs <- MCConfigs
  MaxExecutions = 4
  ReadsSecrets = FALSE
INVARIANTS
  TypeOK
  TriggersReachTheirHandler
  HooksAreFound
  TeeHandlersGetTee
CHECK_DEADLOCK FALSE
