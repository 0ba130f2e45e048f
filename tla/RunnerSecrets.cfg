SPECIFICATION Spec
CONSTANTS
  Regions = {"us-west-2", "eu-central-1"}
  AwsRegions = {"us-west-2"}
  ChainSelectors <- MCChainSelectors
  Workflows <- MCWorkflows
  Configs <- MCWrittenConfigs
  MaxExecutions = 4
  ReadsSecrets = TRUE
PROPERTIES
  InitFnDoesNotCrash
CHECK_DEADLOCK FALSE
