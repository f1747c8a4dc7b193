SPECIFICATION FairSpec
CONSTANTS
  w1 = w1
  w2 = w2
  w3 = w3
  owner = owner
  boss = boss
  Workers = {w1, w2}
  Calls <- CallsDispatch
  NumItems = 2
  Requester = owner
  Approvers = {owner, boss}
  AllowSelfApproval = FALSE
  RuleOutcomes = {"none"}
  GitlabConfigured = TRUE
  TriggerOutcomes = {"created", "refused"}
  DispatchWhen = {"provisioning"}
  PipelineEnds = {"failed"}
  MayCrash = FALSE
  MaxPipelines = 3
INVARIANTS
  ItemMatchesJob
  EveryPipelineLogged
  SuccessMeansComplete
  ConfirmedOncePerWorker
PROPERTIES
  EveryItemIsTried
