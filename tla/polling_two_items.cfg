SPECIFICATION PollingSpec
CONSTANTS
  w1 = w1
  w2 = w2
  w3 = w3
  owner = owner
  boss = boss
  Workers = {w1, w2}
  Calls <- CallsPolling
  NumItems = 2
  Requester = owner
  Approvers = {owner, boss}
  AllowSelfApproval = FALSE
  RuleOutcomes = {"none"}
  GitlabConfigured = TRUE
  TriggerOutcomes = {"created"}
  DispatchWhen = {}
  PipelineEnds = {"success"}
  MayCrash = FALSE
  MaxPipelines = 2
PROPERTIES
  DoneWhenAllSucceed
