SPECIFICATION Spec
CONSTANTS
  w1 = w1
  w2 = w2
  w3 = w3
  owner = owner
  boss = boss
  Workers = {w1}
  Calls <- CallsSequential
  NumItems = 2
  Requester = owner
  Approvers = {owner, boss}
  AllowSelfApproval = FALSE
  RuleOutcomes = {"match", "none", "error"}
  GitlabConfigured = TRUE
  TriggerOutcomes = {"created", "refused"}
  DispatchWhen = {"approved", "provisioning"}
  PipelineEnds = {"success", "failed", "canceled"}
  MayCrash = FALSE
  MaxPipelines = 2
INVARIANTS
  TypeOK
  OnePipelinePerItem
PROPERTIES
  LegalTransitions
