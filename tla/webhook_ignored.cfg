SPECIFICATION WebhookSpec
CONSTANTS
  w1 = w1
  w2 = w2
  w3 = w3
  owner = owner
  boss = boss
  Workers = {w1, w2}
  Calls <- CallsWebhook
  NumItems = 1
  Requester = owner
  Approvers = {owner, boss}
  AllowSelfApproval = FALSE
  RuleOutcomes = {"none"}
  GitlabConfigured = TRUE
  TriggerOutcomes = {"created"}
  DispatchWhen = {"approved", "provisioning"}
  PipelineEnds = {"success"}
  MayCrash = FALSE
  MaxPipelines = 1
PROPERTIES
  WebhookFinishesOrder
