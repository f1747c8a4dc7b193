SPECIFICATION Spec
CONSTANTS
  w1 = w1
  w2 = w2
  w3 = w3
  owner = owner
  boss = boss
  Workers = {w1, w2, w3}
  Calls <- CallsDecisions
  NumItems = 1
  Requester = owner
  Approvers = {owner, boss}
  AllowSelfApproval = FALSE
  RuleOutcomes = {"match", "none", "error"}
  GitlabConfigured = TRUE
  TriggerOutcomes = {"created", "refused", "timed_out"}
  DispatchWhen = {"approved"}
  PipelineEnds = {"success", "failed", "canceled"}
  MayCrash = TRUE
  MaxPipelines = 2
INVARIANTS
  OrderFollowsDecision
  ApprovalBeforeDispatch
  SubmissionsDispatchFreely
  LocalsAgree
  DoneMeansAllSucceeded
  DashboardsAgree
PROPERTIES
  DecisionIsFinal
  ImplementsLifecycle
