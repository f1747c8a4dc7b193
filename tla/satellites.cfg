SPECIFICATION SatellitesSpec
CONSTANTS
  w1 = w1
  w2 = w2
  l1 = l1
  l2 = l2
  t1 = t1
  t2 = t2
  z1 = z1
  u1 = u1
  o1 = o1
  o2 = o2
  i1 = i1
  i2 = i2
  Workers = {w1, w2}
  Users = {u1}
  Locations = {l1, l2}
  Tenants = {t1, t2}
  Zones = {z1}
  Networks <- TwoNetworks
  Nothing = Nothing
  Unknown = Unknown
  Base = 3
  Limit = 2
  MaxNumber = 4
  Orders = {o1, o2}
  Items = {i1, i2}
  Addressed <- OneItemAstray
  MaxGroups = 3
  GroupLimit = 1
  MaxPosition = 2
  NoGroup = NoGroup
  link = link
  note = note
  c1 = c1
  SubCount = 2
  Grouped = {1}
  Changes = {c1}
  NoChange = NoChange
  Cancel = Cancel
  None = None
  MayDie = TRUE
  Links = {link}
  NoLink = NoLink
  MayFail = TRUE
  Notes = {note}
  NoNote = NoNote
  ann = ann
  bob = bob
  linux = linux
  windows = windows
  r1 = r1
  r2 = r2
  RuleIds = {r1, r2}
  Submitted = {1, 2}
  RequesterOf <- TwoRequesters
  Basket <- TwoBaskets
  Deciders = {bob}
  Costs <- SeedCosts
  AlwaysNeeded = {windows}
  ServiceTypes <- SeedTypes
  Thresholds = {160}
  NoThreshold = NoThreshold
  NoSlug = NoSlug
  AvailabilityIds = {1, 2}
  RestrictionIds = {1, 2}
  Priorities = {0, 10}
  Circumstances <- TwoCircumstances
  Conditions <- TwoConditions
  Effects <- TwoEffects
  Starts = {1, 2}
  MayKill = TRUE
  Admin = TRUE
  Calls <- TwoWindows
INVARIANTS
  OfferedIsAccepted
  GroupsBelong
  GroupLimitNearlyKept
  CancelReasonStaysOut
  DeliveredOncePerWorker
  CountsAddUp
  RulesInUseExist
  StrongestRuleDecides
  StrongestRestrictionDecides
  SeededOnce
PROPERTIES
  FreshNumber
  ImplementsSubscription
CHECK_DEADLOCK FALSE
