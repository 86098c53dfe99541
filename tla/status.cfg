CONSTANTS
  Null = Null
  n1 = n1
  n2 = n2
  r1 = r1
  r2 = r2
  t1 = t1
  t2 = t2
  Nodes = {n1, n2}
  Rules = {r1}
  Taints = {t1}
  CondTypes = {"c"}
  LabelMaps <- AllLabelMaps
  Selectors <- AllSelectors
  BadLabelKeys = {"bad"}
  WebhookEnabled = FALSE
  ListMayFail = FALSE
  Specs <- StatusSpecs
  InitNodes <- StartOneOrTwo
  InitRules <- StartNewBadOrDeleted
  NodeTemplates <- UnreadyTemplates
  ReportedStatus = {"True"}
  LabelUpdates = {}
  Quota <- StatusQuota
  MaxLag = 2
SPECIFICATION StatusSpec
INVARIANTS StatusTypeOK AppliedNodesAccounted VerdictMatchesTaint ObservedIsEnforced StatusSettled
PROPERTIES NodeStatusIsIsolated
