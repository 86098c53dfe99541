CONSTANTS
  Null = Null
  n1 = n1
  n2 = n2
  r1 = r1
  r2 = r2
  t1 = t1
  t2 = t2
  Nodes = {n1}
  Rules = {r1, r2}
  Taints = {t1, t2}
  CondTypes = {"c"}
  LabelMaps <- AllLabelMaps
  Selectors <- AllSelectors
  BadLabelKeys = {"bad"}
  WebhookEnabled = FALSE
  ListMayFail = FALSE
  Specs <- BothContinuousSpecs
  InitNodes <- StartUnready
  InitRules <- StartTwoContinuous
  NodeTemplates <- UnreadyTemplates
  ReportedStatus = {"True"}
  LabelUpdates = {}
  Quota <- TwoRulesQuota
  MaxLag = 2
SPECIFICATION SafeSpec
INVARIANTS NoLostWakeup
