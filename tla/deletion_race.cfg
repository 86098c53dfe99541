CONSTANTS
  Null = Null
  n1 = n1
  n2 = n2
  r1 = r1
  r2 = r2
  t1 = t1
  t2 = t2
  Nodes = {n1}
  Rules = {r1}
  Taints = {t1}
  CondTypes = {"c"}
  LabelMaps <- AllLabelMaps
  Selectors <- AllSelectors
  BadLabelKeys = {"bad"}
  WebhookEnabled = FALSE
  ListMayFail = FALSE
  Specs <- ContinuousSpecs
  InitNodes <- StartUnready
  InitRules <- StartContinuous
  NodeTemplates <- UnreadyTemplates
  ReportedStatus = {"True", "False"}
  LabelUpdates = {}
  Quota <- OneDelete
  MaxLag = 5
SPECIFICATION SafeSpec
PROPERTIES CleanBeforeGone
