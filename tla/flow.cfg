SPECIFICATION Spec
CONSTANTS
  a = a
  b = b
  c = c
  Datasets = {a, b, c}
  Recipes = {1, 2}
  Configs = {1, 2}
  Uploads = {a}
  MaxVersion = 2
  Rules <- CalmOrOverlap
  None = None
INVARIANTS
  FlowAcyclic
  ActiveUsesActive
  BuildMakesFresh
  LabelsFollowLineage
  FreshIsIdeal
CHECK_DEADLOCK FALSE
