SPECIFICATION Spec
CONSTANTS
  t1 = t1
  t2 = t2
  stored = stored
  preset = preset
  path1 = path1
  path2 = path2
  Task = {t1, t2}
  Repo = {stored}
  Preset <- OnePreset
  Harvested <- Paths
  Score <- Scores
  Limit = 2
  Rounds <- TwoAndOne
  MaxTroubles = 1
INVARIANTS
  TypeOK
  UsedOncePerTask
  JudgedOncePerTask
PROPERTIES
  CountsGrow
