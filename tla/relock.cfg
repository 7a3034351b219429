SPECIFICATION LoopFairSpec
CONSTANTS
  Ranks = 3
  InitialRanks = {0, 1, 2}
  WindowSamples = 2
  SampleSecs = 2
  StableSecs = 4
  Periods <- MCPeriods
  TicksPerSec = 2
  Cooldown = 2
  AuditSecs = 2
  AuditMax = 2
  MaxLate = 1
INVARIANTS
  AttackIsMet
  LoopTypeOK
  CoverageAnswered
PROPERTIES
  LengthenedOnlyWhenCalm
  DefenceResumes
  PeaceRelaxes
