SPECIFICATION Spec
CONSTANTS
  p1 = p1  p2 = p2  a = a  b = b  d1 = d1  d2 = d2
  Pids = {p1}
  Slots = {0, 1}
  MainSlot = 0
  Pkgs = {a, b}
  NoPkg = NoPkg
  Dirs = {d1, d2}
  NoCpus = NoCpus  NoRule = NoRule  Outside = Outside  Gone = Gone
  Configs <- TwoConfigs
  MaxStart = 2
  CpusetEnabled = TRUE
  MkdirMayFail = TRUE
INVARIANTS
  TrackerInv
PROPERTIES
  RenamedEntryIsCurrent
