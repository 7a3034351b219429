SPECIFICATION Spec
CONSTANTS
  p1 = p1  p2 = p2  a = a  b = b  d1 = d1  d2 = d2
  Pids = {p1, p2}
  Slots = {0}
  MainSlot = 0
  Pkgs = {a, b}
  NoPkg = NoPkg
  Dirs = {d1, d2}
  NoCpus = NoCpus  NoRule = NoRule  Outside = Outside  Gone = Gone
  Configs <- TwoConfigs
  MaxStart = 1
  CpusetEnabled = TRUE
  MkdirMayFail = FALSE
PROPERTIES
  ReloadKeepsInterested
