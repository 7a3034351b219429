SPECIFICATION FairSpec
CONSTANTS
  CpuSetSize = 4
  AllBigMaxRatio = 2
  AllBigMinCapacity = 300
  MaxPkgLen = 5
  MaxThreadLen = 4
  PrefixWeight = 100
  WildcardWeight = 10
  WordModulus = 1073741824
  Configs <- MCConfigs
  Socs <- MCSocs
  Packages <- MCPackages
  ThreadNames <- MCThreadNames
  AndroidGroups <- MCAndroidGroups
  MaxIncidents = 2
INVARIANTS
  TypeOK
  ResolveIsLayered
  LongestPrefixWins
  ConfiguredIsWhitelisted
  StableAcrossReloads
  DirHoldsPolicy
  OutcomeIsTrue
  VerdictIsAudited
  PolicyInEffect
PROPERTIES
  PlacedInTheEnd
CHECK_DEADLOCK FALSE
