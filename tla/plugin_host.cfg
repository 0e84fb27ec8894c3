SPECIFICATION FairSpec
CONSTANTS
  Plugins <- MCPlugins
  Requires <- MCRequires
  LoadBefore <- MCLoadBefore
  UniqueType <- MCUniqueType
  Exports <- MCExports
  Installs <- MCInstalls
  Configs <- MCConfigs
  Threads = {t1, t2}
  Conns = {c1}
  MaxRing = 1
  Nobody = Nobody
  Host = Host
CHECK_DEADLOCK FALSE
INVARIANTS LifetimesNest 
 
