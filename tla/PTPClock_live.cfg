CONSTANTS
  c1 = c1
  c2 = c2
  m1 = m1
  m2 = m2
  NoMaster = NoMaster
  Cpus <- OneCpu
  Masters <- TwoMasters
  Domains = {0, 1}
  DSCPs = {0}
  Announced <- OneDomain
  SeqMod = 6
  SeqIds = {0, 4}
  T1Values = {1, 2}
  PTP_LOCK_HYSTERESIS = 3
  TIC_LOCK_HYSTERESIS = 1
  PTP_WATCHDOG_ELAPSE = 0
  PTPMASTER_ANNOUNCE_TIMEOUT = 0
SPECIFICATION FairSpec
INVARIANT ElectedInDomain
INVARIANT T1MatchesT2
PROPERTY SilentMasterUnlocks
PROPERTY SilentMasterReplaced
PROPERTY ConfigTakesEffect
