SPECIFICATION FairSpec
CONSTANTS
  Backups = {auto}
  Mtimes = {t1, t2, t3, t4}
  Keys = {k1, k2, k3}
  None = None
  OneBackupASecond = FALSE
PROPERTIES EveryCommitReachesBucket QuietDatabaseAddsNoBackups
