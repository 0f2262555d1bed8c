SPECIFICATION Spec
CONSTANTS
  Backups = {auto, admin}
  Mtimes = {t1, t2, t3, t4}
  Keys = {k1, k2, k3, k4}
  None = None
  OneBackupASecond = TRUE
SYMMETRY Symmetry
INVARIANTS TypeOK RecordIsTrue
