SPECIFICATION Spec
CONSTANTS
  Tabs = {t1, t2, t3}
  Keys = {k1, k2}
  NoKey = NoKey
  MaxSecrets = 3
  MaxRestarts = 2
SYMMETRY Symm
INVARIANTS
  EnabledHasSecret
  NotLockedOut
PROPERTY
  WritesOnlyWhatItCanOpen
