SPECIFICATION Spec
CONSTANTS
  preventSaveConflicts = TRUE
  Option = {"auto", "force", "overwrite"}
  MaxVersions = 2
  MaxChanges = 3
  MaxSaves = 1
  MaxDisturbances = 0
INVARIANTS CleanIsOnDisk
CHECK_DEADLOCK FALSE
