SPECIFICATION FairSpec
CONSTANTS
  preventSaveConflicts = TRUE
  Option = {"auto", "force", "overwrite"}
  MaxVersions = 3
  MaxChanges = 3
  MaxSaves = 2
  MaxDisturbances = 2
INVARIANTS OneSaveAtATime CleanWasStored ErrorMeansDirty
PROPERTIES OverwritesOnlySeen SaveIsHonoured ReloadShows
CHECK_DEADLOCK FALSE
