\* A window of a folder that finds a backup of the scratchpad pad; doc is
\* auto saved.  Closing the window asks about doc, quitting backs both up.
SPECIFICATION FairSpec
CONSTANTS
  pad = pad
  doc = doc
  Copy = {pad, doc}
  Scratchpad = {pad}
  AutoSave = {doc}
  Found = {pad}
  hotExit = "onExit"
  emptyWindow = FALSE
  lastWindow = FALSE
  Reason = {"CLOSE", "QUIT"}
  MaxChanges = 1
  MaxOperations = 1
  MaxFailures = 1
  MaxShutdowns = 1
INVARIANTS TypeOK QuietIsSafe TrustedBackup
PROPERTIES ReopenShowsWork ShutdownDecides
CHECK_DEADLOCK FALSE
