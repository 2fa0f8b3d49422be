\* A window of a folder finds one backup, its editor is visible, and the
\* window is closed before the editor has come to show it.
SPECIFICATION FairSpec
CONSTANTS
  pad = pad
  doc = doc
  Copy = {pad, doc}
  Scratchpad = {pad}
  AutoSave = {doc}
  Found = {pad}
  hotExit = "onExit"
  emptyWindow = FALSE
  lastWindow = FALSE
  Reason = {"CLOSE"}
  MaxChanges = 0
  MaxOperations = 0
  MaxFailures = 0
  MaxShutdowns = 1
PROPERTIES UnrestoredIsKept
CHECK_DEADLOCK FALSE
