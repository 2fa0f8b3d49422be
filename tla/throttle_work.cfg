SPECIFICATION FairSpec
CONSTANTS
  maxWorkChunkSize = 4
  maxBufferedWork = 9
  MaxUnits = 14
INVARIANTS BoundedBuffer WorkIsScheduled
PROPERTIES AcceptedIsHandled
