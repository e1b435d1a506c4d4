SPECIFICATION Spec
CONSTANTS
  fileA = fileA
  fileB = fileB
  long = long
  NoName = NoName
  Names = {fileA, fileB, long}
  NINODES = 3
  NDATA = 6
  PER_BLK = 2
  SFS_NDIRECT = 1
  SFS_NINDIRECT = 1
  Stored <- MCStored
  Images <- MCImages
  Vals = {2}
  MaxCount = 3
  MaxCalls = 3
  MaxFail = 11
INVARIANTS DiskConsistent NothingHeld ReadsBack 
PROPERTIES ImplementsFileStore
CHECK_DEADLOCK FALSE
