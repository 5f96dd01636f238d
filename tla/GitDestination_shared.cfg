\* One step, and others that write to its branches.
SPECIFICATION Spec
CONSTANTS
  Steps = {"step"}
  Foreign = {"other"}
  MaxCommits = 5
  FileSets <- WithNested
  OtherChanges <- Stray
INVARIANTS WholeFolders LocalIsPushed
PROPERTIES RemoteKeepsHistory
