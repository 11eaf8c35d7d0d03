SPECIFICATION ProgramsSpec
CONSTANTS
  p1 = p1
  p2 = p2
  p3 = p3
  i1 = i1
  i2 = i2
  i3 = i3
  NoProc = NoProc
  NoInode = NoInode
  Proc <- Launchers
  Inode <- Inodes
  User = {"empty", "alice", "bob"}
  WindowSize = {"small", "large"}
  MaxOutput = 2
  MaxMsgs = 2
  MaxSaves = 2
  MaxReloads = 2
  MaxFiles = 3
  Entry <- Entries
  Score <- Scores
  Desktops = {{}, {"GNOME"}}
  Query = {"", "x", "xy"}
  Limit = 2
  Recent = 3
  MaxLines = 8
  Frame = {f1, f2}
  NoFrame = NoFrame
  InitialMs = 100
  CapMs = 1000
  MaxTries = 5
\* The programs end.
CHECK_DEADLOCK FALSE
INVARIANTS
  ProgramsTypeOK
  NoLeakedLock
  OnePerFile
  InStep
  SizesAgree
  NoLostWakeup
  ReloadTakes
  
  RecentOnDisk
  BackoffSchedule
  RunningIsFound
PROPERTIES
  StartsOrExits
  KeepsToTheDialogue
  ReloadEnds
  EnterLaunchesShown
