SPECIFICATION Spec
CONSTANTS
  p1 = p1
  p2 = p2
  p3 = p3
  i1 = i1
  i2 = i2
  i3 = i3
  NoProc = NoProc
  NoInode = NoInode
  Proc <- Launchers
  Inode <- Inodes
INVARIANT SingleInstance
