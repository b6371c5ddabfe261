SPECIFICATION FairSpec
CONSTANTS
  c1 = c1
  c2 = c2
  m1 = m1
  m2 = m2
  f1 = f1
  f2 = f2
  None = None
  Clusters = {c1, c2}
  Machines = {m1, m2}
  MachineLives <- MCMachineLives
  InitialMachine <- MCInitialMachine
  FileNames = {f1, f2}
  SnapshotFiles <- AllFiles
  Nodes = {"n1", "n2"}
  FileNode <- MCFileNode
  EventKinds = {"pause", "machine", "prune", "delete", "controlPlane", "error"}
  MaxEvents = 1
INVARIANTS TypeOK BackupIsRestorable
PROPERTY BackupAppears
