SPECIFICATION Spec
CONSTANTS
  c1 = c1
  c2 = c2
  m1 = m1
  m2 = m2
  f1 = f1
  f2 = f2
  None = None
  Clusters = {c1}
  Machines = {m1, m2}
  MachineLives <- MCMachineLives
  InitialMachine <- MCInitialMachine
  FileNames = {f1}
  SnapshotFiles <- OneFile
  Nodes = {"n1", "n2"}
  FileNode <- MCFileNode
  EventKinds = {"machine"}
  MaxEvents = 1
INVARIANT NoPanic
