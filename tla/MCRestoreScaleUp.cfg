SPECIFICATION FairSpec
CONSTANTS
  m1 = m1
  m2 = m2
  m3 = m3
  b1 = b1
  b2 = b2
  b3 = b3
  b4 = b4
  NoServer = NoServer
  Endpoint = Endpoint
  Original = Original
  NoData = NoData
  None = None
  Machines = {m1, m2, m3}
  InitialMachines = {m1, m2}
  InternalIP = {m1, m2, m3}
  Restores = {r1}
  Backups = {b1}
  BackupMachine <- MCBackupMachine
  BackupLocation <- MCBackupLocation
  FaultKinds = {"scale"}
  MaxFaults = 1
PROPERTY RestoreCompletes
