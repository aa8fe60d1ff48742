SPECIFICATION RSpec
CONSTANTS
  s1 = s1
  s2 = s2
  del = del
  local = local
  smb = smb
  Sweepers = {s1, s2}
  Deleters = {del}
  Devices = {1}
  Dests = {1, 2}
  Types = {local, smb}
  TypeOf <- MCLocalAndShare
  Local = local
  MaxId = 2
  MaxBackups = 2
  MaxIncidents = 1
  Nobody = Nobody
SYMMETRY Symmetry
INVARIANTS
  PrunedMeansGone
  RowReflectsFile
PROPERTIES
  FilesLeaveByDecision
