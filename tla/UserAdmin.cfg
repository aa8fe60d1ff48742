SPECIFICATION Spec
CONSTANTS
  r1 = r1
  r2 = r2
  Requests = {r1, r2}
  Roles <- MCRoles
  MaxId = 3
  NoRequest = NoRequest
SYMMETRY Symmetry
INVARIANTS
  AdminRemains
PROPERTIES
  ChangesByAdmins
