CONSTANTS
  Requests = {q1, q2}
  Scripts = {s1}
  Boot = boot
  u1 = u1
  u2 = u2
  admin = admin
  clerk = clerk
  old = old
  new = new
  Users = {u1, u2}
  Roles = {admin, clerk}
  Permissions = {old, new}
  Admin = admin
  StoredFirst = {old}
  Lists <- MCLists
  Null = null
SPECIFICATION Spec
INVARIANTS TypeOK CacheMatchesRoles LinksHaveRoles
SYMMETRY MCSymmetry
