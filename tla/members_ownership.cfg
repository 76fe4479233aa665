CONSTANTS
  Users = {u1, u2, u3}
  Founder = u1
  Requests = {}
  NoRole = NoRole
  Links = {i1, i2}
  Calls = {c1}
  Quotas <- LinksInTurn
  Null = Null
SPECIFICATION Spec
SYMMETRY Symmetry
CHECK_DEADLOCK FALSE
PROPERTIES OnlyOwnersMakeOwners
