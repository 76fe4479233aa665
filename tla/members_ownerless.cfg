CONSTANTS
  Users = {u1, u2}
  Founder = u1
  Requests = {r1, r2}
  NoRole = NoRole
  Links = {i1}
  Calls = {c1}
  Quotas <- OwnersOnly
  Null = Null
SPECIFICATION Spec
SYMMETRY Symmetry
CHECK_DEADLOCK FALSE
INVARIANTS NeverOwnerless
