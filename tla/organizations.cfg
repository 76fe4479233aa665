\* Three accounts, two links and two calls or requests; two organizations, two projects and an item or two of each kind in turn.
\* The two parts never meet, so they share identifiers, and with them the symmetry.
CONSTANTS
  u1 = u1
  u2 = u2
  Users = {u1, u2, u3}
  Founder = u1
  Requests = {a1, a2}
  NoRole = NoRole
  Links = {c1, c2}
  Calls = {b1, b2}
  Quotas <- SmallQuotas
  Null = Null
  Organizations = {a1, a2}
  Projects = {b1, b2}
  Items = {c1, c2}
  Viewers = {u1, u2}
  Slugs = {"acme", "shop"}
  Names = {"Acme", "..."}
  DerivedSlug <- MCDerivedSlug
  Visits = {"v1", "v2"}
  Scopes <- SmallScopes
  None = None
SPECIFICATION TenantsSpec
SYMMETRY Symmetry
CHECK_DEADLOCK FALSE
INVARIANTS MemberInv LinkInv TenancyInv
PROPERTIES LinksKeepTheirWord OwnershipIsGranted
