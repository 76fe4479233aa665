\* An unclaimed or an upgraded instance, two people and one who is not allowed, a mock, three sign-ins;
\* two rows and two requests.
CONSTANTS
  Identities = {ann, bob, eve, mia}
  Mocks = {mia}
  Addresses = {x}
  Legacy = {x}
  Allowlist = {ann, bob, mia}
  Flows = {f1, f2, f3}
  Browsers = {b1}
  Links = {l1}
  Null = Null
  Absent = Absent
  Entries = {e1, e2}
  Calls = {c1, c2}
  Nothing = Nothing
SPECIFICATION WebSpec
SYMMETRY Symmetry
CHECK_DEADLOCK FALSE
INVARIANTS SignInInv AccountsAreFounded ControlsInv
PROPERTIES LinksAreOnesOwn SecretStays
