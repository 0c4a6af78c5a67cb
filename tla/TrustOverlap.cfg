\* The two parties of a tenancy send their reviews at the same time.
CONSTANTS
  NoRow = NoRow
  tenant = tenant
  owner = owner
  tenancy = tenancy
  w1 = w1
  w2 = w2
  Users = {tenant, owner}
  Admins = {}
  Submitters = {}
  Decisions = {"APPROVED", "REJECTED"}
  Tenancies = {tenancy}
  Parties <- OneTenancy
  Reviews = {i1, i2}
  Ratings = {5}
  Workers = {w1, w2}
  Allowed <- AllowReviews
  MaxApprovals = 0
SPECIFICATION Spec
SYMMETRY Symmetry
INVARIANT BothPublic
