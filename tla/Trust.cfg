\* One tenancy; its parties and an administrator write two reviews while documents
\* are checked; any two requests overlap.
CONSTANTS
  NoRow = NoRow
  tenant = tenant
  owner = owner
  tenancy = tenancy
  w1 = w1
  w2 = w2
  Users = {tenant, owner, admin}
  Admins = {admin}
  Submitters = {tenant}
  Decisions = {"APPROVED", "REJECTED"}
  Tenancies = {tenancy}
  Parties <- OneTenancy
  Reviews = {i1, i2}
  Ratings = {1, 5}
  Workers = {w1, w2}
  Allowed <- AllowAll
  MaxApprovals = 2
SPECIFICATION Spec
SYMMETRY Symmetry
INVARIANTS
  TypeOK
  AnsweredArePublic
  BlindUntilAnswered
  DecisionRepairsBadges
  ScoreExplained
