\* Two addresses: one has an account and no invite code, or nobody has an account
\* and there is a seed code. Two requests at a time, every limit 1.
SPECIFICATION Spec
CONSTANTS
  i1 = i1
  Emails = {e1, e2}
  Invites = {i1}
  Reqs = {r1, r2}
  Starts <- OwnerOrSeed
  Nobody = Nobody
  NoInvite = NoInvite
  Idle = Idle
  PerHour = 1
  MaxAttempts = 1
  MaxUnused = 1
  MaxRows = 3
  MaxPassword = 1
SYMMETRY SameKind
INVARIANTS TypeOK InvitesTruthful OldPasswordsOut OneEndPerLogin
CHECK_DEADLOCK FALSE
