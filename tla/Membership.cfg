SPECIFICATION MCSpec
CONSTANTS
  Users = {u1, u2}
  u1 = u1
  u2 = u2
  Passwords = {pw1, pw2}
  Scrambled = Scrambled
  Keys = {k1, k2, k3, k4}
  k1 = k1
  k2 = k2
  None = None
  Calls = {c1, c2}
  Workspaces = {w1, w2}
  w1 = w1
  Invites = {i1, i2}
  i1 = i1
  Projects = {p1, p2}
  p1 = p1
  Switches = {s1, s2}
  DefaultStates = 2
  Requests = {r1, r2}
INVARIANTS MembershipInv InvitesMatchSeats AsLastAsked DeactivatedStaysOut SessionsCounted
PROPERTY SeatsStay
SYMMETRY Symmetric
CHECK_DEADLOCK FALSE
