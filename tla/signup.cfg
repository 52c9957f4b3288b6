CONSTANTS
  r1 = r1
  r2 = r2
  r3 = r3
  e1 = e1
  e2 = e2
  p1 = p1
  p2 = p2
  NoPassword = NoPassword
  Req = {r1, r2, r3}
  MaxConn = 2
  Emails = {e1, e2}
  Roles <- MCRoles
  Passwords = {p1, p2}
SPECIFICATION Spec
SYMMETRY Symmetry
INVARIANTS TypeOK AccountsWhole AnswersTrue
CHECK_DEADLOCK FALSE
