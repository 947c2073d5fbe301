SPECIFICATION Spec
CONSTANTS
  root = root
  admin = admin
  hire = hire
  o1 = o1
  o2 = o2
  e1 = e1
  e2 = e2
  t1 = t1
  t2 = t2
  Staff = {root, admin, hire}
  Root = root
  Admin = admin
  Customers = {1, 2, 3}
  Keys = {1, 2, 3, 4}
  Orgs = {o1, o2}
  Emails = {e1, e2}
  Threads = {t1, t2}
  MaxWebKeys = 1
  MaxOps = 2
  None = None
CHECK_DEADLOCK FALSE
INVARIANT RevokedIsAlwaysRefused
