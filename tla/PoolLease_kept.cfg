SPECIFICATION Spec
CONSTANTS
  Pools = {p1}
  Tasks = {t1, t2}
  Renewers = {r1, r2, r3}
  NoRenewer = NoRenewer
  LEASE_RENEWAL_MAX_RETRIES = 2
  p1 = p1
  t1 = t1
  t2 = t2
  r1 = r1
  r2 = r2
  r3 = r3
INVARIANTS
  CreatedPoolIsRenewed
