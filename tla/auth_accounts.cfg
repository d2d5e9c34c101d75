\* An administrator with an account, and a second subject with none.  Time stands still and the
\* cache is never fresh: every request asks the SSO.
SPECIFICATION Spec
CONSTANTS
  u1 = u1
  u2 = u2
  a1 = a1
  a2 = a2
  boss = boss
  guest = guest
  other = other
  Request = {r1, r2}
  Login = {l1}
  Session = {s1, s2, s3}
  Subject = {u1, u2}
  Auth = {a1, a2}
  Name = {boss, guest, other}
  None = None
  SubjectOf <- MCSubjectOf
  Admin = {boss}
  Founder <- MCFounder
  CacheTtl = 0
  Latency = 0
  LoginTtl = 1
  SessionTtl = 1
  AbsoluteTtl = 0
  MaxTime = 0
SYMMETRY NameSymmetry
INVARIANTS
  IdentityAgrees
  ActivationRequired
PROPERTIES
  SessionOneWay
