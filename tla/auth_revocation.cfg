\* One registered subject, whose authorization the SSO revokes at any time.
SPECIFICATION Spec
CONSTANTS
  u1 = u1
  u2 = u2
  a1 = a1
  a2 = a2
  boss = boss
  guest = guest
  other = other
  Request = {r1, r2}
  Login = {l1}
  Session = {s1, s2}
  Subject = {u1}
  Auth = {a1}
  Name = {boss}
  None = None
  SubjectOf <- OneSubjectOf
  Admin = {boss}
  Founder <- OneFounder
  CacheTtl = 1
  Latency = 1
  LoginTtl = 1
  SessionTtl = 3
  AbsoluteTtl = 3
  MaxTime = 3
SYMMETRY Symmetry
INVARIANTS
  RevocationTakesHold
  LifetimeCapped
