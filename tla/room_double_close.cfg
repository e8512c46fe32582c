SPECIFICATION Spec
CONSTANTS
  c1 = c1  c2 = c2  c3 = c3  m1 = m1  m2 = m2  m3 = m3
  Listeners = {c1}
  Msg = {m1, m2}
  NoClient = NoClient
  Modulus = 4
  Backlog = 1
  Failures = {"gone", "stalled", "binary"}
INVARIANT NoDoubleClose
CHECK_DEADLOCK FALSE
