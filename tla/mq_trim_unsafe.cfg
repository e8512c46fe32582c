SPECIFICATION Spec
CONSTANTS
  m1 = m1  m2 = m2  m3 = m3  m4 = m4
  t1 = t1  t2 = t2  t3 = t3  l1 = l1  l2 = l2
  Appenders = {t1, t2}
  Listeners = {l1}
  Msg = {m1, m2, m3}
  NoMsg = NoMsg
  Length <- MCLength
  Overhead = 2
  MaxSize = 4
INVARIANT TrimSafe
CHECK_DEADLOCK FALSE
