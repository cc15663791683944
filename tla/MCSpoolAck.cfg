CONSTANTS
  m1 = m1
  m2 = m2
  h1 = h1
  h2 = h2
  h3 = h3
  i1 = i1
  i2 = i2
  i3 = i3
  NoHandle = NoHandle
  Message = {m1, m2}
  Handle = {h1, h2, h3}
  Item = {i1, i2, i3}
  msgOf <- MCMsgOf
  Undecodable = {m2}
  DeleteOnAck = TRUE
  AckStale = FALSE
SPECIFICATION Spec
SYMMETRY Symmetry
INVARIANTS TypeOK NoPrematureAck NackedNeverAcked
PROPERTIES ImplementsAtLeastOnce
CHECK_DEADLOCK FALSE
