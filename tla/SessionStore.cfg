SPECIFICATION FairSpec
CONSTANTS
  t1 = t1
  t2 = t2
  t3 = t3
  p1 = p1
  p2 = p2
  Threads <- ThreeThreads
  Procs <- TwoProcs
  ProcOf <- TwoAndOne
  Locked = {p1}
  Sids = {s1}
  Payloads = {x}
  Absent = Absent
  Calls <- SomeCalls
  Tries = 2
INVARIANTS CursorHasOneUser
PROPERTIES EveryCallEnds ImplementsRegister
