\* Three workers on two hosts share two tasks; every failure may happen.
CONSTANTS
  h1 = h1
  h2 = h2
  w1 = w1
  w2 = w2
  w3 = w3
  Task = {1, 2}
  Worker = {w1, w2, w3}
  Host = {h1, h2}
  HostOf <- MCHostOf
  Faults = {"dequeue", "read", "save", "stop", "crash"}
  NoTask = NoTask
  NoWorker = NoWorker
SPECIFICATION Spec
INVARIANTS TypeOK AtMostOnce SingleOwner CleanContext LocksUnderMonitor
PROPERTIES FinalIsFinal LostStaysLost OldestFirst ImplementsLedger
