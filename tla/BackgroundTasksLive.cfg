\* One worker on each of two hosts; hosts crash, stop and start again.
CONSTANTS
  h1 = h1
  h2 = h2
  w1 = w1
  w2 = w2
  w3 = w3
  Task = {1, 2}
  Worker = {w1, w3}
  Host = {h1, h2}
  HostOf <- MCHostOf
  Faults = {"stop", "crash"}
  NoTask = NoTask
  NoWorker = NoWorker
SPECIFICATION FairSpec
PROPERTIES WaitingTasksAreTaken TasksFinish
