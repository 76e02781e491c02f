\* Two servers and two clients; the queue is made up to three times.
SPECIFICATION Spec
CONSTANTS
  Servers = {s1, s2}
  Clients = {c1, c2}
  Cap = 2
  MaxIds = 3
PROPERTIES QueueOutlives NobodyIsAnswered RemovalEndsAll
\* nothing is left to do once every process has ended
CHECK_DEADLOCK FALSE
