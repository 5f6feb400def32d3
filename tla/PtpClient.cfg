SPECIFICATION FairSpec
CONSTANTS
  Threads = {t1, t2}
  Connectors = {t1, t2}
  CloseFirst = FALSE
  MaxConn = 2
INVARIANTS TypeOK OneUserPerSocket DropReported NoLeakedSocket
PROPERTY LossNoticed
