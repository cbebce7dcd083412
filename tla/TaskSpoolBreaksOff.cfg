SPECIFICATION Spec
CHECK_DEADLOCK FALSE
CONSTANTS
  create = create
  streamIn = streamIn
  run = run
  signal = signal
  streamOut = streamOut
  NoTask = NoTask
  Session = {create, streamIn}
  Rpc <- MCRpc
  Target <- MCTarget
  BindMounts = 2
  MaxTries = 1
  Faults = {"dispatch", "write_back"}
INVARIANTS
  TypeOK
  WholeWhenExecuted
  Fifo
PROPERTIES
  StaysPublished
