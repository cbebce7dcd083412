SPECIFICATION FairRpcSpec
CHECK_DEADLOCK FALSE
CONSTANTS
  create = create
  streamIn = streamIn
  run = run
  signal = signal
  streamOut = streamOut
  NoTask = NoTask
  Session = {create, streamOut}
  Rpc <- MCRpc
  Target <- MCTarget
  BindMounts = 1
  MaxTries = 1
  Faults = {"container"}
  MaxPolls = 2
PROPERTIES
  AckedTakesEffect
  EveryRpcAnswered
