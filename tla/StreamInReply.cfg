SPECIFICATION RpcSpec
CONSTANTS
  create = create
  streamIn = streamIn
  run = run
  signal = signal
  streamOut = streamOut
  NoTask = NoTask
  Session = {streamIn}
  Rpc <- MCRpc
  Target <- MCTarget
  BindMounts = 1
  MaxTries = 1
  Faults = {}
  MaxPolls = 2
INVARIANTS
  StreamInWaitsForExit
