SPECIFICATION RpcSpec
CONSTANTS
  create = create
  streamIn = streamIn
  run = run
  signal = signal
  streamOut = streamOut
  NoTask = NoTask
  Session = {streamIn, streamOut}
  Rpc <- MCRpc
  Target <- MCTarget
  BindMounts = 1
  MaxTries = 1
  Faults = {"dispatch"}
  MaxPolls = 2
INVARIANTS
  RpcTypeOK
  TruncatedOnlyWhenExpired
  OkMeansDispatched
PROPERTIES
  HandlersDescend
  ImplementsContract
