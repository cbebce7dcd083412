SPECIFICATION FairRpcSpec
CHECK_DEADLOCK FALSE
CONSTANTS
  create = create
  streamIn = streamIn
  run = run
  signal = signal
  streamOut = streamOut
  NoTask = NoTask
  Session = {run, signal}
  Rpc <- MCRpc
  Target <- MCTarget
  BindMounts = 1
  MaxTries = 2
  Faults = {"su", "slow_fork", "dispatch", "container"}
  MaxPolls = 2
INVARIANTS
  AtMostOnce
  ExitFileFinal
  WaitTellsTruth
  KillAimed
PROPERTIES
  WaitEnds
  ImplementsContract
