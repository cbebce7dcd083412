SPECIFICATION Spec
CHECK_DEADLOCK FALSE
CONSTANTS
  create = create
  streamIn = streamIn
  run = run
  signal = signal
  streamOut = streamOut
  NoTask = NoTask
  Session = {streamIn, streamOut}
  Rpc <- MCRpc
  Target <- MCTarget
  BindMounts = 1
  MaxTries = 2
  Faults = {"mv", "slow_fork", "container"}
INVARIANTS
  InOrder
  StreamsExclusive
  WholeWhenExecuted
  StreamInFirst
  ArchiveSeesStreamIns
  StreamTaskLeavesExit
  IInv
PROPERTIES
  ImplementsPipeline
  ImplementsRounds
