SPECIFICATION Spec
CONSTANTS
  c1 = c1
  c2 = c2
  Call = {c1, c2}
  Kind <- MCKind
  Nobody = Nobody
  Faults = {"api", "tmp", "mount", "umount", "flush", "work"}
  Registers = TRUE
  ProcessFaults = {"listen", "serve", "crash"}
INVARIANTS
  TypeOK
  LeaksAreFailures
  AckedWorkStays
  StopCutsNothing
  RegisteredIsServed
PROPERTIES
  SignalEnds
