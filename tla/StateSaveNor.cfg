SPECIFICATION Spec
CONSTANTS
  None = None
  Threads = {t1, t2, t3}
  Procs = {P1, P2}
  ProcOf <- OneApart
  Cells = {1}
  Bits = {1}
  Medium = "nor"
  Original <- Blank
  GuestOps <- NorOps
  MaxVersions = 3
INVARIANTS LocksMatchControl LogExplainsImage AckedSurvives
PROPERTY StoreSpec
SYMMETRY ProcSymmetry
CONSTRAINT NotAllAtOnce
