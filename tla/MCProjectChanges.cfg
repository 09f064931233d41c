SPECIFICATION Spec
CONSTANTS
  ann = ann
  bob = bob
  None = None
  old = old
  new = new
  f = f
  g = g
  Users = {ann, bob}
  Form = {"note"}
  Values = {old, new}
  Files = {f, g}
  MaxVersion = 3
  MaxSaves <- AnnAndBob
  Scenarios <- FieldOrDocument
  MaxRequests = 2
SYMMETRY TwoFiles
INVARIANTS TypeOK FilesStay
PROPERTY ApprovalsAreInformed
CHECK_DEADLOCK FALSE
