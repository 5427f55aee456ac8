SPECIFICATION Spec
CONSTANTS
  c1 = c1
  c2 = c2
  Clients <- TwoClients
  Capacity = 3
  None = None
  WithClean = TRUE
SYMMETRY Symmetry
INVARIANTS NoInvalidIndex
