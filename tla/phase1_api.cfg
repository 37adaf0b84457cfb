SPECIFICATION Spec
CONSTANTS
  Pcbs = {p1, p2, p3}
  Semds = {d1, d2, d3}
  Keys = {k1, k2, k3}
  Queues = {q1, q2}
  NULL = NULL
SYMMETRY Symmetry
VIEW View
INVARIANTS Phase1TypeOK Circular OnePlace AslSound BackPointers SemdForEveryProcess
PROPERTIES ImplementsApi
