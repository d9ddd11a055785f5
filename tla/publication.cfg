CONSTANTS
  Publishers = {p1, p2, p3}
  Contents = {c1, c2}
SPECIFICATION Spec
SYMMETRY Symmetric
INVARIANTS TypeOK NeverPartial SuccessIsTrue
PROPERTY ImplementsWriteOnce
