\* Three threads, four scanners, two implementations: both the last copy of
\* one going while another is made, and two assignments crossing, fit.
CONSTANTS
  Threads = {t1, t2, t3}
  Scanners = {s1, s2, s3, s4}
  Implementations = {i1, i2}
  None = None
SYMMETRY Symmetry
SPECIFICATION Spec
INVARIANTS NothingDeletedIsUsed DeletedByTheLast WorkersServeOne
