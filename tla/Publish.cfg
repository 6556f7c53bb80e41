SPECIFICATION Spec
CONSTANTS
  Restorer = {r1, r2}
  Nothing = Nothing
  Pages = 2
  IntegrityCheck = FALSE
INVARIANT PublishedIsWhole
CHECK_DEADLOCK FALSE
