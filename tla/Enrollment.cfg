CONSTANTS
  People = {owner, other}
  Ticks = {t1, t2}
  Enrollments = {e1}
  Attempts = 2
  MinVectors = 2
SPECIFICATION Spec
INVARIANTS
  TypeOK
  CacheIsCurrent
  ResultIsHonest
PROPERTIES
  OnlyEnrolledPass
  OnlyCompleteCapturesAreStored
  EnrollReturns
  UnavailabilityHeals
