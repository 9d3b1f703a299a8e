CONSTANTS
  Enrollments = {e1, e2}
  NoEnrollment = NoEnrollment
  MaxResumes = 1
SPECIFICATION Spec
INVARIANTS
  TypeOK
  GateIsCurrent
  HonestReason
  EnrollmentHasCamera
  NoCameraBehindLockScreen
PROPERTIES
  EnforcementReturns
  EnrollmentReleases
  TimedPauseEnds
