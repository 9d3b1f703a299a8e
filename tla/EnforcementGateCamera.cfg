CONSTANTS
  Enrollments = {e1, e2}
  NoEnrollment = NoEnrollment
  MaxResumes = 1
SPECIFICATION Spec
INVARIANT CameraOffWhenDisabled
