CONSTANTS
  Enrollments = {e1}
  NoEnrollment = NoEnrollment
  MaxResumes = 1
  Loops = {l1, l2}
  Menus = {m1}
  NoTask = NoTask
  MaxPosts = 1
SPECIFICATION Spec
SYMMETRY LoopSymmetry
INVARIANTS
  TypeOK
  OneSourceOfTruth
  BannerIsTrue
PROPERTIES
  NothingLocksWhileOff
