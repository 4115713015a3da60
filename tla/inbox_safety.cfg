CONSTANTS
  Users = {1, 2, 3}
  Announcements = {a1}
  Requests = {r1, r2, r3}
  Texts = {t1, t2}
  PageMax = 2
  None = None
SPECIFICATION Spec
SYMMETRY Symmetry
PROPERTIES
  SentWasCurrent
  ActiveAreTold
  ReadTimeIsTheFirst
  AllReadMeansRead
  ReturnsByStaleUpdateOnly
CHECK_DEADLOCK FALSE
