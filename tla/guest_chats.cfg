SPECIFICATION Spec
CONSTANTS
  Tabs = {t1, t2}
  Users = {u1, u2}
  Chats = {c1, c2}
  AnonMessageLimit = 2
  MaxPosts = 3
  None = None
  Guest = Guest
  Absent = Absent
  Deleted = Deleted
CHECK_DEADLOCK FALSE
INVARIANTS
  AllowanceHolds
  GuestThreadsAreSavedUnlessMishap
PROPERTY
  OwnerStaysUnlessRacing
SYMMETRY Symmetry
