SPECIFICATION Spec
CONSTANTS
  c1 = c1  c2 = c2  c3 = c3  n1 = n1  n2 = n2  n3 = n3
  Clients = {c1, c2}
  Names = {n1, n2, n3}
  Links = {n1, n2}
  NumRooms = 2
  MaxOpened = 4
SYMMETRY ClientSymmetry
INVARIANTS TypeOK SameNameSameRoom OnlyLateStay ListedUnlessOvertaken
CHECK_DEADLOCK FALSE
