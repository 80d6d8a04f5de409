CONSTANTS
  Organizers = {o1, o2}
  Admins = {a1, a2, a3, a4}
  Requests = {q1, q2}
  NoOrganizer = NoOrganizer
  NoAdmin = NoAdmin
SPECIFICATION Spec
SYMMETRY Symmetry
CHECK_DEADLOCK FALSE
INVARIANTS TypeOK AdminsHaveOrganizers
PROPERTY OnlyOvertakenRemovalsTakeTheLast
