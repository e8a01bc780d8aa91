SPECIFICATION Spec
CONSTANTS
  ann = ann
  bob = bob
  t1 = t1
  t2 = t2
  Students <- MCStudents
  Teachers <- MCTeachers
  None = None
  K = 3
  Score <- MCScore
  MaxEntries = 4
  MaxAtWork = 2
SYMMETRY Exchange
INVARIANTS
  TypeOK
  OneLeader
  BlocksFair
PROPERTIES
  AllOrNothing
  
