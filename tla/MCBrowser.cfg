\* One teacher, one student; three elements, one of each kind; every bound at
\* the smallest value at which two of the things it counts can meet.
SPECIFICATION Spec
CONSTANTS
  teacher = teacher
  student = student
  e1 = e1
  e2 = e2
  e3 = e3
  NoId = NoId
  Pages = {teacher, student}
  Teachers = {teacher}
  MaxStrokes = 2
  MaxBytes = 3
  MaxChunks = 3
  MaxSends = 1
  Static = {e1}
  Dynamic = {e2, e3}
  Direct = {e3}
  WithInstall = {e1, e2}
  Required = 3
  ProbeLimit = 2
INVARIANTS
  
  ShownStored
  BytesAccounted
  OneInstall
  CallbackOnce
PROPERTIES
  SetupEnds
  NoMessageAfterClose
  Revealed
CHECK_DEADLOCK FALSE
