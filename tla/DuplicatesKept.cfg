\* Ten layouts of a title with two or three files; picks, syncs, upgrades and
\* protections between and during the jobs, which may stop at every step.
\* Picks and syncs run out.
SPECIFICATION Spec
CHECK_DEADLOCK FALSE
CONSTANTS
  a = a
  b = b
  c = c
  n = n
  File = {a, b, c, n}
  Row = {1, 2, 3, 4, 5}
  Arr = {1, 2}
  None = None
  Layouts <- MCLayouts
  MaxEvents = 3
INVARIANTS AFileIsKept 
PROPERTIES KeptFilesSurvive ArrIsLeftAFile
