\* Two requests at once over two media servers, a schedule edit, an outage and
\* a restart.  Requests run out.
SPECIFICATION Spec
CHECK_DEADLOCK FALSE
CONSTANTS
  Task = {t1}
  CanDisable = {t1}
  Updater = {u1}
  MaxUpdates = 1
  Config = {c1, c2}
  Url = {a, b}
  Handler = {h1, h2}
  MaxSaves = 2
  MaxOutages = 1
  MaxCrashes = 1
SYMMETRY Interchangeable
INVARIANTS TypeOK OneMainServer RuntimeFollowsRows 
