\* Two scans of four rules over a series in two Sonarr instances and one in none.
SPECIFICATION Spec
CHECK_DEADLOCK FALSE
CONSTANTS
  Unavailable = Unavailable
  s1 = s1
  s2 = s2
  p1 = p1
  p2 = p2
  p3 = p3
  c = c
  Series = {s1, s2}
  Instance = {1, 2}
  RefsOf <- MCRefsOf
  Rule = {p1, p2, p3, c}
  Outcome <- MCOutcome
  Root <- MCRoot
  Status = {"ended", "continuing"}
  Shows <- MCShows
  Sources <- MCSources
  MaxEvents = 2
  MaxScans = 2
PROPERTIES OnlyProvenTitlesAreFlagged 
