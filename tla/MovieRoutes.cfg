\* Twelve layouts of one movie, every group of candidates and every action, calls
\* that fail in both ways, and a player that starts or a second attempt.
\* Attempts and sessions run out.
SPECIFICATION Spec
CHECK_DEADLOCK FALSE
CONSTANTS
  v1 = v1
  v2 = v2
  v3 = v3
  f = f
  g = g
  h = h
  i = i
  j = j
  k = k
  Version = {v1, v2, v3}
  File = {f, g, h}
  Item = {i, j, k}
  Radarr = {1, 2}
  Nowhere = 0
  Whole = Whole
  Layouts <- MCLayouts
  MaxEvents = 2
INVARIANTS TypeOK OnlyAskedFilesGo RowsGoWithTheirFiles
PROPERTIES PlayingFileIsKept EveryCandidateIsAnswered
