\* Two titles, one with two files of the same content: syncs, resyncs, scans and
\* routes in every order, with events that go wrong.
SPECIFICATION Spec
SYMMETRY Interchangeable
CONSTANTS
  t1 = t1
  t2 = t2
  f1 = f1
  f2 = f2
  g1 = g1
  Title = {t1, t2}
  File = {f1, f2, g1}
  TitleOf <- MCTitleOf
  ContentOf <- MCContentOf
  Pathless = {}
  CandidateId = {c1, c2}
  RequestId = {1}
  MinLibrary = 2
  MaxEvents = 4
INVARIANTS TypeOK  
PROPERTIES LargeRemovalIsConfirmed
