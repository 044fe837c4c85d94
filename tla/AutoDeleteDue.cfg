\* Two titles under two automatic rules: scans, deletion runs and holds in every
\* order, with three events that go wrong in between.
SPECIFICATION FairSpec
CONSTANTS
  watched = watched
  large = large
  Title = {t1, t2}
  Rule = {watched, large}
  WatchRule = {watched}
  Delay <- MCDelay
  GlobalDelay = 1
  SpikeMin = 2
  SpikeDays = 1
  MaxTime = 2
  MaxEvents = 3
INVARIANTS ToldOnce
PROPERTIES HoldsAreHonoured DueIsDeleted
