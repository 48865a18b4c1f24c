\* Three workers: two that run rules and one that sleeps or misses a broadcast.
CONSTANTS
  a = a
  b = b
  c = c
  d = d
  e = e
  f = f
  g = g
  Workers = {w1, w2, w3}
  Names <- NamesMC
  Mtime <- MtimeMC
  Inputs <- InputsMC
  None = None
  Spurious = 1
SPECIFICATION RunSpec
INVARIANTS IInv RunsAfterDeps ReadyIsSeen EachRuleOnce MadeNeeded
PROPERTIES Finishes
