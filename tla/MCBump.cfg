SPECIFICATION FairSpec
CONSTANTS
  t1 = t1
  t2 = t2
  Threads = {t1, t2}
  Nobody = Nobody
  Base = 1
  Length = 4
  Layouts <- MCLayouts
  ForeignLevels = {5}
  MaxResets = 1
INVARIANTS
  TypeOK
  Disjoint
  LedgerAccurate
PROPERTIES
  AtomicSpec
  ExhaustedIsFinal
  MismatchMeansProgress
  Succession
  OnlyForeignLevelsPanic
  Terminates
  InfoBelongsToCall

