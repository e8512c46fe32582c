SPECIFICATION FairSpec
CONSTANTS
  t1 = t1  t2 = t2  t3 = t3
  Texts = {t1, t2, t3}
  Unknown = {t3}
  Empty = Empty
  Delays = {0, 1, 2}
  MaxQuits = 2
INVARIANTS TypeOK StateIsTrue GoneIsClosed TextInOnePlace TitleRestored NewsBlinks
PROPERTIES ErrorSticks QuitCloses DropIsTold
CHECK_DEADLOCK FALSE
