SPECIFICATION Spec
CONSTANTS
  t1 = t1
  t2 = t2
  w1 = w1
  w2 = w2
  w3 = w3
  p1 = p1
  p2 = p2
  NoPage = NoPage
  NoTab = NoTab
  NoView = NoView
  Tabs = {t1, t2}
  Views = {w1, w2, w3}
  Pages = {p1, p2}
  FirstPage = p1
  MaxIcons = 2
  MaxMoves = 7
  MaxQueue = 2
INVARIANTS
  CopiesConverge
  ImageIsItsOwn
  ObservableAgrees
  RecordKeepsUp
  NothingLeaks
  SelectedIsAwake
CHECK_DEADLOCK FALSE
