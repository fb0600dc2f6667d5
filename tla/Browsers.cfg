SPECIFICATION Spec
CONSTANTS
  v1 = v1
  v2 = v2
  v3 = v3
  b1 = b1
  b2 = b2
  b3 = b3
  u1 = u1
  u2 = u2
  NoBrowser = NoBrowser
  Views = {v1, v2}
  Browsers = {b1, b2}
  Sizes = {0, 1}
  Urls = {u1, u2}
  Zooms = {2}
  FirstUrl = u1
INVARIANTS
  StateReachesBrowser
  TypeOK
  NoDanglingBrowser
  OneBrowserPerView
PROPERTIES
  TabGetsBrowser
  DroppedViewsClose
CHECK_DEADLOCK FALSE
