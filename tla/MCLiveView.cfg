SPECIFICATION FairViewSpec
CONSTANTS
  MaxViews = 2
  Monitors = {m1, m2}
  Primary = m1
  NoView = NoView
  NoMon = NoMon
  Photo = Photo
INVARIANTS ViewTypeOK ClicksHitTheShownDisplay DecodersAreCurrent
PROPERTIES DirectStopReleases InputSettles
