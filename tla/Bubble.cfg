SPECIFICATION BubbleSpec
CONSTANTS
  Images = {"photo", "web"}
  Audios = {"voice"}
  Apps = {"game"}
  Plain = {"bare"}
  Others = {"paper", "page"}
  Encrypted = {"photo", "voice", "game", "bare", "paper"}
  Foreign <- MCForeign
  MaxTaps = 2
CHECK_DEADLOCK FALSE
INVARIANTS
  SameBothEnds
  PlaceholderIsFetched
  TapShows
