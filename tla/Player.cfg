CONSTANTS
  File <- Film
  MaxVideo = 0
  MaxAudio = 0
  Slots = 1
  Sizes = {1, 2}
  Keys = 1
SPECIFICATION FairSpec
INVARIANTS OverlaySafe PicturesInOrder OneRefresh
PROPERTIES PicturesReachScreen ThreadsGoOn
CHECK_DEADLOCK FALSE
