SPECIFICATION BeamFairSpec
CONSTANTS
  H <- MCH
  V <- MCV
INVARIANTS
  BeamTypeOK
  OutputsAligned
  WholePictures
PROPERTY FramesKeepComing
