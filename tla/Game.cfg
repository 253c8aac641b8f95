SPECIFICATION HFairSpec
CONSTANT FishId = {f1, f2, f3}
INVARIANTS
  ContactConsistent
  WinnerJustified
  BothWinOnlyByDeath
  FirstToucherCredited
  CreditIsEarned
PROPERTIES
  KeepsPromise
  ScoreVerdictIsFinal
  HitDecides
  LastFishDecides
