SPECIFICATION LSpec
CONSTANTS
  MaxMissed = 3
  MaxSequence = 3
  MaxResets = 2
  Silence = Silence
  MaxWire = 1
CHECK_DEADLOCK FALSE
INVARIANTS
  HandsBlocksOver
  ResetForgets
  LinkIsSound
PROPERTIES
  
  SoundResumes
  TrialResolves
