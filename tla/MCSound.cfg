SPECIFICATION FairSpec
CONSTANTS
  SOUND_QUEUE_SIZE = 3
  Notes <- MCNotes
  StoreOrders <- SourceOnly
INVARIANT
  SpeakerFollowsVoice
PROPERTIES
  RingIsFifo
  QueueDrains
  OnlyStopStrandsSpeaker
