SPECIFICATION Spec
CONSTANTS
  SOUND_QUEUE_SIZE = 3
  Notes <- MCNotes
  StoreOrders <- BuildOnly
INVARIANTS
  VoicesOnlyWholeNotes
