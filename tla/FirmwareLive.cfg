SPECIFICATION FairSpec
CONSTANTS
  Prio <- SharingPrio
  IdlePrio = 63
  StartPrio = 4
  Msg <- MCMsg
  NoMsg = 0
  DeletesWaited = FALSE
  MaxTimeout = 2
  Pressed = {2, 3, 4}
  LongPressTime = 1
  LongPressSpeed = 1
  KeyTimeout <- MCKeyTimeout
PROPERTIES
  KeyIsRead
  StopTakesEffect
