SPECIFICATION Spec
CONSTANTS
  RxBufferSize = 8
  LineBufferSize = 4
  AnswerSize <- MCAnswerSize
  Programs <- MCPrograms
  SettingsLines <- MCSettingsLines
  StoreWords <- MCStoreWords
  MaxLines = 4
INVARIANTS RingHolds LinesAreTails
