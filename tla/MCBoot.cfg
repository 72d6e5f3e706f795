CONSTANTS
  NoPin = NoPin
  ProbeChoices <- SomeProbes
  UartChoices <- SomeUarts
  Profiles <- SomeProfiles
  MaxProbes = 4
  MaxUarts = 2
  GpioCount = 12
  Blocks = 2
  Sms = 2
  Eps = 6
  TablePins <- Table
  TxPins <- Tx
  RxPins <- Rx
  MaxInterfaces = 7
SPECIFICATION BootSpec
INVARIANTS  FullyBuilt
CHECK_DEADLOCK FALSE
