\* The daemon with the listening thread of one device.
SPECIFICATION PSpec
CONSTANTS
  Threads = {main, listener}
  Main = main
  ValuesOf <- MCValuesOf
  AsyncArguments <- MCAsyncArguments
  MaxMessages = 3
  MaxFailures = 0
  Null = Null
  Events <- NoEvents
  Introspectable = Introspectable
  NoSender = NoSender
  InterfaceOrder <- NoOrder
  Declared <- NoEvents
  MaxObjects = 1
  Thrown = Thrown
INVARIANT SignalHasOneBuilder
CHECK_DEADLOCK FALSE
