\* The daemon in one thread; every signature; one call that times out and is
\* followed by another message.
SPECIFICATION PSpec
CONSTANTS
  Threads = {main}
  Main = main
  ValuesOf <- MCValuesOf
  AsyncArguments <- MCAsyncArguments
  MaxMessages = 2
  MaxFailures = 1
  Null = Null
  Events <- MCEvents
  Introspectable = Introspectable
  NoSender = NoSender
  InterfaceOrder <- MCOrder
  Declared <- MCDeclared
  MaxObjects = 1
  Thrown = Thrown
INVARIANTS ProgramTypeOK RegistryAgrees ValuesArrive
PROPERTY EveryCallIsAnswered
\* The messages are bounded.
CHECK_DEADLOCK FALSE
