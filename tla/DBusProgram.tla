---------------------------- MODULE DBusProgram ----------------------------
(***************************************************************************)
(* The life of a program on the bus: it exposes its events, exchanges      *)
(* messages once all of them are, and removes its interfaces when it stops *)
(* (cleanDBusRequests() before GKDBus::exit(), which closes the            *)
(* connection).                                                            *)
(***************************************************************************)
EXTENDS DBusExchange, DBusEvents

exchangeVars == vars

(* initializeGKDBusSignals() and initializeGKDBusMethods() are done. *)
Initialized == Events \subseteq registered

PInit == Init /\ EventsInit

InitializeEvents ==
  /\ started = 0
  /\ EventsNext
  /\ UNCHANGED exchangeVars

Exchange ==
  /\ Initialized
  /\ Next
  /\ UNCHANGED eventVars

PSpec == PInit /\ [][InitializeEvents \/ Exchange]_<<exchangeVars, eventVars>> /\ Fairness

(* Every variable of the program has its type. *)
ProgramTypeOK == TypeOK /\ EventsTypeOK

(* What is sent arrives, both ways: the arguments of a call or a signal in *)
(* the callback, the values it returns at the caller, and an exception of  *)
(* the callback as an error, never as the default value that follows it.   *)
ValuesArrive == ArgumentsArrive /\ ReturnArrives /\ FailureIsReported
=============================================================================
