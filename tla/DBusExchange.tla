---------------------------- MODULE DBusExchange ----------------------------
(***************************************************************************)
(* The messages between a desktop service and the daemon, as libGKDBus     *)
(* builds, sends, dispatches and answers them (src/lib/dbus/messages,      *)
(* events, GKDBus.cpp).                                                    *)
(*                                                                         *)
(* The service calls methods and blocks until the reply.  The main thread  *)
(* of the daemon runs the callbacks; all its threads broadcast signals, in *)
(* three steps (initialize, append, send) on the one _signal of the GKDBus *)
(* object.  The bus (external) keeps the order of the messages.            *)
(***************************************************************************)
EXTENDS DBusArguments

CONSTANTS
  Threads, Main,     \* threads of the daemon that broadcast signals
  ValuesOf(_),       \* values of each type of argument
  AsyncArguments,    \* what callbacks append: records [types, values]
  Thrown,            \* what a callback that throws a GLogiKExcept "returns"
  MaxMessages,       \* bound: calls and signals
  MaxFailures,       \* bound: messages that cannot be built or sent
  Null

VARIABLES
  work,       \* per thread, the signal it is building
  signal,     \* _signal
  async,      \* arguments in the async container
  inbox,      \* calls the daemon has not read
  outbox,     \* replies and signals the service has not read
  waiting,    \* serial of the call the service is blocked on, or Null
  pending,    \* _pendingCall holds a call that is not unreferenced yet
  started,    \* messages started
  failures    \* failures so far

vars == <<work, signal, async, inbox, outbox, waiting, pending, started, failures>>

Serials == 1 .. MaxMessages

(* Tuples of one value for each type. *)
ArgumentsOf(types) ==
  LET Longer(shorter, type) == {Append(tuple, value) : tuple \in shorter, value \in ValuesOf(type)}
      tuples[i \in 0 .. Len(types)] ==
        IF i = 0 THEN {<<>>} ELSE Longer(tuples[i - 1], types[i])
  IN tuples[Len(types)]

NoAsync == [types |-> <<>>, values |-> <<>>]

(* Async arguments are strings and integers (getDeviceProperties(),        *)
(* registerClient()), the only ones that are appended to a reply.          *)
ASSUME ExchangeAssumption ==
  /\ Main \in Threads
  /\ MaxMessages \in Nat /\ MaxFailures \in Nat
  /\ Null \notin Serials
  /\ \A type \in Types : ValuesOf(type) \subseteq Values(type)
  /\ NoAsync \in AsyncArguments
  /\ \A a \in AsyncArguments :
       a.types \in Seq({"s", "t"}) /\ a.values \in ArgumentsOf(a.types)
  /\ \A sig \in Methods : \A value \in ArgumentsOf(sig.out), a \in AsyncArguments :
       Thrown # value \o a.values

(* "meant" is what the sender wanted to say (for the properties only): the *)
(* arguments, or the value a callback returned, Thrown if it did not.      *)
Call(serial, sig, body, args) ==
  [kind |-> "call", serial |-> serial, types |-> sig.in, out |-> sig.out, body |-> body, meant |-> args]

Signal(sig, body, args) ==
  [kind |-> "signal", serial |-> 0, types |-> sig.in, body |-> body, meant |-> args]

Return(serial, types, body, value) ==
  [kind |-> "return", serial |-> serial, types |-> types, body |-> body, meant |-> value]

ErrorReply(serial) ==
  [kind |-> "error", serial |-> serial, types |-> <<>>, body |-> <<>>, meant |-> Thrown]

Init ==
  /\ work = [t \in Threads |-> Null]
  /\ signal = Null /\ async = <<>>
  /\ inbox = <<>> /\ outbox = <<>>
  /\ waiting = Null /\ pending = FALSE
  /\ started = 0 /\ failures = 0

Starts == started < MaxMessages /\ started' = started + 1

Fails == failures < MaxFailures /\ failures' = failures + 1

-----------------------------------------------------------------------------
(* The service.  A thread of its own uses _remoteMethodCall: building a    *)
(* message is one step, and a message that cannot be built is abandoned.   *)

ServiceIsIdle == waiting = Null

RemoteMethodCall(sig, args) ==
  /\ ServiceIsIdle
  /\ Starts
  /\ inbox' = Append(inbox, Call(started', sig, AppendArguments(sig.in, args), args))
  /\ waiting' = started' /\ pending' = TRUE
  /\ UNCHANGED <<work, signal, async, outbox, failures>>

(* WrongBuild: the caller abandons the message. *)
CallIsNotBuilt == ServiceIsIdle /\ Starts /\ Fails
                  /\ UNCHANGED <<work, signal, async, inbox, outbox, waiting, pending>>

(* A sending failure is only logged: waitForRemoteMethodCallReply() blocks *)
(* on a pending call that was unreferenced.  What follows is undefined;    *)
(* the service never comes back here.                                      *)
CallIsNotSent == ServiceIsIdle /\ Starts /\ Fails /\ waiting' = started'
                 /\ UNCHANGED <<work, signal, async, inbox, outbox, pending>>

IsReply(message) == message.serial = waiting /\ message.kind \in {"return", "error"}

WaitForRemoteMethodCallReply ==
  /\ pending
  /\ \E i \in DOMAIN outbox :
       /\ IsReply(outbox[i])
       /\ \A j \in 1 .. i - 1 : ~ IsReply(outbox[j])
       /\ outbox' = RemoveAt(outbox, i)
  /\ waiting' = Null /\ pending' = FALSE
  /\ UNCHANGED <<work, signal, async, inbox, started, failures>>

(* Mutant: the pending call stays. *)
TimesOutPending ==
  /\ pending
  /\ waiting' = Null
  /\ UNCHANGED <<work, signal, async, inbox, outbox, pending, started, failures>>

(* libdbus gives up on the reply, which may still come. *)
ReplyTimesOut ==
  /\ pending
  /\ waiting' = Null /\ pending' = FALSE
  /\ UNCHANGED <<work, signal, async, inbox, outbox, started, failures>>

(* checkForBusMessages(): the callback of a signal, nothing for a reply    *)
(* nobody waits for.                                                       *)
ServiceReadsMessage ==
  /\ ServiceIsIdle
  /\ outbox # <<>> /\ outbox' = Tail(outbox)
  /\ UNCHANGED <<work, signal, async, inbox, waiting, pending, started, failures>>

-----------------------------------------------------------------------------
(* The daemon answers calls.                                               *)

(* Mutant: strings only. *)
AppendAsyncStrings(container) == SelectSeq(container, LAMBDA item : item.type = "string")

(* Strings and integers are appended again, the rest is not handled. *)
AppendAsyncArgs(container) ==
  LET AppendAgain(item) == IF item.type \in {"string", "uint64"} THEN <<item>> ELSE <<>>
  IN Each(AppendAgain, container)

(* "ret" before it was assigned. *)
Default(type) ==
  CASE type = "b" -> FALSE [] type = "s" -> 0 [] OTHER -> <<>>

Defaults(types) == [i \in DOMAIN types |-> Default(types[i])]

Reply(call, returned, container) ==
  LET value == IF returned = Thrown THEN Defaults(call.out) ELSE returned.value
      types == IF returned = Thrown THEN call.out ELSE call.out \o returned.types
  IN Return(call.serial, types,
            AppendArguments(call.out, value) \o AppendAsyncArgs(container),
            IF returned = Thrown THEN Thrown ELSE value \o returned.async)

(* Mutant: no answer after an exception. *)
NoAnswerWhenThrown(call, returned, container) ==
  IF returned = Thrown THEN <<>> ELSE <<Reply(call, returned, container)>>

(* runCallback(): sendCallbackError() does not return, the reply with the  *)
(* default value follows the error.                                        *)
Answers(call, returned, container) ==
  (IF returned = Thrown THEN <<ErrorReply(call.serial)>> ELSE <<>>)
    \o <<Reply(call, returned, container)>>

(* Only callbacks that return a boolean (RegisterClient) or nothing        *)
(* (GetDeviceProperties) append async arguments: behind a string array     *)
(* they would be read from the sizes of its strings.                       *)
AsyncOf(call) ==
  IF call.out \in {<<>>, <<"b">>} THEN AsyncArguments ELSE {NoAsync}

(* Outcomes of a callback: a value, with async arguments, or an exception, *)
(* maybe after async arguments.                                            *)
Returned(call) ==
  {[value |-> v, types |-> a.types, async |-> a.values] :
     v \in ArgumentsOf(call.out), a \in AsyncOf(call)}

Appended(call, returned) ==
  IF returned = Thrown
    THEN {AppendArguments(a.types, a.values) : a \in AsyncOf(call)}
    ELSE {AppendArguments(returned.types, returned.async)}

(* sendReplyError() when the reply cannot be built; a message that cannot  *)
(* be sent is only logged.                                                 *)
Undelivered(call, returned, container) ==
  LET answers == Answers(call, returned, container)
      error == <<ErrorReply(call.serial)>>
  IN {RemoveAt(answers, i) : i \in DOMAIN answers}
       \cup {IF returned = Thrown THEN error \o error ELSE error}

(* checkDBusMessage(): the arguments, the callback, the reply; then the    *)
(* async container is emptied.                                             *)
CheckDBusMessage ==
  LET call == Head(inbox)
      args == NextArguments(call.types, FillInArguments(call.body))
  IN /\ inbox # <<>> /\ work[Main] = Null
     /\ inbox' = Tail(inbox)
     /\ \E returned \in (IF args = Failure THEN {Thrown} ELSE Returned(call) \cup {Thrown}) :
        \E more \in Appended(call, returned) :
          \/ /\ outbox' = outbox \o Answers(call, returned, async \o more)
             /\ UNCHANGED failures
          \/ /\ \E answers \in Undelivered(call, returned, async \o more) : outbox' = outbox \o answers
             /\ Fails
     /\ async' = <<>>
     /\ UNCHANGED <<work, signal, waiting, pending, started>>

-----------------------------------------------------------------------------
(* The daemon broadcasts signals.                                          *)

(* abandonBroadcastSignal(): whoever catches an exception drops _signal.   *)
Abandon(t) == signal' = Null /\ work' = [work EXCEPT ![t] = Null]

(* "DBus signal already allocated" is an exception too. *)
InitializeBroadcastSignal(t, sig, args) ==
  /\ work[t] = Null /\ Starts
  /\ IF signal # Null THEN Abandon(t)
     ELSE /\ signal' = [types |-> sig.in, body |-> <<>>]
          /\ work' = [work EXCEPT ![t] = [sig |-> sig, args |-> args, next |-> 1]]
  /\ UNCHANGED <<async, inbox, outbox, waiting, pending, failures>>

AppendToBroadcastSignal(t) ==
  /\ work[t] # Null /\ work[t].next <= Len(work[t].args)
  /\ work' = [work EXCEPT ![t].next = @ + 1]
  /\ signal' = IF signal = Null THEN Null
               ELSE [signal EXCEPT !.body =
                       @ \o AppendArgument(work[t].sig.in[work[t].next], work[t].args[work[t].next])]
  /\ UNCHANGED <<async, inbox, outbox, waiting, pending, started, failures>>

SignalIsNotBuilt(t) ==
  /\ work[t] # Null
  /\ Abandon(t) /\ Fails
  /\ UNCHANGED <<async, inbox, outbox, waiting, pending, started>>

(* "tried to send NULL signal" ends the same way. *)
SendBroadcastSignal(t) ==
  /\ work[t] # Null /\ work[t].next > Len(work[t].args)
  /\ Abandon(t)
  /\ outbox' = IF signal = Null THEN outbox
               ELSE Append(outbox, Signal([in |-> signal.types], signal.body, work[t].args))
  /\ UNCHANGED <<async, inbox, waiting, pending, started, failures>>

-----------------------------------------------------------------------------
ServiceNext ==
  \/ \E sig \in Methods : \E args \in ArgumentsOf(sig.in) : RemoteMethodCall(sig, args)
  \/ CallIsNotBuilt \/ CallIsNotSent
  \/ WaitForRemoteMethodCallReply \/ ReplyTimesOut
  \/ ServiceReadsMessage

DaemonNext ==
  \/ CheckDBusMessage
  \/ \E t \in Threads :
       \/ \E sig \in Signals : \E args \in ArgumentsOf(sig.in) : InitializeBroadcastSignal(t, sig, args)
       \/ AppendToBroadcastSignal(t)
       \/ SignalIsNotBuilt(t)
       \/ SendBroadcastSignal(t)

Next == ServiceNext \/ DaemonNext

(* The loops of both programs read their messages, and a thread that       *)
(* builds a signal goes on.  A timeout is never needed.                    *)
Fairness ==
  /\ WF_vars(WaitForRemoteMethodCallReply)
  /\ WF_vars(CheckDBusMessage)
  /\ \A t \in Threads : WF_vars(AppendToBroadcastSignal(t)) /\ WF_vars(SendBroadcastSignal(t))

Spec == Init /\ [][Next]_vars /\ Fairness

-----------------------------------------------------------------------------
(* Properties.                                                             *)

BodyItem ==
  [type : {"boolean"}, value : BOOLEAN]
    \cup [type : {"string", "byte", "uint16", "uint64"}, value : Nat]

TypeOK ==
  /\ \A t \in Threads : work[t] # Null => work[t].next \in 1 .. Len(work[t].args) + 1
  /\ signal # Null => signal.body \in Seq(BodyItem)
  /\ async = <<>>
  /\ \A m \in Range(inbox \o outbox) :
       m.kind \in {"call", "signal", "return", "error"} /\ m.body \in Seq(BodyItem)
  /\ waiting \in Serials \cup {Null} /\ pending \in BOOLEAN /\ (pending => waiting # Null)
  /\ started \in 0 .. MaxMessages /\ failures \in 0 .. MaxFailures

ReadBack(message) ==
  LET got == NextArguments(message.types, FillInArguments(message.body))
  IN IF got = Failure THEN Thrown ELSE got.value

(* What a callback reads is what the sender appended, for every signature  *)
(* and value, the empty string and the sizes of arrays included: no        *)
(* message on its way to a program decodes to anything else.               *)
ArgumentsArrive ==
  \A m \in Range(inbox \o outbox) : m.kind \in {"call", "signal"} => ReadBack(m) = m.meant

(* A reply gives the value its callback returned, followed by the async    *)
(* arguments of this callback and of no other.                             *)
ReturnArrives ==
  \A m \in Range(outbox) :
    m.kind = "return" /\ m.meant # Thrown => ReadBack(m) = m.meant

(* After an exception the daemon sends an error and then a reply with a    *)
(* default value: the caller never takes the second for the answer, unless *)
(* the error could not be sent.                                            *)
FailureIsReported ==
  \A i \in DOMAIN outbox :
    outbox[i].kind = "return" /\ outbox[i].meant = Thrown /\ IsReply(outbox[i]) /\ failures = 0
      => \E j \in 1 .. i - 1 : outbox[j] = ErrorReply(waiting)

(* "DBus signal already allocated" (sanity check of                        *)
(* initializeBroadcastSignal()): a signal under construction has one       *)
(* builder, and holds what this one appended so far.                       *)
SignalHasOneBuilder ==
  signal # Null =>
    \E t \in Threads :
      /\ \A u \in Threads : work[u] # Null <=> u = t
      /\ signal.body = AppendArguments(work[t].sig.in, SubSeq(work[t].args, 1, work[t].next - 1))

(* As long as messages can be built and sent, a caller gets its reply      *)
(* without having to time out: an exception of the callback, or a signal   *)
(* the main thread is busy with, does not leave it blocked.                *)
EveryCallIsAnswered == waiting # Null ~> waiting = Null \/ failures > 0
=============================================================================
