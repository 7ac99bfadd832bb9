----------------------------- MODULE DBusEvents -----------------------------
(***************************************************************************)
(* The methods and signals a program exposes or receives                   *)
(* (src/lib/dbus/GKDBusEvents.cpp): the map of the events by bus, object   *)
(* path and interface, the match rules set on the bus for the signals, and *)
(* the objects that introspection lists.                                   *)
(*                                                                         *)
(* No program of the repository registers an event twice, so that the      *)
(* vector of an interface is a set.                                        *)
(***************************************************************************)
EXTENDS Naturals, Sequences, FiniteSets

CONSTANTS
  Events,          \* what the programs expose or receive
  Introspectable,  \* the standard interface
  NoSender,
  Declared,        \* declareIntrospectableSignal(): what introspection says is sent
  InterfaceOrder,  \* the order of std::set, that of the names
  MaxObjects       \* bound: objects listed, which are never removed from the list

(* removeSignalsInterface() takes one sender for a whole interface: each   *)
(* caller gives the one it gave to receiveSignal().                        *)
ASSUME EventsAssumption ==
  /\ IsFiniteSet(Events) /\ MaxObjects \in Nat
  /\ \A e \in Events : \E i \in DOMAIN InterfaceOrder : InterfaceOrder[i] = e.interface
  /\ \A e \in Events :
       /\ e.type \in {"method", "signal"} /\ e.introspectable \in BOOLEAN
       /\ e.interface # Introspectable
       /\ \A f \in Events :
            <<e.bus, e.path, e.interface>> = <<f.bus, f.path, f.interface>> => e.sender = f.sender

VARIABLES
  registered,  \* _DBusEvents
  interfaces,  \* _DBusInterfaces, which never shrinks
  rules,       \* match rules on the bus: how many times each was added
  objects      \* _DBusIntrospectableObjects

eventVars == <<registered, interfaces, rules, objects>>

Introspect(bus, path) ==
  [bus |-> bus, path |-> path, interface |-> Introspectable, name |-> "Introspect",
   type |-> "method", introspectable |-> FALSE, sender |-> NoSender]

AllEvents == Events \cup {Introspect(e.bus, e.path) : e \in Events}

(* buildSignalRuleMatch(): the object path is not part of a rule. *)
RuleMatch(e) == <<e.bus, e.sender, e.interface, e.name>>

Rules == {RuleMatch(e) : e \in AllEvents}

SignalsOf(events, rule) == {e \in events : e.type = "signal" /\ RuleMatch(e) = rule}

EventsInit ==
  /\ registered = {} /\ interfaces = {} /\ objects = <<>>
  /\ rules = [r \in Rules |-> 0]

(* addEvent(), which exposes the Introspect method of an object first.     *)
AddEvent(e) ==
  LET introspect == Introspect(e.bus, e.path)
      exposes == e.introspectable /\ introspect \notin registered
  IN /\ e \notin registered
     /\ registered' = registered \cup {e} \cup (IF exposes THEN {introspect} ELSE {})
     /\ interfaces' = interfaces \cup {e.interface} \cup (IF exposes THEN {Introspectable} ELSE {})
     /\ exposes => Len(objects) < MaxObjects
     /\ objects' = IF exposes THEN Append(objects, <<e.bus, e.path>>) ELSE objects
     /\ rules' = IF e.type = "signal" THEN [rules EXCEPT ![RuleMatch(e)] = @ + 1] ELSE rules

OfObject(bus, path) == {e \in registered : e.bus = bus /\ e.path = path}

(* Mutant: the introspection of an object outlives it. *)
OnlyChosen(bus, path, interface) == {e \in OfObject(bus, path) : e.interface = interface}

(* removeInterface(): when only the introspection of the object is left,   *)
(* it goes too.                                                            *)
Removed(bus, path, interface) ==
  LET chosen == {e \in OfObject(bus, path) : e.interface = interface}
      left == OfObject(bus, path) \ chosen
  IN IF chosen # {} /\ \A e \in left : e.interface = Introspectable
       THEN OfObject(bus, path) ELSE chosen

RemoveInterface(bus, path, interface) ==
  LET removed == Removed(bus, path, interface)
  IN /\ removed # {}
     /\ registered' = registered \ removed
     /\ rules' = [r \in Rules |-> rules[r] - Cardinality(SignalsOf(removed, r))]
     /\ UNCHANGED <<interfaces, objects>>

(* introspect(): the methods and the declared signals of an object, one    *)
(* interface after the other.  On a bus with no declared signal it gives   *)
(* up after the methods of the first interface.                            *)
MayIntrospect(bus, interface) ==
  \/ \E s \in Declared : s.bus = bus
  \/ \A i \in DOMAIN InterfaceOrder : InterfaceOrder[i] \in interfaces =>
        \E j \in 1 .. i : InterfaceOrder[j] = interface

Introspected(bus, path) ==
  {e \in OfObject(bus, path) : e.type = "method" /\ MayIntrospect(bus, e.interface)}
    \cup {s \in Declared : s.bus = bus /\ s.path = path /\ s.interface \in interfaces}

(* introspectRootNode() *)
IntrospectedRoot(bus) == {objects[i][2] : i \in {j \in DOMAIN objects : objects[j][1] = bus}}

EventsNext ==
  \E e \in Events :
    \/ AddEvent(e)
    \/ RemoveInterface(e.bus, e.path, e.interface)

EventsSpec == EventsInit /\ [][EventsNext]_eventVars

-----------------------------------------------------------------------------
(* Properties.                                                             *)

EventsTypeOK ==
  /\ registered \subseteq AllEvents
  /\ \A e \in registered : e.interface \in interfaces
  /\ rules \in [Rules -> Nat]
  /\ objects \in Seq({<<e.bus, e.path>> : e \in Events})

(* A program hears the signals it has a callback for, and no signal of a   *)
(* removed interface wakes it up: the bus has a match rule for each signal *)
(* event, in whatever order interfaces with common rules come and go.      *)
RulesMatchEvents ==
  \A r \in Rules : rules[r] = Cardinality(SignalsOf(registered, r))

(* Introspection is there as long as an introspectable event of the object *)
(* is, and never for an object that has nothing else ("removing empty      *)
(* object path").                                                          *)
IntrospectionFollowsObjects ==
  \A e \in registered :
    /\ e.introspectable => Introspect(e.bus, e.path) \in registered
    /\ e.interface = Introspectable =>
         \E f \in registered : <<f.bus, f.path>> = <<e.bus, e.path>> /\ f.interface # Introspectable

(* Introspection lists every object that can be introspected, and, on a    *)
(* bus where signals are declared, every method of it that can be called.  *)
ObjectsAreListed ==
  \A e \in registered :
    /\ e.interface = Introspectable => e.path \in IntrospectedRoot(e.bus)
    /\ e.introspectable /\ e.type = "method" /\ (\E s \in Declared : s.bus = e.bus)
         => e \in Introspected(e.bus, e.path)

(* The registry, the bus and what introspection says of them agree.        *)
RegistryAgrees == RulesMatchEvents /\ IntrospectionFollowsObjects /\ ObjectsAreListed
=============================================================================
