---------------------------- MODULE MCDBusProgram ----------------------------
(* A small instance of DBusProgram for TLC: two or three values per type, *)
(* the empty string and the ends of the ranges among them.                 *)
EXTENDS DBusProgram

Strings == {0, 2}

Arrays(values) == SeqOf(values, 2)

MCValuesOf(type) ==
  CASE type = "b"  -> BOOLEAN
    [] type = "y"  -> {0, 255}
    [] type = "q"  -> {0, 65535}
    [] type = "t"  -> {0, 3}
    [] type = "s"  -> Strings
    [] type = "as" -> Arrays({1, 2})
    [] type = "G"  -> {1, GKeyID_MAX}
    [] type = "m"  -> {0, MKeyID_MAX}
    [] type = "aG" -> Arrays({1, GKeyID_MAX})
    [] type = "am" -> Arrays({0, MKeyID_MAX})
    [] type = "M"  -> Arrays({<<0, 1, 0>>, <<255, 0, 65535>>}) \ {<<>>}
    [] type = "aP" -> Arrays({<<0, 1, 2>>, <<3, 2, 1>>})
    [] type = "D"  -> {<<>>, <<<<1, <<>>>>>>, <<<<1, <<<<1, 2, 3>>>>>>, <<3, <<<<2, 1, 1>>, <<1, 1, 2>>>>>>>>}

MCAsyncArguments ==
  {[types |-> <<>>, values |-> <<>>],
   [types |-> <<"s", "s", "s", "t">>, values |-> <<0, 2, 0, 3>>]}

(* Signals of one interface from two objects, which share a match rule,    *)
(* and methods of the first object.                                        *)
MCEvent(path, interface, name, type, introspectable) ==
  [bus |-> "system", path |-> path, interface |-> interface, name |-> name, type |-> type,
   introspectable |-> introspectable, sender |-> IF type = "signal" THEN "daemon" ELSE NoSender]

NoEvents == {}
NoOrder == <<>>

MCOrder == <<"Methods", "Signals", Introspectable>>
MCDeclared == {[bus |-> "system", path |-> "clients", interface |-> "Methods", name |-> "s"]}

MCEvents ==
  {MCEvent("clients", "Signals", "a", "signal", FALSE),
   MCEvent("clients", "Signals", "b", "signal", FALSE),
   MCEvent("devices", "Signals", "a", "signal", FALSE),
   MCEvent("clients", "Methods", "c", "method", TRUE),
   MCEvent("clients", "Methods", "d", "method", TRUE)}
=============================================================================
