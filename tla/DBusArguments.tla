--------------------------- MODULE DBusArguments ---------------------------
(***************************************************************************)
(* How libGKDBus writes the arguments of a message and reads them back     *)
(* (src/lib/dbus/ArgTypes), and the signatures of the callbacks            *)
(* (src/lib/dbus/events).                                                  *)
(*                                                                         *)
(* Reading decodes a whole message into one queue per basic type: arrays   *)
(* and structures leave no trace of their own, so a body is the sequence   *)
(* of its basic values, depth first.  A string is known by its length, 0   *)
(* for the empty one, which is all that the code looks at.                 *)
(***************************************************************************)
EXTENDS Integers, SequencesExt

GKeyID_INV == 0
GKeyID_MAX == 18
MKeyID_MAX == 3
EVENT_KEY_UNKNOWN == 2
GK_INVALID == 0
GK_GUI_QT  == 3
DevicePropertiesPlusID == 6   \* DEVICE_ID_NUM_PROPERTIES + 1
UINT8_MAX  == 255
UINT16_MAX == 65535

-----------------------------------------------------------------------------
(* Writing.                                                                *)

Item(type, value) == <<[type |-> type, value |-> value]>>

Each(Op(_), values) == FlattenSeq([i \in DOMAIN values |-> Op(values[i])])

AppendBoolean(b) == Item("boolean", b)
AppendUInt8(n)   == Item("byte", n % (UINT8_MAX + 1))
AppendUInt16(n)  == Item("uint16", n % (UINT16_MAX + 1))
AppendUInt64(n)  == Item("uint64", n)

(* "ability to send empty strings": a zero size stands for one. *)
AppendString(s) == IF s = 0 THEN AppendUInt64(0) ELSE Item("string", s)

AppendStringArray(a) == AppendUInt64(Len(a)) \o Each(AppendString, a)

AppendGKeysID(key) == AppendUInt8(key)
AppendMKeysID(key) == AppendUInt8(key)
AppendGKeysIDArray(a) == AppendUInt8(Len(a)) \o Each(AppendUInt8, a)
AppendMKeysIDArray(a) == AppendUInt8(Len(a)) \o Each(AppendUInt8, a)

(* A macro is an array without its size: it must be the last argument. *)
AppendMacro(macro) ==
  LET KeyEvent(e) == AppendUInt8(e[1]) \o AppendUInt8(e[2]) \o AppendUInt16(e[3])
  IN Each(KeyEvent, macro)

AppendLCDPPArray(a) ==
  LET Plugin(p) == AppendUInt64(p[1]) \o AppendString(p[2]) \o AppendString(p[3])
  IN AppendUInt64(Len(a)) \o Each(Plugin, a)

AppendGKDepsMap(deps) ==
  LET Dependency(d) == Each(AppendString, d)
      Binary(b) == AppendUInt8(b[1]) \o AppendUInt64(Len(b[2])) \o Each(Dependency, b[2])
  IN AppendUInt64(Len(deps)) \o Each(Binary, deps)

(* One letter per type, as in the names of the signatures: G and m are     *)
(* keys, M a macro, P the properties of a plugin, D the dependencies.      *)
AppendArgument(type, value) ==
  CASE type = "b"  -> AppendBoolean(value)
    [] type = "y"  -> AppendUInt8(value)
    [] type = "q"  -> AppendUInt16(value)
    [] type = "t"  -> AppendUInt64(value)
    [] type = "s"  -> AppendString(value)
    [] type = "as" -> AppendStringArray(value)
    [] type = "G"  -> AppendGKeysID(value)
    [] type = "m"  -> AppendMKeysID(value)
    [] type = "aG" -> AppendGKeysIDArray(value)
    [] type = "am" -> AppendMKeysIDArray(value)
    [] type = "M"  -> AppendMacro(value)
    [] type = "aP" -> AppendLCDPPArray(value)
    [] type = "D"  -> AppendGKDepsMap(value)

AppendArguments(types, values) ==
  FlattenSeq([i \in DOMAIN values |-> AppendArgument(types[i], values[i])])

-----------------------------------------------------------------------------
(* Reading.                                                                *)

Queues == {"string", "boolean", "byte", "uint16", "uint64"}

Decoded(body, types) ==
  LET Value(item) == IF item.type \in types THEN <<item.value>> ELSE <<>>
  IN Each(Value, body)

(* fillInArguments(): a string also counts as its size. *)
FillInArguments(body) ==
  [queue \in Queues |->
     Decoded(body, IF queue = "uint64" THEN {"string", "uint64"} ELSE {queue})]

(* What a getNext function returns and the queues it leaves, or throws.    *)
Got(value, rest) == [outcome |-> "value", value |-> value, rest |-> rest]
Failure == [outcome |-> "exception"]

Next1(args, queue) ==
  IF args[queue] = <<>> THEN Failure
  ELSE Got(Head(args[queue]), [args EXCEPT ![queue] = Tail(@)])

NextBoolean(args) == Next1(args, "boolean")
NextByte(args)    == Next1(args, "byte")
NextUInt16(args)  == Next1(args, "uint16")
NextUInt64(args)  == Next1(args, "uint64")

Valid(got, values) == IF got # Failure /\ got.value \in values THEN got ELSE Failure

NextGKeysID(args)  == Valid(NextByte(args), GKeyID_INV + 1 .. GKeyID_MAX)
NextMKeysID(args)  == Valid(NextByte(args), 0 .. MKeyID_MAX)
NextGKBinary(args) == Valid(NextByte(args), GK_INVALID + 1 .. GK_GUI_QT)
NextKeyEventValue(args) == Valid(NextByte(args), 0 .. EVENT_KEY_UNKNOWN)

NextString(args) ==
  LET size == NextUInt64(args)
  IN IF size = Failure \/ size.value = 0 THEN size ELSE Next1(size.rest, "string")

(* Takes the strings, and leaves their sizes: it must be the last argument. *)
NextStringArray(args) ==
  LET size == NextUInt64(args)
      strings == size.rest["string"]
  IN IF size = Failure \/ size.value > Len(strings) THEN Failure
     ELSE Got(SubSeq(strings, 1, size.value),
              [size.rest EXCEPT !["string"] = SubSeq(@, size.value + 1, Len(@))])

NextSimple(type, args) ==
  CASE type = "b" -> NextBoolean(args)
    [] type = "y" -> NextByte(args)
    [] type = "q" -> NextUInt16(args)
    [] type = "t" -> NextUInt64(args)
    [] type = "s" -> NextString(args)
    [] type = "G" -> NextGKeysID(args)
    [] type = "m" -> NextMKeysID(args)
    [] type = "B" -> NextGKBinary(args)
    [] type = "e" -> NextKeyEventValue(args)

(* Op(value); TLC evaluates the value once. *)
Once(Op(_), value) == CHOOSE result \in {Op(v) : v \in {value}} : TRUE

(* n values, one after the other; the first that throws ends it.          *)
InTurn(n, Next(_, _), args) ==
  LET Add(got, next) ==
        IF next = Failure THEN Failure ELSE Got(Append(got.value, next.value), next.rest)
      Read(i, got) ==
        IF got = Failure THEN Failure ELSE Once(LAMBDA next : Add(got, next), Next(i, got.rest))
      after[i \in 0 .. n] ==
        IF i = 0 THEN Got(<<>>, args) ELSE Once(LAMBDA got : Read(i, got), after[i - 1])
  IN after[n]

NextFields(types, args) ==
  InTurn(Len(types), LAMBDA i, rest : NextSimple(types[i], rest), args)

(* n structures with these fields. *)
NextStructs(fields, n, args) ==
  InTurn(n, LAMBDA i, rest : NextFields(fields, rest), args)

NextGKeysIDArray(args) ==
  LET size == NextByte(args)
  IN IF size = Failure THEN Failure
     ELSE NextFields([i \in 1 .. size.value |-> "G"], size.rest)

NextMKeysIDArray(args) ==
  LET size == NextByte(args)
  IN IF size = Failure THEN Failure
     ELSE NextFields([i \in 1 .. size.value |-> "m"], size.rest)

(* Reads one event at least, then until no byte is left. *)
NextMacro(args) ==
  LET bytes == Len(args["byte"])
  IN NextStructs(<<"y", "e", "q">>, IF bytes = 0 THEN 1 ELSE (bytes + 1) \div 2, args)

NextLCDPPArray(args) ==
  LET size == NextUInt64(args)
  IN IF size = Failure THEN Failure ELSE NextStructs(<<"t", "s", "s">>, size.value, size.rest)

NextGKBinaryDeps(args) ==
  LET head == NextFields(<<"B", "t">>, args)
      deps == NextStructs(<<"s", "s", "s">>, head.value[2], head.rest)
  IN IF head = Failure \/ deps = Failure THEN Failure
     ELSE Got(<<head.value[1], deps.value>>, deps.rest)

NextGKBinaries(n, args) ==
  InTurn(n, LAMBDA i, rest : NextGKBinaryDeps(rest), args)

NextGKDepsMap(args) ==
  LET size == NextUInt64(args)
  IN IF size = Failure THEN Failure ELSE NextGKBinaries(size.value, size.rest)

(* A string array, by groups of a device and its properties. *)
NextDevicesMap(args) ==
  LET list == NextStringArray(args)
      size == DevicePropertiesPlusID
  IN IF list = Failure \/ Len(list.value) % size # 0 THEN Failure
     ELSE Got([i \in 1 .. Len(list.value) \div size |->
                 SubSeq(list.value, (i - 1) * size + 1, i * size)], list.rest)

NextArgument(type, args) ==
  CASE type = "as" -> NextStringArray(args)
    [] type = "aG" -> NextGKeysIDArray(args)
    [] type = "am" -> NextMKeysIDArray(args)
    [] type = "M"  -> NextMacro(args)
    [] type = "aP" -> NextLCDPPArray(args)
    [] type = "D"  -> NextGKDepsMap(args)
    [] type = "devices" -> NextDevicesMap(args)
    [] OTHER -> NextSimple(type, args)

NextArguments(types, args) ==
  InTurn(Len(types), LAMBDA i, rest : NextArgument(types[i], rest), args)

-----------------------------------------------------------------------------
(* Signatures: the arguments runCallback() reads before it calls, in this  *)
(* order, and the value it appends to the reply.                           *)

Signature(in, out) == [in |-> in, out |-> out]

SIGv2v   == Signature(<<>>, <<>>)
SIGb2v   == Signature(<<"b">>, <<>>)
SIGq2v   == Signature(<<"q">>, <<>>)
SIGs2v   == Signature(<<"s">>, <<>>)
SIGas2v  == Signature(<<"as">>, <<>>)
SIGss2v  == Signature(<<"s", "s">>, <<>>)
SIGsm2v  == Signature(<<"s", "m">>, <<"b">>)
SIGsG2v  == Signature(<<"s", "G">>, <<>>)
SIGsGM2v == Signature(<<"s", "G", "M">>, <<>>)
SIGs2b   == Signature(<<"s">>, <<"b">>)
SIGs2s   == Signature(<<"s">>, <<"s">>)
SIGs2as  == Signature(<<"s">>, <<"as">>)
SIGs2D   == Signature(<<"s">>, <<"D">>)
SIGss2b  == Signature(<<"s", "s">>, <<"b">>)
SIGss2s  == Signature(<<"s", "s">>, <<"s">>)
SIGss2aG == Signature(<<"s", "s">>, <<"aG">>)
SIGss2am == Signature(<<"s", "s">>, <<"am">>)
SIGss2aP == Signature(<<"s", "s">>, <<"aP">>)
SIGssyt2b   == Signature(<<"s", "s", "y", "t">>, <<"b">>)
SIGssyyy2b  == Signature(<<"s", "s", "y", "y", "y">>, <<"b">>)

Methods == {SIGs2b, SIGs2s, SIGs2as, SIGs2D, SIGss2b, SIGss2s, SIGss2v,
            SIGss2aG, SIGss2am, SIGss2aP, SIGssyt2b, SIGssyyy2b}

Signals == {SIGv2v, SIGb2v, SIGq2v, SIGs2v, SIGas2v, SIGss2v, SIGsm2v, SIGsG2v, SIGsGM2v}
-----------------------------------------------------------------------------
(* What the programs send, by type: keys of a keyboard, of which there are *)
(* fewer than 256, recorded macros, which have events, arrays of           *)
(* identifiers and names, which are not empty strings, and a map of        *)
(* dependencies as its pairs.                                              *)
Bytes == 0 .. UINT8_MAX

Values(type) ==
  CASE type = "b"  -> BOOLEAN
    [] type = "y"  -> Bytes
    [] type = "q"  -> 0 .. UINT16_MAX
    [] type = "t"  -> Nat
    [] type = "s"  -> Nat
    [] type = "as" -> Seq(Nat \ {0})
    [] type = "G"  -> GKeyID_INV + 1 .. GKeyID_MAX
    [] type = "m"  -> 0 .. MKeyID_MAX
    [] type = "aG" -> {a \in Seq(GKeyID_INV + 1 .. GKeyID_MAX) : Len(a) \in Bytes}
    [] type = "am" -> {a \in Seq(0 .. MKeyID_MAX) : Len(a) \in Bytes}
    [] type = "M"  -> Seq(Bytes \X (0 .. EVENT_KEY_UNKNOWN) \X (0 .. UINT16_MAX)) \ {<<>>}
    [] type = "aP" -> Seq(Nat \X Nat \X Nat)
    [] type = "D"  ->
         {deps \in Seq((GK_INVALID + 1 .. GK_GUI_QT) \X Seq(Nat \X Nat \X Nat)) :
            \A i, j \in DOMAIN deps : deps[i][1] = deps[j][1] => i = j}

Types == {"b", "y", "q", "t", "s", "as", "G", "m", "aG", "am", "M", "aP", "D"}
=============================================================================
