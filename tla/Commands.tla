------------------------------ MODULE Commands ------------------------------
(***************************************************************************)
(* How RtmpParser decodes the body of a command or of metadata with        *)
(* AMF0Parser (amf0.cpp:1-175, rtmpparser.cpp:382-966), byte by byte.  One *)
(* call of AMF0Parser is one step; the calls still to be made are todo, so *)
(* that an object inside another is skipped by calls put in front.         *)
(*                                                                         *)
(* A body is any sequence of bytes.  A name is one byte; one key stands    *)
(* for all keys that want a value of the same type.                        *)
(***************************************************************************)
EXTENDS Integers, Sequences

CONSTANTS NumSize,   \* bytes of a number behind its type (8)
          Inputs     \* what may arrive: a body, and whether its message is a
                     \* data message instead of a command

ASSUME CommandsAssumption ==
    /\ NumSize \in Nat \ {0}
    /\ \A x \in Inputs : x.body \in Seq(0..255) /\ x.data \in BOOLEAN

VARIABLES
    input,    \* what arrived
    rest,     \* the unread bytes of readBuffer
    todo,     \* the calls to be made
    fields,   \* what was decoded, in order
    outcome   \* "running"; "ok"; "bad", "unsupported" or "ignored"; and
              \* "terminated" by an exception that handleRead() does not catch

vars == <<input, rest, todo, fields, outcome>>

-----------------------------------------------------------------------------
(* Types, names and keys.                                                  *)

Number == 0  Bool == 1  String == 2  Object == 3  Null == 5  Undefined == 6
EcmaArray == 8  ObjectEnd == 9

connect == 110  releaseStream == 111  FCPublish == 112  createStream == 113
publish == 114  setDataFrame == 115  onMetaData == 116  other == 117

\* Keys: of a string, a boolean, a number, a codec id, and one nobody knows.
Name == 101  Flag == 102  Rate == 103  Codec == 104  Unknown == 105

Payload(n) == [i \in 1..NumSize |-> n]

-----------------------------------------------------------------------------
(* The calls: what to parse, the key it is for, and whether an object is   *)
(* the one parsed by parseConnectCmd() or parseMetaData().                 *)

Call(op, key, top) == [op |-> op, key |-> key, top |-> top]
NoKey == 0
Parse(op) == Call(op, NoKey, FALSE)
Arg(op, key) == Call(op, key, TRUE)

Init ==
    /\ input \in Inputs
    /\ rest = input.body
    /\ todo = <<Parse("name")>>
    /\ fields = <<>>
    /\ outcome = "running"

End(how) ==
    /\ outcome' = how
    /\ UNCHANGED <<input, rest, todo, fields>>

\* n bytes are read; calls come before those still to be made.
Go(n, calls) ==
    /\ rest' = SubSeq(rest, n + 1, Len(rest))
    /\ todo' = calls \o Tail(todo)
    /\ UNCHANGED <<input, outcome>>

\* Mutant of Keep: what is skipped is stored as well.
KeepSkipped(value) == fields' = Append(fields, [key |-> todo[1].key, value |-> value])

Keep(value) ==
    fields' = IF todo[1].key = NoKey THEN fields
              ELSE Append(fields, [key |-> todo[1].key, value |-> value])

Pending(ops) == outcome = "running" /\ todo # <<>> /\ todo[1].op \in ops

-----------------------------------------------------------------------------
(* AMF0Parser.  RtmpNoEnoughData and RtmpInvalidAMFData both become "bad". *)

Type == IF rest = <<>> THEN -1 ELSE rest[1]

\* A length at the i-th byte, and what it is the length of, as a C string.
TextLength(i) == 256 * rest[i] + rest[i + 1]
TextThere(i) == Len(rest) >= i + 1 /\ Len(rest) >= i + 1 + TextLength(i)
Nul(s) == CHOOSE i \in 1..Len(s) + 1 :
              /\ i = Len(s) + 1 \/ s[i] = 0
              /\ \A j \in 1..i - 1 : s[j] # 0
UpToNul(s) == SubSeq(s, 1, Nul(s) - 1)
Text(i) == UpToNul(SubSeq(rest, i + 2, i + 1 + TextLength(i)))
AsName(text) == IF Len(text) = 1 THEN text[1] ELSE other

\* peekAMF0Cmd() or peekAMF0DataType(), then the decoder, which reads the
\* name again.
Program(name) ==
    CASE name \in {releaseStream, FCPublish} ->
           <<Arg("number", 1), Parse("nullOrObject"), Arg("string", 2)>>
      [] name = createStream -> <<Arg("number", 1), Parse("nullOrObject")>>
      [] name = publish -> <<Arg("number", 1), Parse("null"), Arg("string", 2), Arg("string", 3)>>
      [] name = connect -> <<Parse("one"), Parse("object")>>
      [] name = setDataFrame -> <<Parse("onMetaData"), Parse("objectOrArray")>>

IsData == input.data
Known(name) ==
    name \in IF IsData THEN {setDataFrame}
             ELSE {connect, releaseStream, FCPublish, createStream, publish}

peekName ==
    /\ Pending({"name"})
    /\ IF Type # String \/ ~TextThere(2) THEN End("bad")
       ELSE IF ~Known(AsName(Text(2))) THEN End(IF IsData THEN "ignored" ELSE "unsupported")
       ELSE Go(3 + TextLength(2), Program(AsName(Text(2)))) /\ UNCHANGED fields

parseAsString ==
    /\ Pending({"string", "onMetaData"})
    /\ IF \/ Type # String \/ ~TextThere(2)
          \/ todo[1].op = "onMetaData" /\ Text(2) # <<onMetaData>>
          THEN End("bad")
          ELSE Go(3 + TextLength(2), <<>>) /\ Keep(Text(2))

\* "transactionId is not 1 in connect"
parseAsNumber ==
    /\ Pending({"number", "one"})
    /\ IF \/ Type # Number \/ Len(rest) < 1 + NumSize
          \/ todo[1].op = "one" /\ SubSeq(rest, 2, 1 + NumSize) # Payload(1)
          THEN End("bad")
          ELSE Go(1 + NumSize, <<>>) /\ Keep(SubSeq(rest, 2, 1 + NumSize))

parseAsBool ==
    /\ Pending({"bool"})
    /\ IF Type # Bool \/ Len(rest) < 2 THEN End("bad")
       ELSE Go(2, <<>>) /\ Keep(<<IF rest[2] = 0 THEN 0 ELSE 1>>)

\* parseNull(), parseUndefined().
parseNull ==
    /\ Pending({"null", "undefined"})
    /\ IF Type # (IF todo[1].op = "null" THEN Null ELSE Undefined) THEN End("bad")
       ELSE Go(1, <<>>) /\ UNCHANGED fields

\* "skip the object, we do not care"; anything else is left to the next call.
nullOrObject ==
    /\ Pending({"nullOrObject"})
    /\ IF Type = -1 THEN End("bad")
       ELSE /\ Go(0, CASE Type = Null -> <<Parse("null")>>
                       [] Type = Object -> <<Parse("skipObject")>>
                       [] OTHER -> <<>>)
            /\ UNCHANGED fields

\* skipObjectStart(), skipEcmaArrayStart().
startObject ==
    /\ Pending({"object", "objectOrArray", "skipObject"})
    /\ LET size == IF Type = EcmaArray THEN 5 ELSE 1
           types == {Object} \union IF todo[1].op = "objectOrArray" THEN {EcmaArray} ELSE {}
       IN  IF Type \notin types \/ Len(rest) < size THEN End("bad")
           ELSE Go(size, <<Call("key", NoKey, todo[1].op # "skipObject")>>) /\ UNCHANGED fields

Sliced == -2

\* getNextType(true).  9 itself is ObjectEnd as well; peek() of three bytes
\* throws a std::exception, no RtmpNoEnoughData, when there are fewer.
NextType ==
    IF Type # 0 THEN Type
    ELSE IF Len(rest) < 3 THEN Sliced
    ELSE IF SubSeq(rest, 2, 3) = <<0, ObjectEnd>> THEN ObjectEnd
    ELSE Number

\* What the value of a key must be; "any" is skipped.
Wanted(key, t) ==
    CASE key = Name -> "string"
      [] key = Rate -> "number"
      [] key = Flag /\ ~IsData -> "bool"
      [] key = Codec /\ IsData -> IF t = Number THEN "number" ELSE "string"
      [] OTHER -> "any"

\* AMF0Parser::skip().
SkipCall(t) ==
    CASE t = Number -> "number" [] t = Bool -> "bool" [] t = String -> "string"
      [] t = Object -> "skipObject" [] t = Null -> "null" [] t = Undefined -> "undefined"

\* Mutant of Skippable: a case is missing in the switch.
NoUndefined == {Number, Bool, String, Object, Null}

Skippable == {Number, Bool, String, Object, Null, Undefined}

\* Mutant of Turn: a value is followed by another value.
NoTurn(top) == Call("value", Unknown, top)

\* parsingKey = !parsingKey, after a value.
Turn(top) == Call("key", NoKey, top)

parseKey(top) ==
    IF ~TextThere(1) THEN End("bad")
    ELSE Go(2 + TextLength(1), <<Call("value", AsName(Text(1)), top)>>) /\ UNCHANGED fields

parseValue(key, top) ==
    LET op == IF top THEN Wanted(key, Type) ELSE "any"
    IN  IF op # "any" THEN Go(0, <<Arg(op, key), Turn(top)>>) /\ UNCHANGED fields
        ELSE IF Type \notin Skippable THEN End("terminated")
        ELSE Go(0, <<Parse(SkipCall(Type)), Turn(top)>>) /\ UNCHANGED fields

\* Mutant of MayFinish: an object inside another may also lack its end.
EveryMayFinish(top) == TRUE

\* isFinished(), which skipObject() does not ask.
MayFinish(top) == top

\* One turn of the loop over an object's properties.
property ==
    /\ Pending({"key", "value"})
    /\ LET top == todo[1].top IN
       CASE rest = <<>> /\ MayFinish(top) -> Go(0, <<>>) /\ UNCHANGED fields
         [] rest = <<>> /\ ~MayFinish(top) -> End("bad")
         [] rest # <<>> /\ NextType = Sliced -> End("terminated")
         [] rest # <<>> /\ NextType = ObjectEnd ->
              IF Len(rest) < 3 THEN End("bad") ELSE Go(3, <<>>) /\ UNCHANGED fields
         [] rest # <<>> /\ NextType \notin {Sliced, ObjectEnd} ->
              IF todo[1].op = "key" THEN parseKey(top) ELSE parseValue(todo[1].key, top)

done ==
    /\ outcome = "running" /\ todo = <<>>
    /\ End("ok")

over == outcome # "running" /\ UNCHANGED vars

Next ==
    \/ peekName \/ parseAsString \/ parseAsNumber \/ parseAsBool \/ parseNull
    \/ nullOrObject \/ startObject \/ property \/ done \/ over

Spec == Init /\ [][Next]_vars

-----------------------------------------------------------------------------
TypeOK ==
    /\ input.body \in Seq(0..255) /\ input.data \in BOOLEAN
    /\ Len(rest) <= Len(input.body)
    /\ rest = SubSeq(input.body, Len(input.body) - Len(rest) + 1, Len(input.body))
    /\ \A i \in DOMAIN fields :
          /\ fields[i].key \in (1..3) \union {Name, Flag, Rate, Codec}
          /\ \A j \in DOMAIN fields[i].value : fields[i].value[j] \in 0..255
    /\ outcome \in {"running", "ok", "bad", "unsupported", "ignored", "terminated"}

-----------------------------------------------------------------------------
(* The grammar of bodies: where something that begins behind the i-th byte *)
(* of s may end.                                                           *)

At(s, i) == IF i < Len(s) THEN s[i + 1] ELSE -1
Inside(s, j) == IF j <= Len(s) THEN {j} ELSE {}

TextEnd(s, i) == IF i + 2 <= Len(s) THEN Inside(s, i + 2 + 256 * s[i + 1] + s[i + 2]) ELSE {}
StringEnd(s, i) == IF At(s, i) = String THEN TextEnd(s, i + 1) ELSE {}
NumberEnd(s, i) == IF At(s, i) = Number THEN Inside(s, i + 1 + NumSize) ELSE {}
BoolEnd(s, i) == IF At(s, i) = Bool THEN Inside(s, i + 2) ELSE {}
MarkEnd(s, i, type) == IF At(s, i) = type THEN {i + 1} ELSE {}

\* The end of an object: 9 may stand where its two zeros do.
EndMark(s, i) ==
    IF i + 3 <= Len(s) /\ (s[i + 1] = ObjectEnd \/ SubSeq(s, i + 1, i + 3) = <<0, 0, ObjectEnd>>)
       THEN {i + 3} ELSE {}

\* A place in an object: where a key or a value is next; an open object may
\* lack its end.
Place(open, turn, at) == [open |-> open, turn |-> turn, at |-> at]
Places(s) == [open : BOOLEAN, turn : {"key", "value"}, at : 0..Len(s)]

\* Where a value may end, given where objects do.
ValueEnd(s, ends, i) ==
    StringEnd(s, i) \union NumberEnd(s, i) \union BoolEnd(s, i)
        \union MarkEnd(s, i, Null) \union MarkEnd(s, i, Undefined)
        \union IF At(s, i) = Object THEN ends[Place(FALSE, "key", i + 1)] ELSE {}

\* The same for an object, from a place in it.
Beyond(s, ends, p) ==
    (IF p.open /\ p.at = Len(s) THEN {p.at} ELSE EndMark(s, p.at))
    \union IF p.turn = "key"
             THEN UNION {ends[Place(p.open, "value", j)] : j \in TextEnd(s, p.at)}
             ELSE UNION {ends[Place(p.open, "key", j)] : j \in ValueEnd(s, ends, p.at)}

Ends(s) == LET ends[p \in Places(s)] == Beyond(s, ends, p) IN ends

\* An object that is skipped; and one with arguments, or metadata.
ClosedEnd(s, i) == IF At(s, i) = Object THEN Ends(s)[Place(FALSE, "key", i + 1)] ELSE {}
OpenEnd(s, i) == IF At(s, i) = Object THEN Ends(s)[Place(TRUE, "key", i + 1)] ELSE {}
ArrayEnd(s, i) ==
    IF At(s, i) = EcmaArray /\ i + 5 <= Len(s) THEN Ends(s)[Place(TRUE, "key", i + 5)] ELSE {}

After(what, s, i) ==
    CASE what = "string" -> StringEnd(s, i)
      [] what = "number" -> NumberEnd(s, i)
      [] what = "null" -> MarkEnd(s, i, Null)
      [] what = "skipped" -> {i} \union MarkEnd(s, i, Null) \union ClosedEnd(s, i)
      [] what = "object" -> OpenEnd(s, i)
      [] what = "objectOrArray" -> OpenEnd(s, i) \union ArrayEnd(s, i)

Then(starts, what, s) == UNION {After(what, s, i) : i \in starts}

\* A body of a command, or of metadata, that begins with this name.
Form(name, s) ==
    LET named == Then({0}, "string", s)
        numbered == Then(named, "number", s)
    IN  CASE name = connect -> Then(numbered, "object", s)
          [] name = setDataFrame -> Then(Then(named, "string", s), "objectOrArray", s)
          [] name = createStream -> Then(numbered, "skipped", s)
          [] name = publish ->
               Then(Then(Then(numbered, "null", s), "string", s), "string", s)
          [] name \in {releaseStream, FCPublish} ->
               Then(Then(numbered, "skipped", s), "string", s)

\* The name a body begins with.
NameOf(s) == AsName(UpToNul(SubSeq(s, 4, 3 + 256 * s[2] + s[3])))

(* What is accepted, damaged or not, has the form of the command, and is   *)
(* read exactly to an end of it: however objects are nested, skipping one  *)
(* ends where it ends (amf0.cpp:154-175).                                  *)
AcceptedHasForm ==
    outcome = "ok" => Len(input.body) - Len(rest) \in Form(NameOf(input.body), input.body)
=============================================================================
