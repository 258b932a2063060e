----------------------------- MODULE MCCommands -----------------------------
(***************************************************************************)
(* Bodies for Commands, and what they mean: the encoding of a command or   *)
(* of metadata, right or wrong, as it is, cut short, or with one byte      *)
(* changed.                                                                *)
(***************************************************************************)
EXTENDS Commands, SequencesExt

CONSTANTS MaxProps,  \* bound: properties of an object
          Changed    \* the values a changed byte may have

ASSUME MCCommandsAssumption ==
    /\ MaxProps \in Nat
    /\ Changed \subseteq 0..255

-----------------------------------------------------------------------------
(* Commands and their encoding.                                            *)

StrictArray == 10

V(t, v, props) == [t |-> t, v |-> v, props |-> props]
Num(n) == V(Number, n, <<>>)
Str(name) == V(String, name, <<>>)
Obj(props) == V(Object, 0, props)
Plain(t) == V(t, 0, <<>>)
Prop(key, value) == [key |-> key, value |-> value]

KeyBytes(key) == <<0, 1, key>>

RECURSIVE Enc(_)
PropBytes(props) ==
    FlattenSeq([i \in DOMAIN props |-> KeyBytes(props[i].key) \o Enc(props[i].value)])
        \o <<0, 0, ObjectEnd>>
Enc(value) ==
    <<value.t>> \o
    CASE value.t = Number -> Payload(value.v)
      [] value.t = Bool -> <<1>>
      [] value.t = String -> KeyBytes(value.v)
      [] value.t = Object -> PropBytes(value.props)
      [] value.t = EcmaArray -> <<0, 0, 0, Len(value.props)>> \o PropBytes(value.props)
      [] value.t = StrictArray -> <<0, 0, 0, 0>>
      [] value.t \in {Null, Undefined} -> <<>>

Nested == {Obj(<<>>), Obj(<<Prop(Name, Plain(StrictArray))>>),
           Obj(<<Prop(Name, Obj(<<Prop(Rate, Num(1))>>)), Prop(Rate, Str(Name))>>)}
Values == {Num(1), Plain(Bool), Str(Name), Plain(Null), Plain(Undefined), Plain(StrictArray)}
              \union Nested
Props == UNION {[1..n -> [key : {Name, Flag, Rate, Codec, Unknown}, value : Values]]
                  : n \in 0..MaxProps}

Command(name, args) == [name |-> name, args |-> args]
Sent ==
    {Command(connect, <<Num(n), a>>) : n \in {1, 2}, a \in {Obj(p) : p \in Props}}
    \union {Command(connect, <<Num(1), a>>) : a \in Values}
    \union {Command(name, <<Num(2), a, Str(Name)>>) : name \in {releaseStream, FCPublish}, a \in Values}
    \union {Command(createStream, <<Num(2), a>>) : a \in Values}
    \union {Command(publish, <<Num(2), a, Str(Name), Str(Flag)>>) : a \in Values}
    \union {Command(setDataFrame, <<a, V(t, 0, p)>>) :
              a \in {Str(onMetaData)}, t \in {Object, EcmaArray}, p \in Props}
    \union {Command(setDataFrame, <<Str(other), Obj(<<>>)>>)}
    \union {Command(name, <<Num(2)>>) : name \in {other, publish, releaseStream}}

Bytes(c) == FlattenSeq([i \in 1..Len(c.args) + 1 |->
                           IF i = 1 THEN Enc(Str(c.name)) ELSE Enc(c.args[i - 1])])

\* The encodings that may be damaged: of objects with at most one property.
Fragile(c) == \A i \in DOMAIN c.args : Len(c.args[i].props) <= 1

\* As it is; without its bytes from the i-th on; or with b there.
Longest == Max({Len(Bytes(c)) : c \in {c \in Sent : Fragile(c)}})
Damages ==
    [how : {"none"}, at : {0}, by : {0}] \union [how : {"cut"}, at : 1..Longest, by : {0}]
        \union [how : {"changed"}, at : 1..Longest, by : Changed]
Possible(c, d) == d.how # "none" => Fragile(c) /\ d.at <= Len(Bytes(c))

Damaged(body, d) ==
    CASE d.how = "none" -> body
      [] d.how = "cut" -> SubSeq(body, 1, d.at - 1)
      [] d.how = "changed" -> [body EXCEPT ![d.at] = d.by]

Input(c, d) == [command |-> c, damage |-> d.how, body |-> Damaged(Bytes(c), d),
                data |-> c.name = setDataFrame]

Bodies == {Input(x[1], x[2]) : x \in {x \in Sent \X Damages : Possible(x[1], x[2])}}

-----------------------------------------------------------------------------
(* What a command means, from the command rather than from its bytes.      *)

\* What AMF0Parser is able to skip.
RECURSIVE Skips(_)
Skips(value) ==
    /\ value.t \notin {EcmaArray, StrictArray}
    /\ \A i \in DOMAIN value.props : Skips(value.props[i].value)
SkipOutcome(value) == IF Skips(value) THEN "ok" ELSE "terminated"

TypeOf(want) == CASE want = "string" -> String [] want = "number" -> Number [] want = "bool" -> Bool

\* The first property that is wrong decides.
PropOutcome(p) ==
    LET want == Wanted(p.key, p.value.t)
    IN  IF want = "any" THEN SkipOutcome(p.value)
        ELSE IF p.value.t = TypeOf(want) THEN "ok" ELSE "bad"
Right(props) == SelectInSeq(props, LAMBDA p : PropOutcome(p) # "ok")
PropsOutcome(props) == IF Right(props) = 0 THEN "ok" ELSE PropOutcome(props[Right(props)])

Content(value) ==
    CASE value.t = String -> <<value.v>> [] value.t = Number -> Payload(value.v)
      [] value.t = Bool -> <<1>>
Field(key, value) == [key |-> key, value |-> Content(value)]
PropFields(props) ==
    LET good == IF Right(props) = 0 THEN props ELSE SubSeq(props, 1, Right(props) - 1)
        kept == SelectSeq(good, LAMBDA p : Wanted(p.key, p.value.t) # "any")
    IN  [i \in DOMAIN kept |-> Field(kept[i].key, kept[i].value)]

Meaning(how, what) == [outcome |-> how, fields |-> what]
Meant(c) ==
    LET arg == c.args
        id == Field(1, arg[1])
        object == arg[2].t = Object
        none == object \/ arg[2].t = Null
        skipped == IF object THEN SkipOutcome(arg[2]) ELSE "ok"
    IN  CASE c.name = other -> Meaning("unsupported", <<>>)
          [] c.name = connect ->
               IF arg[1] # Num(1) \/ ~object THEN Meaning("bad", <<>>)
               ELSE Meaning(PropsOutcome(arg[2].props), PropFields(arg[2].props))
          [] c.name = setDataFrame ->
               IF arg[1] # Str(onMetaData) THEN Meaning("bad", <<>>)
               ELSE Meaning(PropsOutcome(arg[2].props), PropFields(arg[2].props))
          [] OTHER ->
               IF Len(arg) = 1 THEN Meaning("bad", <<id>>)
               ELSE IF c.name = createStream THEN Meaning(skipped, <<id>>)
               ELSE IF c.name = publish
                 THEN Meaning(IF arg[2].t = Null THEN "ok" ELSE "bad",
                              <<id, Field(2, arg[3]), Field(3, arg[4])>>)
               ELSE IF none THEN Meaning(skipped, <<id, Field(2, arg[3])>>)
               ELSE IF arg[2].t = String THEN Meaning("ok", <<id, Field(2, arg[2])>>)
               ELSE Meaning("bad", <<id>>)

(* A command that arrives as it was sent is decoded to the values it was   *)
(* made of, or refused for the first thing wrong with it, whatever is      *)
(* nested in what is skipped (amf0.cpp:126-175, rtmpparser.cpp:470-966).   *)
Decoded ==
    input.damage = "none" /\ outcome # "running" =>
        /\ outcome = Meant(input.command).outcome
        /\ outcome = "ok" => fields = Meant(input.command).fields

\* An argument that is neither skipped nor read when the ones needed are there.
Unread(c) ==
    \/ c.name = createStream /\ c.args[2].t \notin {Null, Object}
    \/ c.name \in {releaseStream, FCPublish} /\ c.args[2].t = String

(* A command that is cut short is not taken for a shorter one: only the    *)
(* objects of connect and of metadata may lack their end                   *)
(* (rtmpparser.cpp:699, 820), and then what was decoded is the beginning   *)
(* of what was sent; a cut elsewhere is in something that is never read.   *)
CutIsRefused ==
    input.damage = "cut" /\ outcome = "ok" =>
        \/ /\ input.command.name \in {connect, setDataFrame}
           /\ IsPrefix(fields, Meant(input.command).fields)
        \/ /\ Unread(input.command)
           /\ fields = Meant(input.command).fields

(* An exception that ends the process comes from a value nobody can skip,  *)
(* or from a body that ends within two bytes of a 0, where the end of an   *)
(* object is looked for (readbuffer.h:93-107, amf0.cpp:95-112, 146-152).   *)
Survives ==
    outcome = "terminated" /\ input.damage # "changed" =>
        \/ Meant(input.command).outcome = "terminated"
        \/ /\ input.damage = "cut"
           /\ \E i \in DOMAIN input.body : i >= Len(input.body) - 1 /\ input.body[i] = 0
=============================================================================
