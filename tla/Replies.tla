------------------------------- MODULE Replies -------------------------------
(***************************************************************************)
(* The documents a firmware answers with and the objects made of them      *)
(* (src/util/serial.cpp): a getter reads a document, to_string writes one, *)
(* which may be read again.                                                *)
(*                                                                         *)
(* A number is the number; a word is its first letter.                     *)
(***************************************************************************)
EXTENDS Integers

CONSTANTS
    Documents,   \* Documents[class]: what the firmware may answer
    MaxUInt,     \* the greatest unsigned int ...
    MaxInt64     \* ... and int64_t

\* JSON.
Json(kind, n) == [kind |-> kind, n |-> n]
Null == Json("null", 0)
Number(n) == Json("number", n)
Word(letter) == Json("word", letter)
Bool(b) == Json("bool", IF b THEN 1 ELSE 0)
List == Json("list", 0)
Values == [kind : {"null", "number", "word", "bool", "list"}, n : Int]

\* Letters, by their codes; 0 for no letter.  One stands for all digits.
Letter == [none |-> 0, digit |-> 48, b |-> 98, f |-> 102, o |-> 111, p |-> 112, t |-> 116]

\* A document: what its root is, and the values of an object's keys.
Document(root, keys) == [root |-> root, keys |-> keys]
At(doc, key) == IF key \in DOMAIN doc.keys THEN doc.keys[key] ELSE Null

VARIABLES
    class,   \* what the getter returns
    step,    \* "reply", "read", "written", "again", or "terminated"
    doc,     \* the document read or written last
    object,  \* what the getter has returned, each member as a JSON value
    again    \* what is made of to_string's document

replyVars == <<class, step, doc, object, again>>
------------------------------------------------------------------------------
(* Mistakes one could make in the definitions below: what the properties   *)
(* must notice.  No behaviour of ReplySpec uses them.                      *)

\* No test of the range.
ReadStateUnchecked(v) == IF v.kind \in {"number", "bool"} THEN Number(v.n) ELSE Number(-1)

\* The number written for a mode, not its letter.
PrintedModeAsNumber(type, value) ==
    CASE type = "double or null" /\ value.n = 0 -> Null
      [] type = "word or null" /\ value.n = 0 -> Null
      [] type = "mode" -> IF value.n = 0 THEN Null ELSE Number(value.n)
      [] type = "state" /\ value.n = -1 -> Null
      [] type = "flag" -> Number(value.n)
      [] OTHER -> value
------------------------------------------------------------------------------
(* Conversions of jsoncpp: the value, or nothing for an exception.         *)

AsDouble(v) == IF v.kind \in {"null", "number", "bool"} THEN {Number(v.n)} ELSE {}
AsInt64(v) == {d \in AsDouble(v) : d.n \in -MaxInt64 - 1..MaxInt64}
AsString(v) ==
    CASE v.kind = "null" -> {Word(Letter.none)}
      [] v.kind = "word" -> {v}
      [] v.kind = "number" -> {Word(Letter.digit)}
      [] v.kind = "bool" -> {Word(IF v.n = 1 THEN Letter.t ELSE Letter.f)}
      [] OTHER -> {}
AsUInt(v) == {d \in AsDouble(v) : d.n \in 0..MaxUInt}
AsBool(v) == {Bool(d.n # 0) : d \in AsDouble(v)}

\* Temperatures::State: 0..9, or Null.
ReadState(v) ==
    IF v.kind \in {"number", "bool"} /\ v.n \in 0..9 THEN Number(v.n) ELSE Number(-1)

\* ControlSettings::Mode: the first letter, if it is one of a mode.
Modes == {Letter.b, Letter.p, Letter.f, Letter.o, Letter.t}
ReadMode(w) == IF w.n \in Modes THEN w ELSE Word(Letter.none)

\* filter_t has eight bits.
Converted(type, v) ==
    CASE type \in {"double", "double or null"} -> AsDouble(v)
      [] type = "time" -> AsInt64(v)
      [] type = "word or null" -> AsString(v)
      [] type = "filter" -> {Number(d.n % 256) : d \in AsUInt(v)}
      [] type = "flag" -> AsBool(v)
      [] type = "state" -> {ReadState(v)}
      [] type = "mode" -> {ReadMode(w) : w \in AsString(v)}
      [] type \in {"any", "any or false", "any or empty"} -> {v}

\* set_if, set_if_not_empty and plain assignment.
Printed(type, value) ==
    CASE type = "double or null" /\ value.n = 0 -> Null
      [] type = "word or null" /\ value.n = 0 -> Null
      [] type = "mode" /\ value.n = 0 -> Null
      [] type = "state" /\ value.n = -1 -> Null
      [] type = "flag" -> Number(value.n)
      [] OTHER -> value
------------------------------------------------------------------------------
(* The members: the keys they are looked for under, and the one they are   *)
(* written under, if any.                                                  *)

Field(compact, key, type) == [compact |-> compact, key |-> key, type |-> type, written |-> TRUE]
Plain(keys, type) == [key \in keys |-> Field(key, key, type)]
\* Members beside others.
f \uplus g == [m \in DOMAIN f \cup DOMAIN g |-> IF m \in DOMAIN f THEN f[m] ELSE g[m]]
Unwritten(field) == [field EXCEPT !.written = FALSE]

FwVersionInfo ==
    Plain({"v"}, "any") \uplus Plain({"y"}, "any or false")
    \uplus Plain({"l", "n", "c", "s", "b"}, "any or empty")

Temperatures ==
    [beerReading |-> Field("bt", "BeerTemp", "double or null"),
     beerSetting |-> Field("bs", "BeerSet", "double or null"),
     beerAnnotation |-> Field("ba", "BeerAnn", "word or null"),
     fridgeReading |-> Field("ft", "FridgeTemp", "double or null"),
     fridgeSetting |-> Field("fs", "FridgeSet", "double or null"),
     fridgeAnnotation |-> Field("fa", "FridgeAnn", "word or null"),
     roomTemp |-> Unwritten(Field("rt", "RoomTemp", "double or null")),
     state |-> Field("s", "State", "state")]

ControlSettings ==
    Plain({"beerSet", "fridgeSet", "heatEst", "coolEst"}, "double or null")
    \uplus Plain({"mode"}, "mode")

ControlConstants ==
    Plain({"tempSetMin", "tempSetMax", "iMaxError", "idleRangeH", "idleRangeL",
           "heatTargetH", "heatTargetL", "coolTargetH", "coolTargetL"}, "double")
    \uplus Plain({"maxHeatTimeForEst", "maxCoolTimeForEst"}, "time")
    \uplus Plain({"fridgeFastFilt", "fridgeSlowFilt", "fridgeSlopeFilt",
                  "beerFastFilt", "beerSlowFilt", "beerSlopeFilt"}, "filter")
    \uplus Plain({"lah", "hs"}, "flag")

ControlVariables ==
    Plain({"beerDiff", "diffIntegral", "beerSlope", "p", "i", "d", "estPeak",
           "negPeakEst", "posPeakEst", "negPeak", "posPeak"}, "double")

Fields ==
    [n |-> FwVersionInfo, t |-> Temperatures, s |-> ControlSettings,
     c |-> ControlConstants, v |-> ControlVariables]
Class == DOMAIN Fields

ASSUME DocumentsAssumption ==
    \A c \in Class : \A answer \in Documents[c] :
        \A key \in DOMAIN answer.keys : answer.keys[key] \in Values
\* A filter's 255 is an unsigned int.
ASSUME WidthAssumption == MaxUInt \in Nat /\ MaxUInt >= 255 /\ MaxInt64 \in Nat

\* compact_or_verbose, and Json::Value::get with its default.
Source(d, field) ==
    CASE field.compact \in DOMAIN d.keys -> At(d, field.compact)
      [] field.type = "any or false" /\ field.key \notin DOMAIN d.keys -> Bool(FALSE)
      [] field.type = "any or empty" /\ field.key \notin DOMAIN d.keys -> Word(Letter.none)
      [] OTHER -> At(d, field.key)

\* A key can be looked up in an object and in null.
Readable(c, d) ==
    /\ d.root \in {"object", "null"}
    /\ \A m \in DOMAIN Fields[c] : Converted(Fields[c][m].type, Source(d, Fields[c][m])) # {}
Object(c, d) ==
    [m \in DOMAIN Fields[c] |->
        CHOOSE v \in Converted(Fields[c][m].type, Source(d, Fields[c][m])) : TRUE]

Written(c) == {m \in DOMAIN Fields[c] : Fields[c][m].written}
WrittenDocument(c, o) ==
    LET member(key) == CHOOSE m \in Written(c) : Fields[c][m].key = key IN
    Document("object",
             [key \in {Fields[c][m].key : m \in Written(c)} |->
                 Printed(Fields[c][member(key)].type, o[member(key)])])
------------------------------------------------------------------------------
ReplyInit ==
    /\ class \in Class /\ doc \in Documents[class]
    /\ step = "reply" /\ object = <<>> /\ again = <<>>

Get ==
    /\ step = "reply" /\ Readable(class, doc) /\ step' = "read"
    /\ object' = Object(class, doc)
    /\ UNCHANGED <<class, doc, again>>

\* jsoncpp throws what the exception specifications of the getters leave out.
GetTerminates ==
    /\ step = "reply" /\ ~Readable(class, doc) /\ step' = "terminated"
    /\ UNCHANGED <<class, doc, object, again>>

Write ==
    /\ step = "read" /\ step' = "written"
    /\ doc' = WrittenDocument(class, object)
    /\ UNCHANGED <<class, object, again>>

ReadAgain ==
    /\ step = "written" /\ Readable(class, doc) /\ step' = "again"
    /\ again' = Object(class, doc)
    /\ UNCHANGED <<class, doc, object>>

ReplyNext == Get \/ GetTerminates \/ Write \/ ReadAgain

ReplySpec == ReplyInit /\ [][ReplyNext]_replyVars
------------------------------------------------------------------------------
\* Every variable keeps its type.
ReplyTypeOK ==
    /\ class \in Class /\ step \in {"reply", "read", "written", "again", "terminated"}
    /\ \A key \in DOMAIN doc.keys : doc.keys[key] \in Values
    /\ step \in {"read", "written", "again"} => object \in [DOMAIN Fields[class] -> Values]
    /\ step = "again" => again \in [DOMAIN Fields[class] -> Values]

Holds(type, v) ==
    /\ type \in {"double", "double or null"} => v.kind = "number"
    /\ type = "time" => v.kind = "number" /\ v.n \in -MaxInt64 - 1..MaxInt64
    /\ type = "word or null" => v.kind = "word"
    /\ type = "filter" => v.kind = "number" /\ v.n \in 0..255
    /\ type = "flag" => v.kind = "bool" /\ v.n \in 0..1
    /\ type = "state" => v.kind = "number" /\ v.n \in -1..9
    /\ type = "mode" => v.kind = "word" /\ v.n \in Modes \cup {Letter.none}

\* Whatever a firmware sends, a document that is read leaves in every member a
\* value its C++ type can hold and, in an enumeration, one of those it names.
ReadsInRange ==
    /\ step \in {"read", "written", "again"} =>
           \A m \in DOMAIN object : Holds(Fields[class][m].type, object[m])
    /\ step = "again" => \A m \in DOMAIN again : Holds(Fields[class][m].type, again[m])

\* Whatever a firmware has answered, what to_string writes can be read, and
\* every member it writes comes back with its value.
WrittenReadsBack ==
    /\ step = "written" => Readable(class, doc)
    /\ step = "again" => \A m \in Written(class) : again[m] = object[m]
------------------------------------------------------------------------------
(* The inductive invariant behind both: where the object and the document  *)
(* come from.                                                              *)

Made ==
    /\ step = "reply" => doc \in Documents[class]
    /\ step \in {"read", "written", "again"} =>
           \A m \in DOMAIN object : Holds(Fields[class][m].type, object[m])
    /\ step \in {"written", "again"} => doc = WrittenDocument(class, object)
    /\ step = "again" => again = Object(class, doc)
==============================================================================
