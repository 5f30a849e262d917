---------------------------- MODULE OptionsProofs ----------------------------
(***************************************************************************)
(* LastFlagWins and PasswordOfLastPrompt of Options, for any file, command *)
(* line and input: what they say of the whole of each holds of what has    *)
(* been read of it.                                                        *)
(***************************************************************************)
EXTENDS Options, FiniteSetTheorems, SequenceTheorems, TLAPS

------------------------------------------------------------------------------
(* The types.                                                              *)

LEMMA KeyTypes ==
  /\ \A v \in DOMAIN Booleans : Booleans[v] \in BOOLEAN
  /\ DOMAIN BoolKeys = {"SECURE_ONLY", "REQUIRE_LOGIN"}
  /\ BoolKeys["SECURE_ONLY"] = "secure_only"
  /\ BoolKeys["REQUIRE_LOGIN"] = "require_login"
  /\ DOMAIN TextKeys = {"DB.DATABASE", "DB.USERNAME", "DB.PASSWORD", "DB.DSN"}
  /\ \A key \in DOMAIN TextKeys : TextKeys[key] = "password" <=> key = "DB.PASSWORD"
  /\ \A key \in DOMAIN TextKeys :
       TextKeys[key] \in {"database", "username", "password", "dsn"}
<1>1. \A v \in DOMAIN Booleans : Booleans[v] \in BOOLEAN
  <2>1. \A v \in {"true", "1", "false", "0"} : (v \in {"true", "1"}) \in BOOLEAN
    OBVIOUS
  <2>. QED
    BY <2>1, Zenon DEF Booleans
<1>2. /\ DOMAIN BoolKeys = {"SECURE_ONLY", "REQUIRE_LOGIN"}
      /\ BoolKeys["SECURE_ONLY"] = "secure_only"
      /\ BoolKeys["REQUIRE_LOGIN"] = "require_login"
  BY DEF BoolKeys
<1>3. /\ DOMAIN TextKeys = {"DB.DATABASE", "DB.USERNAME", "DB.PASSWORD", "DB.DSN"}
      /\ \A key \in DOMAIN TextKeys : TextKeys[key] = "password" <=> key = "DB.PASSWORD"
      /\ \A key \in DOMAIN TextKeys :
           TextKeys[key] \in {"database", "username", "password", "dsn"}
  BY DEF TextKeys
<1>. QED
  BY <1>1, <1>2, <1>3

\* A setting that is given a value.
LEMMA SettingChanges ==
  ASSUME DOMAIN conf = DOMAIN Defaults, NEW name \in DOMAIN Defaults, NEW value,
         conf' = [conf EXCEPT ![name] = value]
  PROVE  /\ DOMAIN conf' = DOMAIN Defaults /\ conf'[name] = value
         /\ \A other \in DOMAIN Defaults : other # name => conf'[other] = conf[other]
OBVIOUS

LEMMA Names ==
  DOMAIN Defaults =
    {"conf_file", "secure_only", "require_login", "type", "database", "username",
     "password", "dsn", "debug"}
BY DEF Defaults

LEMMA Lengths ==
  ASSUME NEW p \in ConfFiles, NEW a \in CommandLines, NEW l \in Inputs
  PROVE  /\ Len(p) \in Nat /\ Len(a) \in Nat /\ Len(l) \in Nat
         /\ \A k \in 1..Len(l) : l[k].length \in Nat
<1>1. Len(p) \in Nat
  <2>1. p \in Seq([key : STRING, value : STRING])
    BY WorldAssumption
  <2>. QED
    BY <2>1
<1>2. Len(a) \in Nat
  <2>1. a \in Seq(STRING)
    BY WorldAssumption
  <2>. QED
    BY <2>1
<1>3. Len(l) \in Nat /\ \A k \in 1..Len(l) : l[k].length \in Nat
  <2>1. l \in Seq([text : STRING, length : Nat])
    BY WorldAssumption
  <2>2. \A k \in 1..Len(l) : l[k] \in [text : STRING, length : Nat]
    BY <2>1, ElementOfSeq
  <2>. QED
    BY <2>1, <2>2
<1>. QED
  BY <1>1, <1>2, <1>3

LEMMA TypeInit == Init => TypeOK
<1>. SUFFICES ASSUME Init PROVE TypeOK
  OBVIOUS
<1>1. Len(props) \in Nat /\ Len(argv) \in Nat /\ Len(lines) \in Nat
  BY Lengths DEF Init
<1>2. Indexed
  BY <1>1 DEF Init, Indexed
<1>3. ConfTyped
  BY DEF Init, ConfTyped, Defaults
<1>. QED
  BY <1>2, <1>3 DEF TypeOK

\* A step that changes one setting, to a value of its kind, and no text.
LEMMA SettingTypes ==
  ASSUME TypeOK, NEW name \in DOMAIN Defaults, NEW value,
         conf' = [conf EXCEPT ![name] = value],
         name \in {"secure_only", "require_login"} => value \in BOOLEAN,
         name = "type" => value \in Types
  PROVE  ConfTyped'
<1>1. DOMAIN conf = DOMAIN Defaults
  BY DEF TypeOK, ConfTyped
<1>2. /\ DOMAIN conf' = DOMAIN Defaults /\ conf'[name] = value
      /\ \A other \in DOMAIN Defaults : other # name => conf'[other] = conf[other]
  BY <1>1, SettingChanges
<1>3. CASE name = "secure_only"
  BY <1>2, <1>3, Names DEF TypeOK, ConfTyped
<1>4. CASE name = "require_login"
  BY <1>2, <1>4, Names DEF TypeOK, ConfTyped
<1>5. CASE name = "type"
  BY <1>2, <1>5, Names DEF TypeOK, ConfTyped
<1>6. CASE name \notin {"secure_only", "require_login", "type"}
  BY <1>2, <1>6, Names DEF TypeOK, ConfTyped
<1>. QED
  BY <1>3, <1>4, <1>5, <1>6

LEMMA FileTypes == TypeOK /\ ReadsFile => TypeOK'
<1>. SUFFICES ASSUME TypeOK, ReadsFile PROVE TypeOK'
  OBVIOUS
<1>1. UNCHANGED <<files, props, argv, lines, echo, taken, cin_good>>
  BY DEF ReadsFile, Find, FindFails, Open, ReadProperty, PropertyThrows,
         PropertyTerminates, FileEnds, world, cin
<1>2. Len(argv) \in Nat /\ Len(props) \in Nat
  BY Lengths DEF TypeOK, Indexed
<1>3. Indexed'
  <2>1. CASE Find \/ Open
    BY <1>1, <1>2, <2>1 DEF Find, Open, Indexed, TypeOK
  <2>2. CASE FindFails \/ PropertyThrows \/ PropertyTerminates
    BY <1>1, <1>2, <2>2
       DEF FindFails, PropertyThrows, PropertyTerminates, Indexed, TypeOK
  <2>3. CASE ReadProperty \/ FileEnds
    BY <1>1, <1>2, <2>3 DEF ReadProperty, FileEnds, Indexed, TypeOK
  <2>. QED
    BY <2>1, <2>2, <2>3 DEF ReadsFile
<1>4. ConfTyped'
  <2>1. CASE Find
    <3>1. PICK k \in 1..Len(Places) : conf' = [conf EXCEPT !["conf_file"] = Places[k]]
      BY <2>1 DEF Find
    <3>. QED
      BY <3>1, SettingTypes, Names
  <2>2. CASE ReadProperty
    <3>1. PICK name \in DOMAIN Defaults : \E value :
            /\ conf' = [conf EXCEPT ![name] = value]
            /\ name \in {"secure_only", "require_login"} => value \in BOOLEAN
            /\ name = "type" => value \in Types
      BY <2>2, KeyTypes, Names DEF ReadProperty
    <3>. QED
      BY <3>1, SettingTypes
  <2>3. CASE conf' = conf
    BY <2>3 DEF TypeOK, ConfTyped
  <2>. QED
    BY <2>1, <2>2, <2>3 DEF ReadsFile, FindFails, Open, PropertyThrows,
       PropertyTerminates, FileEnds
<1>. QED
  BY <1>3, <1>4 DEF TypeOK

LEMMA ArgumentTypes == TypeOK /\ ReadsArguments => TypeOK'
<1>. SUFFICES ASSUME TypeOK, ReadsArguments PROVE TypeOK'
  OBVIOUS
<1>1. /\ Len(argv) \in Nat /\ Len(props) \in Nat /\ Len(lines) \in Nat
      /\ \A k \in 1..Len(lines) : lines[k].length \in Nat
  BY Lengths DEF TypeOK, Indexed
<1>3. ASSUME NEW flag, NEW name \in {"secure_only", "require_login"}, NEW value \in BOOLEAN,
             Switch(flag, name, value)
      PROVE  TypeOK'
  <2>1. ConfTyped'
    BY <1>3, SettingTypes, Names DEF Switch
  <2>2. Indexed'
    BY <1>1, <1>3 DEF Switch, world, cin, TypeOK, Indexed
  <2>. QED
    BY <2>1, <2>2 DEF TypeOK
<1>4. ASSUME NEW flag, NEW name \in {"conf_file", "username"}, TakeValue(flag, name)
      PROVE  TypeOK'
  <2>1. ConfTyped'
    BY <1>4, SettingTypes, Names DEF TakeValue
  <2>2. Indexed'
    BY <1>1, <1>4 DEF TakeValue, world, cin, TypeOK, Indexed
  <2>. QED
    BY <2>1, <2>2 DEF TypeOK
<1>5. CASE TakeType
  <2>1. conf' = [conf EXCEPT !["type"] = argv[next + 1]] /\ argv[next + 1] \in Types
    BY <1>5 DEF TakeType
  <2>2. ConfTyped'
    BY <2>1, SettingTypes, Names
  <2>3. Indexed'
    BY <1>1, <1>5 DEF TakeType, world, cin, TypeOK, Indexed
  <2>. QED
    BY <2>2, <2>3 DEF TypeOK
<1>6. CASE EmptyArgument \/ ArgumentThrows \/ AskPassword \/ ArgumentsEnd
  <2>1. ConfTyped'
    BY <1>6 DEF EmptyArgument, ArgumentThrows, AskPassword, ArgumentsEnd, TypeOK, ConfTyped
  <2>2. CASE EmptyArgument
    <3>1. step = "args" /\ next <= Len(argv) /\ next' = next + 1
          /\ UNCHANGED <<step, files, props, argv, lines, echo, taken, cin_good>>
      BY <2>2 DEF EmptyArgument, world, cin
    <3>. QED
      BY <1>1, <2>1, <3>1 DEF TypeOK, Indexed
  <2>3. CASE ArgumentThrows
    BY <1>1, <2>1, <2>3 DEF ArgumentThrows, world, cin, TypeOK, Indexed
  <2>4. CASE AskPassword \/ ArgumentsEnd
    BY <1>1, <2>1, <2>4 DEF AskPassword, ArgumentsEnd, world, cin, TypeOK, Indexed
  <2>. QED
    BY <1>6, <2>2, <2>3, <2>4
<1>7. CASE TakePassword
  <2>1. ConfTyped'
    <3>1. PICK value : conf' = [conf EXCEPT !["password"] = value]
      BY <1>7 DEF TakePassword
    <3>. QED
      BY <3>1, SettingTypes, Names
  <2>2. cin_good' \in BOOLEAN
    <3>1. CASE cin_good' = (lines[taken + 1].length <= MaxLine)
      <4>1. CASE lines[taken + 1].length <= MaxLine
        BY <3>1, <4>1
      <4>2. CASE ~(lines[taken + 1].length <= MaxLine)
        BY <3>1, <4>2
      <4>. QED
        BY <4>1, <4>2
    <3>2. CASE cin_good' = FALSE
      BY <3>2
    <3>. QED
      BY <1>7, <3>1, <3>2 DEF TakePassword
  <2>3. taken' \in 0..Len(lines)
    <3>1. taken \in 0..Len(lines)
      BY DEF TypeOK, Indexed
    <3>2. taken' = taken \/ (taken < Len(lines) /\ taken' = taken + 1)
      BY <1>7 DEF TakePassword
    <3>. QED
      BY <1>1, <3>1, <3>2
  <2>4. step = "prompt" /\ step' = "args" /\ next' = next + 1 /\ echo' = TRUE
        /\ UNCHANGED <<files, props, argv, lines>>
    BY <1>7 DEF TakePassword, world
  <2>5. Indexed'
    BY <1>1, <2>2, <2>3, <2>4 DEF TypeOK, Indexed
  <2>. QED
    BY <2>1, <2>5 DEF TypeOK
<1>. QED
  BY <1>3, <1>4, <1>5, <1>6, <1>7 DEF ReadsArguments

\* Settings keep their types, and the index its list, for any file, command
\* line and input.
THEOREM TypeCorrect == Spec => []TypeOK
<1>1. TypeOK /\ UNCHANGED vars => TypeOK'
  BY DEF TypeOK, Indexed, ConfTyped, vars
<1>. QED
  BY <1>1, TypeInit, FileTypes, ArgumentTypes, PTL DEF Spec, Next
------------------------------------------------------------------------------
(* Where flags stand.                                                      *)

LEMMA FlagFirst == FlagAt(1)
BY DEF FlagAt

LEMMA FlagAfter ==
  ASSUME NEW n \in Nat \ {0}, argv[n] \notin TakesValue
  PROVE  FlagAt(n + 1)
<1>1. n \in 0..n + 1 - 1 /\ (n + 1 - 1 - n) % 2 = 0
  OBVIOUS
<1>. QED
  BY <1>1 DEF FlagAt

\* A flag with a value, its value, and the next flag.
LEMMA FlagAfterValue ==
  ASSUME NEW n \in Nat \ {0}, FlagAt(n), argv[n] \in TakesValue
  PROVE  ~FlagAt(n + 1) /\ FlagAt(n + 2)
<1>1. PICK j \in 0..n - 1 :
        /\ j = 0 \/ argv[j] \notin TakesValue
        /\ \A i \in j + 1..n - 1 : argv[i] \in TakesValue
        /\ (n - 1 - j) % 2 = 0
  BY DEF FlagAt
<1>2. ~FlagAt(n + 1)
  <2>. SUFFICES ASSUME NEW h \in 0..n,
                       h = 0 \/ argv[h] \notin TakesValue,
                       \A i \in h + 1..n : argv[i] \in TakesValue,
                       (n - h) % 2 = 0
                PROVE  FALSE
    BY DEF FlagAt
  <2>1. h # n
    OBVIOUS
  <2>2. h = j
    BY <1>1, <2>1
  <2>. QED
    BY <1>1, <2>2
<1>3. CASE argv[n + 1] \in TakesValue
  <2>1. \A i \in j + 1..n + 1 : argv[i] \in TakesValue
    BY <1>1, <1>3
  <2>2. j \in 0..n + 2 - 1 /\ (n + 2 - 1 - j) % 2 = 0
    BY <1>1
  <2>. QED
    BY <1>1, <1>2, <2>1, <2>2 DEF FlagAt
<1>4. CASE argv[n + 1] \notin TakesValue
  <2>1. FlagAt(n + 1 + 1)
    BY <1>4, FlagAfter
  <2>. QED
    BY <1>2, <2>1
<1>. QED
  BY <1>3, <1>4
------------------------------------------------------------------------------
(* How what has been read grows.                                           *)

LEMMA BeforeNext ==
  ASSUME NEW ks \in SUBSET Nat, NEW n \in Nat
  PROVE  /\ n \in ks => Before(ks, n + 1) = Before(ks, n) \cup {n}
         /\ n \notin ks => Before(ks, n + 1) = Before(ks, n)
<1>1. \A k \in Nat : k < n + 1 <=> k < n \/ k = n
  OBVIOUS
<1>. QED
  BY <1>1 DEF Before

LEMMA BeforeNextTwo ==
  ASSUME NEW ks \in SUBSET Nat, NEW n \in Nat, n \notin ks, n + 1 \notin ks
  PROVE  Before(ks, n + 2) = Before(ks, n)
<1>1. \A k \in Nat : k < n + 2 <=> k < n \/ k = n \/ k = n + 1
  OBVIOUS
<1>. QED
  BY <1>1 DEF Before

LEMMA LastOfNew ==
  ASSUME NEW ks \in SUBSET Nat, NEW n \in Nat
  PROVE  Last(Before(ks, n) \cup {n}) = n
<1> DEFINE new == Before(ks, n) \cup {n}
<1>1. n \in new /\ (\A j \in new : j \in Nat /\ j <= n)
  BY DEF Before
<1> HIDE DEF new
<1>2. \A k \in new : (\A j \in new : j <= k) => k = n
  BY <1>1
<1>3. Last(new) = n
  BY <1>1, <1>2 DEF Last
<1>. QED
  BY <1>3 DEF new

LEMMA WorldKept ==
  ASSUME UNCHANGED <<argv, props>>, NEW words, NEW key
  PROVE  /\ Flags(words)' = Flags(words) /\ Flags(words) \in SUBSET (1..Len(argv))
         /\ Prompts' = Prompts /\ Prompts \in SUBSET (1..Len(argv))
         /\ InFile(key)' = InFile(key) /\ InFile(key) \in SUBSET (1..Len(props))
         /\ \A k : FlagAt(k)' <=> FlagAt(k)
<1>1. \A k : FlagAt(k)' <=> FlagAt(k)
  BY DEF FlagAt
<1>2. \A W : Flags(W)' = Flags(W)
  BY <1>1 DEF Flags
<1>. QED
  BY <1>1, <1>2 DEF Flags, Prompts, InFile

\* An argument that has no value behind it has been read.
LEMMA ArgumentRead ==
  ASSUME TypeOK, step \in {"args", "prompt"}, FlagAt(next), next <= Len(argv),
         argv[next] \notin TakesValue,
         step' = "args", next' = next + 1, UNCHANGED <<argv, props>>,
         NEW words, NEW key
  PROVE  /\ FlagNext' /\ KeysRead(key)' = KeysRead(key)
         /\ argv[next] \in words => FlagsRead(words)' = FlagsRead(words) \cup {next}
         /\ argv[next] \notin words => FlagsRead(words)' = FlagsRead(words)
         /\ next \in Prompts =>
              Before(Prompts, ArgsRead)' = Before(Prompts, ArgsRead) \cup {next}
         /\ next \notin Prompts => Before(Prompts, ArgsRead)' = Before(Prompts, ArgsRead)
<1>1. next \in 1..Len(argv) /\ next \in Nat \ {0} /\ Len(argv) \in Nat
  BY Lengths DEF TypeOK, Indexed
<1>2. FlagNext'
  BY <1>1, FlagAfter, WorldKept DEF FlagNext
<1>3. KeysRead(key)' = KeysRead(key)
  BY WorldKept DEF KeysRead, PropsRead, Before
<1>4. Flags(words) \in SUBSET Nat /\ Prompts \in SUBSET Nat
  <2>1. 1..Len(argv) \subseteq Nat
    BY <1>1
  <2>2. Flags(words) \in SUBSET (1..Len(argv)) /\ Prompts \in SUBSET (1..Len(argv))
    BY WorldKept
  <2>. QED
    BY <2>1, <2>2
<1>5. ArgsRead = next /\ ArgsRead' = next + 1
  BY DEF ArgsRead
<1>6. FlagsRead(words)' = Before(Flags(words), next + 1)
      /\ Before(Prompts, ArgsRead)' = Before(Prompts, next + 1)
  BY <1>5, WorldKept DEF FlagsRead, Before
<1>7. next \in Flags(words) <=> argv[next] \in words
  BY <1>1 DEF Flags
<1>. QED
  BY <1>1, <1>2, <1>3, <1>4, <1>5, <1>6, <1>7, BeforeNext DEF FlagsRead

\* So has one that has, with its value.
LEMMA ValueRead ==
  ASSUME TypeOK, step = "args", FlagAt(next), next < Len(argv), argv[next] \in TakesValue,
         step' = "args", next' = next + 2, UNCHANGED <<argv, props>>,
         NEW words, words \cap TakesValue = {}, NEW key
  PROVE  /\ FlagNext' /\ KeysRead(key)' = KeysRead(key)
         /\ FlagsRead(words)' = FlagsRead(words)
         /\ Before(Prompts, ArgsRead)' = Before(Prompts, ArgsRead)
<1>1. next \in 1..Len(argv) /\ next \in Nat \ {0} /\ Len(argv) \in Nat
  BY Lengths DEF TypeOK, Indexed
<1>2. ~FlagAt(next + 1) /\ FlagAt(next + 2)
  BY <1>1, FlagAfterValue
<1>3. FlagNext'
  BY <1>2, WorldKept DEF FlagNext
<1>4. KeysRead(key)' = KeysRead(key)
  BY WorldKept DEF KeysRead, PropsRead, Before
<1>5. Flags(words) \in SUBSET Nat /\ Prompts \in SUBSET Nat
  <2>1. 1..Len(argv) \subseteq Nat
    BY <1>1
  <2>2. Flags(words) \in SUBSET (1..Len(argv)) /\ Prompts \in SUBSET (1..Len(argv))
    BY WorldKept
  <2>. QED
    BY <2>1, <2>2
<1>6. ArgsRead = next /\ ArgsRead' = next + 2
  BY <1>1 DEF ArgsRead
<1>7. FlagsRead(words)' = Before(Flags(words), next + 2)
      /\ Before(Prompts, ArgsRead)' = Before(Prompts, next + 2)
  BY <1>6, WorldKept DEF FlagsRead, Before
<1>8. next \notin Flags(words) /\ next + 1 \notin Flags(words)
  BY <1>2 DEF Flags
<1>9. next \notin Prompts /\ next + 1 \notin Prompts
  BY <1>1, <1>2 DEF Flags, Prompts
<1>. QED
  BY <1>1, <1>3, <1>4, <1>5, <1>6, <1>7, <1>8, <1>9, BeforeNextTwo DEF FlagsRead

\* A step of the command line that takes up no argument and ends nothing.
LEMMA NothingRead ==
  ASSUME UNCHANGED <<argv, props, next>>, ArgsRead' = ArgsRead, PropsRead' = PropsRead,
         NEW words, NEW key
  PROVE  /\ KeysRead(key)' = KeysRead(key) /\ FlagsRead(words)' = FlagsRead(words)
         /\ Before(Prompts, ArgsRead)' = Before(Prompts, ArgsRead)
BY WorldKept DEF KeysRead, FlagsRead, Before

\* A property has been read.
LEMMA PropertyRead ==
  ASSUME TypeOK, step = "file", step' = "file", next <= Len(props), next' = next + 1,
         UNCHANGED <<argv, props>>, NEW words, NEW key
  PROVE  /\ FlagsRead(words)' = FlagsRead(words)
         /\ Before(Prompts, ArgsRead)' = Before(Prompts, ArgsRead)
         /\ props[next].key = key => KeysRead(key)' = KeysRead(key) \cup {next}
         /\ props[next].key # key => KeysRead(key)' = KeysRead(key)
<1>1. next \in 1..Len(props) /\ next \in Nat \ {0} /\ Len(props) \in Nat
  BY Lengths DEF TypeOK, Indexed
<1>2. FlagsRead(words)' = FlagsRead(words)
      /\ Before(Prompts, ArgsRead)' = Before(Prompts, ArgsRead)
  BY WorldKept DEF FlagsRead, ArgsRead, Before
<1>3. InFile(key) \in SUBSET Nat /\ (next \in InFile(key) <=> props[next].key = key)
  BY <1>1, WorldKept DEF InFile
<1>4. PropsRead = next /\ PropsRead' = next + 1
  BY DEF PropsRead
<1>5. KeysRead(key)' = Before(InFile(key), next + 1)
  BY <1>4, WorldKept DEF KeysRead, Before
<1>. QED
  BY <1>1, <1>2, <1>3, <1>4, <1>5, BeforeNext DEF KeysRead

\* Nothing of the command line has been read before its first argument, and
\* nothing of the file is left.
LEMMA FileRead ==
  ASSUME TypeOK, FileEnds, NEW words, NEW key
  PROVE  /\ FlagNext' /\ KeysRead(key)' = KeysRead(key)
         /\ FlagsRead(words) = {} /\ FlagsRead(words)' = {}
         /\ Before(Prompts, ArgsRead) = {} /\ Before(Prompts, ArgsRead)' = {}
<1>1. UNCHANGED <<argv, props>> /\ step = "file" /\ step' = "args"
      /\ next' = 1 /\ next = Len(props) + 1
  BY DEF FileEnds, world
<1>2. FlagNext'
  BY <1>1, FlagFirst, WorldKept DEF FlagNext
<1>3. KeysRead(key)' = KeysRead(key)
  BY <1>1, WorldKept DEF KeysRead, PropsRead, Before
<1>4. ArgsRead = 1 /\ ArgsRead' = 1
  BY <1>1 DEF ArgsRead
<1>5. \A ks \in SUBSET (1..Len(argv)) : Before(ks, 1) = {}
  <2>1. Len(argv) \in Nat
    BY Lengths DEF TypeOK, Indexed
  <2>2. \A k \in 1..Len(argv) : ~(k < 1)
    BY <2>1
  <2>. QED
    BY <2>2 DEF Before
<1>. QED
  BY <1>1, <1>2, <1>3, <1>4, <1>5, WorldKept DEF FlagsRead, Before
------------------------------------------------------------------------------
(* What has been asked for so far.                                         *)

LEMMA AskedKept ==
  ASSUME NEW on, NEW off, NEW key, NEW name, UNCHANGED <<argv, props>>,
         FlagsRead({on, off})' = FlagsRead({on, off}), KeysRead(key)' = KeysRead(key)
  PROVE  AskedSoFar(on, off, key, name)' = AskedSoFar(on, off, key, name)
BY DEF AskedSoFar

\* The flag read last decides ...
LEMMA AskedByFlag ==
  ASSUME NEW on, NEW off, NEW key, NEW name, UNCHANGED argv,
         TypeOK, step = "args",
         FlagsRead({on, off})' = FlagsRead({on, off}) \cup {next}
  PROVE  AskedSoFar(on, off, key, name)' = (argv[next] = on)
<1>1. ArgsRead = next /\ next \in Nat
  BY DEF ArgsRead, TypeOK, Indexed
<1>2. Flags({on, off}) \in SUBSET Nat
  BY DEF Flags
<1>3. Last(FlagsRead({on, off}) \cup {next}) = next
  BY <1>1, <1>2, LastOfNew DEF FlagsRead
<1>4. Last(FlagsRead({on, off})') = next /\ FlagsRead({on, off})' # {}
  BY <1>3
<1>. QED
  BY <1>4 DEF AskedSoFar

\* ... and before there is one, the line of the file.
LEMMA AskedByKey ==
  ASSUME NEW on, NEW off, NEW key, NEW name, UNCHANGED props,
         TypeOK, step = "file", FlagsRead({on, off})' = {},
         KeysRead(key)' = KeysRead(key) \cup {next}
  PROVE  AskedSoFar(on, off, key, name)' = Booleans[props[next].value]
<1>1. PropsRead = next /\ next \in Nat
  BY DEF PropsRead, TypeOK, Indexed
<1>2. InFile(key) \in SUBSET Nat
  BY DEF InFile
<1>3. Last(KeysRead(key) \cup {next}) = next
  BY <1>1, <1>2, LastOfNew DEF KeysRead
<1>4. Last(KeysRead(key)') = next /\ KeysRead(key)' # {}
  BY <1>3
<1>. QED
  BY <1>4 DEF AskedSoFar

\* What a prompt is asked for by.
LEMMA PromptArgument ==
  ASSUME next \in Prompts
  PROVE  /\ next \in 1..Len(argv) /\ FlagAt(next)
         /\ argv[next] \notin Switches \cup TakesValue \cup {"-P", ""}
BY DEF Prompts, Flags

LEMMA SwitchReads ==
  ASSUME TypeOK, FlagNext, NEW flag \in Switches, NEW set, NEW value,
         Switch(flag, set, value), NEW on, NEW off, NEW key
  PROVE  /\ FlagNext' /\ KeysRead(key)' = KeysRead(key)
         /\ flag \in {on, off} => FlagsRead({on, off})' = FlagsRead({on, off}) \cup {next}
         /\ flag \notin {on, off} => FlagsRead({on, off})' = FlagsRead({on, off})
         /\ step = "args" /\ argv[next] = flag /\ UNCHANGED <<argv, props>>
<1>1. /\ step = "args" /\ step' = "args" /\ next <= Len(argv) /\ argv[next] = flag
      /\ next' = next + 1 /\ UNCHANGED <<argv, props>>
  BY DEF Switch, world
<1>2. flag \notin TakesValue /\ FlagAt(next)
  BY <1>1 DEF Switches, TakesValue, FlagNext
<1>. QED
  BY <1>1, <1>2, ArgumentRead

\* A switch decides its own setting ...
LEMMA SwitchOn ==
  ASSUME TypeOK, FlagNext, NEW on \in Switches, NEW off, NEW set, NEW value,
         Switch(on, set, value), NEW key, NEW name
  PROVE  AskedSoFar(on, off, key, name)' = TRUE
<1>1. /\ FlagsRead({on, off})' = FlagsRead({on, off}) \cup {next}
      /\ step = "args" /\ argv[next] = on /\ UNCHANGED argv
  BY SwitchReads
<1>2. AskedSoFar(on, off, key, name)' = (argv[next] = on)
  BY <1>1, AskedByFlag
<1>3. (argv[next] = on) = TRUE
  BY <1>1
<1>. QED
  BY <1>2, <1>3, Zenon

LEMMA SwitchOff ==
  ASSUME TypeOK, FlagNext, NEW on, NEW off \in Switches, NEW set, NEW value, on # off,
         Switch(off, set, value), NEW key, NEW name
  PROVE  AskedSoFar(on, off, key, name)' = FALSE
<1>1. /\ FlagsRead({on, off})' = FlagsRead({on, off}) \cup {next}
      /\ step = "args" /\ argv[next] = off /\ UNCHANGED argv
  BY SwitchReads
<1>2. AskedSoFar(on, off, key, name)' = (argv[next] = on)
  BY <1>1, AskedByFlag
<1>3. (argv[next] = on) = FALSE
  BY <1>1
<1>. QED
  BY <1>2, <1>3, Zenon

\* ... and no other.
LEMMA SwitchLeaves ==
  ASSUME TypeOK, FlagNext, NEW flag \in Switches, NEW set, NEW value,
         Switch(flag, set, value), NEW on, NEW off, flag \notin {on, off}, NEW key, NEW name
  PROVE  AskedSoFar(on, off, key, name)' = AskedSoFar(on, off, key, name)
BY SwitchReads, AskedKept

LEMMA SwitchSets ==
  ASSUME TypeOK, NEW flag, NEW set \in DOMAIN Defaults, NEW value, Switch(flag, set, value)
  PROVE  /\ conf'[set] = value
         /\ \A other \in DOMAIN Defaults : other # set => conf'[other] = conf[other]
BY SettingChanges DEF Switch, TypeOK, ConfTyped

\* The steps of the command line that are no switch leave both settings as they
\* are, and what has been asked for too.
LEMMA OthersRead ==
  ASSUME TypeOK, FlagNext,
         \/ EmptyArgument \/ TakeValue("-conf", "conf_file") \/ TakeValue("-u", "username")
         \/ TakeType \/ AskPassword \/ TakePassword \/ ArgumentsEnd,
         NEW on \in Switches, NEW off \in Switches, NEW key, NEW name
  PROVE  /\ FlagNext'
         /\ AskedSoFar(on, off, key, name)' = AskedSoFar(on, off, key, name)
<1>. USE DEF world
<1>1. UNCHANGED <<argv, props>>
  BY DEF EmptyArgument, TakeValue, TakeType, AskPassword, TakePassword, ArgumentsEnd
<1>2. {on, off} \cap TakesValue = {} /\ "" \notin {on, off} /\ "" \notin TakesValue
  BY DEF Switches, TakesValue
<1>. SUFFICES FlagNext' /\ FlagsRead({on, off})' = FlagsRead({on, off})
              /\ KeysRead(key)' = KeysRead(key)
  BY <1>1, AskedKept
<1>3. CASE EmptyArgument
  <2>1. /\ step = "args" /\ step' = "args" /\ next' = next + 1 /\ next <= Len(argv)
        /\ argv[next] = "" /\ FlagAt(next)
    BY <1>3 DEF EmptyArgument, FlagNext
  <2>. QED
    BY <1>1, <1>2, <2>1, ArgumentRead
<1>4. CASE TakeValue("-conf", "conf_file") \/ TakeValue("-u", "username") \/ TakeType
  <2>1. /\ step = "args" /\ next < Len(argv) /\ argv[next] \in TakesValue
        /\ step' = "args" /\ next' = next + 2
    BY <1>4 DEF TakeValue, TakeType, TakesValue
  <2>. QED
    BY <1>1, <1>2, <2>1, ValueRead DEF FlagNext
<1>5. CASE AskPassword
  <2>1. step = "args" /\ step' = "prompt" /\ next' = next
        /\ ArgsRead' = ArgsRead /\ PropsRead' = PropsRead
    BY <1>1, <1>5 DEF AskPassword, ArgsRead, PropsRead
  <2>2. next \in Prompts
    <3>1. next \in Nat \ {0} /\ Len(argv) \in Nat
      BY Lengths DEF TypeOK, Indexed
    <3>4. next <= Len(argv)
      BY <1>5, Zenon DEF AskPassword
    <3>2. next \in 1..Len(argv)
      BY <3>1, <3>4
    <3>3. argv[next] \notin Switches \cup TakesValue \cup {"-P", ""}
      BY <1>5 DEF AskPassword
    <3>. QED
      BY <2>1, <3>2, <3>3 DEF FlagNext, Prompts, Flags
  <2>3. FlagNext'
    BY <1>1, <2>1, <2>2, WorldKept DEF FlagNext
  <2>. QED
    BY <1>1, <2>1, <2>3, NothingRead
<1>6. CASE TakePassword
  <2>1. step = "prompt" /\ step' = "args" /\ next' = next + 1
    BY <1>6 DEF TakePassword
  <2>2. /\ FlagAt(next) /\ next \in 1..Len(argv)
        /\ argv[next] \notin Switches \cup TakesValue \cup {"-P", ""}
    BY <2>1, PromptArgument DEF FlagNext
  <2>3. next <= Len(argv)
    BY <2>1 DEF TypeOK, Indexed
  <2>4. argv[next] \notin TakesValue /\ argv[next] \notin {on, off}
    BY <2>2
  <2>. QED
    BY <1>1, <2>1, <2>2, <2>3, <2>4, ArgumentRead
<1>7. CASE ArgumentsEnd
  <2>1. step = "args" /\ step' = "done" /\ next' = next
        /\ ArgsRead' = ArgsRead /\ PropsRead' = PropsRead
    BY <1>1, <1>7 DEF ArgumentsEnd, ArgsRead, PropsRead
  <2>2. FlagNext'
    BY <2>1 DEF FlagNext
  <2>. QED
    BY <1>1, <2>1, <2>2, NothingRead
<1>. QED
  BY <1>3, <1>4, <1>5, <1>6, <1>7

\* A switch of one setting gives it what is asked for, and leaves the other as
\* it is.
LEMMA SwitchesFlags ==
  ASSUME TypeOK, FlagNext, FlagsSoFar, Reading,
         \/ Switch("-secure", "secure_only", TRUE) \/ Switch("-insecure", "secure_only", FALSE)
         \/ Switch("-anonymous", "require_login", FALSE)
         \/ Switch("-login", "require_login", TRUE)
  PROVE  FlagNext' /\ FlagsSoFar'
<1>1. PICK secure, insecure, login, anonymous, secure_only, require_login, key, key2 :
        /\ secure = "-secure" /\ insecure = "-insecure"
        /\ login = "-login" /\ anonymous = "-anonymous"
        /\ secure_only = "secure_only" /\ require_login = "require_login"
        /\ key = "SECURE_ONLY" /\ key2 = "REQUIRE_LOGIN"
  OBVIOUS
<1> DEFINE Settled ==
             /\ conf[secure_only] = AskedSoFar(secure, insecure, key, secure_only)
             /\ conf[require_login] = AskedSoFar(login, anonymous, key2, require_login)
<1>2. /\ secure \in Switches /\ insecure \in Switches
      /\ login \in Switches /\ anonymous \in Switches
      /\ secure # insecure /\ login # anonymous
      /\ secure # login /\ secure # anonymous /\ insecure # login /\ insecure # anonymous
      /\ secure_only \in DOMAIN Defaults /\ require_login \in DOMAIN Defaults
      /\ secure_only # require_login
  BY <1>1, Names DEF Switches
<1>3. Settled
  BY <1>1 DEF FlagsSoFar
<1>. SUFFICES FlagNext' /\ Settled'
  BY <1>1 DEF FlagsSoFar
<1> HIDE DEF Settled
<1>4. CASE Switch(secure, secure_only, TRUE)
  <2>1. secure \in Switches /\ FlagNext'
    <3>1. secure \in Switches
      BY <1>2
    <3>. QED
      BY <1>4, <3>1, SwitchReads
  <2>2. AskedSoFar(secure, insecure, key, secure_only)' = TRUE
    BY <1>2, <1>4, <2>1, SwitchOn
  <2>3. AskedSoFar(login, anonymous, key2, require_login)'
          = AskedSoFar(login, anonymous, key2, require_login)
    <3>1. secure \notin {login, anonymous}
      BY <1>2
    <3>. QED
      BY <1>4, <2>1, <3>1, SwitchLeaves
  <2>4. conf'[secure_only] = TRUE /\ conf'[require_login] = conf[require_login]
    BY <1>2, <1>4, SwitchSets, Zenon
  <2>. QED
    BY <1>3, <2>1, <2>2, <2>3, <2>4, Zenon DEF Settled
<1>5. CASE Switch(insecure, secure_only, FALSE)
  <2>1. insecure \in Switches /\ FlagNext'
    <3>1. insecure \in Switches
      BY <1>2
    <3>. QED
      BY <1>5, <3>1, SwitchReads
  <2>2. AskedSoFar(secure, insecure, key, secure_only)' = FALSE
    BY <1>2, <1>5, <2>1, SwitchOff
  <2>3. AskedSoFar(login, anonymous, key2, require_login)'
          = AskedSoFar(login, anonymous, key2, require_login)
    <3>1. insecure \notin {login, anonymous}
      BY <1>2
    <3>. QED
      BY <1>5, <2>1, <3>1, SwitchLeaves
  <2>4. conf'[secure_only] = FALSE /\ conf'[require_login] = conf[require_login]
    BY <1>2, <1>5, SwitchSets, Zenon
  <2>. QED
    BY <1>3, <2>1, <2>2, <2>3, <2>4, Zenon DEF Settled
<1>6. CASE Switch(login, require_login, TRUE)
  <2>1. login \in Switches /\ FlagNext'
    <3>1. login \in Switches
      BY <1>2
    <3>. QED
      BY <1>6, <3>1, SwitchReads
  <2>2. AskedSoFar(login, anonymous, key2, require_login)' = TRUE
    BY <1>2, <1>6, <2>1, SwitchOn
  <2>3. AskedSoFar(secure, insecure, key, secure_only)'
          = AskedSoFar(secure, insecure, key, secure_only)
    <3>1. login \notin {secure, insecure}
      BY <1>2
    <3>. QED
      BY <1>6, <2>1, <3>1, SwitchLeaves
  <2>4. conf'[require_login] = TRUE /\ conf'[secure_only] = conf[secure_only]
    BY <1>2, <1>6, SwitchSets, Zenon
  <2>. QED
    BY <1>3, <2>1, <2>2, <2>3, <2>4, Zenon DEF Settled
<1>7. CASE Switch(anonymous, require_login, FALSE)
  <2>1. anonymous \in Switches /\ FlagNext'
    <3>1. anonymous \in Switches
      BY <1>2
    <3>. QED
      BY <1>7, <3>1, SwitchReads
  <2>2. AskedSoFar(login, anonymous, key2, require_login)' = FALSE
    BY <1>2, <1>7, <2>1, SwitchOff
  <2>3. AskedSoFar(secure, insecure, key, secure_only)'
          = AskedSoFar(secure, insecure, key, secure_only)
    <3>1. anonymous \notin {secure, insecure}
      BY <1>2
    <3>. QED
      BY <1>7, <2>1, <3>1, SwitchLeaves
  <2>4. conf'[require_login] = FALSE /\ conf'[secure_only] = conf[secure_only]
    BY <1>2, <1>7, SwitchSets, Zenon
  <2>. QED
    BY <1>3, <2>1, <2>2, <2>3, <2>4, Zenon DEF Settled
<1>. QED
  BY <1>1, <1>4, <1>5, <1>6, <1>7

LEMMA ArgumentsFlags ==
  ASSUME TypeOK, FlagNext, FlagsSoFar, ReadsArguments
  PROVE  FlagNext' /\ FlagsSoFar'
<1>1. Reading
  BY DEF ReadsArguments, Reading, EmptyArgument, Switch, TakeValue, TakeType,
         ArgumentThrows, AskPassword, TakePassword, ArgumentsEnd
<1>2. CASE \/ Switch("-secure", "secure_only", TRUE)
           \/ Switch("-insecure", "secure_only", FALSE)
           \/ Switch("-anonymous", "require_login", FALSE)
           \/ Switch("-login", "require_login", TRUE)
  BY <1>1, <1>2, SwitchesFlags
<1>3. CASE ArgumentThrows
  BY <1>3 DEF ArgumentThrows, FlagNext, FlagsSoFar, Reading
<1>4. CASE \/ EmptyArgument \/ TakeValue("-conf", "conf_file") \/ TakeValue("-u", "username")
           \/ TakeType \/ AskPassword \/ TakePassword \/ ArgumentsEnd
  <2>1. conf'.secure_only = conf.secure_only /\ conf'.require_login = conf.require_login
    <3>1. CASE conf' = conf
      BY <3>1
    <3>2. CASE \E name \in {"conf_file", "username", "type", "password"} : \E value :
                 conf' = [conf EXCEPT ![name] = value]
      BY <3>2, SettingChanges, Names DEF TypeOK, ConfTyped
    <3>. QED
      BY <1>4, <3>1, <3>2 DEF EmptyArgument, TakeValue, TakeType, AskPassword,
         TakePassword, ArgumentsEnd
  <2>2. FlagNext'
    BY <1>4, OthersRead DEF Switches
  <2>3. AskedSoFar("-secure", "-insecure", "SECURE_ONLY", "secure_only")'
          = AskedSoFar("-secure", "-insecure", "SECURE_ONLY", "secure_only")
    BY <1>4, OthersRead DEF Switches
  <2>4. AskedSoFar("-login", "-anonymous", "REQUIRE_LOGIN", "require_login")'
          = AskedSoFar("-login", "-anonymous", "REQUIRE_LOGIN", "require_login")
    BY <1>4, OthersRead DEF Switches
  <2>. QED
    BY <1>1, <2>1, <2>2, <2>3, <2>4 DEF FlagsSoFar
<1>. QED
  BY <1>2, <1>3, <1>4 DEF ReadsArguments

LEMMA NoFlagRead ==
  ASSUME TypeOK, step \in {"find", "open", "file"}, NEW words
  PROVE  FlagsRead(words) = {} /\ Before(Prompts, ArgsRead) = {}
<1>1. Len(argv) \in Nat /\ ArgsRead = 1
  BY Lengths DEF TypeOK, Indexed, ArgsRead
<1>2. \A k \in 1..Len(argv) : ~(k < 1)
  BY <1>1
<1>. QED
  BY <1>1, <1>2 DEF FlagsRead, Flags, Prompts, Before

\* A line of the file settles the setting it names.
LEMMA PropertyFlags ==
  ASSUME TypeOK, FlagNext, FlagsSoFar, ReadProperty
  PROVE  FlagNext' /\ FlagsSoFar'
<1>1. PICK secure, insecure, login, anonymous, secure_only, require_login, key, key2 :
        /\ secure = "-secure" /\ insecure = "-insecure"
        /\ login = "-login" /\ anonymous = "-anonymous"
        /\ secure_only = "secure_only" /\ require_login = "require_login"
        /\ key = "SECURE_ONLY" /\ key2 = "REQUIRE_LOGIN"
  OBVIOUS
<1> DEFINE Settled ==
             /\ conf[secure_only] = AskedSoFar(secure, insecure, key, secure_only)
             /\ conf[require_login] = AskedSoFar(login, anonymous, key2, require_login)
<1>2. /\ secure_only \in DOMAIN Defaults /\ require_login \in DOMAIN Defaults
      /\ secure_only # require_login /\ key # key2
      /\ key \in DOMAIN BoolKeys /\ BoolKeys[key] = secure_only
      /\ key2 \in DOMAIN BoolKeys /\ BoolKeys[key2] = require_login
      /\ key # "DB.TYPE" /\ key2 # "DB.TYPE"
      /\ key \notin DOMAIN TextKeys /\ key2 \notin DOMAIN TextKeys
  BY <1>1, Names, KeyTypes
<1>3. /\ step = "file" /\ step' = "file" /\ next <= Len(props) /\ next' = next + 1
      /\ UNCHANGED <<argv, props>>
  BY DEF ReadProperty, world
<1>4. Settled
  BY <1>1, <1>3 DEF FlagsSoFar, Reading
<1>5. FlagNext'
  BY <1>3 DEF FlagNext
<1>. SUFFICES Settled'
  BY <1>1, <1>5 DEF FlagsSoFar
<1> HIDE DEF Settled
<1>6. CASE props[next].key = key
  <2>1. conf' = [conf EXCEPT ![secure_only] = Booleans[props[next].value]]
    BY <1>1, <1>2, <1>6, KeyTypes DEF ReadProperty
  <2>2. conf'[secure_only] = Booleans[props[next].value] /\ conf'[require_login] = conf[require_login]
    BY <1>2, <2>1, SettingChanges, Zenon DEF TypeOK, ConfTyped
  <2>3. AskedSoFar(secure, insecure, key, secure_only)' = Booleans[props[next].value]
    <3>1. FlagsRead({secure, insecure})' = {} /\ KeysRead(key)' = KeysRead(key) \cup {next}
      BY <1>3, <1>6, PropertyRead, NoFlagRead
    <3>. QED
      BY <1>3, <3>1, AskedByKey
  <2>4. AskedSoFar(login, anonymous, key2, require_login)' = AskedSoFar(login, anonymous, key2, require_login)
    <3>1. FlagsRead({login, anonymous})' = FlagsRead({login, anonymous})
          /\ KeysRead(key2)' = KeysRead(key2)
      BY <1>2, <1>3, <1>6, PropertyRead
    <3>. QED
      BY <1>3, <3>1, AskedKept
  <2>. QED
    BY <1>4, <2>2, <2>3, <2>4, Zenon DEF Settled
<1>7. CASE props[next].key = key2
  <2>1. conf' = [conf EXCEPT ![require_login] = Booleans[props[next].value]]
    BY <1>1, <1>2, <1>7, KeyTypes DEF ReadProperty
  <2>2. conf'[require_login] = Booleans[props[next].value] /\ conf'[secure_only] = conf[secure_only]
    BY <1>2, <2>1, SettingChanges, Zenon DEF TypeOK, ConfTyped
  <2>3. AskedSoFar(login, anonymous, key2, require_login)' = Booleans[props[next].value]
    <3>1. FlagsRead({login, anonymous})' = {} /\ KeysRead(key2)' = KeysRead(key2) \cup {next}
      BY <1>3, <1>7, PropertyRead, NoFlagRead
    <3>. QED
      BY <1>3, <3>1, AskedByKey
  <2>4. AskedSoFar(secure, insecure, key, secure_only)' = AskedSoFar(secure, insecure, key, secure_only)
    <3>1. FlagsRead({secure, insecure})' = FlagsRead({secure, insecure})
          /\ KeysRead(key)' = KeysRead(key)
      BY <1>2, <1>3, <1>7, PropertyRead
    <3>. QED
      BY <1>3, <3>1, AskedKept
  <2>. QED
    BY <1>4, <2>2, <2>3, <2>4, Zenon DEF Settled
<1>8. CASE props[next].key \notin {key, key2}
  <2>1. PICK name \in {"type", "database", "username", "password", "dsn"} : \E value :
          conf' = [conf EXCEPT ![name] = value]
    BY <1>1, <1>8, KeyTypes DEF ReadProperty
  <2>2. name \in DOMAIN Defaults /\ name # secure_only /\ name # require_login
    BY <1>1, Names
  <2>3. conf'[secure_only] = conf[secure_only] /\ conf'[require_login] = conf[require_login]
    BY <1>2, <2>1, <2>2, SettingChanges, Zenon DEF TypeOK, ConfTyped
  <2>4. /\ FlagsRead({secure, insecure})' = FlagsRead({secure, insecure})
        /\ KeysRead(key)' = KeysRead(key)
    BY <1>3, <1>8, PropertyRead
  <2>5. /\ FlagsRead({login, anonymous})' = FlagsRead({login, anonymous})
        /\ KeysRead(key2)' = KeysRead(key2)
    BY <1>3, <1>8, PropertyRead
  <2>6. /\ AskedSoFar(secure, insecure, key, secure_only)'
             = AskedSoFar(secure, insecure, key, secure_only)
        /\ AskedSoFar(login, anonymous, key2, require_login)'
             = AskedSoFar(login, anonymous, key2, require_login)
    BY <1>3, <2>4, <2>5, AskedKept
  <2>. QED
    BY <1>4, <2>3, <2>6, Zenon DEF Settled
<1>. QED
  BY <1>6, <1>7, <1>8

LEMMA FileFlags ==
  ASSUME TypeOK, FlagNext, FlagsSoFar, ReadsFile
  PROVE  FlagNext' /\ FlagsSoFar'
<1>1. CASE FindFails \/ PropertyThrows \/ PropertyTerminates
  BY <1>1 DEF FindFails, PropertyThrows, PropertyTerminates, FlagNext, FlagsSoFar, Reading
<1>2. CASE ReadProperty
  BY <1>2, PropertyFlags
<1>3. CASE Find \/ Open \/ FileEnds
  <2>1. UNCHANGED <<argv, props>> /\ Reading
    BY <1>3 DEF Find, Open, FileEnds, world, Reading
  <2>2. conf'.secure_only = conf.secure_only /\ conf'.require_login = conf.require_login
    <3>1. CASE conf' = conf
      BY <3>1
    <3>2. CASE \E value : conf' = [conf EXCEPT !["conf_file"] = value]
      BY <3>2, SettingChanges, Names DEF TypeOK, ConfTyped
    <3>. QED
      BY <1>3, <3>1, <3>2 DEF Find, Open, FileEnds
  <2>3. CASE Open /\ step' # "file"
    BY <2>3 DEF Open, FlagNext, FlagsSoFar, Reading
  <2>4. CASE ~(Open /\ step' # "file")
    <3>1. FlagNext' /\ \A words, key : /\ KeysRead(key)' = KeysRead(key)
                                       /\ FlagsRead(words)' = FlagsRead(words)
      <4>1. CASE FileEnds
        BY <4>1, FileRead
      <4>2. CASE Find \/ Open
        <5>1. ArgsRead' = ArgsRead /\ PropsRead' = PropsRead /\ next' = next
              /\ step' \in {"open", "file"}
          BY <2>4, <4>2 DEF Find, Open, ArgsRead, PropsRead
        <5>. QED
          BY <2>1, <5>1, NothingRead DEF FlagNext
      <4>. QED
        BY <1>3, <4>1, <4>2
    <3>2. \A on, off, key, name :
            AskedSoFar(on, off, key, name)' = AskedSoFar(on, off, key, name)
      BY <2>1, <3>1, AskedKept
    <3>. QED
      BY <2>1, <2>2, <3>1, <3>2 DEF FlagsSoFar
  <2>. QED
    BY <2>3, <2>4
<1>. QED
  BY <1>1, <1>2, <1>3 DEF ReadsFile

LEMMA NothingAsked ==
  ASSUME Init, NEW on, NEW off, NEW key, NEW name
  PROVE  AskedSoFar(on, off, key, name) = Defaults[name]
<1>1. Len(argv) \in Nat /\ Len(props) \in Nat /\ ArgsRead = 1 /\ PropsRead = 1
  BY Lengths DEF Init, ArgsRead, PropsRead
<1>2. (\A k \in 1..Len(argv) : ~(k < 1)) /\ (\A k \in 1..Len(props) : ~(k < 1))
  BY <1>1
<1>3. FlagsRead({on, off}) = {} /\ KeysRead(key) = {}
  BY <1>1, <1>2 DEF FlagsRead, KeysRead, Flags, InFile, Before
<1>. QED
  BY <1>3, Zenon DEF AskedSoFar

LEMMA FlagsInit == Init => FlagNext /\ FlagsSoFar
<1>. SUFFICES ASSUME Init PROVE FlagNext /\ FlagsSoFar
  OBVIOUS
<1>1. FlagNext
  BY DEF Init, FlagNext
<1>2. conf = Defaults
  BY DEF Init
<1>3. FlagsSoFar
  BY <1>2, NothingAsked, Zenon DEF FlagsSoFar
<1>. QED
  BY <1>1, <1>3

\* When everything has been read, that is the whole file and command line.
LEMMA AllRead ==
  ASSUME TypeOK, step = "done", NEW words, NEW key
  PROVE  /\ FlagsRead(words) = Flags(words) /\ KeysRead(key) = InFile(key)
         /\ Before(Prompts, ArgsRead) = Prompts
<1>1. /\ Len(argv) \in Nat /\ Len(props) \in Nat
      /\ ArgsRead = Len(argv) + 1 /\ PropsRead = Len(props) + 1
  BY Lengths DEF TypeOK, Indexed, ArgsRead, PropsRead
<1>2. /\ \A k \in 1..Len(argv) : k < Len(argv) + 1
      /\ \A k \in 1..Len(props) : k < Len(props) + 1
  BY <1>1
<1>. QED
  BY <1>1, <1>2 DEF FlagsRead, KeysRead, Flags, InFile, Prompts, Before

\* Once everything has been read, each of the two settings is as the last of its
\* flags says, else the file, else the default: for any file and command line.
THEOREM LastFlagWinsCorrect == Spec => []LastFlagWins
<1>1. TypeOK /\ FlagNext /\ FlagsSoFar /\ UNCHANGED vars => (FlagNext /\ FlagsSoFar)'
  <2>. SUFFICES ASSUME TypeOK, FlagNext, FlagsSoFar, UNCHANGED vars
                PROVE  (FlagNext /\ FlagsSoFar)'
    OBVIOUS
  <2>1. UNCHANGED <<argv, props, next, step, conf>>
    BY DEF vars
  <2>2. ArgsRead' = ArgsRead /\ PropsRead' = PropsRead
    BY <2>1 DEF ArgsRead, PropsRead
  <2>3. \A on, off, key, name :
          AskedSoFar(on, off, key, name)' = AskedSoFar(on, off, key, name)
    BY <2>1, <2>2, NothingRead, AskedKept
  <2>4. FlagNext'
    BY <2>1, WorldKept DEF FlagNext
  <2>. QED
    BY <2>1, <2>3, <2>4 DEF FlagsSoFar, Reading
<1>2. TypeOK /\ FlagNext /\ FlagsSoFar /\ Next => (FlagNext /\ FlagsSoFar)'
  BY FileFlags, ArgumentsFlags DEF Next
<1>3. TypeOK /\ FlagsSoFar => LastFlagWins
  <2>. SUFFICES ASSUME TypeOK, FlagsSoFar, step = "done"
                PROVE  LastFlagWins
    BY DEF LastFlagWins
  <2>1. \A on, off, key, name : AskedSoFar(on, off, key, name) = Asked(on, off, key, name)
    BY AllRead DEF AskedSoFar, Asked
  <2>. QED
    BY <2>1 DEF FlagsSoFar, LastFlagWins, Reading
<1>. QED
  BY <1>1, <1>2, <1>3, FlagsInit, TypeCorrect, PTL DEF Spec
------------------------------------------------------------------------------
(* The password.                                                           *)

LEMMA PromptsCounted ==
  ASSUME TypeOK
  PROVE  /\ IsFiniteSet(Before(Prompts, ArgsRead)) /\ PromptsRead \in Nat
         /\ PromptsRead = 0 <=> Before(Prompts, ArgsRead) = {}
<1>1. Len(argv) \in Nat
  BY Lengths DEF TypeOK, Indexed
<1>2. Before(Prompts, ArgsRead) \subseteq 1..Len(argv)
  BY DEF Before, Prompts
<1>3. IsFiniteSet(1..Len(argv))
  BY <1>1, FS_Interval
<1>4. IsFiniteSet(Before(Prompts, ArgsRead))
  BY <1>2, <1>3, FS_Subset
<1>. QED
  BY <1>4, FS_CardinalityType, FS_EmptySet DEF PromptsRead

\* A prompt counts once.
LEMMA PromptCounts ==
  ASSUME TypeOK, FlagNext, TakePassword
  PROVE  /\ PromptsRead' = PromptsRead + 1 /\ \A key : KeysRead(key)' = KeysRead(key)
         /\ step = "prompt" /\ step' = "args" /\ UNCHANGED <<props, lines>>
<1>1. /\ step = "prompt" /\ step' = "args" /\ next' = next + 1
      /\ UNCHANGED <<argv, props, lines>>
  BY DEF TakePassword, world
<1>2. next \in Prompts
  BY <1>1 DEF FlagNext
<1>3. /\ next <= Len(argv) /\ argv[next] \notin TakesValue /\ FlagAt(next)
  BY <1>1, <1>2, PromptArgument DEF TypeOK, Indexed
<1>4. /\ Before(Prompts, ArgsRead)' = Before(Prompts, ArgsRead) \cup {next}
      /\ \A key : KeysRead(key)' = KeysRead(key)
  BY <1>1, <1>2, <1>3, ArgumentRead
<1>5. next \notin Before(Prompts, ArgsRead)
  <2>1. ArgsRead = next /\ next \in Nat
    BY <1>1 DEF ArgsRead, TypeOK, Indexed
  <2>. QED
    BY <2>1 DEF Before
<1>6. Cardinality(Before(Prompts, ArgsRead) \cup {next})
        = Cardinality(Before(Prompts, ArgsRead)) + 1
  BY <1>5, PromptsCounted, FS_AddElement
<1>. QED
  BY <1>1, <1>4, <1>6 DEF PromptsRead

\* Other steps leave the prompts, the input and, but for a line of the file,
\* the password as they are.
LEMMA PromptsKept ==
  ASSUME TypeOK, FlagNext, ReadsArguments, ~TakePassword, ~ArgumentThrows
  PROVE  /\ PromptsRead' = PromptsRead /\ \A key : KeysRead(key)' = KeysRead(key)
<1>. USE DEF world
<1>1. UNCHANGED <<argv, props>> /\ step = "args"
  BY DEF ReadsArguments, EmptyArgument, Switch, TakeValue, TakeType, AskPassword, ArgumentsEnd
<1>2. FlagAt(next)
  BY <1>1 DEF FlagNext
<1>. SUFFICES /\ Before(Prompts, ArgsRead)' = Before(Prompts, ArgsRead)
              /\ \A key : KeysRead(key)' = KeysRead(key)
  BY DEF PromptsRead
<1>3. ASSUME NEW flag \in Switches \cup {""}, argv[next] = flag, next <= Len(argv),
             step' = "args", next' = next + 1
      PROVE  /\ Before(Prompts, ArgsRead)' = Before(Prompts, ArgsRead)
             /\ \A key : KeysRead(key)' = KeysRead(key)
  <2>1. flag \notin TakesValue
    BY DEF Switches, TakesValue
  <2>2. next \notin Prompts
    BY <1>3, PromptArgument
  <2>. QED
    BY <1>1, <1>2, <1>3, <2>1, <2>2, ArgumentRead
<1>4. CASE EmptyArgument
  <2>1. argv[next] = "" /\ next <= Len(argv) /\ step' = "args" /\ next' = next + 1
    BY <1>1, <1>4 DEF EmptyArgument
  <2>. QED
    BY <1>3, <2>1
<1>5. CASE \/ Switch("-secure", "secure_only", TRUE)
           \/ Switch("-insecure", "secure_only", FALSE)
           \/ Switch("-anonymous", "require_login", FALSE)
           \/ Switch("-login", "require_login", TRUE)
  <2>1. /\ argv[next] \in Switches /\ next <= Len(argv)
        /\ step' = "args" /\ next' = next + 1
    BY <1>1, <1>5 DEF Switch, Switches
  <2>. QED
    BY <1>3, <2>1
<1>6. CASE TakeValue("-conf", "conf_file") \/ TakeValue("-u", "username") \/ TakeType
  <2>1. /\ next < Len(argv) /\ argv[next] \in TakesValue
        /\ step' = "args" /\ next' = next + 2
    BY <1>1, <1>6 DEF TakeValue, TakeType, TakesValue
  <2>2. {} \cap TakesValue = {}
    OBVIOUS
  <2>. QED
    BY <1>1, <1>2, <2>1, <2>2, ValueRead
<1>7. CASE AskPassword \/ ArgumentsEnd
  <2>1. next' = next /\ ArgsRead' = ArgsRead /\ PropsRead' = PropsRead
    BY <1>1, <1>7 DEF AskPassword, ArgumentsEnd, ArgsRead, PropsRead
  <2>. QED
    BY <1>1, <2>1, NothingRead
<1>. QED
  BY <1>4, <1>5, <1>6, <1>7 DEF ReadsArguments

LEMMA LineForNext ==
  ASSUME NEW n \in Nat, Len(lines) \in Nat
  PROVE  /\ n < Len(lines) /\ (\A k \in 1..n : lines[k].length <= MaxLine)
              => LineFor(n + 1) = lines[n + 1].text
         /\ n >= Len(lines) => LineFor(n + 1) = ""
         /\ (\E k \in 1..n : ~(lines[k].length <= MaxLine)) => LineFor(n + 1) = ""
<1> DEFINE m == n + 1
<1>1. m - 1 = n /\ (m <= Len(lines) <=> n < Len(lines)) /\ (n >= Len(lines) <=> ~(n < Len(lines)))
  OBVIOUS
<1> HIDE DEF m
<1>2. CASE n < Len(lines) /\ \A k \in 1..n : lines[k].length <= MaxLine
  <2>1. LineFor(m) = lines[m].text
    BY <1>1, <1>2, Zenon DEF LineFor
  <2>. QED
    BY <1>1, <1>2, <2>1, Zenon DEF m
<1>3. CASE ~(n < Len(lines) /\ \A k \in 1..n : lines[k].length <= MaxLine)
  <2>1. LineFor(m) = ""
    BY <1>1, <1>3, Zenon DEF LineFor
  <2>. QED
    BY <1>1, <1>3, <2>1, Zenon DEF m
<1>. QED
  BY <1>2, <1>3

\* A line is there to be read at a prompt as long as none was missing or too
\* long before.
LEMMA PromptLines ==
  ASSUME TypeOK, FlagNext, LinesTaken, TakePassword
  PROVE  LinesTaken' /\ conf'.password = LineFor(PromptsRead + 1)
<1>1. /\ PromptsRead' = PromptsRead + 1 /\ step = "prompt" /\ step' = "args"
      /\ UNCHANGED lines
  BY PromptCounts
<1>2. PromptsRead \in Nat /\ Len(lines) \in Nat /\ \A k \in 1..Len(lines) : lines[k].length \in Nat
  BY PromptsCounted, Lengths DEF TypeOK, Indexed
<1>3. cin_good \in BOOLEAN /\ taken \in 0..Len(lines) /\ "password" \in DOMAIN conf
  BY Names DEF TypeOK, Indexed, ConfTyped
<1>4. IF cin_good
      THEN taken = PromptsRead /\ \A k \in 1..taken : lines[k].length <= MaxLine
      ELSE \E k \in 1..PromptsRead : k > Len(lines) \/ lines[k].length > MaxLine
  BY <1>1 DEF LinesTaken, Reading
<1>5. CASE cin_good /\ taken < Len(lines)
  <2>1. /\ conf' = [conf EXCEPT !["password"] = lines[taken + 1].text]
        /\ cin_good' = (lines[taken + 1].length <= MaxLine) /\ taken' = taken + 1
    <3>1. taken # Len(lines)
      BY <1>2, <1>3, <1>5
    <3>. QED
      BY <1>5, <3>1, Zenon DEF TakePassword
  <2>2. taken = PromptsRead /\ \A k \in 1..taken : lines[k].length <= MaxLine
    BY <1>4, <1>5
  <2>3. conf'.password = LineFor(PromptsRead + 1)
    <3>1. LineFor(PromptsRead + 1) = lines[taken + 1].text
      BY <1>2, <1>5, <2>2, LineForNext
    <3>. QED
      BY <1>3, <2>1, <3>1
  <2>4. CASE lines[taken + 1].length <= MaxLine
    <3>1. cin_good' = TRUE
      BY <2>1, <2>4, Zenon
    <3>2. \A k \in 1..taken + 1 : lines[k].length <= MaxLine
      BY <1>3, <2>2, <2>4
    <3>. QED
      BY <1>1, <2>1, <2>2, <2>3, <3>1, <3>2 DEF LinesTaken
  <2>5. CASE ~(lines[taken + 1].length <= MaxLine)
    <3>3. (lines[taken + 1].length <= MaxLine) = FALSE
      BY <2>5
    <3>1. cin_good' = FALSE
      BY <2>1, <3>3, Zenon
    <3>2. taken + 1 \in 1..PromptsRead + 1 /\ lines[taken + 1].length > MaxLine
      BY <1>2, <1>3, <1>5, <2>2, <2>5, MaxLineAssumption
    <3>. QED
      BY <1>1, <2>3, <3>1, <3>2 DEF LinesTaken
  <2>. QED
    BY <2>4, <2>5
<1>6. CASE ~(cin_good /\ taken < Len(lines))
  <2>1. conf' = [conf EXCEPT !["password"] = ""] /\ cin_good' = FALSE
    BY <1>6 DEF TakePassword
  <2>2. \E k \in 1..PromptsRead + 1 : k > Len(lines) \/ lines[k].length > MaxLine
    <3>1. CASE cin_good
      <4>1. taken = PromptsRead /\ taken = Len(lines)
        BY <1>2, <1>3, <1>4, <1>6, <3>1
      <4>2. PromptsRead + 1 \in 1..PromptsRead + 1 /\ PromptsRead + 1 > Len(lines)
        BY <1>2, <4>1
      <4>. QED
        BY <4>2
    <3>2. CASE ~cin_good
      BY <1>2, <1>4, <3>2
    <3>. QED
      BY <3>1, <3>2
  <2>3. LineFor(PromptsRead + 1) = ""
    <3>1. CASE PromptsRead >= Len(lines)
      BY <1>2, <3>1, LineForNext
    <3>2. CASE \E k \in 1..PromptsRead : lines[k].length > MaxLine /\ k <= Len(lines)
      <4>1. \E k \in 1..PromptsRead : ~(lines[k].length <= MaxLine)
        BY <1>2, <3>2, MaxLineAssumption
      <4>. QED
        BY <1>2, <4>1, LineForNext
    <3>3. CASE cin_good
      <4>1. taken = PromptsRead /\ ~(taken < Len(lines))
        BY <1>4, <1>6, <3>3, Zenon
      <4>2. PromptsRead >= Len(lines)
        BY <1>2, <4>1
      <4>. QED
        BY <3>1, <4>2
    <3>4. CASE ~cin_good
      <4>1. PICK k \in 1..PromptsRead : k > Len(lines) \/ lines[k].length > MaxLine
        BY <1>4, <3>4
      <4>2. CASE k > Len(lines)
        <5>1. PromptsRead >= Len(lines)
          BY <1>2, <4>2
        <5>. QED
          BY <3>1, <5>1
      <4>3. CASE k <= Len(lines)
        <5>1. ~(k > Len(lines))
          BY <1>2, <4>3
        <5>. QED
          BY <3>2, <4>1, <4>3, <5>1, Zenon
      <4>4. k <= Len(lines) \/ k > Len(lines)
        BY <1>2
      <4>. QED
        BY <4>2, <4>3, <4>4
    <3>. QED
      BY <3>3, <3>4
  <2>4. conf'.password = LineFor(PromptsRead + 1)
    BY <1>3, <2>1, <2>3
  <2>. QED
    BY <1>1, <2>1, <2>2, <2>4 DEF LinesTaken
<1>. QED
  BY <1>5, <1>6

LEMMA ArgumentsPassword ==
  ASSUME TypeOK, FlagNext, LinesTaken, PasswordSoFar, ReadsArguments
  PROVE  LinesTaken' /\ PasswordSoFar'
<1>1. CASE TakePassword
  <2>1. LinesTaken' /\ conf'.password = LineFor(PromptsRead + 1)
    BY <1>1, PromptLines
  <2>2. PromptsRead' = PromptsRead + 1 /\ UNCHANGED lines /\ PromptsRead \in Nat
    BY <1>1, PromptCounts, PromptsCounted
  <2>3. PromptsRead' # 0 /\ LineFor(PromptsRead)' = LineFor(PromptsRead + 1)
    BY <2>2 DEF LineFor
  <2>. QED
    BY <2>1, <2>3 DEF PasswordSoFar
<1>2. CASE ArgumentThrows
  BY <1>2 DEF ArgumentThrows, LinesTaken, PasswordSoFar, Reading
<1>3. CASE ~TakePassword /\ ~ArgumentThrows
  <2>1. PromptsRead' = PromptsRead /\ \A key : KeysRead(key)' = KeysRead(key)
    BY <1>3, PromptsKept
  <2>2. UNCHANGED <<props, lines, taken, cin_good>> /\ Reading
    BY <1>3 DEF ReadsArguments, EmptyArgument, Switch, TakeValue, TakeType, AskPassword,
       ArgumentsEnd, world, cin, Reading
  <2>3. conf'.password = conf.password
    <3>1. CASE conf' = conf
      BY <3>1
    <3>2. CASE \E name \in {"secure_only", "require_login", "conf_file", "username", "type"} :
                 \E value : conf' = [conf EXCEPT ![name] = value]
      BY <3>2, SettingChanges, Names DEF TypeOK, ConfTyped
    <3>. QED
      BY <1>3, <3>1, <3>2 DEF ReadsArguments, EmptyArgument, Switch, TakeValue, TakeType,
         AskPassword, ArgumentsEnd
  <2>4. LineFor(PromptsRead)' = LineFor(PromptsRead)
    BY <2>1, <2>2 DEF LineFor
  <2>. QED
    BY <2>1, <2>2, <2>3, <2>4 DEF LinesTaken, PasswordSoFar
<1>. QED
  BY <1>1, <1>2, <1>3

LEMMA FilePassword ==
  ASSUME TypeOK, FlagNext, LinesTaken, PasswordSoFar, ReadsFile
  PROVE  LinesTaken' /\ PasswordSoFar'
<1>1. CASE ~Reading'
  BY <1>1 DEF LinesTaken, PasswordSoFar
<1>2. CASE Reading'
  <2>1. UNCHANGED <<argv, props, lines, taken, cin_good>> /\ Reading
        /\ step \in {"find", "open", "file"}
    BY DEF ReadsFile, Find, FindFails, Open, ReadProperty, PropertyThrows,
       PropertyTerminates, FileEnds, world, cin, Reading
  <2>2. PromptsRead = 0
    BY <2>1, NoFlagRead, PromptsCounted
  <2>3. PromptsRead' = 0
    <3>1. Before(Prompts, ArgsRead)' = {}
      <4>1. CASE FileEnds
        BY <4>1, FileRead
      <4>2. CASE ~FileEnds
        <5>1. ArgsRead' = 1 /\ ArgsRead = 1
          BY <1>2, <2>1, <4>2 DEF ReadsFile, Find, FindFails, Open, ReadProperty,
             PropertyThrows, PropertyTerminates, ArgsRead, Reading
        <5>. QED
          BY <2>1, <5>1, NoFlagRead, WorldKept DEF Before
      <4>. QED
        BY <4>1, <4>2
    <3>. QED
      BY <3>1, FS_EmptySet DEF PromptsRead
  <2>4. LinesTaken'
    BY <2>1, <2>2, <2>3 DEF LinesTaken
  <2> DEFINE key == "DB.PASSWORD"
  <2>5. CASE ReadProperty /\ props[next].key = key
    <3>1. /\ step = "file" /\ step' = "file" /\ next <= Len(props) /\ next' = next + 1
      BY <2>5 DEF ReadProperty
    <3>2. KeysRead(key)' = KeysRead(key) \cup {next}
      BY <2>1, <2>5, <3>1, PropertyRead
    <3>3. Last(KeysRead(key)') = next /\ KeysRead(key)' # {}
      <4>1. PropsRead = next /\ next \in Nat /\ InFile(key) \in SUBSET Nat
        BY <3>1 DEF PropsRead, TypeOK, Indexed, InFile
      <4>. QED
        BY <3>2, <4>1, LastOfNew DEF KeysRead
    <3>4. conf' = [conf EXCEPT !["password"] = props[next].value]
      BY <2>5, KeyTypes DEF ReadProperty
    <3>5. conf'.password = props[next].value
      BY <3>4, SettingChanges, Names DEF TypeOK, ConfTyped
    <3>6. PasswordSoFar'
      BY <2>1, <2>3, <3>3, <3>5 DEF PasswordSoFar
    <3>. QED
      BY <2>4, <3>6
  <2>6. CASE ~(ReadProperty /\ props[next].key = key)
    <3>1. KeysRead(key)' = KeysRead(key)
      <4>1. CASE ReadProperty
        <5>1. /\ step = "file" /\ step' = "file" /\ next <= Len(props) /\ next' = next + 1
          BY <4>1 DEF ReadProperty
        <5>. QED
          BY <2>1, <2>6, <4>1, <5>1, PropertyRead
      <4>2. CASE FileEnds
        BY <4>2, FileRead
      <4>3. CASE Find \/ Open
        <5>1. ArgsRead' = ArgsRead /\ PropsRead' = PropsRead /\ next' = next
          BY <1>2, <4>3 DEF Find, Open, ArgsRead, PropsRead, Reading
        <5>. QED
          BY <2>1, <5>1, NothingRead
      <4>. QED
        BY <1>2, <4>1, <4>2, <4>3 DEF ReadsFile, FindFails, PropertyThrows,
           PropertyTerminates, Reading
    <3>2. conf'.password = conf.password
      <4>1. CASE conf' = conf
        BY <4>1
      <4>2. CASE \E name \in DOMAIN Defaults \ {"password"} : \E value :
                   conf' = [conf EXCEPT ![name] = value]
        BY <4>2, SettingChanges, Names DEF TypeOK, ConfTyped
      <4>3. CASE ReadProperty
        <5>1. props[next].key # key
          BY <2>6, <4>3
        <5>2. \E name \in DOMAIN Defaults \ {"password"} : \E value :
                conf' = [conf EXCEPT ![name] = value]
          BY <4>3, <5>1, KeyTypes, Names DEF ReadProperty
        <5>. QED
          BY <4>2, <5>2
      <4>4. CASE Find
        BY <4>2, <4>4, Names DEF Find
      <4>. QED
        BY <4>1, <4>3, <4>4 DEF ReadsFile, FindFails, Open, PropertyThrows,
           PropertyTerminates, FileEnds
    <3>3. PasswordSoFar'
      BY <2>1, <2>2, <2>3, <3>1, <3>2 DEF PasswordSoFar
    <3>. QED
      BY <2>4, <3>3
  <2>. QED
    BY <2>5, <2>6
<1>. QED
  BY <1>1, <1>2

LEMMA PasswordInit == Init => LinesTaken /\ PasswordSoFar
<1>. SUFFICES ASSUME Init PROVE LinesTaken /\ PasswordSoFar
  OBVIOUS
<1>1. Len(argv) \in Nat /\ Len(props) \in Nat /\ ArgsRead = 1 /\ PropsRead = 1
  BY Lengths DEF Init, ArgsRead, PropsRead
<1>2. (\A k \in 1..Len(argv) : ~(k < 1)) /\ (\A k \in 1..Len(props) : ~(k < 1))
  BY <1>1
<1>3. Before(Prompts, ArgsRead) = {} /\ KeysRead("DB.PASSWORD") = {}
  BY <1>1, <1>2 DEF KeysRead, Prompts, InFile, Before
<1>4. PromptsRead = 0
  BY <1>3, FS_EmptySet DEF PromptsRead
<1>5. conf.password = "" /\ cin_good = TRUE /\ taken = 0
  BY DEF Init, Defaults
<1>6. LinesTaken
  <2>1. \A k \in 1..0 : FALSE
    OBVIOUS
  <2>2. \A k \in 1..taken : lines[k].length <= MaxLine
    BY <1>5, <2>1, Zenon
  <2>. QED
    BY <1>4, <1>5, <2>2, Zenon DEF LinesTaken
<1>7. PasswordSoFar
  BY <1>3, <1>4, <1>5 DEF PasswordSoFar
<1>. QED
  BY <1>6, <1>7

\* Once everything has been read, the password is the line of the last prompt if
\* there was one, "" if that line was missing or one before it too long, and the
\* file's without a prompt: for any file, command line and input.
THEOREM PasswordOfLastPromptCorrect == Spec => []PasswordOfLastPrompt
<1> DEFINE IInv == FlagNext /\ FlagsSoFar /\ LinesTaken /\ PasswordSoFar
<1>1. TypeOK /\ IInv /\ UNCHANGED vars => IInv'
  <2>. SUFFICES ASSUME TypeOK, IInv, UNCHANGED vars
                PROVE  IInv'
    OBVIOUS
  <2>1. UNCHANGED <<argv, props, next, step, conf, lines, taken, cin_good>>
    BY DEF vars
  <2>2. ArgsRead' = ArgsRead /\ PropsRead' = PropsRead
    BY <2>1 DEF ArgsRead, PropsRead
  <2>3. FlagNext' /\ FlagsSoFar'
    BY <2>1, <2>2, NothingRead, AskedKept, WorldKept DEF FlagNext, FlagsSoFar, Reading
  <2>4. PromptsRead' = PromptsRead /\ KeysRead("DB.PASSWORD")' = KeysRead("DB.PASSWORD")
    BY <2>1, <2>2, NothingRead DEF PromptsRead
  <2>5. LineFor(PromptsRead)' = LineFor(PromptsRead)
    BY <2>1, <2>4 DEF LineFor
  <2>. QED
    BY <2>1, <2>3, <2>4, <2>5 DEF LinesTaken, PasswordSoFar, Reading
<1>2. TypeOK /\ IInv /\ Next => IInv'
  BY FileFlags, ArgumentsFlags, FilePassword, ArgumentsPassword DEF Next
<1>3. TypeOK /\ IInv => PasswordOfLastPrompt
  <2>. SUFFICES ASSUME TypeOK, PasswordSoFar, step = "done"
                PROVE  PasswordOfLastPrompt
    BY DEF PasswordOfLastPrompt
  <2>1. Before(Prompts, ArgsRead) = Prompts /\ KeysRead("DB.PASSWORD") = InFile("DB.PASSWORD")
    BY AllRead
  <2>2. PromptsRead = Cardinality(Prompts) /\ (PromptsRead = 0 <=> Prompts = {})
    BY <2>1, PromptsCounted DEF PromptsRead
  <2>. QED
    BY <2>1, <2>2 DEF PasswordSoFar, PasswordOfLastPrompt, Reading
<1>4. Init => IInv
  BY FlagsInit, PasswordInit
<1>. QED
  BY <1>1, <1>2, <1>3, <1>4, TypeCorrect, PTL DEF Spec
==============================================================================
