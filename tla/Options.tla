------------------------------- MODULE Options -------------------------------
(***************************************************************************)
(* The settings (src/Options.cpp): the constructor finds and reads the     *)
(* configuration file, then goes through the command line and, for some    *)
(* arguments, asks for a password on the terminal.                         *)
(*                                                                         *)
(* Of the file system, whether each place the constructor looks in has a   *)
(* file; of the file, its keys and values in order; of the standard input, *)
(* its lines, of which one that is too long has the text that fits.        *)
(***************************************************************************)
EXTENDS Integers, Sequences, FiniteSets

CONSTANTS
    CommandLines,  \* the arguments the program may be started with
    ConfFiles,     \* the properties a configuration file may have
    Inputs,        \* the lines that may stand on the standard input, in order
    MaxLine        \* characters of a line that the buffer holds

ASSUME MaxLineAssumption == MaxLine \in Nat

\* Arguments, keys, values and what is typed are strings.
ASSUME WorldAssumption ==
    /\ CommandLines \subseteq Seq(STRING)
    /\ ConfFiles \subseteq Seq([key : STRING, value : STRING])
    /\ Inputs \subseteq Seq([text : STRING, length : Nat])

\* The parser refuses a file that has a key twice.
ASSUME ConfFilesAssumption ==
    \A file \in ConfFiles : \A j, k \in 1..Len(file) : file[j].key = file[k].key => j = k

Property(key, value) == [key |-> key, value |-> value]
TypedLine(text, length) == [text |-> text, length |-> length]

Types == {"MySQL", "PostgreSQL", "SQLite3", "TSQL"}
Booleans == [value \in {"true", "1", "false", "0"} |-> value \in {"true", "1"}]

\* Looked in one after the other: "home" is that of HOME, "passwd" that of
\* the user database.
Places == <<"etc", "home", "passwd", "runtime">>

VARIABLES
    step,       \* "find", "open", "file", "args", "prompt"; or how it ended:
                \* "done", "threw", "terminated"
    files,      \* the places that have a file
    props,      \* the properties of the file
    argv,
    next,       \* the property, then the argument, to look at
    conf,       \* the settings
    echo,       \* the terminal shows what is typed
    lines,      \* the standard input, up to its end
    taken,      \* lines of it that have been read, or begun
    cin_good    \* std::cin has not failed

vars == <<step, files, props, argv, next, conf, echo, lines, taken, cin_good>>
world == <<files, props, argv, lines>>
cin == <<taken, cin_good>>

Defaults ==
    [conf_file |-> "", secure_only |-> FALSE, require_login |-> TRUE, type |-> "",
     database |-> "", username |-> "", password |-> "", dsn |-> "", debug |-> FALSE]

Init ==
    /\ step = "find" /\ files \in SUBSET {Places[k] : k \in 1..Len(Places)}
    /\ props \in ConfFiles /\ argv \in CommandLines
    /\ lines \in Inputs
    /\ next = 1 /\ conf = Defaults /\ echo = TRUE /\ taken = 0 /\ cin_good = TRUE
------------------------------------------------------------------------------
(* The configuration file.                                                 *)

Find ==
    /\ step = "find" /\ files # {}
    /\ \E k \in 1..Len(Places) :
         /\ Places[k] \in files /\ \A j \in 1..k - 1 : Places[j] \notin files
         /\ conf' = [conf EXCEPT !.conf_file = Places[k]]
    /\ step' = "open"
    /\ UNCHANGED <<world, next, echo, cin>>

FindFails ==
    /\ step = "find" /\ files = {}
    /\ step' = "threw"
    /\ UNCHANGED <<world, next, conf, echo, cin>>

\* The stream cannot be opened: system_error.  The text is no INI file: the
\* parser's exception, which the exception specification does not let out.
Open ==
    /\ step = "open"
    /\ step' \in {"file", "threw", "terminated"}
    /\ UNCHANGED <<world, next, conf, echo, cin>>

BoolKeys ==
    [key \in {"SECURE_ONLY", "REQUIRE_LOGIN"} |->
        IF key = "SECURE_ONLY" THEN "secure_only" ELSE "require_login"]
TextKeys ==
    [key \in {"DB.DATABASE", "DB.USERNAME", "DB.PASSWORD", "DB.DSN"} |->
        CASE key = "DB.DATABASE" -> "database" [] key = "DB.USERNAME" -> "username"
          [] key = "DB.PASSWORD" -> "password" [] key = "DB.DSN" -> "dsn"]

ReadProperty ==
    LET p == props[next] IN
    /\ step = "file" /\ next <= Len(props)
    /\ \/ /\ p.key \in DOMAIN BoolKeys /\ p.value \in DOMAIN Booleans
          /\ conf' = [conf EXCEPT ![BoolKeys[p.key]] = Booleans[p.value]]
       \/ /\ p.key = "DB.TYPE" /\ p.value \in Types
          /\ conf' = [conf EXCEPT !.type = p.value]
       \/ /\ p.key \in DOMAIN TextKeys
          /\ conf' = [conf EXCEPT ![TextKeys[p.key]] = p.value]
    /\ next' = next + 1
    /\ UNCHANGED <<step, world, echo, cin>>

\* An unknown key or database type: system_error.
PropertyThrows ==
    LET p == props[next] IN
    /\ step = "file" /\ next <= Len(props)
    /\ \/ p.key \notin DOMAIN BoolKeys \cup DOMAIN TextKeys \cup {"DB.TYPE"}
       \/ p.key = "DB.TYPE" /\ p.value \notin Types
    /\ step' = "threw"
    /\ UNCHANGED <<world, next, conf, echo, cin>>

\* get_value<bool>() throws an exception that is no system_error.
PropertyTerminates ==
    LET p == props[next] IN
    /\ step = "file" /\ next <= Len(props)
    /\ p.key \in DOMAIN BoolKeys /\ p.value \notin DOMAIN Booleans
    /\ step' = "terminated"
    /\ UNCHANGED <<world, next, conf, echo, cin>>

FileEnds ==
    /\ step = "file" /\ next = Len(props) + 1
    /\ step' = "args" /\ next' = 1
    /\ UNCHANGED <<world, conf, echo, cin>>
------------------------------------------------------------------------------
(* Mistakes one could make in the operations below: what the properties    *)
(* must notice.  No behaviour of Spec uses them.                           *)

\* An argument that is looked at again as a flag.
TakeValueTwice(flag, name) ==
    /\ step = "args" /\ next < Len(argv) /\ argv[next] = flag
    /\ conf' = [conf EXCEPT ![name] = argv[next + 1]]
    /\ next' = next + 1
    /\ UNCHANGED <<step, world, echo, cin>>

\* A prompt nobody answers keeps the password there was.
TakePasswordOrKeep ==
    /\ step = "prompt"
    /\ IF cin_good /\ taken < Len(lines)
       THEN /\ conf' = [conf EXCEPT !.password = lines[taken + 1].text]
            /\ cin_good' = (lines[taken + 1].length <= MaxLine)
            /\ taken' = taken + 1
       ELSE conf' = conf /\ cin_good' = FALSE /\ taken' = taken
    /\ echo' = TRUE
    /\ step' = "args"
    /\ next' = next + 1
    /\ UNCHANGED <<world>>
------------------------------------------------------------------------------
(* The command line.                                                       *)

EmptyArgument ==
    /\ step = "args" /\ next <= Len(argv) /\ argv[next] = ""
    /\ next' = next + 1
    /\ UNCHANGED <<step, world, conf, echo, cin>>

Switch(flag, name, value) ==
    /\ step = "args" /\ next <= Len(argv) /\ argv[next] = flag
    /\ conf' = [conf EXCEPT ![name] = value]
    /\ next' = next + 1
    /\ UNCHANGED <<step, world, echo, cin>>

\* -conf changes the name only: the settings have been read.
TakeValue(flag, name) ==
    /\ step = "args" /\ next < Len(argv) /\ argv[next] = flag
    /\ conf' = [conf EXCEPT ![name] = argv[next + 1]]
    /\ next' = next + 2
    /\ UNCHANGED <<step, world, echo, cin>>

TakeType ==
    /\ step = "args" /\ next < Len(argv) /\ argv[next] = "-type"
    /\ argv[next + 1] \in Types
    /\ conf' = [conf EXCEPT !.type = argv[next + 1]]
    /\ next' = next + 2
    /\ UNCHANGED <<step, world, echo, cin>>

Switches == {"-secure", "-insecure", "-anonymous", "-login"}
TakesValue == {"-conf", "-type", "-u"}

\* A value is missing, or no type; "-P" itself is no flag the rest knows.
ArgumentThrows ==
    /\ step = "args" /\ next <= Len(argv)
    /\ \/ argv[next] \in TakesValue /\ next = Len(argv)
       \/ argv[next] = "-type" /\ next < Len(argv) /\ argv[next + 1] \notin Types
       \/ argv[next] = "-P"
    /\ step' = "threw"
    /\ UNCHANGED <<world, next, conf, echo, cin>>

\* flag.compare("-P") is not zero for any other argument: "-dsn", "-db" and
\* "--debug" get here too.
AskPassword ==
    /\ step = "args" /\ next <= Len(argv)
    /\ argv[next] \notin Switches \cup TakesValue \cup {"-P", ""}
    /\ echo' = FALSE
    /\ step' = "prompt"
    /\ UNCHANGED <<world, next, conf, cin>>

\* getline: of a line too long the part that fits is taken and std::cin fails,
\* as it does at the end of the input; once it has failed nothing is read.
TakePassword ==
    /\ step = "prompt"
    /\ \/ /\ cin_good /\ taken < Len(lines)
          /\ conf' = [conf EXCEPT !.password = lines[taken + 1].text]
          /\ cin_good' = (lines[taken + 1].length <= MaxLine)
          /\ taken' = taken + 1
       \/ /\ ~cin_good \/ taken = Len(lines)
          /\ conf' = [conf EXCEPT !.password = ""]
          /\ cin_good' = FALSE /\ taken' = taken
    /\ echo' = TRUE
    /\ step' = "args"
    /\ next' = next + 1
    /\ UNCHANGED <<world>>

ArgumentsEnd ==
    /\ step = "args" /\ next = Len(argv) + 1
    /\ step' = "done"
    /\ UNCHANGED <<world, next, conf, echo, cin>>
------------------------------------------------------------------------------
ReadsFile ==
    Find \/ FindFails \/ Open \/ ReadProperty \/ PropertyThrows \/ PropertyTerminates \/ FileEnds

ReadsArguments ==
    \/ EmptyArgument
    \/ Switch("-secure", "secure_only", TRUE) \/ Switch("-insecure", "secure_only", FALSE)
    \/ Switch("-anonymous", "require_login", FALSE) \/ Switch("-login", "require_login", TRUE)
    \/ TakeValue("-conf", "conf_file") \/ TakeValue("-u", "username") \/ TakeType
    \/ ArgumentThrows \/ AskPassword \/ TakePassword \/ ArgumentsEnd

Next == ReadsFile \/ ReadsArguments

Spec == Init /\ [][Next]_vars
------------------------------------------------------------------------------
\* Settings of truth stay so, others are words.
ConfTyped ==
    /\ DOMAIN conf = DOMAIN Defaults
    /\ conf.secure_only \in BOOLEAN /\ conf.require_login \in BOOLEAN
    /\ conf.type \in Types \cup {""}

\* The index stays in its list.
Indexed ==
    /\ step \in {"find", "open", "file", "args", "prompt", "done", "threw", "terminated"}
    /\ props \in ConfFiles /\ argv \in CommandLines /\ lines \in Inputs
    /\ next \in Nat \ {0} /\ (step \in {"find", "open"} => next = 1)
    /\ step = "file" => next <= Len(props) + 1
    /\ step = "args" => next <= Len(argv) + 1
    /\ step = "prompt" => next <= Len(argv)
    /\ step = "done" => next = Len(argv) + 1
    /\ echo = IF step = "prompt" THEN FALSE ELSE TRUE
    /\ cin_good \in BOOLEAN /\ taken \in 0..Len(lines)

TypeOK == Indexed /\ ConfTyped

\* The arguments that stand where a flag does.  Behind one that is no value's
\* flag stands a flag; in a row of words that are, every other one is a value.
FlagAt(k) ==
    \E j \in 0..k - 1 :
        /\ j = 0 \/ argv[j] \notin TakesValue
        /\ \A i \in j + 1..k - 1 : argv[i] \in TakesValue
        /\ (k - 1 - j) % 2 = 0
Flags(words) == {k \in 1..Len(argv) : FlagAt(k) /\ argv[k] \in words}
InFile(key) == {k \in 1..Len(props) : props[k].key = key}
Last(ks) == CHOOSE k \in ks : \A j \in ks : j <= k

Asked(on, off, key, name) ==
    CASE Flags({on, off}) # {} -> argv[Last(Flags({on, off}))] = on
      [] Flags({on, off}) = {} /\ InFile(key) # {} -> Booleans[props[Last(InFile(key))].value]
      [] OTHER -> Defaults[name]

\* The last flag decides, else the line of the file, else the default,
\* and no value of another flag is taken for one.
LastFlagWins ==
    step = "done" =>
        /\ conf.secure_only = Asked("-secure", "-insecure", "SECURE_ONLY", "secure_only")
        /\ conf.require_login = Asked("-login", "-anonymous", "REQUIRE_LOGIN", "require_login")

Prompts == {k \in 1..Len(argv) : FlagAt(k)} \ Flags(Switches \cup TakesValue \cup {"-P", ""})
LineFor(n) == IF n <= Len(lines) /\ \A k \in 1..n - 1 : lines[k].length <= MaxLine
              THEN lines[n].text ELSE ""

\* The password is that of the file, or, when the arguments ask for one, the
\* line of the last prompt: and none at all, whatever is typed there, when the
\* input has ended or a line at an earlier prompt was too long.
PasswordOfLastPrompt ==
    step = "done" =>
        conf.password =
            CASE Prompts # {} -> LineFor(Cardinality(Prompts))
              [] Prompts = {} /\ InFile("DB.PASSWORD") # {} ->
                     props[Last(InFile("DB.PASSWORD"))].value
              [] OTHER -> ""
------------------------------------------------------------------------------
(* The inductive invariants behind LastFlagWins and PasswordOfLastPrompt:  *)
(* what each says of the whole file and the whole command line holds of    *)
(* what has been read of them.                                             *)

Reading == step \notin {"threw", "terminated"}
PropsRead == IF step \in {"find", "open", "file"} THEN next ELSE Len(props) + 1
ArgsRead == IF step \in {"args", "prompt", "done"} THEN next ELSE 1
FlagNext == (step = "args" => FlagAt(next)) /\ (step = "prompt" => next \in Prompts)

Before(ks, n) == {k \in ks : k < n}
FlagsRead(words) == Before(Flags(words), ArgsRead)
KeysRead(key) == Before(InFile(key), PropsRead)

AskedSoFar(on, off, key, name) ==
    CASE FlagsRead({on, off}) # {} -> argv[Last(FlagsRead({on, off}))] = on
      [] FlagsRead({on, off}) = {} /\ KeysRead(key) # {} ->
             Booleans[props[Last(KeysRead(key))].value]
      [] OTHER -> Defaults[name]

FlagsSoFar ==
    Reading =>
        /\ conf.secure_only = AskedSoFar("-secure", "-insecure", "SECURE_ONLY", "secure_only")
        /\ conf.require_login = AskedSoFar("-login", "-anonymous", "REQUIRE_LOGIN", "require_login")

\* Each prompt has had a line of its own for as long as std::cin is good.
PromptsRead == Cardinality(Before(Prompts, ArgsRead))
LinesTaken ==
    Reading =>
        IF cin_good
        THEN /\ taken = PromptsRead
             /\ \A k \in 1..taken : lines[k].length <= MaxLine
        ELSE \E k \in 1..PromptsRead : k > Len(lines) \/ lines[k].length > MaxLine

PasswordSoFar ==
    Reading =>
        conf.password =
            CASE PromptsRead # 0 -> LineFor(PromptsRead)
              [] PromptsRead = 0 /\ KeysRead("DB.PASSWORD") # {} ->
                     props[Last(KeysRead("DB.PASSWORD"))].value
              [] OTHER -> ""
==============================================================================
