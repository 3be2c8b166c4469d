---------------------------- MODULE CommandLine ----------------------------
(***************************************************************************)
(* From a typed line to a request: the @target token, shorthand names,     *)
(* name and ID lookup, field values to TLV, shell completion, the sticky   *)
(* default of `use` and the REPL (cli: root.go, target.go, use.go,         *)
(* config.go, interactive.go, attribute.go, cluster.go, completion/;       *)
(* internal/clusters/registry.go).                                         *)
(*                                                                         *)
(* A line is a sequence of tokens:                                         *)
(*   <<"target", node, ep>>  @node/ep, or @node when ep is Unset           *)
(*   <<"plain", node, ep>>   the same without the @                        *)
(*   <<"badtarget">>         @ and something that does not parse           *)
(*   <<"word", name, exact>> a name, in its own or in another case         *)
(*   <<"num", id>>           a raw attribute ID                            *)
(*   <<"bare", v>>, <<"kv", field, exact, v>>   field values               *)
(*   <<"F", field, exact, v>>                   --field=field=v            *)
(*   <<"opt", flag, token>>                     --cluster=, --attribute=   *)
(*   <<"key", key, v>>       a key and a value of config set               *)
(*   <<"flag">>, <<"arg">>   -f and its argument;  <<"--">>                *)
(***************************************************************************)
EXTENDS TLV, FiniteSets, SequencesExt, TLC

CONSTANTS
  Fabric,       \* node -> endpoint -> clusters, the record of each node
  Specs,        \* cluster -> [attrs, cmds]: what the registry is given
                \*   attrs: name -> [id, writable, type];  cmds: name -> fields
  Globals,      \* GlobalAttributes, in the form of attrs
  Advertised,   \* cluster -> the attributes the device says it has
  Values,       \* what may be typed as a value
  TypedLines,   \* lines that are typed, not completed
  ReplLines,    \* lines that are typed into the REPL
  Environments, \* MATTER_TARGET: a target token, <<"badtarget">> or <<>>
  MaxLine,      \* length of a completed line
  MaxRuns,      \* lines that are run
  MaxTabRuns    \* of these, the first ones may be completed

VARIABLES
  config,   \* default-node and default-endpoint in config.yaml
  env,      \* MATTER_TARGET
  cache,    \* node -> endpoint -> cluster -> advertised attributes, or Unread
  line,     \* the line being typed
  offered,  \* its names were all taken from completion candidates
  repl,     \* the REPL: on, its target, the @target it was started with, the
            \*   node that config set gave it, the flags each command has seen
  runs,     \* lines run so far
  out,      \* what the last line did
  ran,      \* history: the last line run, and where
  sticky    \* history: the default that the user last set

cmdVars == <<config, env, cache, line, offered, repl, runs, out, ran, sticky>>

Unset == -1                        \* no endpoint given
Unread == {"not read"}             \* ClusterRef.Attributes = nil
NoTarget == [node |-> 0, ep |-> Unset]
ClusterNames == DOMAIN Specs

Outcome(kind, node, ep, cluster, what, payload) ==
  [kind |-> kind, node |-> node, ep |-> ep, cluster |-> cluster, what |-> what,
   payload |-> payload]
Done(kind) == Outcome(kind, 0, Unset, "", "", <<>>)
Refused(why) == Outcome("error", 0, Unset, "", why, <<>>)

-----------------------------------------------------------------------------
(* Targets.                                                                *)

IsTargetArg(tok) == tok[1] \in {"target", "badtarget"}

\* Node 0 is reserved.
ParseTarget(tok) ==
  IF tok[1] = "target" /\ tok[2] # 0 THEN [node |-> tok[2], ep |-> tok[3]] ELSE NoTarget

IsPastDoubleDash(args, i) == \E j \in 1..(i - 1) : args[j] = <<"--">>

\* The first @token before "--" is taken out, unless it does not parse.
ExtractTargetFromArgs(args) ==
  LET at == {i \in 1..Len(args) : IsTargetArg(args[i]) /\ ~IsPastDoubleDash(args, i)}
      i == CHOOSE j \in at : \A k \in at : j <= k
  IN  IF at = {} \/ ParseTarget(args[i]) = NoTarget THEN [args |-> args, target |-> NoTarget]
      ELSE [args |-> RemoveAt(args, i), target |-> ParseTarget(args[i])]

\* mutant: the sticky default comes before the environment.
ResolveTargetStickyFirst(extracted) ==
  IF extracted # NoTarget THEN extracted
  ELSE IF config.node # 0 THEN [node |-> config.node, ep |-> Unset]
  ELSE IF env # <<>> THEN ParseTarget(env) ELSE NoTarget

\* resolveTarget: the line, MATTER_TARGET if it parses, the sticky default,
\* whose endpoint 0 stands for none.
ResolveTarget(extracted) ==
  IF extracted # NoTarget THEN extracted
  ELSE IF env # <<>> /\ ParseTarget(env) # NoTarget THEN ParseTarget(env)
  ELSE IF config.node # 0
    THEN [node |-> config.node, ep |-> IF config.ep = 0 THEN Unset ELSE config.ep]
  ELSE NoTarget

\* requireTarget: an endpoint that was not given is endpoint 0.
RequiredEndpoint(t) == IF t.ep = Unset THEN 0 ELSE t.ep

-----------------------------------------------------------------------------
(* Names.                                                                  *)

IsFlag(tok) == tok[1] \in {"F", "opt", "flag", "--"}

\* normalizeShorthandArgs: the first token that is no flag, if it names a
\* cluster, and the next, if it names one of its commands.
NormalizeShorthandArgs(args) ==
  LET pos == {i \in 1..Len(args) : ~IsFlag(args[i])}
      first == CHOOSE i \in pos : \A j \in pos : i <= j
      rest == pos \ {first}
      second == CHOOSE i \in rest : \A j \in rest : i <= j
      cl == args[first][2]
  IN  IF pos = {} \/ args[first][1] # "word" \/ cl \notin ClusterNames THEN args
      ELSE IF rest = {} \/ args[second][1] # "word" \/ args[second][2] \notin DOMAIN Specs[cl].cmds
        THEN [args EXCEPT ![first] = <<"word", cl, TRUE>>]
      ELSE [args EXCEPT ![first] = <<"word", cl, TRUE>>,
                        ![second] = <<"word", args[second][2], TRUE>>]

\* Register adds the global attributes; a lookup takes the first match.
Attributes(cl) == Specs[cl].attrs @@ Globals

AttributeByID(cl, id) == {a \in DOMAIN Attributes(cl) : Attributes(cl)[a].id = id}

\* resolveReadableAttribute and resolveWritableAttribute: a name, or an ID
\* that the registry knows; reading takes any ID.  "" is unknown.
ResolveReadableAttribute(cl, tok) ==
  CASE tok[1] = "word" /\ tok[2] \in DOMAIN Attributes(cl) -> tok[2]
    [] tok[1] = "num" -> IF AttributeByID(cl, tok[2]) # {}
                           THEN CHOOSE a \in AttributeByID(cl, tok[2]) : TRUE ELSE "raw"
    [] OTHER -> ""

ResolveWritableAttribute(cl, tok) ==
  CASE tok[1] = "word" /\ tok[2] \in DOMAIN Attributes(cl) -> tok[2]
    [] tok[1] = "num" /\ AttributeByID(cl, tok[2]) # {} ->
         CHOOSE a \in AttributeByID(cl, tok[2]) : TRUE
    [] OTHER -> ""

-----------------------------------------------------------------------------
(* Values.                                                                 *)

\* What the parsers of strconv, encoding/hex and the bool switch make of the
\* strings that are typed here; a string not listed is refused.
ParseBool == [x \in {"1", "on"} |-> TRUE] @@ [x \in {"0"} |-> FALSE]
ParseUint == ("0" :> 0) @@ ("1" :> 1) @@ ("300" :> 300) @@ ("0xAB" :> 171)
ParseInt  == ParseUint @@ ("-2" :> -2)
HexLength == ("0xAB" :> 1) @@ ("" :> 0)
StringLength == ("0" :> 1) @@ ("1" :> 1) @@ ("300" :> 3) @@ ("0xAB" :> 4) @@ ("-2" :> 2)
                  @@ ("on" :> 2) @@ ("Up" :> 2) @@ ("text" :> 4) @@ ("" :> 0)

\* encodeTaggedValue and encodeTLVValue: one element, or none if the value
\* does not parse.  The width is the value's, not the type's.
EncodeTaggedValue(tag, type, v) ==
  CASE type = "bool" -> IF v \in DOMAIN ParseBool THEN <<PutBool(tag, ParseBool[v])>> ELSE <<>>
    [] type = "int8" -> IF v \in DOMAIN ParseInt THEN <<PutSignedInt(tag, ParseInt[v])>> ELSE <<>>
    [] type = "string" -> <<PutString(tag, "utf8", StringLength[v])>>
    [] type = "octets" -> IF v \in DOMAIN HexLength
                            THEN <<PutString(tag, "octets", HexLength[v])>> ELSE <<>>
    [] OTHER -> IF v \in DOMAIN ParseUint THEN <<PutUnsignedInt(tag, ParseUint[v])>> ELSE <<>>

\* A --value that is not given is the empty string.
ValueOf(tok) == IF tok = <<>> THEN "" ELSE IF tok[1] = "bare" THEN tok[2] ELSE "text"

-----------------------------------------------------------------------------
(* Command fields: [name, id, type, optional, enums] each.                 *)

HasField(fields, name) == \E i \in 1..Len(fields) : fields[i].name = name

\* The key a value is filed under is the name as typed, which is only the
\* field's if the case is right.
Key(tok) == <<tok[2], tok[3]>>

\* The next positional slot whose field has no value yet.
NextUnset(fields, have, from) ==
  LET free == {i \in from..Len(fields) : <<fields[i].name, TRUE>> \notin DOMAIN have}
  IN  IF free = {} THEN Len(fields) + 1 ELSE CHOOSE i \in free : \A j \in free : i <= j

\* mutant: the --field values come after the arguments.
CollectCommandFieldsFlagsLast(fields, flags, args) ==
  LET File(have, tok) == IF tok[1] \in {"kv", "F"} THEN (Key(tok) :> tok[4]) @@ have ELSE have
  IN  [bad |-> FALSE, have |-> FoldLeft(File, <<>>, args \o flags), pos |-> 1]

\* collectCommandFields: --field values first, then the arguments in order,
\* Key=Value or a bare value for the next field that has none.  A bare value
\* with no field left is dropped: posIdx never exceeds the number of fields.
CollectCommandFields(fields, flags, args) ==
  LET File(acc, tok) ==
        IF acc.bad THEN acc
        ELSE IF tok[1] \in {"kv", "F"} THEN
             IF ~HasField(fields, tok[2]) THEN [acc EXCEPT !.bad = TRUE]
             ELSE [acc EXCEPT !.have = (Key(tok) :> tok[4]) @@ @]
        ELSE LET i == NextUnset(fields, acc.have, acc.pos)
             IN  IF i > Len(fields) THEN [acc EXCEPT !.pos = Len(fields) + 1]
                 ELSE [acc EXCEPT !.have = (<<fields[i].name, TRUE>> :> ValueOf(tok)) @@ @,
                                  !.pos = i + 1]
  IN  FoldLeft(File, [bad |-> FALSE, have |-> <<>>, pos |-> 1], flags \o args)

\* encodeCommandFields after the check for required fields in invokeCommand.
EncodeCommandFields(fields, have) ==
  LET Value(f) == LET v == have[<<f.name, TRUE>>]
                  IN  IF v \in DOMAIN f.enums THEN f.enums[v] ELSE v
      given == SelectSeq(fields, LAMBDA f : <<f.name, TRUE>> \in DOMAIN have)
      elems == [i \in 1..Len(given) |->
                  EncodeTaggedValue(ContextTag(given[i].id), given[i].type, Value(given[i]))]
  IN  IF \E i \in 1..Len(fields) : ~fields[i].optional /\ <<fields[i].name, TRUE>> \notin DOMAIN have
        THEN [why |-> "missing field", elems |-> <<>>]
      ELSE IF \E i \in 1..Len(elems) : elems[i] = <<>> THEN [why |-> "value", elems |-> <<>>]
      ELSE [why |-> "", elems |-> FlattenSeq(elems)]

InvokeCommand(t, cl, cmd, flags, args) ==
  LET fields == Specs[cl].cmds[cmd]
      got == CollectCommandFields(fields, flags, args)
      enc == EncodeCommandFields(fields, got.have)
  IN  IF t = NoTarget THEN Refused("no target")
      ELSE IF fields = <<>> THEN Outcome("invoke", t.node, RequiredEndpoint(t), cl, cmd, <<>>)
      ELSE IF got.bad THEN Refused("unknown field")
      ELSE IF enc.why # "" THEN Refused(enc.why)
      ELSE Outcome("invoke", t.node, RequiredEndpoint(t), cl, cmd, enc.elems)

-----------------------------------------------------------------------------
(* Dispatch.  Cobra is case-sensitive, parses the flags of the command it  *)
(* finds, checks the number of arguments, and only then runs it.           *)

RootCommands == {"cluster", "config", "interactive", "tree", "use"}
ClusterCommands == {"read", "write", "invoke", "subscribe", "list", "discover"}
AttributeCommands == {"read", "write", "subscribe"}
SubCommands(name) ==
  CASE name = "cluster" -> ClusterCommands
    [] name \in ClusterNames -> DOMAIN Specs[name].cmds \cup AttributeCommands
    [] name = "config" -> {"set"}
    [] OTHER -> {}

\* A "--" ends the flags and the search for commands.
BeforeDash(args) == SelectInSeq(args, LAMBDA tok : tok = <<"--">>)
Head1(args) == IF BeforeDash(args) = 0 THEN args ELSE SubSeq(args, 1, BeforeDash(args) - 1)
Tail1(args) == IF BeforeDash(args) = 0 THEN <<>> ELSE SubSeq(args, BeforeDash(args) + 1, Len(args))
Flags(args) == SelectSeq(Head1(args), LAMBDA tok : tok[1] \in {"F", "opt"})
Words(args) == SelectSeq(Head1(args), LAMBDA tok : ~IsFlag(tok) /\ tok[1] # "arg")

Word(name) == <<"word", name, TRUE>>

\* The command that is found, as the one or two names of it, and the
\* arguments that are left.
CommandPath(args) ==
  LET w == Words(args)
  IN  IF w = <<>> \/ w[1] \notin {Word(n) : n \in RootCommands \cup ClusterNames} THEN <<>>
      ELSE IF Len(w) >= 2 /\ w[2] \in {Word(n) : n \in SubCommands(w[1][2])}
        THEN <<w[1][2], w[2][2]>>
      ELSE <<w[1][2]>>

Arguments(args) ==
  LET w == Words(args) IN SubSeq(w, Len(CommandPath(args)) + 1, Len(w)) \o Tail1(args)

FlagNames(path) ==
  CASE path = <<"cluster", "read">> -> {"cluster", "attribute"}
    [] path = <<"cluster", "write">> -> {"cluster", "attribute", "value"}
    [] path = <<"cluster", "subscribe">> -> {"cluster", "attribute"}
    [] path = <<"cluster", "invoke">> -> {"cluster", "command", "F"}
    [] path = <<"cluster", "discover">> -> {"cluster"}
    [] path = <<"use">> -> {"show", "clear"}
    [] Len(path) = 2 /\ path[1] \in ClusterNames ->
         IF path[2] \in DOMAIN Specs[path[1]].cmds /\ Specs[path[1]].cmds[path[2]] # <<>>
           THEN {"F"} ELSE {}
    [] OTHER -> {}

FlagName(tok) == IF tok[1] = "F" THEN "F" ELSE tok[2]

\* The last value of a flag; <<>> if it was not given.
Opt(flags, name) ==
  LET given == SelectSeq(flags, LAMBDA tok : FlagName(tok) = name)
  IN  IF given = <<>> THEN <<>> ELSE Last(given)[3]

Arity(path) ==
  CASE Len(path) = 2 /\ path[1] \in ClusterNames /\ path[2] = "read" -> 0..1
    [] Len(path) = 2 /\ path[1] \in ClusterNames /\ path[2] = "write" -> {2}
    [] Len(path) = 2 /\ path[1] \in ClusterNames /\ path[2] = "subscribe" -> {1}
    [] path = <<"config", "set">> -> {1}
    [] path = <<"use">> -> 0..1
    [] OTHER -> Nat

-----------------------------------------------------------------------------
(* The commands.                                                           *)

Request(kind, t, cl, what, payload) == Outcome(kind, t.node, RequiredEndpoint(t), cl, what, payload)

ReadAttribute(kind, t, cl, tok) ==
  IF tok = <<>> THEN Request(kind, t, cl, "*", <<>>)
  ELSE LET a == ResolveReadableAttribute(cl, tok)
       IN  IF a = "" THEN Refused("unknown attribute") ELSE Request(kind, t, cl, a, <<>>)

WriteAttribute(t, cl, tok, value) ==
  LET a == ResolveWritableAttribute(cl, tok)
  IN  IF a = "" THEN Refused("unknown attribute")
      ELSE IF ~Attributes(cl)[a].writable THEN Refused("read-only")
      ELSE LET e == EncodeTaggedValue(AnonymousTag, Attributes(cl)[a].type, ValueOf(value))
           IN  IF e = <<>> THEN Refused("value") ELSE Request("write", t, cl, a, e)

\* The long forms: cluster read, write, subscribe, invoke.
ClusterCommand(sub, t, flags, args) ==
  LET cl == Opt(flags, "cluster")
      attr == Opt(flags, "attribute")
      name == Opt(flags, "command")
  IN  IF t = NoTarget THEN Refused("no target")
      ELSE IF cl = <<>> \/ (sub \in {"write", "subscribe"} /\ attr = <<>>)
                      \/ (sub = "invoke" /\ name = <<>>) THEN Refused("required flag")
      ELSE IF cl[1] # "word" \/ cl[2] \notin ClusterNames THEN Refused("unknown cluster")
      ELSE CASE sub \in {"read", "subscribe"} -> ReadAttribute(sub, t, cl[2], attr)
             [] sub = "write" -> WriteAttribute(t, cl[2], attr, Opt(flags, "value"))
             [] sub = "invoke" ->
                  IF name[1] # "word" \/ name[2] \notin DOMAIN Specs[cl[2]].cmds
                    THEN Refused("unknown command name")
                  ELSE InvokeCommand(t, cl[2], name[2],
                                     SelectSeq(flags, LAMBDA tok : tok[1] = "F"), args)

\* The shorthand: a cluster's own command, read, write or subscribe.
ShorthandCommand(cl, sub, t, flags, args) ==
  CASE t = NoTarget -> Refused("no target")
    [] t # NoTarget /\ sub \in {"read", "subscribe"} ->
         ReadAttribute(sub, t, cl, IF args = <<>> THEN <<>> ELSE args[1])
    [] t # NoTarget /\ sub = "write" -> WriteAttribute(t, cl, args[1], args[2])
    [] OTHER -> InvokeCommand(t, cl, sub, flags, args)

\* cluster discover: the endpoints of a node, or the one endpoint that was
\* named with the target.
DiscoverTargets(t) ==
  {e \in DOMAIN Fabric[t.node] : t.ep = Unset \/ e = t.ep}

Discover(t, flags) ==
  LET cl == Opt(flags, "cluster")
  IN  IF t = NoTarget THEN Refused("no target")
      ELSE IF cl # <<>> /\ (cl[1] # "word" \/ cl[2] \notin ClusterNames) THEN Refused("unknown cluster")
      ELSE IF t.node \notin DOMAIN Fabric THEN Refused("unknown node")
      ELSE IF \A e \in DiscoverTargets(t) :
                \A c \in Fabric[t.node][e] : cl # <<>> /\ c # cl[2] THEN Refused("no such cluster")
      ELSE Outcome("discover", t.node, t.ep, IF cl = <<>> THEN "*" ELSE cl[2], "", <<>>)

\* use: the argument may lack its @; --show and no argument show the default.
Use(flags, args) ==
  LET t == IF args = <<>> THEN NoTarget
           ELSE IF args[1][1] = "plain" THEN ParseTarget(<<"target">> \o Tail(args[1]))
           ELSE ParseTarget(args[1])
  IN  IF {"show", "clear"} \subseteq {FlagName(f) : f \in Range(flags)} THEN Refused("flags")
      ELSE IF Opt(flags, "show") # <<>> THEN Done("show")
      ELSE IF Opt(flags, "clear") # <<>> THEN Done("clear")
      ELSE IF args = <<>> THEN Done("show")
      ELSE IF t = NoTarget THEN Refused("invalid target")
      ELSE Outcome("use", t.node, t.ep, "", "", <<>>)

\* What cobra makes of a line; before holds the flags that earlier lines of
\* the same process gave the command.
Dispatch(args, t, before) ==
  LET path == CommandPath(args)
      flags == before \o Flags(args)
      rest == Arguments(args)
  IN  IF path = <<>> THEN IF rest = <<>> THEN Done("help") ELSE Refused("unknown command")
      ELSE IF \E i \in 1..Len(flags) : FlagName(flags[i]) \notin FlagNames(path)
        THEN Refused("unknown flag")
      ELSE IF Len(rest) \notin Arity(path) THEN Refused("arguments")
      ELSE CASE path = <<"use">> -> Use(flags, rest)
             [] path = <<"config", "set">> ->
                  IF rest[1][1] = "key" THEN Outcome("set", rest[1][3], Unset, "", rest[1][2], <<>>)
                  ELSE Refused("arguments")
             [] path = <<"cluster", "discover">> -> Discover(t, flags)
             [] path \in {<<"interactive">>, <<"tree">>} -> Done(path[1])
             [] path = <<"cluster", "list">> -> Done("list")
             [] Len(path) = 1 /\ path[1] \in ClusterNames \cup {"cluster", "config"} -> Done("help")
             [] Len(path) = 2 /\ path[1] = "cluster" /\ path[2] \notin {"list", "discover"} ->
                  ClusterCommand(path[2], t, flags, rest)
             [] OTHER -> ShorthandCommand(path[1], path[2], t, flags, rest)

-----------------------------------------------------------------------------
(* Completion: the candidates for the token after the ones committed, over *)
(* every prefix of it.  The committed tokens are not normalised.           *)

\* filterShorthandCommands: with a target, the commands that need none are
\* hidden; a node alone hides the clusters as well, an endpoint the commands
\* for whole nodes and the clusters that its record does not list.
TargetUnaware == {"config", "interactive", "use"}

ClustersAt(t) ==
  IF t.ep = Unset THEN {}
  ELSE LET here == IF t.node \in DOMAIN Fabric /\ t.ep \in DOMAIN Fabric[t.node]
                     THEN Fabric[t.node][t.ep] ELSE {}
       IN  IF here = {} THEN ClusterNames ELSE here

FilterShorthandCommands(t) ==
  IF t = NoTarget THEN RootCommands \cup ClusterNames
  ELSE (RootCommands \ (TargetUnaware \cup {IF t.ep = Unset THEN "cluster" ELSE "tree"}))
         \cup ClustersAt(t)

\* The attributes that the node's record says the cluster has, if it was read.
AttributeFilter(t, cl) ==
  IF t # NoTarget /\ t.ep # Unset /\ t.node \in DOMAIN Fabric /\ t.ep \in DOMAIN Fabric[t.node]
       /\ cl \in Fabric[t.node][t.ep]
    THEN cache[t.node][t.ep][cl] ELSE Unread

\* mutant: write is offered every attribute.
AttributeCompletionsAll(t, cl, writableOnly) ==
  {Word(a) : a \in DOMAIN Attributes(cl)}

AttributeCompletions(t, cl, writableOnly) ==
  LET supported == AttributeFilter(t, cl)
  IN  {Word(a) : a \in {x \in DOMAIN Attributes(cl) :
                           /\ writableOnly => Attributes(cl)[x].writable
                           /\ supported # Unread => x \in supported}}

TargetCompletions ==
  {<<"target", n, Unset>> : n \in DOMAIN Fabric}
    \cup UNION {{<<"target", n, e>> : e \in DOMAIN Fabric[n]} : n \in DOMAIN Fabric}

\* FieldFlagCompletions: Name= for every field not yet given, and the names
\* of an enum's values; any other value is typed.
FieldCompletions(kind, fields, existing) ==
  UNION {{<<kind, fields[i].name, TRUE, v>> :
            v \in IF DOMAIN fields[i].enums = {} THEN Values ELSE DOMAIN fields[i].enums} :
          i \in {j \in 1..Len(fields) :
                   ~\E tok \in Range(existing) :
                      tok[1] \in {"kv", "F"} /\ tok[2] = fields[j].name /\ tok[3]}}

OptCompletions(name, toks) == {<<"opt", name, tok>> : tok \in toks}

\* The flags of cluster read, write, invoke, subscribe and discover.  Cobra
\* does not offer a flag again, unless it may be repeated.
FlagCompletions(sub, t, flags) ==
  LET cl == Opt(flags, "cluster")
      cmd == Opt(flags, "command")
      known == cl # <<>> /\ cl[2] \in ClusterNames
      names == FlagNames(<<"cluster", sub>>) \ ({FlagName(f) : f \in Range(flags)} \ {"F"})
  IN  UNION {
        IF "cluster" \in names THEN OptCompletions("cluster", {Word(c) : c \in ClusterNames}) ELSE {},
        IF "attribute" \in names /\ known
          THEN OptCompletions("attribute", AttributeCompletions(t, cl[2], sub = "write")) ELSE {},
        IF "command" \in names /\ known
          THEN OptCompletions("command", {Word(c) : c \in DOMAIN Specs[cl[2]].cmds}) ELSE {},
        IF "F" \in names /\ known /\ cmd # <<>> /\ cmd[2] \in DOMAIN Specs[cl[2]].cmds
          THEN FieldCompletions("F", Specs[cl[2]].cmds[cmd[2]], flags) ELSE {},
        IF "value" \in names THEN OptCompletions("value", {<<"bare", v>> : v \in Values}) ELSE {}}

Completions(committed) ==
  LET ex == ExtractTargetFromArgs(committed)
      t == ResolveTarget(ex.target)
      path == CommandPath(ex.args)
      rest == Arguments(ex.args)
  IN  CASE path = <<>> ->
             IF rest # <<>> THEN {}
             ELSE TargetCompletions \cup {Word(c) : c \in FilterShorthandCommands(t)}
        [] Len(path) = 1 ->
             IF rest # <<>> THEN {} ELSE {Word(c) : c \in SubCommands(path[1])}
        [] Len(path) = 2 /\ path[1] = "cluster" -> FlagCompletions(path[2], t, Flags(ex.args))
        [] Len(path) = 2 /\ path[1] \in ClusterNames /\ path[2] \in AttributeCommands ->
             IF rest = <<>> THEN AttributeCompletions(t, path[1], path[2] = "write")
             ELSE IF path[2] = "write" /\ Len(rest) = 1 THEN {<<"bare", v>> : v \in Values} ELSE {}
        [] Len(path) = 2 /\ path[1] \in ClusterNames /\ path[2] \notin AttributeCommands ->
             FieldCompletions("kv", Specs[path[1]].cmds[path[2]], rest)
        [] OTHER -> {}
-----------------------------------------------------------------------------
(* Steps: a token is completed, a line typed, a line run in a process of   *)
(* its own, or a line given to the REPL in another terminal.               *)

NoRepl == [on |-> FALSE, node |-> 0, ep |-> 0, extracted |-> NoTarget, over |-> 0, kept |-> <<>>]

NotRun == [line |-> <<>>, repl |-> NoRepl]

CmdInit ==
  /\ config = [node |-> 0, ep |-> 0]
  /\ env \in Environments
  /\ cache = [n \in DOMAIN Fabric |-> [e \in DOMAIN Fabric[n] |-> [c \in Fabric[n][e] |-> Unread]]]
  /\ line = <<>> /\ offered = TRUE
  /\ repl = NoRepl
  /\ runs = 0
  /\ out = Done("none")
  /\ ran = NotRun
  /\ sticky = [node |-> 0, ep |-> 0, lost |-> FALSE]

Tab ==
  /\ runs < MaxTabRuns /\ Len(line) < MaxLine /\ offered
  /\ \E tok \in Completions(line) : line' = Append(line, tok)
  /\ out' = Done("none") /\ ran' = NotRun
  /\ UNCHANGED <<config, env, cache, offered, repl, runs, sticky>>

Type ==
  /\ runs < MaxRuns /\ line = <<>>
  /\ line' \in TypedLines
  /\ offered' = FALSE
  /\ out' = Done("none") /\ ran' = NotRun
  /\ UNCHANGED <<config, env, cache, repl, runs, sticky>>

\* writeConfig saves every setting of the process: what it set itself, the
\* rest as it read it.  over is the node the process has set before.
Saved(o, over) ==
  CASE o.kind = "use" -> [node |-> o.node, ep |-> IF o.ep = Unset THEN 0 ELSE o.ep]
    [] o.kind = "clear" -> [node |-> 0, ep |-> 0]
    [] o.kind = "set" /\ o.what = "default-node" -> [config EXCEPT !.node = o.node]
    [] o.kind = "set" /\ o.what # "default-node" /\ over # 0 -> [config EXCEPT !.node = over]
    [] OTHER -> config

\* persistAttributeCache, for the lists that were read.
Cached(o) ==
  IF o.kind # "discover" THEN cache
  ELSE [cache EXCEPT ![o.node] = [e \in DOMAIN @ |->
          [c \in DOMAIN @[e] |->
             IF e \in DiscoverTargets([node |-> o.node, ep |-> o.ep]) /\ o.cluster \in {"*", c}
               THEN Advertised[c] ELSE @[e][c]]]]

Effect(o, over) ==
  /\ out' = o
  /\ config' = Saved(o, over)
  /\ cache' = Cached(o)
  /\ sticky' = CASE o.kind \in {"use", "clear"} -> Saved(o, 0) @@ [lost |-> FALSE]
                 [] o.kind = "set" /\ o.what = "default-node" -> [sticky EXCEPT !.node = o.node]
                 [] OTHER -> [sticky EXCEPT !.lost = @ \/ config' # config]

\* Execute.
Enter ==
  /\ runs < MaxRuns /\ line # <<>>
  /\ LET ex == ExtractTargetFromArgs(line)
     IN  \E o \in {Dispatch(NormalizeShorthandArgs(ex.args), ResolveTarget(ex.target), <<>>)} :
           /\ o.kind = "interactive" => ~repl.on
           /\ Effect(o, 0)
           /\ repl' = IF o.kind = "interactive"
                        THEN [NoRepl EXCEPT !.on = TRUE, !.extracted = ex.target] ELSE repl
  /\ ran' = [line |-> line, repl |-> NoRepl]
  /\ runs' = runs + 1
  /\ line' = <<>> /\ offered' = TRUE
  /\ UNCHANGED env

\* injectTarget: in front of the line, unless it holds a target.
InjectTarget(args) ==
  IF repl.node = 0 \/ \E i \in 1..Len(args) : IsTargetArg(args[i]) THEN args
  ELSE <<<<"target", repl.node, repl.ep>>>> \o args

\* A line of the REPL goes to cobra as it is.  The values of its flags stay.
ReplLine ==
  /\ repl.on /\ runs < MaxRuns
  /\ \E l \in ReplLines :
       LET args == InjectTarget(l)
           path == CommandPath(args)
           before == IF path \in DOMAIN repl.kept THEN repl.kept[path] ELSE <<>>
           known == SelectSeq(Flags(args), LAMBDA tok : FlagName(tok) \in FlagNames(path))
       IN  \E o \in {Dispatch(args, ResolveTarget(repl.extracted), before)} :
             /\ Effect(o, repl.over)
             /\ repl' = [repl EXCEPT
                           !.kept = IF path = <<>> \/ before \o known = <<>> THEN @
                                    ELSE (path :> before \o known) @@ @,
                           !.over = IF o.kind = "set" /\ o.what = "default-node" THEN o.node ELSE @]
             /\ ran' = [line |-> l, repl |-> repl]
  /\ runs' = runs + 1
  /\ UNCHANGED <<env, line, offered>>

\* handleUse: an endpoint that is not given is left as it was.
ReplUse ==
  /\ repl.on /\ runs < MaxRuns
  /\ \E tok \in TargetCompletions \cup {<<"badtarget">>} :
       LET t == ParseTarget(tok)
       IN  IF t = NoTarget THEN UNCHANGED repl
           ELSE repl' = [repl EXCEPT !.node = t.node, !.ep = IF t.ep = Unset THEN @ ELSE t.ep]
  /\ runs' = runs + 1
  /\ out' = Done("none") /\ ran' = NotRun
  /\ UNCHANGED <<config, env, cache, line, offered, sticky>>

ReplExit ==
  /\ repl.on
  /\ repl' = NoRepl
  /\ UNCHANGED <<config, env, cache, line, offered, runs, out, ran, sticky>>

CmdNext == Tab \/ Type \/ Enter \/ ReplLine \/ ReplUse \/ ReplExit

-----------------------------------------------------------------------------
(* Properties.                                                             *)

Requests == {"read", "write", "subscribe", "invoke"}

TypedValue(tok) ==
  CASE tok[1] = "bare" -> tok[2] [] tok[1] \in {"kv", "F"} -> tok[4]
    [] tok[1] = "opt" -> tok[3][2] [] OTHER -> ""

\* A line that was completed token by token is not refused for a name: what
\* completion offers (completer.go, filterShorthandCommands), from the spec or
\* from an attribute list cached earlier, is what the commands take, an
\* attribute offered for write is writable, and an enum name offered for a
\* field has a value.  It may lack a part, have a typed value that does not
\* parse, or name a second target, which completion goes on to offer.
OfferedIsAccepted ==
  offered /\ line # <<>> /\ Cardinality({i \in 1..Len(line) : IsTargetArg(line[i])}) <= 1 =>
    LET ex == ExtractTargetFromArgs(line)
        o == Dispatch(NormalizeShorthandArgs(ex.args), ResolveTarget(ex.target), <<>>)
    IN  /\ o.kind = "error" => o.what \in {"no target", "required flag", "arguments", "missing field",
                                            "value", "no such cluster"}
        /\ o.kind = "error" /\ o.what = "value" =>
             \/ \E i \in 1..Len(line) : TypedValue(line[i]) \in Values
             \/ CommandPath(ex.args) = <<"cluster", "write">>

\* A request goes to the target named in its line; without one to the one the
\* REPL's prompt shows or the REPL was started with, to MATTER_TARGET, or to
\* the default last set by use or config set, in whichever terminal; the
\* endpoint is the one named with it, or 0.  (Not, if a REPL has written a
\* default of its own over it, see Saved.)
RightTarget ==
  out.kind \in Requests =>
    LET named == {i \in 1..Len(ran.line) : ran.line[i][1] = "target" /\ ~IsPastDoubleDash(ran.line, i)}
        prompt == ran.repl.node # 0
        want == CASE named # {} -> {ParseTarget(ran.line[i]) : i \in named}
                  [] named = {} /\ prompt -> {[node |-> ran.repl.node, ep |-> ran.repl.ep]}
                  [] named = {} /\ ~prompt /\ ran.repl.extracted # NoTarget -> {ran.repl.extracted}
                  [] named = {} /\ ~prompt /\ ran.repl.extracted = NoTarget /\ env # <<>>
                       /\ env # <<"badtarget">> -> {ParseTarget(env)}
                  [] OTHER -> {[node |-> sticky.node, ep |-> sticky.ep]}
    IN  sticky.lost \/ \E t \in want : out.node = t.node /\ out.ep = RequiredEndpoint(t)

\* The tokens of a line that name a field, in the order they count: --field
\* values before Key=Value arguments; the bare values, by position.
Naming(l) == SelectSeq(Flags(l) \o Words(l), LAMBDA tok : tok[1] \in {"F", "kv"})
OwnCase(l, f) == SelectSeq(Naming(l), LAMBDA tok : tok[2] = f.name /\ tok[3])
BareAt(l) == {i \in 1..Len(l) : l[i][1] = "bare"}

\* The fields of the command that out carries.
SentFields ==
  SelectSeq(Specs[out.cluster].cmds[out.what],
            LAMBDA f : \E i \in 1..Len(out.payload) : out.payload[i].tag = f.id)

\* The fields of a command that is sent are those of the line: the tags in
\* the order of the command's fields, none twice, all required ones; a field
\* that the line names is sent and has the value named last, and the others
\* have the bare values of the line, in their order (collectCommandFields,
\* encodeCommandFields).  The exceptions, all silent: a name in another case
\* counts for nothing (AnyCaseCounts), and a bare value is dropped when no
\* field is left for it (SurplusRefused) or a Key=Value after it replaced it.
\* In a REPL, values of earlier lines come in as well.
PayloadHonest ==
  out.kind = "invoke" /\ ~ran.repl.on =>
    LET fields == Specs[out.cluster].cmds[out.what]
        sent == SentFields
        free == SelectSeq(sent, LAMBDA f : OwnCase(ran.line, f) = <<>>)
        Elem(f) == SelectSeq(out.payload, LAMBDA e : e.tag = f.id)
        Has(f, v) == Elem(f) = EncodeTaggedValue(ContextTag(f.id), f.type,
                                                 IF v \in DOMAIN f.enums THEN f.enums[v] ELSE v)
        Replaced(b) == \E i \in b..Len(ran.line) : ran.line[i][1] = "kv" /\ ran.line[i][3]
    IN  /\ [i \in 1..Len(out.payload) |-> out.payload[i].tag] = [i \in 1..Len(sent) |-> sent[i].id]
        /\ \A f \in Range(fields) :
             OwnCase(ran.line, f) # <<>> \/ ~f.optional => f \in Range(sent)
        /\ \A f \in Range(sent) \ Range(free) : Has(f, Last(OwnCase(ran.line, f))[4])
        /\ \E pick \in [1..Len(free) -> BareAt(ran.line)] :
             /\ \A i, j \in 1..Len(free) : i < j => pick[i] < pick[j]
             /\ \A i \in 1..Len(free) : Has(free[i], ran.line[pick[i]][2])
             /\ \A b \in BareAt(ran.line) \ Range(pick) : sent = fields \/ Replaced(b)

\* What types.go:82 says of FieldByName: "looks up a request field by name
\* (case-insensitive)".  A field that a line names in whatever case is sent.
AnyCaseCounts ==
  out.kind = "invoke" /\ ~ran.repl.on =>
    \A tok \in Range(Naming(ran.line)) : HasField(SentFields, tok[2])

\* What collectCommandFields says: "too many positional arguments: expected at
\* most %d for fields %s" (cli/cluster.go:1126).  A command is sent only for
\* a line with no more bare values than the command has fields.
SurplusRefused ==
  out.kind = "invoke" /\ ~ran.repl.on =>
    Cardinality(BareAt(ran.line)) <= Len(Specs[out.cluster].cmds[out.what])

\* What the help of use says: "matter use @1/1  Set node 1, endpoint 1 as
\* default" (cli/use.go).
UseSets ==
  ~ran.repl.on /\ Len(ran.line) = 2 /\ ran.line[1] = Word("use") /\ ran.line[2][1] = "target" =>
    config = [node |-> ran.line[2][2], ep |-> RequiredEndpoint(ParseTarget(ran.line[2]))]

\* What the REPL says: "Commands in interactive mode mirror the CLI commands"
\* (cli/interactive.go): a line does what the same line does in the shell, at
\* the prompt's target.
ReplMirrors ==
  ran.repl.on /\ out.kind # "none" =>
    LET ex == ExtractTargetFromArgs(ran.line)
        prompt == IF ran.repl.node = 0 THEN ran.repl.extracted
                  ELSE [node |-> ran.repl.node, ep |-> ran.repl.ep]
        t == ResolveTarget(IF ex.target # NoTarget THEN ex.target ELSE prompt)
    IN  out.kind \in Requests \cup {"error"} => out = Dispatch(NormalizeShorthandArgs(ex.args), t, <<>>)
=============================================================================
