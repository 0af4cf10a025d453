------------------------------ MODULE Startup ------------------------------
(***************************************************************************)
(* One process of pmt from its arguments to its exit status: the pass over *)
(* the early options, loading of built-in and external plugins, the pass   *)
(* over all tokens, main's checks, the run of the plugin whose subcommand  *)
(* was named, and the unloading.  The arguments are those of the command   *)
(* line followed by the words of a piped stdin.                            *)
(***************************************************************************)
EXTENDS CmdLine

CONSTANTS
  ArgLists,   \* the argument lists to try; a token is a Word or an Opt
  Builtins,   \* the plugins of the registry, in the order they registered
  Refusing,   \* plugins whose onLoad returns false
  Files,      \* which plugin is in which file
  List,       \* comma-separated values and their non-empty elements
  InDirectory \* the .so files of a plugin directory, in the order they come

VARIABLES
  args, at,   \* all tokens after argv[0], the next one
  phase,      \* where main is
  tab,        \* who registered which subcommand, see CmdLine
  value,      \* the options that are found, with the value they have
  chain,      \* the active subcommands
  toLoad,     \* plugin files still to be loaded
  loaded,     \* [builtin, external]: the manager's two lists
  unloaded,   \* history: the plugins whose onUnload ran
  ran,        \* history: what plugin ran, and its result
  status,     \* exit status, once it is known
  uses        \* history: which pass took which token for what

vars == <<args, at, phase, tab, value, chain, toLoad, loaded, unloaded, ran, status, uses>>

Token == [name : STRING, eq : STRING \cup {Absent}, dash : BOOLEAN]
Word(w) == [name |-> w, eq |-> Absent, dash |-> FALSE]
Dash(n) == [name |-> n, eq |-> Absent, dash |-> TRUE]
DashEq(n, v) == [name |-> n, eq |-> v, dash |-> TRUE]
Empty == Word("")

\* The value of an option: of a flag "true"
Value == STRING \cup {"true"}

\* A token is a word or an option; the registry names each plugin once.
ASSUME StartupAssumption ==
  /\ ArgLists \subseteq Seq(Token)
  /\ \A l \in ArgLists : \A k \in DOMAIN l : l[k].dash \/ l[k] = Word(l[k].name)
  /\ Builtins \in Seq(DOMAIN Commands) /\ IsInjective(Builtins)
  /\ Files \in [DOMAIN Files -> DOMAIN Commands]
  /\ List \in [DOMAIN List -> Seq(STRING)] /\ InDirectory \in Seq(STRING)
  /\ Absent \notin [plugin : DOMAIN Commands, result : BOOLEAN]

Given == DOMAIN value
LogFile == <<<<>>, 1>>     Plugins == <<<<>>, 2>>   PluginPath == <<<<>>, 3>>
Quiet == <<<<>>, 5>>       ForceFlag == <<<<>>, 7>>   Logical == <<<<>>, 8>>
Version == <<<<>>, 9>>     License == <<<<>>, 10>>

TypeOK ==
  /\ args \in Seq(Token) /\ at \in 1..Len(args) + 1
  /\ phase \in {"earlies", "builtins", "external", "parse", "main", "run", "leave", "ended"}
  /\ DOMAIN tab \subseteq UNION {DOMAIN Commands[p] : p \in DOMAIN Commands}
  /\ \A a \in Given : a \in Ids(tab, a[1]) /\ value[a] \in Value
  /\ Prefixes(chain) \subseteq DOMAIN tab
  /\ toLoad \in Seq(Value)
  /\ loaded \in [builtin : Seq(DOMAIN Commands), external : Seq(DOMAIN Commands)]
  /\ unloaded \in Seq(DOMAIN Commands)
  /\ status \in {Absent, 0, 1, 134, 139}
-----------------------------------------------------------------------------
(* Ways out. A Helper::Error is caught in main and ends in 1, whatever code it was
   made with: the thrown copy has lost it. Other exceptions terminate, std::exit
   leaves without unwinding. *)

Leave(code) == phase' = "leave" /\ status' = code
Throw == Leave(1)
End(code) == phase' = "ended" /\ status' = code
Terminate == End(134)
Crash == End(139)

\* Nothing moves but the phase and the status.
Aside == UNCHANGED <<args, at, tab, value, chain, toLoad, loaded, unloaded, ran, uses>>

\* One pass takes the option a with the value v and goes on at the token n.
Take(pass, a, v, n) ==
  \E r \in Handling(Opt(tab, a).kind, v) :
    /\ value' = IF r \in {"set", "exit"} THEN Over([b \in {a} |-> v], value) ELSE value
    /\ at' = IF r = "set" THEN n ELSE at
    /\ uses' = uses \cup {<<pass, i, a>> : i \in at..n - 1}
    /\ CASE r = "set"       -> UNCHANGED <<phase, status>>
         [] r = "exit"      -> End(0)
         [] r = "error"     -> Throw
         [] r = "terminate" -> Terminate
    /\ UNCHANGED <<args, tab, chain, toLoad, loaded, unloaded, ran>>

TakesNext(a) == Opt(tab, a).kind \notin {"flag", "exit"} /\ args[at].eq = Absent

\* The value of a flag, and the one behind =
TakeAlone(pass, a) ==
  Take(pass, a, IF Opt(tab, a).kind \in {"flag", "exit"} THEN "true" ELSE args[at].eq, at + 1)

\* Mutant: a value may look like an option.
TakeOptionGreedily(pass, a) ==
  IF ~TakesNext(a) THEN TakeAlone(pass, a)
  ELSE IF at < Len(args) /\ (pass = "all" \/ ~args[at + 1].dash)
       THEN Take(pass, a, args[at + 1].name, at + 2)
       ELSE Throw /\ Aside

\* The value of an option: none for a flag, behind =, or the next word. at(0) of an
\* empty next word throws.
TakeOption(pass, a) ==
  \/ ~TakesNext(a) /\ TakeAlone(pass, a)
  \/ /\ TakesNext(a) /\ at < Len(args) /\ ~args[at + 1].dash /\ args[at + 1] # Empty
     /\ Take(pass, a, args[at + 1].name, at + 2)
  \/ TakesNext(a) /\ at < Len(args) /\ args[at + 1] = Empty /\ Terminate /\ Aside
  \/ TakesNext(a) /\ (at < Len(args) => args[at + 1].dash) /\ Throw /\ Aside

\* Mutant: the loop does not go on.
SkipNothing ==
  UNCHANGED <<args, at, phase, tab, value, chain, toLoad, loaded, unloaded, ran, status, uses>>

Skip ==
  /\ at' = at + 1
  /\ UNCHANGED <<args, phase, tab, value, chain, toLoad, loaded, unloaded, ran, status, uses>>
-----------------------------------------------------------------------------
(* parse_earlies() *)

EarlyToken ==
  LET a == Find(tab, {<<>>}, args[at].name) IN
  /\ phase = "earlies" /\ at <= Len(args)
  /\ CASE args[at] = Empty                    -> Terminate /\ Aside
       [] args[at].dash /\ a # Absent /\ Opt(tab, a).early -> TakeOption("early", a)
       [] OTHER                               -> Skip

EarliesDone ==
  /\ phase = "earlies" /\ at > Len(args)
  /\ IF EarlyRequiredGiven(tab, Given) THEN phase' = "builtins" /\ UNCHANGED status ELSE Throw
  /\ Aside
-----------------------------------------------------------------------------
(* Loading *)

Elements(v) == IF v \in DOMAIN List THEN List[v] ELSE <<v>>

\* The built-in plugin that stops the loading: its instance is in no list, but the
\* commands that its onLoad registered stay.
Rejected == LET refused == {i \in DOMAIN Builtins : Builtins[i] \in Refusing} IN
  IF refused = {} THEN {} ELSE {Builtins[Min(refused)]}

\* loadBuiltinPlugins() stops behind the first that refuses, and main goes on.
\* Then the files of -p and of -d.
LoadBuiltins ==
  LET refused == {i \in DOMAIN Builtins : Builtins[i] \in Refusing}
      last == IF refused = {} THEN Len(Builtins) ELSE Min(refused) IN
  /\ phase = "builtins"
  /\ tab' = Registered(tab, SubSeq(Builtins, 1, last))
  /\ loaded' = [loaded EXCEPT !.builtin =
                  SubSeq(Builtins, 1, IF refused = {} THEN last ELSE last - 1)]
  /\ toLoad' = (IF Plugins \in Given THEN Elements(value[Plugins]) ELSE <<>>) \o
               (IF PluginPath \in Given THEN InDirectory ELSE <<>>)
  /\ phase' = "external"
  /\ UNCHANGED <<args, at, value, chain, unloaded, ran, status, uses>>

LoadedPlugins == ToSet(loaded.external) \cup ToSet(loaded.builtin)

\* Mutant: without alreadyExists().
LoadAgain ==
  LET plugin == Files[Head(toLoad)] IN
  /\ phase = "external" /\ toLoad # <<>> /\ Head(toLoad) \in DOMAIN Files
  /\ tab' = Registered(tab, <<plugin>>)
  /\ loaded' = [loaded EXCEPT !.external = Append(@, plugin)]
  /\ toLoad' = Tail(toLoad)
  /\ UNCHANGED <<args, at, phase, value, chain, unloaded, ran, status, uses>>

\* loadPlugin(): what onLoad returns is not looked at. The file may not be a plugin.
LoadPlugin ==
  LET plugin == Files[Head(toLoad)] IN
  /\ phase = "external" /\ toLoad # <<>> /\ Head(toLoad) \in DOMAIN Files
  /\ IF plugin \in LoadedPlugins THEN UNCHANGED <<tab, loaded>>
     ELSE /\ tab' = Registered(tab, <<plugin>>)
          /\ loaded' = [loaded EXCEPT !.external = Append(@, plugin)]
  /\ toLoad' = Tail(toLoad)
  /\ UNCHANGED <<args, at, phase, value, chain, unloaded, ran, status, uses>>

LoadFails ==
  /\ phase = "external" /\ toLoad # <<>> /\ Head(toLoad) \notin DOMAIN Files
  /\ Throw /\ Aside

StartParse ==
  /\ phase = "external" /\ toLoad = <<>>
  /\ phase' = "parse" /\ at' = 1
  /\ UNCHANGED <<args, tab, value, chain, toLoad, loaded, unloaded, ran, status, uses>>
-----------------------------------------------------------------------------
(* parse(): no token is empty, or parse_earlies() would have thrown. *)

Help ==
  /\ phase = "parse" /\ at <= Len(args) /\ args[at] \in {Dash("-h"), Dash("--help")}
  /\ End(0) /\ Aside

NamesCommand == Append(chain, args[at].name) \in DOMAIN tab

Subcommand ==
  /\ phase = "parse" /\ at <= Len(args) /\ ~args[at].dash
  /\ NamesCommand
  /\ chain' = Append(chain, args[at].name)
  /\ uses' = uses \cup {<<"all", at, <<chain', 0>>>>}
  /\ at' = at + 1
  /\ UNCHANGED <<args, phase, tab, value, toLoad, loaded, unloaded, ran, status>>

OptionToken ==
  LET a == Find(tab, Outwards(chain), args[at].name) IN
  /\ phase = "parse" /\ at <= Len(args) /\ args[at].dash
  /\ args[at] \notin {Dash("-h"), Dash("--help")}
  /\ IF a = Absent THEN Throw /\ Aside ELSE TakeOption("all", a)

PositionalToken ==
  LET a == NextPositional(tab, Outwards(chain), Given) IN
  /\ phase = "parse" /\ at <= Len(args) /\ ~args[at].dash
  /\ ~NamesCommand
  /\ IF a = Absent THEN Throw /\ Aside ELSE Take("all", a, args[at].name, at + 1)

ParseDone ==
  /\ phase = "parse" /\ at > Len(args)
  /\ IF Complete(tab, chain, Given) THEN phase' = "main" /\ UNCHANGED status ELSE Throw
  /\ Aside
-----------------------------------------------------------------------------
(* main(), behind the parser *)

\* Mutant: the plugin is told by its name.
IsUsedByName(plugin) == chain # <<>> /\ tab[<<chain[1]>>] = plugin

\* used(): the subcommand that this instance of the plugin registered was found. The
\* commands of a rejected built-in are those of the instance that is gone: one that
\* is loaded from a file under its name registered behind it and is never in use.
IsUsed(plugin) == chain # <<>> /\ tab[<<chain[1]>>] = plugin /\ plugin \notin Rejected

\* runUsed() and getUsed() look at the plugins in this order and take the first in use.
InOrder == loaded.external \o loaded.builtin
Used == {k \in DOMAIN InOrder : IsUsed(InOrder[k])}
FirstUsed == InOrder[Min(Used)]

\* Without root the tables may be there or not. With none the pointer is null: the
\* constructor of BasicFlags has swallowed the exception.
Device == [root : BOOLEAN, tables : {"null", "damaged", "good"}, super : BOOLEAN]

\* `-p ,` gives no plugin.
TooFew ==
  \/ Len(args) = 0
  \/ Len(args) = 2 /\ (PluginPath \in Given \/ (Plugins \in Given /\ Elements(value[Plugins]) # <<>>))

Objection(d) ==
  \/ ~d.root
  \/ d.tables = "damaged" /\ ForceFlag \notin Given
  \/ Logical \in Given /\ ~d.super
  \/ Used = {}

Check ==
  /\ phase = "main" /\ Aside
  /\ CASE TooFew                                  -> Leave(1)
       [] ~TooFew /\ {License, Version} \cap Given # {} -> Leave(0)
       [] OTHER -> \E d \in Device :
            CASE d.root /\ d.tables = "null"        -> Crash
              [] ~(d.root /\ d.tables = "null") /\ Objection(d) -> Throw
              [] OTHER                             -> phase' = "run" /\ UNCHANGED status

\* Mutant: return manager.runUsed().
RunInverted ==
  /\ phase = "run"
  /\ \E result \in BOOLEAN :
       /\ ran' = [plugin |-> FirstUsed, result |-> result]
       /\ Leave(IF result THEN 1 ELSE 0)
  /\ UNCHANGED <<args, at, tab, value, chain, toLoad, loaded, unloaded, uses>>

\* runUsed(): run() returns its result, or throws a Helper::Error: FALSE as well.
Run ==
  /\ phase = "run"
  /\ \E result \in BOOLEAN :
       /\ ran' = [plugin |-> FirstUsed, result |-> result]
       /\ Leave(IF result THEN 0 ELSE 1)
  /\ UNCHANGED <<args, at, tab, value, chain, toLoad, loaded, unloaded, uses>>

\* An exception of another type ends the process here, as a job does that uses what
\* unwinding has destroyed.
RunDies == phase = "run" /\ (Terminate \/ Crash) /\ Aside

\* ~PluginManager(); before it exists its lists are empty.
Unload ==
  /\ phase = "leave"
  /\ unloaded' = InOrder
  /\ phase' = "ended"
  /\ UNCHANGED <<args, at, tab, value, chain, toLoad, loaded, ran, status, uses>>
-----------------------------------------------------------------------------
Init ==
  /\ args \in ArgLists
  /\ at = 1 /\ phase = "earlies"
  /\ tab = [path \in {<<>>} |-> "main"]
  /\ value = [a \in {} |-> Absent]
  /\ chain = <<>> /\ toLoad = <<>>
  /\ loaded = [builtin |-> <<>>, external |-> <<>>] /\ unloaded = <<>>
  /\ ran = Absent /\ status = Absent /\ uses = {}

Ended == phase = "ended" /\ UNCHANGED vars

Step ==
  \/ EarlyToken \/ EarliesDone
  \/ LoadBuiltins \/ LoadPlugin \/ LoadFails \/ StartParse
  \/ Help \/ Subcommand \/ OptionToken \/ PositionalToken \/ ParseDone
  \/ Check \/ Unload

Next == Step \/ Run \/ RunDies \/ Ended

\* run() may never return: a question is asked for ever of a stdin at its end
\* (PartitionTableData.cpp:251), a dump retries a bad sector (partition.hpp:330).
Spec == Init /\ [][Next]_vars /\ WF_vars(Step)
-----------------------------------------------------------------------------
(* Properties *)

Passed == phase \in {"main", "run"}

\* The options of pmt that a subcommand in use has names of, too.
Shadowed(a) ==
  \E path \in Outwards(chain) \ {<<>>} : \E b \in Ids(tab, path) :
    Opt(tab, a).names \cap Opt(tab, b).names # {}

\* parse_earlies() and parse() read the same tokens by different rules. When both
\* have accepted them, every token was taken for exactly one thing, and for an early
\* option, or its value, in one pass if and only if in the other: no value was
\* read as an option or the other way round (cmdline.hpp:1228-1267, 1297-1359).
PassesAgree ==
  Passed =>
    /\ \A i \in 1..Len(args) : Cardinality({u \in uses : u[1] = "all" /\ u[2] = i}) = 1
    /\ \A a \in Ids(tab, <<>>) : Opt(tab, a).early /\ ~Shadowed(a) =>
         \A i \in 1..Len(args) : <<"early", i, a>> \in uses <=> <<"all", i, a>> \in uses

\* The plugin that runs is loaded and the one whose subcommand stands first, behind
\* nothing but pmt's options and their values; what that subcommand and those
\* below it require was given, unless a superior option was (Plugin.hpp:237-247). It
\* is the instance that registered the subcommand: behind a built-in that refused to
\* be loaded no other answers to its commands (Plugin.hpp:191).
RunsWhatWasNamed ==
  ran # Absent =>
    /\ ran.plugin \in LoadedPlugins \ Rejected
    /\ <<chain[1]>> \in DOMAIN Commands[ran.plugin]
    /\ args[Min({u[2] : u \in {w \in uses : w[1] = "all" /\ w[3][1] # <<>>}})] = Word(chain[1])
    /\ \A path \in Outwards(chain) \ {<<>>} :
         SuperiorUsed(tab, path, Given) \/ RequiredGiven(tab, path, Given)

Asked ==
  \/ \E i \in 1..Len(args) : args[i] \in {Dash("-h"), Dash("--help")}
  \/ \E a \in Given : a \in {License, Version} \/ Opt(tab, a).kind = "exit"

\* Exit status 0 means that a plugin ran and succeeded, or that help, a version or
\* the license was asked for; a plugin that failed is never reported as a success,
\* nor one that succeeded as a failure (Main.cpp:151-195).
ZeroMeansDone ==
  phase = "ended" =>
    /\ status = 0 => Asked \/ (ran # Absent /\ ran.result)
    /\ ran # Absent => status = IF ran.result THEN 0 ELSE 1

\* A plugin that has run is unloaded before the end, and an unloading reaches every
\* loaded plugin once, however often a plugin's file was named by -p, found by -d
\* or built in (Plugin.hpp:174-183, 199-221).
UnloadedOnce ==
  /\ unloaded # <<>> =>
       ToSet(unloaded) = LoadedPlugins /\ Len(unloaded) = Cardinality(LoadedPlugins)
  /\ phase = "ended" /\ ran # Absent => ran.plugin \in ToSet(unloaded)

\* Whatever the arguments are, the process ends, or stays for ever in a plugin's run:
\* neither pass over the tokens, nor the loading, loops or blocks
\* (cmdline.hpp:1228-1267, 1297-1359). It begins behind the end of a piped stdin,
\* which main reads first (Main.cpp:95-102).
Ends == <>(phase = "ended") \/ <>[](phase = "run")
=============================================================================
