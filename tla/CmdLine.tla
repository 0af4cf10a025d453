------------------------------ MODULE CmdLine ------------------------------
(***************************************************************************)
(* The command line as data: options and subcommands, what each plugin     *)
(* registers, how an option is looked up, what handling its value may end  *)
(* in, and the checks behind the last token.  The state machine is in      *)
(* Startup.  A subcommand is the path of its names; the application itself *)
(* is the empty path.                                                      *)
(***************************************************************************)
EXTENDS Integers, SequencesExt, FiniteSetsExt

CONSTANTS
  Foreign,   \* commands of plugins from elsewhere, by plugin
  Numeric,   \* values that begin with a number
  Directory, \* values that name an existing directory
  Absent     \* no value, no token

\* OptionProperties, as far as parsing looks at them. kind is what the value goes
\* through: "text", "list", "int", "size" and "buffer" (AsSizeValue; then
\* BufferSizeCheck), "dir" (ExistingDirectory), "flag", "exit" (a flag whose
\* callback ends the process).
Option == [names : SUBSET STRING, kind : STRING, positional : BOOLEAN,
           required : BOOLEAN, early : BOOLEAN, superior : BOOLEAN]

Named(names, kind) ==
  [names |-> names, kind |-> kind, positional |-> FALSE,
   required |-> FALSE, early |-> FALSE, superior |-> FALSE]
Positional(name, kind) == [Named({name}, kind) EXCEPT !.positional = TRUE]
Flag(names) == Named(names, "flag")
Required(o) == [o EXCEPT !.required = TRUE]
Early(o) == [o EXCEPT !.early = TRUE]
Superior(o) == [o EXCEPT !.superior = TRUE]
ViewVersion == Superior(Named({"-v", "--version"}, "exit"))

\* What one path stands for, and one registration over another.
Only(path, command) == [p \in {path} |-> command]
Over(f, g) == [x \in DOMAIN f \cup DOMAIN g |-> IF x \in DOMAIN f THEN f[x] ELSE g[x]]

\* A subcommand: its options in the order of registration, its groups (which of
\* them, how many at least and at most), whether a nested subcommand must follow.
Group(members, least, most) == [members |-> members, least |-> least, most |-> most]
Command(options) == [options |-> options, groups |-> {}, nests |-> FALSE]
Nesting(options) == [Command(options) EXCEPT !.nests = TRUE]

Partitions == Required(Positional("partition(s)", "list"))
BufferSize(kind) == Named({"-b", "--buffer-size"}, kind)

MainOptions ==
  <<Early(Named({"-L", "--log-file"}, "text")), Early(Named({"-p", "--plugins"}, "list")),
    Early(Named({"-d", "--plugin-directory"}, "dir")), Early(Flag({"-V", "--verbose"})),
    Early(Flag({"-q", "--quiet"})), Flag({"-s", "--select-on-duplicate"}), Flag({"-f", "--force"}),
    Flag({"-l", "--logical"}), Flag({"-v", "--version"}), Flag({"--license"})>>
-----------------------------------------------------------------------------
(* onLoad() of the plugins of this repository: the commands each registers. *)

Flash == Only(<<"flash">>, Command(
  <<Partitions, Required(Positional("imageFile(s)", "list")), BufferSize("buffer"),
    Named({"-I", "--image-directory"}, "dir"), Flag({"-d", "--delete"}), ViewVersion>>))
Backup == Only(<<"backup">>, Command(
  <<Partitions, Positional("output(s)", "list"), Named({"-O", "--output-directory"}, "dir"),
    BufferSize("buffer"), Flag({"-n", "--no-set-perms"}), Flag({"-S", "--verify"}), ViewVersion>>))
Erase == Only(<<"erase">>, Command(<<Partitions, BufferSize("buffer"), ViewVersion>>))
Info == Only(<<"info">>, Command(
  <<Partitions, Flag({"-J", "--json"}), Flag({"--as-byte"}), Flag({"--as-kilobyte"}),
    Flag({"--as-megabyte"}), Flag({"--as-gigabyte"}), Named({"--json-partition-name"}, "text"),
    Named({"--json-table-name"}, "text"), Named({"--json-size-name"}, "text"),
    Named({"--json-logical-name"}, "text"), Named({"--json-indent-size"}, "int"), ViewVersion>>))
SizeOf == Only(<<"sizeof">>, Command(
  <<Partitions, Flag({"--as-byte"}), Flag({"--as-kilobyte"}), Flag({"--as-megabyte"}),
    Flag({"--as-gigabyte"}), Flag({"--only-size"}), ViewVersion>>))
RealPath == Only(<<"real-path">>, Command(<<Partitions, Flag({"--by-name"}), ViewVersion>>))
TypeOf == Only(<<"type">>, Command(
  <<Required(Positional("content(s)", "list")), BufferSize("size"),
    Flag({"--only-check-android-magics"}), Flag({"--only-check-filesystem-magics"}), ViewVersion>>))
Reboot == Only(<<"reboot">>, Command(<<Positional("rebootTarget", "text"), ViewVersion>>))
CleanLogs == Only(<<"clean-logs">>, Command(<<ViewVersion>>))
\* The checker of testDirectory returns its objections as strings, to nobody.
MemTest == Only(<<"memtest">>, Command(
  <<Positional("testDirectory", "text"), Named({"-s", "--file-size"}, "size"),
    Flag({"--no-read-test"}), ViewVersion>>))
LpMetadata ==
  Over(Only(<<"lp-metadata">>, Nesting(<<ViewVersion>>)),
  Over(Only(<<"lp-metadata", "read-groups">>, Command(<<>>)),
       Only(<<"lp-metadata", "read-partition">>, Command(<<Partitions>>))))
Gpt ==
  LET Tables == Required(Positional("table(s)", "list")) IN
  Over(Only(<<"gpt">>, Nesting(<<ViewVersion>>)),
  Over(Only(<<"gpt", "read-table">>, Command(<<Tables>>)),
  Over(Only(<<"gpt", "backup-table">>, Command(
         <<Tables, Positional("output(s)", "list"), Named({"-o", "--output-directory"}, "text")>>)),
       Only(<<"gpt", "restore-table">>, Command(
         <<Tables, Required(Positional("file(s)", "list")), Named({"-F", "--file-directory"}, "text")>>)))))

Application == Only(<<>>, Command(MainOptions))

Commands == Over(
  [flash |-> Flash, backup |-> Backup, erase |-> Erase, info |-> Info, sizeof |-> SizeOf,
   realpath |-> RealPath, type |-> TypeOf, reboot |-> Reboot, cleanlogs |-> CleanLogs,
   memtest |-> MemTest, lpmetadata |-> LpMetadata, gpt |-> Gpt,
   main |-> Application],
  Foreign)

ASSUME CmdLineAssumption ==
  \A p \in DOMAIN Foreign : \A path \in DOMAIN Foreign[p] : Foreign[p][path].options \in Seq(Option)
-----------------------------------------------------------------------------
(* Looking up. tab says who registered each path first: getSubcommand() finds the
   first of a name, and a later one can never be used. *)

Registered(tab, plugins) ==
  LET has(path) == {k \in DOMAIN plugins : path \in DOMAIN Commands[plugins[k]]}
      paths == UNION {DOMAIN Commands[plugins[k]] : k \in DOMAIN plugins}
  IN Over(tab, [path \in paths |-> plugins[Min(has(path))]])

At(tab, path) == Commands[tab[path]][path]
Opt(tab, id) == At(tab, id[1]).options[id[2]]
Ids(tab, path) == {path} \X DOMAIN At(tab, path).options
Outwards(chain) == Prefixes(chain)
Innermost(ids) == CHOOSE a \in ids : \A b \in ids : Len(b[1]) < Len(a[1]) \/ (b[1] = a[1] /\ a[2] <= b[2])

\* findOption(), along the chain from its end, then the application
Find(tab, paths, name) ==
  LET hits == {a \in UNION {Ids(tab, p) : p \in paths} : name \in Opt(tab, a).names} IN
  IF hits = {} THEN Absent ELSE Innermost(hits)

\* getPositionalOption(): a path's positional options are used up in their order.
NextPositional(tab, paths, given) ==
  LET left == {a \in UNION {Ids(tab, p) : p \in paths} : Opt(tab, a).positional} \ given IN
  IF left = {} THEN Absent ELSE Innermost(left)

\* doToDoList(): transformer, checker, setter, callback. std::stod and std::stoi
\* throw what main does not catch. BufferSizeCheck compares with two references to
\* parameters that are gone, so a size may pass or fail, whatever it is.
Handling(kind, value) ==
  CASE kind \in {"size", "int"}  -> {IF value \in Numeric THEN "set" ELSE "terminate"}
    [] kind = "buffer" -> IF value \in Numeric THEN {"set", "error"} ELSE {"terminate"}
    [] kind = "dir"    -> {IF value \in Directory THEN "set" ELSE "error"}
    [] kind = "exit"   -> {"exit"}
    [] OTHER           -> {"set"}
-----------------------------------------------------------------------------
(* Behind the last token *)

\* anySuperiorIsUsed()
SuperiorUsed(tab, path, given) ==
  \E a \in given : IsPrefix(path, a[1]) /\ Opt(tab, a).superior

\* OptionGroup::validate(): a superior option makes no difference.
GroupsHold(tab, path, given) ==
  \A g \in At(tab, path).groups :
    LET used == Cardinality({i \in g.members : <<path, i>> \in given}) IN
    /\ g.least > 0 => used >= g.least
    /\ g.most >= 0 => used <= g.most

RequiredGiven(tab, path, given) ==
  \A a \in Ids(tab, path) : Opt(tab, a).required => a \in given

EarlyRequiredGiven(tab, given) ==
  \A a \in Ids(tab, <<>>) : Opt(tab, a).required /\ Opt(tab, a).early => a \in given

\* The checks of the application, then of each subcommand in the chain.
Complete(tab, chain, given) ==
  /\ RequiredGiven(tab, <<>>, given) /\ GroupsHold(tab, <<>>, given)
  /\ \A path \in Outwards(chain) \ {<<>>} :
       /\ \/ SuperiorUsed(tab, path, given)
          \/ /\ At(tab, path).nests => path # chain
             /\ RequiredGiven(tab, path, given)
       /\ GroupsHold(tab, path, given)
=============================================================================
