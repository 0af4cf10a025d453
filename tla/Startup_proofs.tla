--------------------------- MODULE Startup_proofs ---------------------------
(***************************************************************************)
(* Proofs about a process of pmt, for any arguments, plugins and plugin    *)
(* files, and about run() of its plugin gpt, for any tables, files and     *)
(* lists of names; the last theorem joins the two.                         *)
(*   Startup: a step either leaves the process (Stops) or is one of a few  *)
(* forms that say which option was taken in which tokens (StepCases).  The *)
(* first pass has taken every token it passed for what the table of main's *)
(* own options says (TakenFor); the second, with more subcommands, finds   *)
(* the same as long as none of them has an option of that name.            *)
(*   GptTables: what lies behind the loop's index has been dealt with, a   *)
(* failure leaves the loop, and nothing is written to a table or a file    *)
(* but those the index stands at.                                          *)
(***************************************************************************)
EXTENDS Startup, GptTables, SequenceTheorems, FiniteSetTheorems, WellFoundedInduction, TLAPS

(* The commands. *)

\* Every option of a command has a place in the list of its options.
Listed(f) == \A path \in DOMAIN f : \A k \in DOMAIN f[path].options : k \in Nat \ {0}

LEMMA CommandListed ==
  ASSUME NEW path, NEW options, \A k \in DOMAIN options : k \in Nat \ {0}
  PROVE  Listed(Only(path, Command(options))) /\ Listed(Only(path, Nesting(options)))
BY DEF Listed, Only, Command, Nesting

LEMMA OverListed ==
  ASSUME NEW f, NEW g, Listed(f), Listed(g)
  PROVE  Listed(Over(f, g))
BY DEF Listed, Over

\* Of the plugins of this repository, one by one.
LEMMA PluginsListed ==
  /\ Listed(Flash) /\ Listed(Backup) /\ Listed(Erase) /\ Listed(Info) /\ Listed(SizeOf)
  /\ Listed(RealPath) /\ Listed(TypeOf) /\ Listed(Reboot) /\ Listed(CleanLogs)
  /\ Listed(MemTest) /\ Listed(LpMetadata) /\ Listed(Gpt) /\ Listed(Application)
<1>1. Listed(Flash) /\ Listed(Backup) /\ Listed(Erase)
  BY CommandListed DEF Flash, Backup, Erase
<1>2. Listed(Info) /\ Listed(SizeOf) /\ Listed(RealPath)
  BY CommandListed DEF Info, SizeOf, RealPath
<1>3. Listed(TypeOf) /\ Listed(Reboot) /\ Listed(CleanLogs) /\ Listed(MemTest)
  BY CommandListed DEF TypeOf, Reboot, CleanLogs, MemTest
<1>4. Listed(LpMetadata)
  BY CommandListed, OverListed DEF LpMetadata
<1>5. Listed(Gpt)
  BY CommandListed, OverListed DEF Gpt
<1>6. Listed(Application)
  BY CommandListed DEF Application, MainOptions
<1>. QED BY <1>1, <1>2, <1>3, <1>4, <1>5, <1>6

LEMMA CommandsListed ==
  /\ \A p \in DOMAIN Commands : Listed(Commands[p])
  /\ "main" \in DOMAIN Commands /\ Commands["main"] = Application
<1>1. \A p \in DOMAIN Foreign : Listed(Foreign[p])
  BY CmdLineAssumption DEF Listed
<1>. QED BY <1>1, PluginsListed DEF Commands, Over

\* main's own options: none is positional.
LEMMA MainIsNotPositional ==
  ASSUME NEW k \in DOMAIN MainOptions
  PROVE  ~MainOptions[k].positional
BY DEF MainOptions, Named, Flag, Early

\* A set of natural numbers has a least element: the numbers are well-founded.
LEMMA Least ==
  ASSUME NEW T \in SUBSET Nat, T # {}
  PROVE  Min(T) \in T /\ \A y \in T : Min(T) <= y
<1> DEFINE R == OpToRel(<, Nat)
<1>1. PICK x \in T : \A y \in T : <<y, x>> \notin R
  <2>1. IsWellFoundedOn(R, Nat)
    BY NatLessThanWellFounded
  <2> HIDE DEF R
  <2>. QED BY <2>1, WFMin, Zenon
<1>2. ASSUME NEW y \in T PROVE x <= y
  <2>1. x \in Nat /\ y \in Nat
    OBVIOUS
  <2>2. ~(y < x)
    BY <1>1, <2>1 DEF OpToRel
  <2>. QED BY <2>1, <2>2
<1> HIDE DEF R
<1>3. Min(T) \in T /\ \A y \in T : Min(T) <= y
  BY <1>2 DEF Min
<1>. QED BY <1>3

-----------------------------------------------------------------------------
(* Looking up. *)

\* Who registered what did.
Sound(registry) ==
  \A path \in DOMAIN registry :
    registry[path] \in DOMAIN Commands /\ path \in DOMAIN Commands[registry[path]]

MainTab == [path \in {<<>>} |-> "main"]
MainIds == Ids(MainTab, <<>>)

LEMMA MainTabSound ==
  /\ Sound(MainTab) /\ DOMAIN MainTab = {<<>>} /\ MainTab[<<>>] = "main"
  /\ At(MainTab, <<>>).options = MainOptions
BY CommandsListed DEF Sound, MainTab, At, Application, Only, Command

\* The options of a path, by their places.
LEMMA IdsAre ==
  ASSUME NEW registry, Sound(registry), NEW path \in DOMAIN registry, NEW a \in Ids(registry, path)
  PROVE  a = <<path, a[2]>> /\ a[1] = path /\ a[2] \in Nat \ {0}
<1>1. Listed(Commands[registry[path]]) /\ path \in DOMAIN Commands[registry[path]]
  BY CommandsListed DEF Sound
<1>. QED BY <1>1 DEF Ids, At, Listed

\* The beginnings of a chain are told apart by their lengths.
LEMMA PrefixesAre ==
  ASSUME NEW c \in Seq(STRING)
  PROVE  /\ <<>> \in Prefixes(c) /\ c \in Prefixes(c) /\ Prefixes(<<>>) = {<<>>}
         /\ \A p \in Prefixes(c) : p \in Seq(STRING) /\ Len(p) \in 0..Len(c)
         /\ \A p, q \in Prefixes(c) : Len(p) = Len(q) => p = q
         /\ \A w \in STRING : Prefixes(Append(c, w)) = Prefixes(c) \cup {Append(c, w)}
         /\ \A p \in Prefixes(c) : p # <<>> => c # <<>> /\ p[1] = c[1]
<1>1. \A l \in 0..Len(c) : SubSeq(c, 1, l) \in Seq(STRING) /\ Len(SubSeq(c, 1, l)) = l
  OBVIOUS
<1>2. SubSeq(c, 1, 0) = <<>> /\ SubSeq(c, 1, Len(c)) = c
  OBVIOUS
<1>3. Prefixes(<<>>) = {<<>>}
  <2> DEFINE e == <<>>
  <2>1. e \in Seq(STRING) /\ Len(e) = 0
    OBVIOUS
  <2>2. SubSeq(e, 1, 0) = <<>>
    <3> HIDE DEF e
    <3>1. SubSeq(e, 1, 0) \in Seq(STRING) /\ Len(SubSeq(e, 1, 0)) = 0
      BY <2>1
    <3>. QED BY <3>1
  <2>3. Prefixes(e) = {SubSeq(e, 1, l) : l \in 0..Len(e)}
    BY DEF Prefixes
  <2>4. Prefixes(e) = {e}
    <3> HIDE DEF e
    <3>1. \A l : l \in 0..0 <=> l = 0
      OBVIOUS
    <3>2. SubSeq(e, 1, 0) = e
      BY <2>2 DEF e
    <3>. QED BY <2>1, <2>3, <3>1, <3>2
  <2>. QED BY <2>4
<1>4. ASSUME NEW w \in STRING PROVE Prefixes(Append(c, w)) = Prefixes(c) \cup {Append(c, w)}
  <2> DEFINE d == Append(c, w)
  <2>0. d \in Seq(STRING) /\ Len(d) = Len(c) + 1 /\ \A k \in 1..Len(c) : d[k] = c[k]
    <3>1. Append(c, w) \in Seq(STRING) /\ Len(Append(c, w)) = Len(c) + 1
      BY AppendProperties, Zenon
    <3>2. ASSUME NEW k \in 1..Len(c) PROVE Append(c, w)[k] = c[k]
      OBVIOUS
    <3>. QED BY <3>1, <3>2
  <2>1. \A l \in 0..Len(c) : SubSeq(d, 1, l) = SubSeq(c, 1, l)
    <3> HIDE DEF d
    <3>. QED BY <2>0
  <2>2. SubSeq(d, 1, Len(c) + 1) = d
    <3> HIDE DEF d
    <3>. QED BY <2>0
  <2>3. \A l : l \in 0..(Len(c) + 1) <=> l \in 0..Len(c) \/ l = Len(c) + 1
    OBVIOUS
  <2>4. Prefixes(d) = {SubSeq(d, 1, l) : l \in 0..(Len(c) + 1)}
    BY <2>0 DEF Prefixes
  <2>5. Prefixes(c) = {SubSeq(c, 1, l) : l \in 0..Len(c)}
    BY DEF Prefixes
  <2> HIDE DEF d
  <2>6. \A p : p \in Prefixes(d) <=> p \in Prefixes(c) \/ p = d
    BY <2>1, <2>2, <2>3, <2>4, <2>5
  <2>. QED BY <2>6 DEF d
<1>5. ASSUME NEW p \in Prefixes(c), p # <<>> PROVE c # <<>> /\ p[1] = c[1]
  <2>1. PICK l \in 0..Len(c) : p = SubSeq(c, 1, l)
    BY DEF Prefixes
  <2>2. l # 0
    BY <2>1, <1>2, <1>5
  <2>. QED BY <2>1, <2>2
<1>6. \A p \in Prefixes(c) : p \in Seq(STRING) /\ Len(p) \in 0..Len(c)
  BY <1>1 DEF Prefixes
<1>7. ASSUME NEW p \in Prefixes(c), NEW q \in Prefixes(c), Len(p) = Len(q) PROVE p = q
  BY <1>1, <1>7 DEF Prefixes
<1>8. <<>> \in Prefixes(c) /\ c \in Prefixes(c)
  <2>1. 0 \in 0..Len(c) /\ Len(c) \in 0..Len(c)
    OBVIOUS
  <2>. QED BY <2>1, <1>2 DEF Prefixes
<1>. QED BY <1>3, <1>4, <1>5, <1>6, <1>7, <1>8

\* Of some options of a chain, one is innermost: among those of the longest path it
\* stands first.
LEMMA InnermostIsOne ==
  ASSUME NEW c \in Seq(STRING), NEW T, T # {},
         \A a \in T : a = <<a[1], a[2]>> /\ a[1] \in Prefixes(c) /\ a[2] \in Nat
  PROVE  Innermost(T) \in T
<1> DEFINE Rest(a) == Len(c) - Len(a[1])
           Rests == {Rest(a) : a \in T}
           m == Min(Rests)
           Places == {a[2] : a \in {b \in T : Rest(b) = m}}
<1>1. \A a \in T : Len(a[1]) \in Nat /\ Rest(a) \in Nat
  BY PrefixesAre
<1>2. m \in Rests /\ \A y \in Rests : m <= y
  <2>1. Rests \in SUBSET Nat /\ Rests # {}
    BY <1>1
  <2> HIDE DEF Rests
  <2>. QED BY <2>1, Least
<1>3. Min(Places) \in Places /\ \A y \in Places : Min(Places) <= y
  <2>1. Places \in SUBSET Nat /\ Places # {}
    BY <1>2
  <2> HIDE DEF Places
  <2>. QED BY <2>1, Least
<1>4. PICK a \in T : Rest(a) = m /\ a[2] = Min(Places)
  BY <1>3
<1>5. ASSUME NEW b \in T PROVE Len(b[1]) < Len(a[1]) \/ (b[1] = a[1] /\ a[2] <= b[2])
  <2>1. m <= Rest(b) /\ Rest(a) = m
    BY <1>2, <1>4
  <2> HIDE DEF m
  <2>2. Len(b[1]) <= Len(a[1])
    BY <1>1, <2>1
  <2>3. CASE Len(b[1]) = Len(a[1])
    <3>1. b[1] = a[1]
      BY <2>3, PrefixesAre
    <3>2. a[2] <= b[2]
      BY <1>3, <1>4, <2>3, <2>1
    <3>. QED BY <3>1, <3>2
  <2>. QED BY <1>1, <2>2, <2>3
<1>. QED BY <1>5 DEF Innermost

\* What is found by a name has this name and belongs to the chain.
LEMMA FoundByName ==
  ASSUME NEW registry, Sound(registry), NEW c \in Seq(STRING), Prefixes(c) \subseteq DOMAIN registry,
         NEW name, Find(registry, Outwards(c), name) # Absent
  PROVE  LET a == Find(registry, Outwards(c), name) IN
         a[1] \in Prefixes(c) /\ a \in Ids(registry, a[1]) /\ name \in Opt(registry, a).names
<1> DEFINE hits == {a \in UNION {Ids(registry, p) : p \in Outwards(c)} : name \in Opt(registry, a).names}
<1>1. hits # {} /\ Find(registry, Outwards(c), name) = Innermost(hits)
  BY DEF Find
<1>2. \A a \in hits : /\ a = <<a[1], a[2]>> /\ a[1] \in Prefixes(c) /\ a[2] \in Nat
                      /\ a \in Ids(registry, a[1]) /\ name \in Opt(registry, a).names
  BY IdsAre DEF Outwards
<1> HIDE DEF hits
<1>3. Innermost(hits) \in hits
  BY <1>1, <1>2, InnermostIsOne
<1>. QED BY <1>1, <1>2, <1>3

\* So does the next positional option, which has not been given.
LEMMA FoundByPlace ==
  ASSUME NEW registry, Sound(registry), NEW c \in Seq(STRING), Prefixes(c) \subseteq DOMAIN registry,
         NEW given, NextPositional(registry, Outwards(c), given) # Absent
  PROVE  LET a == NextPositional(registry, Outwards(c), given) IN
         a[1] \in Prefixes(c) /\ a \in Ids(registry, a[1]) /\ Opt(registry, a).positional
<1> DEFINE left == {a \in UNION {Ids(registry, p) : p \in Outwards(c)} : Opt(registry, a).positional} \ given
<1>1. left # {} /\ NextPositional(registry, Outwards(c), given) = Innermost(left)
  BY DEF NextPositional
<1>2. \A a \in left : /\ a = <<a[1], a[2]>> /\ a[1] \in Prefixes(c) /\ a[2] \in Nat
                      /\ a \in Ids(registry, a[1]) /\ Opt(registry, a).positional
  BY IdsAre DEF Outwards
<1> HIDE DEF left
<1>3. Innermost(left) \in left
  BY <1>1, <1>2, InnermostIsOne
<1>. QED BY <1>1, <1>2, <1>3

-----------------------------------------------------------------------------
(* The invariant. *)

\* What parse_earlies() sees in a token.
Found(t) == Find(MainTab, {<<>>}, t.name)
IsEarly(t) == t.dash /\ Found(t) # Absent /\ Opt(MainTab, Found(t)).early
WantsNext(t) == IsEarly(t) /\ Opt(MainTab, Found(t)).kind \notin {"flag", "exit"} /\ t.eq = Absent
TakenFor(k, a) ==
  \/ IsEarly(args[k]) /\ a = Found(args[k])
  \/ k > 1 /\ WantsNext(args[k - 1]) /\ a = Found(args[k - 1])

Loading == phase \in {"earlies", "builtins", "external"}
Parsing == phase \in {"parse", "main", "run"}

Registry ==
  /\ Sound(tab) /\ <<>> \in DOMAIN tab /\ tab[<<>>] = "main"
  /\ phase = "earlies" => tab = MainTab
  /\ \A a \in Given : a[1] \in DOMAIN tab

Chain == chain \in Seq(STRING) /\ (Loading => chain = <<>>)

Uses ==
  \A u \in uses : u = <<u[1], u[2], u[3]>> /\ u[1] \in {"early", "all"} /\ u[2] \in 1..Len(args)

Arguments ==
  \A k \in DOMAIN args : args[k].dash \/ args[k] = Word(args[k].name)

Basics == TypeOK /\ Registry /\ Chain /\ Uses /\ Arguments

-----------------------------------------------------------------------------
(* What a step does. *)

\* The option a is taken, and the pass goes on at the token n.
Accepted(pass, a, n) ==
  /\ \E v \in Value : value' = Over([b \in {a} |-> v], value)
  /\ at' = n /\ uses' = uses \cup {<<pass, k, a>> : k \in at..n - 1}
  /\ UNCHANGED <<args, phase, status, tab, chain, toLoad, loaded, unloaded, ran>>

\* An option goes as far as its value does.
Reaches(a, n) ==
  IF Opt(tab, a).kind \notin {"flag", "exit"} /\ args[at].eq = Absent
  THEN n = at + 2 /\ at < Len(args) /\ ~args[at + 1].dash
  ELSE n = at + 1

\* The process leaves before it has run a plugin.
Stops ==
  /\ phase \in {"earlies", "external", "parse", "main", "run"} /\ phase' \in {"leave", "ended"}
  /\ status' \in {0, 1, 134, 139} /\ (status' = 0 => Asked')
  /\ \A a \in Given' : (a \in Given \/ (a \in Ids(tab, a[1]) /\ a[1] \in DOMAIN tab)) /\ value'[a] \in Value
  /\ \A u \in uses' : u \in uses \/
       (u = <<u[1], u[2], u[3]>> /\ u[1] \in {"early", "all"} /\ u[2] \in 1..Len(args))
  /\ UNCHANGED <<args, at, tab, chain, toLoad, loaded, unloaded, ran>>

EarlyTaken ==
  /\ phase = "earlies" /\ at <= Len(args) /\ IsEarly(args[at])
  /\ \E n \in Int : Accepted("early", Found(args[at]), n) /\ Reaches(Found(args[at]), n)
EarlySkipped == phase = "earlies" /\ at <= Len(args) /\ ~IsEarly(args[at]) /\ Skip
EarliesPassed ==
  phase = "earlies" /\ at > Len(args) /\ phase' = "builtins" /\ UNCHANGED status /\ Aside
OptionTaken ==
  LET a == Find(tab, Outwards(chain), args[at].name) IN
  /\ phase = "parse" /\ at <= Len(args) /\ args[at].dash /\ a # Absent
  /\ \E n \in Int : Accepted("all", a, n) /\ Reaches(a, n)
WordTaken ==
  LET a == NextPositional(tab, Outwards(chain), Given) IN
  /\ phase = "parse" /\ at <= Len(args) /\ ~args[at].dash /\ a # Absent
  /\ Accepted("all", a, at + 1)
ParsePassed ==
  /\ phase = "parse" /\ at > Len(args) /\ Complete(tab, chain, Given)
  /\ phase' = "main" /\ UNCHANGED status /\ Aside
CheckPassed ==
  phase = "main" /\ Used # {} /\ phase' = "run" /\ UNCHANGED status /\ Aside

LEMMA TokenType ==
  ASSUME TypeOK, at <= Len(args)
  PROVE  /\ at \in DOMAIN args /\ args[at].name \in STRING /\ (args[at].eq # Absent => args[at].eq \in STRING)
         /\ at < Len(args) => at + 1 \in DOMAIN args /\ args[at + 1].name \in STRING
<1>1. args \in Seq(Token) /\ at \in 1..Len(args) + 1
  BY DEF TypeOK
<1>2. at \in DOMAIN args /\ args[at] \in Token
  BY <1>1
<1>3. ASSUME at < Len(args) PROVE at + 1 \in DOMAIN args /\ args[at + 1] \in Token
  BY <1>1, <1>3
<1>. QED BY <1>2, <1>3 DEF Token

LEMMA HandlingEnds ==
  ASSUME NEW kind, NEW v, NEW r \in Handling(kind, v)
  PROVE  r \in {"set", "exit", "error", "terminate"} /\ (r = "exit" <=> kind = "exit")
BY DEF Handling

LEMMA TakeCases ==
  ASSUME Basics, NEW pass \in {"early", "all"}, NEW a, NEW v \in Value, NEW n \in {at + 1, at + 2},
         a[1] \in DOMAIN tab, a \in Ids(tab, a[1]), n <= Len(args) + 1,
         phase \in {"earlies", "parse"}, Take(pass, a, v, n)
  PROVE  Accepted(pass, a, n) \/ Stops
<1>1. PICK r \in Handling(Opt(tab, a).kind, v) :
    /\ value' = IF r \in {"set", "exit"} THEN Over([b \in {a} |-> v], value) ELSE value
    /\ at' = IF r = "set" THEN n ELSE at
    /\ uses' = uses \cup {<<pass, k, a>> : k \in at..n - 1}
    /\ CASE r = "set"       -> UNCHANGED <<phase, status>>
         [] r = "exit"      -> End(0)
         [] r = "error"     -> Throw
         [] r = "terminate" -> Terminate
    /\ UNCHANGED <<args, tab, chain, toLoad, loaded, unloaded, ran>>
  BY DEF Take
<1>2. r \in {"set", "exit", "error", "terminate"} /\ (r = "exit" <=> Opt(tab, a).kind = "exit")
  BY HandlingEnds
<1>3. CASE r = "set"
  BY <1>1, <1>3 DEF Accepted
<1>4. CASE r # "set"
  <2>1. phase' \in {"leave", "ended"} /\ status' \in {0, 1, 134, 139} /\ (status' = 0 => r = "exit")
    <3>1. \/ r = "exit" /\ End(0)
          \/ r = "error" /\ Throw
          \/ r = "terminate" /\ Terminate
      BY <1>1, <1>2, <1>4, Zenon
    <3>. QED BY <3>1 DEF End, Throw, Terminate, Leave
  <2>2. /\ \A b \in Given' : b \in Given \/ b = a
        /\ \A b \in Given' : value'[b] \in Value
        /\ r = "exit" => a \in Given'
    BY <1>1 DEF Given, Over, Basics, TypeOK
  <2>3. status' = 0 => Asked'
    BY <1>1, <1>2, <2>1, <2>2 DEF Asked
  <2>4. ASSUME NEW u \in uses' PROVE u \in uses \/
          (u = <<u[1], u[2], u[3]>> /\ u[1] \in {"early", "all"} /\ u[2] \in 1..Len(args))
    <3>1. \A k \in at..n - 1 : k \in 1..Len(args)
      BY DEF Basics, TypeOK
    <3>. QED BY <3>1, <1>1
  <2>. QED BY <1>1, <1>4, <2>1, <2>2, <2>3, <2>4 DEF Stops
<1>. QED BY <1>3, <1>4

LEMMA ThrowStops ==
  ASSUME Basics, phase \in {"earlies", "external", "parse", "run"}, Aside,
         Throw \/ Terminate \/ Crash
  PROVE  Stops
BY DEF Basics, TypeOK, Given, Aside, Throw, Leave, Terminate, Crash, End, Stops

LEMMA TakeOptionCases ==
  ASSUME Basics, NEW pass \in {"early", "all"}, NEW a, a[1] \in DOMAIN tab, a \in Ids(tab, a[1]),
         at <= Len(args), phase \in {"earlies", "parse"}, TakeOption(pass, a)
  PROVE  Stops \/ \E n \in Int : Accepted(pass, a, n) /\ Reaches(a, n)
<1>0. at \in Nat /\ Len(args) \in Nat /\ at + 1 <= Len(args) + 1
  BY DEF Basics, TypeOK
<1>t. /\ args[at].name \in STRING /\ (args[at].eq # Absent => args[at].eq \in STRING)
      /\ at < Len(args) => args[at + 1].name \in STRING
  BY TokenType DEF Basics
<1>1. CASE ~TakesNext(a) /\ TakeAlone(pass, a)
  <2>1. PICK v \in Value : Take(pass, a, v, at + 1)
    <3>1. (IF Opt(tab, a).kind \in {"flag", "exit"} THEN "true" ELSE args[at].eq) \in Value
      BY <1>1, <1>t DEF TakesNext, Value
    <3>. QED BY <3>1, <1>1 DEF TakeAlone
  <2>2. Accepted(pass, a, at + 1) \/ Stops
    BY <2>1, <1>0, TakeCases
  <2>. QED BY <2>2, <1>0, <1>1 DEF Reaches, TakesNext
<1>2. CASE /\ TakesNext(a) /\ at < Len(args) /\ ~args[at + 1].dash
           /\ Take(pass, a, args[at + 1].name, at + 2)
  <2>1. at + 2 <= Len(args) + 1 /\ args[at + 1].name \in Value
    BY <1>0, <1>t, <1>2 DEF Value
  <2>2. Accepted(pass, a, at + 2) \/ Stops
    BY <1>2, <2>1, TakeCases
  <2>. QED BY <2>2, <1>0, <1>2 DEF Reaches, TakesNext
<1>3. CASE (Throw \/ Terminate) /\ Aside
  BY <1>3, ThrowStops
<1>. QED BY <1>1, <1>2, <1>3 DEF TakeOption

\* The application's options are found in the table that parse_earlies() has.
LEMMA MainFound ==
  ASSUME NEW t, Found(t) # Absent
  PROVE  Found(t)[1] = <<>> /\ Found(t) \in MainIds /\ t.name \in Opt(MainTab, Found(t)).names
<1>0. <<>> \in Seq(STRING)
  OBVIOUS
<1>1. Outwards(<<>>) = {<<>>} /\ Prefixes(<<>>) = {<<>>}
  BY <1>0, PrefixesAre DEF Outwards
<1>. QED BY <1>0, <1>1, FoundByName, MainTabSound DEF Found, MainIds

LEMMA EmptyIsAWord == ~Empty.dash
BY Zenon DEF Empty, Word

LEMMA EarlyTokenCases ==
  ASSUME Basics, EarlyToken
  PROVE  Stops \/ EarlyTaken \/ EarlySkipped
<1> DEFINE a == Find(tab, {<<>>}, args[at].name)
<1>1. phase = "earlies" /\ at <= Len(args) /\ tab = MainTab /\ a = Found(args[at])
  BY DEF EarlyToken, Basics, Registry, Found
<1>2. CASE args[at] = Empty
  <2>1. ~args[at].dash
    BY <1>2, EmptyIsAWord
  <2>2. CASE args[at].dash
    BY <2>1, <2>2
  <2>3. Terminate /\ Aside
    BY <1>2, <2>1 DEF EarlyToken
  <2>. QED BY <2>3, <1>1, ThrowStops
<1>3. CASE args[at] # Empty /\ args[at].dash /\ a # Absent /\ Opt(tab, a).early
  <2>1. TakeOption("early", a)
    BY <1>3 DEF EarlyToken
  <2>2. a[1] \in DOMAIN tab /\ a \in Ids(tab, a[1])
    BY <1>1, <1>3, MainFound, MainTabSound DEF MainIds
  <2> HIDE DEF a
  <2>3. Stops \/ \E n \in Int : Accepted("early", a, n) /\ Reaches(a, n)
    BY <1>1, <2>1, <2>2, TakeOptionCases
  <2>. QED BY <2>3, <1>1, <1>3 DEF EarlyTaken, IsEarly
<1>4. CASE args[at] # Empty /\ ~(args[at].dash /\ a # Absent /\ Opt(tab, a).early)
  <2>1. Skip
    BY <1>4 DEF EarlyToken
  <2>. QED BY <2>1, <1>1, <1>4 DEF EarlySkipped, IsEarly
<1>. QED BY <1>2, <1>3, <1>4

LEMMA OptionTokenCases ==
  ASSUME Basics, OptionToken
  PROVE  Stops \/ OptionTaken
<1> DEFINE a == Find(tab, Outwards(chain), args[at].name)
<1>1. /\ phase = "parse" /\ at <= Len(args) /\ args[at].dash
      /\ IF a = Absent THEN Throw /\ Aside ELSE TakeOption("all", a)
  BY DEF OptionToken
<1>2. CASE a = Absent
  BY <1>1, <1>2, ThrowStops
<1>3. CASE a # Absent
  <2>1. a[1] \in DOMAIN tab /\ a \in Ids(tab, a[1])
    BY <1>3, FoundByName DEF Basics, Registry, Chain, TypeOK
  <2> HIDE DEF a
  <2>2. Stops \/ \E n \in Int : Accepted("all", a, n) /\ Reaches(a, n)
    BY <1>1, <1>3, <2>1, TakeOptionCases
  <2>. QED BY <2>2, <1>1, <1>3 DEF OptionTaken, a
<1>. QED BY <1>2, <1>3

LEMMA PositionalTokenCases ==
  ASSUME Basics, PositionalToken
  PROVE  Stops \/ WordTaken
<1> DEFINE a == NextPositional(tab, Outwards(chain), Given)
<1>1. /\ phase = "parse" /\ at <= Len(args) /\ ~args[at].dash
      /\ IF a = Absent THEN Throw /\ Aside ELSE Take("all", a, args[at].name, at + 1)
  BY DEF PositionalToken
<1>2. CASE a = Absent
  BY <1>1, <1>2, ThrowStops
<1>3. CASE a # Absent
  <2>1. a[1] \in DOMAIN tab /\ a \in Ids(tab, a[1])
    <3>1. Sound(tab) /\ chain \in Seq(STRING) /\ Prefixes(chain) \subseteq DOMAIN tab
      BY DEF Basics, Registry, Chain, TypeOK
    <3>. QED BY <1>3, <3>1, FoundByPlace
  <2>2. args[at].name \in Value /\ at + 1 <= Len(args) + 1 /\ Take("all", a, args[at].name, at + 1)
    BY <1>1, <1>3, TokenType DEF Basics, TypeOK, Value
  <2> HIDE DEF a
  <2>3. Stops \/ Accepted("all", a, at + 1)
    BY <1>1, <2>1, <2>2, TakeCases
  <2>. QED BY <2>3, <1>1, <1>3 DEF WordTaken, a
<1>. QED BY <1>2, <1>3

LEMMA CheckCases ==
  ASSUME Basics, Check
  PROVE  Stops \/ CheckPassed
<1>1. phase = "main" /\ Aside
  BY DEF Check
<1>2. ASSUME phase' \in {"leave", "ended"}, status' \in {0, 1, 134, 139}, status' = 0 => Asked'
      PROVE  Stops
  BY <1>1, <1>2 DEF Stops, Aside, Basics, TypeOK, Given
<1>3. CASE TooFew
  <2>1. Leave(1)
    BY <1>3 DEF Check
  <2>. QED BY <2>1, <1>2 DEF Leave
<1>4. CASE ~TooFew /\ {License, Version} \cap Given # {}
  <2>1. Leave(0)
    BY <1>4 DEF Check
  <2>2. Asked'
    BY <1>1, <1>4 DEF Asked, Aside, Given
  <2>. QED BY <2>1, <2>2, <1>2 DEF Leave
<1>5. CASE ~TooFew /\ ~({License, Version} \cap Given # {})
  <2>1. PICK d \in Device :
          CASE d.root /\ d.tables = "null"        -> Crash
            [] ~(d.root /\ d.tables = "null") /\ Objection(d) -> Throw
            [] OTHER                             -> phase' = "run" /\ UNCHANGED status
    BY <1>5 DEF Check
  <2>2. \/ Crash \/ Throw
        \/ ~Objection(d) /\ phase' = "run" /\ UNCHANGED status
    BY <2>1
  <2>3. CASE Crash \/ Throw
    BY <2>3, <1>2 DEF Crash, Throw, Leave, End
  <2>4. CASE ~Objection(d) /\ phase' = "run" /\ UNCHANGED status
    BY <2>4, <1>1 DEF Objection, CheckPassed
  <2>. QED BY <2>2, <2>3, <2>4
<1>. QED BY <1>3, <1>4, <1>5

LEMMA StepCases ==
  ASSUME Basics, [Next]_vars
  PROVE  \/ Stops \/ EarlyTaken \/ EarlySkipped \/ EarliesPassed
         \/ LoadBuiltins \/ LoadPlugin \/ StartParse
         \/ Subcommand \/ OptionTaken \/ WordTaken \/ ParsePassed
         \/ CheckPassed \/ Run \/ Unload \/ UNCHANGED vars
<1>1. CASE EarliesDone
  <2>1. CASE EarlyRequiredGiven(tab, Given)
    BY <1>1, <2>1 DEF EarliesDone, EarliesPassed
  <2>2. CASE ~EarlyRequiredGiven(tab, Given)
    BY <1>1, <2>2, ThrowStops DEF EarliesDone
  <2>. QED BY <2>1, <2>2
<1>2. CASE LoadFails
  BY <1>2, ThrowStops DEF LoadFails
<1>3. CASE Help
  <2>1. phase = "parse" /\ at <= Len(args) /\ args[at] \in {Dash("-h"), Dash("--help")} /\ End(0) /\ Aside
    BY <1>3 DEF Help
  <2>2. Asked'
    BY <2>1, TokenType DEF Asked, Aside, Basics, TypeOK
  <2>. QED BY <2>1, <2>2 DEF End, Stops, Aside, Basics, TypeOK, Given
<1>4. CASE ParseDone
  <2>1. CASE Complete(tab, chain, Given)
    BY <1>4, <2>1 DEF ParseDone, ParsePassed
  <2>2. CASE ~Complete(tab, chain, Given)
    BY <1>4, <2>2, ThrowStops DEF ParseDone
  <2>. QED BY <2>1, <2>2
<1>5. CASE RunDies
  BY <1>5, ThrowStops DEF RunDies
<1>. QED BY <1>1, <1>2, <1>3, <1>4, <1>5, EarlyTokenCases, OptionTokenCases, PositionalTokenCases,
            CheckCases DEF Next, Step, Ended

-----------------------------------------------------------------------------
(* The basics hold. *)

\* A registration adds paths and changes none.
LEMMA RegisteredKeeps ==
  ASSUME NEW registry, Sound(registry), NEW plugins \in Seq(DOMAIN Commands)
  PROVE  LET now == Registered(registry, plugins) IN
         /\ Sound(now) /\ DOMAIN registry \subseteq DOMAIN now
         /\ \A path \in DOMAIN registry : now[path] = registry[path]
         /\ \A path \in DOMAIN now \ DOMAIN registry : \E p \in DOMAIN Commands : path \in DOMAIN Commands[p]
<1> DEFINE has(path) == {k \in DOMAIN plugins : path \in DOMAIN Commands[plugins[k]]}
           paths == UNION {DOMAIN Commands[plugins[k]] : k \in DOMAIN plugins}
           more == [path \in paths |-> plugins[Min(has(path))]]
           now == Registered(registry, plugins)
<1>1. now = Over(registry, more)
  BY DEF Registered
<1>2. ASSUME NEW path \in paths
      PROVE  plugins[Min(has(path))] \in DOMAIN Commands /\ path \in DOMAIN Commands[plugins[Min(has(path))]]
  <2>1. has(path) # {} /\ has(path) \in SUBSET Nat /\ DOMAIN plugins = 1..Len(plugins) /\ Len(plugins) \in Nat
    OBVIOUS
  <2>2. Min(has(path)) \in has(path)
    <3> HIDE DEF has
    <3>. QED BY <2>1, Least
  <2>3. \A k \in has(path) : plugins[k] \in DOMAIN Commands /\ path \in DOMAIN Commands[plugins[k]]
    BY <2>1
  <2> HIDE DEF has
  <2>. QED BY <2>2, <2>3
<1>3. DOMAIN more = paths /\ \A path \in paths : more[path] = plugins[Min(has(path))]
  OBVIOUS
<1> HIDE DEF has, paths, more, now
<1>4. /\ DOMAIN now = DOMAIN registry \cup DOMAIN more
      /\ \A path \in DOMAIN registry : now[path] = registry[path]
      /\ \A path \in DOMAIN more \ DOMAIN registry : now[path] = more[path]
  BY <1>1 DEF Over
<1>5. \A path \in DOMAIN now \ DOMAIN registry :
        now[path] \in DOMAIN Commands /\ path \in DOMAIN Commands[now[path]]
  BY <1>2, <1>3, <1>4
<1>6. Sound(now)
  BY <1>4, <1>5 DEF Sound
<1>. QED BY <1>4, <1>5, <1>6 DEF now

\* What is registered keeps its options.
LEMMA OptionsKept ==
  ASSUME NEW registry, NEW later, DOMAIN registry \subseteq DOMAIN later,
         \A path \in DOMAIN registry : later[path] = registry[path]
  PROVE  /\ \A path \in DOMAIN registry : Ids(later, path) = Ids(registry, path)
         /\ \A a : a[1] \in DOMAIN registry => Opt(later, a) = Opt(registry, a)
BY DEF Ids, Opt, At

LEMMA AcceptedKeepsBasics ==
  ASSUME Basics, NEW pass \in {"early", "all"}, NEW a, NEW n \in {at + 1, at + 2}, n <= Len(args) + 1,
         a[1] \in DOMAIN tab, a \in Ids(tab, a[1]), Accepted(pass, a, n)
  PROVE  Basics'
<1>1. PICK v \in Value : value' = Over([b \in {a} |-> v], value)
  BY DEF Accepted
<1>2. \A b \in Given' : (b = a \/ b \in Given) /\ value'[b] \in Value
  BY <1>1 DEF Given, Over, Basics, TypeOK
<1>3. /\ at' = n /\ uses' = uses \cup {<<pass, k, a>> : k \in at..n - 1}
      /\ UNCHANGED <<args, phase, status, tab, chain, toLoad, loaded, unloaded, ran>>
  BY DEF Accepted
<1>4. TypeOK'
  BY <1>2, <1>3 DEF Basics, TypeOK
<1>5. Registry'
  BY <1>2, <1>3 DEF Basics, Registry
<1>6. Uses'
  <2>1. \A k \in at..n - 1 : k \in 1..Len(args)
    BY DEF Basics, TypeOK
  <2>. QED BY <2>1, <1>3 DEF Basics, Uses
<1>7. Chain' /\ Arguments'
  BY <1>3 DEF Basics, Chain, Arguments, Loading
<1>. QED BY <1>4, <1>5, <1>6, <1>7 DEF Basics

\* Nothing that the basics speak of has changed.
LEMMA AsideKeepsBasics ==
  ASSUME Basics, UNCHANGED <<args, tab, value, chain, uses>>,
         at' = at \/ at' = 1,
         phase' \in {"builtins", "parse", "main", "run", "leave", "ended"},
         Loading' => Loading,
         toLoad' = toLoad, loaded' = loaded, unloaded' \in Seq(DOMAIN Commands),
         status' \in {Absent, 0, 1, 134, 139}
  PROVE  Basics'
<1>1. TypeOK'
  BY DEF Basics, TypeOK, Given
<1>2. Registry' /\ Chain' /\ Uses' /\ Arguments'
  BY DEF Basics, Registry, Chain, Uses, Arguments, Given
<1>. QED BY <1>1, <1>2 DEF Basics

LEMMA LoadingKeepsBasics ==
  ASSUME Basics, NEW plugins \in Seq(DOMAIN Commands), tab' = Registered(tab, plugins),
         phase' = "external", Loading, phase # "earlies",
         UNCHANGED <<args, at, value, chain, unloaded, ran, status, uses>>,
         toLoad' \in Seq(Value),
         loaded' \in [builtin : Seq(DOMAIN Commands), external : Seq(DOMAIN Commands)]
  PROVE  Basics'
<1>1. Sound(tab)
  BY DEF Basics, Registry
<1>2. /\ Sound(tab') /\ DOMAIN tab \subseteq DOMAIN tab'
      /\ \A path \in DOMAIN tab : tab'[path] = tab[path]
      /\ \A path \in DOMAIN tab' \ DOMAIN tab : \E p \in DOMAIN Commands : path \in DOMAIN Commands[p]
  BY <1>1, RegisteredKeeps
<1>3. \A path \in DOMAIN tab : Ids(tab', path) = Ids(tab, path)
  BY <1>2, OptionsKept
<1>4. TypeOK'
  <2>1. DOMAIN tab' \subseteq UNION {DOMAIN Commands[p] : p \in DOMAIN Commands}
    <3>1. DOMAIN tab \subseteq UNION {DOMAIN Commands[p] : p \in DOMAIN Commands}
      BY DEF Basics, TypeOK
    <3>. QED BY <3>1, <1>2, Zenon
  <2>2. \A a \in Given' : a \in Ids(tab', a[1]) /\ value'[a] \in Value
    BY <1>3 DEF Basics, TypeOK, Registry, Given
  <2>3. Prefixes(chain') \subseteq DOMAIN tab'
    BY <1>2 DEF Basics, TypeOK
  <2>. QED BY <2>1, <2>2, <2>3 DEF Basics, TypeOK
<1>5. Registry'
  BY <1>2 DEF Basics, Registry, Given
<1>6. Chain' /\ Uses' /\ Arguments'
  BY DEF Basics, Chain, Uses, Arguments, Loading
<1>. QED BY <1>4, <1>5, <1>6 DEF Basics

LEMMA BasicsInit == Init => Basics
<1> SUFFICES ASSUME Init PROVE Basics
  OBVIOUS
<1>0. <<>> \in Seq(STRING) /\ <<>> \in Seq(Value) /\ <<>> \in Seq(DOMAIN Commands)
  OBVIOUS
<1>1. args \in Seq(Token) /\ Arguments
  BY StartupAssumption DEF Init, Arguments
<1>2. tab = MainTab /\ Given = {} /\ uses = {} /\ chain = <<>>
  BY DEF Init, MainTab, Given
<1>3. Prefixes(chain) \subseteq DOMAIN tab /\ Sound(tab) /\ DOMAIN tab = {<<>>}
  BY <1>0, <1>2, PrefixesAre, MainTabSound
<1>4. {<<>>} \subseteq UNION {DOMAIN Commands[p] : p \in DOMAIN Commands}
  BY CommandsListed DEF Application, Only
<1>5. TypeOK
  BY <1>0, <1>1, <1>2, <1>3, <1>4 DEF Init, TypeOK
<1>6. Registry /\ Chain /\ Uses
  BY <1>0, <1>2, <1>3, MainTabSound DEF Registry, Chain, Uses
<1>. QED BY <1>1, <1>5, <1>6 DEF Basics

\* What may be taken is an option of the application or of the chain.
LEMMA MayBeTaken ==
  ASSUME Basics
  PROVE  /\ phase = "earlies" /\ Found(args[at]) # Absent =>
              Found(args[at])[1] = <<>> /\ Found(args[at])[1] \in DOMAIN tab /\ Found(args[at]) \in Ids(tab, <<>>)
         /\ LET a == Find(tab, Outwards(chain), args[at].name) IN
            a # Absent => a[1] \in Prefixes(chain) /\ a[1] \in DOMAIN tab /\ a \in Ids(tab, a[1])
         /\ LET a == NextPositional(tab, Outwards(chain), Given) IN
            a # Absent => /\ a[1] \in Prefixes(chain) /\ a[1] \in DOMAIN tab /\ a \in Ids(tab, a[1])
                          /\ Opt(tab, a).positional
<1>1. Sound(tab) /\ chain \in Seq(STRING) /\ Prefixes(chain) \subseteq DOMAIN tab
  BY DEF Basics, Registry, Chain, TypeOK
<1>2. phase = "earlies" => tab = MainTab
  BY DEF Basics, Registry
<1>3. phase = "earlies" /\ Found(args[at]) # Absent =>
        Found(args[at])[1] = <<>> /\ Found(args[at])[1] \in DOMAIN tab /\ Found(args[at]) \in Ids(tab, <<>>)
  BY <1>2, MainFound, MainTabSound DEF MainIds
<1>4. LET a == Find(tab, Outwards(chain), args[at].name) IN
      a # Absent => a[1] \in Prefixes(chain) /\ a[1] \in DOMAIN tab /\ a \in Ids(tab, a[1])
  BY <1>1, FoundByName
<1>5. LET a == NextPositional(tab, Outwards(chain), Given) IN
      a # Absent => /\ a[1] \in Prefixes(chain) /\ a[1] \in DOMAIN tab /\ a \in Ids(tab, a[1])
                    /\ Opt(tab, a).positional
  BY <1>1, FoundByPlace
<1>. QED BY <1>3, <1>4, <1>5

LEMMA ReachesWithin ==
  ASSUME Basics, at <= Len(args), NEW a, NEW n, Reaches(a, n)
  PROVE  n \in {at + 1, at + 2} /\ n <= Len(args) + 1
BY DEF Basics, TypeOK, Reaches

LEMMA BasicsStep == Basics /\ [Next]_vars => Basics'
<1> SUFFICES ASSUME Basics, [Next]_vars PROVE Basics'
  OBVIOUS
<1>1. CASE Stops
  <2>1. TypeOK'
    BY <1>1 DEF Stops, Basics, TypeOK, Given
  <2>2. Registry'
    BY <1>1 DEF Stops, Basics, Registry, Given
  <2>3. Chain' /\ Uses' /\ Arguments'
    BY <1>1 DEF Stops, Basics, Chain, Loading, Uses, Arguments
  <2>. QED BY <2>1, <2>2, <2>3 DEF Basics
<1>2. CASE EarlyTaken
  <2>1. PICK n \in Int : Accepted("early", Found(args[at]), n) /\ Reaches(Found(args[at]), n)
    BY <1>2 DEF EarlyTaken
  <2>. QED BY <1>2, <2>1, MayBeTaken, ReachesWithin, AcceptedKeepsBasics DEF EarlyTaken, IsEarly
<1>3. CASE EarlySkipped
  BY <1>3 DEF EarlySkipped, Skip, Basics, TypeOK, Registry, Chain, Uses, Arguments, Loading, Given
<1>4. CASE EarliesPassed \/ ParsePassed \/ CheckPassed
  <2>1. /\ UNCHANGED <<args, at, tab, value, chain, toLoad, loaded, unloaded, uses, status>>
        /\ phase' \in {"builtins", "main", "run"} /\ (phase' = "builtins" => phase = "earlies")
    BY <1>4 DEF EarliesPassed, ParsePassed, CheckPassed, Aside
  <2>. QED BY <2>1, AsideKeepsBasics DEF Loading, Basics, TypeOK
<1>5. CASE StartParse
  <2>1. /\ UNCHANGED <<args, tab, value, chain, toLoad, loaded, unloaded, uses, status>>
        /\ phase' = "parse" /\ at' = 1
    BY <1>5 DEF StartParse
  <2>. QED BY <2>1, AsideKeepsBasics DEF Loading, Basics, TypeOK
<1>6. CASE Run \/ Unload
  <2>1. /\ UNCHANGED <<args, at, tab, value, chain, toLoad, loaded, uses>>
        /\ phase' \in {"leave", "ended"}
    BY <1>6 DEF Run, Unload, Leave
  <2>2. InOrder \in Seq(DOMAIN Commands)
    BY DEF InOrder, Basics, TypeOK
  <2>3. unloaded' \in Seq(DOMAIN Commands) /\ status' \in {Absent, 0, 1, 134, 139}
    BY <1>6, <2>2 DEF Run, Unload, Leave, Basics, TypeOK
  <2>. QED BY <2>1, <2>3, AsideKeepsBasics DEF Loading
<1>7. CASE LoadBuiltins
  <2> DEFINE refused == {k \in DOMAIN Builtins : Builtins[k] \in Refusing}
             last == IF refused = {} THEN Len(Builtins) ELSE Min(refused)
             kept == IF refused = {} THEN last ELSE last - 1
  <2>1. /\ phase = "builtins" /\ phase' = "external"
        /\ tab' = Registered(tab, SubSeq(Builtins, 1, last))
        /\ loaded' = [loaded EXCEPT !.builtin = SubSeq(Builtins, 1, kept)]
        /\ toLoad' = (IF Plugins \in Given THEN Elements(value[Plugins]) ELSE <<>>) \o
                     (IF PluginPath \in Given THEN InDirectory ELSE <<>>)
        /\ UNCHANGED <<args, at, value, chain, unloaded, ran, status, uses>>
    BY <1>7 DEF LoadBuiltins
  <2>2. Builtins \in Seq(DOMAIN Commands) /\ InDirectory \in Seq(Value)
    BY StartupAssumption DEF Value
  <2>3. last \in 0..Len(Builtins) /\ kept \in 0..Len(Builtins)
    <3>1. refused # {} => Min(refused) \in refused
      <4>1. refused \in SUBSET Nat
        BY <2>2
      <4> HIDE DEF refused
      <4>. QED BY <4>1, Least
    <3>2. refused \subseteq 1..Len(Builtins) /\ Len(Builtins) \in Nat
      BY <2>2
    <3>3. CASE refused = {}
      <4>1. last = Len(Builtins) /\ kept = Len(Builtins)
        BY <3>3
      <4>. QED BY <4>1, <3>2
    <3>4. CASE refused # {}
      <4>1. last = Min(refused) /\ kept = Min(refused) - 1
        BY <3>4
      <4>2. Min(refused) \in 1..Len(Builtins)
        BY <3>1, <3>2, <3>4, Zenon
      <4>3. \A x \in 1..Len(Builtins) : x \in 0..Len(Builtins) /\ x - 1 \in 0..Len(Builtins)
        BY <3>2
      <4> HIDE DEF last, kept
      <4>. QED BY <4>1, <4>2, <4>3
    <3>. QED BY <3>3, <3>4
  <2> HIDE DEF last, kept
  <2>4. SubSeq(Builtins, 1, last) \in Seq(DOMAIN Commands) /\ SubSeq(Builtins, 1, kept) \in Seq(DOMAIN Commands)
    BY <2>2, <2>3
  <2>5. Plugins \in Given => Elements(value[Plugins]) \in Seq(Value)
    <3>1. \A v \in Value : Elements(v) \in Seq(Value)
      <4>1. \A s \in Seq(STRING) : s \in Seq(Value)
        BY DEF Value
      <4>2. \A v \in DOMAIN List : List[v] \in Seq(STRING)
        BY StartupAssumption
      <4>3. \A v \in Value : <<v>> \in Seq(Value)
        OBVIOUS
      <4>. QED BY <4>1, <4>2, <4>3 DEF Elements
    <3>. QED BY <3>1 DEF Basics, TypeOK
  <2>6. toLoad' \in Seq(Value)
    BY <2>1, <2>2, <2>5
  <2>7. loaded' \in [builtin : Seq(DOMAIN Commands), external : Seq(DOMAIN Commands)]
    BY <2>1, <2>4 DEF Basics, TypeOK
  <2>. QED BY <2>1, <2>4, <2>6, <2>7, LoadingKeepsBasics DEF Loading
<1>8. CASE LoadPlugin
  <2> DEFINE plugin == Files[Head(toLoad)]
  <2>1. /\ phase = "external" /\ toLoad # <<>> /\ Head(toLoad) \in DOMAIN Files
        /\ toLoad' = Tail(toLoad)
        /\ UNCHANGED <<args, at, phase, value, chain, unloaded, ran, status, uses>>
        /\ \/ UNCHANGED <<tab, loaded>>
           \/ /\ tab' = Registered(tab, <<plugin>>)
              /\ loaded' = [loaded EXCEPT !.external = Append(@, plugin)]
    BY <1>8 DEF LoadPlugin
  <2>2. plugin \in DOMAIN Commands
    BY <2>1, StartupAssumption
  <2>3. toLoad' \in Seq(Value)
    BY <2>1 DEF Basics, TypeOK
  <2> HIDE DEF plugin
  <2>4. CASE UNCHANGED <<tab, loaded>>
    BY <2>1, <2>3, <2>4 DEF Basics, TypeOK, Registry, Chain, Uses, Arguments, Loading, Given
  <2>5. CASE /\ tab' = Registered(tab, <<plugin>>)
             /\ loaded' = [loaded EXCEPT !.external = Append(@, plugin)]
    <3>1. <<plugin>> \in Seq(DOMAIN Commands)
      BY <2>2
    <3>2. loaded' \in [builtin : Seq(DOMAIN Commands), external : Seq(DOMAIN Commands)]
      <4>1. loaded \in [builtin : Seq(DOMAIN Commands), external : Seq(DOMAIN Commands)]
        BY DEF Basics, TypeOK
      <4>2. Append(loaded.external, plugin) \in Seq(DOMAIN Commands)
        BY <4>1, <2>2, AppendProperties
      <4>. QED BY <4>1, <4>2, <2>5
    <3>. QED BY <2>1, <2>3, <2>5, <3>1, <3>2, LoadingKeepsBasics DEF Loading
  <2>. QED BY <2>1, <2>4, <2>5
<1>9. CASE Subcommand
  <2>1. /\ phase = "parse" /\ at <= Len(args) /\ NamesCommand
        /\ chain' = Append(chain, args[at].name)
        /\ uses' = uses \cup {<<"all", at, <<chain', 0>>>>}
        /\ at' = at + 1
        /\ UNCHANGED <<args, phase, tab, value, toLoad, loaded, unloaded, ran, status>>
    BY <1>9 DEF Subcommand
  <2>2. args[at].name \in STRING /\ chain \in Seq(STRING)
    BY <2>1, TokenType DEF Basics, Chain
  <2>3. chain' \in Seq(STRING) /\ Prefixes(chain') = Prefixes(chain) \cup {chain'}
    <3>1. Append(chain, args[at].name) \in Seq(STRING)
      BY <2>2, AppendProperties
    <3>2. Prefixes(Append(chain, args[at].name)) = Prefixes(chain) \cup {Append(chain, args[at].name)}
      BY <2>2, PrefixesAre
    <3>. QED BY <2>1, <3>1, <3>2
  <2>4. TypeOK'
    <3>1. Prefixes(chain') \subseteq DOMAIN tab
      BY <2>1, <2>3 DEF NamesCommand, Basics, TypeOK
    <3>. QED BY <2>1, <3>1 DEF Basics, TypeOK, Given
  <2>5. Uses'
    <3>1. at \in 1..Len(args)
      BY <2>1 DEF Basics, TypeOK
    <3>. QED BY <2>1, <3>1 DEF Basics, Uses
  <2>6. Registry' /\ Chain' /\ Arguments'
    BY <2>1, <2>3 DEF Basics, Registry, Chain, Arguments, Loading, Given
  <2>. QED BY <2>4, <2>5, <2>6 DEF Basics
<1>10. CASE OptionTaken
  <2> DEFINE a == Find(tab, Outwards(chain), args[at].name)
  <2>1. PICK n \in Int : Accepted("all", a, n) /\ Reaches(a, n)
    BY <1>10 DEF OptionTaken
  <2>2. a # Absent /\ at <= Len(args)
    BY <1>10 DEF OptionTaken
  <2>3. a[1] \in DOMAIN tab /\ a \in Ids(tab, a[1])
    BY <2>2, MayBeTaken
  <2> HIDE DEF a
  <2>. QED BY <2>1, <2>2, <2>3, ReachesWithin, AcceptedKeepsBasics
<1>11. CASE WordTaken
  <2> DEFINE a == NextPositional(tab, Outwards(chain), Given)
  <2>1. a # Absent /\ at <= Len(args) /\ Accepted("all", a, at + 1)
    BY <1>11 DEF WordTaken
  <2>2. a[1] \in DOMAIN tab /\ a \in Ids(tab, a[1])
    BY <2>1, MayBeTaken
  <2>3. at + 1 <= Len(args) + 1
    BY <2>1 DEF Basics, TypeOK
  <2> HIDE DEF a
  <2>. QED BY <2>1, <2>2, <2>3, AcceptedKeepsBasics
<1>12. CASE UNCHANGED vars
  BY <1>12 DEF vars, Basics, TypeOK, Registry, Chain, Uses, Arguments, Loading, Given
<1>. QED BY <1>1, <1>2, <1>3, <1>4, <1>5, <1>6, <1>7, <1>8, <1>9, <1>10, <1>11, <1>12, StepCases

-----------------------------------------------------------------------------
(* What ran, the exit status, and what is unloaded. *)

\* Main knows a status before it leaves; a plugin ran only then.
Verdict ==
  /\ ran # Absent =>
       /\ ran \in [plugin : LoadedPlugins, result : BOOLEAN]
       /\ chain # <<>> /\ tab[<<chain[1]>>] = ran.plugin /\ ran.plugin \notin Rejected
       /\ phase \in {"leave", "ended"} /\ status = IF ran.result THEN 0 ELSE 1
  /\ phase = "run" => Used # {}
  /\ phase \in {"leave", "ended"} /\ status = 0 => Asked \/ (ran # Absent /\ ran.result)

\* No plugin is loaded twice, in one of the lists or in both.
Apart ==
  LET e == loaded.external
      b == loaded.builtin IN
  /\ \A k, j \in DOMAIN e : e[k] = e[j] => k = j
  /\ \A k, j \in DOMAIN b : b[k] = b[j] => k = j
  /\ \A k \in DOMAIN e, j \in DOMAIN b : e[k] # b[j]

Loads ==
  /\ Apart
  /\ phase \in {"earlies", "builtins"} => loaded = [builtin |-> <<>>, external |-> <<>>]
  /\ phase # "ended" => unloaded = <<>>
  /\ unloaded # <<>> => unloaded = InOrder
  /\ phase = "ended" /\ ran # Absent => unloaded = InOrder

\* Both lists one behind the other hold what is loaded.
LEMMA InOrderIs ==
  ASSUME Basics
  PROVE  /\ InOrder \in Seq(DOMAIN Commands) /\ Len(InOrder) \in Nat
         /\ DOMAIN InOrder = 1..Len(InOrder)
         /\ \A k \in DOMAIN InOrder : InOrder[k] \in LoadedPlugins
         /\ \A p \in LoadedPlugins : \E k \in DOMAIN InOrder : InOrder[k] = p
         /\ Apart => \A k, j \in DOMAIN InOrder : InOrder[k] = InOrder[j] => k = j
<1> DEFINE e == loaded.external
           b == loaded.builtin
<1>1. e \in Seq(DOMAIN Commands) /\ b \in Seq(DOMAIN Commands)
  BY DEF Basics, TypeOK
<1>2. InOrder = e \o b /\ LoadedPlugins = {e[k] : k \in DOMAIN e} \cup {b[k] : k \in DOMAIN b}
  BY DEF InOrder, LoadedPlugins, ToSet
<1>3. Apart <=> /\ \A k, j \in DOMAIN e : e[k] = e[j] => k = j
                /\ \A k, j \in DOMAIN b : b[k] = b[j] => k = j
                /\ \A k \in DOMAIN e, j \in DOMAIN b : e[k] # b[j]
  BY DEF Apart
<1> HIDE DEF e, b
<1>4. /\ DOMAIN e = 1..Len(e) /\ Len(e) \in Nat /\ DOMAIN b = 1..Len(b) /\ Len(b) \in Nat
      /\ InOrder \in Seq(DOMAIN Commands) /\ Len(InOrder) = Len(e) + Len(b)
  BY <1>1, <1>2
<1>5. DOMAIN InOrder = 1..(Len(e) + Len(b))
  BY <1>4
<1>6. \A k \in DOMAIN InOrder : /\ k <= Len(e) => k \in DOMAIN e /\ InOrder[k] = e[k]
                                /\ k > Len(e) => k - Len(e) \in DOMAIN b /\ InOrder[k] = b[k - Len(e)]
  BY <1>1, <1>2, <1>4, <1>5
<1>7. \A k \in DOMAIN InOrder : InOrder[k] \in LoadedPlugins
  BY <1>2, <1>4, <1>5, <1>6
<1>8. ASSUME NEW p \in LoadedPlugins PROVE \E k \in DOMAIN InOrder : InOrder[k] = p
  <2>1. CASE \E k \in DOMAIN e : e[k] = p
    <3>1. PICK k \in DOMAIN e : e[k] = p
      BY <2>1
    <3>2. k \in DOMAIN InOrder /\ k <= Len(e)
      BY <1>4, <1>5
    <3>. QED BY <3>1, <3>2, <1>6
  <2>2. CASE \E k \in DOMAIN b : b[k] = p
    <3>1. PICK k \in DOMAIN b : b[k] = p
      BY <2>2
    <3>2. k + Len(e) \in DOMAIN InOrder /\ k + Len(e) > Len(e) /\ (k + Len(e)) - Len(e) = k
      BY <1>4, <1>5
    <3>. QED BY <3>1, <3>2, <1>6
  <2>. QED BY <2>1, <2>2, <1>2
<1>9. ASSUME Apart, NEW k \in DOMAIN InOrder, NEW j \in DOMAIN InOrder, InOrder[k] = InOrder[j] PROVE k = j
  <2>1. k \in Int /\ j \in Int /\ Len(e) \in Int
    BY <1>4, <1>5
  <2>2. CASE k <= Len(e) /\ j <= Len(e)
    BY <2>2, <1>3, <1>6, <1>9
  <2>3. CASE k > Len(e) /\ j > Len(e)
    <3>1. k - Len(e) = j - Len(e)
      BY <2>3, <1>3, <1>6, <1>9
    <3>. QED BY <3>1, <2>1
  <2>4. CASE k <= Len(e) /\ j > Len(e)
    BY <2>4, <1>3, <1>6, <1>9
  <2>5. CASE k > Len(e) /\ j <= Len(e)
    BY <2>5, <1>3, <1>6, <1>9
  <2>. QED BY <2>1, <2>2, <2>3, <2>4, <2>5
<1>. QED BY <1>4, <1>5, <1>7, <1>8, <1>9

\* The plugin that main runs is loaded, and the one of the first subcommand.
LEMMA FirstUsedIs ==
  ASSUME Basics, Used # {}
  PROVE  /\ FirstUsed \in LoadedPlugins \ Rejected
         /\ chain # <<>> /\ tab[<<chain[1]>>] = FirstUsed
<1>1. Used \in SUBSET Nat
  BY InOrderIs DEF Used
<1>2. Min(Used) \in Used
  BY <1>1, Least
<1>3. Min(Used) \in DOMAIN InOrder /\ IsUsed(InOrder[Min(Used)])
  BY <1>2 DEF Used
<1>. QED BY <1>3, InOrderIs DEF FirstUsed, IsUsed

LEMMA VerdictInit == Init => Verdict
BY DEF Init, Verdict

LEMMA VerdictStep == Basics /\ Verdict /\ [Next]_vars => Verdict'
<1> SUFFICES ASSUME Basics, Verdict, [Next]_vars PROVE Verdict'
  OBVIOUS
<1>1. CASE Stops
  BY <1>1 DEF Stops, Verdict
<1>2. ASSUME phase \notin {"leave", "ended"}, phase' \notin {"leave", "ended", "run"}, ran' = ran
      PROVE  Verdict'
  BY <1>2 DEF Verdict
<1>3. CASE EarlyTaken \/ EarlySkipped \/ EarliesPassed
  BY <1>3, <1>2 DEF EarlyTaken, EarlySkipped, EarliesPassed, Accepted, Skip, Aside
<1>4. CASE LoadBuiltins \/ LoadPlugin \/ StartParse
  BY <1>4, <1>2 DEF LoadBuiltins, LoadPlugin, StartParse
<1>5. CASE Subcommand \/ OptionTaken \/ WordTaken \/ ParsePassed
  BY <1>5, <1>2 DEF Subcommand, OptionTaken, WordTaken, ParsePassed, Accepted, Aside
<1>6. CASE CheckPassed
  BY <1>6 DEF CheckPassed, Aside, Verdict, Used, InOrder, IsUsed
<1>7. CASE Run
  <2>1. Used # {}
    BY <1>7 DEF Run, Verdict
  <2>2. PICK result \in BOOLEAN :
          ran' = [plugin |-> FirstUsed, result |-> result] /\ Leave(IF result THEN 0 ELSE 1)
    BY <1>7 DEF Run
  <2>3. /\ ran' \in [plugin : LoadedPlugins, result : BOOLEAN]
        /\ ran'.plugin = FirstUsed /\ ran'.result = result
    BY <2>1, <2>2, FirstUsedIs
  <2>4. phase' = "leave" /\ status' = IF result THEN 0 ELSE 1
    BY <2>2 DEF Leave
  <2>5. UNCHANGED <<args, tab, value, chain, loaded>>
    BY <1>7 DEF Run
  <2>6. LoadedPlugins' = LoadedPlugins
    BY <2>5 DEF LoadedPlugins
  <2>7. ran' # Absent
    <3>1. ran' \in [plugin : DOMAIN Commands, result : BOOLEAN]
      BY <2>3, InOrderIs
    <3>. QED BY <3>1, StartupAssumption
  <2>8. status' = 0 => result
    BY <2>4
  <2>9. (result => status' = 0) /\ (~result => status' = 1)
    BY <2>4
  <2>. QED BY <2>1, <2>3, <2>4, <2>5, <2>6, <2>7, <2>8, FirstUsedIs DEF Verdict
<1>8. CASE Unload
  <2>1. phase = "leave" /\ phase' = "ended" /\ UNCHANGED <<args, tab, value, chain, loaded, ran, status>>
    BY <1>8 DEF Unload
  <2>2. (Asked' <=> Asked) /\ LoadedPlugins' = LoadedPlugins
    BY <2>1 DEF Asked, Given, LoadedPlugins
  <2>. QED BY <2>1, <2>2 DEF Verdict
<1>9. CASE UNCHANGED vars
  BY <1>9 DEF vars, Verdict, Asked, Given, Used, InOrder, IsUsed, LoadedPlugins
<1>. QED BY <1>1, <1>3, <1>4, <1>5, <1>6, <1>7, <1>8, <1>9, StepCases

LEMMA LoadsInit == Init => Loads
BY DEF Init, Loads, Apart

LEMMA LoadsStep == Basics /\ Verdict /\ Loads /\ [Next]_vars => Loads'
<1> SUFFICES ASSUME Basics, Verdict, Loads, [Next]_vars PROVE Loads'
  OBVIOUS
<1>1. ASSUME phase # "ended", UNCHANGED <<loaded, unloaded, ran>>,
             phase' = "ended" => ran = Absent,
             phase' \in {"earlies", "builtins"} => phase \in {"earlies", "builtins"}
      PROVE  Loads'
  BY <1>1 DEF Loads, Apart
<1>2. CASE Stops
  BY <1>1, <1>2 DEF Stops, Verdict
<1>3. CASE EarlyTaken \/ EarlySkipped \/ EarliesPassed
  BY <1>3, <1>1 DEF EarlyTaken, EarlySkipped, EarliesPassed, Accepted, Skip, Aside
<1>4. CASE StartParse \/ Subcommand \/ OptionTaken \/ WordTaken \/ ParsePassed \/ CheckPassed
  BY <1>4, <1>1 DEF StartParse, Subcommand, OptionTaken, WordTaken, ParsePassed, CheckPassed, Accepted, Aside
<1>5. CASE Run
  <2>1. phase = "run" /\ phase' = "leave" /\ UNCHANGED <<loaded, unloaded>>
    BY <1>5 DEF Run, Leave
  <2>. QED BY <2>1 DEF Loads, Apart
<1>6. CASE Unload
  <2>1. phase = "leave" /\ phase' = "ended" /\ unloaded' = InOrder /\ UNCHANGED loaded
    BY <1>6 DEF Unload
  <2>2. InOrder' = InOrder
    BY <2>1 DEF InOrder
  <2>. QED BY <2>1, <2>2 DEF Loads, Apart
<1>7. CASE LoadBuiltins
  <2>1. PICK m \in Int : loaded' = [loaded EXCEPT !.builtin = SubSeq(Builtins, 1, m)] /\ m <= Len(Builtins)
    <3> DEFINE refused == {k \in DOMAIN Builtins : Builtins[k] \in Refusing}
    <3>1. loaded' = [loaded EXCEPT !.builtin = SubSeq(Builtins, 1,
             IF refused = {} THEN IF refused = {} THEN Len(Builtins) ELSE Min(refused)
             ELSE (IF refused = {} THEN Len(Builtins) ELSE Min(refused)) - 1)]
      BY <1>7 DEF LoadBuiltins
    <3>2. Len(Builtins) \in Int /\ DOMAIN Builtins = 1..Len(Builtins)
      BY StartupAssumption
    <3>3. CASE refused = {}
      <4>1. loaded' = [loaded EXCEPT !.builtin = SubSeq(Builtins, 1, Len(Builtins))]
        BY <3>1, <3>3, Zenon
      <4> DEFINE l == Len(Builtins)
      <4>2. l \in Int /\ l <= Len(Builtins) /\ loaded' = [loaded EXCEPT !.builtin = SubSeq(Builtins, 1, l)]
        BY <4>1, <3>2
      <4> HIDE DEF l
      <4>. QED BY <4>2, Zenon
    <3>4. CASE refused # {}
      <4>1. Min(refused) \in refused
        <5>1. refused \in SUBSET Nat
          BY <3>2
        <5> HIDE DEF refused
        <5>. QED BY <5>1, <3>4, Least
      <4>2. Min(refused) \in 1..Len(Builtins)
        BY <4>1, <3>2
      <4>3. \A x \in 1..Len(Builtins) : x - 1 \in Int /\ x - 1 <= Len(Builtins)
        BY <3>2
      <4>4. loaded' = [loaded EXCEPT !.builtin = SubSeq(Builtins, 1, Min(refused) - 1)]
        BY <3>1, <3>4
      <4>. QED BY <4>2, <4>3, <4>4
    <3>. QED BY <3>3, <3>4
  <2>2. /\ phase = "builtins" /\ phase' = "external" /\ UNCHANGED <<unloaded, ran>>
        /\ loaded = [builtin |-> <<>>, external |-> <<>>]
    BY <1>7 DEF LoadBuiltins, Loads
  <2>3. loaded'.external = <<>> /\ loaded'.builtin = SubSeq(Builtins, 1, m)
    BY <2>1, <2>2
  <2>4. \A k \in DOMAIN SubSeq(Builtins, 1, m) : k \in DOMAIN Builtins /\ SubSeq(Builtins, 1, m)[k] = Builtins[k]
    BY <2>1, StartupAssumption
  <2>5. \A k, j \in DOMAIN Builtins : Builtins[k] = Builtins[j] => k = j
    BY StartupAssumption DEF IsInjective
  <2>6. Apart'
    BY <2>3, <2>4, <2>5 DEF Apart
  <2>. QED BY <2>2, <2>6 DEF Loads
<1>8. CASE LoadPlugin
  <2> DEFINE plugin == Files[Head(toLoad)]
  <2>1. phase = "external" /\ phase' = "external" /\ UNCHANGED <<unloaded, ran>>
    BY <1>8 DEF LoadPlugin
  <2>2. CASE plugin \in LoadedPlugins
    BY <1>8, <2>1, <2>2, <1>1 DEF LoadPlugin
  <2>3. CASE plugin \notin LoadedPlugins
    <3>1. loaded' = [loaded EXCEPT !.external = Append(@, plugin)]
      BY <1>8, <2>3 DEF LoadPlugin
    <3> DEFINE e == loaded.external
               b == loaded.builtin
    <3>2. e \in Seq(DOMAIN Commands) /\ b \in Seq(DOMAIN Commands)
      BY DEF Basics, TypeOK
    <3>3. loaded'.external = Append(e, plugin) /\ loaded'.builtin = b
      BY <3>1 DEF Basics, TypeOK
    <3>4. (\A k \in DOMAIN e : e[k] # plugin) /\ (\A k \in DOMAIN b : b[k] # plugin)
      BY <2>3 DEF LoadedPlugins, ToSet
    <3>5. /\ \A k, j \in DOMAIN e : e[k] = e[j] => k = j
          /\ \A k, j \in DOMAIN b : b[k] = b[j] => k = j
          /\ \A k \in DOMAIN e, j \in DOMAIN b : e[k] # b[j]
      BY DEF Loads, Apart
    <3> HIDE DEF e, b, plugin
    <3>6. \A k \in DOMAIN Append(e, plugin) :
            (k \in DOMAIN e /\ Append(e, plugin)[k] = e[k]) \/ (k = Len(e) + 1 /\ Append(e, plugin)[k] = plugin)
      BY <3>2
    <3>7. Apart'
      BY <3>3, <3>4, <3>5, <3>6 DEF Apart
    <3>. QED BY <2>1, <3>7 DEF Loads
  <2>. QED BY <2>2, <2>3
<1>9. CASE UNCHANGED vars
  BY <1>9 DEF vars, Loads, Apart, InOrder
<1>. QED BY <1>2, <1>3, <1>4, <1>5, <1>6, <1>7, <1>8, <1>9, StepCases

-----------------------------------------------------------------------------
(* The two passes. *)

\* The first pass has taken what it has passed for what TakenFor says.
EarlyPass ==
  /\ phase = "earlies" =>
       /\ at > 1 => ~WantsNext(args[at - 1])
       /\ \A k \in 1..Len(args), a \in MainIds :
            <<"early", k, a>> \in uses <=> k < at /\ TakenFor(k, a)
  /\ phase \in {"builtins", "external", "parse", "main", "run"} =>
       \A k \in 1..Len(args), a \in MainIds : <<"early", k, a>> \in uses <=> TakenFor(k, a)

\* The second takes each token it passes once.
TakenOnce ==
  /\ \A x, y \in uses : x[1] = "all" /\ y[1] = "all" /\ x[2] = y[2] => x = y
  /\ \A u \in uses : u[1] = "all" => u[2] < at
  /\ \A k \in 1..Len(args) : k < at => \E u \in uses : u[1] = "all" /\ u[2] = k

\* And for early options of the application as the first did.
TakenAlike ==
  \A a \in MainIds : Opt(MainTab, a).early /\ ~Shadowed(a) =>
    /\ at > 1 => ~(WantsNext(args[at - 1]) /\ Found(args[at - 1]) = a)
    /\ \A k \in 1..Len(args) : <<"all", k, a>> \in uses <=> k < at /\ TakenFor(k, a)

AllPass ==
  /\ Loading => \A u \in uses : u[1] = "early"
  /\ Parsing => TakenOnce /\ TakenAlike
  /\ phase \in {"main", "run"} => at = Len(args) + 1

LEMMA EarlyTakenKeeps ==
  ASSUME Basics, EarlyPass, EarlyTaken
  PROVE  EarlyPass'
<1> DEFINE a == Found(args[at])
<1>1. phase = "earlies" /\ at <= Len(args) /\ IsEarly(args[at]) /\ at \in Nat /\ at >= 1 /\ Len(args) \in Nat
  BY DEF EarlyTaken, Basics, TypeOK
<1>2. PICK n \in Int : Accepted("early", a, n) /\ Reaches(a, n)
  BY DEF EarlyTaken
<1>3. /\ at' = n /\ uses' = uses \cup {<<"early", k, a>> : k \in at..n - 1} /\ args' = args /\ phase' = phase
  BY <1>2 DEF Accepted
<1>4. IF WantsNext(args[at]) THEN n = at + 2 /\ at < Len(args) /\ ~args[at + 1].dash ELSE n = at + 1
  <2>1. tab = MainTab
    BY <1>1 DEF Basics, Registry
  <2>. QED BY <1>1, <1>2, <2>1 DEF Reaches, WantsNext
<1>5. \A k, b : <<"early", k, b>> \in uses' <=> <<"early", k, b>> \in uses \/ (k \in at..n - 1 /\ b = a)
  BY <1>3
<1>6. \A k, b : TakenFor(k, b)' <=> TakenFor(k, b)
  BY <1>3 DEF TakenFor
<1>7. /\ at > 1 => ~WantsNext(args[at - 1])
      /\ \A k \in 1..Len(args), b \in MainIds : <<"early", k, b>> \in uses <=> k < at /\ TakenFor(k, b)
  BY <1>1 DEF EarlyPass
<1>8. \A b : TakenFor(at, b) <=> b = a
  BY <1>1, <1>7 DEF TakenFor
<1>9. WantsNext(args[at]) => ~WantsNext(args[at + 1]) /\ \A b : TakenFor(at + 1, b) <=> b = a
  <2>1. WantsNext(args[at]) => ~IsEarly(args[at + 1])
    BY <1>4 DEF IsEarly
  <2>2. at + 1 > 1 /\ (at + 1) - 1 = at
    BY <1>1
  <2>. QED BY <2>1, <2>2 DEF TakenFor, WantsNext
<1> HIDE DEF a
<1>10. n > 1 => ~WantsNext(args[n - 1])
  <2>1. CASE WantsNext(args[at])
    <3>1. n - 1 = at + 1
      BY <1>1, <1>4, <2>1
    <3>. QED BY <3>1, <2>1, <1>9
  <2>2. CASE ~WantsNext(args[at])
    <3>1. n - 1 = at
      BY <1>1, <1>4, <2>2
    <3>. QED BY <3>1, <2>2
  <2>. QED BY <2>1, <2>2
<1>11. ASSUME NEW k \in 1..Len(args), NEW b \in MainIds
       PROVE  <<"early", k, b>> \in uses' <=> k < n /\ TakenFor(k, b)
  <2>1. CASE k < at
    <3>1. k < n /\ k \notin at..n - 1
      BY <1>1, <1>4, <2>1
    <3>. QED BY <3>1, <2>1, <1>5, <1>7
  <2>2. CASE k = at
    <3>1. k < n /\ k \in at..n - 1 /\ ~(k < at)
      BY <1>1, <1>4, <2>2
    <3>. QED BY <3>1, <2>2, <1>5, <1>7, <1>8
  <2>3. CASE k > at
    <3>1. <<"early", k, b>> \notin uses
      BY <1>1, <1>7, <2>3
    <3>2. CASE WantsNext(args[at])
      <4>1. n = at + 2 /\ (k \in at..n - 1 <=> k = at + 1) /\ (k < n <=> k = at + 1)
        BY <1>1, <1>4, <2>3, <3>2
      <4>. QED BY <4>1, <3>1, <3>2, <1>5, <1>9
    <3>3. CASE ~WantsNext(args[at])
      <4>1. k \notin at..n - 1 /\ ~(k < n)
        BY <1>1, <1>4, <2>3, <3>3
      <4>. QED BY <4>1, <3>1, <1>5
    <3>. QED BY <3>2, <3>3
  <2>. QED BY <1>1, <2>1, <2>2, <2>3
<1>. QED BY <1>1, <1>3, <1>6, <1>10, <1>11 DEF EarlyPass

LEMMA EarlyPassStep == Basics /\ EarlyPass /\ [Next]_vars => EarlyPass'
<1> SUFFICES ASSUME Basics, EarlyPass, [Next]_vars PROVE EarlyPass'
  OBVIOUS
<1>0. at \in Nat /\ at >= 1 /\ Len(args) \in Nat
  BY DEF Basics, TypeOK
<1>1. CASE Stops \/ Run \/ Unload
  <2>1. phase' \in {"leave", "ended"}
    BY <1>1 DEF Stops, Run, Unload, Leave
  <2>. QED BY <2>1 DEF EarlyPass
<1>2. CASE EarlySkipped
  <2>1. phase = "earlies" /\ at <= Len(args) /\ ~IsEarly(args[at])
    BY <1>2 DEF EarlySkipped
  <2>2. UNCHANGED <<args, phase, uses>> /\ at' = at + 1 /\ at' - 1 = at
    BY <1>0, <1>2 DEF EarlySkipped, Skip
  <2>3. ~WantsNext(args[at])
    BY <2>1 DEF WantsNext
  <2>4. /\ at > 1 => ~WantsNext(args[at - 1])
        /\ \A k \in 1..Len(args), b \in MainIds : <<"early", k, b>> \in uses <=> k < at /\ TakenFor(k, b)
    BY <2>1 DEF EarlyPass
  <2>5. \A b : ~TakenFor(at, b)
    BY <2>1, <2>4 DEF TakenFor
  <2>6. ASSUME NEW k \in 1..Len(args), NEW b \in MainIds
        PROVE  <<"early", k, b>> \in uses <=> k < at + 1 /\ TakenFor(k, b)
    <3>1. k < at + 1 <=> k < at \/ k = at
      BY <1>0
    <3>. QED BY <3>1, <2>4, <2>5
  <2>7. \A k, b : TakenFor(k, b)' <=> TakenFor(k, b)
    BY <2>2 DEF TakenFor
  <2>. QED BY <2>1, <2>2, <2>3, <2>6, <2>7 DEF EarlyPass
<1>3. CASE EarliesPassed
  <2>1. phase = "earlies" /\ at > Len(args) /\ phase' = "builtins" /\ UNCHANGED <<args, uses>>
    BY <1>3 DEF EarliesPassed, Aside
  <2>2. \A k \in 1..Len(args) : k < at
    BY <1>0, <2>1
  <2>. QED BY <2>1, <2>2 DEF EarlyPass, TakenFor
<1>4. ASSUME phase \in {"builtins", "external", "parse", "main", "run"}, phase' # "earlies", args' = args,
             \A k, a : <<"early", k, a>> \in uses' <=> <<"early", k, a>> \in uses
      PROVE  EarlyPass'
  <2>1. \A k, b : TakenFor(k, b)' <=> TakenFor(k, b)
    BY <1>4 DEF TakenFor
  <2>. QED BY <1>4, <2>1 DEF EarlyPass
<1>5. CASE LoadBuiltins \/ LoadPlugin \/ StartParse
  BY <1>4, <1>5 DEF LoadBuiltins, LoadPlugin, StartParse
<1>6. CASE ParsePassed \/ CheckPassed
  BY <1>4, <1>6 DEF ParsePassed, CheckPassed, Aside
<1>7. CASE Subcommand
  <2>1. /\ phase = "parse" /\ phase' = phase /\ args' = args
        /\ uses' = uses \cup {<<"all", at, <<chain', 0>>>>}
    BY <1>7 DEF Subcommand
  <2>2. \A k, a : <<"early", k, a>> # <<"all", at, <<chain', 0>>>>
    OBVIOUS
  <2>. QED BY <2>1, <2>2, <1>4
<1>8. CASE OptionTaken \/ WordTaken
  <2>1. PICK n, a : Accepted("all", a, n)
    BY <1>8 DEF OptionTaken, WordTaken
  <2>2. phase = "parse"
    BY <1>8 DEF OptionTaken, WordTaken
  <2>3. phase' = phase /\ args' = args /\ uses' = uses \cup {<<"all", k, a>> : k \in at..n - 1}
    BY <2>1 DEF Accepted
  <2>. QED BY <2>2, <2>3, <1>4
<1>9. CASE UNCHANGED vars
  BY <1>9 DEF vars, EarlyPass, TakenFor
<1>. QED BY <1>1, <1>2, <1>3, <1>5, <1>6, <1>7, <1>8, <1>9, EarlyTakenKeeps, StepCases

\* A subcommand adds no option to the application's.
LEMMA MainKept ==
  ASSUME Basics
  PROVE  Ids(tab, <<>>) = MainIds /\ \A a \in MainIds : a[1] = <<>> /\ Opt(tab, a) = Opt(MainTab, a)
<1>1. DOMAIN MainTab \subseteq DOMAIN tab /\ \A path \in DOMAIN MainTab : tab[path] = MainTab[path]
  BY MainTabSound DEF Basics, Registry
<1>2. \A a \in MainIds : a[1] = <<>>
  BY MainTabSound, IdsAre DEF MainIds
<1>3. /\ \A path \in DOMAIN MainTab : Ids(tab, path) = Ids(MainTab, path)
      /\ \A a : a[1] \in DOMAIN MainTab => Opt(tab, a) = Opt(MainTab, a)
  BY <1>1, OptionsKept
<1>. QED BY <1>2, <1>3, MainTabSound DEF MainIds

\* Both passes find the same behind the name of an option that no subcommand in use shadows.
LEMMA FoundAlike ==
  ASSUME Basics, NEW b \in MainIds, ~Shadowed(b), NEW name, name \in Opt(MainTab, b).names
  PROVE  Find(tab, Outwards(chain), name) = Find(MainTab, {<<>>}, name)
<1> DEFINE all == {a \in UNION {Ids(tab, q) : q \in Outwards(chain)} : name \in Opt(tab, a).names}
           early == {a \in UNION {Ids(MainTab, q) : q \in {<<>>}} : name \in Opt(MainTab, a).names}
<1>1. Opt(tab, b) = Opt(MainTab, b) /\ Ids(tab, <<>>) = MainIds
  BY MainKept
<1>2. <<>> \in Outwards(chain)
  BY PrefixesAre DEF Outwards, Basics, Chain
<1>3. ASSUME NEW a \in all PROVE a \in early
  <2>1. PICK q \in Outwards(chain) : a \in Ids(tab, q) /\ name \in Opt(tab, a).names
    OBVIOUS
  <2>2. q = <<>>
    BY <1>1, <2>1 DEF Shadowed
  <2>3. a \in MainIds
    BY <1>1, <2>1, <2>2
  <2>. QED BY <2>1, <2>3, MainKept DEF MainIds
<1>4. ASSUME NEW a \in early PROVE a \in all
  <2>1. a \in MainIds /\ name \in Opt(MainTab, a).names
    BY DEF MainIds
  <2>2. a \in Ids(tab, <<>>) /\ name \in Opt(tab, a).names
    BY <2>1, MainKept
  <2>. QED BY <2>2, <1>2
<1>5. all = early
  BY <1>3, <1>4
<1>. QED BY <1>5 DEF Find

\* So the second pass takes the option in the same tokens.
LEMMA OptionsAlike ==
  ASSUME Basics, NEW b \in MainIds, Opt(MainTab, b).early, ~Shadowed(b), NEW t, t.dash
  PROVE  LET a == Find(tab, Outwards(chain), t.name) IN
         /\ a # Absent /\ a = b <=> IsEarly(t) /\ Found(t) = b
         /\ a # Absent /\ a = b =>
              (WantsNext(t) <=> Opt(tab, a).kind \notin {"flag", "exit"} /\ t.eq = Absent)
<1> DEFINE a == Find(tab, Outwards(chain), t.name)
<1>0. Sound(tab) /\ chain \in Seq(STRING) /\ Prefixes(chain) \subseteq DOMAIN tab
  BY DEF Basics, Registry, Chain, TypeOK
<1>1. ASSUME a # Absent, a = b PROVE IsEarly(t) /\ Found(t) = b
  <2>1. t.name \in Opt(tab, b).names
    BY <1>0, <1>1, FoundByName
  <2>2. t.name \in Opt(MainTab, b).names
    BY <2>1, MainKept
  <2>3. Found(t) = a
    BY <2>2, FoundAlike DEF Found
  <2>. QED BY <1>1, <2>3 DEF IsEarly
<1>2. ASSUME IsEarly(t), Found(t) = b PROVE a # Absent /\ a = b
  <2>1. t.name \in Opt(MainTab, b).names
    BY <1>2, MainFound DEF IsEarly
  <2>2. Found(t) = a
    BY <2>1, FoundAlike DEF Found
  <2>. QED BY <1>2, <2>2 DEF IsEarly
<1>3. Opt(tab, b) = Opt(MainTab, b)
  BY MainKept
<1> HIDE DEF a
<1>4. ASSUME a # Absent, a = b
      PROVE  WantsNext(t) <=> Opt(tab, a).kind \notin {"flag", "exit"} /\ t.eq = Absent
  BY <1>1, <1>3, <1>4 DEF WantsNext
<1>. QED BY <1>1, <1>2, <1>4 DEF a

\* A pass that takes the tokens from at on for one thing takes each once.
LEMMA TakesOnce ==
  ASSUME Basics, TakenOnce, at <= Len(args), NEW n \in {at + 1, at + 2}, NEW a,
         args' = args, at' = n, uses' = uses \cup {<<"all", k, a>> : k \in at..n - 1}
  PROVE  TakenOnce'
<1>0. at \in Nat /\ at >= 1 /\ Len(args) \in Nat /\ \A u \in uses : u[2] \in Int
  BY DEF Basics, TypeOK, Uses
<1>1. \A u \in uses' : u \in uses \/ (u = <<"all", u[2], a>> /\ u[2] \in at..n - 1)
  BY DEF Uses
<1>2. \A k \in at..n - 1 : k \in Int /\ k >= at /\ k < n
  BY <1>0
<1>3. ASSUME NEW x \in uses', NEW y \in uses', x[1] = "all", y[1] = "all", x[2] = y[2] PROVE x = y
  <2>1. CASE x \in uses /\ y \in uses
    BY <2>1, <1>3 DEF TakenOnce
  <2>2. CASE x \in uses /\ y \notin uses
    BY <2>2, <1>0, <1>1, <1>2, <1>3 DEF TakenOnce
  <2>3. CASE x \notin uses /\ y \in uses
    BY <2>3, <1>0, <1>1, <1>2, <1>3 DEF TakenOnce
  <2>4. CASE x \notin uses /\ y \notin uses
    BY <2>4, <1>1, <1>3
  <2>. QED BY <2>1, <2>2, <2>3, <2>4
<1>4. ASSUME NEW u \in uses', u[1] = "all" PROVE u[2] < n
  <2>1. CASE u \in uses
    BY <1>0, <1>4, <2>1 DEF TakenOnce
  <2>. QED BY <1>1, <1>2, <2>1
<1>5. ASSUME NEW k \in 1..Len(args), k < n PROVE \E u \in uses' : u[1] = "all" /\ u[2] = k
  <2>1. CASE k < at
    BY <2>1 DEF TakenOnce
  <2>2. CASE ~(k < at)
    <3>1. k \in at..n - 1
      BY <1>0, <1>5, <2>2
    <3>2. <<"all", k, a>> \in uses'
      BY <3>1
    <3>. QED BY <3>2
  <2>. QED BY <2>1, <2>2
<1>. QED BY <1>3, <1>4, <1>5 DEF TakenOnce

\* A word that is taken for no early option, behind none that wants it.
LEMMA TakesOther ==
  ASSUME Basics, TakenAlike, at <= Len(args), ~args[at].dash, NEW a, a \notin MainIds,
         args' = args, at' = at + 1, uses' = uses \cup {<<"all", at, a>>},
         \A b \in MainIds : ~Shadowed(b)' => ~Shadowed(b)
  PROVE  TakenAlike'
<1>0. at \in Nat /\ at >= 1 /\ Len(args) \in Nat /\ at' - 1 = at
  BY DEF Basics, TypeOK
<1>1. SUFFICES ASSUME NEW b \in MainIds, Opt(MainTab, b).early, ~Shadowed(b)'
               PROVE  /\ at' > 1 => ~(WantsNext(args[at' - 1]) /\ Found(args[at' - 1]) = b)
                      /\ \A k \in 1..Len(args) : <<"all", k, b>> \in uses' <=> k < at' /\ TakenFor(k, b)
  BY DEF TakenAlike, TakenFor
<1>2. /\ at > 1 => ~(WantsNext(args[at - 1]) /\ Found(args[at - 1]) = b)
      /\ \A k \in 1..Len(args) : <<"all", k, b>> \in uses <=> k < at /\ TakenFor(k, b)
  BY <1>1 DEF TakenAlike
<1>3. ~IsEarly(args[at]) /\ ~WantsNext(args[at])
  BY DEF IsEarly, WantsNext
<1>4. ~TakenFor(at, b)
  BY <1>2, <1>3 DEF TakenFor
<1>5. \A k : <<"all", k, b>> \in uses' <=> <<"all", k, b>> \in uses
  BY <1>1
<1>6. ASSUME NEW k \in 1..Len(args) PROVE <<"all", k, b>> \in uses' <=> k < at' /\ TakenFor(k, b)
  <2>1. k < at' <=> k < at \/ k = at
    BY <1>0
  <2>. QED BY <2>1, <1>2, <1>4, <1>5
<1>. QED BY <1>0, <1>3, <1>6

LEMMA OptionTakesAlike ==
  ASSUME Basics, TakenAlike, OptionTaken
  PROVE  TakenAlike'
<1> DEFINE a == Find(tab, Outwards(chain), args[at].name)
<1>1. /\ phase = "parse" /\ at <= Len(args) /\ args[at].dash /\ a # Absent
      /\ at \in Nat /\ at >= 1 /\ Len(args) \in Nat
  BY DEF OptionTaken, Basics, TypeOK
<1>2. PICK n \in Int : Accepted("all", a, n) /\ Reaches(a, n)
  BY DEF OptionTaken
<1>3. /\ at' = n /\ uses' = uses \cup {<<"all", k, a>> : k \in at..n - 1}
      /\ args' = args /\ tab' = tab /\ chain' = chain
  BY <1>2 DEF Accepted
<1>4. \A b : Shadowed(b)' <=> Shadowed(b)
  BY <1>3 DEF Shadowed
<1>5. \A k, b : TakenFor(k, b)' <=> TakenFor(k, b)
  BY <1>3 DEF TakenFor
<1>6. SUFFICES ASSUME NEW b \in MainIds, Opt(MainTab, b).early, ~Shadowed(b)
               PROVE  /\ n > 1 => ~(WantsNext(args[n - 1]) /\ Found(args[n - 1]) = b)
                      /\ \A k \in 1..Len(args) : <<"all", k, b>> \in uses' <=> k < n /\ TakenFor(k, b)
  BY <1>3, <1>4, <1>5 DEF TakenAlike
<1>7. /\ at > 1 => ~(WantsNext(args[at - 1]) /\ Found(args[at - 1]) = b)
      /\ \A k \in 1..Len(args) : <<"all", k, b>> \in uses <=> k < at /\ TakenFor(k, b)
  BY <1>6 DEF TakenAlike
<1>8. /\ a = b <=> IsEarly(args[at]) /\ Found(args[at]) = b
      /\ a = b => (WantsNext(args[at]) <=> Opt(tab, a).kind \notin {"flag", "exit"} /\ args[at].eq = Absent)
  BY <1>1, <1>6, OptionsAlike
<1>9. \A k : <<"all", k, b>> \in uses' <=> <<"all", k, b>> \in uses \/ (k \in at..n - 1 /\ a = b)
  BY <1>3
<1>10. TakenFor(at, b) <=> a = b
  BY <1>7, <1>8 DEF TakenFor
<1>11. n \in {at + 1, at + 2} /\ (n = at + 2 => ~args[at + 1].dash)
  BY <1>1, <1>2 DEF Reaches
<1>12. a = b => (n = at + 2 <=> WantsNext(args[at]))
  BY <1>1, <1>2, <1>8 DEF Reaches
<1> HIDE DEF a
<1>13. n = at + 2 => ~WantsNext(args[at + 1]) /\ (TakenFor(at + 1, b) <=> a = b)
  <2>1. ASSUME n = at + 2 PROVE ~IsEarly(args[at + 1]) /\ ~WantsNext(args[at + 1])
    BY <2>1, <1>11 DEF IsEarly, WantsNext
  <2>2. at + 1 > 1 /\ (at + 1) - 1 = at
    BY <1>1
  <2>3. ASSUME n = at + 2 PROVE TakenFor(at + 1, b) <=> WantsNext(args[at]) /\ b = Found(args[at])
    BY <2>1, <2>2, <2>3 DEF TakenFor
  <2>4. WantsNext(args[at]) => IsEarly(args[at])
    BY DEF WantsNext
  <2>. QED BY <2>1, <2>3, <2>4, <1>8, <1>12
<1>14. n > 1 => ~(WantsNext(args[n - 1]) /\ Found(args[n - 1]) = b)
  <2>1. CASE n = at + 2
    <3>1. n - 1 = at + 1
      BY <1>1, <2>1
    <3>. QED BY <3>1, <2>1, <1>13
  <2>2. CASE n = at + 1
    <3>1. n - 1 = at /\ n # at + 2
      BY <1>1, <2>2
    <3>2. WantsNext(args[at]) => IsEarly(args[at])
      BY DEF WantsNext
    <3>. QED BY <3>1, <3>2, <1>8, <1>12
  <2>. QED BY <2>1, <2>2, <1>11
<1>15. ASSUME NEW k \in 1..Len(args) PROVE <<"all", k, b>> \in uses' <=> k < n /\ TakenFor(k, b)
  <2>1. CASE k < at
    <3>1. k < n /\ k \notin at..n - 1
      BY <1>1, <1>11, <2>1
    <3>. QED BY <3>1, <2>1, <1>7, <1>9
  <2>2. CASE k = at
    <3>1. k < n /\ k \in at..n - 1 /\ ~(k < at)
      BY <1>1, <1>11, <2>2
    <3>. QED BY <3>1, <2>2, <1>7, <1>9, <1>10
  <2>3. CASE k > at
    <3>1. <<"all", k, b>> \notin uses
      BY <1>1, <1>7, <2>3
    <3>2. CASE n = at + 2
      <4>1. (k \in at..n - 1 <=> k = at + 1) /\ (k < n <=> k = at + 1)
        BY <1>1, <2>3, <3>2
      <4>. QED BY <4>1, <3>1, <3>2, <1>9, <1>13
    <3>3. CASE n = at + 1
      <4>1. k \notin at..n - 1 /\ ~(k < n)
        BY <1>1, <2>3, <3>3
      <4>. QED BY <4>1, <3>1, <1>9
    <3>. QED BY <3>2, <3>3, <1>11
  <2>. QED BY <1>1, <2>1, <2>2, <2>3
<1>. QED BY <1>14, <1>15

LEMMA AllPassStep == Basics /\ AllPass /\ [Next]_vars => AllPass'
<1> SUFFICES ASSUME Basics, AllPass, [Next]_vars PROVE AllPass'
  OBVIOUS
<1>0. at \in Nat /\ at >= 1 /\ Len(args) \in Nat /\ at <= Len(args) + 1
  BY DEF Basics, TypeOK
<1>1. CASE Stops \/ Run \/ Unload
  <2>1. phase' \in {"leave", "ended"}
    BY <1>1 DEF Stops, Run, Unload, Leave
  <2>. QED BY <2>1 DEF AllPass, Loading, Parsing
<1>2. CASE EarlyTaken
  <2>1. PICK n, a : Accepted("early", a, n)
    BY <1>2 DEF EarlyTaken
  <2>2. phase = "earlies" /\ phase' = "earlies" /\ uses' = uses \cup {<<"early", k, a>> : k \in at..n - 1}
    BY <1>2, <2>1 DEF EarlyTaken, Accepted
  <2>. QED BY <2>2 DEF AllPass, Loading, Parsing
<1>3. CASE EarlySkipped \/ EarliesPassed \/ LoadBuiltins \/ LoadPlugin
  <2>1. Loading /\ Loading' /\ ~Parsing' /\ uses' = uses /\ phase' \notin {"main", "run"}
    BY <1>3 DEF EarlySkipped, EarliesPassed, LoadBuiltins, LoadPlugin, Skip, Aside, Loading, Parsing
  <2>. QED BY <2>1 DEF AllPass
<1>4. CASE StartParse
  <2>1. /\ phase = "external" /\ phase' = "parse" /\ at' = 1
        /\ UNCHANGED <<args, tab, value, chain, uses>>
    BY <1>4 DEF StartParse
  <2>2. \A u \in uses : u[1] = "early"
    BY <2>1 DEF AllPass, Loading
  <2>3. TakenOnce'
    BY <1>0, <2>1, <2>2 DEF TakenOnce
  <2>4. TakenAlike'
    <3>1. \A k \in 1..Len(args) : ~(k < 1)
      OBVIOUS
    <3>2. \A k, a : <<"all", k, a>> \notin uses
      BY <2>2
    <3>. QED BY <2>1, <3>1, <3>2 DEF TakenAlike
  <2>. QED BY <2>1, <2>3, <2>4 DEF AllPass, Loading, Parsing
<1>5. CASE Subcommand
  <2> DEFINE a == <<chain', 0>>
  <2>1. /\ phase = "parse" /\ phase' = "parse" /\ at <= Len(args) /\ ~args[at].dash
        /\ uses' = uses \cup {<<"all", at, a>>} /\ at' = at + 1 /\ args' = args /\ tab' = tab
        /\ chain' = Append(chain, args[at].name)
    BY <1>5 DEF Subcommand
  <2>2. TakenOnce /\ TakenAlike
    BY <2>1 DEF AllPass, Parsing
  <2>3. a \notin MainIds
    BY MainTabSound, IdsAre DEF MainIds
  <2>4. Prefixes(chain) \subseteq Prefixes(chain')
    <3>1. args[at].name \in STRING /\ chain \in Seq(STRING)
      BY <2>1, TokenType DEF Basics, Chain
    <3>2. Prefixes(Append(chain, args[at].name)) = Prefixes(chain) \cup {Append(chain, args[at].name)}
      BY <3>1, PrefixesAre
    <3>. QED BY <2>1, <3>2
  <2>5. \A b \in MainIds : ~Shadowed(b)' => ~Shadowed(b)
    BY <2>1, <2>4 DEF Shadowed, Outwards
  <2>6. \A k : k \in at..(at + 1) - 1 <=> k = at
    BY <1>0
  <2> HIDE DEF a
  <2>7. uses' = uses \cup {<<"all", k, a>> : k \in at..(at + 1) - 1}
    BY <2>1, <2>6
  <2>8. TakenOnce'
    BY <2>1, <2>2, <2>7, TakesOnce
  <2>9. TakenAlike'
    BY <2>1, <2>2, <2>3, <2>5, TakesOther
  <2>. QED BY <2>1, <2>8, <2>9 DEF AllPass, Loading, Parsing
<1>6. CASE OptionTaken
  <2> DEFINE a == Find(tab, Outwards(chain), args[at].name)
  <2>1. PICK n \in Int : Accepted("all", a, n) /\ Reaches(a, n)
    BY <1>6 DEF OptionTaken
  <2> HIDE DEF a
  <2>2. /\ phase = "parse" /\ phase' = "parse" /\ at <= Len(args) /\ args' = args
        /\ at' = n /\ uses' = uses \cup {<<"all", k, a>> : k \in at..n - 1}
    BY <1>6, <2>1 DEF OptionTaken, Accepted
  <2>3. TakenOnce /\ TakenAlike
    BY <2>2 DEF AllPass, Parsing
  <2>4. n \in {at + 1, at + 2}
    BY <2>1, <2>2, ReachesWithin
  <2>5. TakenOnce'
    BY <2>2, <2>3, <2>4, TakesOnce
  <2>6. TakenAlike'
    BY <1>6, <2>3, OptionTakesAlike
  <2>. QED BY <2>2, <2>5, <2>6 DEF AllPass, Loading, Parsing
<1>7. CASE WordTaken
  <2> DEFINE a == NextPositional(tab, Outwards(chain), Given)
  <2>1. /\ phase = "parse" /\ at <= Len(args) /\ ~args[at].dash /\ a # Absent
        /\ Accepted("all", a, at + 1)
    BY <1>7 DEF WordTaken
  <2>2. Opt(tab, a).positional
    BY <2>1, MayBeTaken
  <2>3. a \notin MainIds
    <3>1. ASSUME a \in MainIds PROVE FALSE
      <4>1. Opt(tab, a) = MainOptions[a[2]] /\ a[2] \in DOMAIN MainOptions
        BY <3>1, MainKept, MainTabSound DEF MainIds, Ids, Opt
      <4>. QED BY <4>1, <2>2, MainIsNotPositional
    <3>. QED BY <3>1
  <2> HIDE DEF a
  <2>4. /\ phase' = "parse" /\ args' = args /\ tab' = tab /\ chain' = chain
        /\ at' = at + 1 /\ uses' = uses \cup {<<"all", k, a>> : k \in at..(at + 1) - 1}
    BY <2>1 DEF Accepted
  <2>5. \A k : k \in at..(at + 1) - 1 <=> k = at
    BY <1>0
  <2>6. uses' = uses \cup {<<"all", at, a>>}
    BY <2>4, <2>5
  <2>7. TakenOnce /\ TakenAlike
    BY <2>1 DEF AllPass, Parsing
  <2>8. \A b \in MainIds : ~Shadowed(b)' => ~Shadowed(b)
    BY <2>4 DEF Shadowed
  <2>9. TakenOnce'
    BY <2>1, <2>4, <2>7, TakesOnce
  <2>10. TakenAlike'
    BY <2>1, <2>3, <2>4, <2>6, <2>7, <2>8, TakesOther
  <2>. QED BY <2>4, <2>9, <2>10 DEF AllPass, Loading, Parsing
<1>8. ASSUME Parsing, UNCHANGED <<args, at, tab, chain, uses>>, phase' \in {"main", "run"},
             at = Len(args) + 1
      PROVE  AllPass'
  <2>1. TakenOnce' /\ TakenAlike'
    BY <1>8 DEF AllPass, TakenOnce, TakenAlike, Shadowed, TakenFor
  <2>. QED BY <1>8, <2>1 DEF AllPass, Loading, Parsing
<1>9. CASE ParsePassed
  <2>1. at = Len(args) + 1
    BY <1>0, <1>9 DEF ParsePassed
  <2>. QED BY <1>8, <1>9, <2>1 DEF ParsePassed, Aside, Parsing
<1>10. CASE CheckPassed
  BY <1>8, <1>10 DEF CheckPassed, Aside, Parsing, AllPass
<1>11. CASE UNCHANGED vars
  BY <1>11 DEF vars, AllPass, Loading, Parsing, TakenOnce, TakenAlike, Shadowed, TakenFor
<1>. QED BY <1>1, <1>2, <1>3, <1>4, <1>5, <1>6, <1>7, <1>9, <1>10, <1>11, StepCases

-----------------------------------------------------------------------------
(* The subcommands. *)

\* A token taken for a subcommand, or for something of one.
Inner(u) == u[1] = "all" /\ u[3][1] # <<>>

\* The first of them names the first of the chain.
Heads ==
  Parsing \/ ran # Absent =>
    /\ chain = <<>> => \A u \in uses : ~Inner(u)
    /\ chain # <<>> => \E u \in uses :
         /\ Inner(u) /\ args[u[2]] = Word(chain[1])
         /\ \A w \in uses : Inner(w) => u[2] <= w[2]

\* Behind ParsePassed the chain has what it needs.
Supplied ==
  phase \in {"main", "run"} \/ ran # Absent =>
    \A path \in Outwards(chain) \ {<<>>} :
      SuperiorUsed(tab, path, Given) \/ RequiredGiven(tab, path, Given)

LEMMA SuppliedStep == Verdict /\ Supplied /\ [Next]_vars /\ Basics => Supplied'
<1> SUFFICES ASSUME Basics, Verdict, Supplied, [Next]_vars PROVE Supplied'
  OBVIOUS
<1>1. ASSUME phase \notin {"leave", "ended"}, ran' = ran, phase' \notin {"main", "run"}
      PROVE  Supplied'
  BY <1>1 DEF Verdict, Supplied
<1>2. CASE Stops
  BY <1>1, <1>2 DEF Stops
<1>3. CASE EarlyTaken \/ EarlySkipped \/ EarliesPassed
  BY <1>3, <1>1 DEF EarlyTaken, EarlySkipped, EarliesPassed, Accepted, Skip, Aside
<1>4. CASE LoadBuiltins \/ LoadPlugin \/ StartParse \/ Subcommand
  BY <1>4, <1>1 DEF LoadBuiltins, LoadPlugin, StartParse, Subcommand
<1>5. CASE OptionTaken \/ WordTaken
  BY <1>5, <1>1 DEF OptionTaken, WordTaken, Accepted
<1>6. CASE ParsePassed
  <2>1. Complete(tab, chain, Given) /\ UNCHANGED <<tab, chain, value>>
    BY <1>6 DEF ParsePassed, Aside
  <2>. QED BY <2>1 DEF Complete, Supplied, Given
<1>7. ASSUME phase \in {"main", "run"} \/ ran # Absent, UNCHANGED <<tab, chain, value>> PROVE Supplied'
  BY <1>7 DEF Supplied, Given
<1>8. CASE CheckPassed
  BY <1>7, <1>8 DEF CheckPassed, Aside
<1>9. CASE Run
  BY <1>7, <1>9 DEF Run
<1>10. CASE Unload
  <2>1. ran' = ran /\ phase' = "ended" /\ UNCHANGED <<tab, chain, value>>
    BY <1>10 DEF Unload
  <2>2. CASE ran # Absent
    BY <2>1, <2>2, <1>7
  <2>3. CASE ran = Absent
    BY <2>1, <2>3 DEF Supplied
  <2>. QED BY <2>2, <2>3
<1>11. CASE UNCHANGED vars
  BY <1>11 DEF vars, Supplied, Given
<1>. QED BY <1>2, <1>3, <1>4, <1>5, <1>6, <1>8, <1>9, <1>10, <1>11, StepCases

\* What is taken for an option of a chain that has begun is behind its first subcommand.
LEMMA TakenKeepsHeads ==
  ASSUME Basics, AllPass, Heads, phase = "parse", at <= Len(args), NEW a, a[1] \in Prefixes(chain),
         NEW n \in {at + 1, at + 2}, Accepted("all", a, n)
  PROVE  Heads'
<1>0. at \in Nat /\ \A u \in uses : u[2] \in Int
  BY DEF Basics, TypeOK, Uses
<1>1. /\ uses' = uses \cup {<<"all", k, a>> : k \in at..n - 1}
      /\ args' = args /\ chain' = chain
  BY DEF Accepted
<1>2. TakenOnce
  BY DEF AllPass, Parsing
<1>3. CASE chain = <<>>
  <2>1. a[1] = <<>>
    BY <1>3, PrefixesAre DEF Basics, Chain
  <2>2. \A u \in uses : ~Inner(u)
    BY <1>3 DEF Heads, Parsing
  <2>3. \A u \in uses' : u \in uses \/ u[3] = a
    BY <1>1
  <2>4. \A u \in uses' : ~Inner(u)
    BY <2>1, <2>2, <2>3 DEF Inner
  <2>. QED BY <2>4, <1>1, <1>3 DEF Heads
<1>4. CASE chain # <<>>
  <2>1. PICK u \in uses : /\ Inner(u) /\ args[u[2]] = Word(chain[1])
                          /\ \A w \in uses : Inner(w) => u[2] <= w[2]
    BY <1>4 DEF Heads, Parsing
  <2>2. u[2] < at /\ u \in uses'
    BY <1>1, <1>2, <2>1 DEF TakenOnce, Inner
  <2>3. ASSUME NEW w \in uses', Inner(w) PROVE u[2] <= w[2]
    <3>1. CASE w \in uses
      BY <2>1, <2>3, <3>1
    <3>2. CASE w \notin uses
      <4>1. w[2] \in at..n - 1
        BY <3>2, <1>1
      <4>. QED BY <4>1, <2>2, <1>0
    <3>. QED BY <3>1, <3>2
  <2>. QED BY <2>1, <2>2, <2>3, <1>1, <1>4 DEF Heads
<1>. QED BY <1>3, <1>4

LEMMA SubcommandKeepsHeads ==
  ASSUME Basics, AllPass, Heads, Subcommand
  PROVE  Heads'
<1>1. /\ phase = "parse" /\ at <= Len(args) /\ ~args[at].dash /\ args' = args
      /\ chain' = Append(chain, args[at].name)
      /\ uses' = uses \cup {<<"all", at, <<chain', 0>>>>}
  BY DEF Subcommand
<1>2. at \in Nat /\ at \in DOMAIN args /\ args[at].name \in STRING /\ chain \in Seq(STRING)
      /\ \A u \in uses : u[2] \in Int
  BY <1>1, TokenType DEF Basics, TypeOK, Chain, Uses
<1>3. args[at] = Word(args[at].name)
  BY <1>1, <1>2 DEF Basics, Arguments
<1>4. chain' # <<>> /\ (chain = <<>> => chain'[1] = args[at].name) /\ (chain # <<>> => chain'[1] = chain[1])
  BY <1>1, <1>2, AppendProperties
<1> DEFINE new == <<"all", at, <<chain', 0>>>>
<1>5. new \in uses' /\ Inner(new) /\ new[2] = at /\ uses' = uses \cup {new}
  BY <1>1, <1>4 DEF Inner
<1> HIDE DEF new
<1>6. CASE chain = <<>>
  <2>1. \A u \in uses : ~Inner(u)
    BY <1>1, <1>6 DEF Heads, Parsing
  <2>2. \A w \in uses' : Inner(w) => new[2] <= w[2]
    BY <2>1, <1>2, <1>5
  <2>3. args'[new[2]] = Word(chain'[1])
    BY <1>1, <1>3, <1>4, <1>5, <1>6
  <2>. QED BY <1>4, <1>5, <2>2, <2>3 DEF Heads
<1>7. CASE chain # <<>>
  <2>1. PICK u \in uses : /\ Inner(u) /\ args[u[2]] = Word(chain[1])
                          /\ \A w \in uses : Inner(w) => u[2] <= w[2]
    BY <1>1, <1>7 DEF Heads, Parsing
  <2>2. u[2] < at
    BY <1>1, <2>1 DEF AllPass, Parsing, TakenOnce, Inner
  <2>3. \A w \in uses' : Inner(w) => u[2] <= w[2]
    BY <1>2, <1>5, <2>1, <2>2
  <2>4. args'[u[2]] = Word(chain'[1]) /\ u \in uses'
    BY <1>1, <1>4, <1>7, <2>1
  <2>. QED BY <1>4, <2>1, <2>3, <2>4 DEF Heads
<1>. QED BY <1>6, <1>7

LEMMA HeadsStep == Basics /\ AllPass /\ Verdict /\ Heads /\ [Next]_vars => Heads'
<1> SUFFICES ASSUME Basics, AllPass, Verdict, Heads, [Next]_vars PROVE Heads'
  OBVIOUS
<1>1. ASSUME phase \notin {"leave", "ended"}, ran' = ran, ~Parsing'
      PROVE  Heads'
  BY <1>1 DEF Verdict, Heads
<1>2. CASE Stops
  BY <1>1, <1>2 DEF Stops, Parsing
<1>3. CASE EarlyTaken \/ EarlySkipped \/ EarliesPassed
  BY <1>3, <1>1 DEF EarlyTaken, EarlySkipped, EarliesPassed, Accepted, Skip, Aside, Parsing
<1>4. CASE LoadBuiltins \/ LoadPlugin
  BY <1>4, <1>1 DEF LoadBuiltins, LoadPlugin, Parsing
<1>5. CASE StartParse
  <2>1. phase = "external" /\ UNCHANGED <<args, chain, uses>>
    BY <1>5 DEF StartParse
  <2>2. chain = <<>> /\ \A u \in uses : u[1] = "early"
    BY <2>1 DEF Basics, Chain, AllPass, Loading
  <2>. QED BY <2>1, <2>2 DEF Heads, Inner
<1>6. CASE Subcommand
  BY <1>6, SubcommandKeepsHeads
<1>7. CASE OptionTaken
  <2> DEFINE a == Find(tab, Outwards(chain), args[at].name)
  <2>1. /\ phase = "parse" /\ at <= Len(args) /\ a # Absent
        /\ \E n \in Int : Accepted("all", a, n) /\ Reaches(a, n)
    BY <1>7 DEF OptionTaken
  <2>2. a[1] \in Prefixes(chain)
    BY <2>1, MayBeTaken
  <2> HIDE DEF a
  <2>. QED BY <2>1, <2>2, ReachesWithin, TakenKeepsHeads
<1>8. CASE WordTaken
  <2> DEFINE a == NextPositional(tab, Outwards(chain), Given)
  <2>1. phase = "parse" /\ at <= Len(args) /\ a # Absent /\ Accepted("all", a, at + 1)
    BY <1>8 DEF WordTaken
  <2>2. a[1] \in Prefixes(chain)
    BY <2>1, MayBeTaken
  <2> HIDE DEF a
  <2>. QED BY <2>1, <2>2, TakenKeepsHeads
<1>9. ASSUME Parsing \/ ran # Absent, UNCHANGED <<args, chain, uses>> PROVE Heads'
  BY <1>9 DEF Heads, Inner
<1>10. CASE ParsePassed \/ CheckPassed \/ Run
  BY <1>9, <1>10 DEF ParsePassed, CheckPassed, Run, Aside, Parsing
<1>11. CASE Unload
  <2>1. ran' = ran /\ phase' = "ended" /\ UNCHANGED <<args, chain, uses>>
    BY <1>11 DEF Unload
  <2>2. CASE ran # Absent
    BY <2>1, <2>2, <1>9
  <2>3. CASE ran = Absent
    BY <2>1, <2>3 DEF Heads, Parsing
  <2>. QED BY <2>2, <2>3
<1>12. CASE UNCHANGED vars
  BY <1>12 DEF vars, Heads, Inner, Parsing
<1>. QED BY <1>2, <1>3, <1>4, <1>5, <1>6, <1>7, <1>8, <1>10, <1>11, <1>12, StepCases

-----------------------------------------------------------------------------
(* The theorems. *)

IInv == Basics /\ Verdict /\ Loads /\ EarlyPass /\ AllPass /\ Supplied /\ Heads

\* The seven parts of the invariant hold at every place of main and of the parser
\* (Main.cpp:77-195, cmdline.hpp:1222-1413).
THEOREM Inductive == Spec => []IInv
<1>1. Init => IInv
  <2> SUFFICES ASSUME Init PROVE IInv
    OBVIOUS
  <2>1. at = 1 /\ phase = "earlies" /\ uses = {} /\ ran = Absent
    BY DEF Init
  <2>2. EarlyPass
    <3>1. \A k \in 1..Len(args) : ~(k < 1)
      OBVIOUS
    <3>. QED BY <2>1, <3>1 DEF EarlyPass
  <2>3. AllPass /\ Supplied /\ Heads
    BY <2>1 DEF AllPass, Supplied, Heads, Parsing
  <2>. QED BY <2>2, <2>3, BasicsInit, VerdictInit, LoadsInit DEF IInv
<1>2. IInv /\ [Next]_vars => IInv'
  BY BasicsStep, VerdictStep, LoadsStep, EarlyPassStep, AllPassStep, SuppliedStep, HeadsStep DEF IInv
<1>. QED BY <1>1, <1>2, PTL DEF Spec

\* Every state is a state of the types (Startup's variables, at every place of main).
THEOREM TypeCorrect == Spec => []TypeOK
<1>1. IInv => TypeOK
  BY DEF IInv, Basics
<1>. QED BY <1>1, Inductive, PTL

\* The two passes agree on every command line: each token was taken for one thing,
\* and for an early option that no subcommand shadows, by both or by neither
\* (cmdline.hpp:1228-1267, 1297-1359).
THEOREM BothPassesAgree == Spec => []PassesAgree
<1>1. IInv => PassesAgree
  <2> SUFFICES ASSUME IInv, Passed PROVE PassesAgree
    BY DEF PassesAgree
  <2>1. Basics /\ TakenOnce /\ TakenAlike /\ at = Len(args) + 1
    BY DEF IInv, AllPass, Passed, Parsing
  <2>2. \A k \in 1..Len(args) : k < at
    BY <2>1 DEF Basics, TypeOK
  <2>3. ASSUME NEW k \in 1..Len(args) PROVE Cardinality({u \in uses : u[1] = "all" /\ u[2] = k}) = 1
    <3>1. PICK u \in uses : u[1] = "all" /\ u[2] = k
      BY <2>1, <2>2 DEF TakenOnce
    <3>2. {w \in uses : w[1] = "all" /\ w[2] = k} = {u}
      BY <2>1, <3>1 DEF TakenOnce
    <3>. QED BY <3>2, FS_Singleton
  <2>4. ASSUME NEW a \in Ids(tab, <<>>), Opt(tab, a).early, ~Shadowed(a), NEW k \in 1..Len(args)
        PROVE  <<"early", k, a>> \in uses <=> <<"all", k, a>> \in uses
    <3>1. a \in MainIds /\ Opt(MainTab, a).early
      BY <2>1, <2>4, MainKept
    <3>2. <<"early", k, a>> \in uses <=> TakenFor(k, a)
      BY <3>1 DEF IInv, EarlyPass, Passed
    <3>3. <<"all", k, a>> \in uses <=> k < at /\ TakenFor(k, a)
      BY <2>1, <2>4, <3>1 DEF TakenAlike
    <3>. QED BY <2>2, <3>2, <3>3
  <2>. QED BY <2>3, <2>4 DEF PassesAgree
<1>. QED BY <1>1, Inductive, PTL

\* What runs is loaded, was named first behind nothing but pmt's own options, and
\* was given what its subcommands require (Plugin.hpp:237-247).
THEOREM RunsTheNamed == Spec => []RunsWhatWasNamed
<1>1. IInv => RunsWhatWasNamed
  <2> SUFFICES ASSUME IInv, ran # Absent PROVE RunsWhatWasNamed
    BY DEF RunsWhatWasNamed
  <2>1. /\ ran.plugin \in LoadedPlugins \ Rejected /\ chain # <<>> /\ tab[<<chain[1]>>] = ran.plugin
    BY DEF IInv, Verdict
  <2>2. <<chain[1]>> \in DOMAIN Commands[ran.plugin]
    <3>1. chain \in Seq(STRING) /\ Len(chain) >= 1
      BY <2>1 DEF IInv, Basics, Chain
    <3>2. SubSeq(chain, 1, 1) = <<chain[1]>> /\ 1 \in 0..Len(chain)
      <4>1. Len(chain) \in Nat /\ chain[1] \in STRING /\ 1 \in 0..Len(chain)
        BY <3>1
      <4>2. /\ SubSeq(chain, 1, 1) \in Seq(STRING) /\ Len(SubSeq(chain, 1, 1)) = 1
            /\ SubSeq(chain, 1, 1)[1] = chain[1]
        BY <3>1, <4>1
      <4> DEFINE s == SubSeq(chain, 1, 1)
                 h == <<chain[1]>>
      <4>3. h \in Seq(STRING) /\ Len(h) = 1 /\ h[1] = chain[1]
        BY <4>1
      <4>4. s = h
        <5> HIDE DEF s, h
        <5>. QED BY <4>2, <4>3 DEF s
      <4>. QED BY <4>1, <4>4
    <3>3. <<chain[1]>> \in Prefixes(chain)
      BY <3>2 DEF Prefixes
    <3>. QED BY <2>1, <3>3 DEF IInv, Basics, TypeOK, Registry, Sound
  <2> DEFINE Behind == {u[2] : u \in {w \in uses : w[1] = "all" /\ w[3][1] # <<>>}}
  <2>3. args[Min(Behind)] = Word(chain[1])
    <3>1. PICK u \in uses : /\ Inner(u) /\ args[u[2]] = Word(chain[1])
                            /\ \A w \in uses : Inner(w) => u[2] <= w[2]
      BY <2>1 DEF IInv, Heads
    <3>2. \A w \in uses : w[2] \in Nat
      BY DEF IInv, Basics, TypeOK, Uses
    <3>3. Behind \in SUBSET Nat /\ u[2] \in Behind /\ \A l \in Behind : u[2] <= l
      BY <3>1, <3>2 DEF Inner
    <3> HIDE DEF Behind
    <3>4. Min(Behind) \in Behind /\ \A l \in Behind : Min(Behind) <= l
      BY <3>3, Least
    <3>5. Min(Behind) = u[2]
      <4>1. Min(Behind) \in Nat /\ u[2] \in Nat /\ u[2] <= Min(Behind) /\ Min(Behind) <= u[2]
        BY <3>3, <3>4, Zenon
      <4>. QED BY <4>1
    <3>. QED BY <3>1, <3>5
  <2>4. \A path \in Outwards(chain) \ {<<>>} :
          SuperiorUsed(tab, path, Given) \/ RequiredGiven(tab, path, Given)
    BY DEF IInv, Supplied
  <2>. QED BY <2>1, <2>2, <2>3, <2>4 DEF RunsWhatWasNamed
<1>. QED BY <1>1, Inductive, PTL

\* Exit status 0 is a success or an answer that was asked for, and what ran is
\* reported as it ended (Main.cpp:151-195).
THEOREM ZeroIsDone == Spec => []ZeroMeansDone
<1>1. IInv => ZeroMeansDone
  BY DEF IInv, Verdict, ZeroMeansDone
<1>. QED BY <1>1, Inductive, PTL

\* Unloading reaches every loaded plugin once, and what ran is unloaded before the
\* end (Plugin.hpp:174-183, 199-221).
THEOREM EachUnloadedOnce == Spec => []UnloadedOnce
<1>1. IInv => UnloadedOnce
  <2> SUFFICES ASSUME IInv PROVE UnloadedOnce
    OBVIOUS
  <2>1. /\ InOrder \in Seq(DOMAIN Commands) /\ Len(InOrder) \in Nat /\ DOMAIN InOrder = 1..Len(InOrder)
        /\ \A k \in DOMAIN InOrder : InOrder[k] \in LoadedPlugins
        /\ \A p \in LoadedPlugins : \E k \in DOMAIN InOrder : InOrder[k] = p
        /\ \A k, j \in DOMAIN InOrder : InOrder[k] = InOrder[j] => k = j
    BY InOrderIs DEF IInv, Loads
  <2>2. ToSet(InOrder) = LoadedPlugins
    BY <2>1 DEF ToSet
  <2>3. Len(InOrder) = Cardinality(LoadedPlugins)
    <3>1. InOrder \in Bijection(1..Len(InOrder), LoadedPlugins)
      <4>1. InOrder \in [1..Len(InOrder) -> LoadedPlugins]
        BY <2>1
      <4>. QED BY <2>1, <4>1 DEF Bijection, Injection, Surjection, IsInjective
    <3>2. ExistsBijection(1..Len(InOrder), LoadedPlugins)
      BY <3>1 DEF ExistsBijection
    <3>. QED BY <2>1, <3>2, FS_CountingElements
  <2>4. unloaded # <<>> => unloaded = InOrder
    BY DEF IInv, Loads
  <2>5. phase = "ended" /\ ran # Absent => unloaded = InOrder /\ ran.plugin \in LoadedPlugins
    BY DEF IInv, Loads, Verdict
  <2>. QED BY <2>2, <2>3, <2>4, <2>5 DEF UnloadedOnce
<1>. QED BY <1>1, Inductive, PTL

-----------------------------------------------------------------------------
(* The commands on GPT tables. *)

\* A table whose turn came: read again, saved, or holding a file named for it so far.
Dealt(t) ==
  /\ sub = "read" => t \in reread
  /\ sub = "backup" => \E f \in File : content[f] = t
  /\ sub = "restore" => \E k \in 1..(i - 1) : /\ names[k] = t /\ disk[t] = files[k]
                                              /\ \A m \in (k + 1)..(i - 1) : names[m] # t

LoopBehind ==
  pc = "loop" /\ ~force => \A j \in 1..(i - 1) : names[j] \in Table => Dealt(names[j])

Control ==
  /\ pc \in {"check", "start"} => i = 1 /\ tried = {}
  /\ tried \subseteq NamedTables
  /\ pc # "done" => ret = "none"
  /\ sub = "restore" => files # <<>>
  /\ pc = "loop" /\ sub = "restore" => Len(names) = Len(files)

TablesInv == TablesTypeOK /\ Control /\ LoopBehind /\ RestUntouched /\ TrueMeansAllDone

\* The lists of names and files to try, and the orders of read-all, are sequences.
LEMMA ListsAreSequences ==
  ASSUME NEW S, NEW n \in Nat, NEW s \in Lists(S, n)
  PROVE  s \in Seq(S)
BY DEF Lists

LEMMA OrdersAreSequences == Orders \subseteq Seq(Table)
<1>1. Cardinality(Table) \in Nat
  BY GptTablesAssumption, FS_CardinalityType
<1>. QED BY <1>1 DEF Orders

\* A word that stands for a state is no file or table.
LEMMA WordsAreOthers ==
  /\ \A f \in File : f # "torn" /\ f # "own"
  /\ \A t \in Table : t # "none" /\ t # "part" /\ t # "saved"
BY GptTablesAssumption

LEMMA TablesInitInvariant == TablesInit => TablesInv
<1> SUFFICES ASSUME TablesInit PROVE TablesInv
  OBVIOUS
<1>1. names \in Seq(Table \cup {Other, ReadAll}) /\ files \in Seq(File)
  BY ListsAreSequences, GptTablesAssumption DEF TablesInit
<1>2. TablesTypeOK
  BY <1>1 DEF TablesInit, TablesTypeOK
<1>3. Control /\ LoopBehind
  BY DEF TablesInit, Control, LoopBehind
<1>4. RestUntouched /\ TrueMeansAllDone
  BY DEF TablesInit, RestUntouched, TrueMeansAllDone
<1>. QED BY <1>2, <1>3, <1>4 DEF TablesInv

\* Leaving the operation early: with failure, an exception or undefined behaviour, or with
\* success under --force, and with every table but the one at the index as it was.
LEMMA LeavingKeeps ==
  ASSUME TablesInv, pc # "done", pc' = "done", UNCHANGED <<input, names, i>>,
         ret' \in {"false", "threw", "undefined"} \/ (ret' = "true" /\ force),
         tried' \subseteq NamedTables, TablesTypeOK', RestUntouched'
  PROVE  TablesInv'
<1>1. Control'
  BY DEF TablesInv, Control, NamedTables, input
<1>2. LoopBehind'
  BY DEF LoopBehind
<1>3. TrueMeansAllDone'
  BY DEF TrueMeansAllDone, input
<1>. QED BY <1>1, <1>2, <1>3 DEF TablesInv

\* The loop only reaches tables that are on the list.
LEMMA ReachedIsNamed ==
  ASSUME TablesInv, NEW s, NEW t \in Table, Reached(s, t)
  PROVE  tried' \subseteq NamedTables
BY DEF Reached, NamedTables, TablesInv, TablesTypeOK, Control

LEMMA SpawnErrorLeaves ==
  ASSUME TablesTypeOK, SpawnError
  PROVE  /\ pc' = "done" /\ (ret' = "false" \/ (ret' = "true" /\ force))
         /\ ret' = IF force THEN "true" ELSE "false"
BY DEF SpawnError, Return

LEMMA CheckNamesKeeps == ASSUME TablesInv, CheckNames PROVE TablesInv'
<1>1. CASE SpawnError
  <2>1. pc' = "done" /\ (ret' = "false" \/ (ret' = "true" /\ force))
    BY <1>1, SpawnErrorLeaves DEF TablesInv
  <2>2. TablesTypeOK'
    BY <2>1 DEF TablesInv, TablesTypeOK, CheckNames, input
  <2>3. RestUntouched'
    BY <2>1 DEF TablesInv, RestUntouched, CheckNames, input
  <2>. QED BY <2>1, <2>2, <2>3, LeavingKeeps DEF CheckNames, TablesInv, Control
<1>2. CASE pc' = "start" /\ UNCHANGED ret
  <2>1. TablesTypeOK'
    BY <1>2 DEF TablesInv, TablesTypeOK, CheckNames, input
  <2>2. Control' /\ LoopBehind'
    BY <1>2 DEF TablesInv, Control, LoopBehind, NamedTables, CheckNames, input
  <2>3. RestUntouched'
    BY <1>2 DEF TablesInv, RestUntouched, CheckNames, input
  <2>4. TrueMeansAllDone'
    BY <1>2 DEF TablesInv, Control, TrueMeansAllDone, CheckNames, input
  <2>. QED BY <2>1, <2>2, <2>3, <2>4 DEF TablesInv
<1>. QED BY <1>1, <1>2, Zenon DEF CheckNames

LEMMA StartKeeps == ASSUME TablesInv, Start PROVE TablesInv'
<1>1. CASE Return("threw") /\ UNCHANGED names
  <2>1. TablesTypeOK'
    BY <1>1 DEF TablesInv, TablesTypeOK, Start, Return, input
  <2>2. RestUntouched'
    BY <1>1 DEF TablesInv, RestUntouched, Start, Return, input
  <2>. QED BY <1>1, <2>1, <2>2, LeavingKeeps DEF Start, Return, TablesInv, Control
<1>2. CASE /\ ~(files # <<>> /\ Len(names) # Len(files))
           /\ pc' = "loop" /\ UNCHANGED ret
           /\ names' \in IF names[1] = ReadAll /\ sub # "restore" THEN Orders ELSE {names}
  <2>1. names' \in Seq(Table \cup {Other, ReadAll}) /\ (sub = "restore" => names' = names)
    BY <1>2, OrdersAreSequences DEF TablesInv, TablesTypeOK
  <2>2. i' = 1 /\ ret' = "none"
    BY <1>2 DEF TablesInv, Control, Start
  <2>3. TablesTypeOK'
    BY <1>2, <2>1, <2>2 DEF TablesInv, TablesTypeOK, Start, input
  <2>4. Control' /\ LoopBehind'
    BY <1>2, <2>1, <2>2 DEF TablesInv, Control, LoopBehind, NamedTables, Start, input
  <2>5. RestUntouched'
    BY <1>2 DEF TablesInv, RestUntouched, Start, input
  <2>6. TrueMeansAllDone'
    BY <2>2 DEF TrueMeansAllDone
  <2>. QED BY <2>3, <2>4, <2>5, <2>6 DEF TablesInv
<1>. QED BY <1>1, <1>2, Zenon DEF Start

\* A turn of the loop that goes on: whatever it has dealt with stays so, and the table at the
\* index, if it is one, is dealt with.
LEMMA TurnKeeps ==
  ASSUME TablesInv, pc = "loop", i <= Len(names), Continue, UNCHANGED <<input, names>>,
         tried' \subseteq NamedTables, TablesTypeOK', RestUntouched',
         ~force => \A t \in Table : t = names[i] \/ Dealt(t) => Dealt(t)'
  PROVE  TablesInv'
<1>1. Control'
  BY DEF TablesInv, Control, NamedTables, Continue, input
<1>2. LoopBehind'
  <2> SUFFICES ASSUME ~force, NEW j \in 1..i, names[j] \in Table PROVE Dealt(names[j])'
    BY DEF LoopBehind, Continue, input, TablesInv, TablesTypeOK
  <2>1. CASE j = i
    BY <2>1
  <2>2. CASE j # i
    <3>1. j \in 1..(i - 1)
      BY <2>2 DEF TablesInv, TablesTypeOK
    <3>2. Dealt(names[j])
      BY <3>1 DEF TablesInv, LoopBehind
    <3>. QED BY <3>2
  <2>. QED BY <2>1, <2>2
<1>3. TrueMeansAllDone'
  BY DEF TablesInv, Control, TrueMeansAllDone, Continue
<1>. QED BY <1>1, <1>2, <1>3 DEF TablesInv

LEMMA PassOverKeeps == ASSUME TablesInv, PassOver PROVE TablesInv'
<1>1. TablesTypeOK'
  BY DEF TablesInv, TablesTypeOK, PassOver, Continue, input
<1>2. RestUntouched'
  BY DEF TablesInv, RestUntouched, PassOver, Continue, input
<1>3. ASSUME NEW t \in Table, Dealt(t) PROVE Dealt(t)'
  BY <1>3 DEF Dealt, PassOver, Continue, input, TablesInv, TablesTypeOK
<1>. QED BY <1>1, <1>2, <1>3, TurnKeeps DEF PassOver, TablesInv, Control

LEMMA ReReadKeeps == ASSUME TablesInv, NEW t \in Table, ReRead(t) PROVE TablesInv'
<1>0. tried' \subseteq NamedTables
  BY ReachedIsNamed DEF ReRead
<1> USE <1>0 DEF ReRead, Reached
<1>1. CASE reread' = reread \cup {t} /\ Continue
  <2>1. TablesTypeOK'
    BY <1>1 DEF TablesInv, TablesTypeOK, Continue, input
  <2>2. RestUntouched'
    BY <1>1 DEF TablesInv, RestUntouched, Continue, input
  <2>3. ASSUME NEW u \in Table, u = names[i] \/ Dealt(u) PROVE Dealt(u)'
    BY <1>1, <2>3 DEF Dealt, Continue, input
  <2>. QED BY <1>1, <2>1, <2>2, <2>3, TurnKeeps
<1>2. CASE SpawnError /\ UNCHANGED <<reread, i>>
  <2>1. pc' = "done" /\ (ret' = "false" \/ (ret' = "true" /\ force))
    BY <1>2, SpawnErrorLeaves DEF TablesInv
  <2>2. TablesTypeOK'
    BY <1>2, <2>1 DEF TablesInv, TablesTypeOK, input
  <2>3. RestUntouched'
    BY <1>2, <2>1 DEF TablesInv, RestUntouched, input
  <2>. QED BY <1>2, <2>1, <2>2, <2>3, LeavingKeeps
<1>. QED BY <1>1, <1>2, Zenon

\* A backup goes to a file.
LEMMA OutputIsFile ==
  ASSUME TablesTypeOK, NEW t \in Table, files # <<>> => i <= Len(files)
  PROVE  Output(t) \in File
BY GptTablesAssumption DEF Output, TablesTypeOK

LEMMA BackupKeeps == ASSUME TablesInv, NEW t \in Table, BackUp(t) PROVE TablesInv'
<1> DEFINE f == Output(t)
<1>1. f \in File /\ content \in [File -> {"none", "part", "saved"} \cup Table]
  BY OutputIsFile DEF BackUp, TablesInv, TablesTypeOK
<1>2. pc = "loop" /\ sub = "backup" /\ i <= Len(names) /\ names[i] = t /\ tried' = tried \cup {t}
  BY DEF BackUp, Reached
<1>5. tried' \subseteq NamedTables
  BY ReachedIsNamed DEF BackUp
<1> HIDE DEF f
<1>3. CASE content' = [content EXCEPT ![f] = t] /\ Continue
  <2>1. TablesTypeOK'
    BY <1>1, <1>2, <1>3 DEF TablesInv, TablesTypeOK, BackUp, Continue, input
  <2>2. RestUntouched'
    BY <1>2, <1>3 DEF TablesInv, RestUntouched, BackUp, Continue, input
  <2>3. ASSUME ~force, NEW u \in Table, u = names[i] \/ Dealt(u) PROVE Dealt(u)'
    <3>1. content[f] = "none"
      BY <2>3 DEF BackUp, f
    <3>2. \E g \in File : content'[g] = u
      <4>1. CASE u = names[i]
        BY <1>1, <1>2, <1>3, <4>1
      <4>2. CASE u # names[i]
        <5>1. PICK g \in File : content[g] = u
          BY <1>2, <2>3, <4>2 DEF Dealt
        <5>2. g # f
          BY <3>1, <5>1, WordsAreOthers
        <5>. QED BY <1>1, <1>3, <5>1, <5>2
      <4>. QED BY <4>1, <4>2
    <3>. QED BY <1>2, <3>2 DEF Dealt, BackUp, input
  <2>. QED BY <1>2, <1>3, <1>5, <2>1, <2>2, <2>3, TurnKeeps DEF BackUp
<1>4. CASE content' \in {content, [content EXCEPT ![f] = "part"]} /\ SpawnError /\ UNCHANGED i
  <2>1. pc' = "done" /\ (ret' = "false" \/ (ret' = "true" /\ force))
    BY <1>4, SpawnErrorLeaves DEF TablesInv
  <2>2. TablesTypeOK'
    BY <1>1, <1>2, <1>4, <2>1 DEF TablesInv, TablesTypeOK, BackUp, input
  <2>3. RestUntouched'
    BY <1>2, <1>4, <2>1 DEF TablesInv, RestUntouched, BackUp, input
  <2>. QED BY <1>2, <1>4, <1>5, <2>1, <2>2, <2>3, LeavingKeeps DEF BackUp
<1>. QED BY <1>3, <1>4, Zenon DEF BackUp, f

\* A refusal, or a read beyond the list of files, writes nothing.
LEMMA RefusalKeeps ==
  ASSUME TablesInv, NEW t \in Table, BackupOutOfList(t) \/ BackupRefused(t) \/ RestoreRefused(t)
  PROVE  TablesInv'
<1>1. /\ pc = "loop" /\ tried' = tried \cup {t} /\ pc' = "done" /\ ret' \in {"threw", "undefined"}
      /\ UNCHANGED <<input, names, i, content, disk, closed, reread>>
  BY DEF BackupOutOfList, BackupRefused, RestoreRefused, Reached, Return
<1>2. TablesTypeOK'
  BY <1>1 DEF TablesInv, TablesTypeOK, input
<1>3. RestUntouched'
  BY <1>1 DEF TablesInv, RestUntouched, input
<1>4. tried' \subseteq NamedTables
  BY ReachedIsNamed DEF BackupOutOfList, BackupRefused, RestoreRefused
<1>. QED BY <1>1, <1>2, <1>3, <1>4, LeavingKeeps

LEMMA RestoreKeeps == ASSUME TablesInv, NEW t \in Table, Restore(t) PROVE TablesInv'
<1>1. /\ pc = "loop" /\ sub = "restore" /\ i <= Len(names) /\ names[i] = t /\ tried' = tried \cup {t}
      /\ UNCHANGED <<input, names, content, closed, reread>>
  BY DEF Restore, Reached
<1>2. files[i] \in File /\ i \in Nat /\ i # 0 /\ disk \in [Table -> {"own", "torn"} \cup File]
  BY <1>1 DEF TablesInv, TablesTypeOK, Control
<1>3. \A u \in Table : disk[u] # "torn"
  BY <1>1 DEF TablesInv, RestUntouched
<1>6. tried' \subseteq NamedTables
  BY ReachedIsNamed DEF Restore
<1>4. CASE disk' = [disk EXCEPT ![t] = files[i]] /\ Continue
  <2>1. TablesTypeOK'
    BY <1>1, <1>2, <1>4 DEF TablesInv, TablesTypeOK, Continue, input
  <2>2. RestUntouched'
    BY <1>1, <1>2, <1>3, <1>4, WordsAreOthers DEF TablesInv, RestUntouched, Continue, input
  <2>3. ASSUME NEW u \in Table, u = names[i] \/ Dealt(u) PROVE Dealt(u)'
    <3>1. \E k \in 1..i : names[k] = u /\ disk'[u] = files[k] /\ \A m \in (k + 1)..i : names[m] # u
      <4>1. CASE u = names[i]
        BY <1>1, <1>2, <1>4, <4>1
      <4>2. CASE u # names[i]
        BY <1>1, <1>2, <1>4, <2>3, <4>2 DEF Dealt
      <4>. QED BY <4>1, <4>2
    <3>. QED BY <1>1, <1>2, <1>4, <3>1 DEF Dealt, Continue, input
  <2>. QED BY <1>1, <1>4, <1>6, <2>1, <2>2, <2>3, TurnKeeps
<1>5. CASE SpawnError /\ UNCHANGED i /\ disk' \in {disk, [disk EXCEPT ![t] = "torn"]}
  <2>1. pc' = "done" /\ (ret' = "false" \/ (ret' = "true" /\ force))
    BY <1>5, SpawnErrorLeaves DEF TablesInv
  <2>2. TablesTypeOK'
    BY <1>1, <1>2, <1>5, <2>1 DEF TablesInv, TablesTypeOK, input
  <2>3. RestUntouched'
    <3>1. ret' = (IF force THEN "true" ELSE "false") /\ UNCHANGED <<force, i, names, closed, reread>>
      BY <1>1, <1>5, SpawnErrorLeaves DEF TablesInv, input
    <3>2. \A u \in Table : u # t => disk'[u] = disk[u]
      BY <1>2, <1>5
    <3>. QED BY <1>1, <1>3, <2>1, <3>1, <3>2 DEF TablesInv, RestUntouched
  <2>. QED BY <1>1, <1>5, <1>6, <2>1, <2>2, <2>3, LeavingKeeps
<1>. QED BY <1>4, <1>5 DEF Restore

LEMMA LoopEndsKeeps == ASSUME TablesInv, LoopEnds PROVE TablesInv'
<1>1. pc = "loop" /\ i = Len(names) + 1 /\ i \in Nat /\ names \in Seq(Table \cup {Other, ReadAll})
  BY DEF LoopEnds, TablesInv, TablesTypeOK
<1>2. TablesTypeOK' /\ Control'
  BY DEF LoopEnds, Return, TablesInv, TablesTypeOK, Control, NamedTables, input
<1>3. RestUntouched' /\ LoopBehind'
  BY <1>1 DEF LoopEnds, Return, TablesInv, RestUntouched, LoopBehind, input
<1>4. TrueMeansAllDone'
  <2> SUFFICES ASSUME ~force
               PROVE  /\ sub = "read" => NamedTables \subseteq reread
                      /\ sub = "backup" => \A t \in NamedTables : \E f \in File : content[f] = t
                      /\ sub = "restore" => \A t \in Table :
                            IF t \in NamedTables
                            THEN \E j \in 1..Len(names) : LastFor(t, j) /\ disk[t] = files[j]
                            ELSE disk[t] = "own"
    BY DEF LoopEnds, TrueMeansAllDone, LastFor, input, NamedTables
  <2>1. \A t \in NamedTables : Dealt(t)
    BY <1>1 DEF NamedTables, TablesInv, LoopBehind
  <2>2. ASSUME sub = "restore", NEW t \in NamedTables
        PROVE  \E j \in 1..Len(names) : LastFor(t, j) /\ disk[t] = files[j]
    <3>1. PICK k \in 1..(i - 1) : names[k] = t /\ disk[t] = files[k] /\ \A m \in (k + 1)..(i - 1) : names[m] # t
      BY <2>1, <2>2 DEF Dealt
    <3>. QED BY <1>1, <3>1 DEF LastFor
  <2>3. \A t \in Table : t \notin NamedTables => disk[t] = "own"
    BY DEF TablesInv, Control, RestUntouched
  <2>. QED BY <1>1, <2>1, <2>2, <2>3 DEF Dealt, NamedTables
<1>. QED BY <1>2, <1>3, <1>4 DEF TablesInv

LEMMA TablesNextInvariant == TablesInv /\ [TablesNext]_tableVars => TablesInv'
<1> SUFFICES ASSUME TablesInv, [TablesNext]_tableVars PROVE TablesInv'
  OBVIOUS
<1>1. CASE CheckNames \/ Start
  BY <1>1, CheckNamesKeeps, StartKeeps
<1>2. CASE PassOver \/ LoopEnds
  BY <1>2, PassOverKeeps, LoopEndsKeeps
<1>3. ASSUME NEW t \in Table, OnTable(t) PROVE TablesInv'
  BY <1>3, ReReadKeeps, BackupKeeps, RefusalKeeps, RestoreKeeps DEF OnTable
<1>4. CASE UNCHANGED tableVars
  BY <1>4 DEF tableVars, TablesInv, TablesTypeOK, Control, LoopBehind, Dealt, RestUntouched, TrueMeansAllDone, LastFor, NamedTables
<1>. QED BY <1>1, <1>2, <1>3, <1>4 DEF TablesNext, Finished

\* What GptPlugin::run has done at every step of its loop (GptPlugin.cpp:44-172, 244-263).
THEOREM TablesInductive == TablesSpec => []TablesInv
BY TablesInitInvariant, TablesNextInvariant, PTL DEF TablesSpec

\* Success without --force means that every table of the list has been dealt with
\* (GptPlugin.cpp:111-172).
THEOREM TrueTheorem == TablesSpec => []TrueMeansAllDone
<1>1. TablesInv => TrueMeansAllDone
  BY DEF TablesInv
<1>. QED BY <1>1, TablesInductive, PTL

\* A table the loop has not reached is as it was, and a torn one is the last (GptPlugin.cpp:33-42).
THEOREM RestTheorem == TablesSpec => []RestUntouched
<1>1. TablesInv => RestUntouched
  BY DEF TablesInv
<1>. QED BY <1>1, TablesInductive, PTL

\* A file that was there is kept unless --force is given (GptPlugin.cpp:122-125).
THEOREM KeptTheorem == TablesSpec => OldBackupsKept
<1> DEFINE Kept == ~force => \A f \in File : content[f] # "none" => content'[f] = content[f]
<1>1. ASSUME TablesInv, [TablesNext]_tableVars PROVE [Kept]_tableVars
  <2> SUFFICES ASSUME TablesNext, ~force, NEW f \in File, content[f] # "none"
               PROVE  content'[f] = content[f]
    BY <1>1
  <2>1. ASSUME NEW t \in Table, BackUp(t) PROVE content'[f] = content[f]
    <3>1. content[Output(t)] = "none" /\ Output(t) \in File
      BY <1>1, <2>1, OutputIsFile DEF BackUp, TablesInv
    <3>. QED BY <1>1, <2>1, <3>1 DEF BackUp, TablesInv, TablesTypeOK
  <2>2. CASE UNCHANGED content
    BY <2>2
  <2>3. ASSUME NEW t \in Table, OnTable(t), ~BackUp(t) PROVE UNCHANGED content
    BY <2>3 DEF OnTable, ReRead, BackupOutOfList, BackupRefused, RestoreRefused, Restore
  <2>. QED BY <2>1, <2>2, <2>3 DEF TablesNext, CheckNames, Start, PassOver, LoopEnds, Finished, tableVars
<1>. QED BY <1>1, TablesInductive, PTL DEF TablesSpec, OldBackupsKept

-----------------------------------------------------------------------------
(* Both together. *)

\* When gpt is the plugin that ran, its result is what run() returned, an exception
\* counting as a failure, and --force is pmt's -f (Plugin.hpp:237-247, GptPlugin.cpp:33-42).
GptHasRun ==
  ran # Absent /\ ran.plugin = "gpt" =>
    /\ ret # "none"
    /\ ret = "true" => ran.result
    /\ ret \in {"false", "threw"} => ~ran.result
    /\ force <=> ForceFlag \in Given

\* `pmt gpt ...` exits with 0 only when every named table has been dealt with, -f was
\* given, the list of files was read past its end, or an answer was asked for instead.
ExitSaysDone ==
  phase = "ended" /\ status = 0 /\ (ran # Absent => ran.plugin = "gpt") =>
    \/ Asked \/ ForceFlag \in Given \/ ret = "undefined"
    \/ /\ sub = "read" => NamedTables \subseteq reread
       /\ sub = "backup" => \A t \in NamedTables : \E f \in File : content[f] = t
       /\ sub = "restore" => \A t \in NamedTables : \E j \in 1..Len(names) :
                               LastFor(t, j) /\ disk[t] = files[j]

\* The exit status of pmt tells of gpt's tables (Main.cpp:151-195, GptPlugin.cpp:111-172).
THEOREM GptExitStatus == Spec /\ TablesSpec /\ []GptHasRun => []ExitSaysDone
<1>1. ZeroMeansDone /\ TablesInv /\ TrueMeansAllDone /\ GptHasRun => ExitSaysDone
  <2>1. NamedTables \subseteq Table
    BY DEF NamedTables
  <2>. QED BY <2>1 DEF ZeroMeansDone, TablesInv, TablesTypeOK, TrueMeansAllDone, GptHasRun, ExitSaysDone
<1>. QED BY <1>1, ZeroIsDone, TablesInductive, TrueTheorem, PTL
=============================================================================
