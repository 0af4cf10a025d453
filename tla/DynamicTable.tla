----------------------------- MODULE DynamicTable -----------------------------
(***************************************************************************)
(* The logical partitions of a device: DynamicTableData, which reads the   *)
(* metadata of the super partition and opens every partition it names, the *)
(* choice between this table and the table of GPT partitions, and the      *)
(* commands that only ask (info, sizeof, type, real-path, lp-metadata).    *)
(* The GPT table is TableData's, here a fixed list, where a name may occur *)
(* on several disks.  Others map and unmap logical partitions and update   *)
(* the metadata meanwhile.  Names stand for the partitions, sizes are      *)
(* small numbers; output is the sequence of the partitions it is about,    *)
(* each with the disk it is on.                                            *)
(***************************************************************************)
EXTENDS Integers, FiniteSetsExt, SequencesExt

CONSTANTS
  Name, Group, GroupOf, SizeOf, Limit,   \* partitions, groups, and what they hold
  SuperSize,
  Layouts,      \* what the metadata may list
  Disk, Classic,  \* the entries of the GPT table, <<disk, name>>, in its order
  Super,        \* stands for the disk of a logical partition
  Short, Image, \* files type is asked about, and those shorter than a magic
  Object, Main, \* table objects; Main is the one of BasicFlags, which nobody in src/ changes
  Asked,        \* the lists of names to try
  None, Gone

ASSUME DynamicAssumption ==
  /\ Main \in Object /\ Short \subseteq Image
  /\ Super \notin Disk /\ None \notin Disk \cup {Super} /\ Classic \in Seq(Disk \X Name)
  /\ GroupOf \in [Name -> Group] /\ SizeOf \in [Name -> Nat] /\ Limit \in [Group -> Nat]
  /\ Layouts \subseteq Seq(Name) /\ None \notin Layouts /\ Asked \subseteq Seq(Name)

\* The names that can be logical partitions.
Logical == UNION {ToSet(l) : l \in Layouts}

VARIABLES
  super,    \* "absent", "bad" (liblp cannot read it) or "ok"
  layout,   \* the partitions its metadata names, in their order
  mapped,   \* the logical partitions in /dev/block/mapper
  table,    \* [parts, meta, supported] of each object, or Gone; torn is no part of the code, it
            \* remembers that a copy assignment to the object threw
  phase,    \* "start", "run" or "crashed"
  reply     \* the last call: of which object, and what it answered; NoReply when that is read

vars == <<super, layout, mapped, table, phase, reply>>

NoReply == [fn |-> "none", of |-> Main]
Fresh   == [parts |-> <<>>, meta |-> None, supported |-> FALSE, torn |-> FALSE]

TypeOK ==
  /\ super \in {"absent", "bad", "ok"} /\ layout \in Layouts /\ mapped \subseteq Logical
  /\ table \in [Object -> [parts : Seq(Name), meta : Layouts \cup {None}, supported : BOOLEAN, torn : BOOLEAN]
                          \cup {Gone}]
  /\ phase \in {"start", "run", "crashed"}
  /\ reply.of \in Object

Init ==
  /\ super \in {"absent", "bad", "ok"} /\ layout \in Layouts /\ mapped \in SUBSET Logical
  /\ table = [o \in Object |-> Gone]
  /\ phase = "start" /\ reply = NoReply

device == <<super, layout, mapped>>

-----------------------------------------------------------------------------
(* Ways a call ends. Nothing reads through a null pointer and goes on: main's
   handler of SIGSEGV ends the process. *)

Says(fn, o, result) == reply' = [fn |-> fn, of |-> o, result |-> result]

Crash(fn, o) == phase' = "crashed" /\ Says(fn, o, "undefined") /\ UNCHANGED <<device, table>>

Answer(fn, o, result) == Says(fn, o, result) /\ UNCHANGED <<device, table, phase>>

\* A call that reads the metadata.
Reads(fn, o, result) == IF table[o].meta = None THEN Crash(fn, o) ELSE Answer(fn, o, result)

Exists(o) == phase = "run" /\ table[o] # Gone

-----------------------------------------------------------------------------
(* scan() *)

\* Every partition before the first that cannot be opened.
Opened == {SubSeq(layout, 1, k) : k \in {j \in 0..Len(layout) : ToSet(SubSeq(layout, 1, j)) \subseteq mapped}}

\* What scan() makes of t when the metadata can be read; whether it throws.
Scanned(t) ==
  IF super = "absent"
    THEN {[t |-> t, throws |-> FALSE]}
    ELSE {[t |-> [parts |-> t.parts \o ps, meta |-> layout, supported |-> TRUE, torn |-> FALSE],
            throws |-> ps # layout] : ps \in Opened}

Result(r) == IF r.throws THEN "error" ELSE "ok"

\* BasicFlags: whatever the constructor throws leaves the pointer null.
Start ==
  /\ phase = "start"
  /\ IF super = "bad"
       THEN Crash("start", Main)
       ELSE \E r \in Scanned(Fresh) :
              /\ table' = [table EXCEPT ![Main] = IF r.throws THEN Gone ELSE r.t]
              /\ phase' = "run" /\ Says("start", Main, Result(r))
              /\ UNCHANGED device

\* Builder::create and getInstance.
Create(o) ==
  /\ phase = "run" /\ o # Main /\ table[o] = Gone
  /\ IF super = "bad"
       THEN Crash("create", o)
       ELSE \E r \in Scanned(Fresh) :
              /\ table' = [table EXCEPT ![o] = IF r.throws THEN Gone ELSE r.t]
              /\ Says("create", o, Result(r))
              /\ UNCHANGED <<device, phase>>

\* Mutant: the list is not cleared first.
ReScanAdds(o) ==
  /\ Exists(o) /\ o # Main
  /\ IF super = "bad"
       THEN Crash("reScan", o)
       ELSE \E r \in Scanned(table[o]) :
              /\ table' = [table EXCEPT ![o] = r.t]
              /\ Says("reScan", o, Result(r))
              /\ UNCHANGED <<device, phase>>

\* Without a super partition the metadata stays.
ReScan(o) ==
  /\ Exists(o) /\ o # Main
  /\ IF super = "bad"
       THEN Crash("reScan", o)
       ELSE \E r \in Scanned([table[o] EXCEPT !.parts = <<>>, !.torn = FALSE]) :
              /\ table' = [table EXCEPT ![o] = r.t]
              /\ Says("reScan", o, Result(r))
              /\ UNCHANGED <<device, phase>>

\* clear() and reset().
Clear(o) ==
  /\ Exists(o) /\ o # Main
  /\ table' = [table EXCEPT ![o].parts = <<>>, ![o].meta = None, ![o].torn = FALSE]
  /\ Says("clear", o, "ok") /\ UNCHANGED <<device, phase>>

Destroy(o) ==
  /\ Exists(o) /\ o # Main
  /\ table' = [table EXCEPT ![o] = Gone]
  /\ Says("destroy", o, "ok") /\ UNCHANGED <<device, phase>>

\* What the assignment of a vector leaves when that of its element j throws: the elements up
\* to it new, it too but without a device, and the others old; or none, when the old ones were
\* freed to make room.
Mixed(old, new, j) ==
  LET k == IF j <= Len(old) THEN j ELSE Len(old) IN
  {<<>>, SubSeq(new, 1, k) \o SubSeq(old, k + 1, Len(old))}

\* A copy opens every partition again, which may fail: a new object is none then, an old one
\* keeps its metadata under a list that is partly new.
CopyThrows(o, other) ==
  /\ \E j \in DOMAIN table[other].parts :
       \E ps \in IF table[o] = Gone THEN {<<>>} ELSE Mixed(table[o].parts, table[other].parts, j) :
         table' = [table EXCEPT ![o] = IF @ = Gone THEN Gone ELSE [@ EXCEPT !.parts = ps, !.torn = TRUE]]
  /\ Says("copy", other, "error") /\ UNCHANGED <<device, phase>>

\* The metadata is copied through its pointer. A new object is not supported whatever the other
\* is, an old one stays what it was. Of a torn list, partitions may have no device to open.
Copy(o, other) ==
  /\ phase = "run" /\ o # other /\ o # Main /\ table[other] # Gone
  /\ LET was == IF table[o] = Gone THEN Fresh ELSE table[o] IN
     \/ CopyThrows(o, other)
     \/ /\ table[other].torn \/ ToSet(table[other].parts) \subseteq mapped
        /\ IF table[other].meta = None
             THEN Crash("copy", other)
             ELSE /\ table' = [table EXCEPT ![o] = [table[other] EXCEPT !.supported = was.supported]]
                  /\ Says("copy", other, "ok") /\ UNCHANGED <<device, phase>>

Move(o, other) ==
  /\ phase = "run" /\ o # other /\ Main \notin {o, other} /\ table[other] # Gone
  /\ LET was == IF table[o] = Gone THEN Fresh ELSE table[o] IN
     table' = [table EXCEPT ![o] = [table[other] EXCEPT !.supported = was.supported],
                            ![other].parts = <<>>, ![other].meta = None, ![other].torn = FALSE]
  /\ Says("move", other, "ok") /\ UNCHANGED <<device, phase>>

-----------------------------------------------------------------------------
(* Questions of the library. *)

Has(t, n) == n \in ToSet(t.parts)

\* What a loop that passes over the rest keeps of s: the elements at the places, in their order.
Rank(places, i) == Cardinality({j \in places : j <= i})
Nth(places, k) == CHOOSE i \in places : Rank(places, i) = k
Kept(s, places) == [k \in 1..Cardinality(places) |-> s[Nth(places, k)]]

\* forEachFor() of a list: the names that are listed.
Listed(t, ns) == Kept(ns, {i \in DOMAIN ns : Has(t, ns[i])})

\* size() throws where a partition has no device, or one that does not tell its size.
SizeThrows(fn, o, ns) == ns # {} /\ Answer(fn, o, "error")

\* partitions(), aboutPartitions(), operator*, forEach: what the list holds, in order; the
\* second asks each for its size.
Partitions(o) ==
  /\ Exists(o)
  /\ Answer("partitions", o, table[o].parts) \/ SizeThrows("partitions", o, ToSet(table[o].parts))

ForEachFor(o, ns) == Exists(o) /\ Answer("forEachFor", o, Listed(table[o], ns))

\* hasPartition() and partition().
HasPartition(o, n) == Exists(o) /\ Answer("hasPartition", o, Has(table[o], n))

\* metadata(name), getMetadata(), getGroups(), size(), forEach over the metadata.
Metadata(o) == Exists(o) /\ Reads("metadata", o, table[o].meta)

Total(ns) == FoldLeft(LAMBDA sum, n : sum + SizeOf[n], 0, ns)

\* The partitions of a group, by their places in the metadata, and their sizes.
InGroup(t, g) == {i \in DOMAIN t.meta : GroupOf[t.meta[i]] = g}
SizeIn(t, g) == MapThenSumSet(LAMBDA i : SizeOf[t.meta[i]], InGroup(t, g))

\* freeSpace(): what the listed partitions leave, not those of the metadata, which is read last.
FreeSpace(o) ==
  /\ Exists(o)
  /\ \/ SizeThrows("freeSpace", o, ToSet(table[o].parts))
     \/ Reads("freeSpace", o, SuperSize - Total(table[o].parts))

\* freeSpace(group) looks for a partition with the name of the group, which here no partition
\* has: it dereferences nothing, as soon as the group has a partition.
FreeSpaceOf(o, g) ==
  /\ Exists(o)
  /\ IF table[o].meta # None /\ InGroup(table[o], g) # {}
       THEN Crash("freeSpaceOf", o)
       ELSE Reads("freeSpaceOf", o, Limit[g])

\* valid() and validMetadata(), for metadata with the right magic and extents: a group with a
\* limit adds the sizes of its partitions, and looks each up in the list.
Valid(o) ==
  /\ Exists(o)
  /\ LET t == table[o]
         limited == {g \in Group : Limit[g] # 0}
         listed  == {g \in limited : \A i \in InGroup(t, g) : Has(t, t.meta[i])}
         over    == {g \in listed : SizeIn(t, g) > Limit[g]}
         sized   == {n \in ToSet(t.parts) : n \in ToSet(t.meta) /\ GroupOf[n] \in limited}
     IN IF t.parts = <<>> \/ t.meta = None
          THEN Answer("valid", o, FALSE)
          ELSE \/ SizeThrows("valid", o, sized)
               \/ listed # limited /\ Crash("valid", o)
               \/ over # {} /\ Answer("valid", o, FALSE)
               \/ listed = limited /\ over = {} /\ Answer("valid", o, TRUE)

\* sync(): every partition is asked; each answers openpart_sync's 0, false, unless it failed.
Sync(o) ==
  /\ Exists(o)
  /\ \E failed \in SUBSET ToSet(table[o].parts) : Answer("sync", o, failed = ToSet(table[o].parts))

-----------------------------------------------------------------------------
(* The commands. They use the process's table through its pointer, null or not. *)

Prints(fn, asked, printed, result) ==
  /\ reply' = [fn |-> fn, of |-> Main, asked |-> asked, printed |-> printed, result |-> result]
  /\ UNCHANGED <<device, table, phase>>

NoTable == table[Main] = Gone

OnSuper(ns) == [i \in DOMAIN ns |-> <<Super, ns[i]>>]

\* duplicatePartitionPositions(): where the entries of that name are.
Positions(n) == {i \in DOMAIN Classic : Classic[i][2] = n}

Lists(k, n) == IF k = "classic" THEN Positions(n) # {} ELSE ~NoTable /\ Has(table[Main], n)

\* The names of the given ones that a table lists.
ListedBy(k, ns) == Kept(ns, {i \in DOMAIN ns : Lists(k, ns[i])})

\* partition(name) of the GPT table: the first of that name.
FirstOf(n) == Classic[Min(Positions(n))]

\* partitionWithDupCheck(): the user chooses among several.
Selectable(n) == {Classic[i] : i \in Positions(n)}

\* forEachFor() of both tables.
PrintedOf(ns) ==
  LET onDisk == ListedBy("classic", ns) IN
  [i \in DOMAIN onDisk |-> FirstOf(onDisk[i])] \o OnSuper(ListedBy("dynamic", ns))

\* forEach() of the tables a keyword stands for.
PrintedAll(keyword) ==
  (IF keyword = "get-logicals" THEN <<>> ELSE Classic) \o
  (IF keyword = "get-physicals" \/ NoTable THEN <<>> ELSE OnSuper(table[Main].parts))

\* The size of a partition, or with --json the partition's copy, throws: what was printed stays.
BreaksOff(fn, ns, printed) ==
  \E k \in 1..Len(printed) : Prints(fn, ns, SubSeq(printed, 1, k - 1), "error")

\* info and sizeof with a keyword as the last of the names: the names before it are not looked at.
InfoAll(ns, keyword) ==
  /\ phase = "run"
  /\ LET printed == PrintedAll(keyword) IN
     \/ NoTable /\ keyword # "get-physicals" /\ Crash("info", Main)
     \/ (~NoTable \/ keyword = "get-physicals") /\ Prints("all", ns, printed, "ok")
     \/ BreaksOff("all", ns, printed)

Known(n) == Lists("classic", n) \/ Lists("dynamic", n)

\* info and sizeof with names: nothing is printed before every name is known.
InfoOf(ns) ==
  /\ phase = "run"
  /\ \/ NoTable /\ Crash("info", Main)
     \/ ~NoTable /\ (\E n \in ToSet(ns) : ~Known(n)) /\ Prints("info", ns, <<>>, "error")
     \/ (\A n \in ToSet(ns) : Known(n)) /\ ~NoTable /\ Prints("info", ns, PrintedOf(ns), "ok")
     \/ (\A n \in ToSet(ns) : Known(n)) /\ BreaksOff("info", ns, PrintedOf(ns))

\* Mutant: the tables change places behind the look-up.
CorrectSwapped(n) ==
  IF NoTable \/ ~Known(n) THEN None ELSE IF Lists("dynamic", n) THEN "classic" ELSE "dynamic"

\* Mutant: the first table that has the name is taken.
CorrectFirst(n) ==
  IF NoTable \/ ~Known(n) THEN None ELSE IF Lists("classic", n) THEN "classic" ELSE "dynamic"

\* getCorrectTableObj(): without the dynamic table nothing is found, otherwise it is preferred.
Correct(n) ==
  IF NoTable \/ ~Known(n) THEN None ELSE IF Lists("dynamic", n) THEN "dynamic" ELSE "classic"

\* setupPartition() takes the partition out of the table without asking whether it is there.
Dangling(n) == Correct(n) # None /\ ~Lists(Correct(n), n)
Setup(n) == IF Correct(n) = "dynamic" THEN {<<Super, n>>} ELSE Selectable(n)

\* absolutePath() of the partition, or with --by-name pathByName(): that of a GPT partition is
\* empty, a blank line, unless the link of its name leads to it.
Paths(n, byName) == Setup(n) \cup (IF byName /\ Correct(n) = "classic" THEN {<<None, n>>} ELSE {})

\* Both read a link: the first that of a logical partition, which goes when it is unmapped, the
\* second that of a GPT partition, which need not be there.
NoLink(n, byName) == ~byName /\ Correct(n) = "dynamic" /\ n \notin mapped
MayHaveNoLink(n, byName) == byName /\ Correct(n) = "classic"

\* The sequences that take one element of each of the sets.
Selections(sets) == {p \in [DOMAIN sets -> UNION Range(sets)] : \A i \in DOMAIN sets : p[i] \in sets[i]}

\* real-path goes name by name up to the first it refuses or has no path of.
RealPath(ns, logical, force, byName) ==
  LET only       == logical /\ ~force
      Refused(n) == Correct(n) = None \/ (only /\ Correct(n) = "classic") \/ NoLink(n, byName)
      Stops      == {i \in DOMAIN ns : Refused(ns[i]) \/ Dangling(ns[i])}
      last       == IF Stops = {} THEN Len(ns) ELSE Min(Stops) - 1
      fn         == IF only THEN "real-path -l" ELSE IF byName THEN "real-path --by-name" ELSE "real-path"
  IN /\ phase = "run"
     /\ \/ Stops # {} /\ Dangling(ns[last + 1]) /\ Crash("real-path", Main)
        \/ \E k \in 0..last :
             /\ k < Len(ns) => Refused(ns[k + 1]) \/ MayHaveNoLink(ns[k + 1], byName)
             /\ \E printed \in Selections([i \in 1..k |-> Paths(ns[i], byName)]) :
                  Prints(fn, ns, printed, IF k = Len(ns) THEN "ok" ELSE "error")

\* hasMagic(): bytesRead - magicLength wraps for a file shorter than a magic.
ReadBeyond(c) == c \in Short

\* type reads the file of that name where there is one, the partition otherwise.
Type(c) ==
  /\ phase = "run"
  /\ \/ Dangling(c) /\ Crash("type", Main)
     \/ ReadBeyond(c) /\ Crash("type of a short file", Main)
     \/ ~Dangling(c) /\ (c \in Image \/ Correct(c) # None)
        /\ Prints("type", <<c>>, <<c>>, "ok")
     \/ ~Dangling(c) /\ Prints("type", <<c>>, <<>>, "error")

\* lp-metadata opens what it prints anew and succeeds whatever it could not open.
LpMetadata(ns) ==
  /\ phase = "run"
  /\ CASE NoTable -> Crash("lp-metadata", Main)
       [] ~NoTable /\ ~table[Main].supported -> Prints("lp-metadata", ns, <<>>, "error")
       [] ~NoTable /\ table[Main].supported /\ \E n \in ToSet(ns) : ~Lists("dynamic", n) ->
            Prints("lp-metadata", ns, <<>>, "error")
       [] OTHER ->
            LET wanted == IF ns = <<>> THEN table[Main].meta ELSE ns IN
            \E open \in SUBSET mapped :
              Prints("lp-metadata", ns, OnSuper(Kept(wanted, {i \in DOMAIN wanted : wanted[i] \in open})), "ok")

-----------------------------------------------------------------------------
(* Others. *)

SetMapped(n) ==
  /\ phase = "run" /\ super = "ok"
  /\ mapped' = IF n \in mapped THEN mapped \ {n} ELSE mapped \cup {n}
  /\ reply' = NoReply /\ UNCHANGED <<super, layout, table, phase>>

Update(l) ==
  /\ phase = "run" /\ super = "ok"
  /\ layout' = l /\ super' \in {"ok", "bad"}
  /\ reply' = NoReply /\ UNCHANGED <<mapped, table, phase>>

Library ==
  \E o \in Object :
    \/ Create(o) \/ ReScan(o) \/ Clear(o) \/ Destroy(o)
    \/ \E other \in Object : Copy(o, other) \/ Move(o, other)
    \/ Partitions(o) \/ Metadata(o) \/ FreeSpace(o) \/ Valid(o) \/ Sync(o)
    \/ \E n \in Name : HasPartition(o, n)
    \/ \E ns \in Asked : ForEachFor(o, ns)
    \/ \E g \in Group : FreeSpaceOf(o, g)

Command ==
  \/ \E keyword \in {"get-all", "get-logicals", "get-physicals"} : \E ns \in Asked \cup {<<>>} : InfoAll(ns, keyword)
  \/ \E ns \in Asked : InfoOf(ns) \/ \E logical, force, byName \in BOOLEAN : RealPath(ns, logical, force, byName)
  \/ \E c \in Name \cup Image : Type(c)
  \/ \E ns \in Asked \cup {<<>>} : LpMetadata(ns)

\* The caller takes the answer, and goes on.
GoOn ==
  /\ phase = "run" /\ reply # NoReply
  /\ reply' = NoReply /\ UNCHANGED <<device, table, phase>>

Others ==
  \/ \E n \in Logical : SetMapped(n)
  \/ \E l \in Layouts : Update(l)

Next == GoOn \/ (reply = NoReply /\ (Start \/ Library \/ Command \/ Others))

Spec == Init /\ [][Next]_vars
-----------------------------------------------------------------------------
(* Properties. *)

\* What an object lists is the beginning of the metadata it holds, in its order and once each,
\* after any sequence of scans that fail half-way, copies, moves and clears; but for one whose
\* copy assignment threw, and what was copied or moved from it, until it is scanned or cleared.
ListIsPrefix ==
  \A o \in Object : table[o] # Gone /\ ~table[o].torn =>
    IsPrefix(table[o].parts, IF table[o].meta = None THEN <<>> ELSE table[o].meta)

Unscanned(o) == table[o] = Gone \/ table[o].meta = None \/ table[o].parts # table[o].meta

\* Nothing is undefined on an object whose last scan was complete, whatever happened before and
\* whatever the device did since, but a scan of metadata liblp cannot read, freeSpace of a group,
\* and type on a file shorter than a magic.
UndefinedOnlyUnscanned ==
  phase = "crashed" =>
    \/ super = "bad" /\ reply.fn \in {"start", "create", "reScan"}
    \/ Unscanned(reply.of) \/ reply.fn \in {"freeSpaceOf", "type of a short file"}

Asks == {"info", "real-path", "real-path -l", "real-path --by-name"}

\* A command that succeeds has answered for every name it was given: info and sizeof once from
\* each table that lists it, each table in the given order and the GPT table with its first
\* partition of the name; real-path in the given order, from the dynamic table if that lists the
\* name, otherwise with a GPT partition of that name, where --by-name alone may answer with a blank
\* line; with -l no path of another partition was printed, not even before an error. Not claimed of
\* names in front of a keyword such as get-logicals, which info and sizeof do not look at.
AnswersCoverAll ==
  LET logicalOf(es) == Kept(es, {i \in DOMAIN es : es[i][1] = Super})
      othersOf(es) == Kept(es, {i \in DOMAIN es : es[i][1] # Super})
      names(es) == [i \in DOMAIN es |-> es[i][2]]
      firsts(ns) == [i \in DOMAIN ns |-> FirstOf(ns[i])]
  IN phase = "run" /\ reply.fn \in Asks =>
       /\ reply.result = "ok" =>
            /\ names(logicalOf(reply.printed)) = ListedBy("dynamic", reply.asked)
            /\ \A n \in ToSet(reply.asked) : n \in ToSet(names(reply.printed))
            /\ reply.fn = "info" => othersOf(reply.printed) = firsts(ListedBy("classic", reply.asked))
            /\ reply.fn # "info" =>
                 /\ names(reply.printed) = reply.asked
                 /\ \A e \in ToSet(reply.printed) :
                      \/ e[1] = Super \/ e \in ToSet(Classic)
                      \/ e[1] = None /\ reply.fn = "real-path --by-name"
       /\ reply.fn = "real-path -l" => logicalOf(reply.printed) = reply.printed
=============================================================================
