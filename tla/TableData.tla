----------------------------- MODULE TableData -----------------------------
(***************************************************************************)
(* PartitionTableData: the list of partitions of a device and the GPT data *)
(* of its tables, as objects that clients scan, edit, copy, move and save. *)
(* The list, the map of GPT data and the set of table names are three      *)
(* fields that every operation must keep in step; GPT data are behind      *)
(* shared pointers, so a copy of an object shares them with the original.  *)
(***************************************************************************)
EXTENDS Integers, FiniteSets, Sequences, SequencesExt

CONSTANTS
  Table,       \* block devices under /dev/block
  Entry,       \* indexes of the entries of a table
  Name,        \* partition names, as numbers in the order of the names
  Layouts,     \* for each table, the contents it can have: [Entry -> Name], 0 for an unused entry
  Vanishing,   \* tables with partitions that may fail to open a second time
  Obj          \* PartitionTableData objects

Unused == 0
Contents == [Entry -> Name \cup {Unused}]

ASSUME TableDataAssumption ==
  /\ Name \subseteq Nat \ {Unused}
  /\ Vanishing \subseteq Table
  /\ Layouts \in [Table -> SUBSET Contents]
  /\ IsFiniteSet(Table) /\ IsFiniteSet(Entry) /\ IsFiniteSet(Name) /\ IsFiniteSet(Obj)

VARIABLES
  readable, \* tables that are not removable and that GPTData can load; constant
  disk,     \* what each table holds
  content,  \* GPTData: what each in-memory copy of a table holds
  names,    \* localTableNames
  gpt,      \* gptDataCollection: the copy an object has of a table, 0 if none
  parts,    \* localPartitions
  auto,     \* buildAutoOnDiskChanges
  current,  \* history: nothing has changed the names or the data since the last scan
  torn,     \* history: a copy assignment threw half way and nothing has replaced the rest
  told      \* history: the object whose sync() returned true in the last step, if any

vars == <<readable, disk, content, names, gpt, parts, auto, current, torn, told>>

\* At most one copy of a table per object is alive.
Copy == 1..Cardinality(Obj)
NoData == 0
Listed == [table : Table, entry : Entry, name : Name]

TypeOK ==
  /\ readable \in SUBSET Table
  /\ disk \in [Table -> Contents]
  /\ content \in [Table -> [Copy -> Contents]]
  /\ names \in [Obj -> SUBSET Table]
  /\ gpt \in [Obj -> [Table -> Copy \cup {NoData}]]
  /\ parts \in [Obj -> Seq(Listed)]
  /\ auto \in [Obj -> BOOLEAN]
  /\ current \in [Obj -> BOOLEAN]
  /\ torn \in [Obj -> BOOLEAN]
  /\ told \in SUBSET Obj
-----------------------------------------------------------------------------
(* Queries *)

HasTable(o, t) == t \in names[o]
-----------------------------------------------------------------------------
(* scan() *)

Loads(ns) == ns \cap readable

\* Mutant: takes the number of copies that are in use for one that is free.
FreshCounts(o, t) == 1 + Cardinality({p \in Obj : gpt[p][t] # NoData})

\* A copy of t that no other object shares.
Fresh(o, t) == CHOOSE k \in Copy : \A p \in Obj \ {o} : gpt[p][t] # k

UsedEntries(ns) ==
  {p \in Listed : p.table \in ns /\ disk[p.table][p.entry] = p.name}

\* std::sort by name: in any order among equal names.
Sorted(S) ==
  {s \in SetToSeqs(S) : \A i, j \in DOMAIN s : i < j => s[i].name <= s[j].name}

\* GPTData that no object points to are freed.
Kept(g, c) == [t \in Table |-> [k \in Copy |->
                 IF \E p \in Obj : g[p][t] = k THEN c[t][k] ELSE [e \in Entry |-> Unused]]]

Load(o, ns) ==
  /\ gpt' = [gpt EXCEPT ![o] = [t \in Table |-> IF t \in Loads(ns) THEN Fresh(o, t) ELSE NoData]]
  /\ content' = Kept(gpt', [t \in Table |-> [content[t] EXCEPT ![Fresh(o, t)] = disk[t]]])

Scan(o, ns) ==
  /\ Load(o, ns)
  /\ \E s \in Sorted(UsedEntries(Loads(ns))) : parts' = [parts EXCEPT ![o] = s]
  /\ current' = [current EXCEPT ![o] = TRUE]
  /\ torn' = [torn EXCEPT ![o] = FALSE]

\* No scan: the list and the data stay, current only if the names do.
NoScan(o) ==
  /\ UNCHANGED <<content, gpt, parts, torn>>
  /\ current' = [current EXCEPT ![o] = current[o] /\ names'[o] = names[o]]

\* scan() with no table name throws before it clears anything.
ScanOrThrow(o, ns) ==
  IF ns = {} THEN NoScan(o) ELSE Scan(o, ns)
-----------------------------------------------------------------------------
(* Operations *)

\* reScan()
ReScan(o) ==
  /\ UNCHANGED <<readable, disk, names, auto>>
  /\ ScanOrThrow(o, names[o])

\* Mutant: the table stays in the list.
RemoveTableUnscanned(o, t) ==
  /\ HasTable(o, t)
  /\ names' = [names EXCEPT ![o] = @ \ {t}]
  /\ UNCHANGED <<readable, disk, content, gpt, parts, auto, current, torn>>

\* removeTable(name), which scans again if automatic scans are on
RemoveTable(o, t) ==
  /\ HasTable(o, t)
  /\ names' = [names EXCEPT ![o] = @ \ {t}]
  /\ IF auto[o] THEN ScanOrThrow(o, names'[o]) ELSE NoScan(o)
  /\ UNCHANGED <<readable, disk, auto>>

\* setTables, withTables
SetTables(o, ns) ==
  /\ names' = [names EXCEPT ![o] = ns]
  /\ NoScan(o)
  /\ UNCHANGED <<readable, disk, auto>>

\* setAutoScan, withAutoScan
SetAutoScan(o, on) ==
  /\ auto' = [auto EXCEPT ![o] = on]
  /\ UNCHANGED <<readable, disk, content, names, gpt, parts, current, torn>>

\* setGPTDataOf(name, data) with the data p has of the table
SetGPTDataOf(o, t, p) ==
  /\ gpt[o][t] # NoData /\ gpt[p][t] # NoData
  /\ gpt' = [gpt EXCEPT ![o][t] = gpt[p][t]]
  /\ content' = Kept(gpt', content)
  /\ current' = [current EXCEPT ![o] = @ /\ gpt[o][t] = gpt[p][t]]
  /\ UNCHANGED <<readable, disk, names, parts, auto, torn>>

\* Mutant: the partitions stay in the list.
ClearForgetsParts(o, resets) ==
  /\ names' = [names EXCEPT ![o] = {}]
  /\ gpt' = [gpt EXCEPT ![o] = [t \in Table |-> NoData]]
  /\ auto' = [auto EXCEPT ![o] = @ \/ resets]
  /\ content' = Kept(gpt', content)
  /\ current' = [current EXCEPT ![o] = TRUE]
  /\ torn' = [torn EXCEPT ![o] = FALSE]
  /\ UNCHANGED <<readable, disk, parts>>

\* clear(), and reset(), which also turns automatic scans on
Clear(o, resets) ==
  /\ parts' = [parts EXCEPT ![o] = <<>>]
  /\ names' = [names EXCEPT ![o] = {}]
  /\ gpt' = [gpt EXCEPT ![o] = [t \in Table |-> NoData]]
  /\ auto' = [auto EXCEPT ![o] = @ \/ resets]
  /\ content' = Kept(gpt', content)
  /\ current' = [current EXCEPT ![o] = TRUE]
  /\ torn' = [torn EXCEPT ![o] = FALSE]
  /\ UNCHANGED <<readable, disk>>

\* Copy construction and assignment: the pointers to the data are copied.
CopyFrom(o, p) ==
  /\ o # p
  /\ names' = [names EXCEPT ![o] = names[p]]
  /\ gpt' = [gpt EXCEPT ![o] = gpt[p]]
  /\ parts' = [parts EXCEPT ![o] = parts[p]]
  /\ auto' = [auto EXCEPT ![o] = auto[p]]
  /\ content' = Kept(gpt', content)
  /\ current' = [current EXCEPT ![o] = current[p]]
  /\ torn' = [torn EXCEPT ![o] = torn[p]]
  /\ UNCHANGED <<readable, disk>>

\* What the assignment of a vector leaves when that of its element j throws: the
\* elements up to it new, it too but without a device, and the others old; or none,
\* when the old ones were freed to make room.
Mixed(old, new, j) ==
  LET k == IF j <= Len(old) THEN j ELSE Len(old) IN
  {<<>>, SubSeq(new, 1, k) \o SubSeq(old, k + 1, Len(old))}

\* Copy assignment that throws: the defaulted operator= assigns member by member,
\* first the data, then the partitions, and one of these cannot open its device.
\* The names and the flag are the old ones.
CopyThrows(o, p) ==
  /\ o # p
  /\ gpt' = [gpt EXCEPT ![o] = gpt[p]]
  /\ \E j \in {i \in DOMAIN parts[p] : parts[p][i].table \in Vanishing} :
       \E l \in Mixed(parts[o], parts[p], j) : parts' = [parts EXCEPT ![o] = l]
  /\ content' = Kept(gpt', content)
  /\ current' = [current EXCEPT ![o] = FALSE]
  /\ torn' = [torn EXCEPT ![o] = TRUE]
  /\ UNCHANGED <<readable, disk, names, auto>>

\* Move construction and assignment: p is left empty, with the default flag.
MoveFrom(o, p) ==
  /\ o # p
  /\ names' = [names EXCEPT ![o] = names[p], ![p] = {}]
  /\ gpt' = [gpt EXCEPT ![o] = gpt[p], ![p] = [t \in Table |-> NoData]]
  /\ parts' = [parts EXCEPT ![o] = parts[p], ![p] = <<>>]
  /\ auto' = [auto EXCEPT ![o] = auto[p], ![p] = TRUE]
  /\ content' = Kept(gpt', content)
  /\ current' = [current EXCEPT ![o] = current[p], ![p] = TRUE]
  /\ torn' = [torn EXCEPT ![o] = torn[p], ![p] = FALSE]
  /\ UNCHANGED <<readable, disk>>

\* A client changes the data GPTDataOf, operator[] or forEachGptData gave it;
\* every object that shares them sees the change.
Edit(o, t, layout) ==
  /\ gpt[o][t] # NoData
  /\ content' = [content EXCEPT ![t][gpt[o][t]] = layout]
  /\ current' = [p \in Obj |-> current[p] /\ (gpt[p][t] = gpt[o][t] => layout = content[t][gpt[o][t]])]
  /\ UNCHANGED <<readable, disk, names, gpt, parts, auto, torn>>

\* sync(name), and what it returns: GPTDataOf throws for a table without data; a
\* save that fails has written the table or has not.
Sync(o, t, ret) ==
  /\ LET saved == [disk EXCEPT ![t] = content[t][gpt[o][t]]] IN
     CASE gpt[o][t] = NoData -> ret = "throws" /\ UNCHANGED disk
       [] OTHER -> \/ ret = "true" /\ disk' = saved
                   \/ ret = "false" /\ disk' \in {disk, saved}
  /\ UNCHANGED <<readable, content, names, gpt, parts, auto, current, torn>>

\* Mutant: `success |= sync(name)` in place of `&=`.
SyncAny(o, ret) ==
  LET has == {t \in names[o] : gpt[o][t] # NoData} IN
  /\ \E done \in SUBSET has : \E written \in SUBSET done :
       /\ has = names[o] => done = has
       /\ disk' = [t \in Table |-> IF t \in written THEN content[t][gpt[o][t]] ELSE disk[t]]
       /\ ret \in (IF has # names[o] THEN {"throws"}
                   ELSE IF written # {} THEN {"true", "false"} ELSE {"false"})
  /\ UNCHANGED <<readable, content, names, gpt, parts, auto, current, torn>>

\* sync(): the tables in any order, up to one without data; a failed save does
\* not stop it.
SyncAll(o, ret) ==
  LET has == {t \in names[o] : gpt[o][t] # NoData} IN
  /\ \E done \in SUBSET has : \E written \in SUBSET done :
       /\ has = names[o] => done = has
       /\ disk' = [t \in Table |-> IF t \in written THEN content[t][gpt[o][t]] ELSE disk[t]]
       /\ ret \in (IF has # names[o] THEN {"throws"}
                   ELSE IF written = done THEN {"true", "false"} ELSE {"false"})
  /\ UNCHANGED <<readable, content, names, gpt, parts, auto, current, torn>>

-----------------------------------------------------------------------------
\* Every object is built by findTablePaths() and scan().
Init ==
  /\ readable \in SUBSET Table
  /\ disk \in [Table -> Contents] /\ \A t \in Table : disk[t] \in Layouts[t]
  /\ content = [t \in Table |-> [k \in Copy |->
                  IF t \in Loads(Table) THEN disk[t] ELSE [e \in Entry |-> Unused]]]
  /\ names = [o \in Obj |-> Table]
  /\ \E own \in [Obj -> Copy] :
       /\ \A o, p \in Obj : own[o] = own[p] => o = p
       /\ gpt = [o \in Obj |-> [t \in Table |-> IF t \in Loads(Table) THEN own[o] ELSE NoData]]
  /\ parts \in [Obj -> Sorted(UsedEntries(Loads(Table)))]
  /\ auto = [o \in Obj |-> TRUE]
  /\ current = [o \in Obj |-> TRUE]
  /\ torn = [o \in Obj |-> FALSE]
  /\ told = {}

Call(o) ==
  \/ ReScan(o)
  \/ \E ns \in SUBSET Table : SetTables(o, ns)
  \/ \E b \in BOOLEAN : SetAutoScan(o, b) \/ Clear(o, b)
  \/ \E p \in Obj : CopyFrom(o, p) \/ CopyThrows(o, p) \/ MoveFrom(o, p)
  \/ \E t \in Table :
       \/ RemoveTable(o, t)
       \/ \E ret \in {"true", "false", "throws"} : Sync(o, t, ret)
       \/ \E p \in Obj : SetGPTDataOf(o, t, p)
       \/ \E layout \in Layouts[t] : Edit(o, t, layout)

Next == \E o \in Obj :
  \/ Call(o) /\ told' = {}
  \/ \E ret \in {"true", "false", "throws"} :
       SyncAll(o, ret) /\ told' = IF ret = "true" THEN {o} ELSE {}

Spec == Init /\ [][Next]_vars
-----------------------------------------------------------------------------
(* Properties *)

\* A client that takes a table from a listed partition can ask for its data:
\* scan, clear, copies and moves keep the two collections in step
\* (PartitionTableData.cpp:36-79, 433-438, 535-548). The exception is a copy
\* assignment that threw half way, until the object is scanned, cleared or assigned
\* again: the old partitions are listed beside the new data
\* (table_data_collection.hpp:400, partition.hpp:489-490).
ListedHasData ==
  \A o \in Obj : ~torn[o] =>
    \A i \in DOMAIN parts[o] : gpt[o][parts[o][i].table] # NoData

\* The partitions in the data g of an object, when the data hold c.
InData(g, c) ==
  {p \in Listed : g[p.table] # NoData /\ c[p.table][g[p.table]][p.entry] = p.name}

\* Unless the names or the data were changed since the last scan, as by a copy
\* assignment that throws half way, the list is the used entries of the data of
\* the named tables, each once. In particular no scan or edit through one object
\* reaches the data another one listed, and a copy, whole or torn, takes nothing
\* from the object it is made of.
CurrentListIsData ==
  \A o \in Obj : current[o] =>
    /\ \A t \in Table : gpt[o][t] # NoData <=> t \in Loads(names[o])
    /\ ToSet(parts[o]) = InData(gpt[o], content)
    /\ IsInjective(parts[o])

\* sync() returns true only when every named table is on the disk as it is in
\* memory: no failed save is forgotten among the others
\* (PartitionTableData.cpp:317-329).
SavedMeansOnDisk ==
  \A o \in told : \A t \in names[o] : gpt[o][t] # NoData /\ disk[t] = content[t][gpt[o][t]]
=============================================================================
