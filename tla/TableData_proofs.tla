-------------------------- MODULE TableData_proofs --------------------------
(***************************************************************************)
(* Proofs about PartitionTableData for any number of tables, entries,      *)
(* names and objects: the list of partitions never names a table without   *)
(* data, and a list that nothing has outdated is what the data say.  The   *)
(* heart of it is that a scan loads into memory no other object points to. *)
(***************************************************************************)
EXTENDS TableData, FiniteSetTheorems, TLAPS

\* There are finitely many partitions to list.
LEMMA ListedFinite == IsFiniteSet(Listed)
<1> DEFINE T == Table \X (Entry \X Name)
           f == [x \in T |-> [table |-> x[1], entry |-> x[2][1], name |-> x[2][2]]]
<1>1. IsFiniteSet(T)
  BY FS_Product, TableDataAssumption
<1>2. f \in Surjection(T, Listed)
  <2>1. f \in [T -> Listed]
    BY DEF Listed
  <2>2. ASSUME NEW p \in Listed PROVE \E x \in T : f[x] = p
    <3>1. <<p.table, <<p.entry, p.name>>>> \in T
      BY DEF Listed
    <3>2. f[<<p.table, <<p.entry, p.name>>>>] = p
      BY <3>1 DEF Listed
    <3>. QED BY <3>1, <3>2
  <2>. HIDE DEF f, T
  <2>. QED BY <2>1, <2>2 DEF Surjection
<1>. HIDE DEF f, T
<1>. QED BY <1>1, <1>2, FS_Surjection

\* What std::sort leaves is a list of the same partitions, each once.
LEMMA SortedList ==
  ASSUME NEW S \in SUBSET Listed, NEW s \in Sorted(S)
  PROVE  s \in Seq(Listed) /\ ToSet(s) = S /\ IsInjective(s)
<1> DEFINE D == 1..Cardinality(S)
<1>1. IsFiniteSet(S)
  BY ListedFinite, FS_Subset
<1>2. Cardinality(S) \in Nat
  BY <1>1, FS_CardinalityType
<1>3. s \in [D -> S] /\ \A i, j \in D : i # j => s[i] # s[j]
  BY DEF Sorted, SetToSeqs
<1>4. s \in Seq(Listed)
  BY <1>2, <1>3
<1>5. IsInjective(s)
  BY <1>3 DEF IsInjective
<1>6. s \in Surjection(D, S)
  <2>1. s \in Injection(D, S)
    BY <1>3, <1>5 DEF Injection
  <2>2. IsFiniteSet(D) /\ Cardinality(D) = Cardinality(S)
    BY <1>2, FS_Interval
  <2>. HIDE DEF D
  <2>. QED BY <1>1, <2>1, <2>2, FS_Injection
<1>7. ToSet(s) = S
  BY <1>3, <1>6 DEF Surjection, ToSet
<1>. QED BY <1>4, <1>5, <1>7

\* A scan always finds a copy that no other object points to.
LEMMA FreshIsFree ==
  ASSUME TypeOK, NEW o \in Obj, NEW t \in Table
  PROVE  Fresh(o, t) \in Copy /\ \A p \in Obj \ {o} : gpt[p][t] # Fresh(o, t)
<1>1. \E k \in Copy : \A p \in Obj \ {o} : gpt[p][t] # k
  <2>. SUFFICES ASSUME \A k \in Copy : \E p \in Obj \ {o} : gpt[p][t] = k
                PROVE  FALSE
    OBVIOUS
  <2> DEFINE Others == Obj \ {o}
             holder == [k \in Copy |-> CHOOSE p \in Others : gpt[p][t] = k]
  <2>1. IsFiniteSet(Others) /\ Cardinality(Others) = Cardinality(Obj) - 1
    BY FS_RemoveElement, TableDataAssumption
  <2>2. Cardinality(Obj) \in Nat
    BY FS_CardinalityType, TableDataAssumption
  <2>3. IsFiniteSet(Copy) /\ Cardinality(Copy) = Cardinality(Obj)
    BY <2>2, FS_Interval DEF Copy
  <2>4. holder \in [Copy -> Others] /\ \A k \in Copy : gpt[holder[k]][t] = k
    OBVIOUS
  <2>. HIDE DEF Others, holder
  <2>5. \E x, y \in Copy : x # y /\ holder[x] = holder[y]
    BY <2>1, <2>2, <2>3, <2>4, FS_PigeonHole
  <2>. QED BY <2>4, <2>5
<1>. QED BY <1>1 DEF Fresh

\* Data that an object points to are not freed.
LEMMA KeptContent ==
  ASSUME NEW g \in [Obj -> [Table -> Copy \cup {NoData}]],
         NEW c \in [Table -> [Copy -> Contents]]
  PROVE  /\ Kept(g, c) \in [Table -> [Copy -> Contents]]
         /\ \A p \in Obj, t \in Table :
              g[p][t] # NoData => Kept(g, c)[t][g[p][t]] = c[t][g[p][t]]
<1>1. [e \in Entry |-> Unused] \in Contents
  BY DEF Contents
<1>2. ASSUME NEW t \in Table, NEW k \in Copy
      PROVE  Kept(g, c)[t][k] \in Contents
  BY <1>1 DEF Kept
<1>3. Kept(g, c) \in [Table -> [Copy -> Contents]]
  BY <1>2 DEF Kept
<1>4. ASSUME NEW p \in Obj, NEW t \in Table, g[p][t] # NoData
      PROVE  Kept(g, c)[t][g[p][t]] = c[t][g[p][t]]
  <2>1. g[p][t] \in Copy
    BY <1>4
  <2>. QED BY <2>1 DEF Kept
<1>. QED BY <1>3, <1>4

\* What a list must be for the names, the data and the list of an object to be
\* in step.
InStep(ld, g, c, l) ==
  /\ \A t \in Table : g[t] # NoData <=> t \in ld
  /\ ToSet(l) = InData(g, c)
  /\ IsInjective(l)

\* CurrentListIsData, for one object.
OwnInStep(o) == InStep(Loads(names[o]), gpt[o], content, parts[o])

LEMMA EachInStep == CurrentListIsData <=> \A o \in Obj : current[o] => OwnInStep(o)
BY DEF CurrentListIsData, OwnInStep, InStep

\* An object that gets the fields of one that was in step, whose data are still
\* what they were, is in step.
LEMMA AsBefore ==
  ASSUME NEW p \in Obj, NEW q \in Obj, OwnInStep(p), readable' = readable,
         names'[q] = names[p], gpt'[q] = gpt[p], parts'[q] = parts[p],
         \A t \in Table : gpt[p][t] # NoData => content'[t][gpt[p][t]] = content[t][gpt[p][t]]
  PROVE  OwnInStep(q)'
<1>1. InData(gpt[p], content') = InData(gpt[p], content)
  BY DEF InData, Listed
<1>2. InStep(Loads(names[p]), gpt[p], content', parts[p])
  BY <1>1 DEF OwnInStep, InStep
<1>3. Loads(names[q])' = Loads(names[p])
  BY DEF Loads
<1>. QED BY <1>2, <1>3 DEF OwnInStep

\* An empty object is in step.
LEMMA EmptyInStep ==
  ASSUME NEW q \in Obj, names'[q] = {}, gpt'[q] = [t \in Table |-> NoData], parts'[q] = <<>>
  PROVE  OwnInStep(q)'
<1>1. Loads(names[q])' = {}
  BY DEF Loads
<1>2. InData(gpt'[q], content') = {}
  BY DEF InData, Listed
<1>3. ToSet(<<>>) = {} /\ IsInjective(<<>>)
  BY DEF ToSet, IsInjective
<1>. QED BY <1>1, <1>2, <1>3 DEF OwnInStep, InStep

LEMMA FreedContent ==
  ASSUME TypeOK, gpt' \in [Obj -> [Table -> Copy \cup {NoData}]], content' = Kept(gpt', content)
  PROVE  /\ content' \in [Table -> [Copy -> Contents]]
         /\ \A p \in Obj, t \in Table :
              gpt'[p][t] # NoData => content'[t][gpt'[p][t]] = content[t][gpt'[p][t]]
BY KeptContent DEF TypeOK

\* Loading gives an object what is on the disk, and nothing that another object
\* points to changes.
LEMMA Loading ==
  ASSUME TypeOK, NEW o \in Obj, NEW ns \in SUBSET Table, Load(o, ns)
  PROVE  /\ gpt' \in [Obj -> [Table -> Copy \cup {NoData}]]
         /\ content' \in [Table -> [Copy -> Contents]]
         /\ \A t \in Table : gpt'[o][t] # NoData <=> t \in Loads(ns)
         /\ \A t \in Loads(ns) : content'[t][gpt'[o][t]] = disk[t]
         /\ \A p \in Obj \ {o} : gpt'[p] = gpt[p]
         /\ \A p \in Obj \ {o}, t \in Table :
              gpt[p][t] # NoData => content'[t][gpt[p][t]] = content[t][gpt[p][t]]
<1> DEFINE loaded == [t \in Table |-> [content[t] EXCEPT ![Fresh(o, t)] = disk[t]]]
           own == [t \in Table |-> IF t \in Loads(ns) THEN Fresh(o, t) ELSE NoData]
<1>1. gpt' = [gpt EXCEPT ![o] = own] /\ content' = Kept(gpt', loaded)
  BY DEF Load
<1>2. \A t \in Table : Fresh(o, t) \in Copy /\ Fresh(o, t) # NoData
  BY FreshIsFree, FS_CardinalityType, TableDataAssumption DEF Copy, NoData
<1>3. own \in [Table -> Copy \cup {NoData}]
  BY <1>2
<1>4. gpt' \in [Obj -> [Table -> Copy \cup {NoData}]]
  BY <1>1, <1>3 DEF TypeOK
<1>5. loaded \in [Table -> [Copy -> Contents]]
  BY <1>2 DEF TypeOK
<1>6. /\ content' \in [Table -> [Copy -> Contents]]
      /\ \A p \in Obj, t \in Table :
           gpt'[p][t] # NoData => content'[t][gpt'[p][t]] = loaded[t][gpt'[p][t]]
  <2>. HIDE DEF loaded
  <2>. QED BY <1>1, <1>4, <1>5, KeptContent
<1>7. gpt'[o] = own
  BY <1>1 DEF TypeOK
<1>8. \A t \in Table : gpt'[o][t] # NoData <=> t \in Loads(ns)
  BY <1>2, <1>7
<1>9. ASSUME NEW t \in Loads(ns) PROVE content'[t][gpt'[o][t]] = disk[t]
  <2>1. t \in Table /\ gpt'[o][t] = Fresh(o, t)
    BY <1>7 DEF Loads
  <2>2. loaded[t][Fresh(o, t)] = disk[t]
    BY <2>1, <1>2 DEF TypeOK
  <2>3. content'[t][gpt'[o][t]] = loaded[t][gpt'[o][t]]
    BY <2>1, <1>6, <1>8
  <2>. QED BY <2>1, <2>2, <2>3
<1>10. \A p \in Obj \ {o} : gpt'[p] = gpt[p]
  BY <1>1 DEF TypeOK
<1>11. ASSUME NEW p \in Obj \ {o}, NEW t \in Table, gpt[p][t] # NoData
       PROVE  content'[t][gpt[p][t]] = content[t][gpt[p][t]]
  <2>1. gpt[p][t] \in Copy /\ gpt[p][t] # Fresh(o, t)
    BY <1>11, FreshIsFree DEF TypeOK
  <2>2. loaded[t][gpt[p][t]] = content[t][gpt[p][t]]
    BY <2>1 DEF TypeOK
  <2>3. content'[t][gpt[p][t]] = loaded[t][gpt[p][t]]
    BY <1>6, <1>10, <1>11
  <2>. QED BY <2>2, <2>3
<1>. QED BY <1>4, <1>6, <1>8, <1>9, <1>10, <1>11

\* A scan leaves its object in step, and every other one as it was.
LEMMA Scanning ==
  ASSUME TypeOK, NEW o \in Obj, NEW ns \in SUBSET Table, Scan(o, ns), readable' = readable,
         names'[o] = ns, \A p \in Obj \ {o} : names'[p] = names[p]
  PROVE  /\ gpt' \in [Obj -> [Table -> Copy \cup {NoData}]]
         /\ content' \in [Table -> [Copy -> Contents]]
         /\ parts' \in [Obj -> Seq(Listed)]
         /\ OwnInStep(o)'
         /\ \A p \in Obj \ {o} : OwnInStep(p) => OwnInStep(p)'
<1>1. Load(o, ns)
  BY DEF Scan
<1>2. PICK s \in Sorted(UsedEntries(Loads(ns))) : parts' = [parts EXCEPT ![o] = s]
  BY DEF Scan
<1>3. s \in Seq(Listed) /\ ToSet(s) = UsedEntries(Loads(ns)) /\ IsInjective(s)
  <2>1. UsedEntries(Loads(ns)) \in SUBSET Listed
    BY DEF UsedEntries
  <2>. QED BY <2>1, SortedList
<1>4. parts' \in [Obj -> Seq(Listed)]
  BY <1>2, <1>3 DEF TypeOK
<1>5. parts'[o] = s /\ \A p \in Obj \ {o} : parts'[p] = parts[p]
  BY <1>2 DEF TypeOK
<1>6. OwnInStep(o)'
  <2>1. Loads(names[o])' = Loads(ns)
    BY DEF Loads
  <2>2. InData(gpt'[o], content') = UsedEntries(Loads(ns))
    BY <1>1, Loading DEF InData, UsedEntries, Listed
  <2>3. InStep(Loads(ns), gpt'[o], content', parts'[o])
    BY <1>1, <1>3, <1>5, <2>2, Loading DEF InStep
  <2>. QED BY <2>1, <2>3 DEF OwnInStep
<1>7. ASSUME NEW p \in Obj \ {o}, OwnInStep(p) PROVE OwnInStep(p)'
  BY <1>1, <1>5, <1>7, Loading, AsBefore
<1>. QED BY <1>1, <1>4, <1>6, <1>7, Loading
-----------------------------------------------------------------------------
(* What every step keeps of an object *)

HasData(o) == \A i \in DOMAIN parts[o] : gpt[o][parts[o][i].table] # NoData
Fine(o) == (current[o] => OwnInStep(o)) /\ (~torn[o] => HasData(o))

\* The inductive invariant.
Inv == TypeOK /\ ListedHasData /\ CurrentListIsData

LEMMA EachFine == Inv <=> TypeOK /\ \A o \in Obj : Fine(o)
<1>1. ListedHasData <=> \A o \in Obj : ~torn[o] => HasData(o)
  BY DEF ListedHasData, HasData
<1>2. (\A o \in Obj : Fine(o)) <=>
        (\A o \in Obj : current[o] => OwnInStep(o)) /\ (\A o \in Obj : ~torn[o] => HasData(o))
  BY Zenon DEF Fine
<1>. QED BY <1>1, <1>2, EachInStep DEF Inv

\* A list that is in step names no table without data.
LEMMA InStepHasData ==
  ASSUME NEW ld, NEW g, NEW c, NEW l, InStep(ld, g, c, l), NEW i \in DOMAIN l
  PROVE  g[l[i].table] # NoData
<1>1. l[i] \in ToSet(l)
  BY DEF ToSet
<1>2. l[i] \in InData(g, c)
  BY <1>1 DEF InStep
<1>. QED BY <1>2 DEF InData

\* q is after the step what p was before it.
Gets(q, p) ==
  /\ names'[q] = names[p] /\ gpt'[q] = gpt[p] /\ parts'[q] = parts[p]
  /\ (current'[q] => current[p]) /\ (torn[p] => torn'[q])
  /\ \A t \in Table : gpt[p][t] # NoData => content'[t][gpt[p][t]] = content[t][gpt[p][t]]

LEMMA GetsFine ==
  ASSUME NEW p \in Obj, NEW q \in Obj, Fine(p), Gets(q, p), readable' = readable
  PROVE  Fine(q)'
<1>1. ~torn'[q] => HasData(q)'
  BY DEF Fine, Gets, HasData
<1>2. CASE current'[q]
  <2>1. OwnInStep(p)
    BY <1>2 DEF Fine, Gets
  <2>2. OwnInStep(q)'
    BY <2>1, AsBefore DEF Gets
  <2>. QED BY <1>1, <2>2 DEF Fine
<1>3. CASE ~current'[q]
  BY <1>1, <1>3 DEF Fine
<1>. QED BY <1>2, <1>3

\* An emptied object is fine.
LEMMA EmptyFine ==
  ASSUME NEW q \in Obj, names'[q] = {}, gpt'[q] = [t \in Table |-> NoData], parts'[q] = <<>>
  PROVE  Fine(q)'
<1>1. OwnInStep(q)'
  BY EmptyInStep
<1>2. HasData(q)'
  BY DEF HasData
<1>. QED BY <1>1, <1>2 DEF Fine

\* No scan: an object keeps what it has, and is current only with the names it had.
LEMMA NotScanning ==
  ASSUME Inv, NEW o \in Obj, NoScan(o), readable' = readable,
         names' \in [Obj -> SUBSET Table], \A p \in Obj \ {o} : names'[p] = names[p]
  PROVE  /\ current' \in [Obj -> BOOLEAN]
         /\ \A q \in Obj : Fine(q)'
<1> DEFINE same == current[o] /\ names'[o] = names[o]
<1>. same \in BOOLEAN
  BY Zenon DEF Inv, TypeOK
<1>. HIDE DEF same
<1>1. current' = [current EXCEPT ![o] = same]
  BY Zenon DEF NoScan, same
<1>2. current' \in [Obj -> BOOLEAN]
  BY Zenon, <1>1 DEF Inv, TypeOK
<1>3. current'[o] = same /\ \A p \in Obj \ {o} : current'[p] = current[p]
  BY Zenon, <1>1 DEF Inv, TypeOK
<1>4. ASSUME NEW q \in Obj PROVE Fine(q)'
  <2>1. Fine(q)
    BY EachFine
  <2>2. UNCHANGED <<content, gpt, parts, torn>>
    BY DEF NoScan
  <2>3. CASE names'[q] = names[q]
    <3>1. current'[q] => current[q]
      BY Zenon, <1>3 DEF same
    <3>2. Gets(q, q)
      BY <2>2, <2>3, <3>1 DEF Gets
    <3>. QED BY <2>1, <3>2, GetsFine
  <2>4. CASE names'[q] # names[q]
    <3>1. q = o
      BY <2>4
    <3>2. ~current'[q]
      BY Zenon, <1>3, <2>4, <3>1 DEF same
    <3>3. ~torn'[q] => HasData(q)'
      BY <2>1, <2>2 DEF Fine, HasData
    <3>. QED BY <3>2, <3>3 DEF Fine
  <2>. QED BY <2>3, <2>4
<1>. QED BY <1>2, <1>4

\* The collections keep their types.
Typed ==
  /\ gpt \in [Obj -> [Table -> Copy \cup {NoData}]]
  /\ content \in [Table -> [Copy -> Contents]]
  /\ parts \in [Obj -> Seq(Listed)]
  /\ current \in [Obj -> BOOLEAN]
  /\ torn \in [Obj -> BOOLEAN]

\* The scan that an operation ends with leaves every object fine.
LEMMA MaybeScanning ==
  ASSUME Inv, NEW o \in Obj, ScanOrThrow(o, names'[o]) \/ NoScan(o), readable' = readable,
         names' \in [Obj -> SUBSET Table], \A p \in Obj \ {o} : names'[p] = names[p]
  PROVE  Typed' /\ \A q \in Obj : Fine(q)'
<1>1. CASE NoScan(o)
  <2>1. UNCHANGED <<content, gpt, parts, torn>>
    BY <1>1 DEF NoScan
  <2>. QED BY <1>1, <2>1, NotScanning DEF Typed, Inv, TypeOK
<1>2. CASE Scan(o, names'[o])
  <2>1. names'[o] \in SUBSET Table /\ TypeOK
    BY DEF Inv
  <2>2. /\ gpt' \in [Obj -> [Table -> Copy \cup {NoData}]]
        /\ content' \in [Table -> [Copy -> Contents]]
        /\ parts' \in [Obj -> Seq(Listed)]
        /\ OwnInStep(o)'
        /\ \A p \in Obj \ {o} : OwnInStep(p) => OwnInStep(p)'
    BY <1>2, <2>1, Scanning
  <2>3. current' = [current EXCEPT ![o] = TRUE] /\ torn' = [torn EXCEPT ![o] = FALSE]
    BY <1>2 DEF Scan
  <2>4. /\ current' \in [Obj -> BOOLEAN] /\ torn' \in [Obj -> BOOLEAN]
        /\ \A p \in Obj \ {o} : current'[p] = current[p] /\ torn'[p] = torn[p]
    BY <2>3 DEF Inv, TypeOK
  <2>5. HasData(o)'
    BY <2>2, InStepHasData DEF OwnInStep, HasData
  <2>6. Fine(o)'
    BY <2>2, <2>5 DEF Fine
  <2>7. ASSUME NEW q \in Obj \ {o} PROVE Fine(q)'
    <3>1. Fine(q)
      BY EachFine
    <3>2. gpt'[q] = gpt[q] /\ parts'[q] = parts[q]
      <4>1. Load(o, names'[o])
        BY <1>2 DEF Scan
      <4>2. gpt'[q] = gpt[q]
        BY <2>1, <4>1, Loading
      <4>. QED BY <1>2, <2>1, <4>2 DEF Scan, TypeOK
    <3>3. ~torn'[q] => HasData(q)'
      BY <2>4, <3>1, <3>2 DEF Fine, HasData
    <3>4. CASE current'[q]
      BY <2>2, <2>4, <3>1, <3>3, <3>4 DEF Fine
    <3>5. CASE ~current'[q]
      BY <3>3, <3>5 DEF Fine
    <3>. QED BY <3>4, <3>5
  <2>. QED BY <2>2, <2>4, <2>6, <2>7 DEF Typed
<1>. QED BY <1>1, <1>2 DEF ScanOrThrow

\* What a step has to keep besides the types of the other variables.
StaysFine == Typed' /\ \A q \in Obj : Fine(q)'

\* A step that gives every object what some object had, or empties it.
LEMMA Gives ==
  ASSUME Inv, readable' = readable, Typed',
         \A q \in Obj : \/ \E p \in Obj : Gets(q, p)
                        \/ names'[q] = {} /\ gpt'[q] = [t \in Table |-> NoData] /\ parts'[q] = <<>>
  PROVE  StaysFine
<1>. SUFFICES ASSUME NEW q \in Obj PROVE Fine(q)'
  BY DEF StaysFine
<1>1. CASE \E p \in Obj : Gets(q, p)
  BY <1>1, EachFine, GetsFine
<1>2. CASE names'[q] = {} /\ gpt'[q] = [t \in Table |-> NoData] /\ parts'[q] = <<>>
  BY <1>2, EmptyFine
<1>. QED BY <1>1, <1>2

LEMMA ReScanKeeps == ASSUME Inv, NEW o \in Obj, ReScan(o) PROVE StaysFine
<1>1. names' = names /\ readable' = readable /\ ScanOrThrow(o, names'[o])
  BY DEF ReScan
<1>2. names' \in [Obj -> SUBSET Table]
  BY <1>1 DEF Inv, TypeOK
<1>. QED BY <1>1, <1>2, MaybeScanning DEF StaysFine

LEMMA RemoveTableKeeps ==
  ASSUME Inv, NEW o \in Obj, NEW t \in Table, RemoveTable(o, t) PROVE StaysFine
<1>1. /\ names' = [names EXCEPT ![o] = @ \ {t}] /\ readable' = readable
      /\ ScanOrThrow(o, names'[o]) \/ NoScan(o)
  BY Zenon DEF RemoveTable
<1>2. names' \in [Obj -> SUBSET Table] /\ \A p \in Obj \ {o} : names'[p] = names[p]
  BY <1>1 DEF Inv, TypeOK
<1>. QED BY <1>1, <1>2, MaybeScanning DEF StaysFine

LEMMA SetTablesKeeps ==
  ASSUME Inv, NEW o \in Obj, NEW ns \in SUBSET Table, SetTables(o, ns) PROVE StaysFine
<1>1. names' = [names EXCEPT ![o] = ns] /\ readable' = readable /\ NoScan(o)
  BY DEF SetTables
<1>2. names' \in [Obj -> SUBSET Table] /\ \A p \in Obj \ {o} : names'[p] = names[p]
  BY <1>1 DEF Inv, TypeOK
<1>. QED BY <1>1, <1>2, MaybeScanning DEF StaysFine

\* The flag, the files and the answers are of no consequence to the list.
LEMMA SameKeeps ==
  ASSUME Inv, UNCHANGED <<readable, content, names, gpt, parts, current, torn>> PROVE StaysFine
<1>1. Typed'
  BY DEF Inv, TypeOK, Typed
<1>2. \A q \in Obj : Gets(q, q)
  BY DEF Gets
<1>. QED BY <1>1, <1>2, Gives

LEMMA ClearKeeps ==
  ASSUME Inv, NEW o \in Obj, NEW b \in BOOLEAN, Clear(o, b) PROVE StaysFine
<1>1. /\ gpt' \in [Obj -> [Table -> Copy \cup {NoData}]]
      /\ parts' \in [Obj -> Seq(Listed)]
      /\ current' \in [Obj -> BOOLEAN] /\ torn' \in [Obj -> BOOLEAN]
  BY DEF Clear, Inv, TypeOK
<1>2. /\ content' \in [Table -> [Copy -> Contents]]
      /\ \A p \in Obj, t \in Table :
           gpt'[p][t] # NoData => content'[t][gpt'[p][t]] = content[t][gpt'[p][t]]
  BY <1>1, FreedContent DEF Inv, Clear
<1>3. names'[o] = {} /\ gpt'[o] = [t \in Table |-> NoData] /\ parts'[o] = <<>>
  BY DEF Clear, Inv, TypeOK
<1>4. ASSUME NEW q \in Obj \ {o} PROVE Gets(q, q)
  <2>1. /\ names'[q] = names[q] /\ gpt'[q] = gpt[q] /\ parts'[q] = parts[q]
        /\ current'[q] = current[q] /\ torn'[q] = torn[q]
    BY DEF Clear, Inv, TypeOK
  <2>. QED BY <1>2, <2>1 DEF Gets
<1>. QED BY <1>1, <1>2, <1>3, <1>4, Gives DEF Typed, Clear

LEMMA CopyKeeps ==
  ASSUME Inv, NEW o \in Obj, NEW p \in Obj, CopyFrom(o, p) PROVE StaysFine
<1>1. /\ gpt' \in [Obj -> [Table -> Copy \cup {NoData}]]
      /\ parts' \in [Obj -> Seq(Listed)]
      /\ current' \in [Obj -> BOOLEAN] /\ torn' \in [Obj -> BOOLEAN]
  BY DEF CopyFrom, Inv, TypeOK
<1>2. /\ content' \in [Table -> [Copy -> Contents]]
      /\ \A q \in Obj, t \in Table :
           gpt'[q][t] # NoData => content'[t][gpt'[q][t]] = content[t][gpt'[q][t]]
  BY <1>1, FreedContent DEF Inv, CopyFrom
<1>3. Gets(o, p)
  <2>1. /\ names'[o] = names[p] /\ gpt'[o] = gpt[p] /\ parts'[o] = parts[p]
        /\ current'[o] = current[p] /\ torn'[o] = torn[p]
    BY DEF CopyFrom, Inv, TypeOK
  <2>. QED BY <1>2, <2>1 DEF Gets
<1>4. ASSUME NEW q \in Obj \ {o} PROVE Gets(q, q)
  <2>1. /\ names'[q] = names[q] /\ gpt'[q] = gpt[q] /\ parts'[q] = parts[q]
        /\ current'[q] = current[q] /\ torn'[q] = torn[q]
    BY DEF CopyFrom, Inv, TypeOK
  <2>. QED BY <1>2, <2>1 DEF Gets
<1>5. Typed' /\ readable' = readable
  BY <1>1, <1>2 DEF Typed, CopyFrom
<1>. QED BY <1>3, <1>4, <1>5, Gives

\* What a copy assignment that throws leaves of the list is a list.
LEMMA MixedList ==
  ASSUME NEW old \in Seq(Listed), NEW new \in Seq(Listed), NEW j \in DOMAIN new, NEW l \in Mixed(old, new, j)
  PROVE  l \in Seq(Listed)
<1> DEFINE k == IF j <= Len(old) THEN j ELSE Len(old)
<1>1. k \in Nat /\ Len(old) \in Nat /\ Len(new) \in Nat /\ k <= Len(new) /\ k <= Len(old) /\ (k = 0 \/ k >= 1)
  OBVIOUS
<1>2. SubSeq(new, 1, k) \in Seq(Listed) /\ SubSeq(old, k + 1, Len(old)) \in Seq(Listed)
  <2>. HIDE DEF k
  <2>. QED BY <1>1
<1>3. <<>> \in Seq(Listed)
  OBVIOUS
<1>4. SubSeq(new, 1, k) \o SubSeq(old, k + 1, Len(old)) \in Seq(Listed)
  <2> DEFINE x == SubSeq(new, 1, k)
             y == SubSeq(old, k + 1, Len(old))
  <2>. HIDE DEF x, y
  <2>. QED BY <1>2 DEF x, y
<1>. QED BY <1>3, <1>4 DEF Mixed

\* A copy assignment that throws takes nothing from the other objects.
LEMMA CopyThrowsKeeps ==
  ASSUME Inv, NEW o \in Obj, NEW p \in Obj, CopyThrows(o, p) PROVE StaysFine
<1>1. PICK j \in DOMAIN parts[p] :
        \E l \in Mixed(parts[o], parts[p], j) : parts' = [parts EXCEPT ![o] = l]
  BY DEF CopyThrows
<1>2. PICK l \in Mixed(parts[o], parts[p], j) : parts' = [parts EXCEPT ![o] = l]
  BY <1>1
<1>3. parts[o] \in Seq(Listed) /\ parts[p] \in Seq(Listed)
  BY DEF Inv, TypeOK
<1>4. l \in Seq(Listed)
  BY <1>3, MixedList
<1>5. /\ gpt' \in [Obj -> [Table -> Copy \cup {NoData}]]
      /\ parts' \in [Obj -> Seq(Listed)]
      /\ current' \in [Obj -> BOOLEAN] /\ torn' \in [Obj -> BOOLEAN]
  BY <1>2, <1>4 DEF CopyThrows, Inv, TypeOK
<1>6. /\ content' \in [Table -> [Copy -> Contents]]
      /\ \A q \in Obj, t \in Table :
           gpt'[q][t] # NoData => content'[t][gpt'[q][t]] = content[t][gpt'[q][t]]
  BY <1>5, FreedContent DEF Inv, CopyThrows
<1>7. ~current'[o] /\ torn'[o]
  BY DEF CopyThrows, Inv, TypeOK
<1>8. ASSUME NEW q \in Obj \ {o} PROVE Fine(q)'
  <2>1. /\ names'[q] = names[q] /\ gpt'[q] = gpt[q] /\ parts'[q] = parts[q]
        /\ current'[q] = current[q] /\ torn'[q] = torn[q]
    BY <1>2 DEF CopyThrows, Inv, TypeOK
  <2>2. Gets(q, q)
    BY <1>6, <2>1 DEF Gets
  <2>3. Fine(q) /\ readable' = readable
    BY EachFine DEF CopyThrows
  <2>. QED BY <2>2, <2>3, GetsFine
<1>9. Fine(o)'
  BY <1>7 DEF Fine
<1>. QED BY <1>5, <1>6, <1>8, <1>9 DEF StaysFine, Typed

LEMMA MoveKeeps ==
  ASSUME Inv, NEW o \in Obj, NEW p \in Obj, MoveFrom(o, p) PROVE StaysFine
<1>1. /\ gpt' \in [Obj -> [Table -> Copy \cup {NoData}]]
      /\ parts' \in [Obj -> Seq(Listed)]
      /\ current' \in [Obj -> BOOLEAN] /\ torn' \in [Obj -> BOOLEAN]
  <2>1. gpt' \in [Obj -> [Table -> Copy \cup {NoData}]]
    BY DEF MoveFrom, Inv, TypeOK
  <2>2. parts' \in [Obj -> Seq(Listed)]
    <3>1. parts[p] \in Seq(Listed) /\ <<>> \in Seq(Listed)
      BY DEF Inv, TypeOK
    <3>2. parts' = [[parts EXCEPT ![o] = parts[p]] EXCEPT ![p] = <<>>]
      BY DEF MoveFrom
    <3>. QED BY <3>1, <3>2 DEF Inv, TypeOK
  <2>3. current' \in [Obj -> BOOLEAN] /\ torn' \in [Obj -> BOOLEAN]
    BY DEF MoveFrom, Inv, TypeOK
  <2>. QED BY <2>1, <2>2, <2>3
<1>2. /\ content' \in [Table -> [Copy -> Contents]]
      /\ \A q \in Obj, t \in Table :
           gpt'[q][t] # NoData => content'[t][gpt'[q][t]] = content[t][gpt'[q][t]]
  BY <1>1, FreedContent DEF Inv, MoveFrom
<1>3. Gets(o, p)
  <2>1. /\ names'[o] = names[p] /\ gpt'[o] = gpt[p] /\ parts'[o] = parts[p]
        /\ current'[o] = current[p] /\ torn'[o] = torn[p]
    BY DEF MoveFrom, Inv, TypeOK
  <2>. QED BY <1>2, <2>1 DEF Gets
<1>4. names'[p] = {} /\ gpt'[p] = [t \in Table |-> NoData] /\ parts'[p] = <<>>
  BY DEF MoveFrom, Inv, TypeOK
<1>5. ASSUME NEW q \in Obj \ {o, p} PROVE Gets(q, q)
  <2>1. /\ names'[q] = names[q] /\ gpt'[q] = gpt[q] /\ parts'[q] = parts[q]
        /\ current'[q] = current[q] /\ torn'[q] = torn[q]
    BY DEF MoveFrom, Inv, TypeOK
  <2>. QED BY <1>2, <2>1 DEF Gets
<1>6. Typed' /\ readable' = readable
  BY <1>1, <1>2 DEF Typed, MoveFrom
<1>. QED BY <1>3, <1>4, <1>5, <1>6, Gives

LEMMA EditKeeps ==
  ASSUME Inv, NEW o \in Obj, NEW t \in Table, NEW layout \in Contents, Edit(o, t, layout)
  PROVE  StaysFine
<1> DEFINE unseen(p) == current[p] /\ (gpt[p][t] = gpt[o][t] => layout = content[t][gpt[o][t]])
<1>1. gpt[o][t] \in Copy
  BY DEF Edit, Inv, TypeOK
<1>2. content' = [content EXCEPT ![t][gpt[o][t]] = layout] /\ UNCHANGED <<readable, names, gpt, parts, torn>>
  BY DEF Edit
<1>3. current' \in [Obj -> BOOLEAN] /\ \A p \in Obj : current'[p] <=> unseen(p)
  <2>1. \A p \in Obj : unseen(p) \in BOOLEAN
    BY Zenon DEF Inv, TypeOK
  <2>2. current' = [p \in Obj |-> unseen(p)]
    BY DEF Edit
  <2>. HIDE DEF unseen
  <2>. QED BY <2>1, <2>2
<1>4. Typed'
  <2>1. content' \in [Table -> [Copy -> Contents]]
    BY <1>1, <1>2 DEF Inv, TypeOK
  <2>. QED BY <1>2, <1>3, <2>1 DEF Typed, Inv, TypeOK
<1>5. ASSUME NEW q \in Obj PROVE Fine(q)'
  <2>1. Fine(q)
    BY EachFine
  <2>2. ~torn'[q] => HasData(q)'
    BY <1>2, <2>1 DEF Fine, HasData
  <2>3. CASE unseen(q)
    <3>1. \A x \in Table : gpt[q][x] # NoData => content'[x][gpt[q][x]] = content[x][gpt[q][x]]
      BY <1>1, <1>2, <2>3 DEF Inv, TypeOK
    <3>2. Gets(q, q)
      BY <1>2, <2>3, <3>1 DEF Gets
    <3>. QED BY <1>2, <2>1, <3>2, GetsFine
  <2>4. CASE ~unseen(q)
    <3>1. ~current'[q]
      BY Zenon, <1>3, <2>4
    <3>. QED BY <2>2, <3>1 DEF Fine
  <2>. QED BY <2>3, <2>4
<1>. QED BY <1>4, <1>5 DEF StaysFine

LEMMA SetGPTDataOfKeeps ==
  ASSUME Inv, NEW o \in Obj, NEW t \in Table, NEW p \in Obj, SetGPTDataOf(o, t, p)
  PROVE  StaysFine
<1> DEFINE same == current[o] /\ gpt[o][t] = gpt[p][t]
<1>1. gpt[p][t] \in Copy /\ gpt' = [gpt EXCEPT ![o][t] = gpt[p][t]] /\ UNCHANGED <<readable, names, parts, torn>>
  BY DEF SetGPTDataOf, Inv, TypeOK
<1>2. gpt' \in [Obj -> [Table -> Copy \cup {NoData}]]
  BY <1>1 DEF Inv, TypeOK
<1>3. /\ content' \in [Table -> [Copy -> Contents]]
      /\ \A q \in Obj, x \in Table :
           gpt'[q][x] # NoData => content'[x][gpt'[q][x]] = content[x][gpt'[q][x]]
  BY <1>2, FreedContent DEF Inv, SetGPTDataOf
<1>4. /\ current' \in [Obj -> BOOLEAN]
      /\ current'[o] <=> same
      /\ \A q \in Obj \ {o} : current'[q] = current[q]
  <2>1. same \in BOOLEAN
    BY Zenon DEF Inv, TypeOK
  <2>2. current' = [current EXCEPT ![o] = same]
    BY DEF SetGPTDataOf
  <2>. HIDE DEF same
  <2>. QED BY <2>1, <2>2 DEF Inv, TypeOK
<1>5. Typed'
  BY <1>1, <1>2, <1>3, <1>4 DEF Typed, Inv, TypeOK
<1>6. ASSUME NEW q \in Obj PROVE Fine(q)'
  <2>1. Fine(q)
    BY EachFine
  <2>2. CASE gpt'[q] = gpt[q] /\ (current'[q] => current[q])
    <3>1. Gets(q, q)
      BY <1>1, <1>3, <2>2 DEF Gets
    <3>. QED BY <1>1, <2>1, <3>1, GetsFine
  <2>3. CASE q = o /\ ~current'[q]
    <3>1. \A x \in Table : gpt[q][x] # NoData => gpt'[q][x] # NoData
      BY <1>1, FS_CardinalityType, TableDataAssumption DEF Copy, NoData, Inv, TypeOK
    <3>2. ~torn'[q] => HasData(q)'
      <4>. parts[q] \in Seq(Listed)
        BY DEF Inv, TypeOK
      <4>0. \A i \in DOMAIN parts[q] : parts[q][i] \in Listed
        OBVIOUS
      <4>1. \A i \in DOMAIN parts[q] : parts[q][i].table \in Table
        BY <4>0 DEF Listed
      <4>. QED BY <1>1, <2>1, <3>1, <4>1 DEF Fine, HasData
    <3>. QED BY <2>3, <3>2 DEF Fine
  <2>4. (gpt'[q] = gpt[q] /\ (current'[q] => current[q])) \/ (q = o /\ ~current'[q])
    <3>1. CASE q # o
      BY <1>1, <1>4, <3>1 DEF Inv, TypeOK
    <3>2. CASE q = o /\ same
      BY <1>1, <3>2 DEF Inv, TypeOK
    <3>3. CASE q = o /\ ~same
      BY Zenon, <1>4, <3>3
    <3>. QED BY <3>1, <3>2, <3>3
  <2>. QED BY <2>2, <2>3, <2>4
<1>. QED BY <1>5, <1>6 DEF StaysFine
-----------------------------------------------------------------------------
(* The invariant *)

LEMMA Start == Init => Inv
<1>. SUFFICES ASSUME Init PROVE Inv
  OBVIOUS
<1> DEFINE ns == Loads(Table)
           used == UsedEntries(ns)
<1>1. ns \in SUBSET Table
  BY DEF Loads
<1>2. used \in SUBSET Listed
  BY DEF UsedEntries
<1>3. PICK own \in [Obj -> Copy] :
        gpt = [o \in Obj |-> [t \in Table |-> IF t \in ns THEN own[o] ELSE NoData]]
  BY DEF Init
<1>4. [e \in Entry |-> Unused] \in Contents
  BY DEF Contents
<1>5. gpt \in [Obj -> [Table -> Copy \cup {NoData}]]
  BY <1>3
<1>6. content \in [Table -> [Copy -> Contents]]
  BY <1>4 DEF Init
<1>7. parts \in [Obj -> Sorted(used)]
  BY DEF Init
<1>8. parts \in [Obj -> Seq(Listed)]
  <2>1. \A s \in Sorted(used) : s \in Seq(Listed)
    BY <1>2, SortedList
  <2>. HIDE DEF used
  <2>. QED BY <1>7, <2>1
<1>9. TypeOK
  BY <1>5, <1>6, <1>8 DEF Init, TypeOK
<1>10. ASSUME NEW o \in Obj PROVE Fine(o)
  <2>1. \A t \in Table : gpt[o][t] # NoData <=> t \in ns
    <3>. own[o] # NoData
      BY FS_CardinalityType, TableDataAssumption DEF Copy, NoData
    <3>. QED BY <1>3
  <2>2. ToSet(parts[o]) = used /\ IsInjective(parts[o])
    <3>. HIDE DEF used
    <3>. QED BY <1>2, <1>7, SortedList
  <2>3. \A t \in ns : content[t][gpt[o][t]] = disk[t]
    BY <1>1, <1>3 DEF Init
  <2>4. InData(gpt[o], content) = used
    BY <2>1, <2>3 DEF InData, UsedEntries, Listed
  <2>5. InStep(ns, gpt[o], content, parts[o])
    BY <2>1, <2>2, <2>4 DEF InStep
  <2>6. OwnInStep(o)
    BY <2>5 DEF OwnInStep, Init
  <2>7. HasData(o)
    BY <2>5, InStepHasData DEF HasData
  <2>. QED BY <2>6, <2>7 DEF Fine
<1>. QED BY <1>9, <1>10, EachFine

\* What Next asks of an object.
LEMMA CallKeeps == ASSUME Inv, NEW o \in Obj, Call(o) PROVE StaysFine
<1>1. CASE ReScan(o)
  BY <1>1, ReScanKeeps
<1>2. CASE \E ns \in SUBSET Table : SetTables(o, ns)
  BY <1>2, SetTablesKeeps
<1>3. ASSUME NEW b \in BOOLEAN, SetAutoScan(o, b) PROVE StaysFine
  BY <1>3, SameKeeps DEF SetAutoScan
<1>4. ASSUME NEW b \in BOOLEAN, Clear(o, b) PROVE StaysFine
  BY <1>4, ClearKeeps
<1>5. CASE \E p \in Obj : CopyFrom(o, p) \/ CopyThrows(o, p) \/ MoveFrom(o, p)
  BY <1>5, CopyKeeps, CopyThrowsKeeps, MoveKeeps
<1>6. ASSUME NEW t \in Table, RemoveTable(o, t) PROVE StaysFine
  BY <1>6, RemoveTableKeeps
<1>7. ASSUME NEW t \in Table, NEW ret, Sync(o, t, ret) PROVE StaysFine
  BY <1>7, SameKeeps DEF Sync
<1>8. ASSUME NEW t \in Table, NEW p \in Obj, SetGPTDataOf(o, t, p) PROVE StaysFine
  BY <1>8, SetGPTDataOfKeeps
<1>9. ASSUME NEW t \in Table, NEW layout \in Layouts[t], Edit(o, t, layout) PROVE StaysFine
  <2>. layout \in Contents
    BY TableDataAssumption
  <2>. QED BY <1>9, EditKeeps
<1>. QED BY <1>1, <1>2, <1>3, <1>4, <1>5, <1>6, <1>7, <1>8, <1>9 DEF Call

LEMMA SimplyTyped ==
  ASSUME TypeOK, NEW o \in Obj, Call(o)
  PROVE  /\ readable' \in SUBSET Table
         /\ disk' \in [Table -> Contents]
         /\ names' \in [Obj -> SUBSET Table]
         /\ auto' \in [Obj -> BOOLEAN]
<1> DEFINE R == readable' \in SUBSET Table /\ disk' \in [Table -> Contents]
           A == auto' \in [Obj -> BOOLEAN]
           N == names' \in [Obj -> SUBSET Table]
<1>1. ASSUME ReScan(o) PROVE R /\ A /\ N
  BY <1>1 DEF ReScan, TypeOK
<1>2. ASSUME NEW ns \in SUBSET Table, SetTables(o, ns) PROVE R /\ A /\ N
  BY <1>2 DEF SetTables, TypeOK
<1>3. ASSUME NEW b \in BOOLEAN, SetAutoScan(o, b) PROVE R /\ A /\ N
  BY <1>3 DEF SetAutoScan, TypeOK
<1>4. ASSUME NEW b \in BOOLEAN, Clear(o, b) PROVE R /\ A /\ N
  <2>1. auto[o] \/ b \in BOOLEAN
    OBVIOUS
  <2>. QED BY <1>4, <2>1 DEF Clear, TypeOK
<1>5. ASSUME NEW p \in Obj, CopyFrom(o, p) \/ CopyThrows(o, p) PROVE R /\ A /\ N
  BY <1>5 DEF CopyFrom, CopyThrows, TypeOK
<1>6. ASSUME NEW p \in Obj, MoveFrom(o, p) PROVE R /\ A /\ N
  <2>1. A
    BY <1>6 DEF MoveFrom, TypeOK
  <2>2. N
    BY <1>6 DEF MoveFrom, TypeOK
  <2>. QED BY <1>6, <2>1, <2>2 DEF MoveFrom, TypeOK
<1>7. ASSUME NEW t \in Table, RemoveTable(o, t) PROVE R /\ A /\ N
  BY <1>7 DEF RemoveTable, TypeOK
<1>8. ASSUME NEW t \in Table, NEW ret, Sync(o, t, ret) PROVE R /\ A /\ N
  <2>1. gpt[o][t] # NoData => content[t][gpt[o][t]] \in Contents
    BY DEF TypeOK
  <2>. QED BY <1>8, <2>1 DEF Sync, TypeOK
<1>9. ASSUME NEW t \in Table, NEW p \in Obj, SetGPTDataOf(o, t, p) PROVE R /\ A /\ N
  BY <1>9 DEF SetGPTDataOf, TypeOK
<1>10. ASSUME NEW t \in Table, NEW layout, Edit(o, t, layout) PROVE R /\ A /\ N
  BY <1>10 DEF Edit, TypeOK
<1>. HIDE DEF R, A, N
<1>11. R /\ A /\ N
  BY <1>1, <1>2, <1>3, <1>4, <1>5, <1>6, <1>7, <1>8, <1>9, <1>10 DEF Call
<1>. QED BY <1>11 DEF R, A, N

\* sync() writes what is in memory, and tells true of a whole save only.
LEMMA SyncAllKeeps ==
  ASSUME Inv, NEW o \in Obj, NEW ret, SyncAll(o, ret)
  PROVE  /\ StaysFine
         /\ UNCHANGED <<readable, names, auto, content, gpt>>
         /\ disk' \in [Table -> Contents]
         /\ ret = "true" => \A t \in names[o] : gpt[o][t] # NoData /\ disk'[t] = content[t][gpt[o][t]]
<1> DEFINE has == {t \in names[o] : gpt[o][t] # NoData}
<1>1. UNCHANGED <<readable, content, names, gpt, parts, auto, current, torn>>
  BY DEF SyncAll
<1>2. PICK done \in SUBSET has : \E written \in SUBSET done :
        /\ has = names[o] => done = has
        /\ disk' = [t \in Table |-> IF t \in written THEN content[t][gpt[o][t]] ELSE disk[t]]
        /\ ret \in (IF has # names[o] THEN {"throws"}
                    ELSE IF written = done THEN {"true", "false"} ELSE {"false"})
  BY Zenon DEF SyncAll
<1>3. PICK written \in SUBSET done :
        /\ has = names[o] => done = has
        /\ disk' = [t \in Table |-> IF t \in written THEN content[t][gpt[o][t]] ELSE disk[t]]
        /\ ret \in (IF has # names[o] THEN {"throws"}
                    ELSE IF written = done THEN {"true", "false"} ELSE {"false"})
  BY <1>2
<1>4. \A t \in names[o] : t \in Table
  BY DEF Inv, TypeOK
<1>5. \A t \in has : content[t][gpt[o][t]] \in Contents
  BY <1>4 DEF Inv, TypeOK
<1>6. disk' \in [Table -> Contents]
  BY <1>3, <1>5 DEF Inv, TypeOK
<1>7. ASSUME ret = "true", NEW t \in names[o]
      PROVE  gpt[o][t] # NoData /\ disk'[t] = content[t][gpt[o][t]]
  <2>1. has = names[o] /\ written = has
    BY <1>3, <1>7
  <2>. QED BY <1>3, <1>4, <2>1
<1>. QED BY <1>1, <1>6, <1>7, SameKeeps

LEMMA NextFine ==
  ASSUME TypeOK', \A o \in Obj : Fine(o)'
  PROVE  Inv'
<1>1. ListedHasData'
  BY DEF Fine, HasData, ListedHasData
<1>2. CurrentListIsData'
  BY DEF Fine, OwnInStep, InStep, CurrentListIsData
<1>. QED BY <1>1, <1>2 DEF Inv

LEMMA Step == Inv /\ SavedMeansOnDisk /\ [Next]_vars => Inv' /\ SavedMeansOnDisk'
<1>. SUFFICES ASSUME Inv, SavedMeansOnDisk, [Next]_vars PROVE Inv' /\ SavedMeansOnDisk'
  OBVIOUS
<1>. TypeOK
  BY DEF Inv
<1>1. ASSUME NEW o \in Obj, Call(o), told' = {} PROVE Inv' /\ SavedMeansOnDisk'
  <2>1. StaysFine
    BY <1>1, CallKeeps
  <2>2. TypeOK'
    BY <1>1, <2>1, SimplyTyped DEF StaysFine, Typed, TypeOK
  <2>3. SavedMeansOnDisk'
    BY <1>1 DEF SavedMeansOnDisk
  <2>. QED BY <2>1, <2>2, <2>3, NextFine DEF StaysFine
<1>2. ASSUME NEW o \in Obj, NEW ret, SyncAll(o, ret), told' = IF ret = "true" THEN {o} ELSE {}
      PROVE  Inv' /\ SavedMeansOnDisk'
  <2>1. /\ StaysFine
        /\ UNCHANGED <<readable, names, auto, content, gpt>>
        /\ disk' \in [Table -> Contents]
        /\ ret = "true" => \A t \in names[o] : gpt[o][t] # NoData /\ disk'[t] = content[t][gpt[o][t]]
    BY <1>2, SyncAllKeeps
  <2>2. TypeOK'
    BY <1>2, <2>1 DEF StaysFine, Typed, TypeOK
  <2>3. SavedMeansOnDisk'
    BY <1>2, <2>1 DEF SavedMeansOnDisk
  <2>. QED BY <2>1, <2>2, <2>3, NextFine DEF StaysFine
<1>3. CASE UNCHANGED vars
  <2>1. StaysFine
    BY <1>3, SameKeeps DEF vars
  <2>2. TypeOK'
    BY <1>3 DEF vars, TypeOK
  <2>3. SavedMeansOnDisk'
    BY <1>3 DEF vars, SavedMeansOnDisk
  <2>. QED BY <2>1, <2>2, <2>3, NextFine DEF StaysFine
<1>. QED BY <1>1, <1>2, <1>3 DEF Next

LEMMA Invariant == Spec => [](Inv /\ SavedMeansOnDisk)
<1>1. Init => Inv /\ SavedMeansOnDisk
  BY Start DEF Init, SavedMeansOnDisk
<1>. QED BY <1>1, Step, PTL DEF Spec

\* The list of partitions never names a table whose data an object does not
\* have, whatever is scanned, cleared, copied, moved or replaced in any order; but
\* for an object whose copy assignment threw half way and that nothing has put
\* right since (PartitionTableData.cpp:36-79, 433-438, 535-548,
\* table_data_collection.hpp:400).
THEOREM ListedDataTheorem == Spec => []ListedHasData
<1>1. Inv => ListedHasData
  BY DEF Inv
<1>. QED BY <1>1, Invariant, PTL

\* A list that nothing has outdated is the list of the used entries of the data
\* of the named tables, each once: no operation on one object disturbs another,
\* not even a copy assignment that throws half way and leaves its own object torn.
THEOREM CurrentListTheorem == Spec => []CurrentListIsData
<1>1. Inv => CurrentListIsData
  BY DEF Inv
<1>. QED BY <1>1, Invariant, PTL

\* sync() returns true only if every named table is on the disk as it is in
\* memory (PartitionTableData.cpp:317-329).
THEOREM SavedTheorem == Spec => []SavedMeansOnDisk
<1>. QED BY Invariant, PTL

\* Every variable keeps its type.
THEOREM TypeTheorem == Spec => []TypeOK
<1>1. Inv => TypeOK
  BY DEF Inv
<1>. QED BY <1>1, Invariant, PTL
=============================================================================
