------------------------- MODULE DynamicTable_proofs -------------------------
(***************************************************************************)
(* Proofs about DynamicTableData for any partitions, metadata and number   *)
(* of objects: the types, that the list of an object which is not torn is  *)
(* the beginning of the metadata it holds, what alone can be undefined,    *)
(* and that a command which succeeds has answered for every name.          *)
(*   Most steps leave every object as it is; the others give an object     *)
(* what a scan makes of an empty list, what another object had, or a torn  *)
(* list, of which nothing but its type is known.  What a                   *)
(* command prints is what loops keep of the names it was given: the k-th   *)
(* element kept is the one with k places up to it.                         *)
(***************************************************************************)
EXTENDS DynamicTable, FiniteSetTheorems, WellFoundedInduction, TLAPS

\* The structures table objects are, and what ListIsPrefix says of one.
Structure == [parts : Seq(Name), meta : Layouts \cup {None}, supported : BOOLEAN, torn : BOOLEAN]
Prefixed(t) == ~t.torn => IsPrefix(t.parts, IF t.meta = None THEN <<>> ELSE t.meta)

IInv == TypeOK /\ ListIsPrefix

\* The beginning of a sequence is a prefix of it.
LEMMA BeginningIsPrefix ==
  ASSUME NEW S, NEW s \in Seq(S), NEW k \in 0..Len(s)
  PROVE  SubSeq(s, 1, k) \in Seq(S) /\ IsPrefix(SubSeq(s, 1, k), s)
<1>1. SubSeq(s, 1, k) \in Seq(S) /\ Len(SubSeq(s, 1, k)) = k
  OBVIOUS
<1>2. SubSeq(SubSeq(s, 1, k), 1, k) = SubSeq(s, 1, k)
  BY <1>1
<1>. QED BY <1>1, <1>2 DEF IsPrefix

LEMMA EmptyList == <<>> \in Seq(Name)
OBVIOUS

\* An empty list is the beginning of any metadata.
LEMMA EmptyPrefixed ==
  ASSUME NEW t \in Structure, t.parts = <<>>
  PROVE  Prefixed(t)
<1> DEFINE m == IF t.meta = None THEN <<>> ELSE t.meta
<1>1. m \in Seq(Name)
  BY DynamicAssumption DEF Structure
<1>2. Len(m) \in Nat /\ Len(<<>>) = 0
  BY <1>1
<1>3. SubSeq(<<>>, 1, 0) = <<>> /\ SubSeq(m, 1, 0) = <<>>
  BY <1>1
<1>. QED BY <1>2, <1>3 DEF IsPrefix, Prefixed

\* Whatever a scan makes of an empty list, it is the beginning of what it has read, or
\* nothing has been read and the list is still empty (DynamicPartitionTable.cpp:29-44).
LEMMA ScanIsPrefix ==
  ASSUME TypeOK, NEW t \in Structure, t.parts = <<>>, NEW r \in Scanned(t)
  PROVE  r.t \in Structure /\ Prefixed(r.t)
<1>1. CASE super = "absent"
  <2>1. r.t = t
    BY <1>1 DEF Scanned
  <2>. QED BY <2>1, EmptyPrefixed
<1>2. CASE super # "absent"
  <2>1. PICK ps \in Opened : r.t = [parts |-> t.parts \o ps, meta |-> layout, supported |-> TRUE, torn |-> FALSE]
    <3> DEFINE made(ps) == [parts |-> t.parts \o ps, meta |-> layout, supported |-> TRUE, torn |-> FALSE]
    <3>1. PICK ps \in Opened : r = [t |-> made(ps), throws |-> ps # layout]
      BY <1>2, Zenon DEF Scanned
    <3> HIDE DEF made
    <3>2. r.t = made(ps)
      BY <3>1, Zenon
    <3>. QED BY <3>2 DEF made
  <2>2. layout \in Layouts /\ layout \in Seq(Name) /\ layout # None
    BY DynamicAssumption DEF TypeOK
  <2>3. PICK k \in 0..Len(layout) : ps = SubSeq(layout, 1, k)
    BY DEF Opened
  <2>4. ps \in Seq(Name) /\ IsPrefix(ps, layout)
    BY <2>2, <2>3, BeginningIsPrefix
  <2>5. t.parts \o ps = ps
    BY <2>4
  <2>. QED BY <2>1, <2>2, <2>4, <2>5 DEF Structure, Prefixed
<1>. QED BY <1>1, <1>2

\* A step that gives no object anything new. Every call of the library that only asks,
\* every command, every call that ends in a crash and every change of the device is one.
Keeps ==
  /\ table' = table
  /\ super' \in {"absent", "bad", "ok"} /\ layout' \in Layouts /\ mapped' \subseteq Logical
  /\ phase' \in {"start", "run", "crashed"}
  /\ reply'.of \in Object

LEMMA KeptInvariant ==
  ASSUME IInv, Keeps
  PROVE  IInv'
BY DEF IInv, Keeps, TypeOK, ListIsPrefix

LEMMA AnswerKeeps ==
  ASSUME TypeOK, NEW fn, NEW o \in Object, NEW result, Answer(fn, o, result)
  PROVE  Keeps
BY DEF Answer, Says, Keeps, TypeOK, device

LEMMA CrashKeeps ==
  ASSUME TypeOK, NEW fn, NEW o \in Object, Crash(fn, o)
  PROVE  Keeps
BY DEF Crash, Says, Keeps, TypeOK, device

LEMMA PrintsKeeps ==
  ASSUME TypeOK, NEW fn, NEW asked, NEW printed, NEW result, Prints(fn, asked, printed, result)
  PROVE  Keeps
BY DynamicAssumption DEF Prints, Keeps, TypeOK, device

\* A step that gives one object o a structure, or ends it, leaving the device alone.
LEMMA OneObject ==
  ASSUME IInv, NEW o \in Object, NEW t \in Structure \cup {Gone},
         t # Gone => Prefixed(t),
         table' = [table EXCEPT ![o] = t],
         UNCHANGED device, phase' \in {"run", "start", "crashed"}, reply'.of \in Object
  PROVE  IInv'
<1>1. TypeOK'
  BY DEF IInv, TypeOK, device, Structure
<1>2. ASSUME NEW p \in Object, table'[p] # Gone PROVE Prefixed(table'[p])
  BY <1>2 DEF IInv, TypeOK, ListIsPrefix, Prefixed
<1>. QED BY <1>1, <1>2 DEF IInv, ListIsPrefix, Prefixed

\* What an object that is there holds.
LEMMA Held ==
  ASSUME IInv, NEW o \in Object, table[o] # Gone
  PROVE  table[o] \in Structure /\ Prefixed(table[o])
BY DEF IInv, TypeOK, ListIsPrefix, Structure, Prefixed

\* Each operation of the library keeps the invariant.

LEMMA StartKeeps == ASSUME IInv, Start PROVE IInv'
<1>1. CASE super = "bad"
  BY <1>1, CrashKeeps, KeptInvariant, DynamicAssumption DEF Start, IInv
<1>2. CASE super # "bad"
  <2>1. PICK r \in Scanned(Fresh) :
          /\ table' = [table EXCEPT ![Main] = IF r.throws THEN Gone ELSE r.t]
          /\ phase' = "run" /\ Says("start", Main, Result(r)) /\ UNCHANGED device
    BY <1>2, Zenon DEF Start
  <2>2. Fresh \in Structure /\ Fresh.parts = <<>>
    BY DEF Fresh, Structure
  <2>3. r.t \in Structure /\ Prefixed(r.t)
    BY <2>2, ScanIsPrefix DEF IInv
  <2> DEFINE t == IF r.throws THEN Gone ELSE r.t
  <2>4. t \in Structure \cup {Gone} /\ (t # Gone => Prefixed(t)) /\ table' = [table EXCEPT ![Main] = t]
    BY <2>1, <2>3, Zenon
  <2>5. reply'.of = Main
    BY <2>1 DEF Says
  <2> HIDE DEF t
  <2>. QED BY <2>1, <2>4, <2>5, OneObject, DynamicAssumption
<1>. QED BY <1>1, <1>2

LEMMA CreateKeeps == ASSUME IInv, NEW o \in Object, Create(o) PROVE IInv'
<1>1. CASE super = "bad"
  BY <1>1, CrashKeeps, KeptInvariant DEF Create, IInv
<1>2. CASE super # "bad"
  <2>1. PICK r \in Scanned(Fresh) :
          /\ table' = [table EXCEPT ![o] = IF r.throws THEN Gone ELSE r.t]
          /\ Says("create", o, Result(r)) /\ UNCHANGED <<device, phase>>
    BY <1>2, Zenon DEF Create
  <2>2. Fresh \in Structure /\ Fresh.parts = <<>>
    BY DEF Fresh, Structure
  <2>3. r.t \in Structure /\ Prefixed(r.t)
    BY <2>2, ScanIsPrefix DEF IInv
  <2> DEFINE t == IF r.throws THEN Gone ELSE r.t
  <2>4. t \in Structure \cup {Gone} /\ (t # Gone => Prefixed(t)) /\ table' = [table EXCEPT ![o] = t]
    BY <2>1, <2>3, Zenon
  <2>5. reply'.of = o /\ UNCHANGED device /\ phase' \in {"run", "start", "crashed"}
    BY <2>1 DEF Says, IInv, TypeOK
  <2> HIDE DEF t
  <2>. QED BY <2>4, <2>5, OneObject
<1>. QED BY <1>1, <1>2

LEMMA ReScanKeeps == ASSUME IInv, NEW o \in Object, ReScan(o) PROVE IInv'
<1>1. CASE super = "bad"
  BY <1>1, CrashKeeps, KeptInvariant DEF ReScan, IInv
<1>2. CASE super # "bad"
  <2> DEFINE emptied == [table[o] EXCEPT !.parts = <<>>, !.torn = FALSE]
  <2>1. PICK r \in Scanned(emptied) :
          /\ table' = [table EXCEPT ![o] = r.t]
          /\ Says("reScan", o, Result(r)) /\ UNCHANGED <<device, phase>>
    BY <1>2, Zenon DEF ReScan
  <2>2. emptied \in Structure /\ emptied.parts = <<>>
    <3>1. table[o] \in Structure
      BY Held DEF ReScan, Exists
    <3>. QED BY <3>1, EmptyList DEF Structure
  <2> HIDE DEF emptied
  <2>3. r.t \in Structure /\ Prefixed(r.t)
    BY <2>2, ScanIsPrefix DEF IInv
  <2>4. reply'.of = o /\ UNCHANGED device /\ phase' \in {"run", "start", "crashed"}
    BY <2>1 DEF Says, IInv, TypeOK
  <2>. QED BY <2>1, <2>3, <2>4, OneObject
<1>. QED BY <1>1, <1>2

LEMMA ClearKeeps == ASSUME IInv, NEW o \in Object, Clear(o) PROVE IInv'
<1> DEFINE t == [table[o] EXCEPT !.parts = <<>>, !.meta = None, !.torn = FALSE]
<1>1. table[o] \in Structure
  BY Held DEF Clear, Exists
<1>2. t \in Structure /\ t.parts = <<>>
  BY <1>1, EmptyList DEF Structure
<1>3. Prefixed(t)
  BY <1>2, EmptyPrefixed
<1>4. table' = [table EXCEPT ![o] = t]
  BY <1>1 DEF Clear, IInv, TypeOK
<1>5. reply'.of = o /\ UNCHANGED device /\ phase' \in {"run", "start", "crashed"}
  BY DEF Clear, Says, IInv, TypeOK
<1> HIDE DEF t
<1>. QED BY <1>2, <1>3, <1>4, <1>5, OneObject

LEMMA DestroyKeeps == ASSUME IInv, NEW o \in Object, Destroy(o) PROVE IInv'
<1>1. table' = [table EXCEPT ![o] = Gone]
  BY DEF Destroy
<1>2. reply'.of = o /\ UNCHANGED device /\ phase' \in {"run", "start", "crashed"}
  BY DEF Destroy, Says, IInv, TypeOK
<1>. QED BY <1>1, <1>2, OneObject

\* What a new object, or an old one, has been told of dynamic partitions.
LEMMA WasSupported ==
  ASSUME IInv, NEW o \in Object
  PROVE  (IF table[o] = Gone THEN Fresh ELSE table[o]).supported \in BOOLEAN
BY Held DEF Fresh, Structure

\* The list a copy assignment leaves that throws.
LEMMA MixedType ==
  ASSUME NEW old \in Seq(Name), NEW new \in Seq(Name), NEW j \in DOMAIN new, NEW ps \in Mixed(old, new, j)
  PROVE  ps \in Seq(Name)
<1> DEFINE k == IF j <= Len(old) THEN j ELSE Len(old)
<1>1. k \in 0..Len(old) /\ k \in 0..Len(new)
  OBVIOUS
<1>2. ps = <<>> \/ ps = SubSeq(new, 1, k) \o SubSeq(old, k + 1, Len(old))
  BY DEF Mixed
<1> HIDE DEF k
<1>3. SubSeq(new, 1, k) \in Seq(Name) /\ SubSeq(old, k + 1, Len(old)) \in Seq(Name)
  BY <1>1
<1> DEFINE first == SubSeq(new, 1, k)
           rest == SubSeq(old, k + 1, Len(old))
<1> HIDE DEF first, rest
<1>4. first \in Seq(Name) /\ rest \in Seq(Name)
  BY <1>3 DEF first, rest
<1>5. first \o rest \in Seq(Name)
  BY <1>4
<1>. QED BY <1>2, <1>5, EmptyList, Zenon DEF first, rest

\* A copy that throws leaves a torn list, or no object where none was.
LEMMA CopyThrowsKeeps ==
  ASSUME IInv, NEW o \in Object, NEW other \in Object, phase = "run", table[other] # Gone, CopyThrows(o, other)
  PROVE  IInv'
<1>1. table[other] \in Structure
  BY Held
<1>2. reply'.of = other /\ UNCHANGED device /\ phase' \in {"run", "start", "crashed"}
  BY DEF CopyThrows, Says, IInv, TypeOK
<1>3. PICK j \in DOMAIN table[other].parts :
        \E ps \in IF table[o] = Gone THEN {<<>>} ELSE Mixed(table[o].parts, table[other].parts, j) :
          table' = [table EXCEPT ![o] = IF @ = Gone THEN Gone ELSE [@ EXCEPT !.parts = ps, !.torn = TRUE]]
  BY Zenon DEF CopyThrows
<1>4. CASE table[o] = Gone
  <2>1. table' = [table EXCEPT ![o] = Gone]
    BY <1>3, <1>4 DEF IInv, TypeOK
  <2>. QED BY <1>2, <2>1, OneObject
<1>5. CASE table[o] # Gone
  <2>1. table[o] \in Structure
    BY <1>5, Held
  <2>2. PICK ps \in Mixed(table[o].parts, table[other].parts, j) :
          table' = [table EXCEPT ![o] = [table[o] EXCEPT !.parts = ps, !.torn = TRUE]]
    BY <1>3, <1>5 DEF IInv, TypeOK
  <2> DEFINE t == [table[o] EXCEPT !.parts = ps, !.torn = TRUE]
  <2>3. ps \in Seq(Name)
    BY <1>1, <2>1, MixedType DEF Structure
  <2>4. t \in Structure /\ Prefixed(t)
    BY <2>1, <2>3 DEF Structure, Prefixed
  <2> HIDE DEF t
  <2>5. table' = [table EXCEPT ![o] = t]
    BY <2>2 DEF t
  <2>. QED BY <1>2, <2>4, <2>5, OneObject
<1>. QED BY <1>4, <1>5

LEMMA CopyKeeps == ASSUME IInv, NEW o \in Object, NEW other \in Object, Copy(o, other) PROVE IInv'
<1> DEFINE was == IF table[o] = Gone THEN Fresh ELSE table[o]
           t == [table[other] EXCEPT !.supported = was.supported]
<1>1. table[other] \in Structure /\ Prefixed(table[other])
  BY Held DEF Copy
<1>2. t \in Structure /\ Prefixed(t)
  BY <1>1, WasSupported DEF Structure, Prefixed
<1>3. CASE CopyThrows(o, other)
  BY <1>3, CopyThrowsKeeps DEF Copy
<1>4. CASE Crash("copy", other)
  BY <1>4, CrashKeeps, KeptInvariant DEF IInv
<1>5. CASE table' = [table EXCEPT ![o] = t] /\ Says("copy", other, "ok") /\ UNCHANGED <<device, phase>>
  <2>1. reply'.of = other /\ UNCHANGED device /\ phase' \in {"run", "start", "crashed"}
    BY <1>5 DEF Says, IInv, TypeOK
  <2> HIDE DEF t
  <2>. QED BY <1>2, <1>5, <2>1, OneObject
<1>. QED BY <1>3, <1>4, <1>5, Zenon DEF Copy

\* A move is two such changes, the second of an object that is left empty.
LEMMA MoveKeeps == ASSUME IInv, NEW o \in Object, NEW other \in Object, Move(o, other) PROVE IInv'
<1> DEFINE was == IF table[o] = Gone THEN Fresh ELSE table[o]
           t == [table[other] EXCEPT !.supported = was.supported]
           left == [table[other] EXCEPT !.parts = <<>>, !.meta = None, !.torn = FALSE]
<1>1. table[other] \in Structure /\ Prefixed(table[other]) /\ o # other
  BY Held DEF Move
<1>2. t \in Structure /\ Prefixed(t)
  BY <1>1, WasSupported DEF Structure, Prefixed
<1>3. left \in Structure /\ left.parts = <<>>
  BY <1>1, EmptyList DEF Structure
<1>4. Prefixed(left)
  BY <1>3, EmptyPrefixed
<1>5. table' = [[table EXCEPT ![o] = t] EXCEPT ![other] = left]
  BY <1>1 DEF Move, IInv, TypeOK
<1>6. reply'.of = other /\ UNCHANGED device /\ phase' \in {"run", "start", "crashed"}
  BY DEF Move, Says, IInv, TypeOK
<1> HIDE DEF t, left
<1>7. TypeOK'
  BY <1>2, <1>3, <1>5, <1>6 DEF IInv, TypeOK, device, Structure
<1>8. ASSUME NEW p \in Object, table'[p] # Gone PROVE Prefixed(table'[p])
  BY <1>2, <1>4, <1>5, <1>8 DEF IInv, TypeOK, ListIsPrefix, Prefixed
<1>. QED BY <1>7, <1>8 DEF IInv, ListIsPrefix, Prefixed

\* Whatever the library is asked, and every command: each alternative is an answer, a
\* printed result or a crash.
LEMMA ReadsKeeps ==
  ASSUME TypeOK, NEW fn, NEW o \in Object, NEW result, Reads(fn, o, result)
  PROVE  Keeps
BY AnswerKeeps, CrashKeeps, Zenon DEF Reads

LEMMA QuestionsKeep ==
  ASSUME TypeOK, NEW o \in Object,
         \/ Partitions(o) \/ Metadata(o) \/ FreeSpace(o) \/ Valid(o) \/ Sync(o)
         \/ \E n \in Name : HasPartition(o, n)
         \/ \E ns \in Asked : ForEachFor(o, ns)
         \/ \E g \in Group : FreeSpaceOf(o, g)
  PROVE  Keeps
<1>1. ASSUME Partitions(o) PROVE Keeps
  BY <1>1, AnswerKeeps, Zenon DEF Partitions, SizeThrows
<1>2. ASSUME Metadata(o) PROVE Keeps
  BY <1>2, ReadsKeeps, Zenon DEF Metadata
<1>3. ASSUME FreeSpace(o) PROVE Keeps
  BY <1>3, AnswerKeeps, ReadsKeeps, Zenon DEF FreeSpace, SizeThrows
<1>4. ASSUME Valid(o) PROVE Keeps
  BY <1>4, AnswerKeeps, CrashKeeps, Zenon DEF Valid, SizeThrows
<1>5. ASSUME Sync(o) PROVE Keeps
  BY <1>5, AnswerKeeps, Zenon DEF Sync
<1>6. ASSUME NEW n \in Name, HasPartition(o, n) PROVE Keeps
  BY <1>6, AnswerKeeps, Zenon DEF HasPartition
<1>7. ASSUME NEW ns \in Asked, ForEachFor(o, ns) PROVE Keeps
  BY <1>7, AnswerKeeps, Zenon DEF ForEachFor
<1>8. ASSUME NEW g \in Group, FreeSpaceOf(o, g) PROVE Keeps
  BY <1>8, ReadsKeeps, CrashKeeps, Zenon DEF FreeSpaceOf
<1>. QED BY <1>1, <1>2, <1>3, <1>4, <1>5, <1>6, <1>7, <1>8

LEMMA MainIsObject == Main \in Object
BY DynamicAssumption

LEMMA CommandsKeep ==
  ASSUME TypeOK, Command
  PROVE  Keeps
<1>1. ASSUME NEW ns, NEW keyword, InfoAll(ns, keyword) PROVE Keeps
  BY <1>1, PrintsKeeps, CrashKeeps, MainIsObject, Zenon DEF InfoAll, BreaksOff
<1>2. ASSUME NEW ns \in Asked, InfoOf(ns) PROVE Keeps
  BY <1>2, PrintsKeeps, CrashKeeps, MainIsObject, Zenon DEF InfoOf, BreaksOff
<1>3. ASSUME NEW ns, NEW logical, NEW force, NEW byName, RealPath(ns, logical, force, byName)
      PROVE  Keeps
  <2>1. \/ Crash("real-path", Main)
        \/ \E fn, printed, result : Prints(fn, ns, printed, result)
    BY <1>3, Zenon DEF RealPath
  <2>. QED BY <2>1, CrashKeeps, PrintsKeeps, MainIsObject, Zenon
<1>4. ASSUME NEW c, Type(c) PROVE Keeps
  BY <1>4, PrintsKeeps, CrashKeeps, MainIsObject, Zenon DEF Type
<1>5. ASSUME NEW ns, LpMetadata(ns) PROVE Keeps
  <2>1. \/ Crash("lp-metadata", Main)
        \/ \E fn, printed, result : Prints(fn, ns, printed, result)
    BY <1>5, Zenon DEF LpMetadata
  <2>. QED BY <2>1, CrashKeeps, PrintsKeeps, MainIsObject, Zenon
<1>. QED BY <1>1, <1>2, <1>3, <1>4, <1>5, Zenon DEF Command

LEMMA OthersKeep ==
  ASSUME TypeOK, GoOn \/ Others
  PROVE  Keeps
<1>1. ASSUME NEW n \in Logical, SetMapped(n) PROVE Keeps
  BY <1>1, MainIsObject DEF SetMapped, Keeps, TypeOK, NoReply
<1>2. ASSUME NEW l \in Layouts, Update(l) PROVE Keeps
  BY <1>2, MainIsObject DEF Update, Keeps, TypeOK, NoReply
<1>3. ASSUME GoOn PROVE Keeps
  BY <1>3, MainIsObject DEF GoOn, Keeps, TypeOK, NoReply, device
<1>. QED BY <1>1, <1>2, <1>3 DEF Others

LEMMA InitInvariant == Init => IInv
<1> SUFFICES ASSUME Init PROVE IInv
  OBVIOUS
<1>1. TypeOK
  BY MainIsObject DEF Init, TypeOK, NoReply
<1>2. ListIsPrefix
  BY DEF Init, ListIsPrefix
<1>. QED BY <1>1, <1>2 DEF IInv

LEMMA NextInvariant == IInv /\ [Next]_vars => IInv'
<1> SUFFICES ASSUME IInv, [Next]_vars PROVE IInv'
  OBVIOUS
<1>. TypeOK
  BY DEF IInv
<1>1. CASE Start
  BY <1>1, StartKeeps
<1>2. CASE Library
  <2>1. PICK o \in Object :
          \/ Create(o) \/ ReScan(o) \/ Clear(o) \/ Destroy(o)
          \/ \E other \in Object : Copy(o, other) \/ Move(o, other)
          \/ Partitions(o) \/ Metadata(o) \/ FreeSpace(o) \/ Valid(o) \/ Sync(o)
          \/ \E n \in Name : HasPartition(o, n)
          \/ \E ns \in Asked : ForEachFor(o, ns)
          \/ \E g \in Group : FreeSpaceOf(o, g)
    BY <1>2, Zenon DEF Library
  <2>2. CASE Create(o) \/ ReScan(o) \/ Clear(o) \/ Destroy(o)
    BY <2>2, CreateKeeps, ReScanKeeps, ClearKeeps, DestroyKeeps
  <2>3. CASE \E other \in Object : Copy(o, other) \/ Move(o, other)
    BY <2>3, CopyKeeps, MoveKeeps
  <2>. QED BY <2>1, <2>2, <2>3, QuestionsKeep, KeptInvariant
<1>3. CASE Command
  BY <1>3, CommandsKeep, KeptInvariant
<1>4. CASE GoOn \/ Others
  BY <1>4, OthersKeep, KeptInvariant
<1>5. CASE UNCHANGED vars
  <2>1. Keeps
    BY <1>5 DEF vars, Keeps, TypeOK
  <2>. QED BY <2>1, KeptInvariant
<1>. QED BY <1>1, <1>2, <1>3, <1>4, <1>5, Zenon DEF Next

THEOREM InvariantHolds == Spec => []IInv
BY InitInvariant, NextInvariant, PTL DEF Spec

\* The types of the device, the table objects and the replies.
THEOREM TypeTheorem == Spec => []TypeOK
<1>1. IInv => TypeOK
  BY DEF IInv
<1>. QED BY <1>1, InvariantHolds, PTL

\* What an object lists is the beginning of the metadata it holds, unless its copy assignment
\* threw (DynamicPartitionTable.cpp:29-44, 248-314).
THEOREM ListTheorem == Spec => []ListIsPrefix
<1>1. IInv => ListIsPrefix
  BY DEF IInv
<1>. QED BY <1>1, InvariantHolds, PTL
-----------------------------------------------------------------------------
(* What is undefined. Each call goes on, or it crashes with an excuse. *)

\* What UndefinedOnlyUnscanned allows a crash: metadata liblp cannot read, an object that
\* was not scanned completely, or one of two calls.
Excused(fn, o) ==
  \/ super = "bad" /\ fn \in {"start", "create", "reScan"}
  \/ Unscanned(o)
  \/ fn \in {"freeSpaceOf", "type of a short file"}

GoesOn == phase' # "crashed"
Defined == GoesOn \/ \E fn, o : Crash(fn, o) /\ Excused(fn, o)

\* A crash changes neither the objects nor the device, so that its excuse still holds behind it.
LEMMA ExcuseLasts == ASSUME Defined PROVE UndefinedOnlyUnscanned'
<1>1. CASE GoesOn
  BY <1>1 DEF GoesOn, UndefinedOnlyUnscanned
<1>2. ASSUME NEW fn, NEW o, Crash(fn, o), Excused(fn, o) PROVE UndefinedOnlyUnscanned'
  <2>1. table' = table /\ super' = super /\ reply'.fn = fn /\ reply'.of = o
    BY <1>2 DEF Crash, Says, device
  <2>2. Unscanned(o) => Unscanned(o)'
    BY <2>1 DEF Unscanned
  <2>. QED BY <1>2, <2>1, <2>2 DEF Excused, UndefinedOnlyUnscanned, Unscanned
<1>. QED BY <1>1, <1>2 DEF Defined

\* getCorrectTableObj() names the table that has the partition, or none.
LEMMA NeverDangling == ASSUME NEW n PROVE ~Dangling(n)
BY DEF Dangling, Correct, Known

\* Where the list is all of the metadata, each partition of a group is listed.
LEMMA GroupIsListed ==
  ASSUME NEW t, t.parts = t.meta, NEW g, NEW i \in InGroup(t, g)
  PROVE  Has(t, t.meta[i])
BY DEF InGroup, Has, ToSet

\* The scans: only metadata liblp cannot read ends the process.
LEMMA ScansDefined ==
  ASSUME TypeOK, NEW o \in Object, Start \/ Create(o) \/ ReScan(o)
  PROVE  Defined
<1>1. ASSUME NEW fn \in {"start", "create", "reScan"}, NEW p, super = "bad", Crash(fn, p) PROVE Defined
  BY <1>1 DEF Defined, Excused
<1>2. ASSUME phase = "run", UNCHANGED phase PROVE Defined
  BY <1>2 DEF Defined, GoesOn
<1>3. CASE Start
  <2>1. CASE super = "bad"
    BY <1>1, <1>3, <2>1 DEF Start
  <2>2. CASE super # "bad"
    <3>1. phase' = "run"
      BY <1>3, <2>2, Zenon DEF Start
    <3>. QED BY <3>1 DEF Defined, GoesOn
  <2>. QED BY <2>1, <2>2
<1>4. CASE Create(o)
  <2>1. CASE super = "bad"
    BY <1>1, <1>4, <2>1 DEF Create
  <2>2. CASE super # "bad"
    <3>1. phase = "run" /\ UNCHANGED phase
      BY <1>4, <2>2, Zenon DEF Create
    <3>. QED BY <1>2, <3>1
  <2>. QED BY <2>1, <2>2
<1>5. CASE ReScan(o)
  <2>1. CASE super = "bad"
    BY <1>1, <1>5, <2>1 DEF ReScan
  <2>2. CASE super # "bad"
    <3>1. phase = "run" /\ UNCHANGED phase
      BY <1>5, <2>2, Zenon DEF ReScan, Exists
    <3>. QED BY <1>2, <3>1
  <2>. QED BY <2>1, <2>2
<1>. QED BY <1>3, <1>4, <1>5

\* clear(), the destructor, copies and moves: a copy reads the other's metadata.
LEMMA ChangesDefined ==
  ASSUME NEW o \in Object,
         Clear(o) \/ Destroy(o) \/ \E other \in Object : Copy(o, other) \/ Move(o, other)
  PROVE  Defined
<1>1. ASSUME phase = "run", UNCHANGED phase PROVE Defined
  BY <1>1 DEF Defined, GoesOn
<1>2. CASE Clear(o) \/ Destroy(o)
  BY <1>1, <1>2 DEF Clear, Destroy, Exists
<1>3. ASSUME NEW other \in Object, Move(o, other) PROVE Defined
  BY <1>1, <1>3 DEF Move
<1>4. ASSUME NEW other \in Object, Copy(o, other) PROVE Defined
  <2>1. phase = "run" /\ (UNCHANGED phase \/ (table[other].meta = None /\ Crash("copy", other)))
    BY <1>4, Zenon DEF Copy, CopyThrows
  <2>2. ASSUME table[other].meta = None, Crash("copy", other) PROVE Defined
    BY <2>2 DEF Defined, Excused, Unscanned
  <2>. QED BY <1>1, <2>1, <2>2
<1>. QED BY <1>2, <1>3, <1>4

\* The questions of the library.
LEMMA QuestionsDefined ==
  ASSUME NEW o \in Object,
         \/ Partitions(o) \/ Metadata(o) \/ FreeSpace(o) \/ Valid(o) \/ Sync(o)
         \/ \E n \in Name : HasPartition(o, n)
         \/ \E ns \in Asked : ForEachFor(o, ns)
         \/ \E g \in Group : FreeSpaceOf(o, g)
  PROVE  Defined
<1>1. ASSUME NEW fn, NEW result, phase = "run", Answer(fn, o, result) PROVE Defined
  BY <1>1 DEF Answer, Defined, GoesOn
<1>2. ASSUME NEW fn, NEW result, phase = "run", Reads(fn, o, result) PROVE Defined
  <2>1. CASE table[o].meta = None
    BY <1>2, <2>1 DEF Reads, Defined, Excused, Unscanned
  <2>2. CASE table[o].meta # None
    BY <1>1, <1>2, <2>2, Zenon DEF Reads
  <2>. QED BY <2>1, <2>2
<1>3. CASE Partitions(o)
  BY <1>1, <1>3, Zenon DEF Partitions, SizeThrows, Exists
<1>4. CASE Metadata(o)
  BY <1>2, <1>4, Zenon DEF Metadata, Exists
<1>5. CASE FreeSpace(o)
  BY <1>1, <1>2, <1>5, Zenon DEF FreeSpace, SizeThrows, Exists
<1>6. CASE Sync(o)
  BY <1>1, <1>6, Zenon DEF Sync, Exists
<1>7. ASSUME NEW n \in Name, HasPartition(o, n) PROVE Defined
  BY <1>1, <1>7, Zenon DEF HasPartition, Exists
<1>8. ASSUME NEW ns \in Asked, ForEachFor(o, ns) PROVE Defined
  BY <1>1, <1>8, Zenon DEF ForEachFor, Exists
<1>9. ASSUME NEW g \in Group, FreeSpaceOf(o, g) PROVE Defined
  <2>1. ASSUME Crash("freeSpaceOf", o) PROVE Defined
    BY <2>1 DEF Defined, Excused
  <2>. QED BY <1>2, <1>9, <2>1, Zenon DEF FreeSpaceOf, Exists
<1>10. CASE Valid(o)
  <2> DEFINE t == table[o]
             limited == {g \in Group : Limit[g] # 0}
             listed == {g \in limited : \A i \in InGroup(t, g) : Has(t, t.meta[i])}
  <2>1. phase = "run" /\ \/ \E result : Answer("valid", o, result)
                         \/ listed # limited /\ Crash("valid", o)
    BY <1>10, Zenon DEF Valid, SizeThrows, Exists
  <2>2. listed # limited => Unscanned(o)
    BY GroupIsListed DEF Unscanned
  <2> HIDE DEF listed, limited
  <2>3. ASSUME listed # limited, Crash("valid", o) PROVE Defined
    BY <2>2, <2>3 DEF Defined, Excused
  <2>. QED BY <1>1, <2>1, <2>3, Zenon
<1>. QED BY <1>3, <1>4, <1>5, <1>6, <1>7, <1>8, <1>9, <1>10

\* The commands: none uses the table through a null pointer unless there is none, and none
\* takes a partition out of the wrong table.
LEMMA CommandsDefined ==
  ASSUME Command
  PROVE  Defined
<1>1. ASSUME NEW fn, NoTable, Crash(fn, Main) PROVE Defined
  BY <1>1 DEF Defined, Excused, Unscanned, NoTable
<1>2. ASSUME NEW fn, NEW asked, NEW printed, NEW result, phase = "run", Prints(fn, asked, printed, result)
      PROVE  Defined
  BY <1>2 DEF Prints, Defined, GoesOn
<1>3. ASSUME NEW ns, NEW keyword, InfoAll(ns, keyword) PROVE Defined
  BY <1>1, <1>2, <1>3, Zenon DEF InfoAll, BreaksOff
<1>4. ASSUME NEW ns, InfoOf(ns) PROVE Defined
  BY <1>1, <1>2, <1>4, Zenon DEF InfoOf, BreaksOff
<1>5. ASSUME NEW ns, NEW logical, NEW force, NEW byName, RealPath(ns, logical, force, byName) PROVE Defined
  <2>1. phase = "run" /\ \/ \E n : Dangling(n)
                         \/ \E fn, printed, result : Prints(fn, ns, printed, result)
    BY <1>5, Zenon DEF RealPath
  <2>. QED BY <1>2, <2>1, NeverDangling, Zenon
<1>6. ASSUME NEW cc, Type(cc) PROVE Defined
  <2>1. phase = "run" /\ \/ Crash("type of a short file", Main)
                         \/ \E printed, result : Prints("type", <<cc>>, printed, result)
    BY <1>6, NeverDangling, Zenon DEF Type
  <2>2. ASSUME Crash("type of a short file", Main) PROVE Defined
    BY <2>2 DEF Defined, Excused
  <2>. QED BY <1>2, <2>1, <2>2, Zenon
<1>7. ASSUME NEW ns, LpMetadata(ns) PROVE Defined
  <2>1. phase = "run" /\ \/ NoTable /\ Crash("lp-metadata", Main)
                         \/ \E fn, printed, result : Prints(fn, ns, printed, result)
    BY <1>7, Zenon DEF LpMetadata
  <2>. QED BY <1>1, <1>2, <2>1, Zenon
<1>. QED BY <1>3, <1>4, <1>5, <1>6, <1>7, Zenon DEF Command

LEMMA NextDefined == ASSUME TypeOK, UndefinedOnlyUnscanned, [Next]_vars PROVE UndefinedOnlyUnscanned'
<1>1. CASE Start
  BY <1>1, MainIsObject, ScansDefined, ExcuseLasts
<1>2. CASE Library
  <2>1. PICK o \in Object :
          \/ Create(o) \/ ReScan(o)
          \/ Clear(o) \/ Destroy(o) \/ \E other \in Object : Copy(o, other) \/ Move(o, other)
          \/ Partitions(o) \/ Metadata(o) \/ FreeSpace(o) \/ Valid(o) \/ Sync(o)
          \/ \E n \in Name : HasPartition(o, n)
          \/ \E ns \in Asked : ForEachFor(o, ns)
          \/ \E g \in Group : FreeSpaceOf(o, g)
    BY <1>2, Zenon DEF Library
  <2>. QED BY <2>1, ScansDefined, ChangesDefined, QuestionsDefined, ExcuseLasts
<1>3. CASE Command
  BY <1>3, CommandsDefined, ExcuseLasts
<1>4. CASE GoOn \/ Others
  <2>1. GoesOn
    BY <1>4 DEF GoOn, Others, SetMapped, Update, GoesOn
  <2>. QED BY <2>1, ExcuseLasts DEF Defined
<1>5. CASE UNCHANGED vars
  BY <1>5 DEF vars, UndefinedOnlyUnscanned, Unscanned
<1>. QED BY <1>1, <1>2, <1>3, <1>4, <1>5, Zenon DEF Next

\* Whatever library users and others have done before, and whatever the device is: what is
\* undefined is only what UndefinedOnlyUnscanned names (DynamicPartitionTable.cpp:29-44, 64-147,
\* 200-246; builder.hpp:96-114).
THEOREM UndefinedTheorem == Spec => []UndefinedOnlyUnscanned
<1>1. Init => UndefinedOnlyUnscanned
  BY DEF Init, UndefinedOnlyUnscanned
<1>2. TypeOK /\ UndefinedOnlyUnscanned /\ [Next]_vars => UndefinedOnlyUnscanned'
  BY NextDefined
<1>. QED BY <1>1, <1>2, TypeTheorem, PTL DEF Spec
-----------------------------------------------------------------------------
(* What a loop keeps of a sequence. *)

\* A set of natural numbers has a least element: the numbers are well-founded.
LEMMA Least ==
  ASSUME NEW T \in SUBSET Nat, T # {}
  PROVE  Min(T) \in T /\ \A y \in T : Min(T) <= y
<1> DEFINE R == OpToRel(<, Nat)
<1>1. PICK x \in T : \A y \in T : <<y, x>> \notin R
  <2>1. IsWellFoundedOn(R, Nat)
    BY NatLessThanWellFounded
  <2> HIDE DEF R
  <2>. QED BY <2>1, WFMin, Zenon
<1>2. ASSUME NEW y \in T PROVE x <= y
  <2>1. ~(y < x)
    BY <1>1 DEF OpToRel
  <2>. QED BY <2>1
<1> HIDE DEF R
<1>. QED BY <1>2 DEF Min

\* Places in a sequence of n elements.
Places(P, n) == P \in SUBSET Nat /\ IsFiniteSet(P) /\ \A j \in P : 1 <= j /\ j <= n

LEMMA ArePlaces ==
  ASSUME NEW n \in Nat, NEW P, P \subseteq 1..n
  PROVE  Places(P, n)
<1>1. IsFiniteSet(1..n)
  BY FS_Interval
<1>2. IsFiniteSet(P)
  BY <1>1, FS_Subset
<1>. QED BY <1>2 DEF Places

\* How many of the places lie up to one.
LEMMA RankType ==
  ASSUME NEW n \in Nat, NEW P, Places(P, n), NEW i \in Nat
  PROVE  /\ Cardinality(P) \in Nat
         /\ IsFiniteSet({j \in P : j <= i})
         /\ Rank(P, i) \in 0..Cardinality(P)
<1>1. {j \in P : j <= i} \in SUBSET P /\ IsFiniteSet(P)
  BY DEF Places
<1>2. IsFiniteSet({j \in P : j <= i}) /\ Cardinality({j \in P : j <= i}) <= Cardinality(P)
  BY <1>1, FS_Subset
<1>. QED BY <1>1, <1>2, FS_CardinalityType DEF Rank

\* From one number to the next the rank grows by one at a place, and stays elsewhere.
LEMMA RankGrows ==
  ASSUME NEW n \in Nat, NEW P, Places(P, n), NEW i \in Nat
  PROVE  Rank(P, i + 1) = IF i + 1 \in P THEN Rank(P, i) + 1 ELSE Rank(P, i)
<1>1. \A j \in P : j <= i + 1 <=> j <= i \/ j = i + 1
  BY DEF Places
<1>2. CASE i + 1 \in P
  <2>1. {j \in P : j <= i + 1} = {j \in P : j <= i} \cup {i + 1}
    BY <1>1, <1>2, Zenon
  <2>2. i + 1 \notin {j \in P : j <= i} /\ IsFiniteSet({j \in P : j <= i})
    BY RankType
  <2>. QED BY <1>2, <2>1, <2>2, FS_AddElement DEF Rank
<1>3. CASE i + 1 \notin P
  <2>1. {j \in P : j <= i + 1} = {j \in P : j <= i}
    BY <1>1, <1>3, Zenon
  <2>. QED BY <1>3, <2>1 DEF Rank
<1>. QED BY <1>2, <1>3

LEMMA RankEnds ==
  ASSUME NEW n \in Nat, NEW P, Places(P, n)
  PROVE  Rank(P, 0) = 0 /\ Rank(P, n) = Cardinality(P)
<1>1. P \in SUBSET Nat /\ \A j \in P : ~(j <= 0) /\ j <= n
  BY DEF Places
<1>2. {j \in P : j <= 0} = {}
  BY <1>1, Zenon
<1>3. {j \in P : j <= n} = P
  BY <1>1
<1>. QED BY <1>2, <1>3, FS_EmptySet DEF Rank

\* Two places have different ranks.
LEMMA RankTellsApart ==
  ASSUME NEW n \in Nat, NEW P, Places(P, n), NEW i \in P, NEW j \in P, i < j
  PROVE  Rank(P, i) < Rank(P, j)
<1> DEFINE A == {k \in P : k <= i}
           B == {k \in P : k <= j}
<1>1. P \in SUBSET Nat /\ i \in Nat /\ j \in Nat
  BY DEF Places
<1>2. A \in SUBSET B /\ j \in B /\ j \notin A
  <2>1. j <= j /\ ~(j <= i) /\ \A k \in P : k <= i => k <= j
    BY <1>1
  <2>. QED BY <2>1, Zenon
<1>3. IsFiniteSet(A) /\ IsFiniteSet(B)
  BY <1>1, RankType
<1>4. Rank(P, i) = Cardinality(A) /\ Rank(P, j) = Cardinality(B)
  BY DEF Rank
<1> HIDE DEF A, B
<1>5. Cardinality(A) <= Cardinality(B) /\ Cardinality(A) # Cardinality(B)
  BY <1>2, <1>3, FS_Subset
<1>. QED BY <1>3, <1>4, <1>5, FS_CardinalityType

\* The k-th place is one, with k places up to it, and each place is the one of its rank.
LEMMA NthIsPlace ==
  ASSUME NEW n \in Nat, NEW P, Places(P, n), NEW k \in 1..Cardinality(P)
  PROVE  Nth(P, k) \in P /\ Rank(P, Nth(P, k)) = k
<1> DEFINE T == {i \in Nat : Rank(P, i) >= k}
           m == Min(T)
<1>0. Cardinality(P) \in Nat
  BY FS_CardinalityType DEF Places
<1>1. n \in T
  BY <1>0, RankEnds
<1>2. m \in T /\ \A y \in T : m <= y
  BY <1>1, Least
<1> HIDE DEF m
<1>3. m \in Nat /\ Rank(P, m) >= k
  BY <1>2
<1>4. m # 0
  BY <1>0, <1>3, RankEnds
<1>5. m - 1 \in Nat /\ m - 1 \notin T /\ (m - 1) + 1 = m
  BY <1>2, <1>3, <1>4
<1>6. Rank(P, m - 1) \in Nat /\ Rank(P, m) \in Nat
  <2>1. Rank(P, m - 1) \in 0..Cardinality(P) /\ Rank(P, m) \in 0..Cardinality(P)
    BY <1>3, <1>5, RankType
  <2>. QED BY <1>0, <2>1
<1>7. Rank(P, m - 1) < k
  BY <1>0, <1>5, <1>6
<1>8. Rank(P, m) = IF m \in P THEN Rank(P, m - 1) + 1 ELSE Rank(P, m - 1)
  <2>1. Rank(P, (m - 1) + 1) = IF (m - 1) + 1 \in P THEN Rank(P, m - 1) + 1 ELSE Rank(P, m - 1)
    BY <1>5, RankGrows
  <2>. QED BY <1>5, <2>1
<1> HIDE DEF T
<1>9. m \in P /\ Rank(P, m) = k
  BY <1>0, <1>3, <1>6, <1>7, <1>8
<1>. QED BY <1>9 DEF Nth

LEMMA PlaceIsNth ==
  ASSUME NEW n \in Nat, NEW P, Places(P, n), NEW i \in P
  PROVE  Rank(P, i) \in 1..Cardinality(P) /\ Nth(P, Rank(P, i)) = i
<1>0. P \in SUBSET Nat /\ i \in Nat
  BY DEF Places
<1>1. Rank(P, i) \in 0..Cardinality(P) /\ Cardinality(P) \in Nat /\ IsFiniteSet({j \in P : j <= i})
  BY <1>0, RankType
<1>2. Rank(P, i) # 0
  <2>1. i \in {j \in P : j <= i}
    BY <1>0
  <2>. QED BY <1>1, <2>1, FS_EmptySet DEF Rank
<1>3. Rank(P, i) \in 1..Cardinality(P)
  BY <1>1, <1>2
<1>4. Nth(P, Rank(P, i)) \in P /\ Rank(P, Nth(P, Rank(P, i))) = Rank(P, i)
  BY <1>3, NthIsPlace
<1>5. ASSUME NEW a \in P, Rank(P, a) = Rank(P, i) PROVE a = i
  <2>1. a \in Nat /\ Rank(P, a) \in Nat
    BY <1>0, <1>1, <1>5
  <2>2. ~(a < i)
    <3>1. a < i => Rank(P, a) < Rank(P, i)
      BY RankTellsApart
    <3>. QED BY <1>5, <2>1, <3>1
  <2>3. ~(i < a)
    <3>1. i < a => Rank(P, i) < Rank(P, a)
      BY RankTellsApart
    <3>. QED BY <1>5, <2>1, <3>1
  <2>. QED BY <1>0, <2>1, <2>2, <2>3
<1>. QED BY <1>3, <1>4, <1>5

\* The places from m + 1 to m + l.
LEMMA NthOfInterval ==
  ASSUME NEW m \in Nat, NEW l \in Nat
  PROVE  /\ Cardinality(m + 1..m + l) = l
         /\ \A k \in 1..l : Nth(m + 1..m + l, k) = m + k
<1> DEFINE P == m + 1..m + l
<1>1. Cardinality(P) = l
  BY FS_Interval
<1>2. ASSUME NEW k \in 1..l PROVE Nth(P, k) = m + k
  <2>1. {j \in P : j <= m + k} = m + 1..m + k
    OBVIOUS
  <2>2. m + 1 \in Int /\ m + k \in Int /\ Cardinality(m + 1..m + k) = k
    BY FS_Interval
  <2>3. Rank(P, m + k) = k
    BY <2>1, <2>2 DEF Rank
  <2>4. m + k \in P /\ P \subseteq 1..m + l /\ m + l \in Nat
    OBVIOUS
  <2> HIDE DEF P
  <2>5. Places(P, m + l)
    BY <2>4, ArePlaces
  <2>. QED BY <2>3, <2>4, <2>5, PlaceIsNth
<1>. QED BY <1>1, <1>2

\* What is kept of a sequence: its elements at those places.
LEMMA KeptType ==
  ASSUME NEW S, NEW s \in Seq(S), NEW P, P \subseteq DOMAIN s
  PROVE  /\ Cardinality(P) \in Nat
         /\ Kept(s, P) \in Seq(S) /\ Len(Kept(s, P)) = Cardinality(P)
         /\ \A k \in 1..Cardinality(P) : Nth(P, k) \in P /\ Kept(s, P)[k] = s[Nth(P, k)]
<1>1. Len(s) \in Nat /\ Places(P, Len(s)) /\ DOMAIN s = 1..Len(s)
  BY ArePlaces
<1>2. Cardinality(P) \in Nat
  BY <1>1, FS_CardinalityType DEF Places
<1>3. \A k \in 1..Cardinality(P) : Nth(P, k) \in P
  BY <1>1, NthIsPlace
<1>4. Kept(s, P) = [k \in 1..Cardinality(P) |-> s[Nth(P, k)]]
  BY DEF Kept
<1>5. \A k \in 1..Cardinality(P) : s[Nth(P, k)] \in S
  BY <1>3
<1>6. Kept(s, P) \in Seq(S) /\ Len(Kept(s, P)) = Cardinality(P)
  BY <1>2, <1>4, <1>5
<1>. QED BY <1>2, <1>3, <1>4, <1>6

\* A sequence of which everything is kept, and one behind another.
LEMMA KeptAll ==
  ASSUME NEW l \in Nat, NEW s, s = [i \in 1..l |-> s[i]]
  PROVE  Kept(s, 1..l) = s
<1>1. Cardinality(0 + 1..0 + l) = l /\ \A k \in 1..l : Nth(0 + 1..0 + l, k) = 0 + k
  BY NthOfInterval
<1>2. 0 + 1..0 + l = 1..l /\ \A k \in 1..l : 0 + k = k
  OBVIOUS
<1>3. Cardinality(1..l) = l /\ \A k \in 1..l : Nth(1..l, k) = k
  BY <1>1, <1>2
<1>4. Kept(s, 1..l) = [k \in 1..l |-> s[k]]
  BY <1>3 DEF Kept
<1>. QED BY <1>4

LEMMA KeptBehind ==
  ASSUME NEW S, NEW a \in Seq(S), NEW b \in Seq(S)
  PROVE  Kept(a \o b, Len(a) + 1..Len(a) + Len(b)) = b
<1> DEFINE P == Len(a) + 1..Len(a) + Len(b)
<1>1. Cardinality(P) = Len(b) /\ \A k \in 1..Len(b) : Nth(P, k) = Len(a) + k
  BY NthOfInterval
<1> HIDE DEF P
<1>2. Kept(a \o b, P) = [k \in 1..Len(b) |-> (a \o b)[Nth(P, k)]]
  BY <1>1 DEF Kept
<1>3. \A k \in 1..Len(b) : (a \o b)[Nth(P, k)] = b[k]
  BY <1>1
<1>4. Kept(a \o b, P) = [k \in 1..Len(b) |-> b[k]]
  BY <1>2, <1>3, Zenon
<1>5. b = [k \in 1..Len(b) |-> b[k]]
  OBVIOUS
<1>. QED BY <1>4, <1>5 DEF P

LEMMA KeptFront ==
  ASSUME NEW S, NEW a \in Seq(S), NEW b \in Seq(S)
  PROVE  Kept(a \o b, 1..Len(a)) = a
<1> DEFINE P == 0 + 1..0 + Len(a)
<1>1. Cardinality(P) = Len(a) /\ \A k \in 1..Len(a) : Nth(P, k) = 0 + k
  BY NthOfInterval
<1>2. P = 1..Len(a) /\ \A k \in 1..Len(a) : 0 + k = k
  OBVIOUS
<1> HIDE DEF P
<1>3. Kept(a \o b, P) = [k \in 1..Len(a) |-> (a \o b)[Nth(P, k)]]
  BY <1>1 DEF Kept
<1>4. \A k \in 1..Len(a) : (a \o b)[Nth(P, k)] = a[k]
  BY <1>1, <1>2
<1>5. Kept(a \o b, P) = [k \in 1..Len(a) |-> a[k]]
  BY <1>3, <1>4, Zenon
<1>6. a = [k \in 1..Len(a) |-> a[k]]
  OBVIOUS
<1>. QED BY <1>2, <1>5, <1>6

-----------------------------------------------------------------------------
(* What the commands print. *)

Firsts(ns) == [i \in DOMAIN ns |-> FirstOf(ns[i])]
OthersOf(es) == Kept(es, {i \in DOMAIN es : es[i][1] # Super})
LogicalOf(es) == Kept(es, {i \in DOMAIN es : es[i][1] = Super})
Names(es) == [i \in DOMAIN es |-> es[i][2]]

\* The first partition of a name in the GPT table.
LEMMA FirstIsNamed ==
  ASSUME NEW n, Positions(n) # {}
  PROVE  FirstOf(n) \in Disk \X Name /\ FirstOf(n)[2] = n
<1>1. Positions(n) \in SUBSET Nat /\ Classic \in Seq(Disk \X Name)
  BY DynamicAssumption DEF Positions
<1>2. Min(Positions(n)) \in Positions(n)
  BY <1>1, Least
<1>. QED BY <1>1, <1>2 DEF FirstOf, Positions

\* info and sizeof: the first part of what is printed is on disks, the second on super.
LEMMA InfoCovers ==
  ASSUME NEW ns \in Seq(Name), \A n \in ToSet(ns) : Known(n)
  PROVE  /\ Names(LogicalOf(PrintedOf(ns))) = ListedBy("dynamic", ns)
         /\ OthersOf(PrintedOf(ns)) = Firsts(ListedBy("classic", ns))
         /\ \A n \in ToSet(ns) : n \in ToSet(Names(PrintedOf(ns)))
<1> DEFINE C == {i \in DOMAIN ns : Lists("classic", ns[i])}
           Q == {i \in DOMAIN ns : Lists("dynamic", ns[i])}
           D == Kept(ns, C)
           A == Firsts(D)
           L == Kept(ns, Q)
           B == OnSuper(L)
           S == (Disk \cup {Super}) \X Name
<1>1. PrintedOf(ns) = A \o B /\ D = ListedBy("classic", ns) /\ L = ListedBy("dynamic", ns)
  BY DEF PrintedOf, ListedBy, Firsts
<1>2. /\ Cardinality(C) \in Nat /\ D \in Seq(Name) /\ Len(D) = Cardinality(C)
      /\ \A k \in 1..Cardinality(C) : Nth(C, k) \in C /\ D[k] = ns[Nth(C, k)]
  <2>1. C \subseteq DOMAIN ns
    OBVIOUS
  <2> HIDE DEF C
  <2>. QED BY <2>1, KeptType
<1>3. /\ Cardinality(Q) \in Nat /\ L \in Seq(Name) /\ Len(L) = Cardinality(Q)
      /\ \A k \in 1..Cardinality(Q) : Nth(Q, k) \in Q /\ L[k] = ns[Nth(Q, k)]
  <2>1. Q \subseteq DOMAIN ns
    OBVIOUS
  <2> HIDE DEF Q
  <2>. QED BY <2>1, KeptType
<1>4. \A k \in 1..Cardinality(C) : FirstOf(D[k]) \in Disk \X Name /\ FirstOf(D[k])[2] = D[k]
  BY <1>2, FirstIsNamed DEF Lists
<1>5. /\ A \in Seq(Disk \X Name) /\ Len(A) = Cardinality(C)
      /\ \A k \in 1..Cardinality(C) : A[k][2] = ns[Nth(C, k)] /\ A[k][1] \in Disk
  <2>1. DOMAIN D = 1..Cardinality(C)
    BY <1>2
  <2>2. A = [k \in 1..Cardinality(C) |-> FirstOf(D[k])]
    BY <2>1 DEF Firsts
  <2> HIDE DEF C, D, A
  <2>3. A \in Seq(Disk \X Name) /\ Len(A) = Cardinality(C)
    BY <1>2, <1>4, <2>2
  <2>4. \A k \in 1..Cardinality(C) : A[k][2] = ns[Nth(C, k)]
    BY <1>2, <1>4, <2>2
  <2>5. \A k \in 1..Cardinality(C) : A[k][1] \in Disk
    BY <1>4, <2>2
  <2>. QED BY <2>3, <2>4, <2>5
<1>6. /\ B \in Seq({Super} \X Name) /\ Len(B) = Cardinality(Q)
      /\ \A k \in 1..Cardinality(Q) : B[k] = <<Super, L[k]>>
  <2>1. DOMAIN L = 1..Cardinality(Q)
    BY <1>3
  <2>2. \A k \in 1..Cardinality(Q) : L[k] \in Name
    BY <1>3
  <2>3. B = [k \in 1..Cardinality(Q) |-> <<Super, L[k]>>]
    BY <2>1 DEF OnSuper
  <2> HIDE DEF Q, L, B
  <2>. QED BY <1>3, <2>2, <2>3
<1>7. A \in Seq(S) /\ B \in Seq(S) /\ Super \notin Disk
  BY <1>5, <1>6, DynamicAssumption
<1> HIDE DEF A, B, C, D, L, Q, S
<1>8. {i \in DOMAIN (A \o B) : (A \o B)[i][1] = Super} = Len(A) + 1..Len(A) + Len(B)
  <2>1. /\ Len(A \o B) = Len(A) + Len(B) /\ DOMAIN (A \o B) = 1..Len(A) + Len(B)
        /\ Len(A) \in Nat /\ Len(B) \in Nat
    BY <1>7
  <2>2. ASSUME NEW i \in 1..Len(A) PROVE (A \o B)[i][1] # Super
    BY <1>2, <1>5, <1>7, <2>2
  <2>3. ASSUME NEW i \in Len(A) + 1..Len(A) + Len(B) PROVE (A \o B)[i][1] = Super
    <3>1. i - Len(A) \in 1..Cardinality(Q) /\ (A \o B)[i] = B[i - Len(A)]
      BY <1>3, <1>6, <1>7, <2>1
    <3>. QED BY <1>6, <3>1
  <2>. QED BY <2>1, <2>2, <2>3
<1>9. LogicalOf(PrintedOf(ns)) = B
  <2>1. Kept(A \o B, Len(A) + 1..Len(A) + Len(B)) = B
    BY <1>7, KeptBehind
  <2>. QED BY <1>1, <1>8, <2>1 DEF LogicalOf
<1>10. Names(B) = L
  BY <1>3, <1>6 DEF Names
<1>11. OthersOf(PrintedOf(ns)) = A
  <2>1. DOMAIN (A \o B) = 1..Len(A) + Len(B) /\ Len(A) \in Nat /\ Len(B) \in Nat
    BY <1>7
  <2>2. \A i \in DOMAIN (A \o B) : (A \o B)[i][1] # Super <=> i \notin Len(A) + 1..Len(A) + Len(B)
    BY <1>8
  <2>3. {i \in DOMAIN (A \o B) : (A \o B)[i][1] # Super} = 1..Len(A)
    BY <2>1, <2>2
  <2>4. Kept(A \o B, 1..Len(A)) = A
    BY <1>7, KeptFront
  <2>. QED BY <1>1, <2>3, <2>4 DEF OthersOf
<1>12. ASSUME NEW n \in ToSet(ns) PROVE n \in ToSet(Names(A \o B))
  <2>1. PICK i \in DOMAIN ns : ns[i] = n
    BY DEF ToSet
  <2>2. Len(ns) \in Nat /\ Places(C, Len(ns)) /\ Places(Q, Len(ns))
    BY ArePlaces DEF C, Q
  <2>3. \A k \in DOMAIN (A \o B) : (A \o B)[k][2] \in ToSet(Names(A \o B))
    BY DEF ToSet, Names
  <2>4. CASE i \in C
    <3>1. Rank(C, i) \in 1..Cardinality(C) /\ Nth(C, Rank(C, i)) = i
      BY <2>2, <2>4, PlaceIsNth
    <3>2. Rank(C, i) \in DOMAIN (A \o B) /\ (A \o B)[Rank(C, i)] = A[Rank(C, i)]
      BY <1>2, <1>5, <1>7, <3>1
    <3>. QED BY <1>5, <2>1, <2>3, <3>1, <3>2
  <2>5. CASE i \in Q
    <3>1. Rank(Q, i) \in 1..Cardinality(Q) /\ Nth(Q, Rank(Q, i)) = i
      BY <2>2, <2>5, PlaceIsNth
    <3>2. /\ Len(A) + Rank(Q, i) \in DOMAIN (A \o B)
          /\ (A \o B)[Len(A) + Rank(Q, i)] = B[Rank(Q, i)]
      BY <1>3, <1>6, <1>7, <3>1
    <3>. QED BY <1>3, <1>6, <2>1, <2>3, <3>1, <3>2
  <2>. QED BY <2>1, <2>4, <2>5 DEF Known, C, Q
<1>. QED BY <1>1, <1>9, <1>10, <1>11, <1>12 DEF A

\* real-path: each partition that is printed is the one named at its place.
LEMMA PathIsNamed ==
  ASSUME NEW n, NEW byName, Correct(n) # None, NEW e \in Paths(n, byName)
  PROVE  /\ e[2] = n /\ (e[1] = Super <=> Correct(n) = "dynamic") /\ (Correct(n) = "dynamic" <=> Lists("dynamic", n))
         /\ e[1] = Super \/ e \in ToSet(Classic) \/ (e[1] = None /\ byName)
<1>1. Correct(n) = IF Lists("dynamic", n) THEN "dynamic" ELSE "classic"
  BY DEF Correct
<1>2. CASE Lists("dynamic", n)
  BY <1>1, <1>2 DEF Setup, Paths
<1>3. CASE ~Lists("dynamic", n) /\ e \in Selectable(n)
  <2>1. PICK i \in DOMAIN Classic : e = Classic[i] /\ Classic[i][2] = n
    BY <1>3 DEF Selectable, Positions
  <2>2. Classic[i] \in Disk \X Name /\ Super \notin Disk
    BY DynamicAssumption
  <2>3. e \in ToSet(Classic)
    BY <2>1 DEF ToSet
  <2>. QED BY <1>1, <1>3, <2>1, <2>2, <2>3
<1>4. CASE ~Lists("dynamic", n) /\ e \notin Selectable(n)
  <2>1. e = <<None, n>> /\ byName /\ None # Super
    BY <1>1, <1>4, DynamicAssumption DEF Setup, Paths
  <2>. QED BY <1>1, <1>4, <2>1
<1>. QED BY <1>2, <1>3, <1>4

\* What real-path says of each name: its path, or with --by-name nothing.
Pathed(es, byName) == \A e \in ToSet(es) : e[1] = Super \/ e \in ToSet(Classic) \/ (e[1] = None /\ byName)

LEMMA RealPathCovers ==
  ASSUME NEW ns \in Seq(Name), NEW l \in 0..Len(ns), NEW byName,
         NEW es \in Selections([i \in 1..l |-> Paths(ns[i], byName)]),
         \A i \in 1..l : Correct(ns[i]) # None
  PROVE  /\ l = Len(ns) => Names(es) = ns /\ Names(LogicalOf(es)) = ListedBy("dynamic", ns)
         /\ (\A i \in 1..l : Correct(ns[i]) = "dynamic") => LogicalOf(es) = es
         /\ Pathed(es, byName)
<1>1. l \in Nat /\ es = [i \in 1..l |-> es[i]] /\ DOMAIN es = 1..l /\ \A i \in 1..l : es[i] \in Paths(ns[i], byName)
  BY DEF Selections
<1>2. \A i \in 1..l : es[i][2] = ns[i] /\ (es[i][1] = Super <=> Lists("dynamic", ns[i]))
  BY <1>1, PathIsNamed
<1>3. ASSUME \A i \in 1..l : Correct(ns[i]) = "dynamic" PROVE LogicalOf(es) = es
  <2>1. \A i \in 1..l : es[i][1] = Super
    BY <1>1, <1>3, PathIsNamed
  <2>2. {i \in DOMAIN es : es[i][1] = Super} = 1..l
    BY <1>1, <2>1
  <2>. QED BY <1>1, <2>2, KeptAll DEF LogicalOf
<1>4. ASSUME l = Len(ns) PROVE Names(es) = ns /\ Names(LogicalOf(es)) = ListedBy("dynamic", ns)
  <2> DEFINE P == {i \in DOMAIN ns : Lists("dynamic", ns[i])}
  <2>1. DOMAIN ns = 1..l /\ ns = [i \in 1..l |-> ns[i]]
    BY <1>4
  <2>2. Names(es) = ns
    BY <1>1, <1>2, <2>1 DEF Names
  <2>3. {i \in DOMAIN es : es[i][1] = Super} = P
    BY <1>1, <1>2, <2>1
  <2>4. P \subseteq DOMAIN ns
    OBVIOUS
  <2> HIDE DEF P
  <2>5. Cardinality(P) \in Nat /\ \A k \in 1..Cardinality(P) : Nth(P, k) \in 1..l
    BY <2>1, <2>4, KeptType
  <2>6. LogicalOf(es) = [k \in 1..Cardinality(P) |-> es[Nth(P, k)]]
    BY <2>3 DEF LogicalOf, Kept
  <2>7. ListedBy("dynamic", ns) = [k \in 1..Cardinality(P) |-> ns[Nth(P, k)]]
    BY DEF ListedBy, Kept, P
  <2>8. Names(LogicalOf(es)) = [k \in 1..Cardinality(P) |-> es[Nth(P, k)][2]]
    BY <2>6 DEF Names
  <2>. QED BY <1>2, <2>2, <2>5, <2>7, <2>8
<1>5. Pathed(es, byName)
  BY <1>1, PathIsNamed DEF Pathed, ToSet
<1>. QED BY <1>3, <1>4, <1>5

\* What AnswersCoverAll asks of one answer of a command.
Covers(fn, asked, printed, result) ==
  fn \in Asks =>
    /\ result = "ok" =>
         /\ Names(LogicalOf(printed)) = ListedBy("dynamic", asked)
         /\ \A n \in ToSet(asked) : n \in ToSet(Names(printed))
         /\ fn = "info" => OthersOf(printed) = Firsts(ListedBy("classic", asked))
         /\ fn # "info" => Names(printed) = asked /\ Pathed(printed, fn = "real-path --by-name")
    /\ fn = "real-path -l" => LogicalOf(printed) = printed

\* A step whose answer, if it is one of the four, covers what was asked.
Complete ==
  \/ phase' = "crashed"
  \/ reply'.fn \notin Asks
  \/ /\ table' = table
     /\ Covers(reply'.fn, reply'.asked, reply'.printed, reply'.result)

LEMMA CompleteCovers == ASSUME Complete PROVE AnswersCoverAll'
<1>1. CASE phase' = "crashed" \/ reply'.fn \notin Asks
  BY <1>1 DEF AnswersCoverAll, Asks
<1>2. CASE table' = table /\ Covers(reply'.fn, reply'.asked, reply'.printed, reply'.result)
  <2>1. /\ ListedBy("dynamic", reply.asked)' = ListedBy("dynamic", reply'.asked)
        /\ ListedBy("classic", reply.asked)' = ListedBy("classic", reply'.asked)
    BY <1>2 DEF ListedBy, Lists, Has, NoTable
  <2>2. AnswersCoverAll' <=>
          (phase' = "run" /\ reply'.fn \in Asks =>
            /\ reply'.result = "ok" =>
                 /\ Names(LogicalOf(reply'.printed)) = ListedBy("dynamic", reply.asked)'
                 /\ \A n \in ToSet(reply'.asked) : n \in ToSet(Names(reply'.printed))
                 /\ reply'.fn = "info" => OthersOf(reply'.printed) = Firsts(ListedBy("classic", reply.asked)')
                 /\ reply'.fn # "info" =>
                      Names(reply'.printed) = reply'.asked /\ Pathed(reply'.printed, reply'.fn = "real-path --by-name")
            /\ reply'.fn = "real-path -l" => LogicalOf(reply'.printed) = reply'.printed)
    BY Zenon DEF AnswersCoverAll, LogicalOf, OthersOf, Names, Firsts, Pathed, FirstOf, Positions, Asks
  <2>. QED BY <1>2, <2>1, <2>2, Zenon DEF Covers
<1>. QED BY <1>1, <1>2 DEF Complete

\* A printed answer that covers what was asked, and one of another call.
LEMMA PrintsComplete ==
  ASSUME NEW fn, NEW asked, NEW printed, NEW result,
         Prints(fn, asked, printed, result), Covers(fn, asked, printed, result)
  PROVE  Complete
<1>1. /\ reply'.fn = fn /\ reply'.asked = asked /\ reply'.printed = printed /\ reply'.result = result
      /\ table' = table
  BY DEF Prints
<1>. QED BY <1>1 DEF Complete

\* An answer that breaks off succeeds in nothing.
LEMMA InfoBreaksOff ==
  ASSUME NEW fn, fn # "real-path -l", NEW ns, NEW es, BreaksOff(fn, ns, es)
  PROVE  Complete
<1>1. PICK k \in 1..Len(es) : Prints(fn, ns, SubSeq(es, 1, k - 1), "error")
  BY DEF BreaksOff
<1>2. Covers(fn, ns, SubSeq(es, 1, k - 1), "error")
  BY DEF Covers
<1>. QED BY <1>1, <1>2, PrintsComplete

\* info and sizeof print nothing before every name is known.
LEMMA InfoComplete == ASSUME NEW ns \in Asked, InfoOf(ns) PROVE Complete
<1>1. ns \in Seq(Name)
  BY DynamicAssumption
<1>2. \/ Crash("info", Main)
      \/ Prints("info", ns, <<>>, "error")
      \/ (\A n \in ToSet(ns) : Known(n)) /\ Prints("info", ns, PrintedOf(ns), "ok")
      \/ BreaksOff("info", ns, PrintedOf(ns))
  BY Zenon DEF InfoOf
<1>3. ASSUME Crash("info", Main) PROVE Complete
  BY <1>3 DEF Crash, Complete
<1>4. ASSUME Prints("info", ns, <<>>, "error") PROVE Complete
  <2>1. Covers("info", ns, <<>>, "error")
    BY DEF Covers
  <2>. QED BY <1>4, <2>1, PrintsComplete
<1>5. ASSUME \A n \in ToSet(ns) : Known(n), Prints("info", ns, PrintedOf(ns), "ok") PROVE Complete
  <2>1. Covers("info", ns, PrintedOf(ns), "ok")
    BY <1>1, <1>5, InfoCovers DEF Covers
  <2>. QED BY <1>5, <2>1, PrintsComplete
<1>6. ASSUME BreaksOff("info", ns, PrintedOf(ns)) PROVE Complete
  BY <1>6, InfoBreaksOff
<1>. QED BY <1>2, <1>3, <1>4, <1>5, <1>6

\* real-path, up to the first name it refuses: with -l and without force that is at the latest
\* the first which is not in the dynamic table.
LEMMA RealPathComplete ==
  ASSUME NEW ns \in Asked, NEW logical \in BOOLEAN, NEW force \in BOOLEAN, NEW byName \in BOOLEAN,
         RealPath(ns, logical, force, byName)
  PROVE  Complete
<1> DEFINE only == logical /\ ~force
           Refused(n) == Correct(n) = None \/ (only /\ Correct(n) = "classic") \/ NoLink(n, byName)
           Stops == {i \in DOMAIN ns : Refused(ns[i]) \/ Dangling(ns[i])}
           last == IF Stops = {} THEN Len(ns) ELSE Min(Stops) - 1
           fn == IF only THEN "real-path -l" ELSE IF byName THEN "real-path --by-name" ELSE "real-path"
           result(k) == IF k = Len(ns) THEN "ok" ELSE "error"
<1>1. ns \in Seq(Name) /\ Len(ns) \in Nat /\ DOMAIN ns = 1..Len(ns)
  BY DynamicAssumption
<1>2. \/ Crash("real-path", Main)
      \/ \E k \in 0..last : \E es \in Selections([i \in 1..k |-> Paths(ns[i], byName)]) : Prints(fn, ns, es, result(k))
  BY Zenon DEF RealPath
<1>3. last \in 0..Len(ns) /\ \A i \in 1..last : i \in DOMAIN ns /\ i \notin Stops
  <2>1. CASE Stops = {}
    BY <1>1, <2>1
  <2>2. CASE Stops # {}
    <3>1. Stops \in SUBSET Nat /\ Stops \subseteq 1..Len(ns)
      BY <1>1
    <3>2. Min(Stops) \in Stops /\ \A y \in Stops : Min(Stops) <= y
      BY <2>2, <3>1, Least
    <3>3. last = Min(Stops) - 1
      BY <2>2
    <3> HIDE DEF Stops, last
    <3>4. Min(Stops) \in 1..Len(ns)
      BY <3>1, <3>2
    <3>5. \A i \in 1..last : i \in 1..Len(ns) /\ ~(Min(Stops) <= i)
      BY <1>1, <3>3, <3>4
    <3>. QED BY <1>1, <3>2, <3>3, <3>4, <3>5
  <2>. QED BY <2>1, <2>2
<1>4. \A i \in 1..last : Correct(ns[i]) # None /\ (fn = "real-path -l" => Correct(ns[i]) = "dynamic")
  <2>1. \A n : Correct(n) \in {None, "dynamic", "classic"}
    BY DEF Correct
  <2>2. fn = "real-path -l" => only
    OBVIOUS
  <2> HIDE DEF last, fn
  <2>. QED BY <1>3, <2>1, <2>2
<1>5. fn \in {"real-path", "real-path -l", "real-path --by-name"} /\ (byName => fn # "real-path")
  OBVIOUS
<1> HIDE DEF last, Stops
<1>6. ASSUME NEW k \in 0..last, NEW es \in Selections([i \in 1..k |-> Paths(ns[i], byName)]),
             Prints(fn, ns, es, result(k))
      PROVE  Complete
  <2>1. k \in 0..Len(ns) /\ \A i \in 1..k : i \in 1..last
    BY <1>1, <1>3
  <2>2. /\ k = Len(ns) => Names(es) = ns /\ Names(LogicalOf(es)) = ListedBy("dynamic", ns)
        /\ (\A i \in 1..k : Correct(ns[i]) = "dynamic") => LogicalOf(es) = es
        /\ Pathed(es, byName)
    BY <1>1, <1>4, <2>1, RealPathCovers
  <2>3. result(k) = "ok" => k = Len(ns)
    OBVIOUS
  <2>4. fn = "real-path -l" => LogicalOf(es) = es
    <3> HIDE DEF fn
    <3>. QED BY <1>4, <2>1, <2>2
  <2>5. Pathed(es, fn = "real-path --by-name")
    <3>1. CASE byName /\ ~only
      BY <2>2, <3>1
    <3>2. CASE ~byName
      BY <2>2, <3>2 DEF Pathed
    <3>3. CASE only
      <4>1. \A i \in 1..k : Correct(ns[i]) = "dynamic"
        <5>1. fn = "real-path -l"
          BY <3>3
        <5> HIDE DEF fn
        <5>. QED BY <1>4, <2>1, <5>1
      <4>2. \A e \in ToSet(es) : e[1] = Super
        <5>1. DOMAIN es = 1..k /\ \A i \in 1..k : es[i] \in Paths(ns[i], byName)
          BY DEF Selections
        <5>2. \A i \in 1..k : es[i][1] = Super
          BY <1>4, <2>1, <4>1, <5>1, PathIsNamed
        <5>. QED BY <5>1, <5>2 DEF ToSet
      <4>. QED BY <4>2 DEF Pathed
    <3>. QED BY <3>1, <3>2, <3>3
  <2> HIDE DEF fn, result
  <2>6. Covers(fn, ns, es, result(k))
    BY <1>5, <2>2, <2>3, <2>4, <2>5 DEF Covers
  <2>. QED BY <1>6, <2>6, PrintsComplete
<1>7. ASSUME Crash("real-path", Main) PROVE Complete
  BY <1>7 DEF Crash, Complete
<1> HIDE DEF fn, result
<1>. QED BY <1>2, <1>6, <1>7, Zenon

\* Every other step says something of another call, or crashes.
LEMMA SaysComplete ==
  ASSUME NEW fn, fn \notin Asks, NEW o, NEW result, Says(fn, o, result)
  PROVE  Complete
BY DEF Says, Complete

LEMMA CrashComplete == ASSUME NEW fn, NEW o, Crash(fn, o) PROVE Complete
BY DEF Crash, Complete

LEMMA LibraryComplete ==
  ASSUME NEW o \in Object,
         \/ Start \/ Create(o) \/ ReScan(o) \/ Clear(o) \/ Destroy(o)
         \/ \E other \in Object : Copy(o, other) \/ Move(o, other)
         \/ Partitions(o) \/ Metadata(o) \/ FreeSpace(o) \/ Valid(o) \/ Sync(o)
         \/ \E n \in Name : HasPartition(o, n)
         \/ \E ns \in Asked : ForEachFor(o, ns)
         \/ \E g \in Group : FreeSpaceOf(o, g)
  PROVE  Complete
<1> DEFINE Calls == {"start", "create", "reScan", "clear", "destroy", "copy", "move", "partitions", "metadata",
                     "freeSpace", "freeSpaceOf", "valid", "sync", "hasPartition", "forEachFor"}
           Speaks == \E fn \in Calls : \E p, result : Says(fn, p, result)
           Crashes == \E fn, p : Crash(fn, p)
<1>1. ASSUME Speaks \/ Crashes PROVE Complete
  <2>1. \A fn \in Calls : fn \notin Asks
    BY DEF Asks
  <2> HIDE DEF Calls
  <2>. QED BY <1>1, <2>1, SaysComplete, CrashComplete, Zenon
<1>2. ASSUME NEW fn \in Calls, NEW p, NEW result, Answer(fn, p, result) \/ Reads(fn, p, result)
      PROVE  Speaks \/ Crashes
  <2> HIDE DEF Calls
  <2>. QED BY <1>2, Zenon DEF Answer, Reads
<1>3. /\ "start" \in Calls /\ "create" \in Calls /\ "reScan" \in Calls /\ "clear" \in Calls
      /\ "destroy" \in Calls /\ "copy" \in Calls /\ "move" \in Calls
  OBVIOUS
<1>4. /\ "partitions" \in Calls /\ "metadata" \in Calls /\ "freeSpace" \in Calls /\ "freeSpaceOf" \in Calls
      /\ "valid" \in Calls /\ "sync" \in Calls /\ "hasPartition" \in Calls /\ "forEachFor" \in Calls
  OBVIOUS
<1> HIDE DEF Calls
<1>5. CASE Start \/ Create(o) \/ ReScan(o)
  BY <1>1, <1>3, <1>5, Zenon DEF Start, Create, ReScan
<1>6. CASE Clear(o) \/ Destroy(o)
  BY <1>1, <1>3, <1>6, Zenon DEF Clear, Destroy
<1>7. CASE \E other \in Object : Copy(o, other) \/ Move(o, other)
  BY <1>1, <1>3, <1>7, Zenon DEF Copy, CopyThrows, Move
<1>8. CASE Partitions(o) \/ Metadata(o) \/ FreeSpace(o) \/ Sync(o)
  BY <1>1, <1>2, <1>4, <1>8, Zenon DEF Partitions, Metadata, FreeSpace, Sync, SizeThrows
<1>9. CASE Valid(o)
  BY <1>1, <1>2, <1>4, <1>9, Zenon DEF Valid, SizeThrows
<1>10. ASSUME NEW n \in Name, HasPartition(o, n) PROVE Complete
  BY <1>1, <1>2, <1>4, <1>10, Zenon DEF HasPartition
<1>11. ASSUME NEW ns \in Asked, ForEachFor(o, ns) PROVE Complete
  BY <1>1, <1>2, <1>4, <1>11, Zenon DEF ForEachFor
<1>12. ASSUME NEW g \in Group, FreeSpaceOf(o, g) PROVE Complete
  BY <1>1, <1>2, <1>4, <1>12, Zenon DEF FreeSpaceOf
<1>. QED BY <1>5, <1>6, <1>7, <1>8, <1>9, <1>10, <1>11, <1>12

LEMMA CommandsComplete == ASSUME Command PROVE Complete
<1>1. ASSUME NEW fn \in {"all", "type", "lp-metadata"}, NEW asked, NEW printed, NEW result, Prints(fn, asked, printed, result)
      PROVE  Complete
  BY <1>1 DEF Prints, Complete, Asks
<1>2. ASSUME NEW ns, NEW keyword, InfoAll(ns, keyword) PROVE Complete
  <2>1. Crash("info", Main) \/ \E printed, result : Prints("all", ns, printed, result)
    BY <1>2, Zenon DEF InfoAll, BreaksOff
  <2>. QED BY <1>1, <2>1, CrashComplete
<1>3. ASSUME NEW cc, Type(cc) PROVE Complete
  <2>1. (\E fn : Crash(fn, Main)) \/ \E printed, result : Prints("type", <<cc>>, printed, result)
    BY <1>3, Zenon DEF Type
  <2>. QED BY <1>1, <2>1, CrashComplete
<1>4. ASSUME NEW ns, LpMetadata(ns) PROVE Complete
  <2>1. Crash("lp-metadata", Main) \/ \E printed, result : Prints("lp-metadata", ns, printed, result)
    BY <1>4, Zenon DEF LpMetadata
  <2>. QED BY <1>1, <2>1, CrashComplete
<1>. QED BY <1>2, <1>3, <1>4, InfoComplete, RealPathComplete, Zenon DEF Command

\* Whatever the tables hold and whatever is asked: a command that succeeds has answered for
\* every name as AnswersCoverAll says, from both tables, and with -l nothing of another table was
\* printed (InfoPlugin.cpp:114-205, RealPathPlugin.cpp:97-118, builder.hpp:96-114,
\* partition.hpp:207-226).
THEOREM AnswersTheorem == Spec => []AnswersCoverAll
<1>1. Init => AnswersCoverAll
  BY DEF Init, AnswersCoverAll, Asks, NoReply
<1>2. AnswersCoverAll /\ [Next]_vars => AnswersCoverAll'
  <2> SUFFICES ASSUME AnswersCoverAll, [Next]_vars PROVE AnswersCoverAll'
    OBVIOUS
  <2>1. CASE Start
    BY <2>1, MainIsObject, LibraryComplete, CompleteCovers
  <2>2. CASE Library
    <3>1. PICK o \in Object :
            \/ Create(o) \/ ReScan(o) \/ Clear(o) \/ Destroy(o)
            \/ \E other \in Object : Copy(o, other) \/ Move(o, other)
            \/ Partitions(o) \/ Metadata(o) \/ FreeSpace(o) \/ Valid(o) \/ Sync(o)
            \/ \E n \in Name : HasPartition(o, n)
            \/ \E ns \in Asked : ForEachFor(o, ns)
            \/ \E g \in Group : FreeSpaceOf(o, g)
      BY <2>2, Zenon DEF Library
    <3>. QED BY <3>1, LibraryComplete, CompleteCovers
  <2>3. CASE Command
    BY <2>3, CommandsComplete, CompleteCovers
  <2>4. CASE GoOn \/ Others
    <3>1. reply' = NoReply
      BY <2>4, Zenon DEF GoOn, Others, SetMapped, Update
    <3>. QED BY <3>1, CompleteCovers DEF Complete, NoReply, Asks
  <2>5. CASE UNCHANGED vars
    <3>1. phase' = phase /\ reply' = reply /\ table' = table
      BY <2>5 DEF vars
    <3>2. /\ ListedBy("dynamic", reply.asked)' = ListedBy("dynamic", reply.asked)
          /\ ListedBy("classic", reply.asked)' = ListedBy("classic", reply.asked)
      BY <3>1 DEF ListedBy, Lists, Has, NoTable
    <3>. QED BY <3>1, <3>2, Zenon DEF AnswersCoverAll
  <2>. QED BY <2>1, <2>2, <2>3, <2>4, <2>5, Zenon DEF Next
<1>. QED BY <1>1, <1>2, PTL DEF Spec
=============================================================================
