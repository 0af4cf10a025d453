-------------------------- MODULE PartitionHandles --------------------------
(***************************************************************************)
(* Partition objects (BasicPartition_t) and the libopenpart handles behind *)
(* them: who owns a handle, which descriptor number it remembers, and what *)
(* that number refers to while objects are made, copied, moved, assigned,  *)
(* renamed and destroyed, and while opening may fail.  closeFdNow() closes *)
(* a number behind the back of its handle, and the kernel may give it to   *)
(* the next open.                                                          *)
(***************************************************************************)
EXTENDS Integers

CONSTANTS
  Obj,        \* places for partition objects
  Handle,     \* memory for openpart_t structures
  Fd,         \* descriptor numbers that the process may still be given
  Device,     \* block devices of partitions, by path
  Unreadable, \* devices that cannot be read
  Null,       \* no handle, and what a closed number refers to
  NoDevice    \* the empty path

ASSUME PartitionHandlesAssumption ==
  /\ Fd \subseteq Nat \ {0}
  /\ Unreadable \subseteq Device
  /\ Null \notin Handle /\ NoDevice \notin Device

VARIABLES
  heap,      \* handles and descriptors, see HeapType
  alive,     \* the objects that are constructed
  obj,       \* their fields
  leaked,    \* history: handles that set() overwrote
  undefined  \* a std::string was made from a null pointer

vars == <<heap, alive, obj, leaked, undefined>>

\* at: the handles, by address; fdt: the kernel's table, what each number refers
\* to, named by the handle that opened it.  shut and reused are history: whose
\* numbers closeFdNow closed, and whether a number was given out again while a
\* handle still remembered it.
OpenPart == [fd : Fd, dev : Device, mode : {"rdwr", "wronly"}, loaded : BOOLEAN]
HeapType == [at : UNION {[S -> OpenPart] : S \in SUBSET Handle}, fdt : [Fd -> Handle \cup {Null}],
             shut : SUBSET Handle, reused : BOOLEAN]

\* renamed is history: the name was set without opening what it names.
Partition == [op : Handle \cup {Null}, name : Device \cup {NoDevice},
              logical : BOOLEAN, renamed : BOOLEAN]
Empty == [op |-> Null, name |-> NoDevice, logical |-> FALSE, renamed |-> FALSE]

TypeOK ==
  /\ heap \in HeapType
  /\ alive \in SUBSET Obj
  /\ obj \in [Obj -> Partition]
  /\ leaked \in SUBSET Handle
  /\ undefined \in BOOLEAN
-----------------------------------------------------------------------------
(* libopenpart *)

Allocated(k) == DOMAIN k.at
Behind(k, h) == k.fdt[k.at[h].fd]
FreeNumbers(k) == {n \in Fd : k.fdt[n] = Null}

\* load_info(): reads the first blocks.
CanRead(k, h) ==
  LET b == Behind(k, h) IN b # Null /\ k.at[b].mode = "rdwr" /\ k.at[b].dev \notin Unreadable

\* QUICK_GET_CONTROLS: every getter loads the information first, once.
Loads(k, h) == h # Null /\ (k.at[h].loaded \/ CanRead(k, h))
AfterLoad(k, h) == IF Loads(k, h) THEN [k EXCEPT !.at[h].loaded = TRUE] ELSE k

\* openpart_get_part_path(): what the number refers to now.
PartPath(k, h) ==
  IF Loads(k, h) /\ Behind(k, h) # Null THEN k.at[Behind(k, h)].dev ELSE NoDevice

LowestFree(k) == {n \in FreeNumbers(k) : \A m \in FreeNumbers(k) : n <= m}

Add(k, h, op) ==
  [k EXCEPT !.at = [x \in Allocated(k) \cup {h} |-> IF x = h THEN op ELSE k.at[x]],
            !.fdt[op.fd] = h,
            !.reused = @ \/ \E x \in Allocated(k) : k.at[x].fd = op.fd]

Failed(k) == [heap |-> k, op |-> Null]

\* openpart_open(): fails, or makes a handle, in any free memory, with the lowest
\* free number.
Opens(k, d, mode) ==
  {Failed(k)} \cup
  {[heap |-> Add(k, h, [fd |-> n, dev |-> d, mode |-> mode, loaded |-> FALSE]), op |-> h] :
     h \in {h \in Handle \ Allocated(k) : d # NoDevice}, n \in LowestFree(k)}

\* openpart_close()
Close(k, h) ==
  IF h = Null THEN k
  ELSE [k EXCEPT !.fdt[k.at[h].fd] = Null,
                 !.at = [x \in Allocated(k) \ {h} |-> k.at[x]],
                 !.shut = @ \ {h}]
-----------------------------------------------------------------------------
(* Construction and destruction *)

Construct(o, p) ==
  /\ o \notin alive
  /\ alive' = alive \cup {o}
  /\ obj' = [obj EXCEPT ![o] = p]

\* A constructor that throws: there is no object.
Throw(o) == o \notin alive /\ UNCHANGED <<alive, obj>>

Named(d, l, op) == [op |-> op, name |-> d, logical |-> l, renamed |-> FALSE]

\* BasicPartition_t()
Default(o) ==
  /\ Construct(o, Empty)
  /\ UNCHANGED <<heap, leaked, undefined>>

\* scan(): the handle, opened or not, goes to the constructor from arguments.
FromArgs(o, d) ==
  /\ \E r \in Opens(heap, d, "rdwr") : heap' = r.heap /\ Construct(o, Named(d, FALSE, r.op))
  /\ UNCHANGED <<leaked, undefined>>

\* BasicPartition_t(data): opens again what data.op refers to; the client closes
\* its own handle afterwards.
FromBasicData(o, d) ==
  /\ \E c \in Opens(heap, d, "rdwr") :
       IF c.op = Null THEN heap' = c.heap /\ Construct(o, Named(d, FALSE, Null))
       ELSE \E r \in Opens(AfterLoad(c.heap, c.op), PartPath(c.heap, c.op), "rdwr") :
              /\ heap' = Close(r.heap, c.op)
              /\ IF r.op = Null THEN Throw(o) ELSE Construct(o, Named(d, FALSE, r.op))
  /\ UNCHANGED <<leaked, undefined>>

\* BasicPartition_t(path), for logical partitions
FromPath(o, d) ==
  /\ \E r \in Opens(heap, d, "rdwr") :
       /\ heap' = r.heap
       /\ IF r.op = Null THEN Throw(o) ELSE Construct(o, Named(d, TRUE, r.op))
  /\ UNCHANGED <<leaked, undefined>>

\* ~BasicPartition_t()
Destroy(o) ==
  /\ o \in alive
  /\ alive' = alive \ {o}
  /\ obj' = [obj EXCEPT ![o] = Empty]
  /\ heap' = Close(heap, obj[o].op)
  /\ UNCHANGED <<leaked, undefined>>
-----------------------------------------------------------------------------
(* Copies and moves *)

\* std::string(openpart_get_part_path(op)) of a null path
NullPath(k, p) == p.op # Null /\ ~p.logical /\ PartPath(k, p.op) = NoDevice

\* The handle of a copy of p.
Reopens(k, p, mode) ==
  IF p.op = Null THEN {Failed(k)}
  ELSE IF p.logical THEN Opens(k, p.name, mode)
  ELSE Opens(AfterLoad(k, p.op), PartPath(k, p.op), mode)

\* What the copy of p is with the handle op: a logical one has opened its name.
CopyOf(p, op) == [p EXCEPT !.op = op, !.renamed = @ /\ ~p.logical]

Crash ==
  /\ undefined' = TRUE
  /\ UNCHANGED <<heap, alive, obj, leaked>>

\* BasicPartition_t(const BasicPartition_t &)
CopyConstruct(o, p) ==
  /\ o \notin alive /\ p \in alive
  /\ IF NullPath(heap, obj[p]) THEN Crash
     ELSE /\ \E r \in Reopens(heap, obj[p], "rdwr") :
               /\ heap' = r.heap
               /\ IF r.op = Null /\ obj[p].op # Null THEN Throw(o)
                  ELSE Construct(o, CopyOf(obj[p], r.op))
          /\ UNCHANGED <<leaked, undefined>>

\* Mutant: the handle that is replaced is not closed.
AssignWithoutClosing(o, p) ==
  /\ {o, p} \subseteq alive /\ o # p /\ ~NullPath(heap, obj[p])
  /\ \E r \in Reopens(heap, obj[p], "wronly") :
       heap' = r.heap /\ obj' = [obj EXCEPT ![o] = CopyOf(obj[p], r.op)]
  /\ UNCHANGED <<alive, leaked, undefined>>

\* operator=(const BasicPartition_t &): closes, then opens with O_RDWR, which
\* openpart_open takes for OP_WRONLY. When that fails it throws, and the object
\* has the fields of p without a handle.
CopyAssign(o, p) ==
  LET k == Close(heap, obj[o].op) IN
  /\ {o, p} \subseteq alive /\ o # p
  /\ IF NullPath(k, obj[p]) THEN Crash
     ELSE /\ \E r \in Reopens(k, obj[p], "wronly") :
               heap' = r.heap /\ obj' = [obj EXCEPT ![o] = CopyOf(obj[p], r.op)]
          /\ UNCHANGED <<alive, leaked, undefined>>

\* BasicPartition_t(BasicPartition_t &&)
MoveConstruct(o, p) ==
  /\ o \notin alive /\ p \in alive
  /\ alive' = alive \cup {o}
  /\ obj' = [obj EXCEPT ![o] = obj[p], ![p] = Empty]
  /\ UNCHANGED <<heap, leaked, undefined>>

\* Mutant: the source keeps its pointer.
MoveAssignKeeps(o, p) ==
  /\ {o, p} \subseteq alive /\ o # p
  /\ heap' = Close(heap, obj[o].op)
  /\ obj' = [obj EXCEPT ![o] = obj[p], ![p] = [Empty EXCEPT !.op = obj[p].op]]
  /\ UNCHANGED <<alive, leaked, undefined>>

\* operator=(BasicPartition_t &&)
MoveAssign(o, p) ==
  /\ {o, p} \subseteq alive /\ o # p
  /\ heap' = Close(heap, obj[o].op)
  /\ obj' = [obj EXCEPT ![o] = obj[p], ![p] = Empty]
  /\ UNCHANGED <<alive, leaked, undefined>>
-----------------------------------------------------------------------------
(* Setters and getters *)

\* setOpenPart(op), with a handle the client has opened for the device d
SetOpenPart(o, d) ==
  /\ o \in alive /\ ~obj[o].logical
  /\ \E r \in Opens(heap, d, "rdwr") :
       /\ heap' = Close(r.heap, obj[o].op)
       /\ obj' = [obj EXCEPT ![o].op = r.op, ![o].renamed = d # obj[o].name]
  /\ UNCHANGED <<alive, leaked, undefined>>

\* set(data): the handle of data replaces the object's own, which is not closed.
Set(o, d) ==
  /\ o \in alive /\ ~obj[o].logical
  /\ \E r \in Opens(heap, d, "rdwr") :
       heap' = r.heap /\ obj' = [obj EXCEPT ![o] = Named(d, FALSE, r.op)]
  /\ leaked' = leaked \cup ({obj[o].op} \ {Null})
  /\ UNCHANGED <<alive, undefined>>

\* Mutant: an object keeps the handle of what it was.
AsLogicalPartitionLate(o, d) ==
  /\ o \in alive
  /\ obj' = [obj EXCEPT ![o] = Named(d, TRUE, obj[o].op)]
  /\ UNCHANGED <<heap, alive, leaked, undefined>>

\* AsLogicalPartition(orig, path); it throws if the open fails.
AsLogicalPartition(o, d) ==
  /\ o \in alive
  /\ \E r \in Opens(Close(heap, obj[o].op), d, "rdwr") :
       heap' = r.heap /\ obj' = [obj EXCEPT ![o] = Named(d, TRUE, r.op)]
  /\ UNCHANGED <<alive, leaked, undefined>>

\* setPartitionPath(path), setIndex(index): another name, the same handle
Rename(o, d) ==
  /\ o \in alive
  /\ obj' = [obj EXCEPT ![o].name = d, ![o].renamed = TRUE]
  /\ UNCHANGED <<heap, alive, leaked, undefined>>

\* size(), start(), end() and the getters of getOpenPart()
Query(o) ==
  /\ o \in alive
  /\ heap' = AfterLoad(heap, obj[o].op)
  /\ UNCHANGED <<alive, obj, leaked, undefined>>

\* closeFdNow(): close(-1) if the number cannot be had.
CloseFdNow(o) ==
  LET h == obj[o].op IN
  /\ o \in alive
  /\ heap' = IF ~Loads(heap, h) THEN heap
             ELSE [AfterLoad(heap, h) EXCEPT !.fdt[heap.at[h].fd] = Null, !.shut = @ \cup {h}]
  /\ UNCHANGED <<alive, obj, leaked, undefined>>
-----------------------------------------------------------------------------
Init ==
  /\ heap = [at |-> [x \in {} |-> {}], fdt |-> [n \in Fd |-> Null], shut |-> {}, reused |-> FALSE]
  /\ alive = {}
  /\ obj = [o \in Obj |-> Empty]
  /\ leaked = {}
  /\ undefined = FALSE

Act(o) ==
  \/ Default(o) \/ Destroy(o) \/ Query(o) \/ CloseFdNow(o)
  \/ \E d \in Device :
       \/ FromArgs(o, d) \/ FromBasicData(o, d) \/ FromPath(o, d)
       \/ SetOpenPart(o, d) \/ Set(o, d) \/ AsLogicalPartition(o, d) \/ Rename(o, d)
  \/ \E p \in Obj :
       CopyConstruct(o, p) \/ CopyAssign(o, p) \/ MoveConstruct(o, p) \/ MoveAssign(o, p)

Next == ~undefined /\ \E o \in Obj : Act(o)

Spec == Init /\ [][Next]_vars
-----------------------------------------------------------------------------
(* Properties *)

\* Every handle an object points to is allocated and its own: no copy, move or
\* setter, and no failed one, leaves two objects that close the same handle, or
\* one that uses a closed one (partition.hpp:80-116, 421-425, 476-518).
OneOwner ==
  \A o \in alive : obj[o].op # Null =>
    /\ obj[o].op \in Allocated(heap) \ leaked
    /\ \A p \in alive \ {o} : obj[p].op # obj[o].op

\* Every handle in memory belongs to an object, unless set() dropped it, and every
\* open number to the handle that remembers it: nothing is lost when an
\* operation throws half way.
NothingLost ==
  /\ \A h \in Allocated(heap) \ leaked : \E o \in alive : obj[o].op = h
  /\ \A n \in Fd : heap.fdt[n] # Null =>
       heap.fdt[n] \in Allocated(heap) /\ heap.at[heap.fdt[n]].fd = n

\* What is read and written through an object is the device the object names,
\* through a number only closeFdNow() can have closed, as long as no number that
\* a handle still remembers was given out again: after closeFdNow() nothing may be
\* opened to stay, which `gpt read-table` observes (GptPlugin.cpp:83-94).
OwnDevice ==
  ~heap.reused => \A o \in alive : obj[o].op # Null =>
    /\ ~obj[o].renamed => heap.at[obj[o].op].dev = obj[o].name
    /\ Behind(heap, obj[o].op) # obj[o].op =>
         Behind(heap, obj[o].op) = Null /\ obj[o].op \in heap.shut
=============================================================================
