----------------------- MODULE PartitionHandles_proofs -----------------------
(***************************************************************************)
(* Proofs about partition objects and their handles, for any number of     *)
(* objects, of devices and of descriptors: an object owns its handle alone *)
(* and no handle is lost, however opens fail; and until a number that a    *)
(* handle still remembers is given out again, each object reads and writes *)
(* the device it names.                                                    *)
(***************************************************************************)
EXTENDS PartitionHandles, TLAPS

(* Heaps. *)

\* The kernel's table and the handles agree; as long as no remembered number was
\* given out again, handles have numbers of their own, and only those of which
\* closeFdNow closed the number refer to nothing.
Numbers(k) ==
  /\ \A n \in Fd : k.fdt[n] # Null => k.fdt[n] \in Allocated(k) /\ k.at[k.fdt[n]].fd = n
  /\ ~k.reused => \A g, h \in Allocated(k) : k.at[g].fd = k.at[h].fd => g = h
  /\ ~k.reused => \A h \in Allocated(k) : Behind(k, h) = Null => h \in k.shut

Heap(k) == k \in HeapType /\ Numbers(k)

\* What a heap consists of.
LEMMA HeapParts ==
  ASSUME NEW k \in HeapType
  PROVE  /\ Allocated(k) \subseteq Handle /\ k.at \in [Allocated(k) -> OpenPart]
         /\ k.fdt \in [Fd -> Handle \cup {Null}] /\ k.shut \subseteq Handle /\ k.reused \in BOOLEAN
<1>1. PICK S \in SUBSET Handle : k.at \in [S -> OpenPart]
  BY DEF HeapType
<1>2. k.fdt \in [Fd -> Handle \cup {Null}] /\ k.shut \subseteq Handle
  BY DEF HeapType
<1>3. k.reused \in BOOLEAN
  BY DEF HeapType
<1>. QED BY <1>1, <1>2, <1>3 DEF Allocated

\* And what makes one.
LEMMA HeapMade ==
  ASSUME NEW at, NEW fdt, NEW shut, NEW reused \in BOOLEAN,
         DOMAIN at \subseteq Handle, at \in [DOMAIN at -> OpenPart],
         fdt \in [Fd -> Handle \cup {Null}], shut \subseteq Handle
  PROVE  [at |-> at, fdt |-> fdt, shut |-> shut, reused |-> reused] \in HeapType
<1>1. at \in UNION {[S -> OpenPart] : S \in SUBSET Handle}
  OBVIOUS
<1>. QED BY <1>1 DEF HeapType

\* Adding a handle.
LEMMA AddFacts ==
  ASSUME NEW k \in HeapType, NEW h \in Handle, NEW op \in OpenPart, NEW k2, k2 = Add(k, h, op)
  PROVE  /\ k2 \in HeapType /\ Allocated(k2) = Allocated(k) \cup {h}
         /\ k2.at[h] = op /\ \A x \in Allocated(k) \ {h} : k2.at[x] = k.at[x]
         /\ k2.fdt = [k.fdt EXCEPT ![op.fd] = h] /\ k2.shut = k.shut
         /\ ~k2.reused => ~k.reused /\ \A x \in Allocated(k) : k.at[x].fd # op.fd
<1> DEFINE at == [x \in Allocated(k) \cup {h} |-> IF x = h THEN op ELSE k.at[x]]
           fdt == [k.fdt EXCEPT ![op.fd] = h]
           again == \E x \in Allocated(k) : k.at[x].fd = op.fd
           reused == k.reused \/ again
<1>1. k2 = [at |-> at, fdt |-> fdt, shut |-> k.shut, reused |-> reused]
  <2>1. k = [at |-> k.at, fdt |-> k.fdt, shut |-> k.shut, reused |-> k.reused]
    BY DEF HeapType
  <2>. QED BY <2>1, Zenon DEF Add
<1>2. /\ Allocated(k) \subseteq Handle /\ k.at \in [Allocated(k) -> OpenPart]
      /\ k.fdt \in [Fd -> Handle \cup {Null}] /\ k.shut \subseteq Handle /\ k.reused \in BOOLEAN
  BY HeapParts
<1>3. DOMAIN at = Allocated(k) \cup {h} /\ at \in [DOMAIN at -> OpenPart] /\ at[h] = op
      /\ \A x \in Allocated(k) \ {h} : at[x] = k.at[x]
  BY <1>2
<1>4. fdt \in [Fd -> Handle \cup {Null}]
  BY <1>2
<1>5. reused \in BOOLEAN /\ (~reused => ~k.reused /\ \A x \in Allocated(k) : k.at[x].fd # op.fd)
  BY <1>2, Zenon
<1> HIDE DEF at, fdt, reused
<1>6. k2 \in HeapType
  BY <1>1, <1>2, <1>3, <1>4, <1>5, HeapMade
<1>7. k2.at = at /\ k2.fdt = fdt /\ k2.shut = k.shut /\ k2.reused = reused
  BY <1>1
<1>. QED BY <1>3, <1>5, <1>6, <1>7 DEF fdt, Allocated

\* Closing a handle.
LEMMA CloseFacts ==
  ASSUME NEW k \in HeapType, NEW h \in Allocated(k), h # Null
  PROVE  /\ Close(k, h) \in HeapType /\ Allocated(Close(k, h)) = Allocated(k) \ {h}
         /\ \A x \in Allocated(k) \ {h} : Close(k, h).at[x] = k.at[x]
         /\ Close(k, h).fdt = [k.fdt EXCEPT ![k.at[h].fd] = Null] /\ Close(k, h).shut = k.shut \ {h}
         /\ Close(k, h).reused = k.reused
<1> DEFINE at == [x \in Allocated(k) \ {h} |-> k.at[x]]
           fdt == [k.fdt EXCEPT ![k.at[h].fd] = Null]
           shut == k.shut \ {h}
           k2 == Close(k, h)
<1>1. k2 = [at |-> at, fdt |-> fdt, shut |-> shut, reused |-> k.reused]
  <2>1. k = [at |-> k.at, fdt |-> k.fdt, shut |-> k.shut, reused |-> k.reused]
    BY DEF HeapType
  <2>. QED BY <2>1, Zenon DEF Close
<1>2. /\ Allocated(k) \subseteq Handle /\ k.at \in [Allocated(k) -> OpenPart]
      /\ k.fdt \in [Fd -> Handle \cup {Null}] /\ k.shut \subseteq Handle /\ k.reused \in BOOLEAN
  BY HeapParts
<1>3. DOMAIN at = Allocated(k) \ {h} /\ at \in [DOMAIN at -> OpenPart]
      /\ \A x \in DOMAIN at : at[x] = k.at[x]
  BY <1>2
<1>4. fdt \in [Fd -> Handle \cup {Null}] /\ shut \subseteq Handle
  BY <1>2
<1> HIDE DEF at, fdt, shut, k2
<1>5. k2 \in HeapType
  BY <1>1, <1>2, <1>3, <1>4, HeapMade
<1>6. k2.at = at /\ k2.fdt = fdt /\ k2.shut = shut /\ k2.reused = k.reused
  BY <1>1
<1>. QED BY <1>3, <1>5, <1>6 DEF fdt, shut, k2, Allocated

\* Loading the information of a handle: only that it is loaded.
LEMMA LoadFacts ==
  ASSUME NEW k \in HeapType, NEW h \in Allocated(k) \cup {Null}, NEW k2, k2 = AfterLoad(k, h)
  PROVE  /\ k2 \in HeapType /\ Allocated(k2) = Allocated(k)
         /\ \A x \in Allocated(k) : k2.at[x].fd = k.at[x].fd /\ k2.at[x].dev = k.at[x].dev
         /\ k2.fdt = k.fdt /\ k2.shut = k.shut /\ k2.reused = k.reused
<1>1. CASE ~Loads(k, h)
  BY <1>1 DEF AfterLoad
<1>2. CASE Loads(k, h)
  <2> DEFINE at == [k.at EXCEPT ![h].loaded = TRUE]
  <2>1. h \in Allocated(k)
    BY <1>2 DEF Loads
  <2>2. k2 = [at |-> at, fdt |-> k.fdt, shut |-> k.shut, reused |-> k.reused]
    <3>1. k = [at |-> k.at, fdt |-> k.fdt, shut |-> k.shut, reused |-> k.reused]
      BY DEF HeapType
    <3>. QED BY <1>2, <3>1, Zenon DEF AfterLoad
  <2>3. /\ Allocated(k) \subseteq Handle /\ k.at \in [Allocated(k) -> OpenPart]
        /\ k.fdt \in [Fd -> Handle \cup {Null}] /\ k.shut \subseteq Handle /\ k.reused \in BOOLEAN
    BY HeapParts
  <2>4. DOMAIN at = Allocated(k) /\ at \in [DOMAIN at -> OpenPart]
        /\ \A x \in Allocated(k) : at[x].fd = k.at[x].fd /\ at[x].dev = k.at[x].dev
    BY <2>1, <2>3 DEF OpenPart
  <2> HIDE DEF at
  <2>5. k2 \in HeapType
    BY <2>2, <2>3, <2>4, HeapMade
  <2>. QED BY <2>2, <2>4, <2>5 DEF Allocated
<1>. QED BY <1>1, <1>2

\* openpart_open() with a number that is free.
LEMMA AddKeeps ==
  ASSUME NEW k, Heap(k), NEW h \in Handle \ Allocated(k), NEW op \in OpenPart, k.fdt[op.fd] = Null
  PROVE  Heap(Add(k, h, op))
<1> DEFINE k2 == Add(k, h, op)
<1>1. /\ k2 \in HeapType /\ Allocated(k2) = Allocated(k) \cup {h}
      /\ k2.at[h] = op /\ \A x \in Allocated(k) : k2.at[x] = k.at[x]
      /\ k2.fdt = [k.fdt EXCEPT ![op.fd] = h] /\ k2.shut = k.shut
      /\ ~k2.reused => ~k.reused /\ \A x \in Allocated(k) : k.at[x].fd # op.fd
  BY AddFacts DEF Heap
<1>2. /\ k.fdt \in [Fd -> Handle \cup {Null}] /\ k.at \in [Allocated(k) -> OpenPart] /\ op.fd \in Fd
      /\ \A x \in Allocated(k) : k.at[x].fd \in Fd
  BY HeapParts DEF Heap, OpenPart
<1> HIDE DEF k2
<1>3. \A n \in Fd : k2.fdt[n] # Null => k2.fdt[n] \in Allocated(k2) /\ k2.at[k2.fdt[n]].fd = n
  BY <1>1, <1>2 DEF Heap, Numbers
<1>4. ~k2.reused => \A x, y \in Allocated(k2) : k2.at[x].fd = k2.at[y].fd => x = y
  BY <1>1, <1>2 DEF Heap, Numbers
<1>5. ASSUME ~k2.reused, NEW x \in Allocated(k2), Behind(k2, x) = Null PROVE x \in k2.shut
  <2>1. CASE x = h
    BY <1>1, <1>2, <1>5, <2>1, PartitionHandlesAssumption DEF Behind
  <2>2. CASE x \in Allocated(k)
    BY <1>1, <1>2, <1>5, <2>2 DEF Behind, Heap, Numbers
  <2>. QED BY <1>1, <2>1, <2>2
<1>6. Numbers(k2)
  BY <1>3, <1>4, <1>5 DEF Numbers
<1>. QED BY <1>1, <1>6 DEF Heap, k2

\* openpart_close(): another handle with the same number, which there is only behind a
\* closeFdNow(), loses its number too.
LEMMA CloseKeeps ==
  ASSUME NEW k, Heap(k), NEW h \in Allocated(k) \cup {Null}
  PROVE  Heap(Close(k, h))
<1>1. CASE h = Null
  BY <1>1 DEF Close
<1>2. CASE h # Null
  <2> DEFINE k2 == Close(k, h)
  <2>1. /\ k2 \in HeapType /\ Allocated(k2) = Allocated(k) \ {h}
        /\ \A x \in Allocated(k) \ {h} : k2.at[x] = k.at[x]
        /\ k2.fdt = [k.fdt EXCEPT ![k.at[h].fd] = Null] /\ k2.shut = k.shut \ {h}
        /\ k2.reused = k.reused
    BY <1>2, CloseFacts DEF Heap
  <2>2. /\ k.fdt \in [Fd -> Handle \cup {Null}]
        /\ \A x \in Allocated(k) : k.at[x].fd \in Fd
    BY HeapParts DEF Heap, OpenPart
  <2> HIDE DEF k2
  <2>3. ASSUME NEW n \in Fd, k2.fdt[n] # Null PROVE k2.fdt[n] \in Allocated(k2) /\ k2.at[k2.fdt[n]].fd = n
    <3>1. n # k.at[h].fd /\ k2.fdt[n] = k.fdt[n]
      BY <1>2, <2>1, <2>2, <2>3
    <3>2. k.fdt[n] \in Allocated(k) /\ k.at[k.fdt[n]].fd = n
      BY <2>3, <3>1 DEF Heap, Numbers
    <3>. QED BY <2>1, <3>1, <3>2
  <2>4. ~k2.reused => \A x, y \in Allocated(k2) : k2.at[x].fd = k2.at[y].fd => x = y
    BY <2>1, <2>2 DEF Heap, Numbers
  <2>5. ASSUME ~k2.reused, NEW x \in Allocated(k2), Behind(k2, x) = Null PROVE x \in k2.shut
    <3>1. k.at[x].fd # k.at[h].fd
      BY <1>2, <2>1, <2>5 DEF Heap, Numbers
    <3>2. Behind(k, x) = Null
      BY <2>1, <2>2, <2>5, <3>1 DEF Behind
    <3>. QED BY <2>1, <2>5, <3>2 DEF Heap, Numbers
  <2>6. Numbers(k2)
    BY <2>3, <2>4, <2>5 DEF Numbers
  <2>. QED BY <2>1, <2>6 DEF Heap, k2
<1>. QED BY <1>1, <1>2

\* Loading the information changes neither what is allocated nor any number.
LEMMA LoadKeeps ==
  ASSUME NEW k, Heap(k), NEW h \in Allocated(k) \cup {Null}
  PROVE  Heap(AfterLoad(k, h))
<1> DEFINE k2 == AfterLoad(k, h)
<1>1. /\ k2 \in HeapType /\ Allocated(k2) = Allocated(k)
      /\ \A x \in Allocated(k) : k2.at[x].fd = k.at[x].fd
      /\ k2.fdt = k.fdt /\ k2.shut = k.shut /\ k2.reused = k.reused
  BY LoadFacts DEF Heap
<1>2. \A n \in Fd : k.fdt[n] \in Handle \cup {Null}
  BY HeapParts DEF Heap
<1> HIDE DEF k2
<1>3. Numbers(k2)
  BY <1>1, <1>2 DEF Heap, Numbers, Behind
<1>. QED BY <1>1, <1>3 DEF Heap, k2

\* closeFdNow(): the number of the handle is closed.
LEMMA ShutFacts ==
  ASSUME NEW k \in HeapType, NEW h \in Allocated(k),
         NEW k2, k2 = [k EXCEPT !.fdt[k.at[h].fd] = Null, !.shut = @ \cup {h}]
  PROVE  /\ k2 \in HeapType /\ k2.at = k.at /\ Allocated(k2) = Allocated(k)
         /\ k2.fdt = [k.fdt EXCEPT ![k.at[h].fd] = Null] /\ k2.shut = k.shut \cup {h} /\ k2.reused = k.reused
<1> DEFINE fdt == [k.fdt EXCEPT ![k.at[h].fd] = Null]
           shut == k.shut \cup {h}
<1>1. k2 = [at |-> k.at, fdt |-> fdt, shut |-> shut, reused |-> k.reused]
  <2>1. k = [at |-> k.at, fdt |-> k.fdt, shut |-> k.shut, reused |-> k.reused]
    BY DEF HeapType
  <2>. QED BY <2>1, Zenon
<1>2. /\ Allocated(k) \subseteq Handle /\ k.at \in [Allocated(k) -> OpenPart]
      /\ k.fdt \in [Fd -> Handle \cup {Null}] /\ k.shut \subseteq Handle /\ k.reused \in BOOLEAN
  BY HeapParts
<1>3. fdt \in [Fd -> Handle \cup {Null}] /\ shut \subseteq Handle
      /\ DOMAIN k.at \subseteq Handle /\ k.at \in [DOMAIN k.at -> OpenPart]
  BY <1>2 DEF Allocated
<1> HIDE DEF fdt, shut
<1>4. k2 \in HeapType
  <2>1. [at |-> k.at, fdt |-> fdt, shut |-> shut, reused |-> k.reused] \in HeapType
    BY <1>2, <1>3, HeapMade, Zenon
  <2>. QED BY <1>1, <2>1, Zenon
<1>. QED BY <1>1, <1>4 DEF fdt, shut, Allocated

\* ... and the heap stays in order: that handle is the one more that is shut.
LEMMA ShutKeeps ==
  ASSUME NEW k, Heap(k), NEW h \in Allocated(k),
         NEW k2, k2 = [k EXCEPT !.fdt[k.at[h].fd] = Null, !.shut = @ \cup {h}]
  PROVE  Heap(k2)
<1>1. /\ k2 \in HeapType /\ k2.at = k.at /\ Allocated(k2) = Allocated(k)
      /\ k2.fdt = [k.fdt EXCEPT ![k.at[h].fd] = Null] /\ k2.shut = k.shut \cup {h} /\ k2.reused = k.reused
  BY ShutFacts DEF Heap
<1>2. /\ k.fdt \in [Fd -> Handle \cup {Null}]
      /\ \A x \in Allocated(k) : k.at[x].fd \in Fd
  BY HeapParts DEF Heap, OpenPart
<1>3. ASSUME NEW n \in Fd, k2.fdt[n] # Null PROVE k2.fdt[n] \in Allocated(k2) /\ k2.at[k2.fdt[n]].fd = n
  <2>1. n # k.at[h].fd /\ k2.fdt[n] = k.fdt[n]
    BY <1>1, <1>2, <1>3
  <2>. QED BY <1>1, <1>3, <2>1 DEF Heap, Numbers
<1>4. ASSUME ~k2.reused, NEW x \in Allocated(k2), Behind(k2, x) = Null PROVE x \in k2.shut
  <2>1. CASE x = h
    BY <1>1, <2>1
  <2>2. CASE x # h
    <3>1. k.at[x].fd # k.at[h].fd
      BY <1>1, <1>4, <2>2 DEF Heap, Numbers
    <3>. QED BY <1>1, <1>2, <1>4, <3>1 DEF Behind, Heap, Numbers
  <2>. QED BY <2>1, <2>2
<1>5. ~k2.reused => \A x, y \in Allocated(k2) : k2.at[x].fd = k2.at[y].fd => x = y
  BY <1>1 DEF Heap, Numbers
<1>. QED BY <1>1, <1>3, <1>4, <1>5 DEF Heap, Numbers

\* What opening comes to: nothing, or one more handle, of the device asked for.
OpensTo(k, d, r) ==
  /\ Heap(r.heap)
  /\ ~r.heap.reused => ~k.reused
  /\ \A x \in Allocated(k) : r.heap.at[x] = k.at[x]
  /\ \/ r.op = Null /\ r.heap = k
     \/ /\ r.op \in Handle \ Allocated(k) /\ r.op # Null /\ d # NoDevice
        /\ Allocated(r.heap) = Allocated(k) \cup {r.op}
        /\ r.heap.at[r.op].dev = d /\ Behind(r.heap, r.op) = r.op

\* So whatever openpart_open() answers, the heap stays in order.
LEMMA OpensResult ==
  ASSUME NEW k, Heap(k), NEW d \in Device \cup {NoDevice}, NEW mode \in {"rdwr", "wronly"},
         NEW r \in Opens(k, d, mode)
  PROVE  OpensTo(k, d, r)
<1>1. CASE r = Failed(k)
  BY <1>1 DEF Failed, OpensTo
<1>2. CASE r # Failed(k)
  <2>1. PICK h \in {h \in Handle \ Allocated(k) : d # NoDevice}, n \in LowestFree(k) :
          r = [heap |-> Add(k, h, [fd |-> n, dev |-> d, mode |-> mode, loaded |-> FALSE]), op |-> h]
    BY <1>2 DEF Opens
  <2> DEFINE op == [fd |-> n, dev |-> d, mode |-> mode, loaded |-> FALSE]
  <2>2. n \in Fd /\ k.fdt[n] = Null /\ d \in Device
    BY <2>1 DEF LowestFree, FreeNumbers
  <2>3. op \in OpenPart /\ op.fd = n /\ op.dev = d
    BY <2>2 DEF OpenPart
  <2>4. r.heap = Add(k, h, op) /\ r.op = h
    BY <2>1
  <2> HIDE DEF op
  <2>5. h \in Handle \ Allocated(k) /\ h # Null /\ d # NoDevice
    BY <2>1, PartitionHandlesAssumption
  <2>6. Heap(r.heap)
    BY <2>2, <2>3, <2>4, <2>5, AddKeeps
  <2>7. /\ Allocated(r.heap) = Allocated(k) \cup {h}
        /\ r.heap.at[h] = op /\ \A x \in Allocated(k) \ {h} : r.heap.at[x] = k.at[x]
        /\ r.heap.fdt = [k.fdt EXCEPT ![op.fd] = h]
        /\ ~r.heap.reused => ~k.reused
    BY <2>3, <2>4, AddFacts DEF Heap
  <2>8. Behind(r.heap, h) = h
    BY <2>2, <2>3, <2>7, HeapParts DEF Behind, Heap
  <2>. QED BY <2>3, <2>4, <2>5, <2>6, <2>7, <2>8 DEF OpensTo
<1>. QED BY <1>1, <1>2

\* openpart_close() and loading, in what the proofs about objects need.
LEMMA CloseResult ==
  ASSUME NEW k, Heap(k), NEW h \in Allocated(k) \cup {Null}
  PROVE  /\ Heap(Close(k, h)) /\ Allocated(Close(k, h)) = Allocated(k) \ {h}
         /\ \A x \in Allocated(k) \ {h} : Close(k, h).at[x] = k.at[x]
         /\ Close(k, h).reused = k.reused
<1>1. Null \notin Allocated(k)
  BY HeapParts, PartitionHandlesAssumption DEF Heap
<1>2. CASE h = Null
  BY <1>1, <1>2 DEF Close
<1>3. CASE h # Null
  <2>1. k \in HeapType /\ h \in Allocated(k)
    BY <1>3 DEF Heap
  <2>2. Heap(Close(k, h))
    BY CloseKeeps
  <2>3. /\ Allocated(Close(k, h)) = Allocated(k) \ {h} /\ Close(k, h).reused = k.reused
        /\ \A x \in Allocated(k) \ {h} : Close(k, h).at[x] = k.at[x]
    BY <1>3, <2>1, CloseFacts, Zenon
  <2>. QED BY <2>2, <2>3, Zenon
<1>. QED BY <1>2, <1>3

\* A heap in order stays so when a handle loads its information, and no device changes.
LEMMA LoadResult ==
  ASSUME NEW k, Heap(k), NEW h \in Allocated(k) \cup {Null}
  PROVE  /\ Heap(AfterLoad(k, h)) /\ Allocated(AfterLoad(k, h)) = Allocated(k)
         /\ \A x \in Allocated(k) : AfterLoad(k, h).at[x].dev = k.at[x].dev
         /\ AfterLoad(k, h).reused = k.reused
<1>1. k \in HeapType
  BY DEF Heap
<1>2. Heap(AfterLoad(k, h))
  BY LoadKeeps
<1>. QED BY <1>1, <1>2, LoadFacts

\* The path of a number is that of a device, and of the handle's own as long as no
\* remembered number was given out again.
LEMMA PathOfHandle ==
  ASSUME NEW k, Heap(k), NEW h \in Allocated(k)
  PROVE  /\ PartPath(k, h) \in Device \cup {NoDevice}
         /\ PartPath(k, h) # NoDevice /\ ~k.reused => PartPath(k, h) = k.at[h].dev
<1>1. k.at \in [Allocated(k) -> OpenPart] /\ k.at[h].fd \in Fd
  BY HeapParts DEF Heap, OpenPart
<1>2. ASSUME Behind(k, h) # Null
      PROVE  /\ Behind(k, h) \in Allocated(k) /\ k.at[Behind(k, h)].dev \in Device
             /\ ~k.reused => Behind(k, h) = h
  BY <1>1, <1>2 DEF Behind, Heap, Numbers, OpenPart
<1>. QED BY <1>2 DEF PartPath
-----------------------------------------------------------------------------
(* Objects. *)

\* Nobody but its owner has a handle, no closed one is had, and none is without an owner,
\* but for those set() dropped.
Owners(k, ob, lk) ==
  /\ lk \subseteq Allocated(k)
  /\ \A o \in Obj : ob[o].op # Null => ob[o].op \in Allocated(k) \ lk
  /\ \A o, p \in Obj : ob[o].op = ob[p].op /\ o # p => ob[o].op = Null
  /\ \A h \in Allocated(k) \ lk : \E o \in Obj : ob[o].op = h

NameTrue(k, p) == ~k.reused /\ p.op # Null /\ ~p.renamed => k.at[p.op].dev = p.name

\* There is nothing where no object is.
Unbuilt(al, ob) == \A o \in Obj \ al : ob[o] = Empty

IInv ==
  /\ TypeOK /\ Heap(heap)
  /\ Unbuilt(alive, obj) /\ Owners(heap, obj, leaked) /\ \A o \in Obj : NameTrue(heap, obj[o])

\* The handle of an object, if it has one, is allocated.
LEMMA HandleOf ==
  ASSUME IInv, NEW o \in Obj
  PROVE  /\ obj[o] \in Partition /\ obj[o].op \in Allocated(heap) \cup {Null} /\ NameTrue(heap, obj[o])
         /\ Null \notin Allocated(heap) /\ NoDevice \notin Device
  BY HeapParts, PartitionHandlesAssumption DEF IInv, TypeOK, Owners, Heap

\* An object without a handle, and one that has just been given one.
LEMMA EmptyIsPartition == Empty \in Partition /\ Empty.op = Null
  BY DEF Empty, Partition

LEMMA NamedIsPartition ==
  ASSUME NEW d \in Device, NEW l \in BOOLEAN, NEW op \in Handle \cup {Null}
  PROVE  /\ Named(d, l, op) \in Partition /\ Named(d, l, op).op = op /\ Named(d, l, op).name = d
         /\ ~Named(d, l, op).renamed /\ Named(d, l, op).logical = l
  BY DEF Named, Partition

\* A step in which one object gives up its handle, if it has one, and gets another, if it
\* gets one, and which touches no other handle.
LEMMA Exchanged ==
  ASSUME IInv, NEW o \in Obj, NEW p \in Partition, obj' = [obj EXCEPT ![o] = p],
         Heap(heap'), ~heap'.reused => ~heap.reused,
         Allocated(heap') = (Allocated(heap) \ {obj[o].op}) \cup ({p.op} \ {Null}),
         p.op \notin Allocated(heap) \ {obj[o].op},
         \A x \in Allocated(heap) \ {obj[o].op} : heap'.at[x].dev = heap.at[x].dev,
         NameTrue(heap', p),
         alive' \subseteq Obj, alive' \cup {o} = alive \cup {o}, o \in alive' \/ p = Empty,
         leaked' = leaked, undefined' = undefined
  PROVE  IInv'
<1>1. obj \in [Obj -> Partition]
  BY DEF IInv, TypeOK
<1>2. obj'[o] = p /\ \A q \in Obj \ {o} : obj'[q] = obj[q]
  BY <1>1
<1>3. TypeOK'
  BY <1>1 DEF IInv, TypeOK, Heap
<1>4. Unbuilt(alive', obj')
  BY <1>2 DEF IInv, Unbuilt
<1>5. Null \notin Allocated(heap)
  BY HandleOf
<1>6. Owners(heap', obj', leaked')
  <2>1. leaked \subseteq Allocated(heap')
    BY <1>5 DEF IInv, Owners
  <2>2. ASSUME NEW q \in Obj, obj'[q].op # Null PROVE obj'[q].op \in Allocated(heap') \ leaked
    <3>1. CASE q = o
      BY <1>2, <2>2, <3>1 DEF IInv, Owners
    <3>2. CASE q # o
      BY <1>2, <2>2, <3>2 DEF IInv, Owners
    <3>. QED BY <3>1, <3>2
  <2>3. ASSUME NEW q \in Obj, NEW r \in Obj, obj'[q].op = obj'[r].op, q # r PROVE obj'[q].op = Null
    <3>1. CASE q # o /\ r # o
      BY <1>2, <2>3, <3>1 DEF IInv, Owners
    <3>2. ASSUME NEW s \in Obj \ {o}, obj[s].op = p.op PROVE p.op = Null
      BY <3>2 DEF IInv, Owners
    <3>. QED BY <1>2, <2>3, <3>1, <3>2
  <2>4. ASSUME NEW h \in Allocated(heap') \ leaked PROVE \E q \in Obj : obj'[q].op = h
    <3>1. CASE h = p.op
      BY <1>2, <3>1
    <3>2. CASE h # p.op
      <4>1. PICK q \in Obj : obj[q].op = h
        BY <3>2 DEF IInv, Owners
      <4>2. q # o
        BY <3>2, <4>1
      <4>. QED BY <1>2, <4>1, <4>2
    <3>. QED BY <3>1, <3>2
  <2>. QED BY <2>1, <2>2, <2>3, <2>4 DEF Owners
<1>7. ASSUME NEW q \in Obj PROVE NameTrue(heap', obj'[q])
  <2>1. CASE q = o
    BY <1>2, <2>1
  <2>2. CASE q # o
    <3>1. obj[q].op # Null => obj[q].op \in Allocated(heap) \ {obj[o].op}
      BY <2>2 DEF IInv, Owners
    <3>. QED BY <1>2, <2>2, <3>1 DEF IInv, NameTrue
  <2>. QED BY <2>1, <2>2
<1>. QED BY <1>3, <1>4, <1>6, <1>7 DEF IInv

\* A step that only loads or closes numbers.
LEMMA SameObjects ==
  ASSUME IInv, UNCHANGED <<alive, obj, leaked>>, undefined' \in BOOLEAN,
         Heap(heap'), ~heap'.reused => ~heap.reused,
         Allocated(heap') = Allocated(heap),
         \A x \in Allocated(heap) : heap'.at[x].dev = heap.at[x].dev
  PROVE  IInv'
<1>1. TypeOK'
  BY DEF IInv, TypeOK, Heap
<1>2. ASSUME NEW q \in Obj PROVE NameTrue(heap', obj[q])
  BY HandleOf DEF NameTrue
<1>. QED BY <1>1, <1>2 DEF IInv, Owners

\* A copy opens what it copies again, or nothing.
LEMMA ReopensResult ==
  ASSUME NEW k, Heap(k), NEW p \in Partition, p.op \in Allocated(k) \cup {Null}, NameTrue(k, p),
         ~NullPath(k, p), NEW mode \in {"rdwr", "wronly"}, NEW r \in Reopens(k, p, mode)
  PROVE  /\ Heap(r.heap) /\ (~r.heap.reused => ~k.reused)
         /\ \A x \in Allocated(k) : r.heap.at[x].dev = k.at[x].dev
         /\ \/ r.op = Null /\ Allocated(r.heap) = Allocated(k)
            \/ r.op \in Handle \ Allocated(k) /\ Allocated(r.heap) = Allocated(k) \cup {r.op}
         /\ CopyOf(p, r.op) \in Partition /\ CopyOf(p, r.op).op = r.op
         /\ NameTrue(r.heap, CopyOf(p, r.op))
<1>0. /\ Null \notin Allocated(k) /\ Allocated(k) \subseteq Handle /\ NoDevice \notin Device
      /\ p.name \in Device \cup {NoDevice} /\ p.logical \in BOOLEAN /\ p.renamed \in BOOLEAN
  BY HeapParts, PartitionHandlesAssumption DEF Heap, Partition
<1> DEFINE c(op) == CopyOf(p, op)
<1>1. ASSUME NEW op \in Handle \cup {Null}
      PROVE  /\ c(op) \in Partition /\ c(op).op = op /\ c(op).name = p.name
             /\ c(op).renamed = (p.renamed /\ ~p.logical)
  <2> DEFINE renamed == p.renamed /\ ~p.logical
  <2>1. c(op) = [p EXCEPT !.op = op, !.renamed = renamed]
    BY DEF CopyOf
  <2>2. renamed \in BOOLEAN
    OBVIOUS
  <2> HIDE DEF renamed, c
  <2>3. c(op) \in Partition /\ c(op).op = op /\ c(op).name = p.name /\ c(op).renamed = renamed
    BY <1>0, <2>1, <2>2 DEF Partition
  <2>. QED BY <2>3 DEF renamed
<1> HIDE DEF c
<1>2. CASE p.op = Null
  <2>1. r.op = Null /\ r.heap = k
    BY <1>2 DEF Reopens, Failed
  <2>. QED BY <1>1, <2>1 DEF NameTrue, c
<1>3. CASE p.op # Null /\ p.logical
  <2>1. r \in Opens(k, p.name, mode)
    BY <1>3, Zenon DEF Reopens
  <2>2. OpensTo(k, p.name, r)
    BY <1>0, <2>1, OpensResult
  <2>3. r.op \in Handle \cup {Null} /\ (r.op # Null => r.heap.at[r.op].dev = p.name)
    BY <2>2 DEF OpensTo
  <2>4. c(r.op) \in Partition /\ c(r.op).op = r.op /\ NameTrue(r.heap, c(r.op))
    BY <1>1, <2>3 DEF NameTrue
  <2>. QED BY <2>2, <2>4 DEF OpensTo, c
<1>4. CASE p.op # Null /\ ~p.logical
  <2> DEFINE path == PartPath(k, p.op)
             k1 == AfterLoad(k, p.op)
  <2>1. r \in Opens(k1, path, mode)
    BY <1>4, Zenon DEF Reopens
  <2>2. /\ path \in Device \cup {NoDevice} /\ path # NoDevice
        /\ ~k.reused => path = k.at[p.op].dev
    BY <1>4, PathOfHandle DEF NullPath
  <2>3. Heap(k1) /\ Allocated(k1) = Allocated(k) /\ k1.reused = k.reused
        /\ \A x \in Allocated(k) : k1.at[x].dev = k.at[x].dev
    BY LoadResult
  <2> HIDE DEF path, k1
  <2>4. OpensTo(k1, path, r)
    BY <2>1, <2>2, <2>3, OpensResult
  <2>5. r.op \in Handle \cup {Null} /\ (r.op # Null => r.heap.at[r.op].dev = path)
        /\ (~r.heap.reused => ~k.reused)
    BY <2>3, <2>4 DEF OpensTo
  <2>6. c(r.op) \in Partition /\ c(r.op).op = r.op
    BY <1>1, <2>5
  <2>7. NameTrue(r.heap, c(r.op))
    BY <1>1, <1>4, <2>2, <2>5 DEF NameTrue
  <2>. QED BY <2>3, <2>4, <2>5, <2>6, <2>7 DEF OpensTo, c
<1>. QED BY <1>0, <1>2, <1>3, <1>4
-----------------------------------------------------------------------------
(* Each operation. *)

\* BasicPartition_t()
LEMMA DefaultKeeps == ASSUME IInv, NEW o \in Obj, Default(o) PROVE IInv'
<1>1. o \notin alive /\ alive' = alive \cup {o} /\ obj' = [obj EXCEPT ![o] = Empty]
      /\ UNCHANGED <<heap, leaked, undefined>>
  BY DEF Default, Construct
<1>2. obj[o].op = Null
  BY <1>1, EmptyIsPartition DEF IInv, Unbuilt
<1>3. NameTrue(heap, Empty) /\ alive \subseteq Obj
  BY EmptyIsPartition DEF NameTrue, IInv, TypeOK
<1>. QED BY <1>1, <1>2, <1>3, HandleOf, EmptyIsPartition, Exchanged DEF IInv

\* A constructor that takes the handle, or the failure, of one open.
LEMMA Constructed ==
  ASSUME IInv, NEW o \in Obj, o \notin alive, NEW d \in Device, NEW l \in BOOLEAN,
         NEW r \in Opens(heap, d, "rdwr"), heap' = r.heap, Construct(o, Named(d, l, r.op)),
         UNCHANGED <<leaked, undefined>>
  PROVE  IInv'
<1> DEFINE p == Named(d, l, r.op)
<1>1. OpensTo(heap, d, r)
  BY OpensResult DEF IInv
<1>2. r.op \in Handle \cup {Null}
  BY <1>1 DEF OpensTo
<1>3. p \in Partition /\ p.op = r.op /\ p.name = d
  BY <1>2, NamedIsPartition
<1>4. obj[o].op = Null /\ Null \notin Allocated(heap) /\ alive \subseteq Obj
  BY HandleOf, EmptyIsPartition DEF IInv, Unbuilt, TypeOK
<1>5. obj' = [obj EXCEPT ![o] = p] /\ alive' = alive \cup {o}
  BY DEF Construct
<1> HIDE DEF p
<1>6. NameTrue(heap', p)
  BY <1>1, <1>3 DEF NameTrue, OpensTo
<1>. QED BY <1>1, <1>3, <1>4, <1>5, <1>6, Exchanged DEF OpensTo

\* scan(): with or without a handle.
LEMMA FromArgsKeeps == ASSUME IInv, NEW o \in Obj, NEW d \in Device, FromArgs(o, d) PROVE IInv'
  BY Constructed DEF FromArgs, Construct

\* An exception of a constructor: no object, and nothing of it stays.
LEMMA Thrown ==
  ASSUME IInv, NEW o, Throw(o), Heap(heap'), ~heap'.reused => ~heap.reused,
         Allocated(heap') = Allocated(heap), \A x \in Allocated(heap) : heap'.at[x].dev = heap.at[x].dev,
         UNCHANGED <<leaked, undefined>>
  PROVE  IInv'
<1>1. UNCHANGED <<alive, obj>> /\ undefined' \in BOOLEAN
  BY DEF Throw, IInv, TypeOK
<1>. QED BY <1>1, SameObjects

\* BasicPartition_t(path): it throws before there is an object.
LEMMA FromPathKeeps == ASSUME IInv, NEW o \in Obj, NEW d \in Device, FromPath(o, d) PROVE IInv'
<1>1. PICK r \in Opens(heap, d, "rdwr") :
        /\ heap' = r.heap
        /\ IF r.op = Null THEN Throw(o) ELSE Construct(o, Named(d, TRUE, r.op))
  BY DEF FromPath
<1>2. OpensTo(heap, d, r)
  BY OpensResult DEF IInv
<1>3. UNCHANGED <<leaked, undefined>>
  BY DEF FromPath
<1>4. CASE r.op = Null
  BY <1>1, <1>2, <1>3, <1>4, Thrown DEF OpensTo
<1>5. CASE r.op # Null
  BY <1>1, <1>3, <1>5, Constructed DEF Construct
<1>. QED BY <1>4, <1>5

\* The client's handle is opened first and closed last; in between, the constructor opens
\* what that one refers to.
LEMMA FromBasicDataKeeps == ASSUME IInv, NEW o \in Obj, NEW d \in Device, FromBasicData(o, d) PROVE IInv'
<1>1. PICK c \in Opens(heap, d, "rdwr") :
        IF c.op = Null THEN heap' = c.heap /\ Construct(o, Named(d, FALSE, Null))
        ELSE \E r \in Opens(AfterLoad(c.heap, c.op), PartPath(c.heap, c.op), "rdwr") :
               /\ heap' = Close(r.heap, c.op)
               /\ IF r.op = Null THEN Throw(o) ELSE Construct(o, Named(d, FALSE, r.op))
  BY Zenon DEF FromBasicData
<1>2. OpensTo(heap, d, c)
  BY OpensResult DEF IInv
<1>3. UNCHANGED <<leaked, undefined>> /\ o \notin alive
  BY <1>1 DEF FromBasicData, Construct, Throw
<1>4. CASE c.op = Null
  BY <1>1, <1>3, <1>4, Constructed
<1>5. CASE c.op # Null
  <2> DEFINE k == AfterLoad(c.heap, c.op)
             path == PartPath(c.heap, c.op)
  <2>1. PICK r \in Opens(k, path, "rdwr") :
          /\ heap' = Close(r.heap, c.op)
          /\ IF r.op = Null THEN Throw(o) ELSE Construct(o, Named(d, FALSE, r.op))
    BY <1>1, <1>5
  <2>2. /\ Heap(c.heap) /\ c.op \in Allocated(c.heap) /\ c.op \notin Allocated(heap)
        /\ Allocated(c.heap) = Allocated(heap) \cup {c.op}
        /\ c.heap.at[c.op].dev = d /\ Behind(c.heap, c.op) = c.op
        /\ \A x \in Allocated(heap) : c.heap.at[x] = heap.at[x]
        /\ ~c.heap.reused => ~heap.reused
    BY <1>2, <1>5 DEF OpensTo
  <2>3. path \in Device \cup {NoDevice} /\ (path # NoDevice => path = d)
    BY <2>2, PathOfHandle DEF PartPath
  <2>4. /\ Heap(k) /\ Allocated(k) = Allocated(heap) \cup {c.op} /\ k.reused = c.heap.reused
        /\ \A x \in Allocated(heap) : k.at[x].dev = heap.at[x].dev
    BY <2>2, LoadResult
  <2> HIDE DEF k, path
  <2>5. OpensTo(k, path, r)
    BY <2>1, <2>3, <2>4, OpensResult
  <2>6. /\ Heap(r.heap) /\ (~r.heap.reused => ~heap.reused) /\ c.op \in Allocated(r.heap)
        /\ \A x \in Allocated(heap) : r.heap.at[x].dev = heap.at[x].dev
    BY <2>2, <2>4, <2>5 DEF OpensTo
  <2>7. /\ Heap(heap') /\ Allocated(heap') = Allocated(r.heap) \ {c.op} /\ heap'.reused = r.heap.reused
        /\ \A x \in Allocated(r.heap) \ {c.op} : heap'.at[x] = r.heap.at[x]
    BY <2>1, <2>6, CloseResult
  <2>8. CASE r.op = Null
    <3>1. Throw(o) /\ r.heap = k
      BY <2>1, <2>5, <2>8, HandleOf DEF OpensTo
    <3>2. Allocated(heap') = Allocated(heap)
      BY <2>2, <2>4, <2>7, <3>1
    <3>3. \A x \in Allocated(heap) : heap'.at[x].dev = heap.at[x].dev
      BY <2>2, <2>6, <2>7, <3>2
    <3>. QED BY <1>3, <2>6, <2>7, <3>1, <3>2, <3>3, Thrown
  <2>9. CASE r.op # Null
    <3> DEFINE p == Named(d, FALSE, r.op)
    <3>1. /\ r.op \in Handle \ Allocated(k) /\ Allocated(heap') = Allocated(heap) \cup {r.op}
          /\ r.heap.at[r.op].dev = d
      <4>1. /\ r.op \in Handle \ Allocated(k) /\ Allocated(r.heap) = Allocated(k) \cup {r.op}
            /\ r.heap.at[r.op].dev = path /\ path # NoDevice
        BY <2>5, <2>9 DEF OpensTo
      <4>. QED BY <2>2, <2>3, <2>4, <2>7, <4>1
    <3>2. p \in Partition /\ p.op = r.op /\ p.name = d
      <4>1. r.op \in Handle \cup {Null}
        BY <3>1
      <4>. QED BY <4>1, NamedIsPartition
    <3>3. alive' = alive \cup {o} /\ obj' = [obj EXCEPT ![o] = p]
      BY <2>1, <2>9 DEF Construct
    <3> HIDE DEF p
    <3>4. obj[o].op = Null /\ Null \notin Allocated(heap) /\ alive \subseteq Obj
      BY <1>3, HandleOf, EmptyIsPartition DEF IInv, Unbuilt, TypeOK
    <3>5. \A x \in Allocated(heap) : heap'.at[x].dev = heap.at[x].dev
      BY <2>2, <2>6, <2>7, <3>1
    <3>6. heap'.at[r.op].dev = d
      BY <2>4, <2>7, <3>1
    <3>7. NameTrue(heap', p)
      BY <3>2, <3>6 DEF NameTrue
    <3>8. Allocated(heap') = (Allocated(heap) \ {obj[o].op}) \cup ({p.op} \ {Null})
          /\ p.op \notin Allocated(heap) \ {obj[o].op} /\ alive' \subseteq Obj /\ alive' \cup {o} = alive \cup {o}
      BY <2>4, <2>9, <3>1, <3>2, <3>3, <3>4
    <3>. QED BY <1>3, <2>6, <2>7, <3>2, <3>3, <3>5, <3>7, <3>8, Exchanged
  <2>. QED BY <2>8, <2>9
<1>. QED BY <1>4, <1>5

\* ~BasicPartition_t(): the object goes with its handle.
LEMMA DestroyKeeps == ASSUME IInv, NEW o \in Obj, Destroy(o) PROVE IInv'
<1>1. /\ alive' = alive \ {o} /\ obj' = [obj EXCEPT ![o] = Empty] /\ heap' = Close(heap, obj[o].op)
      /\ UNCHANGED <<leaked, undefined>> /\ alive \subseteq Obj
  BY DEF Destroy, IInv, TypeOK
<1>2. obj[o].op \in Allocated(heap) \cup {Null} /\ Heap(heap)
  BY HandleOf DEF IInv
<1>3. /\ Heap(heap') /\ Allocated(heap') = Allocated(heap) \ {obj[o].op} /\ heap'.reused = heap.reused
      /\ \A x \in Allocated(heap) \ {obj[o].op} : heap'.at[x].dev = heap.at[x].dev
  BY <1>1, <1>2, CloseResult
<1>4. NameTrue(heap', Empty) /\ Empty.op \notin Allocated(heap)
  BY EmptyIsPartition, HandleOf DEF NameTrue
<1>. QED BY <1>1, <1>3, <1>4, EmptyIsPartition, Exchanged

\* Where a null path is made a string nothing else has changed.
LEMMA CrashKeeps == ASSUME IInv, Crash PROVE IInv'
<1>1. UNCHANGED <<heap, alive, obj, leaked>> /\ undefined' \in BOOLEAN
  BY DEF Crash
<1>. QED BY <1>1, SameObjects DEF IInv

\* The copy constructor: a new handle, or no object.
LEMMA CopyConstructKeeps ==
  ASSUME IInv, NEW o \in Obj, NEW p \in Obj, CopyConstruct(o, p)
  PROVE  IInv'
<1>1. CASE NullPath(heap, obj[p])
  BY <1>1, CrashKeeps DEF CopyConstruct
<1>2. CASE ~NullPath(heap, obj[p])
  <2>1. PICK r \in Reopens(heap, obj[p], "rdwr") :
          /\ heap' = r.heap
          /\ IF r.op = Null /\ obj[p].op # Null THEN Throw(o) ELSE Construct(o, CopyOf(obj[p], r.op))
    BY <1>2 DEF CopyConstruct
  <2> DEFINE c == CopyOf(obj[p], r.op)
  <2>2. /\ Heap(r.heap) /\ (~r.heap.reused => ~heap.reused)
        /\ \A x \in Allocated(heap) : r.heap.at[x].dev = heap.at[x].dev
        /\ \/ r.op = Null /\ Allocated(r.heap) = Allocated(heap)
           \/ r.op \in Handle \ Allocated(heap) /\ Allocated(r.heap) = Allocated(heap) \cup {r.op}
        /\ c \in Partition /\ c.op = r.op /\ NameTrue(r.heap, c)
    BY <1>2, HandleOf, ReopensResult DEF IInv
  <2>3. UNCHANGED <<leaked, undefined>> /\ o \notin alive /\ obj[o].op = Null
        /\ Null \notin Allocated(heap) /\ Null \notin Handle /\ alive \subseteq Obj
    BY <1>2, HandleOf, EmptyIsPartition, PartitionHandlesAssumption DEF CopyConstruct, IInv, Unbuilt, TypeOK
  <2> HIDE DEF c
  <2>4. CASE r.op = Null /\ obj[p].op # Null
    <3>1. Throw(o) /\ Allocated(heap') = Allocated(heap)
      BY <2>1, <2>2, <2>3, <2>4
    <3>. QED BY <2>1, <2>2, <2>3, <3>1, Thrown
  <2>5. CASE ~(r.op = Null /\ obj[p].op # Null)
    <3>1. obj' = [obj EXCEPT ![o] = c] /\ alive' = alive \cup {o}
      BY <2>1, <2>5 DEF Construct, c
    <3>2. Allocated(heap') = (Allocated(heap) \ {obj[o].op}) \cup ({c.op} \ {Null})
          /\ c.op \notin Allocated(heap) \ {obj[o].op}
      BY <2>1, <2>2, <2>3
    <3>. QED BY <2>1, <2>2, <2>3, <3>1, <3>2, Exchanged
  <2>. QED BY <2>4, <2>5
<1>. QED BY <1>1, <1>2

\* The copy assignment: the old handle is closed before another is opened, which may fail.
LEMMA CopyAssignKeeps ==
  ASSUME IInv, NEW o \in Obj, NEW p \in Obj, CopyAssign(o, p)
  PROVE  IInv'
<1> DEFINE k == Close(heap, obj[o].op)
<1>1. CASE NullPath(k, obj[p])
  BY <1>1, CrashKeeps DEF CopyAssign
<1>2. CASE ~NullPath(k, obj[p])
  <2>1. PICK r \in Reopens(k, obj[p], "wronly") : heap' = r.heap /\ obj' = [obj EXCEPT ![o] = CopyOf(obj[p], r.op)]
    BY <1>2 DEF CopyAssign
  <2> DEFINE c == CopyOf(obj[p], r.op)
  <2>2. UNCHANGED <<alive, leaked, undefined>> /\ {o, p} \subseteq alive /\ o # p /\ alive \subseteq Obj
    BY <1>2 DEF CopyAssign, IInv, TypeOK
  <2>3. /\ obj[o].op \in Allocated(heap) \cup {Null} /\ obj[p].op \in Allocated(heap) \cup {Null}
        /\ obj[p].op = obj[o].op => obj[p].op = Null
        /\ Null \notin Allocated(heap) /\ Null \notin Handle /\ obj[p] \in Partition /\ NameTrue(heap, obj[p])
        /\ Heap(heap)
    BY <2>2, HandleOf, PartitionHandlesAssumption DEF IInv, Owners
  <2>4. /\ Heap(k) /\ Allocated(k) = Allocated(heap) \ {obj[o].op} /\ k.reused = heap.reused
        /\ \A x \in Allocated(heap) \ {obj[o].op} : k.at[x] = heap.at[x]
    BY <2>3, CloseResult
  <2> HIDE DEF k
  <2>5. obj[p].op \in Allocated(k) \cup {Null} /\ NameTrue(k, obj[p])
    BY <2>3, <2>4 DEF NameTrue
  <2>6. /\ Heap(r.heap) /\ (~r.heap.reused => ~k.reused)
        /\ \A x \in Allocated(k) : r.heap.at[x].dev = k.at[x].dev
        /\ \/ r.op = Null /\ Allocated(r.heap) = Allocated(k)
           \/ r.op \in Handle \ Allocated(k) /\ Allocated(r.heap) = Allocated(k) \cup {r.op}
        /\ c \in Partition /\ c.op = r.op /\ NameTrue(r.heap, c)
    BY <1>2, <2>1, <2>3, <2>4, <2>5, ReopensResult
  <2>7. obj' = [obj EXCEPT ![o] = c]
    BY <2>1
  <2> HIDE DEF c
  <2>8. /\ Allocated(heap') = (Allocated(heap) \ {obj[o].op}) \cup ({c.op} \ {Null})
        /\ c.op \notin Allocated(heap) \ {obj[o].op}
        /\ \A x \in Allocated(heap) \ {obj[o].op} : heap'.at[x].dev = heap.at[x].dev
    BY <2>1, <2>3, <2>4, <2>6
  <2>. QED BY <2>1, <2>2, <2>4, <2>6, <2>7, <2>8, Exchanged
<1>. QED BY <1>1, <1>2

\* The move constructor: the handle changes its object.
LEMMA MoveConstructKeeps ==
  ASSUME IInv, NEW o \in Obj, NEW p \in Obj, MoveConstruct(o, p)
  PROVE  IInv'
<1>1. /\ o \notin alive /\ p \in alive /\ o # p /\ alive' = alive \cup {o}
      /\ obj' = [obj EXCEPT ![o] = obj[p], ![p] = Empty] /\ UNCHANGED <<heap, leaked, undefined>>
  BY DEF MoveConstruct
<1>2. obj \in [Obj -> Partition] /\ obj[o].op = Null
  BY <1>1, EmptyIsPartition DEF IInv, TypeOK, Unbuilt
<1>3. obj'[o] = obj[p] /\ obj'[p] = Empty /\ \A q \in Obj \ {o, p} : obj'[q] = obj[q]
  BY <1>1, <1>2
<1>4. TypeOK'
  BY <1>1, <1>2, EmptyIsPartition DEF IInv, TypeOK
<1>5. Unbuilt(alive', obj')
  BY <1>1, <1>3 DEF IInv, Unbuilt
<1>6. Owners(heap, obj', leaked)
  BY <1>2, <1>3, EmptyIsPartition, HandleOf DEF IInv, Owners
<1>7. \A q \in Obj : NameTrue(heap, obj'[q])
  BY <1>3, EmptyIsPartition DEF IInv, NameTrue
<1>. QED BY <1>1, <1>4, <1>5, <1>6, <1>7 DEF IInv

\* The handle the target had is closed; the one of the source changes its owner.
LEMMA MoveAssignmentKeeps ==
  ASSUME IInv, NEW o \in Obj, NEW p \in Obj, MoveAssign(o, p)
  PROVE  IInv'
<1>1. /\ {o, p} \subseteq alive /\ o # p /\ heap' = Close(heap, obj[o].op)
      /\ obj' = [obj EXCEPT ![o] = obj[p], ![p] = Empty] /\ UNCHANGED <<alive, leaked, undefined>>
  BY DEF MoveAssign
<1>2. obj \in [Obj -> Partition]
  BY DEF IInv, TypeOK
<1>3. obj'[o] = obj[p] /\ obj'[p] = Empty /\ \A q \in Obj \ {o, p} : obj'[q] = obj[q]
  BY <1>1, <1>2
<1>4. /\ Heap(heap') /\ Allocated(heap') = Allocated(heap) \ {obj[o].op} /\ heap'.reused = heap.reused
      /\ \A x \in Allocated(heap) \ {obj[o].op} : heap'.at[x] = heap.at[x]
  BY <1>1, HandleOf, CloseResult DEF IInv
<1>5. TypeOK'
  BY <1>1, <1>2, <1>4, EmptyIsPartition DEF IInv, TypeOK, Heap
<1>6. Unbuilt(alive', obj')
  BY <1>1, <1>3 DEF IInv, Unbuilt
<1>7. Null \notin Allocated(heap)
  BY HandleOf
<1>8. \A q \in Obj \ {o} : obj[q].op # Null => obj[q].op \in Allocated(heap) \ {obj[o].op}
  BY DEF IInv, Owners
<1>9. Owners(heap', obj', leaked)
  <2>1. leaked \subseteq Allocated(heap')
    BY <1>4, <1>7 DEF IInv, Owners
  <2>2. ASSUME NEW q \in Obj, obj'[q].op # Null PROVE obj'[q].op \in Allocated(heap') \ leaked
    <3>1. PICK s \in Obj \ {o} : obj'[q] = obj[s]
      BY <1>1, <1>3, <2>2, EmptyIsPartition
    <3>. QED BY <1>4, <1>8, <2>2, <3>1 DEF IInv, Owners
  <2>3. ASSUME NEW q \in Obj, NEW r \in Obj, obj'[q].op = obj'[r].op, q # r, obj'[q].op # Null
        PROVE  FALSE
    <3>1. q # p /\ r # p
      BY <1>3, <2>3, EmptyIsPartition
    <3>2. CASE q = o
      BY <1>3, <2>3, <3>1, <3>2 DEF IInv, Owners
    <3>3. CASE r = o
      BY <1>3, <2>3, <3>1, <3>3 DEF IInv, Owners
    <3>4. CASE q # o /\ r # o
      BY <1>3, <2>3, <3>1, <3>4 DEF IInv, Owners
    <3>. QED BY <3>2, <3>3, <3>4
  <2>4. ASSUME NEW h \in Allocated(heap') \ leaked PROVE \E q \in Obj : obj'[q].op = h
    <3>1. PICK q \in Obj \ {o} : obj[q].op = h
      BY <1>4 DEF IInv, Owners
    <3>. QED BY <1>3, <3>1
  <2>. QED BY <2>1, <2>2, <2>3, <2>4 DEF Owners
<1>10. ASSUME NEW q \in Obj PROVE NameTrue(heap', obj'[q])
  <2>1. CASE q = p
    BY <1>3, <2>1, EmptyIsPartition DEF NameTrue
  <2>2. CASE q # p
    <3>1. PICK s \in Obj \ {o} : obj'[q] = obj[s]
      BY <1>1, <1>3, <2>2
    <3>. QED BY <1>4, <1>8, <3>1 DEF IInv, NameTrue
  <2>. QED BY <2>1, <2>2
<1>. QED BY <1>1, <1>4, <1>5, <1>6, <1>9, <1>10 DEF IInv

\* The new handle is made before the old one is closed.
LEMMA SetOpenPartKeeps == ASSUME IInv, NEW o \in Obj, NEW d \in Device, SetOpenPart(o, d) PROVE IInv'
<1>1. PICK r \in Opens(heap, d, "rdwr") :
        /\ heap' = Close(r.heap, obj[o].op)
        /\ obj' = [obj EXCEPT ![o].op = r.op, ![o].renamed = d # obj[o].name]
  BY DEF SetOpenPart
<1>2. o \in alive /\ alive \subseteq Obj /\ UNCHANGED <<alive, leaked, undefined>>
  BY DEF SetOpenPart, IInv, TypeOK
<1>3. OpensTo(heap, d, r)
  BY OpensResult DEF IInv
<1>4. /\ obj \in [Obj -> Partition] /\ obj[o].op \in Allocated(heap) \cup {Null}
      /\ Null \notin Allocated(heap) /\ Null \notin Handle
  BY HandleOf, PartitionHandlesAssumption DEF IInv, TypeOK
<1>5. r.op \in Handle \cup {Null} /\ Heap(r.heap) /\ obj[o].op \in Allocated(r.heap) \cup {Null}
  BY <1>3, <1>4 DEF OpensTo
<1>6. /\ Heap(heap') /\ Allocated(heap') = Allocated(r.heap) \ {obj[o].op} /\ heap'.reused = r.heap.reused
      /\ \A x \in Allocated(r.heap) \ {obj[o].op} : heap'.at[x] = r.heap.at[x]
  BY <1>1, <1>5, CloseResult
<1> DEFINE other == d # obj[o].name
           p == [obj[o] EXCEPT !.op = r.op, !.renamed = other]
<1>7. obj' = [obj EXCEPT ![o] = p]
  BY <1>1, <1>4
<1>8. other \in BOOLEAN /\ (~other => d = obj[o].name)
  OBVIOUS
<1> HIDE DEF other
<1>9. p \in Partition /\ p.op = r.op /\ p.name = obj[o].name /\ p.renamed = other
  BY <1>4, <1>5, <1>8 DEF Partition
<1> HIDE DEF p
<1>10. /\ Allocated(heap') = (Allocated(heap) \ {obj[o].op}) \cup ({p.op} \ {Null})
       /\ p.op \notin Allocated(heap) /\ (~heap'.reused => ~heap.reused)
  BY <1>3, <1>4, <1>6, <1>9 DEF OpensTo
<1>11. \A x \in Allocated(heap) \ {obj[o].op} : heap'.at[x].dev = heap.at[x].dev
  BY <1>3, <1>6 DEF OpensTo
<1>12. NameTrue(heap', p)
  BY <1>3, <1>4, <1>6, <1>8, <1>9 DEF OpensTo, NameTrue
<1>. QED BY <1>2, <1>6, <1>7, <1>9, <1>10, <1>11, <1>12, Exchanged

\* The handle that set() replaces is nobody's from then on.
LEMMA SetKeeps == ASSUME IInv, NEW o \in Obj, NEW d \in Device, Set(o, d) PROVE IInv'
<1>1. PICK r \in Opens(heap, d, "rdwr") : heap' = r.heap /\ obj' = [obj EXCEPT ![o] = Named(d, FALSE, r.op)]
  BY DEF Set
<1>2. o \in alive /\ leaked' = leaked \cup ({obj[o].op} \ {Null}) /\ UNCHANGED <<alive, undefined>>
  BY DEF Set
<1>3. OpensTo(heap, d, r)
  BY OpensResult DEF IInv
<1>4. /\ obj \in [Obj -> Partition] /\ obj[o].op \in Allocated(heap) \cup {Null}
      /\ Null \notin Allocated(heap) /\ Allocated(heap) \subseteq Handle
  BY HandleOf, HeapParts DEF IInv, TypeOK, Heap
<1> DEFINE p == Named(d, FALSE, r.op)
<1>5. r.op \in Handle \cup {Null}
  BY <1>3 DEF OpensTo
<1>6. p \in Partition /\ p.op = r.op /\ p.name = d
  BY <1>5, NamedIsPartition
<1>7. obj'[o] = p /\ \A q \in Obj \ {o} : obj'[q] = obj[q]
  BY <1>1, <1>4
<1>8. obj' \in [Obj -> Partition]
  BY <1>1, <1>4, <1>6
<1> HIDE DEF p
<1>9. /\ Heap(heap') /\ (~heap'.reused => ~heap.reused) /\ r.op \notin Allocated(heap)
      /\ Allocated(heap') = Allocated(heap) \cup ({r.op} \ {Null})
      /\ \A x \in Allocated(heap) : heap'.at[x] = heap.at[x]
      /\ r.op # Null => heap'.at[r.op].dev = d
  BY <1>1, <1>3, <1>4 DEF OpensTo
<1>10. TypeOK'
  BY <1>2, <1>4, <1>8, <1>9 DEF IInv, TypeOK, Heap
<1>11. Unbuilt(alive', obj')
  BY <1>2, <1>7 DEF IInv, Unbuilt
<1>12. Owners(heap', obj', leaked')
  <2>1. leaked' \subseteq Allocated(heap')
    BY <1>2, <1>4, <1>9 DEF IInv, Owners
  <2>2. ASSUME NEW q \in Obj, obj'[q].op # Null PROVE obj'[q].op \in Allocated(heap') \ leaked'
    <3>1. CASE q = o
      BY <1>2, <1>4, <1>6, <1>7, <1>9, <2>2, <3>1 DEF IInv, Owners
    <3>2. CASE q # o
      BY <1>2, <1>7, <1>9, <2>2, <3>2 DEF IInv, Owners
    <3>. QED BY <3>1, <3>2
  <2>3. \A q \in Obj \ {o} : obj'[q].op # r.op \/ r.op = Null
    BY <1>7, <1>9 DEF IInv, Owners
  <2>4. \A q, s \in Obj : obj'[q].op = obj'[s].op /\ q # s => obj'[q].op = Null
    BY <1>6, <1>7, <2>3 DEF IInv, Owners
  <2>5. ASSUME NEW h \in Allocated(heap') \ leaked' PROVE \E q \in Obj : obj'[q].op = h
    <3>1. CASE h = r.op
      BY <1>6, <1>7, <3>1
    <3>2. CASE h # r.op
      <4>1. PICK q \in Obj : obj[q].op = h
        BY <1>2, <1>9, <3>2 DEF IInv, Owners
      <4>2. q # o
        BY <1>2, <1>4, <1>9, <3>2, <4>1
      <4>. QED BY <1>7, <4>1, <4>2
    <3>. QED BY <3>1, <3>2
  <2>. QED BY <2>1, <2>2, <2>4, <2>5 DEF Owners
<1>13. ASSUME NEW q \in Obj PROVE NameTrue(heap', obj'[q])
  <2>1. CASE q = o
    BY <1>6, <1>7, <1>9, <2>1 DEF NameTrue
  <2>2. CASE q # o
    BY <1>7, <1>9, <2>2, HandleOf DEF NameTrue
  <2>. QED BY <2>1, <2>2
<1>. QED BY <1>9, <1>10, <1>11, <1>12, <1>13 DEF IInv

\* AsLogicalPartition(): closes, then opens what the new name says.
LEMMA AsLogicalPartitionKeeps ==
  ASSUME IInv, NEW o \in Obj, NEW d \in Device, AsLogicalPartition(o, d)
  PROVE  IInv'
<1> DEFINE k == Close(heap, obj[o].op)
<1>1. PICK r \in Opens(k, d, "rdwr") : heap' = r.heap /\ obj' = [obj EXCEPT ![o] = Named(d, TRUE, r.op)]
  BY DEF AsLogicalPartition
<1>2. o \in alive /\ alive \subseteq Obj /\ UNCHANGED <<alive, leaked, undefined>>
  BY DEF AsLogicalPartition, IInv, TypeOK
<1>3. obj[o].op \in Allocated(heap) \cup {Null} /\ Null \notin Allocated(heap) /\ Heap(heap)
  BY HandleOf DEF IInv
<1>4. /\ Heap(k) /\ Allocated(k) = Allocated(heap) \ {obj[o].op} /\ k.reused = heap.reused
      /\ \A x \in Allocated(heap) \ {obj[o].op} : k.at[x] = heap.at[x]
  BY <1>3, CloseResult
<1> HIDE DEF k
<1>5. OpensTo(k, d, r)
  BY <1>1, <1>4, OpensResult
<1> DEFINE p == Named(d, TRUE, r.op)
<1>6. r.op \in Handle \cup {Null} /\ Null \notin Handle
  BY <1>5, PartitionHandlesAssumption DEF OpensTo
<1>7. p \in Partition /\ p.op = r.op /\ p.name = d
  BY <1>6, NamedIsPartition
<1>8. obj' = [obj EXCEPT ![o] = p]
  BY <1>1
<1> HIDE DEF p
<1>9. /\ Heap(heap') /\ (~heap'.reused => ~heap.reused)
      /\ Allocated(heap') = (Allocated(heap) \ {obj[o].op}) \cup ({p.op} \ {Null})
      /\ p.op \notin Allocated(heap) \ {obj[o].op}
  BY <1>1, <1>3, <1>4, <1>5, <1>7 DEF OpensTo
<1>10. \A x \in Allocated(heap) \ {obj[o].op} : heap'.at[x].dev = heap.at[x].dev
  BY <1>1, <1>4, <1>5 DEF OpensTo
<1>11. NameTrue(heap', p)
  BY <1>1, <1>5, <1>7 DEF OpensTo, NameTrue
<1>. QED BY <1>2, <1>7, <1>8, <1>9, <1>10, <1>11, Exchanged

\* setPartitionPath(), setIndex(): no longer is the name said to be true.
LEMMA RenameKeeps == ASSUME IInv, NEW o \in Obj, NEW d \in Device, Rename(o, d) PROVE IInv'
<1> DEFINE p == [obj[o] EXCEPT !.name = d, !.renamed = TRUE]
<1>1. o \in alive /\ alive \subseteq Obj /\ obj \in [Obj -> Partition] /\ UNCHANGED <<heap, alive, leaked, undefined>>
  BY DEF Rename, IInv, TypeOK
<1>2. obj' = [obj EXCEPT ![o] = p]
  BY <1>1 DEF Rename
<1>3. p \in Partition /\ p.op = obj[o].op /\ p.renamed
  BY <1>1 DEF Partition
<1> HIDE DEF p
<1>4. Allocated(heap) = (Allocated(heap) \ {obj[o].op}) \cup ({p.op} \ {Null}) /\ NameTrue(heap, p)
  BY <1>3, HandleOf DEF NameTrue
<1>. QED BY <1>1, <1>2, <1>3, <1>4, Exchanged DEF IInv

\* The getters load the information, no more.
LEMMA QueryKeeps == ASSUME IInv, NEW o \in Obj, Query(o) PROVE IInv'
<1>1. heap' = AfterLoad(heap, obj[o].op) /\ UNCHANGED <<alive, obj, leaked, undefined>> /\ undefined \in BOOLEAN
  BY DEF Query, IInv, TypeOK
<1>. QED BY <1>1, HandleOf, LoadResult, SameObjects DEF IInv

\* closeFdNow(): the handle stays, its number does not.
LEMMA CloseFdNowKeeps == ASSUME IInv, NEW o \in Obj, CloseFdNow(o) PROVE IInv'
<1> DEFINE h == obj[o].op
           k == AfterLoad(heap, h)
<1>1. UNCHANGED <<alive, obj, leaked, undefined>> /\ undefined \in BOOLEAN
  BY DEF CloseFdNow, IInv, TypeOK
<1>2. CASE ~Loads(heap, h)
  BY <1>1, <1>2, SameObjects DEF CloseFdNow, IInv
<1>3. CASE Loads(heap, h)
  <2>1. h \in Allocated(heap) /\ heap \in HeapType /\ Heap(heap)
    BY <1>3, HandleOf DEF Loads, IInv, Heap
  <2>2. Heap(k) /\ k \in HeapType /\ h \in Allocated(k) /\ k.at[h].fd = heap.at[h].fd
        /\ Allocated(k) = Allocated(heap) /\ k.reused = heap.reused
        /\ \A x \in Allocated(heap) : k.at[x].dev = heap.at[x].dev
    BY <2>1, LoadFacts, LoadKeeps
  <2>3. heap' = [k EXCEPT !.fdt[k.at[h].fd] = Null, !.shut = @ \cup {h}]
    BY <1>3, <2>2, Zenon DEF CloseFdNow
  <2> HIDE DEF k, h
  <2>4. Heap(heap')
    BY <2>2, <2>3, ShutKeeps
  <2>5. heap'.at = k.at /\ Allocated(heap') = Allocated(k) /\ heap'.reused = k.reused
    BY <2>2, <2>3, ShutFacts
  <2>. QED BY <1>1, <2>2, <2>4, <2>5, SameObjects
<1>. QED BY <1>2, <1>3
-----------------------------------------------------------------------------
(* What holds of all objects at all times. *)

\* A process begins without objects and with all its numbers free.
LEMMA IInvInit == ASSUME Init PROVE IInv
<1> DEFINE at == [x \in {} |-> {}]
<1>1. heap = [at |-> at, fdt |-> [n \in Fd |-> Null], shut |-> {}, reused |-> FALSE]
  BY DEF Init
<1>2. DOMAIN at = {} /\ at \in [DOMAIN at -> OpenPart]
  OBVIOUS
<1> HIDE DEF at
<1>3. heap \in HeapType
  <2> DEFINE fdt == [n \in Fd |-> Null]
  <2>1. fdt \in [Fd -> Handle \cup {Null}] /\ DOMAIN at \subseteq Handle /\ {} \subseteq Handle /\ FALSE \in BOOLEAN
    BY <1>2
  <2> HIDE DEF fdt
  <2>2. [at |-> at, fdt |-> fdt, shut |-> {}, reused |-> FALSE] \in HeapType
    BY <1>2, <2>1, HeapMade, Zenon
  <2>. QED BY <1>1, <2>2, Zenon DEF fdt
<1>4. Allocated(heap) = {} /\ \A n \in Fd : heap.fdt[n] = Null
  BY <1>1, <1>2 DEF Allocated
<1>5. Heap(heap)
  BY <1>3, <1>4 DEF Heap, Numbers
<1>6. obj = [o \in Obj |-> Empty] /\ alive = {} /\ leaked = {} /\ undefined = FALSE
  BY DEF Init
<1>7. TypeOK /\ Unbuilt(alive, obj)
  BY <1>3, <1>6, EmptyIsPartition DEF TypeOK, Unbuilt
<1>8. Owners(heap, obj, leaked) /\ \A o \in Obj : NameTrue(heap, obj[o])
  BY <1>4, <1>6, EmptyIsPartition DEF Owners, NameTrue
<1>. QED BY <1>5, <1>7, <1>8 DEF IInv

\* Each operation of each object keeps the invariant.
LEMMA IInvStep == ASSUME IInv, [Next]_vars PROVE IInv'
<1>1. ASSUME NEW o \in Obj, NEW d \in Device,
             \/ FromArgs(o, d) \/ FromBasicData(o, d) \/ FromPath(o, d)
             \/ SetOpenPart(o, d) \/ Set(o, d) \/ AsLogicalPartition(o, d) \/ Rename(o, d)
      PROVE  IInv'
  BY <1>1, FromArgsKeeps, FromBasicDataKeeps, FromPathKeeps, SetOpenPartKeeps, SetKeeps, AsLogicalPartitionKeeps,
     RenameKeeps
<1>2. ASSUME NEW o \in Obj, NEW p \in Obj,
             CopyConstruct(o, p) \/ CopyAssign(o, p) \/ MoveConstruct(o, p) \/ MoveAssign(o, p)
      PROVE  IInv'
  BY <1>2, CopyConstructKeeps, CopyAssignKeeps, MoveConstructKeeps, MoveAssignmentKeeps
<1>3. ASSUME NEW o \in Obj, Default(o) \/ Destroy(o) \/ Query(o) \/ CloseFdNow(o) PROVE IInv'
  BY <1>3, DefaultKeeps, DestroyKeeps, QueryKeeps, CloseFdNowKeeps
<1>4. CASE UNCHANGED vars
  BY <1>4, SameObjects DEF vars, IInv, TypeOK
<1>. QED BY <1>1, <1>2, <1>3, <1>4 DEF Next, Act

\* Hence all of it holds in every reachable state.
LEMMA Invariance == Spec => []IInv
  BY IInvInit, IInvStep, PTL DEF Spec

\* Handles, numbers and the fields of objects keep their types.
THEOREM TypeCorrect == Spec => []TypeOK
<1>1. IInv => TypeOK
  BY DEF IInv
<1>. QED BY <1>1, Invariance, PTL

\* However many objects are copied, moved, assigned, renamed and destroyed, and whichever
\* opens fail: no two close the same handle and none uses a closed one.
THEOREM HandlesAreOwned == Spec => []OneOwner
<1>1. IInv => OneOwner
  BY DEF IInv, TypeOK, Owners, OneOwner
<1>. QED BY <1>1, Invariance, PTL

\* And every handle has an object that closes it, every open number a handle.
THEOREM HandlesAreKept == Spec => []NothingLost
<1>1. ASSUME IInv, NEW o \in Obj, obj[o].op # Null PROVE o \in alive
  BY <1>1, EmptyIsPartition DEF IInv, Unbuilt
<1>2. ASSUME IInv, NEW h \in Allocated(heap) \ leaked PROVE \E o \in alive : obj[o].op = h
  <2>1. h # Null
    BY <1>2, HeapParts, PartitionHandlesAssumption DEF IInv, Heap
  <2>2. PICK o \in Obj : obj[o].op = h
    BY <1>2 DEF IInv, Owners
  <2>. QED BY <1>1, <1>2, <2>1, <2>2
<1>3. IInv => NothingLost
  BY <1>2 DEF IInv, Heap, Numbers, NothingLost
<1>. QED BY <1>3, Invariance, PTL

\* As long as no number a handle remembers was given out again: what is read and written
\* through an object is the device it names, or nothing behind closeFdNow().
THEOREM NamesAreTrue == Spec => []OwnDevice
<1>1. ASSUME IInv, ~heap.reused, NEW o \in alive, obj[o].op # Null
      PROVE  /\ ~obj[o].renamed => heap.at[obj[o].op].dev = obj[o].name
             /\ Behind(heap, obj[o].op) # obj[o].op =>
                  Behind(heap, obj[o].op) = Null /\ obj[o].op \in heap.shut
  <2>1. o \in Obj /\ obj[o].op \in Allocated(heap) /\ Heap(heap)
    BY <1>1, HandleOf DEF IInv, TypeOK
  <2>2. heap.at[obj[o].op].fd \in Fd
    BY <2>1, HeapParts DEF Heap, OpenPart
  <2>3. Behind(heap, obj[o].op) # Null => Behind(heap, obj[o].op) = obj[o].op
    BY <1>1, <2>1, <2>2 DEF Heap, Numbers, Behind
  <2>4. Behind(heap, obj[o].op) = Null => obj[o].op \in heap.shut
    BY <1>1, <2>1 DEF Heap, Numbers
  <2>5. ~obj[o].renamed => heap.at[obj[o].op].dev = obj[o].name
    BY <1>1, <2>1 DEF IInv, NameTrue
  <2>. QED BY <2>3, <2>4, <2>5
<1>2. IInv => OwnDevice
  BY <1>1 DEF OwnDevice
<1>. QED BY <1>2, Invariance, PTL
===============================================================================
