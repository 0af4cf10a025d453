---- MODULE Descriptors ----
(***************************************************************************)
(* The objects of management.hpp that own descriptors: BasicUniqueFD,      *)
(* BasicUniqueFP, the scope guards of openFd, openFp and openDir, and the  *)
(* Silencer, over the process's table of descriptors.  The kernel gives    *)
(* the lowest free number to every open and dup, so a number that one      *)
(* object closes is soon another's.  A stream (FILE, DIR, ofstream) is     *)
(* named by the number under it.  Reading, writing, flushing and the flags *)
(* and modes an object remembers are left out: they choose no number.      *)
(***************************************************************************)
EXTENDS Integers, FiniteSets, FiniteSetsExt

CONSTANTS Limit,      \* the highest number the process may use
          Files,      \* paths
          FDs,        \* UniqueFD objects
          FPs,        \* UniqueFP objects
          Guards,     \* scope guards with the descriptor they close
          Depth,      \* how deep silencers nest
          MaxOpen,    \* bound of the model: files open at a time
          MaxLive,    \* bound of the model: objects and guards at a time
          Free, Terminal, Null, NoPath, Gone

VARIABLES table,      \* what each number stands for
          fd, fp,     \* [num, path] of each object, or Gone
          guard,      \* [num, active] of each guard, or Gone
          loose,      \* numbers in the hands of the caller, without an object
          silencer,   \* the members of each silencer
          cout,       \* whose buffer std::cout and std::cerr write to; 0 is their own
          cut         \* history: a silencer could not keep a copy of stdout or stderr

objects == <<fd, fp, guard, loose>>
quiet   == <<silencer, cout, cut>>
vars    == <<table, objects, quiet>>

Numbers   == 1..Limit
None      == -1
Silencers == 1..Depth
Idle      == [saved |-> None, stream |-> None, null |-> None, out |-> None, err |-> None]

Holder    == [num : Numbers \cup {None}, path : Files \cup {NoPath}]
Guarding  == [num : Numbers \cup {None}, active : BOOLEAN]

ASSUME DescriptorsAssumption ==
  /\ Limit \in Nat /\ Limit >= 2 /\ Depth \in Nat
  /\ Free \notin {Terminal, Null} /\ Terminal # Null /\ {Free, Terminal, Null, NoPath} \cap Files = {}
  /\ Gone \notin Holder /\ Gone \notin Guarding

TypeOK ==
  /\ table \in [Numbers -> Files \cup {Free, Terminal, Null}]
  /\ fd \in [FDs -> Holder \cup {Gone}] /\ fp \in [FPs -> Holder \cup {Gone}]
  /\ guard \in [Guards -> Guarding \cup {Gone}]
  /\ loose \subseteq Numbers
  /\ \A s \in Silencers : DOMAIN silencer[s] = DOMAIN Idle
  /\ cout \in 0..Depth /\ cut \in BOOLEAN

Init ==
  /\ table = [n \in Numbers |-> IF n <= 2 THEN Terminal ELSE Free]
  /\ fd = [o \in FDs |-> Gone] /\ fp = [o \in FPs |-> Gone] /\ guard = [g \in Guards |-> Gone]
  /\ loose = {} /\ silencer = [s \in Silencers |-> Idle]
  /\ cout = 0 /\ cut = FALSE

----------------------------------------------------------------------------
(* The kernel. *)

Lowest(t)    == IF \E n \in Numbers : t[n] = Free THEN Min({n \in Numbers : t[n] = Free}) ELSE None
Put(t, n, x) == IF n = None THEN t ELSE [t EXCEPT ![n] = x]
Close(t, n)  == Put(t, n, Free)
Dup2(t, n, to) == IF n = None THEN t ELSE [t EXCEPT ![to] = t[n]]

\* What open(path) may return: the lowest number, or None when there is no such file or no number.
Openable(t, path) == {None} \cup (IF path = NoPath THEN {} ELSE {Lowest(t)})

\* Bounds of the model: what is opened anew (one file only while a silencer holds numbers), and
\* the objects that live.
Room == Cardinality({n \in Numbers : table[n] \in Files}) < (IF cout = 0 THEN MaxOpen ELSE 1)
Live == {o \in FDs : fd[o] # Gone} \cup {o \in FPs : fp[o] # Gone} \cup {g \in Guards : guard[g] # Gone}
New  == Cardinality(Live) < MaxLive

Empty(path)   == [num |-> None, path |-> path]
Held(n, path) == [num |-> n, path |-> path]

----------------------------------------------------------------------------
(* BasicUniqueFD. *)

FdConstruct(o, path) ==
  /\ fd[o] = Gone /\ New /\ Room
  /\ \E n \in Openable(table, path) :
       fd' = [fd EXCEPT ![o] = Held(n, path)] /\ table' = Put(table, n, path)
  /\ UNCHANGED <<fp, guard, loose, quiet>>

\* The explicit constructor and getOwnership: the path is read back from /proc/self/fd.
FdOwn(o, n) ==
  /\ fd[o] = Gone /\ New /\ n \in loose
  /\ fd' = [fd EXCEPT ![o] = Held(n, table[n])] /\ loose' = loose \ {n}
  /\ UNCHANGED <<table, fp, guard, quiet>>

\* Mutant: the moved-from object keeps its number.
FdMoveKeeps(o, other) ==
  /\ fd[o] = Gone /\ New /\ fd[other] # Gone
  /\ fd' = [fd EXCEPT ![o] = fd[other]]
  /\ UNCHANGED <<table, fp, guard, loose, quiet>>

FdMove(o, other) ==
  /\ fd[o] = Gone /\ New /\ fd[other] # Gone
  /\ fd' = [fd EXCEPT ![o] = fd[other], ![other].num = None]
  /\ UNCHANGED <<table, fp, guard, loose, quiet>>

\* Mutant: the assignment forgets what the object held.
FdAssignForgets(o, other) ==
  /\ o # other /\ fd[o] # Gone /\ fd[other] # Gone
  /\ fd' = [fd EXCEPT ![o] = fd[other], ![other] = Empty(NoPath)]
  /\ UNCHANGED <<table, fp, guard, loose, quiet>>

FdAssign(o, other) ==
  /\ o # other /\ fd[o] # Gone /\ fd[other] # Gone
  /\ table' = Close(table, fd[o].num)
  /\ fd' = [fd EXCEPT ![o] = fd[other], ![other] = Empty(NoPath)]
  /\ UNCHANGED <<fp, guard, loose, quiet>>

\* open(): an object that holds a descriptor keeps it; without a path it opens the one it remembers.
FdOpen(o, path) ==
  /\ fd[o] # Gone /\ fd[o].num = None /\ Room
  /\ \E n \in Openable(table, path) :
       fd' = [fd EXCEPT ![o] = Held(n, path)] /\ table' = Put(table, n, path)
  /\ UNCHANGED <<fp, guard, loose, quiet>>

FdReOpen(o) ==
  /\ fd[o] # Gone
  /\ LET t == Close(table, fd[o].num) IN
     \E n \in Openable(t, fd[o].path) :
       fd' = [fd EXCEPT ![o].num = n] /\ table' = Put(t, n, fd[o].path)
  /\ UNCHANGED <<fp, guard, loose, quiet>>

FdClose(o) ==
  /\ fd[o] # Gone
  /\ table' = Close(table, fd[o].num) /\ fd' = [fd EXCEPT ![o].num = None]
  /\ UNCHANGED <<fp, guard, loose, quiet>>

FdDestroy(o) ==
  /\ fd[o] # Gone
  /\ table' = Close(table, fd[o].num) /\ fd' = [fd EXCEPT ![o] = Gone]
  /\ UNCHANGED <<fp, guard, loose, quiet>>

\* dup() hands out a raw number.
FdDup(o) ==
  /\ fd[o] # Gone /\ fd[o].num # None /\ Lowest(table) # None /\ Room
  /\ table' = Put(table, Lowest(table), fd[o].path) /\ loose' = loose \cup {Lowest(table)}
  /\ UNCHANGED <<fd, fp, guard, quiet>>

\* The caller closes a number it holds.
CloseLoose(n) ==
  /\ n \in loose
  /\ table' = Close(table, n) /\ loose' = loose \ {n}
  /\ UNCHANGED <<fd, fp, guard, quiet>>

----------------------------------------------------------------------------
(* BasicUniqueFP. *)

FpConstruct(o, path) ==
  /\ fp[o] = Gone /\ New /\ Room
  /\ \E n \in Openable(table, path) :
       fp' = [fp EXCEPT ![o] = Held(n, path)] /\ table' = Put(table, n, path)
  /\ UNCHANGED <<fd, guard, loose, quiet>>

\* The explicit constructor and getOwnership; the caller's stream is over a number it held.
FpOwn(o, n) ==
  /\ fp[o] = Gone /\ New /\ n \in loose
  /\ fp' = [fp EXCEPT ![o] = Held(n, table[n])] /\ loose' = loose \ {n}
  /\ UNCHANGED <<table, fd, guard, quiet>>

FpMove(o, other) ==
  /\ fp[o] = Gone /\ New /\ fp[other] # Gone
  /\ fp' = [fp EXCEPT ![o] = fp[other], ![other].num = None]
  /\ UNCHANGED <<table, fd, guard, loose, quiet>>

FpAssign(o, other) ==
  /\ o # other /\ fp[o] # Gone /\ fp[other] # Gone
  /\ table' = Close(table, fp[o].num)
  /\ fp' = [fp EXCEPT ![o] = fp[other], ![other] = Empty(NoPath)]
  /\ UNCHANGED <<fd, guard, loose, quiet>>

\* open() leaves an empty object alone and opens over the stream of another.
FpOpen(o, path) ==
  /\ fp[o] # Gone /\ fp[o].num # None /\ Room
  /\ \E n \in Openable(table, path) :
       fp' = [fp EXCEPT ![o] = Held(n, path)] /\ table' = Put(table, n, path)
  /\ UNCHANGED <<fd, guard, loose, quiet>>

FpReOpen(o) ==
  /\ fp[o] # Gone
  /\ LET t == Close(table, fp[o].num) IN
     \E n \in Openable(t, fp[o].path) :
       fp' = [fp EXCEPT ![o].num = n] /\ table' = Put(t, n, fp[o].path)
  /\ UNCHANGED <<fd, guard, loose, quiet>>

FpClose(o) ==
  /\ fp[o] # Gone
  /\ table' = Close(table, fp[o].num) /\ fp' = [fp EXCEPT ![o].num = None]
  /\ UNCHANGED <<fd, guard, loose, quiet>>

FpDestroy(o) ==
  /\ fp[o] # Gone
  /\ table' = Close(table, fp[o].num) /\ fp' = [fp EXCEPT ![o] = Gone]
  /\ UNCHANGED <<fd, guard, loose, quiet>>

----------------------------------------------------------------------------
(* ScopeGuard, as openFd, openFp and openDir make it. *)

GuardOpen(g, path) ==
  /\ guard[g] = Gone /\ New /\ Room
  /\ \E n \in Openable(table, path) :
       guard' = [guard EXCEPT ![g] = [num |-> n, active |-> TRUE]] /\ table' = Put(table, n, path)
  /\ UNCHANGED <<fd, fp, loose, quiet>>

GuardMove(g, other) ==
  /\ guard[g] = Gone /\ New /\ guard[other] # Gone
  /\ guard' = [guard EXCEPT ![g] = guard[other], ![other].active = FALSE]
  /\ UNCHANGED <<table, fd, fp, loose, quiet>>

GuardNow(g) ==
  /\ guard[g] # Gone /\ guard[g].active
  /\ table' = Close(table, guard[g].num) /\ guard' = [guard EXCEPT ![g].active = FALSE]
  /\ UNCHANGED <<fd, fp, loose, quiet>>

\* dismiss() and release(): the caller keeps the number, or the function that closes it.
GuardDismiss(g) ==
  /\ guard[g] # Gone /\ guard[g].active
  /\ guard' = [guard EXCEPT ![g].active = FALSE]
  /\ loose' = loose \cup ({guard[g].num} \ {None})
  /\ UNCHANGED <<table, fd, fp, quiet>>

GuardDestroy(g) ==
  /\ guard[g] # Gone
  /\ table' = IF guard[g].active THEN Close(table, guard[g].num) ELSE table
  /\ guard' = [guard EXCEPT ![g] = Gone]
  /\ UNCHANGED <<fd, fp, loose, quiet>>

----------------------------------------------------------------------------
(* Silencer.  They nest: main's is silenced before a command's, a command's *)
(* before the one of a scan, and an inner one stops first.                  *)

Silencing(s) == silencer[s].saved # None \/ silencer[s].null # None
Innermost(s) == \A i \in Silencers : i > s => ~Silencing(i)

\* The early return of silence().
MaySilence(s) == Innermost(s) /\ ~Silencing(s)

Silence(s) ==
  /\ MaySilence(s)
  /\ LET stream == Lowest(table)      t1 == Put(table, stream, Null)
         null   == Lowest(t1)         t2 == Put(t1, null, Null)
         out    == IF null = None THEN None ELSE Lowest(t2)
         t3     == Put(t2, out, t2[1])
         err    == IF null = None THEN None ELSE Lowest(t3)
         t4     == Put(t3, err, t3[2])
     IN /\ silencer' = [silencer EXCEPT ![s] = [saved |-> cout, stream |-> stream, null |-> null, out |-> out, err |-> err]]
        /\ table' = Dup2(Dup2(t4, null, 1), null, 2)
        /\ cut' = (cut \/ (null # None /\ None \in {out, err}))
  /\ cout' = s
  /\ UNCHANGED objects

\* Mutant: only stdout is put back.
RestoredStdout(t, me) == Dup2(t, me.out, 1)

Restored(t, me) == Dup2(Dup2(t, me.out, 1), me.err, 2)

\* stop() and the destructor; dup2 of a copy that was never made fails.
Stop(s) ==
  /\ Innermost(s) /\ Silencing(s)
  /\ LET me == silencer[s]
         t  == Restored(Close(table, me.stream), me)
     IN table' = Close(Close(Close(t, me.out), me.err), me.null)
  /\ cout' = silencer[s].saved
  /\ silencer' = [silencer EXCEPT ![s] = Idle]
  /\ UNCHANGED <<objects, cut>>

----------------------------------------------------------------------------
FdStep ==
  \E o \in FDs :
    \/ \E path \in Files \cup {NoPath} : FdConstruct(o, path)
    \/ \E path \in Files \cup {IF fd[o] = Gone THEN NoPath ELSE fd[o].path} : FdOpen(o, path)
    \/ \E n \in Numbers : FdOwn(o, n)
    \/ \E other \in FDs : FdMove(o, other) \/ FdAssign(o, other)
    \/ FdReOpen(o) \/ FdClose(o) \/ FdDestroy(o) \/ FdDup(o)

FpStep ==
  \E o \in FPs :
    \/ \E path \in Files \cup {NoPath} : FpConstruct(o, path)
    \/ \E path \in Files : FpOpen(o, path)
    \/ \E n \in Numbers : FpOwn(o, n)
    \/ \E other \in FPs : FpMove(o, other) \/ FpAssign(o, other)
    \/ FpReOpen(o) \/ FpClose(o) \/ FpDestroy(o)

GuardStep ==
  \E g \in Guards :
    \/ \E path \in Files : GuardOpen(g, path)
    \/ \E other \in Guards : GuardMove(g, other)
    \/ GuardNow(g) \/ GuardDismiss(g) \/ GuardDestroy(g)

Next ==
  \/ FdStep \/ FpStep \/ GuardStep
  \/ \E n \in Numbers : CloseLoose(n)
  \/ \E s \in Silencers : Silence(s) \/ Stop(s)

Spec == Init /\ [][Next]_vars

----------------------------------------------------------------------------
(* Properties. *)

Holders(n) ==
  {<<"fd", o>> : o \in {x \in FDs : fd[x] # Gone /\ fd[x].num = n}}
  \cup {<<"fp", o>> : o \in {x \in FPs : fp[x] # Gone /\ fp[x].num = n}}
  \cup {<<"guard", g>> : g \in {x \in Guards : guard[x] # Gone /\ guard[x].active /\ guard[x].num = n}}
  \cup {<<"member", i>> : i \in {x \in Silencers \X {"stream", "null", "out", "err"} : silencer[x[1]][x[2]] = n}}
  \cup {<<"loose", n>> : k \in {n} \cap loose}

\* A number belongs to one object at most and stands for the file that object opened: no close
\* takes a number away from another object (moves, guards, reOpen and the silencer's copies).
OneOwner ==
  /\ \A n \in Numbers : Cardinality(Holders(n)) <= (IF table[n] = Free \/ n <= 2 THEN 0 ELSE 1)
  /\ \A o \in FDs : fd[o] # Gone /\ fd[o].num # None => table[fd[o].num] = fd[o].path
  /\ \A o \in FPs : fp[o] # Gone /\ fp[o].num # None => table[fp[o].num] = fp[o].path

Lost == {n \in 3..Limit : table[n] # Free /\ Holders(n) = {}}

\* Nothing but UniqueFP's open over its own stream leaves a number open that nobody will close.
LostOnlyByOpen ==
  [][(\E o \in FPs, path \in Files : FpOpen(o, path)) \/ Lost' \subseteq Lost]_vars

\* While a silencer is at work nothing reaches the terminal but what had no number left to hide
\* it; once all have stopped, stdout, stderr and the C++ streams are what they were, unless a
\* silencer could not keep its copy because the table was full.
OutputBack ==
  IF \E s \in Silencers : Silencing(s)
    THEN cout # 0 /\ ((\E s \in Silencers : silencer[s].null # None) => table[1] = Null /\ table[2] = Null)
    ELSE cout = 0 /\ (cut \/ (table[1] = Terminal /\ table[2] = Terminal))

====
