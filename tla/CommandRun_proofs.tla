------------------------- MODULE CommandRun_proofs -------------------------
(***************************************************************************)
(* Proofs about AsyncManager, and about a run of backup, flash or erase    *)
(* that uses it, for any set of jobs and places.  Of the manager: its      *)
(* types, that results and futures agree, that a getResults which returns  *)
(* has waited, and that it implements the fork/join of module ForkJoin.    *)
(* Of the run: it is a use of the manager, so all that holds in it too; as *)
(* long as no job throws, nothing is taken away from a job that runs,      *)
(* neither an object nor the process; an image is deleted behind its       *)
(* transfer; and exit status 0 is the truth.                               *)
(***************************************************************************)
EXTENDS CommandRun, SequenceTheorems, TLAPS

-----------------------------------------------------------------------------
(* The manager. *)

(* The inductive invariant, in parts. *)

\* A job and its future keep step: no future, nothing happened; a future whose
\* thread is not there any more, or never was, has a value.
ThreadsAndFutures ==
  \A t \in Task :
    /\ t \notin Elems(futures) => thread[t] = "none" /\ shared[t] = "unset"
    /\ thread[t] = "running" => shared[t] = "unset"
    /\ thread[t] = "exited" => shared[t] # "unset"
    /\ t \in Elems(futures) /\ thread[t] = "none" => shared[t] = "exception"

\* A job is bound once, and what startAll has yet to start has no future.
BoundOnce ==
  /\ \A i, j \in 1..Len(tasks) : tasks[i] = tasks[j] => i = j
  /\ caller \in {"idle", "collecting"} => \A i \in 1..Len(tasks) : tasks[i] \notin Elems(futures)
  /\ caller = "starting" => \A i \in 1..Len(tasks) : i >= pos => tasks[i] \notin Elems(futures)

\* The results are those of the futures before the loop's position.
LoopPosition ==
  /\ caller = "collecting" => ~get /\ pos = Len(results) + 1
  /\ caller \in {"idle", "starting"} /\ ~get => results = <<>>

\* An owner that was told of an exception makes no further call.
NoCallAfterRaise ==
  caller \in {"idle", "starting", "collecting"} => verdict # "raised"

IInv == TypeOK /\ ThreadsAndFutures /\ BoundOnce /\ LoopPosition /\ ResultsMatchFutures /\ NoCallAfterRaise
-----------------------------------------------------------------------------
(* Lemmas about the sequences of the manager. *)

\* What a sequence holds after push_back.
LEMMA ElemsAppend ==
  ASSUME NEW S, NEW s \in Seq(S), NEW e \in S
  PROVE  Elems(Append(s, e)) = Elems(s) \cup {e}
  BY DEF Elems

\* Every entry of a list is in it, and what is in it is an entry.
LEMMA ElemsIndex ==
  ASSUME NEW S, NEW s \in Seq(S)
  PROVE  /\ \A i \in 1..Len(s) : s[i] \in Elems(s) /\ s[i] \in S
         /\ \A e \in Elems(s) : e \in S /\ \E i \in 1..Len(s) : s[i] = e
  BY DEF Elems

\* A result is a pair of a job and a flag.
LEMMA ResultIsPair ==
  ASSUME NEW t \in Task
  PROVE  /\ Result(t) \in Task \X BOOLEAN
         /\ Result(t)[1] = t
         /\ Result(t)[2] = (shared[t] = "ok")
<1>1. (shared[t] = "ok") \in BOOLEAN
  OBVIOUS
<1> QED BY <1>1 DEF Result

\* What one turn of getResults' loop does.
LEMMA CollectOneStep ==
  ASSUME TypeOK, CollectOne
  PROVE  /\ caller = "collecting" /\ pos \in 1..Len(futures) /\ futures[pos] \in Task
         /\ shared[futures[pos]] # "unset"
         /\ \/ /\ shared[futures[pos]] = "exception"
               /\ caller' = "unwinding" /\ verdict' = "raised" /\ results' = results /\ pos' = pos
            \/ /\ shared[futures[pos]] # "exception"
               /\ caller' = caller /\ verdict' = verdict
               /\ results' = Append(results, Result(futures[pos])) /\ pos' = pos + 1
         /\ UNCHANGED <<tasks, futures, get, thread, shared>>
<1>1. pos \in 1..Len(futures) /\ futures[pos] \in Task
  BY DEF TypeOK, CollectOne
<1> QED BY <1>1, Zenon DEF CollectOne
-----------------------------------------------------------------------------
(* Type correctness. *)

\* The constructor sets every member to a value of its type.
LEMMA TypeInit ==
  ASSUME Init
  PROVE  TypeOK
<1>1. tasks \in Seq(Task) /\ futures \in Seq(Task) /\ results \in Seq(Task \X BOOLEAN)
  BY EmptySeq DEF Init
<1>2. get \in BOOLEAN
  BY DEF Init
<1> QED BY <1>1, <1>2 DEF Init, TypeOK

\* Each step keeps the types.
LEMMA TypeStep ==
  ASSUME TypeOK, [Next]_vars
  PROVE  TypeOK'
<1>1. CASE \E t \in Task : AddProcess(t)
  BY <1>1 DEF TypeOK, AddProcess
<1>2. CASE StartAll
  BY <1>2 DEF TypeOK, StartAll
<1>3. CASE StartOne
  BY <1>3 DEF TypeOK, StartOne
<1>4. CASE StartFails
  BY <1>4 DEF TypeOK, StartFails
<1>5. CASE StartDone
  BY <1>5 DEF TypeOK, StartDone
<1>6. CASE CallGetResults
  BY <1>6 DEF TypeOK, CallGetResults
<1>7. CASE CollectOne
  <2>1. Result(futures[pos]) \in Task \X BOOLEAN
    BY <1>7, CollectOneStep, ResultIsPair
  <2>2. results \in Seq(Task \X BOOLEAN) /\ pos \in Nat \ {0}
    BY DEF TypeOK
  <2>3. Append(results, Result(futures[pos])) \in Seq(Task \X BOOLEAN)
    BY <2>1, <2>2, AppendProperties, Zenon
  <2>4. \/ results' = results /\ pos' = pos
        \/ results' = Append(results, Result(futures[pos])) /\ pos' = pos + 1
    BY <1>7, CollectOneStep, Zenon
  <2>5. results' \in Seq(Task \X BOOLEAN)
    BY <2>2, <2>3, <2>4, Zenon
  <2>6. pos' \in Nat \ {0}
    BY <2>2, <2>4
  <2> QED BY <1>7, <2>5, <2>6, CollectOneStep DEF TypeOK
<1>8. CASE CollectDone
  BY <1>8 DEF TypeOK, CollectDone
<1>9. CASE Finalize
  BY <1>9 DEF TypeOK, Finalize
<1>10. CASE Destroy
  BY <1>10 DEF TypeOK, Destroy
<1>11. ASSUME NEW t \in Task, NEW r \in {"ok", "error", "exception"}, WorkerEnds(t, r) PROVE TypeOK'
  BY <1>11 DEF TypeOK, WorkerEnds
<1>12. CASE UNCHANGED vars
  BY <1>12 DEF TypeOK, vars
<1> QED
  BY <1>1, <1>2, <1>3, <1>4, <1>5, <1>6, <1>7, <1>8, <1>9, <1>10, <1>11, <1>12
     DEF Next, Owner, Worker, WorkerReturns, WorkerThrows, Finished

\* Every variable keeps to its type, for any set of jobs.
THEOREM TypeCorrect == Spec => []TypeOK
  BY TypeInit, TypeStep, PTL DEF Spec
-----------------------------------------------------------------------------
(* Agreement of results and futures. *)

\* A manager that was just constructed has no future, no result and no thread.
LEMMA IInvInit ==
  ASSUME Init
  PROVE  IInv
<1>1. Elems(futures) = {}
  BY DEF Init, Elems
<1>2. ThreadsAndFutures /\ BoundOnce /\ LoopPosition /\ NoCallAfterRaise
  BY <1>1 DEF Init, ThreadsAndFutures, BoundOnce, LoopPosition, NoCallAfterRaise
<1>3. ResultsMatchFutures
  BY DEF Init, ResultsMatchFutures
<1> QED BY <1>2, <1>3, TypeInit DEF IInv

\* addProcess binds a job that is neither bound nor started.
LEMMA IInvAddProcess ==
  ASSUME IInv, NEW t \in Task, AddProcess(t)
  PROVE  BoundOnce'
<1> USE DEF IInv, TypeOK, AddProcess
<1>1. Len(tasks') = Len(tasks) + 1 /\ tasks'[Len(tasks) + 1] = t
  OBVIOUS
<1>2. \A i \in 1..Len(tasks) : tasks'[i] = tasks[i] /\ tasks[i] # t
  BY ElemsIndex
<1>3. Elems(futures)' = Elems(futures)
  BY DEF Elems
<1> QED BY <1>1, <1>2, <1>3 DEF BoundOnce

\* startAll's loop gives a job without a future its future: all the parts.
LEMMA IInvStart ==
  ASSUME IInv, StartOne \/ StartFails
  PROVE  ThreadsAndFutures' /\ BoundOnce' /\ LoopPosition' /\ ResultsMatchFutures' /\ NoCallAfterRaise'
<1> DEFINE u == tasks[pos]
<1>1. pos \in 1..Len(tasks) /\ u \in Task /\ caller = "starting" /\ futures' = Append(futures, u)
  BY DEF IInv, TypeOK, StartOne, StartFails
<1>2. u \notin Elems(futures)
  BY <1>1 DEF IInv, BoundOnce
<1>3. Elems(futures)' = Elems(futures) \cup {u}
  <2>1. futures \in Seq(Task)
    BY DEF IInv, TypeOK
  <2> HIDE DEF u
  <2>2. Elems(Append(futures, u)) = Elems(futures) \cup {u}
    BY <1>1, <2>1, ElemsAppend
  <2>. QED BY <1>1, <2>2 DEF Elems
<1>4. ThreadsAndFutures'
  <2> SUFFICES ASSUME NEW t \in Task
               PROVE  /\ t \notin Elems(futures)' => thread'[t] = "none" /\ shared'[t] = "unset"
                      /\ thread'[t] = "running" => shared'[t] = "unset"
                      /\ thread'[t] = "exited" => shared'[t] # "unset"
                      /\ t \in Elems(futures)' /\ thread'[t] = "none" => shared'[t] = "exception"
    BY DEF ThreadsAndFutures
  <2>1. CASE StartOne
    BY <1>1, <1>2, <1>3, <2>1 DEF IInv, TypeOK, ThreadsAndFutures, StartOne
  <2>2. CASE StartFails
    BY <1>1, <1>2, <1>3, <2>2 DEF IInv, TypeOK, ThreadsAndFutures, StartFails
  <2> QED BY <2>1, <2>2
<1>5. BoundOnce'
  <2>1. tasks' = tasks /\ ((caller' = "starting" /\ pos' = pos + 1) \/ caller' = "unwinding")
    BY <1>1 DEF StartOne, StartFails
  <2>2. ASSUME caller' = "starting", NEW i \in 1..Len(tasks), i >= pos + 1
        PROVE  tasks[i] \notin Elems(futures)'
    BY <1>1, <1>3, <2>2 DEF IInv, TypeOK, BoundOnce
  <2> QED BY <2>1, <2>2 DEF IInv, BoundOnce
<1>6. LoopPosition'
  BY <1>1 DEF IInv, LoopPosition, StartOne, StartFails
<1>7. ResultsMatchFutures'
  <2>1. Len(futures') = Len(futures) + 1 /\ \A i \in 1..Len(futures) : futures'[i] = futures[i]
    BY <1>1 DEF IInv, TypeOK
  <2>2. \A i \in 1..Len(futures) : futures[i] \in Task /\ futures[i] # u
    BY <1>2, ElemsIndex DEF IInv, TypeOK
  <2>3. \A t \in Task : t # u => thread'[t] = thread[t] /\ shared'[t] = shared[t]
    BY <1>1 DEF IInv, TypeOK, StartOne, StartFails
  <2>4. results' = results
    BY DEF StartOne, StartFails
  <2>5. Len(results) \in Nat /\ Len(futures) \in Nat /\ Len(results) <= Len(futures)
    BY DEF IInv, TypeOK, ResultsMatchFutures
  <2>6. ASSUME NEW i \in 1..Len(results)
        PROVE  /\ thread'[futures'[i]] = "exited" /\ shared'[futures'[i]] # "exception"
               /\ results[i] = Result(futures[i])'
    <3>1. i \in 1..Len(futures)
      BY <2>5
    <3>2. futures'[i] = futures[i] /\ futures[i] \in Task /\ futures[i] # u
      BY <2>1, <2>2, <3>1
    <3>3. thread[futures[i]] = "exited" /\ shared[futures[i]] # "exception" /\ results[i] = Result(futures[i])
      BY DEF IInv, ResultsMatchFutures
    <3>4. shared'[futures'[i]] = shared[futures[i]]
      BY <2>3, <3>2
    <3>5. Result(futures[i])' = Result(futures[i])
      BY <3>2, <3>4, Zenon DEF Result
    <3> QED BY <2>3, <3>2, <3>3, <3>4, <3>5
  <2> QED BY <2>1, <2>4, <2>5, <2>6 DEF ResultsMatchFutures
<1>8. NoCallAfterRaise'
  BY <1>1 DEF IInv, NoCallAfterRaise, StartOne, StartFails
<1> QED BY <1>4, <1>5, <1>6, <1>7, <1>8

\* One turn of getResults' loop adds the result of the next future.
LEMMA IInvCollectOne ==
  ASSUME IInv, CollectOne
  PROVE  LoopPosition' /\ ResultsMatchFutures'
<1>1. /\ results \in Seq(Task \X BOOLEAN) /\ Len(results) \in Nat /\ caller = "collecting"
      /\ pos = Len(results) + 1 /\ ~get /\ pos \in 1..Len(futures) /\ futures[pos] \in Task
      /\ UNCHANGED <<tasks, futures, get, thread, shared>>
  BY CollectOneStep DEF IInv, TypeOK, LoopPosition
<1>2. \A t \in Task : Result(t)' = Result(t)
  BY <1>1, Zenon DEF Result
<1>3. CASE results' = results /\ caller' = "unwinding"
  BY <1>1, <1>2, <1>3 DEF IInv, LoopPosition, ResultsMatchFutures, Result
<1>4. CASE /\ results' = Append(results, Result(futures[pos])) /\ pos' = pos + 1 /\ caller' = caller
           /\ shared[futures[pos]] # "exception"
  <2>1. Result(futures[pos]) \in Task \X BOOLEAN
    BY <1>1, ResultIsPair
  <2>2. /\ Len(results') = Len(results) + 1
        /\ \A i \in 1..Len(results) : results'[i] = results[i]
        /\ results'[Len(results) + 1] = Result(futures[pos])
    BY <1>1, <1>4, <2>1, AppendProperties
  <2>3. thread[futures[pos]] = "exited"
    <3>1. shared[futures[pos]] # "unset" /\ futures[pos] \in Elems(futures)
      BY <1>1, CollectOneStep, ElemsIndex DEF IInv, TypeOK
    <3> QED BY <1>1, <1>4, <3>1 DEF IInv, TypeOK, ThreadsAndFutures
  <2>4. \A i \in 1..Len(results) : /\ thread[futures[i]] = "exited" /\ shared[futures[i]] # "exception"
                                   /\ results[i] = Result(futures[i])
    BY DEF IInv, ResultsMatchFutures
  <2>5. ASSUME NEW i \in 1..Len(results')
        PROVE  /\ thread'[futures'[i]] = "exited" /\ shared'[futures'[i]] # "exception"
               /\ results'[i] = Result(futures[i])
    <3>1. CASE i \in 1..Len(results)
      BY <1>1, <2>2, <2>4, <3>1
    <3>2. CASE i = Len(results) + 1
      BY <1>1, <1>4, <2>2, <2>3, <3>2
    <3> QED BY <1>1, <2>2, <3>1, <3>2
  <2>6. ResultsMatchFutures'
    <3>1. \A i \in 1..Len(results') : results'[i] = Result(futures[i])'
      BY <1>1, <2>5, Zenon DEF Result
    <3> QED BY <1>1, <2>2, <2>5, <3>1 DEF ResultsMatchFutures
  <2>7. LoopPosition'
    <3>1. caller' = "collecting" /\ pos' = Len(results') + 1
      BY <1>1, <1>4, <2>2
    <3>2. ~get'
      BY <1>1, Zenon
    <3> QED BY <3>1, <3>2, Zenon DEF LoopPosition
  <2> QED BY <2>6, <2>7
<1> QED BY <1>3, <1>4, CollectOneStep DEF IInv

\* A job that ends had a future without a value, so no result is of it.
LEMMA IInvWorkerEnds ==
  ASSUME IInv, NEW t \in Task, NEW r \in {"ok", "error", "exception"}, WorkerEnds(t, r)
  PROVE  ThreadsAndFutures' /\ ResultsMatchFutures'
<1>1. /\ thread[t] = "running" /\ futures' = futures /\ results' = results
      /\ \A u \in Task : u # t => thread'[u] = thread[u] /\ shared'[u] = shared[u]
      /\ thread'[t] = "exited" /\ shared'[t] = r
      /\ Elems(futures)' = Elems(futures)
  BY DEF IInv, TypeOK, WorkerEnds, Elems
<1>2. ThreadsAndFutures'
  BY <1>1 DEF IInv, ThreadsAndFutures
<1>3. ASSUME NEW i \in 1..Len(results)
      PROVE  /\ thread'[futures'[i]] = "exited" /\ shared'[futures'[i]] # "exception"
             /\ results[i] = Result(futures[i])'
  <2>1. /\ thread[futures[i]] = "exited" /\ shared[futures[i]] # "exception"
        /\ results[i] = Result(futures[i]) /\ futures[i] \in Task
    BY DEF IInv, TypeOK, ResultsMatchFutures
  <2>2. thread'[futures'[i]] = "exited" /\ shared'[futures'[i]] = shared[futures[i]] /\ futures'[i] = futures[i]
    BY <1>1, <2>1
  <2> QED BY <2>1, <2>2, Zenon DEF Result
<1>4. ResultsMatchFutures'
  BY <1>1, <1>3 DEF IInv, ResultsMatchFutures
<1> QED BY <1>2, <1>4

\* What no step of the jobs or of the futures touches stays as it was.
LEMMA IInvFrame ==
  ASSUME IInv, UNCHANGED <<futures, thread, shared>>
  PROVE  ThreadsAndFutures' /\ (results' = results => ResultsMatchFutures')
<1>1. ThreadsAndFutures'
  BY DEF IInv, ThreadsAndFutures, Elems
<1>2. ASSUME results' = results PROVE ResultsMatchFutures'
  BY <1>2, Zenon DEF IInv, ResultsMatchFutures, Result
<1> QED BY <1>1, <1>2

\* Each step of the manager and of its jobs keeps the invariant.
LEMMA IInvStep ==
  ASSUME IInv, [Next]_vars
  PROVE  IInv'
<1>0. TypeOK'
  BY TypeStep DEF IInv
<1>1. ASSUME NEW t \in Task, AddProcess(t) PROVE IInv'
  <2>1. UNCHANGED <<futures, results, get, thread, shared, caller, pos, verdict>>
    BY <1>1 DEF AddProcess
  <2>2. LoopPosition' /\ NoCallAfterRaise'
    BY <2>1 DEF IInv, LoopPosition, NoCallAfterRaise
  <2> QED BY <1>0, <1>1, <2>1, <2>2, IInvAddProcess, IInvFrame DEF IInv
<1>2. ASSUME \/ StartAll \/ StartDone \/ CallGetResults \/ CollectDone
             \/ Finalize \/ Destroy \/ UNCHANGED vars
      PROVE  IInv'
  <2>1. UNCHANGED <<futures, thread, shared, results>> /\ Elems(futures)' = Elems(futures)
    BY <1>2 DEF StartAll, StartDone, CallGetResults, CollectDone, Finalize, Destroy, vars, Elems
  <2>2. BoundOnce'
    <3>1. CASE StartAll
      BY <2>1, <3>1 DEF IInv, BoundOnce, StartAll
    <3>2. CASE StartDone
      BY <2>1, <3>2 DEF BoundOnce, StartDone
    <3>3. CASE \/ CallGetResults \/ CollectDone
               \/ Finalize \/ Destroy \/ UNCHANGED vars
      BY <2>1, <3>3 DEF IInv, BoundOnce, CallGetResults, CollectDone, Finalize, Destroy, vars
    <3>. QED BY <1>2, <3>1, <3>2, <3>3
  <2>3. LoopPosition'
    BY <1>2, <2>1 DEF IInv, LoopPosition, StartAll, StartDone, CallGetResults, CollectDone,
                      Finalize, Destroy, vars
  <2>4. NoCallAfterRaise'
    BY <1>2 DEF IInv, NoCallAfterRaise, StartAll, StartDone, CallGetResults, CollectDone,
                Finalize, Destroy, vars
  <2> QED BY <1>0, <2>1, <2>2, <2>3, <2>4, IInvFrame DEF IInv
<1>3. ASSUME StartOne \/ StartFails PROVE IInv'
  BY <1>0, <1>3, IInvStart DEF IInv
<1>4. ASSUME CollectOne PROVE IInv'
  <2>1. UNCHANGED <<tasks, futures, get, thread, shared>> /\ Elems(futures)' = Elems(futures)
    BY <1>4, CollectOneStep DEF IInv, Elems
  <2>2. caller = "collecting" /\ ((caller' = "collecting" /\ verdict' = verdict) \/ caller' = "unwinding")
    BY <1>4, CollectOneStep DEF IInv
  <2>3. BoundOnce' /\ NoCallAfterRaise'
    BY <2>1, <2>2 DEF IInv, BoundOnce, NoCallAfterRaise
  <2> QED BY <1>0, <1>4, <2>1, <2>3, IInvCollectOne, IInvFrame DEF IInv
<1>5. ASSUME NEW t \in Task, NEW r \in {"ok", "error", "exception"}, WorkerEnds(t, r) PROVE IInv'
  <2>1. UNCHANGED <<tasks, futures, results, get, caller, pos, verdict>> /\ Elems(futures)' = Elems(futures)
    BY <1>5 DEF WorkerEnds, Elems
  <2>2. BoundOnce' /\ LoopPosition' /\ NoCallAfterRaise'
    BY <2>1 DEF IInv, BoundOnce, LoopPosition, NoCallAfterRaise
  <2> QED BY <1>0, <1>5, <2>2, IInvWorkerEnds DEF IInv
<1> QED
  BY <1>1, <1>2, <1>3, <1>4, <1>5
     DEF Next, Owner, Worker, WorkerReturns, WorkerThrows, Finished

\* Hence the invariant holds however the owner calls the manager.
LEMMA Invariance == Spec => []IInv
  BY IInvInit, IInvStep, PTL DEF Spec

\* getResults' list is, entry by entry, the outcome of the first futures, each
\* of a job that had ended: for any set of jobs and any order of the calls.
THEOREM ResultsAgree == Spec => []ResultsMatchFutures
  BY Invariance, PTL DEF IInv
-----------------------------------------------------------------------------
(* getResults waits, if it returns. *)

\* Whatever the number of jobs and their outcomes: when a call of getResults
\* returns, every job started before has ended.
THEOREM ReturnWaits == Spec => NormalReturnWaits
<1>1. ASSUME IInv, [Next]_vars, caller = "collecting", caller' = "idle", NEW t \in Elems(futures)
      PROVE  thread'[t] = "exited"
  <2>1. CollectDone
    BY <1>1 DEF Next, Owner, Worker, WorkerReturns, WorkerThrows, WorkerEnds, Finished, vars,
                AddProcess, StartAll, StartOne, StartFails, StartDone, CallGetResults,
                CollectOne, Finalize, Destroy
  <2>2. Len(results) \in Nat /\ Len(futures) \in Nat /\ Len(results) >= Len(futures)
    BY <1>1, <2>1 DEF IInv, TypeOK, LoopPosition, CollectDone
  <2>3. PICK i \in 1..Len(futures) : futures[i] = t
    BY <1>1, ElemsIndex DEF IInv, TypeOK
  <2> QED BY <1>1, <2>1, <2>2, <2>3 DEF IInv, ResultsMatchFutures, CollectDone
<1>2. IInv /\ [Next]_vars =>
        [caller = "collecting" /\ caller' = "idle" =>
           \A t \in Elems(futures) : thread'[t] = "exited"]_vars
  BY <1>1
<1> QED BY <1>2, Invariance, PTL DEF Spec, NormalReturnWaits
-----------------------------------------------------------------------------
(* The manager implements the fork/join. *)

\* The mapping of AsyncManager's FJ, named.
Outcome(t) ==
  IF t \notin Elems(futures) THEN "idle" ELSE IF shared[t] = "unset" THEN "pending" ELSE shared[t]
Joined == IF get THEN {results[i][1] : i \in 1..Len(results)} ELSE {}

\* An empty manager is a fork/join without a job.
LEMMA RefinementInit ==
  ASSUME Init
  PROVE  FJ!Init
<1>1. Elems(futures) = {}
  BY DEF Init, Elems
<1> QED BY <1>1 DEF Init, FJ!Init

\* A job that gets its thread is forked, one that does not is refused.
LEMMA RefinementStart ==
  ASSUME IInv, StartOne \/ StartFails
  PROVE  FJ!Next
<1>1. PICK u \in Task :
        /\ u = tasks[pos] /\ u \notin Elems(futures) /\ verdict # "raised"
        /\ futures' = Append(futures, u) /\ UNCHANGED <<get, results>>
  BY DEF IInv, TypeOK, BoundOnce, NoCallAfterRaise, StartOne, StartFails
<1>2. Elems(futures)' = Elems(futures) \cup {u}
  <2>1. Elems(Append(futures, u)) = Elems(futures) \cup {u}
    BY ElemsAppend DEF IInv, TypeOK
  <2> QED BY <1>1, <2>1 DEF Elems
<1>3. shared[u] = "unset"
  BY <1>1 DEF IInv, ThreadsAndFutures
<1>4. CASE StartOne
  <2>1. \A t \in Task : Outcome(t)' = IF t = u THEN "pending" ELSE Outcome(t)
    BY <1>1, <1>2, <1>3, <1>4 DEF StartOne, Outcome
  <2>2. FJ!Fork(u)
    BY <1>1, <1>4, <2>1 DEF FJ!Fork, StartOne, Outcome
  <2> QED BY <1>1, <2>2 DEF FJ!Next
<1>5. CASE StartFails
  <2>1. \A t \in Task : Outcome(t)' = IF t = u THEN "exception" ELSE Outcome(t)
    BY <1>1, <1>2, <1>5 DEF IInv, TypeOK, StartFails, Outcome
  <2>2. FJ!Refuse(u)
    BY <1>1, <1>5, <2>1 DEF FJ!Refuse, StartFails, Outcome
  <2> QED BY <1>1, <2>2 DEF FJ!Next
<1> QED BY <1>4, <1>5

\* A job that ends settles.
LEMMA RefinementEnd ==
  ASSUME IInv, NEW t \in Task, NEW r \in {"ok", "error", "exception"}, WorkerEnds(t, r)
  PROVE  FJ!Next
<1>1. /\ t \in Elems(futures) /\ shared[t] = "unset"
      /\ Elems(futures)' = Elems(futures) /\ UNCHANGED <<get, results, verdict>>
      /\ shared' = [shared EXCEPT ![t] = r]
  BY DEF IInv, ThreadsAndFutures, WorkerEnds, Elems
<1>2. \A u \in Task : Outcome(u)' = IF u = t THEN r ELSE Outcome(u)
  BY <1>1 DEF IInv, TypeOK, Outcome
<1>3. FJ!Settle(t)
  BY <1>1, <1>2 DEF FJ!Settle, Outcome
<1> QED BY <1>3 DEF FJ!Next

\* With futures and shared states as they were, the mapped outcomes are too.
LEMMA SameOutcomes ==
  ASSUME UNCHANGED <<futures, shared>>
  PROVE  \A t \in Task : Outcome(t)' = Outcome(t)
  BY DEF Outcome, Elems

\* The forked jobs are those with a future.
LEMMA ForkedAreFutures ==
  ASSUME IInv
  PROVE  FJ!Forked = Elems(futures)
<1>1. \A t \in Task : Outcome(t) # "idle" <=> t \in Elems(futures)
  BY DEF IInv, TypeOK, Outcome
<1>2. Elems(futures) \subseteq Task
  BY ElemsIndex DEF IInv, TypeOK
<1> QED BY <1>1, <1>2 DEF FJ!Forked, Outcome

\* A loop that has reached the end has the outcome of every future.
LEMMA RefinementJoin ==
  ASSUME IInv, CollectDone
  PROVE  FJ!Join
<1>1. Len(results) = Len(futures) /\ ~get /\ get' = TRUE /\ UNCHANGED <<futures, shared, results, verdict>>
  BY DEF IInv, TypeOK, LoopPosition, ResultsMatchFutures, CollectDone
<1>2. \A i \in 1..Len(futures) : /\ futures[i] \in Task /\ thread[futures[i]] = "exited"
                                 /\ results[i][1] = futures[i]
  <2> TAKE i \in 1..Len(futures)
  <2>1. futures[i] \in Task /\ thread[futures[i]] = "exited" /\ results[i] = Result(futures[i])
    BY <1>1 DEF IInv, TypeOK, ResultsMatchFutures
  <2> QED BY <2>1, ResultIsPair
<1>3. {results[i][1] : i \in 1..Len(results)} = Elems(futures)
  BY <1>1, <1>2 DEF Elems
<1>4. \A t \in Elems(futures) : Outcome(t) \in {"ok", "error"}
  <2> TAKE t \in Elems(futures)
  <2>1. PICK i \in 1..Len(futures) : futures[i] = t
    BY ElemsIndex DEF IInv, TypeOK
  <2>2. t \in Task /\ thread[t] = "exited" /\ results[i] = Result(t)
    BY <1>1, <1>2, <2>1 DEF IInv, ResultsMatchFutures
  <2>3. shared[t] \in {"ok", "error", "exception"}
    BY <2>2 DEF IInv, TypeOK, ThreadsAndFutures
  <2>4. shared[t] # "exception"
    BY <1>1, <2>1 DEF IInv, ResultsMatchFutures
  <2> QED BY <2>3, <2>4 DEF Outcome
<1>5. \A t \in Task : Outcome(t)' = Outcome(t)
  BY <1>1, SameOutcomes
<1>6. Joined' = Elems(futures)
  BY <1>1, <1>3 DEF Joined
<1>7. [t \in Task |-> Outcome(t)]' = [t \in Task |-> Outcome(t)]
  BY <1>5
<1>8. \A t \in FJ!Forked : t \in Task /\ Outcome(t) \in {"ok", "error"}
  BY <1>4, ForkedAreFutures DEF FJ!Forked
<1>9. Joined' = FJ!Forked
  BY <1>6, ForkedAreFutures
<1> QED BY <1>1, <1>7, <1>8, <1>9 DEF FJ!Join, Outcome, Joined

\* A turn of the loop changes nothing yet, unless it meets an exception.
LEMMA RefinementCollect ==
  ASSUME IInv, CollectOne
  PROVE  FJ!Abort \/ UNCHANGED FJ!vars
<1>1. ~get /\ TypeOK /\ UNCHANGED <<futures, get, shared>>
  BY CollectOneStep DEF IInv, LoopPosition
<1>2. [t \in Task |-> Outcome(t)]' = [t \in Task |-> Outcome(t)]
  BY <1>1, SameOutcomes
<1>3. Joined = {} /\ Joined' = {}
  BY <1>1 DEF Joined
<1>4. CASE shared[futures[pos]] = "exception" /\ verdict' = "raised"
  <2>1. futures[pos] \in Task /\ futures[pos] \in Elems(futures)
    BY <1>1, CollectOneStep, ElemsIndex DEF TypeOK
  <2>2. futures[pos] \in FJ!Forked /\ Outcome(futures[pos]) = "exception"
    BY <1>4, <2>1, ForkedAreFutures DEF Outcome
  <2> QED BY <1>1, <1>2, <1>3, <1>4, <2>1, <2>2 DEF FJ!Abort, Outcome, Joined
<1>5. CASE verdict' = verdict
  BY <1>1, <1>2, <1>3, <1>5 DEF FJ!vars, Outcome, Joined
<1> QED BY <1>1, <1>4, <1>5, CollectOneStep

\* finalize decides as the fork/join does.
LEMMA RefinementFinalize ==
  ASSUME IInv, Finalize
  PROVE  FJ!Decide
<1>1. UNCHANGED <<futures, shared, get, results>> /\ caller = "idle" /\ verdict # "raised"
  BY DEF IInv, NoCallAfterRaise, Finalize
<1>2. [t \in Task |-> Outcome(t)]' = [t \in Task |-> Outcome(t)]
  BY <1>1, SameOutcomes
<1>3. Joined' = Joined
  BY <1>1 DEF Joined
<1>4. CASE ~get
  BY <1>1, <1>2, <1>3, <1>4 DEF Finalize, FJ!Decide, Outcome, Joined
<1>5. CASE get
  <2>1. \A i \in 1..Len(results) :
          /\ futures[i] \in Task /\ results[i][1] = futures[i]
          /\ results[i][2] = (Outcome(futures[i]) = "ok")
    <3> TAKE i \in 1..Len(results)
    <3>1. i \in 1..Len(futures) /\ results[i] = Result(futures[i])
      BY DEF IInv, TypeOK, ResultsMatchFutures
    <3>2. futures[i] \in Task /\ futures[i] \in Elems(futures)
      BY <3>1, ElemsIndex DEF IInv, TypeOK
    <3>3. (shared[futures[i]] = "ok") = (Outcome(futures[i]) = "ok")
      BY <3>2 DEF Outcome
    <3> QED BY <3>1, <3>2, <3>3, ResultIsPair
  <2>2. (\A i \in 1..Len(results) : results[i][2]) <=> (\A t \in Joined : Outcome(t) = "ok")
    <3>1. \A i \in 1..Len(results) : futures[i] \in Joined
      BY <1>5, <2>1 DEF Joined
    <3>2. \A t \in Joined : \E i \in 1..Len(results) : t = futures[i]
      BY <1>5, <2>1 DEF Joined
    <3>3. ASSUME \A i \in 1..Len(results) : results[i][2], NEW t \in Joined PROVE Outcome(t) = "ok"
      <4>1. PICK i \in 1..Len(results) : t = futures[i]
        BY <3>2
      <4> QED BY <2>1, <3>3, <4>1, Zenon
    <3>4. ASSUME \A t \in Joined : Outcome(t) = "ok", NEW i \in 1..Len(results) PROVE results[i][2]
      BY <2>1, <3>1, <3>4, Zenon
    <3> QED BY <3>3, <3>4
  <2>3. Joined \subseteq Task
    BY <1>5, <2>1 DEF Joined
  <2>4. verdict' = IF \A t \in Joined : Outcome(t) = "ok" THEN "true" ELSE "raised"
    BY <1>5, <2>2, <2>3 DEF Finalize
  <2> QED BY <1>1, <1>2, <1>3, <1>5, <2>3, <2>4 DEF FJ!Decide, Outcome, Joined
<1> QED BY <1>4, <1>5

\* What is not a step of the fork/join is a stutter.
LEMMA RefinementStutter ==
  ASSUME UNCHANGED <<futures, shared, get, results, verdict>>
  PROVE  UNCHANGED FJ!vars
<1>1. [t \in Task |-> Outcome(t)]' = [t \in Task |-> Outcome(t)]
  BY SameOutcomes
<1>2. Joined' = Joined
  BY DEF Joined
<1> QED BY <1>1, <1>2 DEF FJ!vars, Outcome, Joined

\* Each call, each turn of a loop and each end of a thread is a step of the
\* fork/join or leaves it alone.
LEMMA RefinementStep ==
  ASSUME IInv, [Next]_vars
  PROVE  [FJ!Next]_(FJ!vars)
<1>1. ASSUME NEW t \in Task, AddProcess(t) PROVE UNCHANGED FJ!vars
  BY <1>1, RefinementStutter DEF AddProcess
<1>2. ASSUME StartAll \/ StartDone \/ CallGetResults \/ Destroy \/ UNCHANGED vars
      PROVE  UNCHANGED FJ!vars
  BY <1>2, RefinementStutter DEF StartAll, StartDone, CallGetResults, Destroy, vars
<1>3. ASSUME NEW t \in Task, NEW r \in {"ok", "error", "exception"}, WorkerEnds(t, r)
      PROVE  FJ!Next
  BY <1>3, RefinementEnd
<1>4. CollectDone => FJ!Next
  BY RefinementJoin DEF FJ!Next
<1>5. CollectOne => FJ!Next \/ UNCHANGED FJ!vars
  BY RefinementCollect DEF FJ!Next
<1>6. Finalize => FJ!Next
  BY RefinementFinalize DEF FJ!Next
<1> QED
  BY <1>1, <1>2, <1>3, <1>4, <1>5, <1>6, RefinementStart
     DEF Next, Owner, Worker, WorkerReturns, WorkerThrows, Finished

\* AsyncManager is the fork/join it promises to be: each behaviour of the
\* threads, futures and loops is one of ForkJoin.
THEOREM Refinement == Spec => ImplementsForkJoin
  BY RefinementInit, RefinementStep, Invariance, PTL DEF Spec, FJ!Spec, ImplementsForkJoin

-----------------------------------------------------------------------------
(* The run. *)


\* In a step of the run the manager takes one of its own steps, or none.
LEMMA RunStepIsManagerStep ==
  ASSUME [RunNext]_allVars
  PROVE  [Next]_vars
<1>1. CASE Main
  BY <1>1 DEF Main, Bind, WrongCount, Launch, LaunchFails, Starting, Collecting, StopRenderer, JoinRenderer,
              Judge, DestroyRenderer, DestroyManager, DestroyPlugin, DestroyTables, Exit, Abort, End,
              Next, Owner
<1>2. CASE Interrupt \/ DrawingEnds
  BY <1>2 DEF Interrupt, End, DrawingEnds
<1>3. ASSUME NEW t \in Task, Job(t) PROVE [Next]_vars
  <2>1. (\E r \in {"ok", "error", "exception"} : WorkerEnds(t, r)) \/ UNCHANGED vars
    BY <1>3 DEF Job, Lookup, Choose, Check, Confirm, Register, Open, Write, After, Ends, Goto
  <2> QED BY <2>1 DEF Next, Worker, WorkerReturns, WorkerThrows
<1>4. CASE Over \/ UNCHANGED allVars
  BY <1>4 DEF Over, allVars
<1> QED BY <1>1, <1>2, <1>3, <1>4 DEF RunNext

\* Each run of a command is a behaviour of the manager it uses.
THEOREM RunUsesManager == RunSpec => Spec
<1>1. RunInit => Init
  BY DEF RunInit
<1> QED BY <1>1, RunStepIsManagerStep, PTL DEF RunSpec, Spec

\* Hence its results are those of its futures.
COROLLARY RunResultsAgree == RunSpec => []ResultsMatchFutures
  BY RunUsesManager, ResultsAgree, PTL
-----------------------------------------------------------------------------
(* What the join protects. *)

NoneRunning == \A t \in Task : thread[t] # "running"

\* The objects a run begins with.
Built == IF HasRenderer THEN Objects ELSE Objects \ {"renderer"}

\* From the end of the join on, and wherever something has been destroyed or
\* main has returned, a job that still runs is there because one threw.
JoinProtects ==
  /\ stage \in {"stop", "verdict", "leave"} \/ alive # Built \/ exitCode \in {0, 1} =>
       Threw \/ NoneRunning
  /\ alive # Built => stage \in {"leave", "exited"}
  /\ exitCode # -1 => stage = "exited"
  /\ stage = "bind" => NoneRunning

\* When run() begins, everything the jobs point to is alive.
LEMMA JoinProtectsInit ==
  ASSUME RunInit
  PROVE  JoinProtects
  BY DEF RunInit, Init, JoinProtects, NoneRunning, Built, HasRenderer

\* An exception stays in the future that holds it.
LEMMA ThrewStays ==
  ASSUME IInv, [Next]_vars, Threw
  PROVE  Threw'
<1>1. PICK t \in Task : shared[t] = "exception"
  BY DEF Threw
<1>2. thread[t] # "running"
  BY <1>1 DEF IInv, ThreadsAndFutures
<1>3. ASSUME StartFails PROVE shared'[t] = "exception"
  BY <1>1, <1>3 DEF IInv, TypeOK, StartFails
<1>4. ASSUME NEW u \in Task, NEW r, WorkerEnds(u, r) PROVE shared'[t] = "exception"
  BY <1>1, <1>2, <1>4 DEF IInv, TypeOK, WorkerEnds
<1>5. shared'[t] = "exception"
  BY <1>1, <1>3, <1>4
     DEF Next, Owner, Worker, WorkerReturns, WorkerThrows, Finished, vars,
         AddProcess, StartAll, StartOne, StartDone, CallGetResults, CollectOne, CollectDone,
         Finalize, Destroy
<1> QED BY <1>5 DEF Threw

\* At the end of getResults' loop no job runs: one without a future has no
\* thread, and the others have been collected.
LEMMA JoinedNoneRunning ==
  ASSUME IInv, CollectDone
  PROVE  NoneRunning'
<1>1. Len(results) \in Nat /\ Len(futures) \in Nat /\ Len(results) >= Len(futures) /\ thread' = thread
  BY DEF IInv, TypeOK, LoopPosition, CollectDone
<1>2. ASSUME NEW t \in Elems(futures) PROVE thread[t] # "running"
  <2>1. PICK i \in 1..Len(futures) : futures[i] = t
    BY ElemsIndex DEF IInv, TypeOK
  <2> QED BY <1>1, <2>1 DEF IInv, ResultsMatchFutures
<1> QED BY <1>1, <1>2 DEF NoneRunning, IInv, ThreadsAndFutures

\* The teardown starts only behind the join or with an exception in a future.
LEMMA JoinProtectsStep ==
  ASSUME IInv, IInv', JoinProtects, [RunNext]_allVars
  PROVE  JoinProtects'
<1>1. Threw => Threw'
  BY RunStepIsManagerStep, ThrewStays
<1>2. ASSUME UNCHANGED <<cmd, thread, alive, exitCode>>,
             stage' \in {"stop", "verdict", "leave"} => stage \in {"stop", "verdict", "leave"},
             stage \in {"leave", "exited"} => stage' = stage,
             stage' = "bind" => stage = "bind"
      PROVE  JoinProtects'
  BY <1>1, <1>2 DEF JoinProtects, NoneRunning, Built, HasRenderer
<1>3. CASE Bind \/ Launch \/ LaunchFails \/ StopRenderer \/ JoinRenderer \/ Judge \/ DestroyManager
           \/ DrawingEnds \/ Over \/ UNCHANGED allVars
  <2>1. UNCHANGED <<cmd, thread, alive, exitCode>>
    BY <1>3 DEF Bind, AddProcess, Launch, StartAll, LaunchFails, StopRenderer, JoinRenderer, Judge,
                Finalize, DestroyManager, Destroy, DrawingEnds, Over, runVars, allVars, vars
  <2>2. /\ stage' \in {"stop", "verdict", "leave"} => stage \in {"stop", "verdict", "leave"}
        /\ stage \in {"leave", "exited"} => stage' = stage
        /\ stage' = "bind" => stage = "bind"
    BY <1>3 DEF Bind, Launch, LaunchFails, StopRenderer, JoinRenderer, Judge, DestroyManager,
                DrawingEnds, Over, runVars, allVars
  <2> QED BY <1>2, <2>1, <2>2
<1>4. CASE Starting
  BY <1>4 DEF Starting, JoinProtects, Built, HasRenderer
<1>5. CASE Collecting
  <2>1. UNCHANGED <<cmd, alive, exitCode>> /\ alive = Built /\ exitCode = -1
    BY <1>5 DEF Collecting, JoinProtects
  <2>2. stage' \in {"stop", "verdict", "leave"} => Threw' \/ NoneRunning'
    <3>1. ASSUME stage = "join", CollectOne, caller' = "unwinding" PROVE Threw'
      <4>1. futures[pos] \in Task /\ shared' = shared
        BY <3>1, CollectOneStep DEF IInv
      <4>2. shared[futures[pos]] = "exception"
        BY <3>1, CollectOneStep DEF IInv
      <4> QED BY <4>1, <4>2 DEF Threw
    <3>2. CollectDone => NoneRunning'
      BY JoinedNoneRunning
    <3> QED BY <1>5, <3>1, <3>2 DEF Collecting
  <2>3. stage' # "bind"
    BY <1>5 DEF Collecting
  <2> QED BY <2>1, <2>2, <2>3 DEF JoinProtects, Built, HasRenderer
<1>6. CASE DestroyRenderer \/ DestroyPlugin \/ DestroyTables
  <2>1. UNCHANGED <<cmd, thread, exitCode, stage>> /\ stage = "leave"
    BY <1>6 DEF DestroyRenderer, DestroyPlugin, DestroyTables, vars
  <2> QED BY <1>1, <2>1 DEF JoinProtects, NoneRunning
<1>7. CASE WrongCount \/ Exit \/ Abort \/ Interrupt
  <2>1. UNCHANGED <<cmd, thread, alive>> /\ stage' = "exited"
    BY <1>7 DEF WrongCount, Exit, Abort, Interrupt, End, vars
  <2>2. exitCode' \in {0, 1} => stage \in {"bind", "leave"}
    BY <1>7 DEF WrongCount, Exit, Abort, Interrupt, End
  <2> QED BY <1>1, <2>1, <2>2 DEF JoinProtects, NoneRunning, Built, HasRenderer
<1>8. ASSUME NEW t \in Task, Job(t) PROVE JoinProtects'
  <2>1. UNCHANGED <<cmd, alive, exitCode, stage>> /\ thread[t] = "running"
    BY <1>8 DEF Job, Lookup, Choose, Check, Confirm, Register, Open, Write, After, Ends, Goto, At
  <2> QED BY <1>1, <2>1 DEF JoinProtects, NoneRunning, Built, HasRenderer
<1> QED
  BY <1>3, <1>4, <1>5, <1>6, <1>7, <1>8 DEF RunNext, Main

\* Hence the join protects the jobs throughout the run.
LEMMA JoinProtectsInvariant == RunSpec => [](IInv /\ JoinProtects)
<1>1. RunInit => IInv /\ JoinProtects
  BY JoinProtectsInit, IInvInit DEF RunInit
<1>2. IInv /\ JoinProtects /\ [RunNext]_allVars => IInv' /\ JoinProtects'
  BY JoinProtectsStep, IInvStep, RunStepIsManagerStep
<1> QED BY <1>1, <1>2, PTL DEF RunSpec

\* However many partitions a command has: if no job throws, neither return from
\* main nor a failed job cuts another job off.
THEOREM NoCutOff == RunSpec => []CutOffOnlyAfterThrow
<1>1. JoinProtects => CutOffOnlyAfterThrow
  BY DEF JoinProtects, CutOffOnlyAfterThrow, NoneRunning
<1> QED BY <1>1, JoinProtectsInvariant, PTL

\* And no job's renderer, plugin or table is destroyed while it runs.
THEOREM NothingDestroyedUnderJobs == RunSpec => []DestroyedUnderJobOnlyAfterThrow
<1>1. ASSUME JoinProtects, NEW t \in Task, ~(Needs(t) \subseteq alive) PROVE Threw
  <2>1. thread[t] = "running"
    BY <1>1 DEF Needs
  <2>2. alive # Built
    BY <1>1 DEF Needs, Built, Objects
  <2> QED BY <1>1, <2>1, <2>2 DEF JoinProtects, NoneRunning
<1>2. JoinProtects => DestroyedUnderJobOnlyAfterThrow
  BY <1>1 DEF DestroyedUnderJobOnlyAfterThrow
<1> QED BY <1>2, JoinProtectsInvariant, PTL
-----------------------------------------------------------------------------
(* Type correctness of the run. *)

\* A run begins with values of the types, whatever the command line says.
LEMMA RunTypeInit ==
  ASSUME RunInit
  PROVE  RunTypeOK
<1>1. alive \in SUBSET Objects
  BY DEF RunInit, Objects
<1>2. running \in BOOLEAN
  BY DEF RunInit
<1>. QED BY <1>1, <1>2, TypeInit DEF RunInit, RunTypeOK, Steps

\* The steps of the jobs write each variable of the run within its type.
LEMMA JobTypes ==
  ASSUME RunTypeOK, NEW t \in Task, Job(t)
  PROVE  /\ UNCHANGED <<cmd, stage, alive, drawing, running, exitCode>>
         /\ job' \in [Task -> Steps] /\ full' \in [Task -> BOOLEAN] /\ exists' \in SUBSET Place
         /\ writers' \in [Place -> SUBSET Task] /\ image' \in [Task -> BOOLEAN]
<1>. USE CommandRunAssumption DEF RunTypeOK, Goto, Ends, At, Steps
<1>1. CASE Lookup(t) \/ Choose(t) \/ Check(t) \/ Confirm(t) \/ Register(t)
  BY <1>1 DEF Lookup, Choose, Check, Confirm, Register
<1>2. CASE Open(t)
  BY <1>2 DEF Open
<1>3. CASE Write(t)
  <2>1. Target[t] \in Place
    OBVIOUS
  <2>2. ASSUME NEW s \in {"write", "after"},
               writers' = [writers EXCEPT ![Target[t]] = @ \cup {t}],
               full' = [full EXCEPT ![t] = s = "after" /\ ~(cmd.kind = "backup" /\ t \in BadRead)]
        PROVE  writers' \in [Place -> SUBSET Task] /\ full' \in [Task -> BOOLEAN]
    <3>1. (s = "after" /\ ~(cmd.kind = "backup" /\ t \in BadRead)) \in BOOLEAN
      OBVIOUS
    <3>2. full' \in [Task -> BOOLEAN]
      BY <2>2, <3>1, Zenon
    <3>. QED BY <2>1, <2>2, <3>2
  <2>. QED BY <1>3, <2>2 DEF Write
<1>4. CASE After(t)
  BY <1>4 DEF After
<1>. QED BY <1>1, <1>2, <1>3, <1>4 DEF Job

\* Each step of the run keeps the types.
LEMMA RunTypeStep ==
  ASSUME RunTypeOK, [RunNext]_allVars
  PROVE  RunTypeOK'
<1>1. TypeOK'
  BY RunStepIsManagerStep, TypeStep DEF RunTypeOK
<1>2. CASE Bind \/ WrongCount \/ Launch \/ LaunchFails \/ Starting \/ Collecting
  <2>1. running' = running \/ running' = TRUE
    BY <1>2, Zenon DEF Bind, WrongCount, Launch, LaunchFails, Starting, Collecting, runVars
  <2>2. running' \in BOOLEAN
    BY <2>1, Zenon DEF RunTypeOK
  <2>3. /\ UNCHANGED <<cmd, alive, job, full, exists, writers, image>>
        /\ drawing' \in {drawing, "running"} /\ exitCode' \in {exitCode, 1}
        /\ stage' \in {stage, "exited", "start", "abort", "join", "leave", "stop"}
    BY <1>2 DEF Bind, WrongCount, Launch, LaunchFails, Starting, Collecting, runVars
  <2>. QED BY <1>1, <2>2, <2>3 DEF RunTypeOK
<1>3. CASE StopRenderer \/ JoinRenderer \/ Judge \/ DestroyManager \/ Exit \/ Abort \/ Interrupt \/ DrawingEnds
  <2>1. running' = running \/ running' = FALSE
    BY <1>3, Zenon DEF StopRenderer, JoinRenderer, Judge, DestroyManager, Exit, Abort, Interrupt, End, DrawingEnds,
                       runVars
  <2>2. running' \in BOOLEAN
    BY <2>1, Zenon DEF RunTypeOK
  <2>3. /\ UNCHANGED <<cmd, alive, job, full, exists, writers, image>>
        /\ drawing' \in {drawing, "none", "exited"} /\ exitCode' \in {exitCode, 0, 1, 130, 134}
        /\ stage' \in {stage, "exited", "verdict", "leave"}
    BY <1>3 DEF StopRenderer, JoinRenderer, Judge, DestroyManager, Exit, Abort, Interrupt, End, DrawingEnds, runVars
  <2>. QED BY <1>1, <2>2, <2>3 DEF RunTypeOK
<1>4. CASE DestroyRenderer \/ DestroyPlugin \/ DestroyTables
  BY <1>1, <1>4 DEF DestroyRenderer, DestroyPlugin, DestroyTables, RunTypeOK
<1>5. ASSUME NEW t \in Task, Job(t) PROVE RunTypeOK'
  BY <1>1, <1>5, JobTypes DEF RunTypeOK
<1>6. CASE Over \/ UNCHANGED allVars
  BY <1>1, <1>6 DEF Over, allVars, runVars, RunTypeOK
<1>. QED BY <1>2, <1>3, <1>4, <1>5, <1>6 DEF RunNext, Main

\* The types of the whole run, for any set of jobs and places.
THEOREM RunTypeCorrect == RunSpec => []RunTypeOK
  BY RunTypeInit, RunTypeStep, PTL DEF RunSpec
-----------------------------------------------------------------------------
(* What the jobs have done when they end. *)

\* A backup of a partition it cannot read goes on as if it had read it.
Excused(t) == cmd.kind = "backup" /\ t \in BadRead

Deletes == cmd.delete => cmd.kind = "flash"

\* A job is at its first step until it is started and at its last when it has
\* ended; one that got behind its write, or that succeeded, has written its data.
JobSteps ==
  \A t \in Task :
    /\ thread[t] = "none" => job[t] = "lookup"
    /\ job[t] = "end" <=> thread[t] = "exited"
    /\ job[t] = "after" \/ shared[t] = "ok" => full[t] \/ Excused(t)
    /\ ~image[t] => job[t] = "end" /\ full[t]

JobsRule == RunTypeOK /\ Deletes /\ JobSteps

\* No job has moved when run() begins.
LEMMA JobsRuleInit ==
  ASSUME RunInit
  PROVE  JobsRule
<1>1. Deletes
  BY DEF RunInit, Deletes
<1>2. JobSteps
  BY DEF RunInit, Init, JobSteps
<1>. QED BY <1>1, <1>2, RunTypeInit DEF JobsRule

\* A step of the main thread, of the renderer's or of the user leaves the jobs
\* where they are, but for the thread or the exception a new future comes with.
LEMMA OthersLeaveJobs ==
  ASSUME IInv, RunTypeOK, [RunNext]_allVars, ~ \E t \in Task : Job(t)
  PROVE  /\ UNCHANGED <<cmd, job, full, exists, writers, image>>
         /\ \A t \in Task :
              \/ thread'[t] = thread[t] /\ shared'[t] = shared[t]
              \/ thread[t] = "none" /\ thread'[t] = "running" /\ shared'[t] = shared[t]
              \/ thread'[t] = thread[t] /\ shared'[t] = "exception"
<1>1. UNCHANGED <<cmd, job, full, exists, writers, image>>
  BY DEF RunNext, Main, Bind, WrongCount, Launch, LaunchFails, Starting, Collecting, StopRenderer, JoinRenderer,
         Judge, DestroyRenderer, DestroyManager, DestroyPlugin, DestroyTables, Exit, Abort, End, Interrupt,
         DrawingEnds, Over, runVars, allVars
<1>2. \/ StartOne \/ StartFails
      \/ UNCHANGED <<thread, shared>>
  BY DEF RunNext, Main, Bind, WrongCount, Launch, LaunchFails, Starting, Collecting, StopRenderer, JoinRenderer,
         Judge, DestroyRenderer, DestroyManager, DestroyPlugin, DestroyTables, Exit, Abort, End, Interrupt,
         DrawingEnds, Over, vars, allVars,
         AddProcess, StartAll, StartDone, CallGetResults, CollectOne, CollectDone, Finalize, Destroy
<1>3. ASSUME StartOne \/ StartFails
      PROVE  tasks[pos] \in Task /\ thread[tasks[pos]] = "none"
  <2>1. pos \in 1..Len(tasks) /\ caller = "starting"
    BY <1>3 DEF IInv, TypeOK, StartOne, StartFails
  <2>2. tasks[pos] \in Task /\ tasks[pos] \notin Elems(futures)
    BY <2>1 DEF IInv, TypeOK, BoundOnce
  <2>. QED BY <2>2 DEF IInv, ThreadsAndFutures
<1>4. CASE StartOne
  BY <1>1, <1>3, <1>4 DEF StartOne, IInv, TypeOK
<1>5. CASE StartFails
  BY <1>1, <1>3, <1>5 DEF StartFails, IInv, TypeOK
<1>. QED BY <1>1, <1>2, <1>4, <1>5

\* A job gets behind its write only by writing everything, unless the bad sector
\* is not told; only from there can it succeed or lose its image.
LEMMA JobDoes ==
  ASSUME IInv, JobsRule, NEW t \in Task, Job(t)
  PROVE  /\ cmd' = cmd
         /\ \A u \in Task \ {t} : /\ thread'[u] = thread[u] /\ shared'[u] = shared[u]
                                  /\ job'[u] = job[u] /\ full'[u] = full[u] /\ image'[u] = image[u]
         /\ thread'[t] # "none"
         /\ job'[t] = "end" <=> thread'[t] = "exited"
         /\ job'[t] = "after" \/ shared'[t] = "ok" => full'[t] \/ Excused(t)
         /\ ~image'[t] => job'[t] = "end" /\ full'[t]
<1>1. thread[t] = "running" /\ shared[t] = "unset" /\ job[t] # "end" /\ image[t]
  <2>1. thread[t] = "running"
    BY DEF Job, Lookup, Choose, Check, Confirm, Register, Open, Write, After, At
  <2>. QED BY <2>1 DEF IInv, ThreadsAndFutures, JobsRule, JobSteps
<1>2. /\ cmd' = cmd
      /\ \A u \in Task \ {t} : thread'[u] = thread[u] /\ shared'[u] = shared[u] /\ job'[u] = job[u]
  BY DEF Job, Lookup, Choose, Check, Confirm, Register, Open, Write, After, Ends, Goto, WorkerEnds, vars,
         JobsRule, RunTypeOK, TypeOK
<1>3. \A u \in Task \ {t} : full'[u] = full[u] /\ image'[u] = image[u]
  BY DEF Job, Lookup, Choose, Check, Confirm, Register, Open, Write, After, Ends, Goto, JobsRule, RunTypeOK
\* The steps that end before anything is promised.
<1>4. ASSUME NEW r \in {"error", "exception"}, Ends(t, r)
      PROVE  thread'[t] = "exited" /\ job'[t] = "end" /\ shared'[t] # "ok" /\ image' = image
  BY <1>4 DEF Ends, WorkerEnds, JobsRule, RunTypeOK, TypeOK
<1>5. ASSUME NEW s \in Steps, Goto(t, s)
      PROVE  thread'[t] = "running" /\ job'[t] = s /\ shared'[t] = "unset"
  BY <1>1, <1>5 DEF Goto, vars, JobsRule, RunTypeOK, TypeOK
<1>6. CASE Lookup(t) \/ Choose(t) \/ Check(t) \/ Confirm(t) \/ Register(t) \/ Open(t)
  <2>1. \/ \E r \in {"error", "exception"} : Ends(t, r)
        \/ (\E s \in Steps \ {"after", "end"} : Goto(t, s)) /\ image' = image
    <3>1. CASE Lookup(t)
      BY <3>1 DEF Lookup, Steps
    <3>2. CASE Choose(t)
      BY <3>2 DEF Choose, Steps
    <3>3. CASE Check(t)
      BY <3>3 DEF Check, Steps
    <3>4. CASE Confirm(t)
      BY <3>4 DEF Confirm, Steps
    <3>5. CASE Register(t)
      BY <3>5 DEF Register, Steps
    <3>6. CASE Open(t)
      BY <3>6 DEF Open, Steps
    <3>. QED BY <1>6, <3>1, <3>2, <3>3, <3>4, <3>5, <3>6
  <2>. QED BY <1>1, <1>2, <1>3, <1>4, <1>5, <2>1
<1>7. CASE Write(t)
  <2>1. ASSUME NEW s \in {"write", "after"}, Goto(t, s),
               full' = [full EXCEPT ![t] = s = "after" /\ ~(cmd.kind = "backup" /\ t \in BadRead)],
               image' = image
        PROVE  /\ thread'[t] = "running" /\ job'[t] = s /\ shared'[t] = "unset" /\ image'[t]
               /\ s = "after" => full'[t] \/ Excused(t)
    <3>1. full'[t] = (s = "after" /\ ~(cmd.kind = "backup" /\ t \in BadRead))
      BY <2>1 DEF JobsRule, RunTypeOK
    <3>2. s = "after" => full'[t] \/ Excused(t)
      BY <3>1, Zenon DEF Excused
    <3>3. s \in Steps
      BY DEF Steps
    <3>. QED BY <1>1, <1>5, <2>1, <3>2, <3>3
  <2>. QED BY <1>1, <1>2, <1>3, <1>4, <1>7, <2>1 DEF Write
<1>8. CASE After(t)
  <2>1. thread'[t] = "exited" /\ job'[t] = "end" /\ full' = full /\ (full[t] \/ Excused(t))
    BY <1>8 DEF After, At, WorkerEnds, JobsRule, JobSteps, RunTypeOK, TypeOK
  <2>2. ~image'[t] => cmd.delete
    BY <1>1, <1>8 DEF After
  <2>3. cmd.delete => full[t]
    BY <2>1 DEF JobsRule, Deletes, Excused
  <2>. QED BY <1>2, <1>3, <2>1, <2>2, <2>3
<1>. QED BY <1>6, <1>7, <1>8 DEF Job

\* Hence every step of the run keeps the rule.
LEMMA JobsRuleStep ==
  ASSUME IInv, JobsRule, [RunNext]_allVars
  PROVE  JobsRule'
<1>1. RunTypeOK'
  BY RunTypeStep DEF JobsRule
<1>2. ASSUME NEW t \in Task, Job(t) PROVE Deletes' /\ JobSteps'
  <2>1. cmd' = cmd
    BY <1>2, JobDoes
  <2>2. ASSUME NEW u \in Task
        PROVE  /\ thread'[u] = "none" => job'[u] = "lookup"
               /\ job'[u] = "end" <=> thread'[u] = "exited"
               /\ job'[u] = "after" \/ shared'[u] = "ok" => full'[u] \/ Excused(u)
               /\ ~image'[u] => job'[u] = "end" /\ full'[u]
    <3>1. CASE u = t
      BY <1>2, <3>1, JobDoes
    <3>2. CASE u # t
      BY <1>2, <3>2, JobDoes DEF JobsRule, JobSteps
    <3>. QED BY <3>1, <3>2
  <2>. QED BY <2>1, <2>2 DEF JobsRule, Deletes, JobSteps, Excused
<1>3. ASSUME ~ \E t \in Task : Job(t) PROVE Deletes' /\ JobSteps'
  <2>1. /\ UNCHANGED <<cmd, job, full, image>>
        /\ \A t \in Task :
             \/ thread'[t] = thread[t] /\ shared'[t] = shared[t]
             \/ thread[t] = "none" /\ thread'[t] = "running" /\ shared'[t] = shared[t]
             \/ thread'[t] = thread[t] /\ shared'[t] = "exception"
    BY <1>3, OthersLeaveJobs DEF JobsRule
  <2>. QED BY <2>1 DEF JobsRule, Deletes, JobSteps, Excused
<1>. QED BY <1>1, <1>2, <1>3 DEF JobsRule

\* So the rule holds throughout the run.
LEMMA JobsInvariant == RunSpec => [](IInv /\ JoinProtects /\ JobsRule)
<1>1. IInv /\ JobsRule /\ [RunNext]_allVars => JobsRule'
  BY JobsRuleStep
<1>. QED BY <1>1, JobsRuleInit, JoinProtectsInvariant, PTL DEF RunSpec

\* However many images are flashed and whichever transfer fails: an image that
\* is gone is wholly on its partition.
THEOREM ImageDeletedLast == RunSpec => []DeletedOnlyAfterWrite
<1>1. JobsRule => DeletedOnlyAfterWrite
  BY DEF JobsRule, JobSteps, DeletedOnlyAfterWrite
<1>. QED BY <1>1, JobsInvariant, PTL
-----------------------------------------------------------------------------
(* Where the data of the jobs is. *)

DistinctTargets == \A t, u \in Task : Target[t] = Target[u] => t = u

\* A place holds data of the jobs it is the target of only, and that of each job
\* that got behind its write, if no other has the same target.
Places ==
  /\ \A p \in Place : \A t \in writers[p] : Target[t] = p
  /\ \A t \in Task : job[t] = "after" \/ shared[t] = "ok" => t \in writers[Target[t]]

\* What a job does to the places.
LEMMA JobWrites ==
  ASSUME IInv, JobsRule, NEW t \in Task, Job(t)
  PROVE  /\ \/ writers' = writers
            \/ writers' = [writers EXCEPT ![Target[t]] = @ \cup {t}]
            \/ writers' = [writers EXCEPT ![Target[t]] = {}] /\ job'[t] = "write" /\ shared'[t] = "unset"
         /\ job'[t] = "after" \/ shared'[t] = "ok" =>
              \/ job[t] = "after" /\ writers' = writers
              \/ writers' = [writers EXCEPT ![Target[t]] = @ \cup {t}]
<1>1. job \in [Task -> Steps] /\ shared \in [Task -> {"unset", "ok", "error", "exception"}]
  BY DEF JobsRule, RunTypeOK, TypeOK
<1>2. thread[t] = "running" /\ shared[t] = "unset"
  <2>1. thread[t] = "running"
    BY DEF Job, Lookup, Choose, Check, Confirm, Register, Open, Write, After, At
  <2>. QED BY <2>1 DEF IInv, ThreadsAndFutures
<1>3. CASE Lookup(t) \/ Choose(t) \/ Check(t) \/ Confirm(t) \/ Register(t)
  <2>1. writers' = writers
    BY <1>3 DEF Lookup, Choose, Check, Confirm, Register, Ends
  <2>2. job'[t] # "after" /\ shared'[t] # "ok"
    BY <1>1, <1>2, <1>3 DEF Lookup, Choose, Check, Confirm, Register, Ends, Goto, WorkerEnds, vars
  <2>. QED BY <2>1, <2>2
<1>4. CASE Open(t)
  BY <1>1, <1>2, <1>4 DEF Open, Goto, Ends, WorkerEnds, vars
<1>5. CASE Write(t)
  <2>1. CASE \E r \in {"error", "exception"} : Ends(t, r)
    BY <1>1, <1>2, <2>1 DEF Ends, WorkerEnds
  <2>2. CASE writers' = [writers EXCEPT ![Target[t]] = @ \cup {t}]
    BY <2>2
  <2>. QED BY <1>5, <2>1, <2>2 DEF Write
<1>6. CASE After(t)
  BY <1>6 DEF After, At
<1>. QED BY <1>3, <1>4, <1>5, <1>6 DEF Job

\* As no other job has its target, what a job wrote stays.
LEMMA PlacesStep ==
  ASSUME DistinctTargets, IInv, JobsRule, Places, [RunNext]_allVars
  PROVE  Places'
<1>1. ASSUME NEW t \in Task, Job(t) PROVE Places'
  <2>1. /\ writers \in [Place -> SUBSET Task] /\ Target \in [Task -> Place]
        /\ \A u \in Task \ {t} : shared'[u] = shared[u] /\ job'[u] = job[u]
    BY <1>1, JobDoes, CommandRunAssumption DEF JobsRule, RunTypeOK
  <2>2. \A u \in Task \ {t} : Target[u] # Target[t]
    BY DEF DistinctTargets
  <2>3. CASE writers' = writers
    BY <1>1, <2>1, <2>3, JobWrites DEF Places
  <2>4. CASE writers' = [writers EXCEPT ![Target[t]] = @ \cup {t}]
    BY <2>1, <2>2, <2>4 DEF Places
  <2>5. CASE writers' = [writers EXCEPT ![Target[t]] = {}] /\ job'[t] = "write" /\ shared'[t] = "unset"
    BY <2>1, <2>2, <2>5 DEF Places
  <2>. QED BY <1>1, <2>3, <2>4, <2>5, JobWrites
<1>2. ASSUME ~ \E t \in Task : Job(t) PROVE Places'
  <2>1. UNCHANGED <<job, writers>> /\ \A t \in Task : shared'[t] \in {shared[t], "exception"}
    BY <1>2, OthersLeaveJobs DEF JobsRule
  <2>. QED BY <2>1 DEF Places
<1>. QED BY <1>1, <1>2
-----------------------------------------------------------------------------
(* What the exit status says. *)

\* run() leaves no job out: all are bound when it starts them, all have futures
\* when it joins them, and behind the join it has the result of each.
AllJoined ==
  /\ caller = "starting" => \A i \in 1..Len(tasks) : i < pos => tasks[i] \in Elems(futures)
  /\ stage \in {"start", "join", "stop", "verdict"} => Task \subseteq Elems(tasks) \cup Elems(futures)
  /\ stage \in {"join", "stop", "verdict"} => Task \subseteq Elems(futures)
  /\ stage \in {"stop", "verdict"} => Len(results) = Len(futures)

\* finalize says true only of jobs that all succeeded, and main returns 0 only
\* for that.
TrueMeansOk ==
  /\ verdict = "true" => \A t \in Task : shared[t] = "ok"
  /\ exitCode = 0 => verdict = "true"

\* Nothing is bound, joined or judged at the beginning.
LEMMA VerdictInit ==
  ASSUME RunInit
  PROVE  AllJoined /\ TrueMeansOk
  BY DEF RunInit, Init, AllJoined, TrueMeansOk

\* The loop of startAll gives each job it passes its future.
LEMMA StartingJoins ==
  ASSUME IInv, AllJoined, Starting
  PROVE  AllJoined'
<1>1. stage = "start" /\ stage' \in {"start", "abort"} /\ Task \subseteq Elems(tasks) \cup Elems(futures)
  BY DEF Starting, AllJoined
<1>2. CASE StartOne \/ StartFails
  <2>1. /\ pos \in 1..Len(tasks) /\ tasks[pos] \in Task /\ caller = "starting" /\ tasks' = tasks
        /\ futures' = Append(futures, tasks[pos])
        /\ pos' = pos + 1 \/ caller' = "unwinding"
    BY <1>2 DEF IInv, TypeOK, StartOne, StartFails
  <2>2. Elems(futures)' = Elems(futures) \cup {tasks[pos]}
    <3>1. Elems(Append(futures, tasks[pos])) = Elems(futures) \cup {tasks[pos]}
      BY <2>1, ElemsAppend DEF IInv, TypeOK
    <3>. QED BY <2>1, <3>1 DEF Elems
  <2>3. Elems(tasks)' = Elems(tasks)
    BY <2>1 DEF Elems
  <2>4. ASSUME caller' = "starting", NEW i \in 1..Len(tasks), i < pos + 1 PROVE tasks[i] \in Elems(futures)'
    BY <2>1, <2>2, <2>4 DEF AllJoined, IInv, TypeOK
  <2>. QED BY <1>1, <2>1, <2>2, <2>3, <2>4 DEF AllJoined
<1>3. CASE StartDone
  <2>1. \A i \in 1..Len(tasks) : tasks[i] \in Elems(futures)
    BY <1>3 DEF AllJoined, StartDone, IInv, TypeOK
  <2>2. Elems(tasks) \subseteq Elems(futures)
    BY <2>1 DEF Elems
  <2>3. Elems(futures)' = Elems(futures) /\ caller' = "idle" /\ futures' = futures
    BY <1>3 DEF StartDone, Elems
  <2>. QED BY <1>1, <2>2, <2>3 DEF AllJoined
<1>. QED BY <1>2, <1>3 DEF Starting

\* The loop of getResults takes them one by one to the end.
LEMMA CollectingJoins ==
  ASSUME IInv, AllJoined, Collecting
  PROVE  AllJoined'
<1>1. futures' = futures /\ tasks' = tasks /\ caller' # "starting" /\ Elems(futures)' = Elems(futures)
      /\ Elems(tasks)' = Elems(tasks)
  BY CollectOneStep DEF Collecting, CallGetResults, CollectDone, Elems, IInv
<1>2. Task \subseteq Elems(futures)
  <2>1. CASE stage = "start" /\ tasks = <<>>
    BY <2>1 DEF AllJoined, Elems
  <2>. QED BY <2>1 DEF Collecting, AllJoined
<1>3. CollectDone => Len(results)' = Len(futures)
  BY DEF CollectDone, IInv, TypeOK, LoopPosition, ResultsMatchFutures
<1>4. stage' \in {"stop", "verdict"} => CollectDone
  BY DEF Collecting
<1>. QED BY <1>1, <1>2, <1>3, <1>4 DEF AllJoined

\* No other step takes a job off the lists.
LEMMA AllJoinedStep ==
  ASSUME IInv, AllJoined, [RunNext]_allVars
  PROVE  AllJoined'
<1>1. CASE Bind
  BY <1>1 DEF Bind, AddProcess, runVars, AllJoined
<1>2. CASE Launch
  BY <1>2 DEF Launch, StartAll, AllJoined, Elems
<1>3. CASE Judge
  BY <1>3 DEF Judge, Finalize, AllJoined
<1>4. CASE JoinRenderer
  BY <1>4 DEF JoinRenderer, vars, AllJoined, Elems
<1>5. CASE StopRenderer \/ DestroyRenderer \/ DestroyPlugin \/ DestroyTables \/ DrawingEnds \/ Over \/ UNCHANGED allVars
  BY <1>5 DEF StopRenderer, DestroyRenderer, DestroyPlugin, DestroyTables, DrawingEnds, Over, allVars, vars, runVars,
              AllJoined, Elems
<1>6. CASE DestroyManager
  BY <1>6 DEF DestroyManager, Destroy, runVars, AllJoined
<1>7. CASE WrongCount \/ LaunchFails \/ Exit \/ Abort \/ Interrupt
  BY <1>7 DEF WrongCount, LaunchFails, Exit, Abort, Interrupt, End, vars, AllJoined, Elems
<1>8. ASSUME NEW t \in Task, Job(t) PROVE AllJoined'
  <2>1. UNCHANGED <<stage, tasks, futures, results, caller, pos>>
    BY <1>8 DEF Job, Lookup, Choose, Check, Confirm, Register, Open, Write, After, Ends, Goto, WorkerEnds, vars
  <2>. QED BY <2>1 DEF AllJoined, Elems
<1>. QED BY <1>1, <1>2, <1>3, <1>4, <1>5, <1>6, <1>7, <1>8, StartingJoins, CollectingJoins DEF RunNext, Main

\* A job that succeeded is over, and its future keeps its value.
LEMMA OkStays ==
  ASSUME IInv, [Next]_vars, NEW t \in Task, shared[t] = "ok"
  PROVE  shared'[t] = "ok"
<1>1. thread[t] # "running"
  BY DEF IInv, ThreadsAndFutures
<1>2. ASSUME StartFails PROVE tasks[pos] # t
  <2>1. pos \in 1..Len(tasks) /\ caller = "starting"
    BY <1>2 DEF IInv, TypeOK, StartFails
  <2>2. tasks[pos] \notin Elems(futures)
    BY <2>1 DEF IInv, BoundOnce
  <2>. QED BY <2>2 DEF IInv, ThreadsAndFutures
<1>3. StartFails => shared'[t] = "ok"
  BY <1>2 DEF IInv, TypeOK, StartFails
<1>4. ASSUME NEW u \in Task, NEW r, WorkerEnds(u, r) PROVE shared'[t] = "ok"
  BY <1>1, <1>4 DEF IInv, TypeOK, WorkerEnds
<1>. QED
  BY <1>3, <1>4
     DEF Next, Owner, Worker, WorkerReturns, WorkerThrows, Finished, vars,
         AddProcess, StartAll, StartOne, StartDone, CallGetResults, CollectOne, CollectDone, Finalize, Destroy

\* Behind a complete join the verdict is about every job.
LEMMA JudgedAll ==
  ASSUME IInv, AllJoined, Judge, verdict' = "true", NEW t \in Task
  PROVE  shared[t] = "ok"
<1>1. Len(results) = Len(futures) /\ t \in Elems(futures)
  BY DEF Judge, AllJoined
<1>2. PICK i \in 1..Len(futures) : futures[i] = t
  BY <1>1, ElemsIndex DEF IInv, TypeOK
<1>3. results[i] = Result(t)
  BY <1>1, <1>2 DEF IInv, ResultsMatchFutures
<1>4. results[i][2]
  BY <1>1, <1>2 DEF Judge, Finalize
<1>. QED BY <1>3, <1>4, ResultIsPair

\* A verdict, and then an exit status, of success stays true of the jobs.
LEMMA TrueMeansOkStep ==
  ASSUME IInv, JoinProtects, AllJoined, TrueMeansOk, [RunNext]_allVars
  PROVE  TrueMeansOk'
<1>1. [Next]_vars
  BY RunStepIsManagerStep
<1>2. verdict = "true" => \A t \in Task : shared'[t] = "ok"
  BY <1>1, OkStays DEF TrueMeansOk
<1>3. verdict' \in {verdict, "raised"} \/ Judge
  BY CollectOneStep
     DEF IInv, RunNext, Main, Bind, WrongCount, Launch, LaunchFails, Starting, Collecting, StopRenderer, JoinRenderer,
         DestroyRenderer, DestroyManager, DestroyPlugin, DestroyTables, Exit, Abort, End, Interrupt,
         DrawingEnds, Over, vars, allVars, Job, Lookup, Choose, Check, Confirm, Register, Open, Write, After,
         Ends, Goto, WorkerEnds,
         AddProcess, StartAll, StartOne, StartFails, StartDone, CallGetResults, CollectDone, Destroy
<1>4. Judge => shared' = shared
  BY DEF Judge, Finalize
<1>5. verdict' = "true" => \A t \in Task : shared'[t] = "ok"
  BY <1>2, <1>3, <1>4, JudgedAll
<1>6. exitCode' = 0 => exitCode = 0 \/ (verdict = "true" /\ verdict' = verdict)
  BY DEF RunNext, Main, Bind, WrongCount, Launch, LaunchFails, Starting, Collecting, StopRenderer, JoinRenderer,
         Judge, DestroyRenderer, DestroyManager, DestroyPlugin, DestroyTables, Exit, Abort, End, Interrupt,
         DrawingEnds, Over, vars, runVars, allVars, Job, Lookup, Choose, Check, Confirm, Register, Open, Write, After,
         Ends, Goto
\* The process has ended: nothing changes any more.
<1>7. exitCode = 0 => verdict' = verdict
  <2>1. exitCode = 0 => stage = "exited"
    BY DEF JoinProtects
  <2>2. stage = "exited" => UNCHANGED allVars
    BY DEF RunNext, Main, Bind, WrongCount, Launch, LaunchFails, Starting, Collecting, StopRenderer, JoinRenderer,
           Judge, DestroyRenderer, DestroyManager, DestroyPlugin, DestroyTables, Exit, Abort, Interrupt,
           DrawingEnds, Over, Job, Lookup, Choose, Check, Confirm, Register, Open, Write, After, At
  <2>. QED BY <2>1, <2>2 DEF allVars, vars
<1>. QED BY <1>5, <1>6, <1>7 DEF TrueMeansOk

\* Whatever the targets of the jobs: main returns 0 only if each succeeded, and
\* so has written its whole partition.
LEMMA ZeroIsOk == RunSpec => [](IInv /\ JobsRule /\ AllJoined /\ TrueMeansOk)
<1>1. IInv /\ JoinProtects /\ AllJoined /\ TrueMeansOk /\ [RunNext]_allVars => AllJoined' /\ TrueMeansOk'
  BY AllJoinedStep, TrueMeansOkStep
<1>. QED BY <1>1, VerdictInit, JobsInvariant, PTL DEF RunSpec

\* For any number of partitions with a target each: exit status 0 is returned
\* only when every one is processed to its end and is on its target alone.
THEOREM ZeroMeansAllDone ==
  ASSUME DistinctTargets
  PROVE  RunSpec => []ExitZeroMeansAllDone
<1>1. RunInit => Places
  BY DEF RunInit, Init, Places
<1>2. IInv /\ JobsRule /\ Places /\ [RunNext]_allVars => Places'
  BY PlacesStep
<1>3. ASSUME JobsRule, TrueMeansOk, Places, exitCode = 0, NEW t \in Task
      PROVE  (full[t] \/ (cmd.kind = "backup" /\ t \in BadRead)) /\ writers[Target[t]] = {t}
  <2>1. shared[t] = "ok"
    BY <1>3 DEF TrueMeansOk
  <2>2. full[t] \/ (cmd.kind = "backup" /\ t \in BadRead)
    BY <1>3, <2>1 DEF JobsRule, JobSteps, Excused
  <2>3. Target[t] \in Place /\ t \in writers[Target[t]] /\ writers[Target[t]] \subseteq Task
    BY <1>3, <2>1, CommandRunAssumption DEF Places, JobsRule, RunTypeOK
  <2>4. \A u \in writers[Target[t]] : u = t
    BY <1>3, <2>3 DEF Places, DistinctTargets
  <2>. QED BY <2>2, <2>3, <2>4
<1>4. JobsRule /\ TrueMeansOk /\ Places => ExitZeroMeansAllDone
  BY <1>3 DEF ExitZeroMeansAllDone
<1>. QED BY <1>1, <1>2, <1>4, ZeroIsOk, PTL DEF RunSpec
=============================================================================
