---------------------------- MODULE AsyncManager ----------------------------
(***************************************************************************)
(* Helper::AsyncManager: the owner thread binds jobs with addProcess,      *)
(* starts each on a detached thread with startAll, blocks on one future    *)
(* after another in getResults, and asks finalize for the verdict.  The    *)
(* workers run whatever the owner does, also when an exception has taken   *)
(* the owner out of the manager.  Nothing in the program catches such an   *)
(* exception before the manager is destroyed, so after one the owner can   *)
(* only destroy it.                                                        *)
(***************************************************************************)
EXTENDS Naturals, Sequences

CONSTANT Task          \* the jobs; each is bound at most once

VARIABLES
  tasks,      \* packaged tasks not started yet
  futures,    \* the jobs whose futures are held, in the order they were started
  results,    \* what getResults has collected: <<job, AsyncResult_t::second>>
  get,        \* getResults has run to its end
  thread,     \* "none", "running", "exited": the detached thread of each job
  shared,     \* the shared state behind each future
  caller,     \* what the owner thread is doing in the manager
  pos,        \* position of the loop the owner is in
  verdict     \* what the owner was last told

vars == <<tasks, futures, results, get, thread, shared, caller, pos, verdict>>

Elems(s) == {s[i] : i \in 1..Len(s)}

TypeOK ==
  /\ tasks \in Seq(Task)
  /\ futures \in Seq(Task)
  /\ results \in Seq(Task \X BOOLEAN)
  /\ get \in BOOLEAN
  /\ thread \in [Task -> {"none", "running", "exited"}]
  /\ shared \in [Task -> {"unset", "ok", "error", "exception"}]
  /\ caller \in {"idle", "starting", "collecting", "unwinding", "destroyed"}
  /\ pos \in Nat \ {0}
  /\ verdict \in {"none", "true", "false", "raised"}

Init ==
  /\ tasks = <<>> /\ futures = <<>> /\ results = <<>>
  /\ get = FALSE
  /\ thread = [t \in Task |-> "none"]
  /\ shared = [t \in Task |-> "unset"]
  /\ caller = "idle"
  /\ pos = 1
  /\ verdict = "none"
-----------------------------------------------------------------------------
(* The owner thread. *)

AddProcess(t) ==
  /\ caller = "idle"
  /\ t \notin Elems(tasks) \cup Elems(futures)
  /\ tasks' = Append(tasks, t)
  /\ UNCHANGED <<futures, results, get, thread, shared, caller, pos, verdict>>

\* Mutant: the loop counts from zero.
StartAllFromZero ==
  /\ caller = "idle"
  /\ caller' = "starting"
  /\ pos' = 0
  /\ UNCHANGED <<tasks, futures, results, get, thread, shared, verdict>>

StartAll ==
  /\ caller = "idle"
  /\ caller' = "starting"
  /\ pos' = 1
  /\ UNCHANGED <<tasks, futures, results, get, thread, shared, verdict>>

\* futures.push_back(task.get_future()); std::thread(std::move(task)).detach()
StartOne ==
  /\ caller = "starting"
  /\ pos <= Len(tasks)
  /\ futures' = Append(futures, tasks[pos])
  /\ thread' = [thread EXCEPT ![tasks[pos]] = "running"]
  /\ pos' = pos + 1
  /\ UNCHANGED <<tasks, results, get, shared, caller, verdict>>

\* The std::thread constructor throws: the task it was given dies with its
\* promise unkept, after the future was stored.
StartFails ==
  /\ caller = "starting"
  /\ pos <= Len(tasks)
  /\ futures' = Append(futures, tasks[pos])
  /\ shared' = [shared EXCEPT ![tasks[pos]] = "exception"]
  /\ caller' = "unwinding"
  /\ verdict' = "raised"
  /\ UNCHANGED <<tasks, results, get, thread, pos>>

StartDone ==
  /\ caller = "starting"
  /\ pos > Len(tasks)
  /\ tasks' = <<>>
  /\ caller' = "idle"
  /\ UNCHANGED <<futures, results, get, thread, shared, pos, verdict>>

\* With `get` set the call only copies the results it already has.
CallGetResults ==
  /\ caller = "idle"
  /\ ~get
  /\ caller' = "collecting"
  /\ pos' = 1
  /\ UNCHANGED <<tasks, futures, results, get, thread, shared, verdict>>

\* The AsyncResult_t of a job, but for its message.
Result(t) == <<t, shared[t] = "ok">>

\* Mutant: takes what the future holds without waiting for it.
CollectWithoutWaiting ==
  /\ caller = "collecting"
  /\ pos <= Len(futures)
  /\ results' = Append(results, Result(futures[pos]))
  /\ pos' = pos + 1
  /\ UNCHANGED <<tasks, futures, get, thread, shared, caller, verdict>>

\* future.get() blocks until the shared state is ready, then moves the value
\* out or rethrows what the job threw.
CollectOne ==
  /\ caller = "collecting"
  /\ pos <= Len(futures)
  /\ shared[futures[pos]] # "unset"
  /\ IF shared[futures[pos]] = "exception"
     THEN /\ caller' = "unwinding"
          /\ verdict' = "raised"
          /\ UNCHANGED <<results, pos>>
     ELSE /\ results' = Append(results, Result(futures[pos]))
          /\ pos' = pos + 1
          /\ UNCHANGED <<caller, verdict>>
  /\ UNCHANGED <<tasks, futures, get, thread, shared>>

\* Mutant: the last future is left out.
CollectDoneEarly ==
  /\ caller = "collecting"
  /\ pos >= Len(futures)
  /\ get' = TRUE
  /\ caller' = "idle"
  /\ UNCHANGED <<tasks, futures, results, thread, shared, pos, verdict>>

CollectDone ==
  /\ caller = "collecting"
  /\ pos > Len(futures)
  /\ get' = TRUE
  /\ caller' = "idle"
  /\ UNCHANGED <<tasks, futures, results, thread, shared, pos, verdict>>

\* Mutant: one success is enough.
FinalizeAny ==
  /\ caller = "idle"
  /\ IF ~get
     THEN verdict' = "false" /\ caller' = caller
     ELSE IF \E i \in 1..Len(results) : results[i][2]
          THEN verdict' = "true" /\ caller' = caller
          ELSE verdict' = "raised" /\ caller' = "unwinding"
  /\ UNCHANGED <<tasks, futures, results, get, thread, shared, pos>>

\* A failed result makes finalize throw the collected messages.
Finalize ==
  /\ caller = "idle"
  /\ IF ~get
     THEN verdict' = "false" /\ caller' = caller
     ELSE IF \A i \in 1..Len(results) : results[i][2]
          THEN verdict' = "true" /\ caller' = caller
          ELSE verdict' = "raised" /\ caller' = "unwinding"
  /\ UNCHANGED <<tasks, futures, results, get, thread, shared, pos>>

\* Destroying a packaged task's future does not wait for the job.
Destroy ==
  /\ caller \in {"idle", "unwinding"}
  /\ caller' = "destroyed"
  /\ UNCHANGED <<tasks, futures, results, get, thread, shared, pos, verdict>>
-----------------------------------------------------------------------------
(* The detached threads. *)

\* Mutant: what a job throws never reaches its promise.
WorkerDropsException(t, r) ==
  /\ thread[t] = "running"
  /\ shared' = IF r = "exception" THEN shared ELSE [shared EXCEPT ![t] = r]
  /\ thread' = [thread EXCEPT ![t] = "exited"]
  /\ UNCHANGED <<tasks, futures, results, get, caller, pos, verdict>>

WorkerEnds(t, r) ==
  /\ thread[t] = "running"
  /\ shared' = [shared EXCEPT ![t] = r]
  /\ thread' = [thread EXCEPT ![t] = "exited"]
  /\ UNCHANGED <<tasks, futures, results, get, caller, pos, verdict>>

WorkerReturns(t) == \E r \in {"ok", "error"} : WorkerEnds(t, r)
WorkerThrows(t) == WorkerEnds(t, "exception")
-----------------------------------------------------------------------------
Owner ==
  \/ \E t \in Task : AddProcess(t)
  \/ StartAll \/ StartOne \/ StartFails \/ StartDone
  \/ CallGetResults \/ CollectOne \/ CollectDone
  \/ Finalize
  \/ Destroy

Worker(t) == WorkerReturns(t) \/ WorkerThrows(t)

\* Everything is over: the manager is gone and no thread is left.
Finished ==
  /\ caller = "destroyed"
  /\ \A t \in Task : thread[t] # "running"
  /\ UNCHANGED vars

Next == Owner \/ (\E t \in Task : Worker(t)) \/ Finished

\* Inside a call the owner keeps going; a scheduled thread ends its job.  What
\* the owner calls, and when, is its own choice.
Fairness ==
  /\ WF_vars(StartOne \/ StartFails \/ StartDone)
  /\ WF_vars(CollectOne \/ CollectDone)
  /\ \A t \in Task : WF_vars(Worker(t))

Spec == Init /\ [][Next]_vars
FairSpec == Spec /\ Fairness
-----------------------------------------------------------------------------
(* Properties. *)

\* What getResults holds is the outcome of the first futures, job by job in
\* the order they were started, none skipped, doubled or read too early, and
\* never that of a job that threw.
ResultsMatchFutures ==
  /\ Len(results) <= Len(futures)
  /\ \A i \in 1..Len(results) :
       /\ thread[futures[i]] = "exited" /\ shared[futures[i]] # "exception"
       /\ results[i] = Result(futures[i])

\* A getResults that returns (management.hpp:225, "It waits for unfinished
\* threads") leaves no started job running.
NormalReturnWaits ==
  [][caller = "collecting" /\ caller' = "idle" =>
       \A t \in Elems(futures) : thread'[t] = "exited"]_vars

\* A call of getResults comes to an end, whichever jobs fail or throw: no future
\* in the list stays without a value.
CallsEnd == caller = "collecting" ~> caller # "collecting"

\* The manager behaves as the fork/join of module ForkJoin.
FJ == INSTANCE ForkJoin WITH
        outcome <- [t \in Task |->
                      IF t \notin Elems(futures) THEN "idle"
                      ELSE IF shared[t] = "unset" THEN "pending" ELSE shared[t]],
        closed <- get,
        joined <- IF get THEN {results[i][1] : i \in 1..Len(results)} ELSE {}
ImplementsForkJoin == FJ!Spec
=============================================================================
