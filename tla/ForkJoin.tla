------------------------------ MODULE ForkJoin ------------------------------
(***************************************************************************)
(* What Helper::AsyncManager promises its owner, said without threads,     *)
(* futures or loops: jobs are forked, each settles once, a single join     *)
(* takes the outcomes of every job forked so far, and the verdict is       *)
(* success only if each joined job succeeded.  AsyncManager implements it. *)
(***************************************************************************)
CONSTANT Task

VARIABLES
  outcome,   \* what each job has come to
  closed,    \* the join has happened
  joined,    \* the jobs whose outcomes the join took
  verdict    \* what the owner was last told

vars == <<outcome, closed, joined, verdict>>

Forked == {t \in Task : outcome[t] # "idle"}

TypeOK ==
  /\ outcome \in [Task -> {"idle", "pending", "ok", "error", "exception"}]
  /\ closed \in BOOLEAN
  /\ joined \in SUBSET Task
  /\ verdict \in {"none", "true", "false", "raised"}

Init ==
  /\ outcome = [t \in Task |-> "idle"]
  /\ closed = FALSE
  /\ joined = {}
  /\ verdict = "none"

Fork(t) ==
  /\ outcome[t] = "idle"
  /\ verdict # "raised"
  /\ outcome' = [outcome EXCEPT ![t] = "pending"]
  /\ UNCHANGED <<closed, joined, verdict>>

\* No thread for the job: its promise breaks, and the owner is told at once.
Refuse(t) ==
  /\ outcome[t] = "idle"
  /\ verdict # "raised"
  /\ outcome' = [outcome EXCEPT ![t] = "exception"]
  /\ verdict' = "raised"
  /\ UNCHANGED <<closed, joined>>

Settle(t) ==
  /\ outcome[t] = "pending"
  /\ \E r \in {"ok", "error", "exception"} : outcome' = [outcome EXCEPT ![t] = r]
  /\ UNCHANGED <<closed, joined, verdict>>

Join ==
  /\ ~closed
  /\ \A t \in Forked : outcome[t] \in {"ok", "error"}
  /\ closed' = TRUE
  /\ joined' = Forked
  /\ UNCHANGED <<outcome, verdict>>

\* A job that threw denies the join; the others are left as they are.
Abort ==
  /\ ~closed
  /\ \E t \in Forked : outcome[t] = "exception"
  /\ verdict' = "raised"
  /\ UNCHANGED <<outcome, closed, joined>>

Decide ==
  /\ verdict # "raised"
  /\ verdict' = IF ~closed THEN "false"
                ELSE IF \A t \in joined : outcome[t] = "ok" THEN "true" ELSE "raised"
  /\ UNCHANGED <<outcome, closed, joined>>

Next ==
  \/ \E t \in Task : Fork(t) \/ Refuse(t) \/ Settle(t)
  \/ Join
  \/ Abort
  \/ Decide

Spec == Init /\ [][Next]_vars
=============================================================================
