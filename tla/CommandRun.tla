----------------------------- MODULE CommandRun -----------------------------
(***************************************************************************)
(* One run of `pmt backup`, `pmt flash` or `pmt erase` from the call of    *)
(* the plugin's run() to the end of the process: the plugin binds one job  *)
(* per partition to an AsyncManager, starts the progress renderer and the  *)
(* jobs, joins them, and main tears down what the jobs use.  The jobs are  *)
(* detached threads that hold plain pointers to the renderer, the plugin   *)
(* and the partition tables; only the join keeps these alive for them, and *)
(* the end of the process kills a job that is still running.               *)
(***************************************************************************)
EXTENDS AsyncManager, Integers

CONSTANTS
  Place,      \* image files (backup) or partitions (flash, erase)
  Target,     \* the place each job writes
  Ambiguous,  \* jobs whose partition name several tables have
  BadRead     \* jobs whose partition does not give all its bytes: a sector that
              \* cannot be read, or a device shorter than it says

ASSUME CommandRunAssumption ==
  /\ Target \in [Task -> Place]
  /\ Ambiguous \subseteq Task
  /\ BadRead \subseteq Task

VARIABLES
  cmd,        \* the subcommand and the flags that steer it; constant in a run
  stage,      \* where run() and main() are
  alive,      \* objects the jobs point to that are not destroyed yet
  drawing,    \* the renderer's thread: "none", "running", "exited"
  running,    \* ProgressRenderer::_running
  job,        \* the step of runAsync each job is at
  full,       \* the job has written its whole data
  exists,     \* backup: the image files that are there
  writers,    \* the jobs whose data a place holds
  image,      \* flash: the image file of each job is still there
  exitCode    \* -1 until the process has ended

runVars == <<cmd, stage, alive, drawing, running, job, full, exists, writers, image, exitCode>>
allVars == <<vars, runVars>>

Commands == [kind : {"backup", "flash", "erase"}, force : BOOLEAN, quiet : BOOLEAN,
             verify : BOOLEAN, delete : BOOLEAN, piped : BOOLEAN]
Steps == {"lookup", "choose", "check", "confirm", "register", "open", "write", "after", "end"}
Objects == {"renderer", "plugin", "tables"}

RunTypeOK ==
  /\ TypeOK
  /\ cmd \in Commands
  /\ stage \in {"bind", "start", "join", "stop", "verdict", "leave", "abort", "exited"}
  /\ alive \in SUBSET Objects
  /\ drawing \in {"none", "running", "exited"}
  /\ running \in BOOLEAN
  /\ job \in [Task -> Steps]
  /\ full \in [Task -> BOOLEAN]
  /\ exists \in SUBSET Place
  /\ writers \in [Place -> SUBSET Task]
  /\ image \in [Task -> BOOLEAN]
  /\ exitCode \in {-1, 0, 1, 130, 134}

HasRenderer == cmd.kind # "erase" /\ ~cmd.quiet

RunInit ==
  /\ Init
  /\ cmd \in Commands
  /\ cmd.verify => cmd.kind = "backup"
  /\ cmd.delete => cmd.kind = "flash"
  /\ stage = "bind"
  /\ alive = IF HasRenderer THEN Objects ELSE Objects \ {"renderer"}
  /\ drawing = "none" /\ running = FALSE
  /\ job = [t \in Task |-> "lookup"]
  /\ full = [t \in Task |-> FALSE]
  /\ exists \in SUBSET Place
  /\ cmd.kind # "backup" => exists = {}
  /\ writers = [p \in Place |-> {}]
  /\ image = [t \in Task |-> TRUE]
  /\ exitCode = -1
-----------------------------------------------------------------------------
(* The main thread: the plugin's run(), then the way out through main(). *)

Bind ==
  /\ stage = "bind"
  /\ \E t \in Task : AddProcess(t)
  /\ UNCHANGED runVars

\* Not as many images or outputs as partitions: a usage error before any job.
WrongCount ==
  /\ stage = "bind" /\ tasks = <<>>
  /\ cmd.kind # "erase"
  /\ stage' = "exited" /\ exitCode' = 1
  /\ UNCHANGED <<vars, cmd, alive, drawing, running, job, full, exists, writers, image>>

\* r->start(), then startAll()
Launch ==
  /\ stage = "bind"
  /\ Elems(tasks) = Task
  /\ StartAll
  /\ stage' = "start"
  /\ IF HasRenderer THEN drawing' = "running" /\ running' = TRUE
                    ELSE UNCHANGED <<drawing, running>>
  /\ UNCHANGED <<cmd, alive, job, full, exists, writers, image, exitCode>>

\* r->start() cannot have its thread.
LaunchFails ==
  /\ stage = "bind" /\ HasRenderer
  /\ Elems(tasks) = Task
  /\ stage' = "abort"
  /\ running' = TRUE
  /\ UNCHANGED <<vars, cmd, alive, drawing, job, full, exists, writers, image, exitCode>>

Starting ==
  /\ stage = "start"
  /\ \/ (StartOne \/ StartDone) /\ UNCHANGED stage
     \/ StartFails /\ stage' = "abort"     \* std::system_error: main does not catch it
  /\ UNCHANGED <<cmd, alive, drawing, running, job, full, exists, writers, image, exitCode>>

\* Mutant: the jobs are not joined.
NotCollecting ==
  /\ stage = "start" /\ caller = "idle" /\ tasks = <<>>
  /\ stage' = "stop"
  /\ UNCHANGED <<vars, cmd, alive, drawing, running, job, full, exists, writers, image, exitCode>>

\* A job's exception comes out of getResults on the main thread.  A
\* Helper::Error unwinds to the handler in main; anything else terminates.
Collecting ==
  /\ \/ /\ stage = "start" /\ caller = "idle" /\ tasks = <<>>
        /\ CallGetResults /\ stage' = "join"
     \/ /\ stage = "join" /\ CollectOne
        /\ stage' \in (IF caller' = "unwinding" THEN {"leave", "abort"} ELSE {stage})
     \/ stage = "join" /\ CollectDone /\ stage' = "stop"
  /\ UNCHANGED <<cmd, alive, drawing, running, job, full, exists, writers, image, exitCode>>

\* Mutant: stop() joins the thread without telling it.
StopForgetsRunning ==
  /\ stage = "stop" \/ (stage = "leave" /\ "renderer" \in alive)
  /\ running
  /\ UNCHANGED allVars

\* stop(): clear _running; join the thread once it has seen it.
StopRenderer ==
  /\ stage = "stop" \/ (stage = "leave" /\ "renderer" \in alive)
  /\ running
  /\ running' = FALSE
  /\ UNCHANGED <<vars, cmd, stage, alive, drawing, job, full, exists, writers, image, exitCode>>

JoinRenderer ==
  /\ stage = "stop"
  /\ ~running /\ drawing # "running"
  /\ drawing' = "none"
  /\ stage' = "verdict"
  /\ UNCHANGED <<vars, cmd, alive, running, job, full, exists, writers, image, exitCode>>

Judge ==
  /\ stage = "verdict"
  /\ Finalize
  /\ stage' = "leave"
  /\ UNCHANGED <<cmd, alive, drawing, running, job, full, exists, writers, image, exitCode>>

\* Leaving run() destroys the renderer (whose destructor stops and joins its
\* thread), then the manager; leaving main's try block the plugins, then the
\* tables.  The same order on return and on unwinding.
DestroyRenderer ==
  /\ stage = "leave" /\ "renderer" \in alive
  /\ ~running /\ drawing # "running"
  /\ drawing' = "none"
  /\ alive' = alive \ {"renderer"}
  /\ UNCHANGED <<vars, cmd, stage, running, job, full, exists, writers, image, exitCode>>

DestroyManager ==
  /\ stage = "leave" /\ "renderer" \notin alive
  /\ Destroy
  /\ UNCHANGED runVars

DestroyPlugin ==
  /\ stage = "leave" /\ caller = "destroyed" /\ "plugin" \in alive
  /\ alive' = alive \ {"plugin"}
  /\ UNCHANGED <<vars, cmd, stage, drawing, running, job, full, exists, writers, image, exitCode>>

DestroyTables ==
  /\ stage = "leave" /\ alive = {"tables"} /\ caller = "destroyed"
  /\ alive' = {}
  /\ UNCHANGED <<vars, cmd, stage, drawing, running, job, full, exists, writers, image, exitCode>>

\* The process is gone and every thread with it.
End(code) ==
  /\ stage' = "exited"
  /\ exitCode' = code
  /\ UNCHANGED <<vars, cmd, alive, drawing, running, job, full, exists, writers, image>>

\* return !manager.runUsed(), or the error's code from the handler.
Exit == stage = "leave" /\ alive = {} /\ End(IF verdict = "true" THEN 0 ELSE 1)
\* std::terminate raises SIGABRT, whose handler exits.
Abort == stage = "abort" /\ End(134)
\* Ctrl+C at any time.
Interrupt == stage # "exited" /\ End(130)
-----------------------------------------------------------------------------
(* The renderer's thread. *)

DrawingEnds ==
  /\ stage # "exited"
  /\ drawing = "running" /\ ~running
  /\ drawing' = "exited"
  /\ UNCHANGED <<vars, cmd, stage, alive, running, job, full, exists, writers, image, exitCode>>
-----------------------------------------------------------------------------
(* The jobs: runAsync of the three plugins. *)

At(t, s) == stage # "exited" /\ thread[t] = "running" /\ job[t] = s

Goto(t, s) ==
  /\ job' = [job EXCEPT ![t] = s]
  /\ UNCHANGED <<vars, cmd, stage, alive, drawing, running, exitCode>>

Ends(t, r) ==
  /\ WorkerEnds(t, r)
  /\ job' = [job EXCEPT ![t] = "end"]
  /\ UNCHANGED <<cmd, stage, alive, drawing, running, full, exists, writers, image, exitCode>>

\* Find the table and the partition.  A partition that is not there is an
\* error result; reading the links of /dev/block/by-name may throw.
Lookup(t) ==
  /\ At(t, "lookup")
  /\ \/ Ends(t, "error")
     \/ Ends(t, "exception")
     \/ /\ Goto(t, IF t \in Ambiguous THEN "choose" ELSE "check")
        /\ UNCHANGED <<full, exists, writers, image>>

\* The user picks a table on stdin.  main has read a piped stdin to its end,
\* and then the loop finds an invalid choice for ever.
Choose(t) ==
  /\ At(t, "choose")
  /\ ~cmd.piped
  /\ Goto(t, "check")
  /\ UNCHANGED <<full, exists, writers, image>>

\* The checks return an error, size() throws.  A backup does not overwrite an
\* image it can see, unless forced; erase opens its partition here.
Check(t) ==
  /\ At(t, "check")
  /\ \/ Ends(t, "error")
     \/ Ends(t, "exception")
     \/ /\ cmd.kind = "backup" => cmd.force \/ Target[t] \notin exists
        /\ Goto(t, IF cmd.kind # "erase" THEN "register"
                   ELSE IF cmd.force THEN "write" ELSE "confirm")
        /\ UNCHANGED <<full, exists, writers, image>>

\* erase: "no" throws Operation canceled by user.
Confirm(t) ==
  /\ At(t, "confirm")
  /\ \/ Ends(t, "exception")
     \/ Goto(t, "write") /\ UNCHANGED <<full, exists, writers, image>>

\* Mutant: the image is deleted as soon as it is open.
RegisterDeletes(t) ==
  /\ At(t, "register")
  /\ Goto(t, IF cmd.kind = "backup" THEN "open" ELSE "write")
  /\ image' = [image EXCEPT ![t] = ~cmd.delete]
  /\ UNCHANGED <<full, exists, writers>>

Register(t) ==
  /\ At(t, "register")
  /\ Goto(t, IF cmd.kind = "backup" THEN "open" ELSE "write")
  /\ UNCHANGED <<full, exists, writers, image>>

\* backup: the image is created or emptied.
Open(t) ==
  /\ At(t, "open")
  /\ \/ /\ Goto(t, "write")
        /\ exists' = exists \cup {Target[t]}
        /\ writers' = [writers EXCEPT ![Target[t]] = {}]
        /\ UNCHANGED <<full, image>>
     \/ Ends(t, "error")

\* Mutant: a failed transfer is logged and the job goes on.
WriteIgnoresErrors(t) ==
  /\ At(t, "write")
  /\ \/ \E s \in {"write", "after"} :
          /\ writers' = [writers EXCEPT ![Target[t]] = @ \cup {t}]
          /\ full' = [full EXCEPT ![t] = s = "after" /\ ~(cmd.kind = "backup" /\ t \in BadRead)]
          /\ Goto(t, s)
     \/ Goto(t, "after") /\ UNCHANGED <<full, writers>>
  /\ UNCHANGED <<exists, image>>

\* One chunk; more may follow.  A Helper::Error of the transfer is caught and
\* becomes an error result, anything else leaves the job.  A backup of a
\* partition it cannot read goes on as if it had read it, or reads the same byte
\* for ever (module PartitionIO).
Write(t) ==
  /\ At(t, "write")
  /\ \/ \E s \in {"write", "after"} :
          /\ writers' = [writers EXCEPT ![Target[t]] = @ \cup {t}]
          /\ full' = [full EXCEPT ![t] = s = "after" /\ ~(cmd.kind = "backup" /\ t \in BadRead)]
          /\ Goto(t, s)
          /\ UNCHANGED <<exists, image>>
     \/ Ends(t, "error")
     \/ Ends(t, "exception")

\* flash tries to delete the image if asked; backup verifies, outside the try
\* block.
After(t) ==
  /\ At(t, "after")
  /\ WorkerEnds(t, "ok") \/ (cmd.verify /\ (WorkerEnds(t, "error") \/ WorkerEnds(t, "exception")))
  /\ job' = [job EXCEPT ![t] = "end"]
  /\ \/ UNCHANGED image
     \/ cmd.delete /\ image' = [image EXCEPT ![t] = FALSE]
  /\ UNCHANGED <<cmd, stage, alive, drawing, running, full, exists, writers, exitCode>>

Job(t) == Lookup(t) \/ Choose(t) \/ Check(t) \/ Confirm(t) \/ Register(t) \/ Open(t) \/ Write(t) \/ After(t)
-----------------------------------------------------------------------------
Main ==
  \/ Bind \/ WrongCount \/ Launch \/ LaunchFails \/ Starting \/ Collecting
  \/ StopRenderer \/ JoinRenderer \/ Judge
  \/ DestroyRenderer \/ DestroyManager \/ DestroyPlugin \/ DestroyTables
  \/ Exit \/ Abort

Over == stage = "exited" /\ UNCHANGED allVars

RunNext == Main \/ Interrupt \/ DrawingEnds \/ (\E t \in Task : Job(t)) \/ Over

\* The places where a job may stay for ever: the loop of dump() over a device
\* that does not give a byte, which nothing ends, and the question which of the
\* partitions of one name is meant, on a stdin that main has read to its end.
Hangs(t) ==
  /\ thread[t] = "running"
  /\ \/ cmd.kind = "backup" /\ t \in BadRead /\ job[t] = "write"
     \/ cmd.piped /\ job[t] = "choose"

\* The threads are scheduled, a user at a terminal answers, and the byte loops
\* end but for the dumps that PartitionIO's Ends excepts: a job takes its next
\* step unless it may hang where it is.  The user's interrupt is never owed.
RunFairness ==
  /\ WF_allVars(Main)
  /\ WF_allVars(DrawingEnds)
  /\ \A t \in Task : WF_allVars(~Hangs(t) /\ Job(t))

RunSpec == RunInit /\ [][RunNext]_allVars /\ RunFairness
-----------------------------------------------------------------------------
(* Properties. *)

Threw == \E t \in Task : shared[t] = "exception"

\* Exit status 0 means that every partition was processed to its end and that
\* its place holds the data of no other job (the targets are distinct), but
\* for backups of partitions that cannot be read.
ExitZeroMeansAllDone ==
  exitCode = 0 => \A t \in Task :
    /\ full[t] \/ (cmd.kind = "backup" /\ t \in BadRead)
    /\ writers[Target[t]] = {t}

\* What a job at each step dereferences: `this` and its partition throughout,
\* the renderer when it registers its progress.
Needs(t) == IF thread[t] # "running" THEN {}
            ELSE {"plugin", "tables"} \cup (IF job[t] = "register" /\ HasRenderer
                                            THEN {"renderer"} ELSE {})

\* Nothing is destroyed under a job that uses it, as long as no job throws:
\* the join comes before the teardown on every other path.
DestroyedUnderJobOnlyAfterThrow ==
  (\E t \in Task : ~(Needs(t) \subseteq alive)) => Threw

\* An image is deleted only once its partition is completely written.
DeletedOnlyAfterWrite == \A t \in Task : ~image[t] => full[t]

\* Unless a job threw, no thread could be started, or the user interrupted,
\* the end of the process cuts no job off.
CutOffOnlyAfterThrow ==
  exitCode \in {0, 1} /\ (\E t \in Task : thread[t] = "running") => Threw

\* usage-guide.md:562, "A failure in processing one partition will not cancel
\* the others": a job in the middle of its partition is never cut off by the
\* end of a process the user did not interrupt.
ErrorIsolation ==
  exitCode \in {0, 1} => \A t \in Task : ~(thread[t] = "running" /\ job[t] = "write")

\* The process ends, on a terminal or on a pipe, whatever the jobs do and
\* whichever of them fail, unless one of them stays for ever where it may hang:
\* then the join waits for it, however the other jobs went.
RunEnds == <>(stage = "exited") \/ \E t \in Task : <>[]Hangs(t)
=============================================================================
