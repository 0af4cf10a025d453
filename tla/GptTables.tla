----------------------------- MODULE GptTables -----------------------------
(***************************************************************************)
(* `pmt gpt read-table | backup-table | restore-table`: GptPlugin::run     *)
(* checks the table names and then works through the list, one table after *)
(* the other on the main thread.  Every failure goes through SPAWN_ERROR,  *)
(* which leaves the whole operation: with success under --force, with      *)
(* failure otherwise; some failures throw past it.                         *)
(***************************************************************************)
EXTENDS Naturals, Sequences, FiniteSets

CONSTANTS
  Table,        \* the tables of the device
  NoGPT,        \* removable tables, of which scan() keeps the name but no GPT data
  Other,        \* a name of no table
  ReadAll,      \* the name read-all
  File,         \* backup files
  DefaultFile,  \* "<table>.gpt" of each table
  MaxNames      \* bound: names on the command line

ASSUME GptTablesAssumption ==
  /\ IsFiniteSet(Table)
  /\ NoGPT \subseteq Table
  /\ Other \notin Table /\ ReadAll \notin Table /\ Other # ReadAll
  /\ DefaultFile \in [Table -> File]
  /\ {"none", "part", "saved", "own", "torn"} \cap (Table \cup File) = {}
  /\ MaxNames \in Nat

VARIABLES
  sub,      \* the subcommand; constant, as are force and files
  force,    \* --force
  names,    \* table_names
  files,    \* file_list
  pc,       \* "check", "start", "loop", "done"
  i,        \* the loop's index, from 1
  content,  \* of each file: "none", "part" (a save that failed), "saved" or the table backed up
  disk,     \* the GPT on each table: "own", "torn" or the file restored
  closed,   \* tables whose partitions' descriptors were closed
  reread,   \* tables the kernel has read again
  tried,    \* tables the loop has reached
  ret       \* "none"; of run(): "true", "false"; "threw"; "undefined" behaviour

tableVars == <<sub, force, names, files, pc, i, content, disk, closed, reread, tried, ret>>
input == <<sub, force, files>>

Lists(S, n) == UNION {[1..k -> S] : k \in 0..n}

TablesTypeOK ==
  /\ sub \in {"read", "backup", "restore"}
  /\ force \in BOOLEAN
  /\ names \in Seq(Table \cup {Other, ReadAll})
  /\ files \in Seq(File)
  /\ pc \in {"check", "start", "loop", "done"}
  /\ i \in 1..(Len(names) + 1)
  /\ content \in [File -> {"none", "part", "saved"} \cup Table]
  /\ disk \in [Table -> {"own", "torn"} \cup File]
  /\ closed \in SUBSET Table /\ reread \in SUBSET Table /\ tried \in SUBSET Table
  /\ ret \in {"none", "true", "false", "threw", "undefined"}

TablesInit ==
  /\ sub \in {"read", "backup", "restore"}
  /\ force \in BOOLEAN
  /\ names \in Lists(Table \cup {Other, ReadAll}, MaxNames) \ {<<>>}
  /\ files \in Lists(File, MaxNames)
  /\ sub = "read" => files = <<>>
  /\ sub = "restore" => files # <<>>
  /\ pc = "check" /\ i = 1
  /\ content \in [File -> {"none", "saved"}]
  /\ disk = [t \in Table |-> "own"]
  /\ closed = {} /\ reread = {} /\ tried = {}
  /\ ret = "none"
-----------------------------------------------------------------------------
Return(r) ==
  /\ pc' = "done"
  /\ ret' = r

\* Mutant: a failure never reaches the exit code.
SpawnErrorSkips == Return("true")

\* SPAWN_ERROR
SpawnError == Return(IF force THEN "true" ELSE "false")

Continue ==
  /\ i' = i + 1
  /\ UNCHANGED <<pc, ret>>

\* run(): every name before the first read-all must be a table's.
CheckNames ==
  /\ pc = "check"
  /\ IF \E j \in 1..Len(names) : names[j] = Other /\ \A k \in 1..j : names[k] # ReadAll
     THEN SpawnError
     ELSE pc' = "start" /\ UNCHANGED ret
  /\ UNCHANGED <<input, names, i, content, disk, closed, reread, tried>>

\* The tables in the order in which an unordered_set happens to hold them.
Orders == {s \in [1..Cardinality(Table) -> Table] : \A t \in Table : \E j \in DOMAIN s : s[j] = t}

\* As many files as names, if there are files; then READ_ALL_HANDLE, which
\* restoreGptTable does not have.
Start ==
  /\ pc = "start"
  /\ IF files # <<>> /\ Len(names) # Len(files)
     THEN Return("threw") /\ UNCHANGED names
     ELSE /\ pc' = "loop" /\ UNCHANGED ret
          /\ names' \in IF names[1] = ReadAll /\ sub # "restore" THEN Orders ELSE {names}
  /\ UNCHANGED <<input, i, content, disk, closed, reread, tried>>

\* The loop is at a table: the subcommand `s` works on table `t`.
Reached(s, t) ==
  /\ sub = s /\ pc = "loop"
  /\ i <= Len(names) /\ names[i] = t
  /\ tried' = tried \cup {t}

\* A name that no table has is passed over.
PassOver ==
  /\ pc = "loop"
  /\ i <= Len(names) /\ names[i] \notin Table
  /\ Continue
  /\ UNCHANGED <<input, names, content, disk, closed, reread, tried>>

\* Mutant: the partitions of every table are closed.
ReReadClosesAll(t) ==
  /\ Reached("read", t)
  /\ closed' = Table
  /\ \/ reread' = reread \cup {t} /\ Continue
     \/ SpawnError /\ UNCHANGED <<reread, i>>
  /\ UNCHANGED <<input, names, content, disk>>

\* The descriptors of the table's partitions are closed before the ioctl.
ReRead(t) ==
  /\ Reached("read", t)
  /\ closed' = closed \cup {t}
  /\ \/ reread' = reread \cup {t} /\ Continue
     \/ SpawnError /\ UNCHANGED <<reread, i>>
  /\ UNCHANGED <<input, names, content, disk>>

Output(t) == IF files = <<>> THEN DefaultFile[t] ELSE files[i]

\* read-all with one output given reads past the end of file_list.
BackupOutOfList(t) ==
  /\ Reached("backup", t)
  /\ files # <<>> /\ i > Len(files)
  /\ Return("undefined")
  /\ UNCHANGED <<input, names, i, content, disk, closed, reread>>

BackupRefused(t) ==
  /\ Reached("backup", t)
  /\ files # <<>> => i <= Len(files)
  /\ (content[Output(t)] # "none" /\ ~force) \/ t \in NoGPT
  /\ Return("threw")
  /\ UNCHANGED <<input, names, i, content, disk, closed, reread>>

\* Mutant: the output file is not looked for.
BackupOverwrites(t) ==
  /\ Reached("backup", t)
  /\ files # <<>> => i <= Len(files)
  /\ t \notin NoGPT
  /\ content' = [content EXCEPT ![Output(t)] = t]
  /\ Continue
  /\ UNCHANGED <<input, names, disk, closed, reread>>

BackUp(t) ==
  /\ Reached("backup", t)
  /\ files # <<>> => i <= Len(files)
  /\ content[Output(t)] = "none" \/ force
  /\ t \notin NoGPT
  /\ \/ content' = [content EXCEPT ![Output(t)] = t] /\ Continue
     \/ /\ content' \in {content, [content EXCEPT ![Output(t)] = "part"]}
        /\ SpawnError /\ UNCHANGED i
  /\ UNCHANGED <<input, names, disk, closed, reread>>

RestoreRefused(t) ==
  /\ Reached("restore", t)
  /\ t \in NoGPT
  /\ Return("threw")
  /\ UNCHANGED <<input, names, i, content, disk, closed, reread>>

\* LoadGPTBackup, then sync: SaveGPTData and SaveMBR, either of which may fail
\* before or after it has written.
Restore(t) ==
  /\ Reached("restore", t)
  /\ t \notin NoGPT
  /\ \/ /\ content[files[i]] # "none"
        /\ disk' = [disk EXCEPT ![t] = files[i]]
        /\ Continue
     \/ /\ content[files[i]] # "none"
        /\ disk' = [disk EXCEPT ![t] = "torn"]
        /\ SpawnError /\ UNCHANGED i
     \/ SpawnError /\ UNCHANGED <<disk, i>>
  /\ UNCHANGED <<input, names, content, closed, reread>>

LoopEnds ==
  /\ pc = "loop" /\ i > Len(names)
  /\ Return("true")
  /\ UNCHANGED <<input, names, i, content, disk, closed, reread, tried>>

Finished == pc = "done" /\ UNCHANGED tableVars

OnTable(t) ==
  \/ ReRead(t)
  \/ BackupOutOfList(t) \/ BackupRefused(t) \/ BackUp(t)
  \/ RestoreRefused(t) \/ Restore(t)

TablesNext ==
  \/ CheckNames \/ Start
  \/ PassOver \/ (\E t \in Table : OnTable(t))
  \/ LoopEnds
  \/ Finished

TablesSpec == TablesInit /\ [][TablesNext]_tableVars
-----------------------------------------------------------------------------
(* Properties. *)

NamedTables == {names[j] : j \in 1..Len(names)} \cap Table

\* The j-th name is the last one on the list for the table t.
LastFor(t, j) == names[j] = t /\ \A k \in (j + 1)..Len(names) : names[k] # t

\* Success without --force means that every table named has been dealt with: read
\* again, saved in a file of its own that no later table has taken, or holding the
\* last backup named for it; and that a restore has changed no other table.  What it
\* does not mean: restore-table takes read-all for the name of no table and passes
\* it over, so that a restore of read-all succeeds with every table as it was,
\* though usage-guide.md:533 and the footer at GptPlugin.cpp:213 promise all tables.
TrueMeansAllDone ==
  ret = "true" /\ ~force =>
    /\ sub = "read" => NamedTables \subseteq reread
    /\ sub = "backup" => \A t \in NamedTables : \E f \in File : content[f] = t
    /\ sub = "restore" => \A t \in Table :
                            IF t \in NamedTables
                            THEN \E j \in 1..Len(names) : LastFor(t, j) /\ disk[t] = files[j]
                            ELSE disk[t] = "own"

\* A file that was there is left as it was, whatever goes wrong later in the
\* list, unless --force is given.
OldBackupsKept ==
  [][~force => \A f \in File : content[f] # "none" => content'[f] = content[f]]_tableVars

\* A table the loop has not reached has its GPT, its descriptors and the kernel's
\* view as they were; and a restore that breaks off half-way is the operation's
\* last, reported as a failure but under --force.  That the tables behind it are not
\* tried under --force either, and a success is reported, is what the code does and
\* not what usage-guide.md:475 and 542 say, "Skips failed tables if `--force` flag is
\* used", nor 509 and 541, "don't affect other tables".
RestUntouched ==
  /\ \A t \in Table \ tried : disk[t] = "own" /\ t \notin closed \cup reread
  /\ \A t \in Table : disk[t] = "torn" =>
       pc = "done" /\ names[i] = t /\ ret = IF force THEN "true" ELSE "false"
=============================================================================
