------------------------------ MODULE JobList ------------------------------
(***************************************************************************)
(* Background jobs: the table jobs (lib/private/BackgroundJob/JobList.php), *)
(* the workers that take jobs from it (cron.php and the occ command        *)
(* background-job:worker), the life cycle of a job                         *)
(* (lib/public/BackgroundJob), and an application that adds jobs.          *)
(*                                                                         *)
(* A job here is a class with an argument; its row gets a new id whenever  *)
(* it is inserted.  A step is one SQL statement; workers interleave        *)
(* between statements and can be killed at any point.                      *)
(***************************************************************************)
EXTENDS Integers, FiniteSets

CONSTANTS
    Worker,         \* processes that run jobs
    Cron,           \* those that run cron.php; the others run the occ command
    Job,            \* jobs, each a class with an argument
    Class,          \* the classes of jobs
    ClassOf,        \* the class of each job
    Exclusive,      \* classes with allowParallelRuns = false
    Queued,         \* the jobs that are QueuedJobs; the others are TimedJobs
    Broken,         \* the jobs of disabled apps: buildJob returns null
    Missing,        \* the jobs whose class does not exist any more
    Addable,        \* the jobs applications add while workers run
    JobClasses,     \* JobClasses[w]: the classes w was asked to run, {} for all
    Interval,       \* interval of the TimedJobs
    ReserveTime,    \* 12 hours: a reservation older than that is ignored
    CheckTime,      \* 6 hours: the reservations hasReservedJob looks at
    MaxRun,         \* bound: how long a worker keeps a job
    MaxTime,        \* bound: last second of a behaviour
    MaxAdds         \* bound: how often a job is added

ASSUME ConstantsOK ==
    /\ Cron \subseteq Worker
    /\ ClassOf \in [Job -> Class]
    /\ Exclusive \subseteq Class
    /\ Queued \subseteq Job /\ Broken \subseteq Job /\ Missing \subseteq Job
    /\ Addable \subseteq Job
    /\ JobClasses \in [Worker -> SUBSET Class]
    /\ Interval \in Nat /\ ReserveTime \in Nat /\ CheckTime \in Nat
    /\ MaxRun \in Nat /\ MaxAdds \in Nat \ {0}
    /\ MaxTime \in Nat /\ ReserveTime <= MaxTime

VARIABLES
    jobs,           \* the jobs that have a row
    id,             \* how often the row of each job was inserted
    reservedAt,     \* jobs.reserved_at
    lastChecked,    \* jobs.last_checked
    lastRun,        \* jobs.last_run
    now,            \* the clock
    at,             \* what each worker does next
    row,            \* the row a worker selected, or nothing
    classes,        \* the argument jobClasses of the getNext a worker is in
    executedJobs,   \* the jobs a cron process has run, with their ids
    adding,         \* the call of add that is under way
    adds,           \* history: how often each job was added
    runs            \* history: how often each job was run

table == <<jobs, id, reservedAt, lastChecked, lastRun>>
worker == <<at, row, classes, executedJobs>>
history == <<adds, runs>>
vars == <<table, now, worker, adding, history>>

-----------------------------------------------------------------------------
NoRow == [job |-> "none"]
NoAdd == [job |-> "none"]

Step == {"stopped", "select", "build", "check", "skip", "reserve", "reset", "execute",
         "setLastRun", "run", "setExecutionTime", "setLastJob", "unlock", "crashed"}

Row == [job : Job, id : Nat, reservedAt : Nat, lastChecked : Nat, lastRun : Nat, since : Nat]

TypeOK ==
    /\ jobs \subseteq Job
    /\ id \in [Job -> 0..MaxAdds]
    /\ reservedAt \in [Job -> Nat]
    /\ lastChecked \in [Job -> Nat]
    /\ lastRun \in [Job -> Nat]
    /\ now \in ReserveTime..MaxTime
    /\ at \in [Worker -> Step]
    /\ row \in [Worker -> Row \cup {NoRow}]
    /\ classes \in [Worker -> SUBSET Class]
    /\ executedJobs \in [Worker -> SUBSET (Job \X Nat)]
    /\ adding \in [job : Job, exists : BOOLEAN] \cup {NoAdd}
    /\ adds \in [Job -> 0..MaxAdds]
    /\ runs \in [Job -> Nat]

(* The clock starts at ReserveTime: 0 means "not reserved" and "never run". *)
Init ==
    /\ jobs \in SUBSET Job
    /\ id = [j \in Job |-> IF j \in jobs THEN 1 ELSE 0]
    /\ adds = id
    /\ reservedAt = [j \in Job |-> 0]
    /\ lastChecked = [j \in Job |-> 0]
    /\ lastRun = [j \in Job |-> 0]
    /\ now = ReserveTime
    /\ at = [w \in Worker |-> "stopped"]
    /\ row = [w \in Worker |-> NoRow]
    /\ classes = [w \in Worker |-> {}]
    /\ executedJobs = [w \in Worker |-> {}]
    /\ adding = NoAdd
    /\ runs = [j \in Job |-> 0]

-----------------------------------------------------------------------------
(* Workers. *)

Goto(w, step) == at' = [at EXCEPT ![w] = step]

(* The row the worker selected is still there. *)
RowExists(w) == row[w].job \in jobs /\ id[row[w].job] = row[w].id

(* UPDATE jobs SET column = v WHERE id = row.id *)
SetWhereId(column, w, v) ==
    IF RowExists(w) THEN [column EXCEPT ![row[w].job] = v] ELSE column

Start(w) ==
    /\ at[w] = "stopped"
    /\ Goto(w, "select")
    /\ classes' = [classes EXCEPT ![w] = JobClasses[w]]
    /\ UNCHANGED <<table, now, row, executedJobs, adding, history>>

Due(j) ==
    /\ j \in jobs
    /\ reservedAt[j] <= now - ReserveTime
    /\ lastChecked[j] <= now

Wanted(w, j) == classes[w] = {} \/ ClassOf[j] \in classes[w]

(* getNext: SELECT ... ORDER BY last_checked LIMIT 1 *)
Select(w, j) ==
    /\ at[w] = "select"
    /\ Due(j) /\ Wanted(w, j)
    /\ \A i \in Job : Due(i) /\ Wanted(w, i) => lastChecked[j] <= lastChecked[i]
    /\ row' = [row EXCEPT ![w] =
          [job |-> j, id |-> id[j], reservedAt |-> reservedAt[j],
           lastChecked |-> lastChecked[j], lastRun |-> lastRun[j], since |-> now]]
    /\ Goto(w, IF j \in Missing THEN "build"
               ELSE IF j \notin Broken /\ ClassOf[j] \in Exclusive THEN "check"
               ELSE "reserve")
    /\ UNCHANGED <<table, now, classes, executedJobs, adding, history>>

(* getNext returns null: cron.php ends, the occ command tries again.        *)
SelectNothing(w) ==
    /\ at[w] = "select"
    /\ \A j \in Job : ~(Due(j) /\ Wanted(w, j))
    /\ IF w \in Cron THEN Goto(w, "stopped") ELSE UNCHANGED at
    /\ executedJobs' = [executedJobs EXCEPT ![w] = {}]
    /\ classes' = [classes EXCEPT ![w] = JobClasses[w]]
    /\ UNCHANGED <<table, now, row, adding, history>>

(* cron.php stops after 14 minutes, the occ command after stop_after        *)
Stop(w) ==
    /\ at[w] = "select" /\ classes[w] = JobClasses[w]
    /\ Goto(w, "stopped")
    /\ executedJobs' = [executedJobs EXCEPT ![w] = {}]
    /\ UNCHANGED <<table, now, row, classes, adding, history>>

(* buildJob removes the row of a class that does not exist.                 *)
RemoveMissing(w) ==
    /\ at[w] = "build"
    /\ jobs' = IF RowExists(w) THEN jobs \ {row[w].job} ELSE jobs
    /\ Goto(w, "reserve")
    /\ UNCHANGED <<id, reservedAt, lastChecked, lastRun, now, row, classes, executedJobs,
                   adding, history>>

HasReservedJob(c) == \E j \in jobs : ClassOf[j] = c /\ reservedAt[j] > now - CheckTime

CheckParallelRuns(w) ==
    /\ at[w] = "check"
    /\ Goto(w, IF HasReservedJob(ClassOf[row[w].job]) THEN "skip" ELSE "reserve")
    /\ UNCHANGED <<table, now, row, classes, executedJobs, adding, history>>

(* The job is skipped, and getNext calls itself without jobClasses.         *)
Skip(w) ==
    /\ at[w] = "skip"
    /\ lastChecked' = SetWhereId(lastChecked, w, now + 1)
    /\ classes' = [classes EXCEPT ![w] = {}]
    /\ row' = [row EXCEPT ![w] = NoRow]
    /\ Goto(w, "select")
    /\ UNCHANGED <<jobs, id, reservedAt, lastRun, now, executedJobs, adding, history>>

(* Mutant: UPDATE ... WHERE id alone. *)
UnchangedId(w) == RowExists(w)

(* Mutant: reserved_at is left out of the condition. *)
UnchangedCheck(w) == RowExists(w) /\ lastChecked[row[w].job] = row[w].lastChecked

(* UPDATE ... WHERE id, reserved_at and last_checked are those selected     *)
Unchanged(w) ==
    /\ RowExists(w)
    /\ reservedAt[row[w].job] = row[w].reservedAt
    /\ lastChecked[row[w].job] = row[w].lastChecked

Reserve(w) ==
    /\ at[w] = "reserve" /\ Unchanged(w)
    /\ reservedAt' = SetWhereId(reservedAt, w, now)
    /\ lastChecked' = SetWhereId(lastChecked, w, now)
    /\ row' = [row EXCEPT ![w].since = now]
    /\ Goto(w, IF row[w].job \in Broken THEN "reset" ELSE "execute")
    /\ UNCHANGED <<jobs, id, lastRun, now, classes, executedJobs, adding, history>>

(* Mutant: the next try forgets jobClasses. *)
ReserveFailsForgets(w) ==
    /\ at[w] = "reserve" /\ ~Unchanged(w)
    /\ row' = [row EXCEPT ![w] = NoRow]
    /\ classes' = [classes EXCEPT ![w] = {}]
    /\ Goto(w, "select")
    /\ UNCHANGED <<table, now, executedJobs, adding, history>>

(* "Background job already executed elsewhere, try again."                  *)
ReserveFails(w) ==
    /\ at[w] = "reserve" /\ ~Unchanged(w)
    /\ row' = [row EXCEPT ![w] = NoRow]
    /\ Goto(w, "select")
    /\ UNCHANGED <<table, now, classes, executedJobs, adding, history>>

(* Mutant: the reservation of a broken job is kept. *)
ResetBrokenReserved(w) ==
    /\ at[w] = "reset"
    /\ lastChecked' = SetWhereId(lastChecked, w, now + ReserveTime)
    /\ row' = [row EXCEPT ![w] = NoRow]
    /\ Goto(w, "select")
    /\ UNCHANGED <<jobs, id, reservedAt, lastRun, now, classes, executedJobs, adding, history>>

(* "Background job from disabled app, try again."                           *)
ResetBroken(w) ==
    /\ at[w] = "reset"
    /\ reservedAt' = SetWhereId(reservedAt, w, 0)
    /\ lastChecked' = SetWhereId(lastChecked, w, now + ReserveTime)
    /\ row' = [row EXCEPT ![w] = NoRow]
    /\ Goto(w, "select")
    /\ UNCHANGED <<jobs, id, lastRun, now, classes, executedJobs, adding, history>>

(* Mutant: cron.php stops without unlockJob. *)
StopAtExecutedReserved(w) ==
    /\ at[w] = "execute" /\ <<row[w].job, row[w].id>> \in executedJobs[w]
    /\ row' = [row EXCEPT ![w] = NoRow]
    /\ executedJobs' = [executedJobs EXCEPT ![w] = {}]
    /\ Goto(w, "stopped")
    /\ UNCHANGED <<table, now, classes, adding, history>>

(* cron.php stops at a job it has run already.                              *)
StopAtExecuted(w) ==
    /\ at[w] = "execute" /\ <<row[w].job, row[w].id>> \in executedJobs[w]
    /\ reservedAt' = SetWhereId(reservedAt, w, 0)
    /\ row' = [row EXCEPT ![w] = NoRow]
    /\ executedJobs' = [executedJobs EXCEPT ![w] = {}]
    /\ Goto(w, "stopped")
    /\ UNCHANGED <<jobs, id, lastChecked, lastRun, now, classes, adding, history>>

(* QueuedJob::start removes the row first. *)
StartQueued(w) ==
    /\ at[w] = "execute" /\ row[w].job \in Queued
    /\ <<row[w].job, row[w].id>> \notin executedJobs[w]
    /\ jobs' = IF RowExists(w) THEN jobs \ {row[w].job} ELSE jobs
    /\ Goto(w, "setLastRun")
    /\ UNCHANGED <<id, reservedAt, lastChecked, lastRun, now, row, classes, executedJobs,
                   adding, history>>

(* TimedJob::start runs the job if its interval is over, going by the row   *)
(* that was selected.                                                      *)
StartTimed(w) ==
    /\ at[w] = "execute" /\ row[w].job \notin Queued
    /\ <<row[w].job, row[w].id>> \notin executedJobs[w]
    /\ Goto(w, IF now - row[w].lastRun > Interval THEN "setLastRun" ELSE "setLastJob")
    /\ UNCHANGED <<table, now, row, classes, executedJobs, adding, history>>

(* Job::start: setLastRun, then run *)
SetLastRun(w) ==
    /\ at[w] = "setLastRun"
    /\ lastRun' = SetWhereId(lastRun, w, now)
    /\ runs' = [runs EXCEPT ![row[w].job] = @ + 1]
    /\ Goto(w, "run")
    /\ UNCHANGED <<jobs, id, reservedAt, lastChecked, now, row, classes, executedJobs, adding, adds>>

(* The job ends, or throws: then setExecutionTime is left out.              *)
Run(w) ==
    /\ at[w] = "run"
    /\ \E next \in {"setExecutionTime", "setLastJob"} : Goto(w, next)
    /\ UNCHANGED <<table, now, row, classes, executedJobs, adding, history>>

(* Mutant: the reservation is made to look expired. *)
SetExecutionTimeExpired(w) ==
    /\ at[w] = "setExecutionTime"
    /\ reservedAt' = SetWhereId(reservedAt, w, now - ReserveTime - 1)
    /\ Goto(w, "setLastJob")
    /\ UNCHANGED <<jobs, id, lastChecked, lastRun, now, row, classes, executedJobs, adding, history>>

SetExecutionTime(w) ==
    /\ at[w] = "setExecutionTime"
    /\ reservedAt' = SetWhereId(reservedAt, w, 0)
    /\ Goto(w, "setLastJob")
    /\ UNCHANGED <<jobs, id, lastChecked, lastRun, now, row, classes, executedJobs, adding, history>>

(* setLastJob calls unlockJob; cron.php then looks for the next job ...     *)
SetLastJob(w) ==
    /\ at[w] = "setLastJob"
    /\ reservedAt' = SetWhereId(reservedAt, w, 0)
    /\ IF w \in Cron
       THEN /\ executedJobs' = [executedJobs EXCEPT ![w] = @ \cup {<<row[w].job, row[w].id>>}]
            /\ row' = [row EXCEPT ![w] = NoRow]
            /\ Goto(w, "select")
       ELSE Goto(w, "unlock") /\ UNCHANGED <<row, executedJobs>>
    /\ classes' = [classes EXCEPT ![w] = JobClasses[w]]
    /\ UNCHANGED <<jobs, id, lastChecked, lastRun, now, adding, history>>

(* ... the occ command calls unlockJob once more.                           *)
UnlockJob(w) ==
    /\ at[w] = "unlock"
    /\ reservedAt' = SetWhereId(reservedAt, w, 0)
    /\ row' = [row EXCEPT ![w] = NoRow]
    /\ Goto(w, "select")
    /\ UNCHANGED <<jobs, id, lastChecked, lastRun, now, classes, executedJobs, adding, history>>

Holds(w) == at[w] \in {"reset", "execute", "setLastRun", "run", "setExecutionTime", "setLastJob",
                    "unlock"}

(* The process is killed.  row stays as the record of what it had reserved. *)
Crash(w) ==
    /\ at[w] \notin {"stopped", "crashed"}
    /\ row' = [row EXCEPT ![w] = IF Holds(w) THEN @ ELSE NoRow]
    /\ Goto(w, "crashed")
    /\ UNCHANGED <<table, now, classes, executedJobs, adding, history>>

-----------------------------------------------------------------------------
(* The application. *)

(* add, up to its call of has *)
Add(j) ==
    /\ adding = NoAdd /\ j \in Addable /\ adds[j] < MaxAdds
    /\ adding' = [job |-> j, exists |-> j \in jobs]
    /\ adds' = [adds EXCEPT ![j] = @ + 1]
    /\ UNCHANGED <<table, now, worker, runs>>

(* INSERT or UPDATE; scheduleAfter passes a later firstCheck.  An UPDATE of *)
(* a row that is gone by now changes nothing.                              *)
AddWrite(firstCheck) ==
    /\ adding # NoAdd
    /\ LET j == adding.job
           written == ~adding.exists \/ j \in jobs
           Put(column, v) == IF written THEN [column EXCEPT ![j] = v] ELSE column
       IN  /\ jobs' = IF written THEN jobs \cup {j} ELSE jobs
           /\ id' = [id EXCEPT ![j] = IF adding.exists THEN @ ELSE @ + 1]
           /\ reservedAt' = Put(reservedAt, 0)
           /\ lastChecked' = Put(lastChecked, firstCheck)
           /\ lastRun' = Put(lastRun, 0)
    /\ adding' = NoAdd
    /\ UNCHANGED <<now, worker, history>>

(* Time passes; no worker keeps a job for longer than MaxRun.               *)
Tick ==
    /\ now < MaxTime
    /\ \A w \in Worker : Holds(w) => now - row[w].since < MaxRun
    /\ now' = now + 1
    /\ UNCHANGED <<table, worker, adding, history>>

-----------------------------------------------------------------------------
Next ==
    \/ \E w \in Worker :
          \/ Start(w)
          \/ \E j \in Job : Select(w, j)
          \/ SelectNothing(w)
          \/ Stop(w)
          \/ RemoveMissing(w)
          \/ CheckParallelRuns(w)
          \/ Skip(w)
          \/ Reserve(w)
          \/ ReserveFails(w)
          \/ ResetBroken(w)
          \/ StopAtExecuted(w)
          \/ StartQueued(w)
          \/ StartTimed(w)
          \/ SetLastRun(w)
          \/ Run(w)
          \/ SetExecutionTime(w)
          \/ SetLastJob(w)
          \/ UnlockJob(w)
          \/ Crash(w)
    \/ \E j \in Job : Add(j)
    \/ \E firstCheck \in {now, now + 1} : AddWrite(firstCheck)
    \/ Tick

Spec == Init /\ [][Next]_vars

-----------------------------------------------------------------------------
Running(w, j) == at[w] = "run" /\ row[w].job = j

(* A worker only takes a job over whose reservation was given back or is    *)
(* twelve hours old at the time it was selected, whatever happened to the  *)
(* row between the SELECT and the UPDATE.                                  *)
ReservationsAreKept ==
    [][\A j \in jobs \cap jobs' :
          reservedAt'[j] \notin {0, reservedAt[j]} => reservedAt[j] <= now - ReserveTime]_vars

(* allowParallelRuns: "Set this to false to prevent two Jobs from this      *)
(* class from running in parallel".  The code does not keep to this: see    *)
(* the README.                                                             *)
NoParallelRuns ==
    \A c \in Exclusive :
        Cardinality({w \in Worker : \E j \in Job : Running(w, j) /\ ClassOf[j] = c}) <= 1

(* A reservation nobody works on is left only by a process that was killed: *)
(* every other way out of a job gives it back (otherwise the job would be   *)
(* out of order for twelve hours).                                         *)
NoOrphanReservation ==
    \A j \in jobs : reservedAt[j] # 0 =>
        \E w \in Worker : row[w] # NoRow /\ row[w].job = j /\ (Holds(w) \/ at[w] = "crashed")

(* A QueuedJob is run at most as often as it was added, although add may    *)
(* give a row back to the queue that a worker is about to run.             *)
RunsAtMostOncePerAdd == \A j \in Queued : runs[j] <= adds[j]

(* getNext: "List of job classes to restrict which next job we get", over   *)
(* the retries of getNext after a lost race and after a job of a disabled   *)
(* app.  A worker that skips a job of its own classes loses the argument:   *)
(* the runs ask for classes that allow parallel runs.                       *)
OnlyRequestedClasses ==
    \A w \in Worker :
        at[w] = "run" /\ JobClasses[w] # {} => ClassOf[row[w].job] \in JobClasses[w]
=============================================================================
