--------------------------- MODULE JobListProofs ---------------------------
(***************************************************************************)
(* Proofs about JobList, for any number of workers and jobs: no step loses  *)
(* a reservation, a worker takes over only what is free, and a QueuedJob   *)
(* runs no more often than it was added.                                   *)
(*                                                                         *)
(* The last one is a budget.  Each call of add pays for one run; what it   *)
(* paid for is on its way to the table, in a row that is free to be taken, *)
(* in a worker that has taken the job and not yet run it, or used up.      *)
(* Last comes a worker that was asked for some classes of jobs only.       *)
(***************************************************************************)
EXTENDS JobList, FiniteSetTheorems, TLAPS

\* A job is over before its reservation looks abandoned.
Assumptions == IsFiniteSet(Worker) /\ 0 < ReserveTime /\ MaxRun < ReserveTime

\* What a worker is doing when it has selected a row, and when it has started
\* the job of it.
Selecting == {"build", "check", "skip", "reserve"}
Started == {"setLastRun", "run", "setExecutionTime", "setLastJob", "unlock"}
Selected(w) == at[w] \in Selecting \cup {"reset", "execute"} \cup Started

RowOK == \A w \in Worker : Selected(w) => row[w] \in Row

\* A row is inserted for each call of add, at most.
AddsOK ==
    /\ \A j \in Job : id[j] <= adds[j]
    /\ adding # NoAdd /\ ~adding.exists => id[adding.job] < adds[adding.job]

\* What a worker selected was free by then, and it still would be.
SelectedFree ==
    \A w \in Worker : at[w] \in Selecting => row[w].reservedAt <= now - ReserveTime

\* w reserved the row of j, or was killed when it had.
Owns(w, j) ==
    /\ Holds(w) \/ at[w] = "crashed"
    /\ row[w] \in Row /\ row[w].job = j /\ row[w].id = id[j]

Owned == \A j \in jobs : reservedAt[j] # 0 => \E w \in Worker : Owns(w, j)

\* Nobody keeps a job for longer than MaxRun.
Recent ==
    \A w \in Worker : Holds(w) =>
        ReserveTime <= row[w].since /\ row[w].since <= now /\ now <= row[w].since + MaxRun

\* The row of a QueuedJob is gone when the job starts, and does not come back
\* with the same id.
RemovedFirst ==
    \A w \in Worker : Selected(w) =>
        /\ row[w].id <= id[row[w].job]
        /\ at[w] \in Started /\ row[w].job \in Queued => ~RowExists(w)

\* The workers that have j and have not run it yet.
Runners(j) == {w \in Worker : at[w] \in {"reset", "execute", "setLastRun"} /\ row[w].job = j}

\* w has the reservation that is in the row of j.
Reserved(w, j) ==
    /\ at[w] \in {"reset", "execute"} /\ row[w].job = j
    /\ row[w].id = id[j] /\ row[w].since = reservedAt[j]

\* What calls of add have paid for: a row without a worker, and a row to come.
Free(j) == IF j \in jobs /\ \A w \in Worker : ~Reserved(w, j) THEN 1 ELSE 0
Coming(j) == IF adding # NoAdd /\ adding.job = j THEN 1 ELSE 0

Within(j) == runs[j] + Cardinality(Runners(j)) + Free(j) + Coming(j) <= adds[j]

Budget == \A j \in Queued : Within(j)

IType == TypeOK /\ RowOK /\ AddsOK
IInv == IType /\ SelectedFree /\ Owned /\ Recent /\ RemovedFirst

-----------------------------------------------------------------------------
(***************************************************************************)
(* Types and reservations.                                                 *)
(***************************************************************************)
LEMMA InitInv == Init => IInv
BY ConstantsOK DEF Init, IInv, IType, TypeOK, RowOK, AddsOK, SelectedFree, Owned, Recent,
   RemovedFirst, Selected, Selecting, Started, Holds, Step, NoAdd, NoRow

\* The types are kept; a worker that goes on has a row to go on with.
LEMMA TypeStep ==
    ASSUME IType, [Next]_vars
    PROVE  IType'
<1> USE ConstantsOK DEF IType, TypeOK, RowOK, Selected, Selecting, Started, table, worker, history,
           Goto, AddsOK, Step, Row
<1>1. ASSUME NEW w \in Worker, Start(w) PROVE IType'
  BY <1>1 DEF Start
<1>2. ASSUME NEW w \in Worker, SelectNothing(w) PROVE IType'
  BY <1>2 DEF SelectNothing
<1>3. ASSUME NEW w \in Worker, Stop(w) PROVE IType'
  BY <1>3 DEF Stop
<1>4. ASSUME NEW w \in Worker, RemoveMissing(w) PROVE IType'
  BY <1>4 DEF RemoveMissing, SetWhereId, RowExists
<1>5. ASSUME NEW w \in Worker, CheckParallelRuns(w) PROVE IType'
  BY <1>5 DEF CheckParallelRuns
<1>6. ASSUME NEW w \in Worker, Skip(w) PROVE IType'
  BY <1>6 DEF Skip, SetWhereId, RowExists
<1>7. ASSUME NEW w \in Worker, Reserve(w) PROVE IType'
  BY <1>7 DEF Reserve, SetWhereId, RowExists
<1>8. ASSUME NEW w \in Worker, ReserveFails(w) PROVE IType'
  BY <1>8 DEF ReserveFails
<1>9. ASSUME NEW w \in Worker, ResetBroken(w) PROVE IType'
  BY <1>9 DEF ResetBroken, SetWhereId, RowExists
<1>10. ASSUME NEW w \in Worker, StopAtExecuted(w) PROVE IType'
  BY <1>10 DEF StopAtExecuted, SetWhereId, RowExists
<1>11. ASSUME NEW w \in Worker, StartQueued(w) PROVE IType'
  BY <1>11 DEF StartQueued, SetWhereId, RowExists
<1>12. ASSUME NEW w \in Worker, StartTimed(w) PROVE IType'
  BY <1>12 DEF StartTimed
<1>13. ASSUME NEW w \in Worker, SetLastRun(w) PROVE IType'
  BY <1>13 DEF SetLastRun, SetWhereId, RowExists
<1>14. ASSUME NEW w \in Worker, Run(w) PROVE IType'
  BY <1>14 DEF Run
<1>15. ASSUME NEW w \in Worker, SetExecutionTime(w) PROVE IType'
  BY <1>15 DEF SetExecutionTime, SetWhereId, RowExists
<1>16. ASSUME NEW w \in Worker, SetLastJob(w) PROVE IType'
  BY <1>16 DEF SetLastJob, SetWhereId, RowExists
<1>17. ASSUME NEW w \in Worker, UnlockJob(w) PROVE IType'
  BY <1>17 DEF UnlockJob, SetWhereId, RowExists
<1>18. ASSUME NEW w \in Worker, Crash(w) PROVE IType'
  BY <1>18 DEF Crash
<1>19. ASSUME NEW w \in Worker, NEW j \in Job, Select(w, j) PROVE IType'
  BY <1>19 DEF Select, Due
<1>20. ASSUME NEW j \in Job, Add(j) PROVE IType'
  BY <1>20 DEF Add, NoAdd
<1>21. ASSUME NEW t \in Nat, AddWrite(t) PROVE IType'
  BY <1>21 DEF AddWrite
<1>22. ASSUME Tick PROVE IType'
  BY <1>22 DEF Tick
<1>23. ASSUME UNCHANGED vars PROVE IType'
  BY <1>23 DEF vars
<1> QED
  BY <1>1, <1>2, <1>3, <1>4, <1>5, <1>6, <1>7, <1>8, <1>9, <1>10, <1>11, <1>12,
     <1>13, <1>14, <1>15, <1>16, <1>17, <1>18, <1>19, <1>20, <1>21, <1>22, <1>23 DEF Next

\* Reservations that were old when they were selected do not become younger.
LEMMA SelectedFreeStep ==
    ASSUME IType, IType', SelectedFree, [Next]_vars
    PROVE  SelectedFree'
<1> USE ConstantsOK DEF IType, TypeOK, RowOK, Selected, Selecting, Started, table, worker, history,
           Goto, Row, SelectedFree
<1>1. ASSUME NEW w \in Worker, Start(w) PROVE SelectedFree'
  BY <1>1 DEF Start
<1>2. ASSUME NEW w \in Worker, SelectNothing(w) PROVE SelectedFree'
  BY <1>2 DEF SelectNothing
<1>3. ASSUME NEW w \in Worker, Stop(w) PROVE SelectedFree'
  BY <1>3 DEF Stop
<1>4. ASSUME NEW w \in Worker, RemoveMissing(w) PROVE SelectedFree'
  BY <1>4 DEF RemoveMissing, SetWhereId, RowExists
<1>5. ASSUME NEW w \in Worker, CheckParallelRuns(w) PROVE SelectedFree'
  BY <1>5 DEF CheckParallelRuns
<1>6. ASSUME NEW w \in Worker, Skip(w) PROVE SelectedFree'
  BY <1>6 DEF Skip, SetWhereId, RowExists
<1>7. ASSUME NEW w \in Worker, Reserve(w) PROVE SelectedFree'
  BY <1>7 DEF Reserve, SetWhereId, RowExists
<1>8. ASSUME NEW w \in Worker, ReserveFails(w) PROVE SelectedFree'
  BY <1>8 DEF ReserveFails
<1>9. ASSUME NEW w \in Worker, ResetBroken(w) PROVE SelectedFree'
  BY <1>9 DEF ResetBroken, SetWhereId, RowExists
<1>10. ASSUME NEW w \in Worker, StopAtExecuted(w) PROVE SelectedFree'
  BY <1>10 DEF StopAtExecuted, SetWhereId, RowExists
<1>11. ASSUME NEW w \in Worker, StartQueued(w) PROVE SelectedFree'
  BY <1>11 DEF StartQueued, SetWhereId, RowExists
<1>12. ASSUME NEW w \in Worker, StartTimed(w) PROVE SelectedFree'
  BY <1>12 DEF StartTimed
<1>13. ASSUME NEW w \in Worker, SetLastRun(w) PROVE SelectedFree'
  BY <1>13 DEF SetLastRun, SetWhereId, RowExists
<1>14. ASSUME NEW w \in Worker, Run(w) PROVE SelectedFree'
  BY <1>14 DEF Run
<1>15. ASSUME NEW w \in Worker, SetExecutionTime(w) PROVE SelectedFree'
  BY <1>15 DEF SetExecutionTime, SetWhereId, RowExists
<1>16. ASSUME NEW w \in Worker, SetLastJob(w) PROVE SelectedFree'
  BY <1>16 DEF SetLastJob, SetWhereId, RowExists
<1>17. ASSUME NEW w \in Worker, UnlockJob(w) PROVE SelectedFree'
  BY <1>17 DEF UnlockJob, SetWhereId, RowExists
<1>18. ASSUME NEW w \in Worker, Crash(w) PROVE SelectedFree'
  BY <1>18 DEF Crash
<1>19. ASSUME NEW w \in Worker, NEW j \in Job, Select(w, j) PROVE SelectedFree'
  BY <1>19 DEF Select, Due
<1>20. ASSUME NEW j \in Job, Add(j) PROVE SelectedFree'
  BY <1>20 DEF Add, NoAdd
<1>21. ASSUME NEW t \in Nat, AddWrite(t) PROVE SelectedFree'
  BY <1>21 DEF AddWrite
<1>22. ASSUME Tick PROVE SelectedFree'
  BY <1>22 DEF Tick
<1>23. ASSUME UNCHANGED vars PROVE SelectedFree'
  BY <1>23 DEF vars
<1> QED
  BY <1>1, <1>2, <1>3, <1>4, <1>5, <1>6, <1>7, <1>8, <1>9, <1>10, <1>11, <1>12,
     <1>13, <1>14, <1>15, <1>16, <1>17, <1>18, <1>19, <1>20, <1>21, <1>22, <1>23 DEF Next

\* Each way out of a job either keeps it or gives its reservation back; what an
\* insertion or an update by add leaves is not reserved.
LEMMA OwnedStep ==
    ASSUME IType, IType', Owned, [Next]_vars
    PROVE  Owned'
<1> USE ConstantsOK DEF IType, TypeOK, RowOK, Selected, Selecting, Started, table, worker, history,
           Goto, Row, RowExists, Owned, Owns, Holds
<1>1. ASSUME NEW w \in Worker, Start(w) PROVE Owned'
  BY <1>1 DEF Start
<1>2. ASSUME NEW w \in Worker, SelectNothing(w) PROVE Owned'
  BY <1>2 DEF SelectNothing
<1>3. ASSUME NEW w \in Worker, Stop(w) PROVE Owned'
  BY <1>3 DEF Stop
<1>4. ASSUME NEW w \in Worker, RemoveMissing(w) PROVE Owned'
  BY <1>4 DEF RemoveMissing, SetWhereId
<1>5. ASSUME NEW w \in Worker, CheckParallelRuns(w) PROVE Owned'
  BY <1>5 DEF CheckParallelRuns
<1>6. ASSUME NEW w \in Worker, Skip(w) PROVE Owned'
  BY <1>6 DEF Skip, SetWhereId
<1>7. ASSUME NEW w \in Worker, Reserve(w) PROVE Owned'
  BY <1>7 DEF Reserve, SetWhereId, Unchanged
<1>8. ASSUME NEW w \in Worker, ReserveFails(w) PROVE Owned'
  BY <1>8 DEF ReserveFails
<1>9. ASSUME NEW w \in Worker, ResetBroken(w) PROVE Owned'
  BY <1>9 DEF ResetBroken, SetWhereId
<1>10. ASSUME NEW w \in Worker, StopAtExecuted(w) PROVE Owned'
  BY <1>10 DEF StopAtExecuted, SetWhereId
<1>11. ASSUME NEW w \in Worker, StartQueued(w) PROVE Owned'
  BY <1>11 DEF StartQueued, SetWhereId
<1>12. ASSUME NEW w \in Worker, StartTimed(w) PROVE Owned'
  BY <1>12 DEF StartTimed
<1>13. ASSUME NEW w \in Worker, SetLastRun(w) PROVE Owned'
  BY <1>13 DEF SetLastRun, SetWhereId
<1>14. ASSUME NEW w \in Worker, Run(w) PROVE Owned'
  BY <1>14 DEF Run
<1>15. ASSUME NEW w \in Worker, SetExecutionTime(w) PROVE Owned'
  BY <1>15 DEF SetExecutionTime, SetWhereId
<1>16. ASSUME NEW w \in Worker, SetLastJob(w) PROVE Owned'
  BY <1>16 DEF SetLastJob, SetWhereId
<1>17. ASSUME NEW w \in Worker, UnlockJob(w) PROVE Owned'
  BY <1>17 DEF UnlockJob, SetWhereId
<1>18. ASSUME NEW w \in Worker, Crash(w) PROVE Owned'
  BY <1>18 DEF Crash
<1>19. ASSUME NEW w \in Worker, NEW j \in Job, Select(w, j) PROVE Owned'
  BY <1>19 DEF Select, Due
<1>20. ASSUME NEW j \in Job, Add(j) PROVE Owned'
  BY <1>20 DEF Add, NoAdd
<1>21. ASSUME NEW t \in Nat, AddWrite(t) PROVE Owned'
  BY <1>21 DEF AddWrite
<1>22. ASSUME Tick PROVE Owned'
  BY <1>22 DEF Tick
<1>23. ASSUME UNCHANGED vars PROVE Owned'
  BY <1>23 DEF vars
<1> QED
  BY <1>1, <1>2, <1>3, <1>4, <1>5, <1>6, <1>7, <1>8, <1>9, <1>10, <1>11, <1>12,
     <1>13, <1>14, <1>15, <1>16, <1>17, <1>18, <1>19, <1>20, <1>21, <1>22, <1>23 DEF Next

\* The clock waits for those that have a job.
LEMMA RecentStep ==
    ASSUME IType, IType', Recent, [Next]_vars
    PROVE  Recent'
<1> USE ConstantsOK DEF IType, TypeOK, RowOK, Selected, Selecting, Started, table, worker, history,
           Goto, Row, Recent, Holds
<1>1. ASSUME NEW w \in Worker, Start(w) PROVE Recent'
  BY <1>1 DEF Start
<1>2. ASSUME NEW w \in Worker, SelectNothing(w) PROVE Recent'
  BY <1>2 DEF SelectNothing
<1>3. ASSUME NEW w \in Worker, Stop(w) PROVE Recent'
  BY <1>3 DEF Stop
<1>4. ASSUME NEW w \in Worker, RemoveMissing(w) PROVE Recent'
  BY <1>4 DEF RemoveMissing, SetWhereId, RowExists
<1>5. ASSUME NEW w \in Worker, CheckParallelRuns(w) PROVE Recent'
  BY <1>5 DEF CheckParallelRuns
<1>6. ASSUME NEW w \in Worker, Skip(w) PROVE Recent'
  BY <1>6 DEF Skip, SetWhereId, RowExists
<1>7. ASSUME NEW w \in Worker, Reserve(w) PROVE Recent'
  BY <1>7 DEF Reserve, SetWhereId, RowExists
<1>8. ASSUME NEW w \in Worker, ReserveFails(w) PROVE Recent'
  BY <1>8 DEF ReserveFails
<1>9. ASSUME NEW w \in Worker, ResetBroken(w) PROVE Recent'
  BY <1>9 DEF ResetBroken, SetWhereId, RowExists
<1>10. ASSUME NEW w \in Worker, StopAtExecuted(w) PROVE Recent'
  BY <1>10 DEF StopAtExecuted, SetWhereId, RowExists
<1>11. ASSUME NEW w \in Worker, StartQueued(w) PROVE Recent'
  BY <1>11 DEF StartQueued, SetWhereId, RowExists
<1>12. ASSUME NEW w \in Worker, StartTimed(w) PROVE Recent'
  BY <1>12 DEF StartTimed
<1>13. ASSUME NEW w \in Worker, SetLastRun(w) PROVE Recent'
  BY <1>13 DEF SetLastRun, SetWhereId, RowExists
<1>14. ASSUME NEW w \in Worker, Run(w) PROVE Recent'
  BY <1>14 DEF Run
<1>15. ASSUME NEW w \in Worker, SetExecutionTime(w) PROVE Recent'
  BY <1>15 DEF SetExecutionTime, SetWhereId, RowExists
<1>16. ASSUME NEW w \in Worker, SetLastJob(w) PROVE Recent'
  BY <1>16 DEF SetLastJob, SetWhereId, RowExists
<1>17. ASSUME NEW w \in Worker, UnlockJob(w) PROVE Recent'
  BY <1>17 DEF UnlockJob, SetWhereId, RowExists
<1>18. ASSUME NEW w \in Worker, Crash(w) PROVE Recent'
  BY <1>18 DEF Crash
<1>19. ASSUME NEW w \in Worker, NEW j \in Job, Select(w, j) PROVE Recent'
  BY <1>19 DEF Select, Due
<1>20. ASSUME NEW j \in Job, Add(j) PROVE Recent'
  BY <1>20 DEF Add, NoAdd
<1>21. ASSUME NEW t \in Nat, AddWrite(t) PROVE Recent'
  BY <1>21 DEF AddWrite
<1>22. ASSUME Tick PROVE Recent'
  BY <1>22 DEF Tick
<1>23. ASSUME UNCHANGED vars PROVE Recent'
  BY <1>23 DEF vars
<1> QED
  BY <1>1, <1>2, <1>3, <1>4, <1>5, <1>6, <1>7, <1>8, <1>9, <1>10, <1>11, <1>12,
     <1>13, <1>14, <1>15, <1>16, <1>17, <1>18, <1>19, <1>20, <1>21, <1>22, <1>23 DEF Next

\* An insertion gives a row a new id.
LEMMA RemovedFirstStep ==
    ASSUME IType, IType', RemovedFirst, [Next]_vars
    PROVE  RemovedFirst'
<1> USE ConstantsOK DEF IType, TypeOK, RowOK, Selected, Selecting, Started, table, worker, history,
           Goto, Row, RowExists, RemovedFirst, AddsOK
<1>1. ASSUME NEW w \in Worker, Start(w) PROVE RemovedFirst'
  BY <1>1 DEF Start
<1>2. ASSUME NEW w \in Worker, SelectNothing(w) PROVE RemovedFirst'
  BY <1>2 DEF SelectNothing
<1>3. ASSUME NEW w \in Worker, Stop(w) PROVE RemovedFirst'
  BY <1>3 DEF Stop
<1>4. ASSUME NEW w \in Worker, RemoveMissing(w) PROVE RemovedFirst'
  BY <1>4 DEF RemoveMissing, SetWhereId
<1>5. ASSUME NEW w \in Worker, CheckParallelRuns(w) PROVE RemovedFirst'
  BY <1>5 DEF CheckParallelRuns
<1>6. ASSUME NEW w \in Worker, Skip(w) PROVE RemovedFirst'
  BY <1>6 DEF Skip, SetWhereId
<1>7. ASSUME NEW w \in Worker, Reserve(w) PROVE RemovedFirst'
  BY <1>7 DEF Reserve, SetWhereId, Unchanged
<1>8. ASSUME NEW w \in Worker, ReserveFails(w) PROVE RemovedFirst'
  BY <1>8 DEF ReserveFails
<1>9. ASSUME NEW w \in Worker, ResetBroken(w) PROVE RemovedFirst'
  BY <1>9 DEF ResetBroken, SetWhereId
<1>10. ASSUME NEW w \in Worker, StopAtExecuted(w) PROVE RemovedFirst'
  BY <1>10 DEF StopAtExecuted, SetWhereId
<1>11. ASSUME NEW w \in Worker, StartQueued(w) PROVE RemovedFirst'
  BY <1>11 DEF StartQueued, SetWhereId
<1>12. ASSUME NEW w \in Worker, StartTimed(w) PROVE RemovedFirst'
  BY <1>12 DEF StartTimed
<1>13. ASSUME NEW w \in Worker, SetLastRun(w) PROVE RemovedFirst'
  BY <1>13 DEF SetLastRun, SetWhereId
<1>14. ASSUME NEW w \in Worker, Run(w) PROVE RemovedFirst'
  BY <1>14 DEF Run
<1>15. ASSUME NEW w \in Worker, SetExecutionTime(w) PROVE RemovedFirst'
  BY <1>15 DEF SetExecutionTime, SetWhereId
<1>16. ASSUME NEW w \in Worker, SetLastJob(w) PROVE RemovedFirst'
  BY <1>16 DEF SetLastJob, SetWhereId
<1>17. ASSUME NEW w \in Worker, UnlockJob(w) PROVE RemovedFirst'
  BY <1>17 DEF UnlockJob, SetWhereId
<1>18. ASSUME NEW w \in Worker, Crash(w) PROVE RemovedFirst'
  BY <1>18 DEF Crash
<1>19. ASSUME NEW w \in Worker, NEW j \in Job, Select(w, j) PROVE RemovedFirst'
  BY <1>19 DEF Select, Due
<1>20. ASSUME NEW j \in Job, Add(j) PROVE RemovedFirst'
  BY <1>20 DEF Add, NoAdd
<1>21. ASSUME NEW t \in Nat, AddWrite(t) PROVE RemovedFirst'
  BY <1>21 DEF AddWrite
<1>22. ASSUME Tick PROVE RemovedFirst'
  BY <1>22 DEF Tick
<1>23. ASSUME UNCHANGED vars PROVE RemovedFirst'
  BY <1>23 DEF vars
<1> QED
  BY <1>1, <1>2, <1>3, <1>4, <1>5, <1>6, <1>7, <1>8, <1>9, <1>10, <1>11, <1>12,
     <1>13, <1>14, <1>15, <1>16, <1>17, <1>18, <1>19, <1>20, <1>21, <1>22, <1>23 DEF Next

LEMMA InvStep == IInv /\ [Next]_vars => IInv'
BY TypeStep, SelectedFreeStep, OwnedStep, RecentStep, RemovedFirstStep DEF IInv

-----------------------------------------------------------------------------
(***************************************************************************)
(* The budget.                                                             *)
(***************************************************************************)
\* Sets of workers are counted by natural numbers ...
LEMMA Counted ==
    ASSUME IsFiniteSet(Worker), NEW S \in SUBSET Worker
    PROVE  IsFiniteSet(S) /\ Cardinality(S) \in Nat
BY FS_Subset, FS_CardinalityType

\* ... and one worker more or less is one.
LEMMA CountOne ==
    ASSUME IsFiniteSet(Worker), NEW S \in SUBSET Worker, NEW w \in Worker
    PROVE  /\ w \in S => Cardinality(S \ {w}) = Cardinality(S) - 1
           /\ w \notin S => Cardinality(S \cup {w}) = Cardinality(S) + 1
BY Counted, FS_RemoveElement, FS_AddElement

\* A step that takes no job and gives none back costs nothing.
LEMMA Kept ==
    ASSUME IType, NEW j \in Job, Within(j), IsFiniteSet(Worker),
           Runners(j)' = Runners(j), Free(j)' <= Free(j), Coming(j)' = Coming(j),
           runs'[j] = runs[j], adds'[j] = adds[j]
    PROVE  Within(j)'
<1>1. Cardinality(Runners(j)) \in Nat /\ Cardinality(Runners(j))' = Cardinality(Runners(j))
  BY Counted DEF Runners
<1>2. Free(j) \in 0..1 /\ Free(j)' \in 0..1 /\ Coming(j) \in 0..1
  BY DEF Free, Coming
<1> QED
  BY <1>1, <1>2 DEF Within, IType, TypeOK

\* A worker that runs its job, gives it back or is killed makes room for one.
LEMMA Left ==
    ASSUME IType, NEW j \in Job, Within(j), IsFiniteSet(Worker),
           NEW w \in Runners(j), Runners(j)' = Runners(j) \ {w},
           Coming(j)' = Coming(j), adds'[j] = adds[j],
           \/ runs'[j] = runs[j]
           \/ runs'[j] = runs[j] + 1 /\ Free(j)' = Free(j)
    PROVE  Within(j)'
<1>1. Cardinality(Runners(j)) \in Nat /\ Cardinality(Runners(j))' = Cardinality(Runners(j)) - 1
  BY Counted, CountOne DEF Runners
<1>2. Free(j) \in 0..1 /\ Free(j)' \in 0..1 /\ Coming(j) \in 0..1
  BY DEF Free, Coming
<1> QED
  BY <1>1, <1>2 DEF Within, IType, TypeOK

\* Reserving a row uses up what was free, since no other worker has it: whoever
\* did would have had to end by now.
LEMMA BudgetStep ==
    ASSUME Assumptions, NEW j \in Queued, IInv, IInv', Within(j), [Next]_vars
    PROVE  Within(j)'
<1>0. j \in Job
  BY ConstantsOK
<1> DEFINE Same == /\ Runners(j)' = Runners(j) /\ Free(j)' <= Free(j) /\ Coming(j)' = Coming(j)
                   /\ runs'[j] = runs[j] /\ adds'[j] = adds[j]
<1>1. ASSUME Same PROVE Within(j)'
  BY <1>0, <1>1, Kept DEF Assumptions, IInv
<1> USE <1>0 DEF Assumptions, IInv, IType, TypeOK, RowOK, Selected, Selecting, Started,
                  table, worker, history, Goto, Holds, Coming
<1>2. ASSUME NEW w \in Worker, Start(w) PROVE Within(j)'
  <2>1. Same
    BY <1>2 DEF Start, Runners, Free, Reserved
  <2> QED BY <2>1, <1>1
<1>3. ASSUME NEW w \in Worker, SelectNothing(w) PROVE Within(j)'
  <2>1. Same
    BY <1>3 DEF SelectNothing, Runners, Free, Reserved
  <2> QED BY <2>1, <1>1
<1>4. ASSUME NEW w \in Worker, Stop(w) PROVE Within(j)'
  <2>1. Same
    BY <1>4 DEF Stop, Runners, Free, Reserved
  <2> QED BY <2>1, <1>1
<1>5. ASSUME NEW w \in Worker, CheckParallelRuns(w) PROVE Within(j)'
  <2>1. Same
    BY <1>5 DEF CheckParallelRuns, Runners, Free, Reserved
  <2> QED BY <2>1, <1>1
<1>6. ASSUME NEW w \in Worker, Skip(w) PROVE Within(j)'
  <2>1. Same
    BY <1>6 DEF Skip, Runners, Free, Reserved
  <2> QED BY <2>1, <1>1
<1>7. ASSUME NEW w \in Worker, ReserveFails(w) PROVE Within(j)'
  <2>1. Same
    BY <1>7 DEF ReserveFails, Runners, Free, Reserved
  <2> QED BY <2>1, <1>1
<1>8. ASSUME NEW w \in Worker, Run(w) PROVE Within(j)'
  <2>1. Same
    BY <1>8 DEF Run, Runners, Free, Reserved
  <2> QED BY <2>1, <1>1
<1>9. ASSUME NEW w \in Worker, StartTimed(w) PROVE Within(j)'
  <2>1. Same
    BY <1>9 DEF StartTimed, Runners, Free, Reserved
  <2> QED BY <2>1, <1>1
<1>10. ASSUME NEW w \in Worker, RemoveMissing(w) PROVE Within(j)'
  <2>1. Same
    BY <1>10 DEF RemoveMissing, Runners, Free, Reserved, RowExists
  <2> QED BY <2>1, <1>1
<1>11. ASSUME NEW w \in Worker, StartQueued(w) PROVE Within(j)'
  <2>1. Same
    BY <1>11 DEF StartQueued, Runners, Free, Reserved, RowExists
  <2> QED BY <2>1, <1>1
<1>12. ASSUME NEW w \in Worker, SetExecutionTime(w) PROVE Within(j)'
  <2>1. reservedAt'[j] = reservedAt[j]
    BY <1>12 DEF SetExecutionTime, SetWhereId, RowExists, RemovedFirst
  <2>2. Same
    BY <1>12, <2>1 DEF SetExecutionTime, Runners, Free, Reserved
  <2> QED BY <2>2, <1>1
<1>13. ASSUME NEW w \in Worker, SetLastJob(w) PROVE Within(j)'
  <2>1. reservedAt'[j] = reservedAt[j]
    BY <1>13 DEF SetLastJob, SetWhereId, RowExists, RemovedFirst
  <2>2. Same
    BY <1>13, <2>1 DEF SetLastJob, Runners, Free, Reserved
  <2> QED BY <2>2, <1>1
<1>14. ASSUME NEW w \in Worker, UnlockJob(w) PROVE Within(j)'
  <2>1. reservedAt'[j] = reservedAt[j]
    BY <1>14 DEF UnlockJob, SetWhereId, RowExists, RemovedFirst
  <2>2. Same
    BY <1>14, <2>1 DEF UnlockJob, Runners, Free, Reserved
  <2> QED BY <2>2, <1>1
<1>15. ASSUME NEW w \in Worker, NEW i \in Job, Select(w, i) PROVE Within(j)'
  <2>1. Same
    BY <1>15 DEF Select, Runners, Free, Reserved
  <2> QED BY <2>1, <1>1
<1>16. ASSUME Tick PROVE Within(j)'
  <2>1. Same
    BY <1>16 DEF Tick, Runners, Free, Reserved
  <2> QED BY <2>1, <1>1
<1>17. ASSUME UNCHANGED vars PROVE Within(j)'
  <2>1. Same
    BY <1>17 DEF vars, Runners, Free, Reserved
  <2> QED BY <2>1, <1>1
<1>18. ASSUME NEW w \in Worker, ResetBroken(w) PROVE Within(j)'
  <2>1. CASE w \in Runners(j)
    <3>1. /\ Runners(j)' = Runners(j) \ {w} /\ Coming(j)' = Coming(j) /\ adds'[j] = adds[j]
          /\ \/ runs'[j] = runs[j]
             \/ runs'[j] = runs[j] + 1 /\ Free(j)' = Free(j)
      BY <1>18, <2>1 DEF ResetBroken, Runners, Free, Reserved
    <3> QED BY <2>1, <3>1, Left
  <2>2. CASE w \notin Runners(j)
    <3>1. Same
      BY <1>18, <2>2 DEF ResetBroken, Runners, Free, Reserved, SetWhereId, RowExists
    <3> QED BY <3>1, <1>1
  <2> QED BY <2>1, <2>2
<1>19. ASSUME NEW w \in Worker, StopAtExecuted(w) PROVE Within(j)'
  <2>1. CASE w \in Runners(j)
    <3>1. /\ Runners(j)' = Runners(j) \ {w} /\ Coming(j)' = Coming(j) /\ adds'[j] = adds[j]
          /\ \/ runs'[j] = runs[j]
             \/ runs'[j] = runs[j] + 1 /\ Free(j)' = Free(j)
      BY <1>19, <2>1 DEF StopAtExecuted, Runners, Free, Reserved
    <3> QED BY <2>1, <3>1, Left
  <2>2. CASE w \notin Runners(j)
    <3>1. Same
      BY <1>19, <2>2 DEF StopAtExecuted, Runners, Free, Reserved, SetWhereId, RowExists
    <3> QED BY <3>1, <1>1
  <2> QED BY <2>1, <2>2
<1>20. ASSUME NEW w \in Worker, Crash(w) PROVE Within(j)'
  <2>1. CASE w \in Runners(j)
    <3>1. /\ Runners(j)' = Runners(j) \ {w} /\ Coming(j)' = Coming(j) /\ adds'[j] = adds[j]
          /\ \/ runs'[j] = runs[j]
             \/ runs'[j] = runs[j] + 1 /\ Free(j)' = Free(j)
      BY <1>20, <2>1 DEF Crash, Runners, Free, Reserved
    <3> QED BY <2>1, <3>1, Left
  <2>2. CASE w \notin Runners(j)
    <3>1. Same
      BY <1>20, <2>2 DEF Crash, Runners, Free, Reserved, SetWhereId, RowExists
    <3> QED BY <3>1, <1>1
  <2> QED BY <2>1, <2>2
<1>21. ASSUME NEW w \in Worker, SetLastRun(w) PROVE Within(j)'
  <2>1. CASE w \in Runners(j)
    <3>1. /\ Runners(j)' = Runners(j) \ {w} /\ Coming(j)' = Coming(j) /\ adds'[j] = adds[j]
          /\ \/ runs'[j] = runs[j]
             \/ runs'[j] = runs[j] + 1 /\ Free(j)' = Free(j)
      BY <1>21, <2>1 DEF SetLastRun, Runners, Free, Reserved
    <3> QED BY <2>1, <3>1, Left
  <2>2. CASE w \notin Runners(j)
    <3>1. Same
      BY <1>21, <2>2 DEF SetLastRun, Runners, Free, Reserved, SetWhereId, RowExists
    <3> QED BY <3>1, <1>1
  <2> QED BY <2>1, <2>2
<1>22. ASSUME NEW w \in Worker, Reserve(w) PROVE Within(j)'
  <2>1. CASE row[w].job = j
    <3>1. w \notin Runners(j) /\ Runners(j)' = Runners(j) \cup {w}
      BY <1>22, <2>1 DEF Reserve, Runners, Free, Reserved
    <3>2. Cardinality(Runners(j)) \in Nat /\ Cardinality(Runners(j))' = Cardinality(Runners(j)) + 1
      BY <3>1, Counted, CountOne DEF Runners
    <3>3. j \in jobs /\ reservedAt[j] <= now - ReserveTime
      BY <1>22, <2>1 DEF Reserve, Unchanged, RowExists, SelectedFree
    <3>4. ASSUME NEW v \in Worker PROVE ~Reserved(v, j)
      BY <3>3, ConstantsOK DEF Reserved, Recent, Row
    <3>5. Reserved(w, j)'
      BY <1>22, <2>1 DEF Reserve, Unchanged, RowExists, SetWhereId, Reserved, Runners, Free
    <3>6. Free(j) = 1 /\ Free(j)' = 0
      BY <3>3, <3>4, <3>5 DEF Free
    <3>7. Coming(j)' = Coming(j) /\ Coming(j) \in 0..1 /\ runs'[j] = runs[j] /\ adds'[j] = adds[j]
      BY <1>22 DEF Reserve
    <3> QED BY <3>2, <3>6, <3>7 DEF Within
  <2>2. CASE row[w].job # j
    <3>1. reservedAt'[j] = reservedAt[j]
      BY <1>22, <2>2 DEF Reserve, SetWhereId, RowExists
    <3>2. Same
      BY <1>22, <2>2, <3>1 DEF Reserve, Runners, Free, Reserved
    <3> QED BY <3>2, <1>1
  <2> QED BY <2>1, <2>2
<1>23. ASSUME NEW i \in Job, Add(i) PROVE Within(j)'
  <2>1. Runners(j)' = Runners(j) /\ Free(j)' = Free(j) /\ runs'[j] = runs[j]
    BY <1>23 DEF Add, Runners, Free, Reserved
  <2>2. Cardinality(Runners(j)) \in Nat
    BY Counted DEF Runners
  <2>3. Free(j) \in 0..1
    BY DEF Free
  <2>4. Coming(j)' - Coming(j) = adds'[j] - adds[j] /\ Coming(j) \in 0..1 /\ Coming(j)' \in 0..1
    <3>1. adding = NoAdd /\ adding' # NoAdd /\ adding'.job = i
      BY <1>23 DEF Add, NoAdd
    <3>2. Coming(j) = 0 /\ Coming(j)' = IF i = j THEN 1 ELSE 0
      BY <3>1
    <3>3. adds'[j] = IF i = j THEN adds[j] + 1 ELSE adds[j]
      BY <1>23 DEF Add
    <3> QED BY <3>2, <3>3
  <2> QED BY <2>1, <2>2, <2>3, <2>4 DEF Within
<1>24. ASSUME NEW t \in Nat, AddWrite(t) PROVE Within(j)'
  <2>1. Runners(j)' = Runners(j) /\ runs'[j] = runs[j] /\ adds'[j] = adds[j] /\ Coming(j)' = 0
    BY <1>24 DEF AddWrite, Runners, Free, Reserved
  <2>2. CASE adding.job = j
    <3>1. Coming(j) = 1
      BY <1>24, <2>2 DEF AddWrite
    <3>2. Cardinality(Runners(j)) \in Nat /\ Cardinality(Runners(j))' = Cardinality(Runners(j))
      BY <2>1, Counted DEF Runners
    <3>3. Free(j) \in 0..1 /\ Free(j)' \in 0..1
      BY DEF Free
    <3> QED BY <2>1, <3>1, <3>2, <3>3 DEF Within
  <2>3. CASE adding.job # j
    <3>1. Same
      BY <1>24, <2>3 DEF AddWrite, Runners, Free, Reserved
    <3> QED BY <3>1, <1>1
  <2> QED BY <2>2, <2>3
<1>25. now \in Nat /\ now + 1 \in Nat
  BY ConstantsOK
<1> QED
  BY <1>2, <1>3, <1>4, <1>5, <1>6, <1>7, <1>8, <1>9, <1>10, <1>11, <1>12, <1>13,
     <1>14, <1>15, <1>16, <1>17, <1>18, <1>19, <1>20, <1>21, <1>22, <1>23, <1>24, <1>25 DEF Next

LEMMA InitBudget == ASSUME Assumptions, Init PROVE Budget
<1> SUFFICES ASSUME NEW j \in Queued PROVE Within(j)
  BY DEF Budget
<1>1. Runners(j) = {} /\ Coming(j) = 0
  BY DEF Init, Runners, Coming, NoAdd
<1>2. Cardinality(Runners(j)) = 0
  BY <1>1, FS_EmptySet
<1>3. Free(j) = IF j \in jobs THEN 1 ELSE 0
  BY DEF Init, Free, Reserved
<1> QED
  BY <1>1, <1>2, <1>3, ConstantsOK DEF Init, Within

-----------------------------------------------------------------------------
(***************************************************************************)
(* The classes a worker was asked for.                                     *)
(***************************************************************************)
\* A worker that never has to skip a job of its own classes.
ParallelOnly == \A w \in Worker : JobClasses[w] \cap Exclusive = {}

\* A worker that was asked for some classes keeps them in getNext, and what it
\* has selected is of one of them, so that it never comes to skip it.
Asked ==
    \A w \in Worker : JobClasses[w] # {} =>
        /\ at[w] \notin {"stopped", "crashed"} => classes[w] = JobClasses[w]
        /\ Selected(w) => ClassOf[row[w].job] \in JobClasses[w]
        /\ at[w] \notin {"check", "skip"}

\* A step of the worker w that changes neither its classes nor its row.
LEMMA AskedKept ==
    ASSUME ParallelOnly, IType, Asked, NEW w \in Worker, NEW step, Goto(w, step),
           Selected(w), step \notin {"check", "skip"}, classes' = classes,
           \A v \in Worker : row'[v].job = row[v].job
    PROVE  Asked'
BY DEF IType, TypeOK, Asked, Goto, Selected, Selecting, Started

\* A step that leaves the worker without a row.
LEMMA AskedLeft ==
    ASSUME ParallelOnly, IType, Asked, NEW w \in Worker, NEW step, Goto(w, step),
           step \in {"stopped", "select", "crashed"},
           step = "select" /\ JobClasses[w] # {} => classes'[w] = JobClasses[w],
           \A v \in Worker : v # w => classes'[v] = classes[v] /\ row'[v].job = row[v].job
    PROVE  Asked'
<1>1. ~Selected(w)' /\ \A v \in Worker : v # w => Selected(v)' = Selected(v)
  BY DEF IType, TypeOK, Goto, Selected, Selecting, Started
<1> QED BY <1>1 DEF IType, TypeOK, Asked, Goto

LEMMA AskedStep ==
    ASSUME ParallelOnly, IType, Asked, [Next]_vars
    PROVE  Asked'
<1> USE DEF worker
<1>1. ASSUME NEW w \in Worker, Start(w) PROVE Asked'
  BY <1>1, AskedLeft DEF Start, IType, TypeOK
<1>2. ASSUME NEW w \in Worker, SelectNothing(w) PROVE Asked'
  <2>1. classes' = [classes EXCEPT ![w] = JobClasses[w]] /\ UNCHANGED row
    BY <1>2 DEF SelectNothing
  <2>2. Goto(w, "stopped") \/ Goto(w, "select")
    BY <1>2 DEF SelectNothing, Goto, IType, TypeOK
  <2> QED BY <2>1, <2>2, AskedLeft DEF IType, TypeOK
<1>3. ASSUME NEW w \in Worker, Stop(w) PROVE Asked'
  BY <1>3, AskedLeft DEF Stop
<1>4. ASSUME NEW w \in Worker, RemoveMissing(w) PROVE Asked'
  BY <1>4, AskedKept DEF RemoveMissing, Selected, Selecting
<1>5. ASSUME NEW w \in Worker, CheckParallelRuns(w) PROVE Asked'
  <2>1. JobClasses[w] = {}
    BY <1>5 DEF CheckParallelRuns, Asked
  <2> QED BY <1>5, <2>1 DEF CheckParallelRuns, Asked, Goto, IType, TypeOK, Selected
<1>6. ASSUME NEW w \in Worker, Skip(w) PROVE Asked'
  <2>1. JobClasses[w] = {}
    BY <1>6 DEF Skip, Asked
  <2> QED BY <1>6, <2>1 DEF Skip, Asked, Goto, IType, TypeOK, Selected
<1>7. ASSUME NEW w \in Worker, Reserve(w) PROVE Asked'
  <2>1. PICK step \in {"reset", "execute"} : Goto(w, step)
    BY <1>7 DEF Reserve
  <2>2. \A v \in Worker : row'[v].job = row[v].job
    BY <1>7 DEF Reserve, IType, TypeOK, RowOK, Selected, Selecting, Row
  <2> QED BY <1>7, <2>1, <2>2, AskedKept DEF Reserve, Selected, Selecting
<1>8. ASSUME NEW w \in Worker, ReserveFails(w) PROVE Asked'
  BY <1>8, AskedLeft DEF ReserveFails, Asked, IType, TypeOK
<1>9. ASSUME NEW w \in Worker, ResetBroken(w) PROVE Asked'
  BY <1>9, AskedLeft DEF ResetBroken, Asked, IType, TypeOK
<1>10. ASSUME NEW w \in Worker, StopAtExecuted(w) PROVE Asked'
  BY <1>10, AskedLeft DEF StopAtExecuted, IType, TypeOK
<1>11. ASSUME NEW w \in Worker, StartQueued(w) PROVE Asked'
  BY <1>11, AskedKept DEF StartQueued, Selected, Selecting
<1>12. ASSUME NEW w \in Worker, StartTimed(w) PROVE Asked'
  BY <1>12, AskedKept DEF StartTimed, Selected, Selecting
<1>13. ASSUME NEW w \in Worker, SetLastRun(w) PROVE Asked'
  BY <1>13, AskedKept DEF SetLastRun, Selected, Started
<1>14. ASSUME NEW w \in Worker, Run(w) PROVE Asked'
  BY <1>14, AskedKept DEF Run, Selected, Started
<1>15. ASSUME NEW w \in Worker, SetExecutionTime(w) PROVE Asked'
  BY <1>15, AskedKept DEF SetExecutionTime, Selected, Started
<1>16. ASSUME NEW w \in Worker, SetLastJob(w) PROVE Asked'
  <2>1. classes' = [classes EXCEPT ![w] = JobClasses[w]] /\ Selected(w)
    BY <1>16 DEF SetLastJob, Selected, Started
  <2>2. CASE w \in Cron
    BY <1>16, <2>1, <2>2, AskedLeft DEF SetLastJob, IType, TypeOK
  <2>3. CASE w \notin Cron
    <3>1. Goto(w, "unlock") /\ UNCHANGED row
      BY <1>16, <2>3 DEF SetLastJob
    <3>2. \A v \in Worker : v # w => at'[v] = at[v] /\ classes'[v] = classes[v]
      BY <2>1, <3>1 DEF Goto, IType, TypeOK
    <3>3. at'[w] = "unlock" /\ classes'[w] = JobClasses[w]
      BY <2>1, <3>1 DEF Goto, IType, TypeOK
    <3> QED BY <2>1, <3>1, <3>2, <3>3 DEF Asked, Selected, Started, Selecting
  <2> QED BY <2>2, <2>3
<1>17. ASSUME NEW w \in Worker, UnlockJob(w) PROVE Asked'
  BY <1>17, AskedLeft DEF UnlockJob, Asked, IType, TypeOK
<1>18. ASSUME NEW w \in Worker, Crash(w) PROVE Asked'
  BY <1>18, AskedLeft DEF Crash, IType, TypeOK
<1>19. ASSUME NEW w \in Worker, NEW j \in Job, Select(w, j) PROVE Asked'
  <2>1. /\ at[w] = "select" /\ Wanted(w, j) /\ classes' = classes
        /\ row'[w].job = j /\ \A v \in Worker : v # w => row'[v] = row[v]
    BY <1>19 DEF Select, IType, TypeOK
  <2>2. JobClasses[w] # {} => ClassOf[j] \in JobClasses[w] /\ ClassOf[j] \notin Exclusive
    BY <2>1 DEF Asked, Wanted, ParallelOnly
  <2>3. PICK step \in {"build", "check", "reserve"} : Goto(w, step)
    BY <1>19 DEF Select
  <2>4. ClassOf[j] \notin Exclusive => at'[w] # "check"
    BY <1>19 DEF Select, Goto, IType, TypeOK
  <2> QED BY <2>1, <2>2, <2>3, <2>4 DEF Asked, Goto, IType, TypeOK, Selected, Selecting, Started
<1>20. ASSUME UNCHANGED worker PROVE Asked'
  BY <1>20 DEF Asked, Selected
<1> QED
  BY <1>1, <1>2, <1>3, <1>4, <1>5, <1>6, <1>7, <1>8, <1>9, <1>10, <1>11, <1>12,
     <1>13, <1>14, <1>15, <1>16, <1>17, <1>18, <1>19, <1>20 DEF Next, Add, AddWrite, Tick, vars

LEMMA InitAsked == Init => Asked
BY DEF Init, Asked, Selected, Selecting, Started

-----------------------------------------------------------------------------
(***************************************************************************)
(* Theorems.                                                               *)
(***************************************************************************)
\* Types and reservations, in every state: the strengthening the theorems below
\* follow from.
THEOREM Invariance == Spec => []IInv
BY InitInv, InvStep, PTL DEF Spec

\* The columns of the table and the counters keep their types; a worker never
\* has anything but a whole row or none.
THEOREM TypeCorrect == Spec => []TypeOK
<1>1. IInv => TypeOK
  BY DEF IInv, IType
<1> QED
  BY <1>1, Invariance, PTL

\* getNext, start, setLastJob and unlockJob give each reservation back on every
\* way out: one that is left belongs to a worker that goes on or was killed.
THEOREM NoOrphans == Spec => []NoOrphanReservation
<1>1. IInv => NoOrphanReservation
  BY DEF IInv, Owned, Owns, NoOrphanReservation, Row, NoRow
<1> QED
  BY <1>1, Invariance, PTL

\* The UPDATE of getNext takes over no reservation that was not free when the
\* row was selected, whatever happened to the row since.
THEOREM Keeps == Spec => ReservationsAreKept
<1> DEFINE Take == \A j \in jobs \cap jobs' :
          reservedAt'[j] \notin {0, reservedAt[j]} => reservedAt[j] <= now - ReserveTime
<1>1. ASSUME IInv, [Next]_vars PROVE [Take]_vars
  <2> USE ConstantsOK DEF IInv, IType, TypeOK, table, SetWhereId, RowExists
  <2>1. ASSUME NEW w \in Worker, Reserve(w) PROVE Take
    BY <1>1, <2>1 DEF Reserve, Unchanged, SelectedFree, Selecting
  <2>2. ASSUME NEW t, AddWrite(t) PROVE Take
    BY <1>1, <2>2 DEF AddWrite
  <2>3. ASSUME \/ reservedAt' = reservedAt
               \/ \E w \in Worker : reservedAt' = SetWhereId(reservedAt, w, 0)
        PROVE  Take
    BY <1>1, <2>3
  <2>4. ASSUME NEW w \in Worker,
               \/ Start(w) \/ (\E j \in Job : Select(w, j)) \/ SelectNothing(w) \/ Stop(w)
               \/ RemoveMissing(w) \/ CheckParallelRuns(w) \/ Skip(w) \/ ReserveFails(w)
               \/ ResetBroken(w) \/ StopAtExecuted(w) \/ StartQueued(w) \/ StartTimed(w)
               \/ SetLastRun(w) \/ Run(w) \/ SetExecutionTime(w) \/ SetLastJob(w)
               \/ UnlockJob(w) \/ Crash(w)
        PROVE  \/ reservedAt' = reservedAt
               \/ \E v \in Worker : reservedAt' = SetWhereId(reservedAt, v, 0)
    BY <2>4 DEF Start, Select, SelectNothing, Stop, RemoveMissing, CheckParallelRuns, Skip,
       ReserveFails, ResetBroken, StopAtExecuted, StartQueued, StartTimed, SetLastRun, Run,
       SetExecutionTime, SetLastJob, UnlockJob, Crash
  <2>5. ASSUME (\E j \in Job : Add(j)) \/ Tick \/ UNCHANGED vars PROVE reservedAt' = reservedAt
    BY <2>5 DEF Add, Tick, vars
  <2> QED
    BY <1>1, <2>1, <2>2, <2>3, <2>4, <2>5 DEF Next
<1> QED
  BY <1>1, Invariance, PTL DEF Spec, ReservationsAreKept

\* A QueuedJob is removed from the table before it runs, and what add resets is
\* paid for by that call: however workers are interleaved with add, and wherever
\* they are killed, the job does not run more often than it was added.
THEOREM RunsOnce ==
    ASSUME Assumptions
    PROVE  Spec => []RunsAtMostOncePerAdd
<1>1. Init => Budget
  BY InitBudget
<1>2. IInv /\ IInv' /\ Budget /\ [Next]_vars => Budget'
  BY BudgetStep DEF Budget
<1>3. IInv /\ Budget => RunsAtMostOncePerAdd
  <2> SUFFICES ASSUME IInv, Budget, NEW j \in Queued PROVE runs[j] <= adds[j]
    BY DEF RunsAtMostOncePerAdd
  <2>1. Cardinality(Runners(j)) \in Nat
    BY Counted DEF Runners, Assumptions
  <2>2. Free(j) \in 0..1 /\ Coming(j) \in 0..1
    BY DEF Free, Coming
  <2> QED
    BY <2>1, <2>2, ConstantsOK DEF Budget, Within, IInv, IType, TypeOK
<1> QED
  BY <1>1, <1>2, <1>3, Invariance, PTL DEF Spec

\* A worker that was asked for classes whose jobs may run in parallel runs no job
\* of another class, over all the retries of getNext: a lost race, a job of a
\* disabled app, a class that does not exist.
THEOREM OnlyRequested ==
    ASSUME ParallelOnly
    PROVE  Spec => []OnlyRequestedClasses
<1>1. IInv /\ Asked /\ [Next]_vars => Asked'
  BY AskedStep DEF IInv
<1>2. Asked => OnlyRequestedClasses
  BY DEF Asked, OnlyRequestedClasses, Selected, Started
<1> QED
  BY <1>1, <1>2, InitAsked, Invariance, PTL DEF Spec

=============================================================================
