------------------------- MODULE DBLockingProvider -------------------------
(***************************************************************************)
(* The locking provider on the database table file_locks                   *)
(* (lib/private/Lock/DBLockingProvider.php and its base class).            *)
(*                                                                         *)
(* A row holds an anonymous counter: -1 for an exclusive lock, otherwise   *)
(* the number of shared locks.  Who owns a unit of it is known only to the *)
(* memory of each request.  A step is one SQL statement together with the  *)
(* bookkeeping that follows it; requests interleave between statements,    *)
(* can die at any point, and stray rows disappear once their ttl is over.  *)
(*                                                                         *)
(* Times are relative: age counts from the start of a request, ttl down to *)
(* the moment the row may be deleted, so behaviours need no clock bound.   *)
(***************************************************************************)
EXTENDS Integers, FiniteSets

CONSTANTS
    Request,        \* the PHP requests and console commands
    Path,           \* the lock keys
    Caching,        \* the requests with cacheSharedLocks, i.e. not on the CLI
    SharedPath,     \* paths that are locked shared first (all of View.php)
    ExclusivePath,  \* paths that are locked exclusively without a shared lock
    TTL,            \* filelocking.ttl
    MaxAge,         \* bound: how long a request runs before it is killed
    MaxShared       \* bound: nested shared locks of one request on one path

ASSUME ConstantsOK ==
    /\ Caching \subseteq Request
    /\ SharedPath \subseteq Path
    /\ ExclusivePath \subseteq Path
    /\ TTL \in Nat
    /\ MaxAge \in Nat
    /\ MaxShared \in Nat \ {0}

VARIABLES
    rows,               \* the paths that have a row in file_locks
    lock,               \* file_locks.lock of each row
    ttl,                \* seconds until file_locks.ttl of each row is over
    mode,               \* life of each request
    age,                \* seconds since the request started
    pending,            \* the UPDATE a request has yet to send in acquireLock
    acquiredShared,     \* acquiredLocks['shared'] of each request
    acquiredExclusive,  \* acquiredLocks['exclusive'] of each request
    sharedLocks         \* sharedLocks of each request: units kept until its end

table == <<rows, lock, ttl>>
local == <<acquiredShared, acquiredExclusive, sharedLocks>>
vars == <<table, mode, age, pending, local>>

-----------------------------------------------------------------------------
NoStatement == [type |-> "none"]

Statement ==
    [type : {"shared", "exclusive"}, path : Path, existing : {0, 1}, expire : Int]

TypeOK ==
    /\ rows \subseteq Path
    /\ lock \in [Path -> Int]
    /\ ttl \in [Path -> Int]
    /\ mode \in [Request -> {"idle", "running", "closing", "crashed"}]
    /\ age \in [Request -> Nat]
    /\ pending \in [Request -> Statement \cup {NoStatement}]
    /\ acquiredShared \in [Request -> [Path -> 0..MaxShared]]
    /\ acquiredExclusive \in [Request -> SUBSET Path]
    /\ sharedLocks \in [Request -> SUBSET Path]

Init ==
    /\ rows = {}
    /\ lock = [p \in Path |-> 0]
    /\ ttl = [p \in Path |-> 0]
    /\ mode = [r \in Request |-> "idle"]
    /\ age = [r \in Request |-> 0]
    /\ pending = [r \in Request |-> NoStatement]
    /\ acquiredShared = [r \in Request |-> [p \in Path |-> 0]]
    /\ acquiredExclusive = [r \in Request |-> {}]
    /\ sharedLocks = [r \in Request |-> {}]

(* The request is alive: its memory says what it may rely on. *)
Live(r) == mode[r] \in {"running", "closing"}

(* The request is executing application code, free to call the provider. *)
Ready(r) == mode[r] = "running" /\ pending[r] = NoStatement

-----------------------------------------------------------------------------
(* The bookkeeping of a request. *)

Bookkeep(r, p, shared, exclusive, cached) ==
    /\ acquiredShared' = [acquiredShared EXCEPT ![r][p] = shared]
    /\ acquiredExclusive' =
          [acquiredExclusive EXCEPT ![r] = IF exclusive THEN @ \cup {p} ELSE @ \ {p}]
    /\ sharedLocks' =
          [sharedLocks EXCEPT ![r] = IF cached THEN @ \cup {p} ELSE @ \ {p}]

MarkAcquireShared(r, p) ==
    Bookkeep(r, p, acquiredShared[r][p] + 1, p \in acquiredExclusive[r], r \in Caching)

MarkAcquireExclusive(r, p) ==
    Bookkeep(r, p, acquiredShared[r][p], TRUE, p \in sharedLocks[r])

MarkReleaseShared(r, p) ==
    Bookkeep(r, p, acquiredShared[r][p] - 1, p \in acquiredExclusive[r], p \in sharedLocks[r])

MarkReleaseExclusive(r, p) ==
    Bookkeep(r, p, acquiredShared[r][p], FALSE, p \in sharedLocks[r])

MarkChangeToShared(r, p) ==
    Bookkeep(r, p, acquiredShared[r][p] + 1, FALSE, r \in Caching)

(* Mutant: the kept shared lock is not forgotten. *)
MarkChangeToExclusiveKeeps(r, p) ==
    Bookkeep(r, p, acquiredShared[r][p] - 1, TRUE, p \in sharedLocks[r])

MarkChangeToExclusive(r, p) ==
    Bookkeep(r, p, acquiredShared[r][p] - 1, TRUE, FALSE)

-----------------------------------------------------------------------------
(* The SQL statements. *)

(* Mutant: the row expires at the time of the insertion. *)
InsertExpired(p, value) ==
    /\ p \notin rows
    /\ rows' = rows \cup {p}
    /\ lock' = [lock EXCEPT ![p] = value]
    /\ ttl' = [ttl EXCEPT ![p] = 0]

(* INSERT ... ON CONFLICT DO NOTHING that finds no row: initLockField *)
Insert(p, value) ==
    /\ p \notin rows
    /\ rows' = rows \cup {p}
    /\ lock' = [lock EXCEPT ![p] = value]
    /\ ttl' = [ttl EXCEPT ![p] = TTL]

(* UPDATE file_locks SET lock = value, ttl = expire WHERE key = p *)
Update(p, value, expire) ==
    /\ lock' = [lock EXCEPT ![p] = value]
    /\ ttl' = [ttl EXCEPT ![p] = expire]
    /\ UNCHANGED rows

(* UPDATE file_locks SET lock = value WHERE key = p AND guard *)
UpdateLockWhere(p, guard, value) ==
    /\ lock' = IF p \in rows /\ guard THEN [lock EXCEPT ![p] = value] ELSE lock
    /\ UNCHANGED <<rows, ttl>>

-----------------------------------------------------------------------------
(* acquireLock *)

(* A shared lock the request still keeps in the database is reused. *)
ReuseShared(r, p) ==
    /\ Ready(r) /\ p \in SharedPath /\ acquiredShared[r][p] < MaxShared
    /\ p \in sharedLocks[r]
    /\ MarkAcquireShared(r, p)
    /\ UNCHANGED <<table, mode, age, pending>>

InsertShared(r, p) ==
    /\ Ready(r) /\ p \in SharedPath /\ acquiredShared[r][p] < MaxShared
    /\ p \notin sharedLocks[r]
    /\ Insert(p, 1)
    /\ MarkAcquireShared(r, p)
    /\ UNCHANGED <<mode, age, pending>>

InsertExclusive(r, p) ==
    /\ Ready(r) /\ p \in ExclusivePath
    /\ Insert(p, -1)
    /\ MarkAcquireExclusive(r, p)
    /\ UNCHANGED <<mode, age, pending>>

(* The INSERT met a row: the UPDATE follows, with the expiry time and the   *)
(* expected value computed when acquireLock was called.                    *)
InsertConflict(r, p, type) ==
    /\ Ready(r) /\ p \in rows
    /\ \/ /\ type = "shared" /\ p \in SharedPath
          /\ p \notin sharedLocks[r] /\ acquiredShared[r][p] < MaxShared
       \/ type = "exclusive" /\ p \in ExclusivePath
    /\ LET existing ==
             IF type = "exclusive" /\ acquiredShared[r][p] = 0 /\ p \in sharedLocks[r]
             THEN 1 ELSE 0
       IN  pending' = [pending EXCEPT
             ![r] = [type |-> type, path |-> p, existing |-> existing, expire |-> TTL]]
    /\ UNCHANGED <<table, mode, age, local>>

(* Mutant: UPDATE without the condition lock >= 0. *)
UpdateSharedAnyway(r) ==
    /\ Live(r) /\ pending[r].type = "shared"
    /\ LET p == pending[r].path IN
          /\ p \in rows
          /\ Update(p, lock[p] + 1, pending[r].expire)
          /\ MarkAcquireShared(r, p)
    /\ pending' = [pending EXCEPT ![r] = NoStatement]
    /\ UNCHANGED <<mode, age>>

UpdateShared(r) ==
    /\ Live(r) /\ pending[r].type = "shared"
    /\ LET p == pending[r].path IN
          /\ p \in rows /\ lock[p] >= 0
          /\ Update(p, lock[p] + 1, pending[r].expire)
          /\ MarkAcquireShared(r, p)
    /\ pending' = [pending EXCEPT ![r] = NoStatement]
    /\ UNCHANGED <<mode, age>>

UpdateExclusive(r) ==
    /\ Live(r) /\ pending[r].type = "exclusive"
    /\ LET p == pending[r].path IN
          /\ p \in rows /\ lock[p] = pending[r].existing
          /\ Update(p, -1, pending[r].expire)
          /\ MarkAcquireExclusive(r, p)
    /\ pending' = [pending EXCEPT ![r] = NoStatement]
    /\ UNCHANGED <<mode, age>>

(* The UPDATE matched no row: LockedException *)
Refused(r) ==
    /\ Live(r) /\ pending[r] # NoStatement
    /\ LET p == pending[r].path IN
          \/ p \notin rows
          \/ pending[r].type = "shared" /\ lock[p] < 0
          \/ pending[r].type = "exclusive" /\ lock[p] # pending[r].existing
    /\ pending' = [pending EXCEPT ![r] = NoStatement]
    /\ UNCHANGED <<table, mode, age, local>>

-----------------------------------------------------------------------------
(* releaseLock, by the application or by releaseAll at the end of the      *)
(* request, which goes through the shared locks first.                     *)

MayRelease(r) == Ready(r) \/ mode[r] = "closing"

(* Mutant: the counter of a lock that is not held is decremented, too. *)
ReleaseSharedNotHeld(r, p) ==
    /\ MayRelease(r)
    /\ MarkReleaseShared(r, p)
    /\ UNCHANGED <<table, mode, age, pending>>

ReleaseShared(r, p) ==
    /\ MayRelease(r)
    /\ acquiredShared[r][p] > 0
    /\ MarkReleaseShared(r, p)
    /\ IF r \in Caching THEN UNCHANGED table
                        ELSE UpdateLockWhere(p, lock[p] > 0, lock[p] - 1)
    /\ UNCHANGED <<mode, age, pending>>

NoSharedLeft(r) == \A p \in Path : acquiredShared[r][p] = 0

ReleaseExclusive(r, p) ==
    /\ MayRelease(r)
    /\ mode[r] = "closing" => NoSharedLeft(r)
    /\ p \in acquiredExclusive[r]
    /\ MarkReleaseExclusive(r, p)
    /\ UpdateLockWhere(p, lock[p] = -1, 0)
    /\ UNCHANGED <<mode, age, pending>>

-----------------------------------------------------------------------------
(* changeLock.  A call that fails throws LockedException and changes       *)
(* nothing.                                                                *)

ChangeToShared(r, p) ==
    /\ Ready(r) /\ p \in SharedPath
    /\ p \in acquiredExclusive[r] /\ acquiredShared[r][p] < MaxShared
    /\ p \in rows /\ lock[p] = -1
    /\ Update(p, 1, TTL)
    /\ MarkChangeToShared(r, p)
    /\ UNCHANGED <<mode, age, pending>>

(* Mutant: UPDATE without the condition lock = 1. *)
ChangeToExclusiveAnyway(r, p) ==
    /\ Ready(r)
    /\ acquiredShared[r][p] = 1
    /\ p \in rows
    /\ Update(p, -1, TTL)
    /\ MarkChangeToExclusive(r, p)
    /\ UNCHANGED <<mode, age, pending>>

ChangeToExclusive(r, p) ==
    /\ Ready(r)
    /\ acquiredShared[r][p] = 1
    /\ p \in rows /\ lock[p] = 1
    /\ Update(p, -1, TTL)
    /\ MarkChangeToExclusive(r, p)
    /\ UNCHANGED <<mode, age, pending>>

-----------------------------------------------------------------------------
(* The life of a request. *)

Start(r) ==
    /\ mode[r] = "idle"
    /\ mode' = [mode EXCEPT ![r] = "running"]
    /\ UNCHANGED <<table, age, pending, local>>

(* PHP runs the shutdown function releaseAll, at the end of the script or   *)
(* after a fatal error, wherever that was.                                 *)
BeginClose(r) ==
    /\ mode[r] = "running"
    /\ mode' = [mode EXCEPT ![r] = "closing"]
    /\ pending' = [pending EXCEPT ![r] = NoStatement]
    /\ UNCHANGED <<table, age, local>>

Forget(r) ==
    /\ acquiredShared' = [acquiredShared EXCEPT ![r] = [p \in Path |-> 0]]
    /\ acquiredExclusive' = [acquiredExclusive EXCEPT ![r] = {}]
    /\ sharedLocks' = [sharedLocks EXCEPT ![r] = {}]
    /\ age' = [age EXCEPT ![r] = 0]
    /\ mode' = [mode EXCEPT ![r] = "idle"]

(* The last statement of releaseAll gives back the shared units the request *)
(* kept (one chunk: Path has fewer than 100 elements), then it is over.     *)
Close(r) ==
    /\ mode[r] = "closing"
    /\ NoSharedLeft(r) /\ acquiredExclusive[r] = {}
    /\ lock' = [p \in Path |->
                  IF p \in sharedLocks[r] \cap rows /\ lock[p] > 0
                  THEN lock[p] - 1 ELSE lock[p]]
    /\ Forget(r)
    /\ UNCHANGED <<rows, ttl, pending>>

(* The process is killed.  Its memory is lost; the variables keep what it   *)
(* held because that is what it leaves behind in the table.                *)
Crash(r) ==
    /\ Live(r)
    /\ mode' = [mode EXCEPT ![r] = "crashed"]
    /\ pending' = [pending EXCEPT ![r] = NoStatement]
    /\ age' = [age EXCEPT ![r] = 0]
    /\ UNCHANGED <<table, local>>

(* Nothing is left of a crashed request. *)
Bury(r) ==
    /\ mode[r] = "crashed"
    /\ NoSharedLeft(r) /\ acquiredExclusive[r] = {} /\ sharedLocks[r] = {}
    /\ Forget(r)
    /\ UNCHANGED <<table, pending>>

(* DELETE of rows: what crashed requests left in them is gone, too. *)
DeleteRows(expired) ==
    LET dead == {r \in Request : mode[r] = "crashed"}
    IN  /\ expired # {}
        /\ rows' = rows \ expired
        /\ lock' = [p \in Path |-> IF p \in expired THEN 0 ELSE lock[p]]
        /\ ttl' = [p \in Path |-> IF p \in expired THEN 0 ELSE ttl[p]]
        /\ acquiredShared' = [r \in Request |-> [p \in Path |->
             IF r \in dead /\ p \in expired THEN 0 ELSE acquiredShared[r][p]]]
        /\ acquiredExclusive' = [r \in Request |->
             IF r \in dead THEN acquiredExclusive[r] \ expired ELSE acquiredExclusive[r]]
        /\ sharedLocks' = [r \in Request |->
             IF r \in dead THEN sharedLocks[r] \ expired ELSE sharedLocks[r]]
        /\ UNCHANGED <<mode, age, pending>>

(* Mutant: only rows without a lock are deleted. *)
CleanFreeRows == DeleteRows({p \in rows : ttl[p] < 0 /\ lock[p] = 0})

(* cleanExpiredLocks, run by the background job CleanupFileLocks *)
CleanExpiredLocks == DeleteRows({p \in rows : ttl[p] < 0})

Older(t) == IF t < 0 THEN t ELSE t - 1

(* A second passes.  No request lives longer than MaxAge. *)
Tick ==
    /\ \A r \in Request : Live(r) => age[r] < MaxAge
    /\ age' = [r \in Request |-> IF Live(r) THEN age[r] + 1 ELSE age[r]]
    /\ ttl' = [p \in Path |-> IF p \in rows THEN Older(ttl[p]) ELSE ttl[p]]
    /\ pending' = [r \in Request |->
          IF pending[r] = NoStatement THEN NoStatement
          ELSE [pending[r] EXCEPT !.expire = Older(@)]]
    /\ UNCHANGED <<rows, lock, mode, local>>

-----------------------------------------------------------------------------
Next ==
    \/ \E r \in Request :
          \/ \E p \in Path :
                \/ ReuseShared(r, p)
                \/ InsertShared(r, p)
                \/ InsertExclusive(r, p)
                \/ \E type \in {"shared", "exclusive"} : InsertConflict(r, p, type)
                \/ ReleaseShared(r, p)
                \/ ReleaseExclusive(r, p)
                \/ ChangeToShared(r, p)
                \/ ChangeToExclusive(r, p)
          \/ UpdateShared(r)
          \/ UpdateExclusive(r)
          \/ Refused(r)
          \/ Start(r)
          \/ BeginClose(r)
          \/ Close(r)
          \/ Crash(r)
          \/ Bury(r)
    \/ CleanExpiredLocks
    \/ Tick

Spec == Init /\ [][Next]_vars

-----------------------------------------------------------------------------
(* What the properties speak of. *)

Readers(p) == {r \in Request : Live(r) /\ acquiredShared[r][p] > 0}
Writers(p) == {r \in Request : Live(r) /\ p \in acquiredExclusive[r]}

(* The units a request, alive or crashed, has in the counter of a row. *)
Units(r, p) ==
    IF r \in Caching THEN (IF p \in sharedLocks[r] THEN 1 ELSE 0)
                     ELSE acquiredShared[r][p]

Tokens(p) == {u \in Request \X (1..MaxShared) : u[2] <= Units(u[1], p)}

Owners(p) == {r \in Request : p \in acquiredExclusive[r]}

(* The default wiring: web requests use a path either through a shared     *)
(* lock first or only exclusively.                                         *)
PathsSeparated == Caching # {} => SharedPath \cap ExclusivePath = {}

(* A request is over long before a lock it took can expire. *)
RequestsShort == 2 * MaxAge <= TTL

(* Mutual exclusion (acquireLock throws LockedException instead): a live    *)
(* request that holds the exclusive lock of a path excludes every other     *)
(* reader and writer, whatever SQL statements of others, crashes, releases  *)
(* at shutdown and clean-ups came in between.                              *)
MutualExclusion ==
    \A p \in Path :
        /\ Cardinality(Writers(p)) <= 1
        /\ Writers(p) # {} => Readers(p) \subseteq Writers(p)

(* The anonymous counter of a row is exactly the units that requests hold,  *)
(* dead ones included: no release of one request gives away the unit of     *)
(* another (which would let a writer in), and no unit is left behind by a   *)
(* request that ended normally (which would block writers for an hour).     *)
RowExact(p) ==
    /\ p \notin rows => Tokens(p) = {} /\ Owners(p) = {}
    /\ p \in rows /\ lock[p] = -1 => Tokens(p) = {} /\ \E r \in Request : Owners(p) = {r}
    /\ p \in rows /\ lock[p] # -1 => lock[p] = Cardinality(Tokens(p)) /\ Owners(p) = {}

RowIsExact == \A p \in Path : RowExact(p)

(* cleanExpiredLocks only removes stray locks: the row behind any lock of   *)
(* a live request still has time left until the request must be over.       *)
LiveLocksDoNotExpire ==
    \A r \in Request, p \in Path :
        Live(r) /\ (Units(r, p) > 0 \/ p \in acquiredExclusive[r])
            => p \in rows /\ ttl[p] >= MaxAge - age[r]

(* The provider implements the readers-writer lock. *)
Abstract == INSTANCE FileLock WITH
    readers <- [p \in Path |-> Readers(p)],
    writer <- [p \in Path |-> Writers(p)]

ImplementsFileLock == Abstract!Spec

-----------------------------------------------------------------------------
(* Fairness: time passes, every request ends and then gives back what it    *)
(* holds unless it was killed, and the clean-up job keeps running.         *)
FairSpec ==
    /\ Spec
    /\ WF_vars(Tick)
    /\ WF_vars(CleanExpiredLocks)
    /\ \A r \in Request :
          /\ WF_vars(BeginClose(r))
          /\ WF_vars(Close(r))
          /\ \A p \in Path :
                /\ WF_vars(mode[r] = "closing" /\ ReleaseShared(r, p))
                /\ WF_vars(mode[r] = "closing" /\ ReleaseExclusive(r, p))

(* A path locked exclusively becomes available again, even if the request  *)
(* that locked it was killed: its row expires and is deleted.              *)
WritersGoAway == \A p \in Path : lock[p] = -1 ~> lock[p] # -1
=============================================================================
