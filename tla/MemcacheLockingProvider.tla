---------------------- MODULE MemcacheLockingProvider ----------------------
(***************************************************************************)
(* The locking provider on a memory cache                                  *)
(* (lib/private/Lock/MemcacheLockingProvider.php).                         *)
(*                                                                         *)
(* A key holds the string 'exclusive' or an anonymous counter of shared    *)
(* locks.  Every call of the provider is a sequence of cache commands, and *)
(* requests interleave between the commands.  Two constants tell the       *)
(* backends apart:                                                         *)
(*                 HasTTL   AtomicCas                                      *)
(*    Redis        TRUE     TRUE     (Lua scripts; IMemcacheTTL)           *)
(*    APCu, Memcached                                                      *)
(*                 FALSE    FALSE    (CASTrait, CADTrait)                  *)
(*    ArrayCache   FALSE    TRUE     (the backend of the unit tests)       *)
(*                                                                         *)
(* The locks of backends without TTL live for a day (DEFAULT_TTL): they    *)
(* never expire here.                                                      *)
(***************************************************************************)
EXTENDS Integers, FiniteSets

CONSTANTS
    Request,        \* the PHP requests and console commands
    Path,           \* the lock keys
    SharedPath,     \* paths that are locked shared too (those of View.php)
    Absent,         \* the value of a key that does not exist
    Exclusive,      \* the string 'exclusive'
    HasTTL,         \* the cache implements IMemcacheTTL
    AtomicCas,      \* cas and cad are one command
    TTL,            \* filelocking.ttl
    DefaultTTL,     \* ICache::DEFAULT_TTL
    MaxTime,        \* bound: seconds of a behaviour
    MaxShared       \* bound: nested shared locks of one request on one path

ASSUME ConstantsOK ==
    /\ SharedPath \subseteq Path
    /\ HasTTL \in BOOLEAN /\ AtomicCas \in BOOLEAN
    /\ TTL \in Nat \ {0} /\ DefaultTTL \in Nat /\ DefaultTTL > TTL
    /\ MaxTime \in Nat /\ MaxShared \in Nat \ {0}
    /\ Absent \notin Int /\ Exclusive \notin Int /\ Absent # Exclusive

VARIABLES
    value,      \* the cache: Absent, Exclusive or a counter
    expires,    \* the second at which each key expires, or Never
    casLock,    \* the paths whose "_lock" key exists (emulated cas and cad)
    now,        \* the clock
    mode,       \* life of each request
    call,       \* the provider call a request is in, and how far it got
    shared,     \* acquiredLocks['shared'] of each request
    exclusive,  \* acquiredLocks['exclusive'] of each request
    oldTTLs     \* oldTTLs of each request

cache == <<value, expires, casLock>>
memory == <<shared, exclusive, oldTTLs>>
vars == <<cache, now, mode, call, memory>>

-----------------------------------------------------------------------------
Never == -1
NoOldTTL == [ttl |-> -1, time |-> -1]

(* The public method a call belongs to, and the next cache command it sends *)
Kind == {"share", "acquire", "toShared", "toExclusive", "unshare", "unacquire"}
Command ==
    {"none", "inc", "add", "swap", "apply", "unlock", "setTTL", "dec", "reset", "get", "getTTL", "expire"}

Value == Int \cup {Absent, Exclusive}

Call == [at : Command, path : Path, kind : Kind, seen : Value, time : Int]

NoCall == [at |-> "none"]

TypeOK ==
    /\ value \in [Path -> Value]
    /\ expires \in [Path -> Int]
    /\ casLock \subseteq Path
    /\ now \in 0..MaxTime
    /\ mode \in [Request -> {"idle", "running", "closing", "crashed"}]
    /\ call \in [Request -> Call \cup {NoCall}]
    /\ shared \in [Request -> [Path -> 0..MaxShared]]
    /\ exclusive \in [Request -> SUBSET Path]
    /\ oldTTLs \in [Request -> [Path -> [ttl : Int, time : Int]]]

Init ==
    /\ value = [p \in Path |-> Absent]
    /\ expires = [p \in Path |-> Never]
    /\ casLock = {}
    /\ now = 0
    /\ mode = [r \in Request |-> "idle"]
    /\ call = [r \in Request |-> NoCall]
    /\ shared = [r \in Request |-> [p \in Path |-> 0]]
    /\ exclusive = [r \in Request |-> {}]
    /\ oldTTLs = [r \in Request |-> [p \in Path |-> NoOldTTL]]

Live(r) == mode[r] \in {"running", "closing"}
Ready(r) == mode[r] = "running" /\ call[r] = NoCall

-----------------------------------------------------------------------------
(* The cache. *)

Store(p, v, e) ==
    /\ value' = [value EXCEPT ![p] = v]
    /\ expires' = [expires EXCEPT ![p] = e]

(* getTTL: -1 for a key without expiry, without TTL support or without key *)
KeyTTL(p) == IF expires[p] = Never THEN -1 ELSE expires[p] - now

Expire(p, seconds) ==
    IF ~HasTTL \/ value[p] = Absent THEN UNCHANGED <<value, expires>>
    ELSE IF seconds <= 0 THEN Store(p, Absent, Never)
    ELSE Store(p, value[p], now + seconds)

-----------------------------------------------------------------------------
(* How far a call got. *)

Begin(r, p, kind, command) ==
    call' = [call EXCEPT
        ![r] = [at |-> command, path |-> p, kind |-> kind, seen |-> Absent, time |-> 0]]

Goto(r, command) == call' = [call EXCEPT ![r].at = command]

Done(r) == call' = [call EXCEPT ![r] = NoCall]

At(r, command) == Live(r) /\ call[r].at = command

ForgetTTL(r, p) == oldTTLs' = [oldTTLs EXCEPT ![r][p] = NoOldTTL]

-----------------------------------------------------------------------------
(* The methods, up to their first command.  The bookkeeping of a request   *)
(* (markAcquire, markRelease, markChange) is private to it and not read    *)
(* within a call, so it is done with the step that settles the call:       *)
(* releaseLock cannot fail, the others are granted by inc or by cas.       *)

(* acquireLock(p, LOCK_SHARED): getTTL is the first command *)
AcquireShared(r, p) ==
    /\ Ready(r) /\ p \in SharedPath /\ shared[r][p] < MaxShared
    /\ oldTTLs' = [oldTTLs EXCEPT ![r][p] = [ttl |-> KeyTTL(p), time |-> now]]
    /\ Begin(r, p, "share", "inc")
    /\ UNCHANGED <<cache, now, mode, shared, exclusive>>

AcquireExclusive(r, p) ==
    /\ Ready(r)
    /\ Begin(r, p, "acquire", "add")
    /\ UNCHANGED <<cache, now, mode, memory>>

ChangeToShared(r, p) ==
    /\ Ready(r) /\ p \in SharedPath
    /\ p \in exclusive[r] /\ shared[r][p] < MaxShared
    /\ Begin(r, p, "toShared", "swap")
    /\ UNCHANGED <<cache, now, mode, memory>>

ChangeToExclusive(r, p) ==
    /\ Ready(r) /\ shared[r][p] > 0
    /\ Begin(r, p, "toExclusive", "swap")
    /\ UNCHANGED <<cache, now, mode, memory>>

(* releaseLock, by the application or by releaseAll at the end             *)
MayRelease(r) == Live(r) /\ call[r] = NoCall

(* Mutant: the bookkeeping also counts a lock that is not held. *)
ReleaseSharedNotHeld(r, p) ==
    /\ MayRelease(r)
    /\ shared' = [shared EXCEPT ![r][p] = @ - 1]
    /\ Begin(r, p, "unshare", "dec")
    /\ UNCHANGED <<cache, now, mode, exclusive, oldTTLs>>

ReleaseShared(r, p) ==
    /\ MayRelease(r) /\ shared[r][p] > 0
    /\ shared' = [shared EXCEPT ![r][p] = @ - 1]
    /\ Begin(r, p, "unshare", IF shared[r][p] = 1 THEN "swap" ELSE "dec")
    /\ UNCHANGED <<cache, now, mode, exclusive, oldTTLs>>

NoSharedLeft(r) == \A p \in Path : shared[r][p] = 0

ReleaseExclusive(r, p) ==
    /\ MayRelease(r) /\ p \in exclusive[r]
    /\ mode[r] = "closing" => NoSharedLeft(r)
    /\ exclusive' = [exclusive EXCEPT ![r] = @ \ {p}]
    /\ Begin(r, p, "unacquire", "swap")
    /\ UNCHANGED <<cache, now, mode, shared, oldTTLs>>

-----------------------------------------------------------------------------
(* The commands. *)

(* inc creates a key without expiry and fails on 'exclusive'.  acquireLock *)
(* also takes the result 0 for a failure.                                  *)
Inc(r) ==
    /\ At(r, "inc")
    /\ LET p == call[r].path IN
          \/ /\ value[p] = Exclusive
             /\ Done(r)
             /\ UNCHANGED <<cache, shared>>
          \/ /\ value[p] # Exclusive
             /\ LET new == IF value[p] = Absent THEN 1 ELSE value[p] + 1
                IN  /\ value' = [value EXCEPT ![p] = new]
                    /\ IF new = 0 THEN Done(r) /\ UNCHANGED shared
                       ELSE /\ Goto(r, "setTTL")
                            /\ shared' = [shared EXCEPT ![r][p] = @ + 1]
             /\ UNCHANGED <<expires, casLock>>
    /\ UNCHANGED <<now, mode, exclusive, oldTTLs>>

Add(r) ==
    /\ At(r, "add")
    /\ LET p == call[r].path IN
          IF value[p] = Absent
          THEN Store(p, 0, IF HasTTL THEN now + DefaultTTL ELSE Never)
          ELSE UNCHANGED <<value, expires>>
    /\ Goto(r, "swap")
    /\ UNCHANGED <<casLock, now, mode, memory>>

(* The value a cas or cad expects, and the one it leaves behind *)
Old(kind) ==
    IF kind = "acquire" THEN 0
    ELSE IF kind \in {"toExclusive", "unshare"} THEN 1
    ELSE Exclusive
New(kind) ==
    IF kind \in {"acquire", "toExclusive"} THEN Exclusive
    ELSE IF kind = "toShared" THEN 1
    ELSE Absent

(* After a cas or cad that succeeded *)
Swapped(r) ==
    LET p == call[r].path
        kind == call[r].kind
    IN  /\ Store(p, New(kind), Never)
        /\ IF kind \in {"acquire", "toExclusive", "unshare"}
           THEN ForgetTTL(r, p) ELSE UNCHANGED oldTTLs
        /\ shared' = [shared EXCEPT ![r][p] =
              IF kind = "toShared" THEN @ + 1 ELSE IF kind = "toExclusive" THEN @ - 1 ELSE @]
        /\ exclusive' = [exclusive EXCEPT ![r] =
              IF kind \in {"acquire", "toExclusive"} THEN @ \cup {p} ELSE @ \ {p}]
        /\ IF kind \in {"unshare", "unacquire"} THEN Done(r) ELSE Goto(r, "setTTL")

(* restoreTTL is skipped when there is no old TTL *)
RestoreTTL(r, p) ==
    IF oldTTLs[r][p] = NoOldTTL THEN Done(r) ELSE Goto(r, "get")

(* Mutant: a shared lock that others hold, too, is not decremented. *)
NotSwappedKeeps(r) ==
    /\ \/ call[r].kind # "toExclusive" /\ Done(r)
       \/ call[r].kind = "toExclusive" /\ RestoreTTL(r, call[r].path)
    /\ UNCHANGED <<value, expires, memory>>

(* After a cas or cad that failed *)
NotSwapped(r) ==
    /\ \/ call[r].kind \in {"acquire", "toShared", "unacquire"} /\ Done(r)
       \/ call[r].kind = "toExclusive" /\ RestoreTTL(r, call[r].path)
       \/ call[r].kind = "unshare" /\ Goto(r, "dec")
    /\ UNCHANGED <<value, expires, memory>>

(* Mutant: set and remove instead of cas and cad. *)
SwapBlindly(r) ==
    /\ At(r, "swap") /\ AtomicCas
    /\ Swapped(r)
    /\ UNCHANGED <<casLock, now, mode>>

Swap(r) ==
    /\ At(r, "swap") /\ AtomicCas
    /\ IF value[call[r].path] = Old(call[r].kind) THEN Swapped(r) ELSE NotSwapped(r)
    /\ UNCHANGED <<casLock, now, mode>>

(* Mutant: the result of adding the "_lock" key is ignored. *)
EmulatedCompareUnlocked(r) ==
    /\ At(r, "swap") /\ ~AtomicCas
    /\ casLock' = casLock \cup {call[r].path}
    /\ Goto(r, IF value[call[r].path] = Old(call[r].kind) THEN "apply" ELSE "unlock")
    /\ UNCHANGED <<value, expires, memory, now, mode>>

(* The emulation adds a "_lock" key, which fails if there is one, compares, *)
(* and only then ...                                                       *)
EmulatedCompare(r) ==
    /\ At(r, "swap") /\ ~AtomicCas
    /\ LET p == call[r].path IN
          \/ /\ p \notin casLock
             /\ casLock' = casLock \cup {p}
             /\ Goto(r, IF value[p] = Old(call[r].kind) THEN "apply" ELSE "unlock")
             /\ UNCHANGED <<value, expires, memory>>
          \/ /\ p \in casLock
             /\ NotSwapped(r)
             /\ UNCHANGED casLock
    /\ UNCHANGED <<now, mode>>

(* ... sets or removes the key, and removes the "_lock" key.               *)
EmulatedApply(r) ==
    /\ \/ At(r, "apply") /\ Swapped(r)
       \/ At(r, "unlock") /\ NotSwapped(r)
    /\ casLock' = casLock \ {call[r].path}
    /\ UNCHANGED <<now, mode>>

(* The end of acquireLock and of changeLock                                *)
SetTTL(r) ==
    /\ At(r, "setTTL")
    /\ Expire(call[r].path, TTL)
    /\ Done(r)
    /\ UNCHANGED <<casLock, now, mode, memory>>

(* dec fails on a missing key and on 'exclusive'. *)
Dec(r) ==
    /\ At(r, "dec")
    /\ LET p == call[r].path IN
          \/ /\ value[p] \in {Absent, Exclusive}
             /\ ForgetTTL(r, p) /\ Done(r)
             /\ UNCHANGED cache
          \/ /\ value[p] \notin {Absent, Exclusive}
             /\ value' = [value EXCEPT ![p] = @ - 1]
             /\ IF value[p] > 1
                THEN RestoreTTL(r, p) /\ UNCHANGED oldTTLs
                ELSE /\ ForgetTTL(r, p)
                     /\ IF value[p] < 1
                        THEN call' = [call EXCEPT ![r].at = "reset", ![r].seen = value[p] - 1]
                        ELSE Done(r)
             /\ UNCHANGED <<expires, casLock>>
    /\ UNCHANGED <<now, mode, shared, exclusive>>

(* "if we somehow release more locks then exists, reset the lock" *)
Reset(r) ==
    /\ At(r, "reset")
    /\ LET p == call[r].path IN
          IF value[p] = call[r].seen THEN Store(p, Absent, Never)
                                     ELSE UNCHANGED <<value, expires>>
    /\ Done(r)
    /\ UNCHANGED <<casLock, now, mode, memory>>

-----------------------------------------------------------------------------
(* restoreTTL *)

Get(r) ==
    /\ At(r, "get")
    /\ call' = [call EXCEPT ![r].at = "getTTL",
                            ![r].seen = value[call[r].path], ![r].time = now]
    /\ UNCHANGED <<cache, now, mode, memory>>

Elapsed(r) == call[r].time - oldTTLs[r][call[r].path].time

GetTTL(r) ==
    /\ At(r, "getTTL")
    /\ IF KeyTTL(call[r].path) <= TTL - Elapsed(r) + 1 THEN Goto(r, "expire") ELSE Done(r)
    /\ UNCHANGED <<cache, now, mode, memory>>

CompareSetTTL(r) ==
    /\ At(r, "expire")
    /\ LET p == call[r].path IN
          IF value[p] = call[r].seen THEN Expire(p, oldTTLs[r][p].ttl - Elapsed(r))
                                     ELSE UNCHANGED <<value, expires>>
    /\ Done(r)
    /\ UNCHANGED <<casLock, now, mode, memory>>

-----------------------------------------------------------------------------
(* The life of a request. *)

Start(r) ==
    /\ mode[r] = "idle"
    /\ mode' = [mode EXCEPT ![r] = "running"]
    /\ UNCHANGED <<cache, now, call, memory>>

BeginClose(r) ==
    /\ Ready(r)
    /\ mode' = [mode EXCEPT ![r] = "closing"]
    /\ UNCHANGED <<cache, now, call, memory>>

Close(r) ==
    /\ mode[r] = "closing" /\ call[r] = NoCall
    /\ NoSharedLeft(r) /\ exclusive[r] = {}
    /\ mode' = [mode EXCEPT ![r] = "idle"]
    /\ oldTTLs' = [oldTTLs EXCEPT ![r] = [p \in Path |-> NoOldTTL]]
    /\ UNCHANGED <<cache, now, call, shared, exclusive>>

(* The process is killed, between any two commands. *)
Crash(r) ==
    /\ Live(r)
    /\ mode' = [mode EXCEPT ![r] = "crashed"]
    /\ UNCHANGED <<cache, now, call, memory>>

(* A second passes, and the keys whose time has come vanish. *)
Tick ==
    /\ now < MaxTime
    /\ now' = now + 1
    /\ value' = [p \in Path |-> IF expires[p] = now + 1 THEN Absent ELSE value[p]]
    /\ expires' = [p \in Path |-> IF expires[p] = now + 1 THEN Never ELSE expires[p]]
    /\ UNCHANGED <<casLock, mode, call, memory>>

-----------------------------------------------------------------------------
Next ==
    \/ \E r \in Request :
          \/ \E p \in Path :
                \/ AcquireShared(r, p)
                \/ AcquireExclusive(r, p)
                \/ ChangeToShared(r, p)
                \/ ChangeToExclusive(r, p)
                \/ ReleaseShared(r, p)
                \/ ReleaseExclusive(r, p)
          \/ Inc(r)
          \/ Add(r)
          \/ Swap(r)
          \/ EmulatedCompare(r)
          \/ EmulatedApply(r)
          \/ SetTTL(r)
          \/ Dec(r)
          \/ Reset(r)
          \/ Get(r)
          \/ GetTTL(r)
          \/ CompareSetTTL(r)
          \/ Start(r)
          \/ BeginClose(r)
          \/ Close(r)
          \/ Crash(r)
    \/ Tick

Spec == Init /\ [][Next]_vars

-----------------------------------------------------------------------------
Readers(p) == {r \in Request : Live(r) /\ shared[r][p] > 0}
Writers(p) == {r \in Request : Live(r) /\ p \in exclusive[r]}

(* Mutual exclusion between live requests, whatever cache commands of       *)
(* others come between two commands of a call.                             *)
MutualExclusion ==
    \A p \in Path :
        /\ Cardinality(Writers(p)) <= 1
        /\ Writers(p) # {} => Readers(p) \subseteq Writers(p)

(* All requests ended in order, and no call is under way. *)
Quiet == \A r \in Request : mode[r] = "idle"

(* Nothing is left behind: once every request is over, each path is free    *)
(* for a reader and for a writer, also when locks vanished meanwhile.      *)
NoLeakedLock == Quiet => \A p \in Path : value[p] \in {Absent, 0}

(* "ttl is updated automatically when the `set` succeeds": a lock that      *)
(* nobody is about to give a ttl has one.  The code does not keep to this:  *)
(* see the README.                                                         *)
NoEternalLock ==
    HasTTL => \A p \in Path :
        value[p] = Exclusive /\ expires[p] = Never
            => \E r \in Request : Live(r) /\ call[r].at = "setTTL" /\ call[r].path = p

(* The provider implements the readers-writer lock. *)
Abstract == INSTANCE FileLock WITH
    readers <- [p \in Path |-> Readers(p)],
    writer <- [p \in Path |-> Writers(p)]

ImplementsFileLock == Abstract!Spec
=============================================================================
