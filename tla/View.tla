-------------------------------- MODULE View --------------------------------
(***************************************************************************)
(* OC\Files\View: which locks an operation on files takes, in which order, *)
(* and what it gives back when it ends or fails.  Each request of PHP runs *)
(* one operation after another; between any two calls of the lock provider *)
(* other requests run.  The provider is the one of FileLock, with the list *)
(* each request keeps of its locks (AbstractLockingProvider).              *)
(*                                                                         *)
(* A folder that is shared is seen by several users: below the mount of    *)
(* the recipient lie the same nodes as below the folder of its owner.  A   *)
(* node is named by the path of its owner, and so is its lock; the name of *)
(* a mount has a lock of its own.                                          *)
(*                                                                         *)
(* The root of a user's files is not locked (shouldLockFile), so that it   *)
(* is not among the paths.  A lock can always be refused: a stray lock of  *)
(* a killed request does that.  Locks do not expire here.                  *)
(***************************************************************************)
EXTENDS Integers, Sequences, FiniteSets

CONSTANTS
    Request,
    Path,           \* the files and folders as the users see them
    Parents,        \* getParents, without the root
    Mount,          \* where a recipient has a share
    Source,         \* the folder of the owner that is mounted there
    Node,           \* the node behind each path
    Operation,      \* what requests do
    NoOperation,    \* of a request that is between two of them
    BesideHandle,   \* the kinds of operations a request does with a file open
    MaxShared       \* bound: how often a request holds a shared lock

Kind == {"read", "write", "openRead", "openWrite", "stream", "put", "copy", "rename", "unmount"}

UpTo(p) == Parents[p] \cup {p}

ASSUME TreeAssumption ==
    /\ Parents \in [Path -> SUBSET Path] /\ Node \in [Path -> Path]
    /\ \A p \in Path : p \notin Parents[p] /\ \A q \in Parents[p] : Parents[q] \subseteq Parents[p]

\* An owner's folder is not inside of a mount, what lies below a mount lies
\* below the owner's folder, and no share is moved into another one
\* (validateMountMove).
ASSUME MountAssumption ==
    /\ Mount \subseteq Path /\ Source \in [Mount -> Path]
    /\ \A m \in Mount : Node[m] = Source[m]
    /\ \A p \in Path : UpTo(p) \cap Mount = {} => Node[p] = p
    /\ \A p \in Path, m \in Mount : m \in UpTo(p) =>
          Parents[Node[p]] = Parents[Source[m]] \cup {Node[q] : q \in {c \in Parents[p] : m \in UpTo(c)}}
    /\ \A m \in Mount : UpTo(Source[m]) \cap Mount = {} /\ Parents[m] \cap Mount = {}

ASSUME OperationAssumption ==
    /\ Operation \subseteq [kind : Kind, source : Path, target : Path]
    /\ NoOperation \notin Operation /\ BesideHandle \subseteq Kind
    /\ \A o \in Operation :
          /\ o.kind = "rename" => o.source \notin Parents[o.target]
          /\ o.kind = "unmount" => o.source \in Mount
    /\ MaxShared \in Nat \ {0}

VARIABLES
    readers, writer,    \* the locks, see FileLock
    shared,     \* acquiredLocks['shared']: how often each request holds a lock
    op,         \* the operation of each request
    pc,         \* where it is in it
    queue,      \* the files still to be locked, changed or unlocked
    todo,       \* the locks still to be taken, or given back, for the first of them
    handles,    \* the files that fopen left open
    unguarded   \* has an exception left an operation that did not clean up?

locks == <<readers, writer, shared>>
control == <<op, pc, queue, todo, unguarded>>
vars == <<locks, control, handles>>

Lock == INSTANCE FileLock
File == [path : Path, type : {"shared", "exclusive"}]
Shared(p) == [path |-> p, type |-> "shared"]
Exclusive(p) == [path |-> p, type |-> "exclusive"]

-----------------------------------------------------------------------------
(***************************************************************************)
(* The locks of a path.                                                    *)
(***************************************************************************)
\* rename and removeMount lock the mount point, not what is mounted there.
OwnKey(kind, p) ==
    IF kind \in {"rename", "unmount"} /\ p \in Mount THEN p ELSE Node[p]

\* Mutant: the recipient's lock on a share leaves the folders of the owner alone.
NoOwnerFolders(q) == {}

\* SharedStorage: with the root of a share, the folders of the owner above it.
OwnerFolders(q) == IF q \in Mount THEN Parents[Source[q]] ELSE {}

\* lockFile and unlockFile: the path and all its parents.
LockKeys(kind, p) ==
    LET above == UNION {OwnerFolders(q) \cup {Node[q]} : q \in Parents[p]}
        own == OwnKey(kind, p)
    IN  {own} \cup above \cup (IF own = p THEN {} ELSE OwnerFolders(p))

-----------------------------------------------------------------------------
(***************************************************************************)
(* The operations: the files they lock shared, in order, and the ones      *)
(* among them they lock exclusively while they work on the storage.        *)
(***************************************************************************)
\* Mutant: copy does not lock its target.
FilesButCopied(o) ==
    IF o.kind = "rename" THEN <<Shared(o.source), Shared(o.target)>> ELSE <<Shared(o.source)>>

Files(o) ==
    CASE o.kind = "rename" -> <<Shared(o.source), Shared(o.target)>>
      [] o.kind = "copy" -> <<Shared(o.target), Shared(o.source)>>
      [] OTHER -> <<Shared(o.source)>>

Claims(o) ==
    CASE o.kind = "rename" -> <<Shared(o.source), Shared(o.target)>>
      [] o.kind = "copy" -> <<Shared(o.target)>>
      [] o.kind \in {"read", "openRead"} -> <<>>
      [] OTHER -> <<Shared(o.source)>>

\* rename and copy give their locks back whatever is thrown after the first
\* lock, or both locks, were taken.
Guarded == {"rename", "copy"}

\* The request goes on with the files q in phase p.
Goto(r, p, q) ==
    /\ pc' = [pc EXCEPT ![r] = p]
    /\ queue' = [queue EXCEPT ![r] = q]
    /\ todo' = [todo EXCEPT ![r] = IF p \in {"lock", "unlock"} /\ q # <<>>
                                   THEN LockKeys(op'[r].kind, Head(q).path) ELSE {}]

Continue(r, p, q) == UNCHANGED <<op, unguarded>> /\ Goto(r, p, q)

UnlockAll(r) == Continue(r, "unlock", Files(op[r]))

Return(r) ==
    /\ op' = [op EXCEPT ![r] = NoOperation]
    /\ Goto(r, "idle", <<>>)

\* An exception leaves the operation with whatever is locked.
Throw(r) == Return(r) /\ unguarded' = [unguarded EXCEPT ![r] = TRUE]

\* The own lock of a path is the first one that is taken or given back.
Own(r) == OwnKey(op[r].kind, Head(queue[r]).path)
Turn(r, k) == k \in todo[r] /\ (Own(r) \in todo[r] => k = Own(r))

\* After lock k comes another one of the file, or one of the next file.
More(r, k) == todo[r] # {k} \/ Len(queue[r]) > 1

Advance(r, k) ==
    IF todo[r] = {k} THEN Continue(r, pc[r], Tail(queue[r]))
    ELSE /\ todo' = [todo EXCEPT ![r] = @ \ {k}]
         /\ UNCHANGED <<op, pc, queue, unguarded>>

Count(r, k, n) == shared' = [shared EXCEPT ![r][k] = n]

-----------------------------------------------------------------------------
Init ==
    /\ Lock!Init
    /\ shared = [r \in Request |-> [k \in Path |-> 0]]
    /\ op = [r \in Request |-> NoOperation]
    /\ pc = [r \in Request |-> "idle"]
    /\ queue = [r \in Request |-> <<>>]
    /\ todo = [r \in Request |-> {}]
    /\ handles = [r \in Request |-> {}]
    /\ unguarded = [r \in Request |-> FALSE]

\* Bounds: an exception that leaves an operation ends the request, and a file
\* is opened once in each way.
Start(r, o) ==
    /\ pc[r] = "idle" /\ ~unguarded[r] /\ o \notin handles[r]
    /\ handles[r] # {} => o.kind \in BesideHandle
    /\ op' = [op EXCEPT ![r] = o]
    /\ Goto(r, "lock", Files(o))
    /\ UNCHANGED <<locks, handles, unguarded>>

\* lockFile
Acquire(r, k) ==
    /\ pc[r] = "lock" /\ Turn(r, k)
    /\ shared[r][k] < MaxShared
    /\ Lock!Share(r, k)
    /\ Count(r, k, shared[r][k] + 1)
    /\ IF More(r, k) THEN Advance(r, k) ELSE Continue(r, "hooks", <<>>)
    /\ UNCHANGED handles

\* Only rename has begun its try by then, and only for the target.
Refused(r) ==
    /\ pc[r] = "lock"
    /\ IF op[r].kind = "rename" /\ Len(queue[r]) = 1 THEN UnlockAll(r) ELSE Throw(r)
    /\ UNCHANGED <<locks, handles>>

\* The hooks before the operation let it run, veto it or throw.
Hooks(r) ==
    /\ pc[r] = "hooks"
    /\ IF Claims(op[r]) = <<>> THEN Continue(r, "work", <<>>)
       ELSE Continue(r, "claim", Claims(op[r]))
    /\ UNCHANGED <<locks, handles>>

Veto(r) ==
    /\ pc[r] = "hooks"
    /\ op[r].kind \in {"write", "openWrite", "stream", "copy", "rename"}
    /\ UnlockAll(r)
    /\ UNCHANGED <<locks, handles>>

HooksThrow(r) ==
    /\ pc[r] \in {"hooks", "posthooks"}
    /\ IF op[r].kind \in Guarded THEN UnlockAll(r) ELSE Throw(r)
    /\ UNCHANGED <<locks, handles>>

\* changeLock to exclusive, of a lock the request holds once and nobody else.
Claim(r) ==
    /\ pc[r] = "claim"
    /\ shared[r][Own(r)] = 1
    /\ Lock!Claim(r, Own(r))
    /\ Count(r, Own(r), 0)
    /\ IF Len(queue[r]) = 1 THEN Continue(r, "work", <<>>)
       ELSE Continue(r, "claim", Tail(queue[r]))
    /\ UNCHANGED handles

\* put then tries to acquire an exclusive lock, which its own shared lock refuses.
ClaimRefused(r) ==
    /\ pc[r] = "claim"
    /\ CASE op[r].kind = "rename" /\ Len(queue[r]) = 1 -> Continue(r, "back", Files(op[r]))
         [] op[r].kind \in {"put", "unmount"} -> Throw(r)
         [] OTHER -> UnlockAll(r)
    /\ UNCHANGED <<locks, handles>>

\* The storage did it, or returned false.  fopen keeps its locks for the handle.
WorkDone(r) ==
    /\ pc[r] = "work"
    /\ CASE op[r].kind \in {"openRead", "openWrite"} ->
                Return(r) /\ handles' = [handles EXCEPT ![r] = @ \cup {op[r]}] /\ UNCHANGED unguarded
         [] op[r].kind = "read" -> UnlockAll(r) /\ UNCHANGED handles
         [] OTHER -> Continue(r, "back", Claims(op[r])) /\ UNCHANGED handles
    /\ UNCHANGED locks

WorkFailed(r) ==
    /\ pc[r] = "work"
    /\ op[r].kind \in {"openRead", "openWrite", "stream", "put"}
    /\ CASE op[r].kind = "openRead" -> UnlockAll(r)
         [] op[r].kind = "openWrite" -> Continue(r, "back", Claims(op[r]))
         [] op[r].kind = "stream" -> Continue(r, "unlock", <<Exclusive(op[r].source)>>)
         [] op[r].kind = "put" -> Throw(r)
    /\ UNCHANGED <<locks, handles>>

\* Mutant: the copied file is unlocked as if its lock were shared again.
UnlockCopyShared(r) == Continue(r, "unlock", Files(op[r]))

\* The catch of copy knows the type of the lock.
UnlockCopy(r) == Continue(r, "unlock", <<Exclusive(op[r].target), Shared(op[r].source)>>)

StorageThrows(r) ==
    /\ pc[r] = "work"
    /\ CASE op[r].kind \in {"read", "openRead"} -> UnlockAll(r)
         [] op[r].kind \in {"write", "openWrite"} -> Continue(r, "unlock", <<Exclusive(op[r].source)>>)
         [] op[r].kind = "copy" -> UnlockCopy(r)
         [] op[r].kind = "rename" -> Continue(r, "back", Files(op[r]))
         [] OTHER -> Throw(r)
    /\ UNCHANGED <<locks, handles>>

\* The file cache could not be updated after the storage had done its part.
UpdateThrows(r) ==
    /\ pc[r] = "work"
    /\ op[r].kind = "write"
    /\ Throw(r)
    /\ UNCHANGED <<locks, handles>>

\* changeLock to shared.  It throws for the target that rename did not claim,
\* in a finally inside of the one that unlocks both.
Back(r) ==
    /\ pc[r] = "back"
    /\ IF writer[Own(r)] = {r}
       THEN /\ Lock!Downgrade(r, Own(r))
            /\ Count(r, Own(r), shared[r][Own(r)] + 1)
            /\ IF Len(queue[r]) = 1 THEN Continue(r, "posthooks", <<>>)
               ELSE Continue(r, "back", Tail(queue[r]))
       ELSE UnlockAll(r) /\ UNCHANGED locks
    /\ UNCHANGED handles

PostHooks(r) ==
    /\ pc[r] = "posthooks"
    /\ UnlockAll(r)
    /\ UNCHANGED <<locks, handles>>

\* Mutant: a lock the request does not hold is counted down all the same.
ReleaseSharedNotHeld(r, k) ==
    /\ Count(r, k, shared[r][k] - 1)
    /\ IF shared[r][k] = 1 THEN Lock!Unshare(r, k) ELSE UNCHANGED <<readers, writer>>

\* releaseLock: what the request does not hold stays as it is.
ReleaseShared(r, k) ==
    /\ Count(r, k, IF shared[r][k] > 0 THEN shared[r][k] - 1 ELSE 0)
    /\ IF shared[r][k] = 1 THEN Lock!Unshare(r, k) ELSE UNCHANGED <<readers, writer>>

ReleaseExclusive(r, k) ==
    /\ IF writer[k] = {r} THEN Lock!Unclaim(r, k) ELSE UNCHANGED <<readers, writer>>
    /\ UNCHANGED shared

\* unlockFile
Release(r, k) ==
    /\ pc[r] = "unlock" /\ Turn(r, k)
    /\ IF k = Own(r) /\ Head(queue[r]).type = "exclusive" THEN ReleaseExclusive(r, k)
       ELSE ReleaseShared(r, k)
    /\ IF More(r, k) THEN Advance(r, k) ELSE Return(r) /\ UNCHANGED unguarded
    /\ UNCHANGED handles

\* The callback of the handle, when it is closed.
Close(r, o) ==
    /\ pc[r] = "idle" /\ o \in handles[r]
    /\ handles' = [handles EXCEPT ![r] = @ \ {o}]
    /\ op' = [op EXCEPT ![r] = o]
    /\ Goto(r, "unlock", IF o.kind = "openWrite" THEN <<Exclusive(o.source)>> ELSE <<Shared(o.source)>>)
    /\ UNCHANGED <<locks, unguarded>>

\* The request ends, regularly or not, and its shutdown function releases all.
End(r) ==
    /\ Lock!Vanish(r)
    /\ shared' = [shared EXCEPT ![r] = [k \in Path |-> 0]]
    /\ Return(r)
    /\ handles' = [handles EXCEPT ![r] = {}]
    /\ unguarded' = [unguarded EXCEPT ![r] = FALSE]

Step(r) ==
    \/ \E o \in Operation : Start(r, o) \/ Close(r, o)
    \/ \E k \in Path : Acquire(r, k) \/ Release(r, k)
    \/ Refused(r) \/ Hooks(r) \/ Veto(r) \/ HooksThrow(r)
    \/ Claim(r) \/ ClaimRefused(r)
    \/ WorkDone(r) \/ WorkFailed(r) \/ StorageThrows(r) \/ UpdateThrows(r)
    \/ Back(r) \/ PostHooks(r)

Next == \E r \in Request : Step(r) \/ End(r)

Spec == Init /\ [][Next]_vars

-----------------------------------------------------------------------------
(***************************************************************************)
(* Properties.                                                             *)
(***************************************************************************)
TypeOK ==
    /\ Lock!TypeOK
    /\ shared \in [Request -> [Path -> 0..MaxShared]]
    /\ op \in [Request -> Operation \cup {NoOperation}]
    /\ pc \in [Request -> {"idle", "lock", "hooks", "claim", "work", "back", "posthooks", "unlock"}]
    /\ queue \in [Request -> Seq(File)]
    /\ todo \in [Request -> SUBSET Path]
    /\ handles \in [Request -> SUBSET Operation]
    /\ unguarded \in [Request -> BOOLEAN]
    /\ \A r \in Request : op[r] = NoOperation <=> pc[r] = "idle"

\* The nodes a request changes, with everything below them, and the ones it uses.
Keys(o, q) == {OwnKey(o.kind, q[i].path) : i \in DOMAIN q}
Busy(r) == handles[r] \cup {o \in Operation : pc[r] = "work" /\ op[r] = o}
Changed(r) == UNION {Keys(o, Claims(o)) : o \in Busy(r)}
Used(r) == UNION {Keys(o, Files(o)) : o \in Busy(r)}

\* While one request moves, deletes or writes a file or folder in the storage,
\* no other one works on the same node, or on one below it, or has a file open
\* there: under whatever path and through whatever share it got at it.
TreeExclusion ==
    \A r1, r2 \in Request :
        r1 # r2 => \A k1 \in Changed(r1), k2 \in Used(r2) : k1 \notin UpTo(k2)

\* A request only makes locks exclusive that it holds shared, as the lock
\* providers take for granted: otherwise changeLock takes another one's lock.
HoldsWhatItClaims == \A r \in Request : pc[r] = "claim" => shared[r][Own(r)] > 0

\* Between two operations, unless an exception left one of them unguarded, a
\* request holds the locks of its open files, each as often as they need, and
\* no other one: every way out of an operation gives back what it took.
Balanced ==
    \A r \in Request, k \in Path : pc[r] = "idle" /\ ~unguarded[r] =>
        LET opened == {o \in handles[r] : k \in LockKeys(o.kind, o.source)}
            written == {o \in opened : o.kind = "openWrite" /\ k = Node[o.source]}
        IN  /\ shared[r][k] = Cardinality(opened \ written)
            /\ writer[k] = {r} <=> written # {}

\* A request only gives back what it holds.  The code does not keep to this: see
\* the README.
ReleasesWhatItHolds ==
    \A r \in Request : \A k \in todo[r] : pc[r] = "unlock" =>
        shared[r][k] > 0 \/ (k = Own(r) /\ writer[k] = {r})
=============================================================================
