------------------------------ MODULE FileLock ------------------------------
(***************************************************************************)
(* What OCP\Lock\ILockingProvider promises to the code that locks files:   *)
(* a readers-writer lock per path, held by requests.  Both providers, the  *)
(* one on the database and the one on a memory cache, are checked against  *)
(* this specification.                                                     *)
(*                                                                         *)
(* Nobody ever waits for a lock: an acquisition that cannot be granted     *)
(* throws LockedException and changes nothing, which is a stuttering step  *)
(* here.  For the same reason a provider may refuse a lock that this       *)
(* specification would grant (a stray lock of a crashed request, a lock    *)
(* kept until the end of the request), but may never grant one that this   *)
(* specification refuses.                                                  *)
(***************************************************************************)

CONSTANTS
    Request,    \* the PHP requests and console commands
    Path        \* the lock keys

VARIABLES
    readers,    \* readers[p]: the requests that hold a shared lock on p
    writer      \* writer[p]: the request that holds the exclusive lock, or none

vars == <<readers, writer>>

TypeOK ==
    /\ readers \in [Path -> SUBSET Request]
    /\ writer \in [Path -> SUBSET Request]

Init ==
    /\ readers = [p \in Path |-> {}]
    /\ writer = [p \in Path |-> {}]

-----------------------------------------------------------------------------
(* acquireLock(p, LOCK_SHARED) *)
Share(r, p) ==
    /\ writer[p] = {}
    /\ readers' = [readers EXCEPT ![p] = @ \cup {r}]
    /\ UNCHANGED writer

(* acquireLock(p, LOCK_EXCLUSIVE), and changeLock(p, LOCK_EXCLUSIVE) of a   *)
(* request that is the only reader.                                        *)
Claim(r, p) ==
    /\ writer[p] = {}
    /\ readers[p] \subseteq {r}
    /\ writer' = [writer EXCEPT ![p] = {r}]
    /\ readers' = [readers EXCEPT ![p] = {}]

(* changeLock(p, LOCK_SHARED) *)
Downgrade(r, p) ==
    /\ writer[p] = {r}
    /\ writer' = [writer EXCEPT ![p] = {}]
    /\ readers' = [readers EXCEPT ![p] = {r}]

(* releaseLock(p, LOCK_SHARED) of the last shared lock the request holds *)
Unshare(r, p) ==
    /\ r \in readers[p]
    /\ readers' = [readers EXCEPT ![p] = @ \ {r}]
    /\ UNCHANGED writer

(* releaseLock(p, LOCK_EXCLUSIVE) *)
Unclaim(r, p) ==
    /\ writer[p] = {r}
    /\ writer' = [writer EXCEPT ![p] = {}]
    /\ UNCHANGED readers

(* A request dies with every lock it holds. *)
Vanish(r) ==
    /\ readers' = [p \in Path |-> readers[p] \ {r}]
    /\ writer' = [p \in Path |-> writer[p] \ {r}]

Next ==
    \E r \in Request :
        \/ \E p \in Path :
              \/ Share(r, p)
              \/ Claim(r, p)
              \/ Downgrade(r, p)
              \/ Unshare(r, p)
              \/ Unclaim(r, p)
        \/ Vanish(r)

Spec == Init /\ [][Next]_vars

-----------------------------------------------------------------------------
(* No request writes a path while another one reads or writes it. *)
Exclusion ==
    \A p \in Path :
        /\ \A r, s \in writer[p] : r = s
        /\ writer[p] # {} => readers[p] = {}
=============================================================================
