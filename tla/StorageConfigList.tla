-------------------------- MODULE StorageConfigList --------------------------
(***************************************************************************)
(* The list of external storages of the administration settings:           *)
(* MountConfigListView and StorageConfig of                                *)
(* apps/files_external/src/settings.js, with the part of the controller    *)
(* GlobalStoragesController that their requests reach.                     *)
(*                                                                         *)
(* A row of the table holds what the user typed and the id of its storage  *)
(* once the answer to the first save has brought one.  A save creates      *)
(* (POST) or updates (PUT) according to that id, the status icon shows the *)
(* answer, and nothing keeps the user from editing, saving or deleting a   *)
(* row while a request of the row is on its way.  An answer can be lost    *)
(* after the server has done what was asked, and the password confirmation *)
(* can be cancelled before the request leaves.                             *)
(*                                                                         *)
(* Three history variables: `owner' is the row whose request created a     *)
(* storage, and `raced' has the rows on which the user acted while a       *)
(* request was on its way, that lost an answer, or whose storage was       *)
(* listed although another row had saved it.  `failed' has the rows with a *)
(* request that failed after the last save that did not.                   *)
(***************************************************************************)
EXTENDS Naturals, FiniteSets, FiniteSetsExt

CONSTANTS
    Row,        \* the rows of the table, numbered in the order of their use
    MaxId,      \* bound: the storages that are ever created
    Value,      \* what the inputs of a row can hold
    Valid,      \* the values StorageConfig.validate accepts
    Blank,      \* the inputs of a row for a new storage
    AutoCheck,  \* a list of as many storages is not checked on its own
    MaxRequest, \* bound: the requests on their way at a time
    None

ASSUME RowAssumption == Row \subseteq Nat /\ IsFiniteSet(Row)

\* Every backend of the app has a parameter that has to be filled in.
ASSUME ValueAssumption == Valid \subseteq Value /\ Blank \in Value \ Valid /\ None \notin Value

ASSUME BoundAssumption ==
    {MaxId, MaxRequest} \subseteq Nat \ {0} /\ AutoCheck \in Nat /\ None \notin Nat

Id == 1..MaxId

VARIABLES
    storages,  \* the storages of the server
    lastId,    \* the last id it gave
    listing,   \* the request of loadStorages
    rows,
    requests,  \* the requests whose answer the page has not got
    owner, raced, failed

server == <<storages, lastId, owner>>
vars == <<server, listing, rows, requests, raced, failed>>

\* What the status icon says of a row.  A "result" is what the server found out
\* about the storage, good or bad; an "error" is a request that failed.
Status == {"none", "progress", "result", "error"}

RowRecord == [state: {"unused", "shown", "removed"}, id: Id \cup {None}, inputs: Value,
              status: Status]

\* The requests of a row that are on their way have different numbers n.
Request == [row: Row, n: 1..MaxRequest, method: {"POST", "PUT", "GET", "DELETE"},
            id: Id \cup {None}, data: Value, answer: {"none", "ok", "failed"}]

unused == [state |-> "unused", id |-> None, inputs |-> Blank, status |-> "none"]

There == {i \in Id : storages[i] # None}
OnItsWay(r) == \E q \in requests : q.row = r

Init ==
    /\ lastId \in 0..1
    /\ storages \in {s \in [Id -> Valid \cup {None}] : \A i \in Id : s[i] # None <=> i <= lastId}
    /\ listing = [state |-> "sent", content |-> [i \in Id |-> None]]
    /\ rows = [r \in Row |-> unused]
    /\ requests = {}
    /\ owner = [i \in Id |-> None]
    /\ raced = {}
    /\ failed = {}

(***************************************************************************)
(* What the user does to a row.                                            *)
(***************************************************************************)
\* The user acts on row r, which becomes `new' and may send a request.
Act(r, new) ==
    /\ rows[r].state = "shown"
    /\ rows' = [rows EXCEPT ![r] = new]
    /\ raced' = IF OnItsWay(r) THEN raced \cup {r} ELSE raced
    /\ UNCHANGED <<server, listing, failed>>

Send(r, method, id, data) ==
    LET used == {q.n : q \in {p \in requests : p.row = r}}
    IN  /\ Cardinality(requests) < MaxRequest
        /\ requests' = requests \cup
              {[row |-> r, n |-> Min(1..MaxRequest \ used), method |-> method, id |-> id,
                data |-> data, answer |-> "none"]}

\* Mutant: every save creates.
saveNew(r, data) == Send(r, "POST", None, data)

\* StorageConfig.save
save(r, data) ==
    IF rows[r].id = None THEN Send(r, "POST", None, data) ELSE Send(r, "PUT", rows[r].id, data)

\* saveStorageConfig of a row whose inputs are now v and whose status would
\* otherwise be s.
SaveStorageConfig(r, v, s, progress) ==
    IF v \in Valid
    THEN Act(r, [rows[r] EXCEPT !.inputs = v, !.status = progress]) /\ save(r, v)
    ELSE Act(r, [rows[r] EXCEPT !.inputs = v, !.status = s]) /\ UNCHANGED requests

\* The backend is chosen in the last row of the table.
NewStorage(r) ==
    /\ rows[r].state = "unused" /\ \A s \in Row : s < r => rows[s].state # "unused"
    /\ rows' = [rows EXCEPT ![r] = [unused EXCEPT !.state = "shown"]]
    /\ UNCHANGED <<server, listing, requests, raced, failed>>

\* Mutant: the status stays.
ChangeSilently(r, v) ==
    /\ v # rows[r].inputs
    /\ Act(r, [rows[r] EXCEPT !.inputs = v])
    /\ UNCHANGED requests

\* _onChange of an input hides the status.
Change(r, v) ==
    /\ v # rows[r].inputs
    /\ Act(r, [rows[r] EXCEPT !.inputs = v, !.status = "none"])
    /\ UNCHANGED requests

\* The check mark.
Save(r) ==
    /\ rows[r].inputs \in Valid
    /\ SaveStorageConfig(r, rows[r].inputs, rows[r].status, "progress")

\* _onSelectAuthMechanism, and the end of the mount options menu.
ChangeAndSave(r, v) ==
    /\ v # rows[r].inputs
    /\ SaveStorageConfig(r, v, rows[r].status, "progress")

\* _onChangeApplicableToAllUsers: _onChange is called before and after it, for
\* the check box and for its cell.
ChangeApplicable(r, v) ==
    /\ v # rows[r].inputs
    /\ SaveStorageConfig(r, v, "none", "none")

\* A click on the status.
RecheckStorageConfig(r) ==
    /\ rows[r].status # "none"
    /\ rows[r].inputs \in Valid
    /\ IF rows[r].id = None
       THEN /\ Act(r, [rows[r] EXCEPT !.status = "error"])
            /\ UNCHANGED requests
       ELSE /\ Act(r, [rows[r] EXCEPT !.status = "progress"])
            /\ Send(r, "GET", rows[r].id, Blank)

\* deleteStorageConfig removes a row without an id; it asks for the others, and
\* does nothing if the user cancels.
DeleteStorageConfig(r) ==
    IF rows[r].id = None
    THEN /\ Act(r, [unused EXCEPT !.state = "removed"])
         /\ UNCHANGED requests
    ELSE /\ Act(r, [rows[r] EXCEPT !.status = "progress"])
         /\ Send(r, "DELETE", rows[r].id, Blank)

(***************************************************************************)
(* The server, and what gets lost.                                         *)
(***************************************************************************)
Answered(q, a, id) ==
    requests' = (requests \ {q}) \cup {[q EXCEPT !.answer = a, !.id = id, !.data = Blank]}

Create(q) ==
    /\ q.method = "POST"
    /\ lastId < MaxId
    /\ lastId' = lastId + 1
    /\ storages' = [storages EXCEPT ![lastId + 1] = q.data]
    /\ owner' = [owner EXCEPT ![lastId + 1] = q.row]
    /\ Answered(q, "ok", lastId + 1)

\* Mutant: the update of a storage that is gone brings it back.
UpdateAnyway(q) ==
    /\ q.method = "PUT"
    /\ storages' = [storages EXCEPT ![q.id] = q.data]
    /\ Answered(q, "ok", q.id)
    /\ UNCHANGED <<lastId, owner>>

Update(q) ==
    /\ q.method = "PUT"
    /\ q.id \in There
    /\ storages' = [storages EXCEPT ![q.id] = q.data]
    /\ Answered(q, "ok", q.id)
    /\ UNCHANGED <<lastId, owner>>

Destroy(q) ==
    /\ q.method = "DELETE"
    /\ q.id \in There
    /\ storages' = [storages EXCEPT ![q.id] = None]
    /\ Answered(q, "ok", q.id)
    /\ UNCHANGED <<lastId, owner>>

Show(q) ==
    /\ q.method = "GET"
    /\ q.id \in There
    /\ Answered(q, "ok", q.id)
    /\ UNCHANGED server

Serve(q) ==
    /\ q.answer = "none"
    /\ Create(q) \/ Update(q) \/ Destroy(q) \/ Show(q)
    /\ UNCHANGED <<listing, rows, raced, failed>>

\* The request is refused, or gets lost, or its password is not confirmed.
Refuse(q) ==
    /\ q.answer = "none"
    /\ Answered(q, "failed", None)
    /\ UNCHANGED <<server, listing, rows, raced, failed>>

\* The answer gets lost.
Lose(q) ==
    /\ q.answer = "ok"
    /\ Answered(q, "failed", None)
    /\ raced' = raced \cup {q.row}
    /\ UNCHANGED <<server, listing, rows, failed>>

(***************************************************************************)
(* The callbacks of save, recheck and destroy.                             *)
(***************************************************************************)
\* Mutant: a failure is not shown.
CallbackSilent(q) ==
    LET row == rows[q.row] IN
    CASE q.answer # "ok" -> row
      [] q.answer = "ok" /\ q.method = "DELETE" -> [unused EXCEPT !.state = "removed"]
      [] q.answer = "ok" /\ q.method = "GET" -> [row EXCEPT !.status = "result"]
      [] OTHER -> [row EXCEPT !.status = "result", !.id = q.id]

Callback(q) ==
    LET row == rows[q.row] IN
    CASE q.answer # "ok" -> [row EXCEPT !.status = "error"]
      [] q.answer = "ok" /\ q.method = "DELETE" -> [unused EXCEPT !.state = "removed"]
      [] q.answer = "ok" /\ q.method = "GET" -> [row EXCEPT !.status = "result"]
      [] OTHER -> [row EXCEPT !.status = "result", !.id = q.id]

\* Mutant: the callbacks reach a row that was removed.
DeliverAnyway(q) ==
    /\ q.answer # "none"
    /\ requests' = requests \ {q}
    /\ rows' = [rows EXCEPT ![q.row] = Callback(q)]
    /\ failed' = CASE q.answer = "failed" -> failed \cup {q.row}
                   [] q.answer = "ok" /\ q.method \in {"POST", "PUT"} -> failed \ {q.row}
                   [] OTHER -> failed
    /\ UNCHANGED <<server, listing, raced>>

\* The callbacks of a row that was removed find no row.
Deliver(q) ==
    /\ q.answer # "none"
    /\ requests' = requests \ {q}
    /\ rows' = IF rows[q.row].state = "removed" THEN rows
               ELSE [rows EXCEPT ![q.row] = Callback(q)]
    /\ failed' = CASE q.answer = "failed" -> failed \cup {q.row}
                   [] q.answer = "ok" /\ q.method \in {"POST", "PUT"} -> failed \ {q.row}
                   [] OTHER -> failed
    /\ UNCHANGED <<server, listing, raced>>

(***************************************************************************)
(* loadStorages: the page is usable while it waits for the list.           *)
(***************************************************************************)
ServeListing ==
    /\ listing.state = "sent"
    /\ listing' = [state |-> "answered", content |-> storages]
    /\ UNCHANGED <<server, rows, requests, raced, failed>>

\* Each storage gets a row of its own, which is checked if they are few.
LoadStorages(rowOf) ==
    LET content == listing.content
        listed == DOMAIN rowOf
        few == Cardinality(listed) < AutoCheck
        idOf(r) == CHOOSE i \in listed : rowOf[i] = r
    IN  /\ listing.state = "answered"
        /\ listed = {i \in Id : content[i] # None}
        /\ \A i \in listed : rows[rowOf[i]].state = "unused"
        /\ \A i, j \in listed : i < j => rowOf[i] < rowOf[j]
        /\ \A i \in listed, r \in Row : rows[r].state = "unused" /\ r < rowOf[i] =>
              \E j \in listed : rowOf[j] = r
        /\ rows' = [r \in Row |->
              IF \A i \in listed : rowOf[i] # r THEN rows[r]
              ELSE [state |-> "shown", id |-> idOf(r), inputs |-> content[idOf(r)],
                    status |-> IF few THEN "progress" ELSE "result"]]
        /\ requests' = requests \cup
              {[row |-> rowOf[i], n |-> 1, method |-> "GET", id |-> i, data |-> Blank,
                answer |-> "none"] : i \in {j \in listed : few}}
        /\ raced' = raced \cup UNION {{rowOf[i], owner[i]} \ {None} :
                                         i \in {j \in listed : owner[j] # None}}
        /\ listing' = [state |-> "done", content |-> [i \in Id |-> None]]
        /\ UNCHANGED <<server, failed>>

-----------------------------------------------------------------------------
User ==
    \E r \in Row :
        \/ NewStorage(r) \/ Save(r) \/ RecheckStorageConfig(r)
        \/ DeleteStorageConfig(r)
        \/ \E v \in Value : Change(r, v) \/ ChangeAndSave(r, v) \/ ChangeApplicable(r, v)

Load == \E ids \in SUBSET Id : \E rowOf \in [ids -> Row] : LoadStorages(rowOf)

Answering(q) == Serve(q) \/ Refuse(q) \/ Lose(q) \/ Deliver(q)

Network == \E q \in requests : Answering(q)

Next == User \/ ServeListing \/ Load \/ Network

Spec == Init /\ [][Next]_vars

\* Every request is answered, or fails, and its callback is called.  Nothing
\* makes the user act.
FairSpec ==
    /\ Spec
    /\ \A r \in Row, n \in 1..MaxRequest :
          WF_vars(\E q \in requests : q.row = r /\ q.n = n /\ Answering(q))

-----------------------------------------------------------------------------
(***************************************************************************)
(* Properties.                                                             *)
(***************************************************************************)
\* Every variable keeps its shape; a row that is not shown holds nothing, and
\* requests are told apart by their number.
TypeOK ==
    /\ lastId \in 0..MaxId
    /\ storages \in [Id -> Valid \cup {None}]
    /\ rows \in [Row -> RowRecord]
    /\ \A r \in Row : rows[r].state # "shown" => rows[r] = [unused EXCEPT !.state = rows[r].state]
    /\ requests \subseteq Request
    /\ \A p, q \in requests : p.row = q.row /\ p.n = q.n => p = q
    /\ owner \in [Id -> Row \cup {None}]
    /\ raced \subseteq Row /\ failed \subseteq Row

\* A row that shows what the server found out about its storage has one, and
\* the server has the inputs of the row, unless they were changed to something
\* that cannot be saved, a request of the row is on its way or failed after the
\* last save, or the row raced.
StatusIsTrue ==
    \A r \in Row \ (raced \cup failed) :
        /\ rows[r].state = "shown"
        /\ rows[r].status = "result"
        /\ rows[r].inputs \in Valid
        /\ ~OnItsWay(r)
        => rows[r].id \in There /\ storages[rows[r].id] = rows[r].inputs

\* A storage that was created from this page is the one of its row, unless the
\* row raced: a row that is saved again updates its storage, and a row that
\* was deleted leaves none.
NoOrphan ==
    \A i \in There :
        LET r == owner[i] IN
        r \in Row \ raced /\ ~OnItsWay(r) => rows[r].state = "shown" /\ rows[r].id = i

\* A storage that was deleted does not come back, whatever updates of it are
\* still on their way.
NeverResurrected ==
    [][\A i \in 1..lastId : storages[i] = None => storages'[i] = None]_vars

\* A row that was removed as unsaved leaves no storage behind (the comment
\* "deleting unsaved storage" of deleteStorageConfig).  The code does not keep
\* to this: see the README.
RemovedLeavesNothing ==
    \A i \in There : owner[i] # None => rows[owner[i]].state # "removed"

\* No row shows the loading icon forever.
ProgressEnds == \A r \in Row : rows[r].status = "progress" ~> rows[r].status # "progress"

=============================================================================
