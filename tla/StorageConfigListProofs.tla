----------------------- MODULE StorageConfigListProofs -----------------------
(***************************************************************************)
(* Proofs about StorageConfigList, for any number of rows, storages and    *)
(* requests: a storage that was deleted does not come back, the status of  *)
(* a row that did not race is true, and a storage that was created from    *)
(* the page is the one of its row.                                         *)
(*                                                                         *)
(* A row that did not race has one request on its way, or none, so that    *)
(* its storage is settled by that request (Waits) or by the row (Rests).   *)
(* The other rows leave it alone, because they do not know its storage     *)
(* (Apart).                                                                *)
(***************************************************************************)
EXTENDS StorageConfigList, FiniteSetTheorems, WellFoundedInduction, TLAPS

-----------------------------------------------------------------------------
(***************************************************************************)
(* The invariant.                                                          *)
(***************************************************************************)
\* What the requests ask for, as the server needs it.  They are finitely many,
\* and a row that was never used has none.
RequestsOK ==
    /\ IsFiniteSet(requests)
    /\ \A q \in requests :
          /\ rows[q.row].state # "unused"
          /\ q.answer = "none" /\ q.method \in {"POST", "PUT"} => q.data \in Valid
          /\ q.answer = "none" /\ q.method = "POST" => q.id = None
          /\ q.answer = "none" /\ q.method # "POST" => q.id \in Id
          /\ q.answer = "ok" => q.id \in Id

\* The list of storages is an earlier state of the server.  Before the page has
\* it, nobody on the page changes a storage that was not created from it.
ListingOK ==
    /\ listing \in [state: {"sent", "answered", "done"}, content: [Id -> Valid \cup {None}]]
    /\ \A i \in Id : i > lastId =>
          storages[i] = None /\ listing.content[i] = None /\ owner[i] = None
    /\ listing.state = "answered" =>
          \A i \in Id : owner[i] = None => listing.content[i] = storages[i]

IType == TypeOK /\ RequestsOK /\ ListingOK

\* The page knows storage i through row r.
Knows(r, i) ==
    \/ rows[r].id = i
    \/ owner[i] = r
    \/ \E q \in requests : q.row = r /\ q.id = i

\* Only storages that were given an id are known; until the list is there, each
\* is known through the row that created it; and a row that did not race shares
\* none with another row.
Apart ==
    /\ \A r \in Row, i \in Id : Knows(r, i) => i <= lastId
    /\ listing.state # "done" => \A r \in Row, i \in Id : Knows(r, i) => owner[i] = r
    /\ \A r \in Row \ raced, s \in Row, i \in Id : Knows(r, i) /\ Knows(s, i) => r = s

\* No storage of row r is left but i.
OnlyStorage(r, i) == \A j \in There : owner[j] = r => j = i

\* The server has the inputs of row r as its storage i.
Saved(r, i) == i \in There /\ storages[i] = rows[r].inputs

\* The storage row r has when the answer to q was delivered; for a request that
\* is on its way, the one it has.
After(q) ==
    IF q.answer # "ok" THEN rows[q.row].id
    ELSE IF q.method = "DELETE" THEN None ELSE q.id

\* Row r waits for the answer to q.
Waits(r, q) ==
    /\ rows[r].state = "shown"
    /\ OnlyStorage(r, After(q))
    /\ q.answer = "none" \/ (q.answer = "ok" /\ q.method = "GET") => q.id = rows[r].id
    /\ q.method \in {"POST", "PUT"} =>
          /\ q.answer = "none" => q.data = rows[r].inputs
          /\ q.answer = "ok" => Saved(r, q.id)
    /\ q.method = "GET" /\ q.answer # "failed" /\ r \notin failed /\ rows[r].inputs \in Valid =>
          Saved(r, rows[r].id)

\* Row r waits for nothing.
Rests(r) ==
    /\ \A i \in There : owner[i] = r => rows[r].state = "shown" /\ rows[r].id = i
    /\ /\ rows[r].state = "shown" /\ r \notin failed /\ rows[r].inputs \in Valid
       /\ rows[r].status = "result" \/ (rows[r].status # "none" /\ rows[r].id # None)
       => Saved(r, rows[r].id)

RowOK(r) ==
    /\ \A p, q \in requests : p.row = r /\ q.row = r => p = q
    /\ \A q \in requests : q.row = r => Waits(r, q)
    /\ ~OnItsWay(r) => Rests(r)

RowsOK == \A r \in Row \ raced : RowOK(r)

IInv == IType /\ Apart /\ RowsOK

-----------------------------------------------------------------------------
(***************************************************************************)
(* What a step does to the requests and the rows.                          *)
(***************************************************************************)
\* The user changes row r to `new' without a request: it no longer says
\* anything of its storage, or it had none and goes.
Idle(r, new) ==
    /\ new \in RowRecord
    /\ \/ new.state = "shown" /\ new.id = rows[r].id
       \/ new = [unused EXCEPT !.state = "removed"] /\ rows[r].id = None
    /\ new.state = "shown" /\ new.inputs \in Valid =>
          new.status = "none" \/ (new.status = "error" /\ new.id = None)

\* The user changes row r to `new', and q is sent.
Asks(r, new, q) ==
    /\ new \in RowRecord /\ new.state = "shown" /\ new.id = rows[r].id
    /\ q \in Request /\ q.row = r /\ q.answer = "none" /\ q.id = new.id
    /\ \A p \in requests : p.row = r => p.n # q.n
    /\ q.method \in {"POST", "PUT"} => q.data = new.inputs /\ new.inputs \in Valid
    /\ q.method = "POST" <=> new.id = None
    /\ q.method = "GET" => new.inputs = rows[r].inputs /\ rows[r].status # "none"

UserStep(r, new) ==
    /\ Act(r, new)
    /\ \/ Idle(r, new) /\ UNCHANGED requests
       \/ \E q \in Request : Asks(r, new, q) /\ requests' = requests \cup {q}

\* A set of numbers that is not empty has a smallest one.
LEMMA MinIn ==
    ASSUME NEW S \in SUBSET Nat, S # {}
    PROVE  Min(S) \in S
<1> DEFINE R == OpToRel(<, Nat)
<1>1. IsWellFoundedOn(R, Nat)
  BY NatLessThanWellFounded
<1>2. \A x, y \in Nat : x < y => <<x, y>> \in R
  BY DEF OpToRel
<1> HIDE DEF R
<1>3. PICK x \in S : \A y \in S : ~(<<y, x>> \in R)
  BY <1>1, WFMin
<1>4. ASSUME NEW y \in S PROVE x <= y
  <2>1. ~(y < x)
    BY <1>2, <1>3
  <2> QED BY <2>1
<1> QED BY <1>4 DEF Min

\* As long as there are fewer requests than MaxRequest, a row has a number left.
LEMMA FreeNumber ==
    ASSUME IsFiniteSet(requests), Cardinality(requests) < MaxRequest, NEW r
    PROVE  LET used == {q.n : q \in {p \in requests : p.row = r}}
           IN  Min(1..MaxRequest \ used) \in 1..MaxRequest \ used
<1> DEFINE mine == {p \in requests : p.row = r}
           used == {q.n : q \in mine}
           f == [q \in mine |-> q.n]
<1>1. IsFiniteSet(mine) /\ Cardinality(mine) <= Cardinality(requests)
  BY FS_Subset
<1>2. f \in Surjection(mine, used)
  BY DEF Surjection
<1>3. IsFiniteSet(used) /\ Cardinality(used) <= Cardinality(mine)
  BY <1>1, <1>2, FS_Surjection
<1>4. MaxRequest \in Nat /\ Cardinality(1..MaxRequest) = MaxRequest
  BY FS_Interval, BoundAssumption
<1>5. /\ Cardinality(used) \in Nat /\ Cardinality(mine) \in Nat
      /\ Cardinality(requests) \in Nat
  BY <1>1, <1>3, FS_CardinalityType
<1>6. 1..MaxRequest \ used # {}
  <2>1. SUFFICES ASSUME 1..MaxRequest \subseteq used PROVE FALSE
    OBVIOUS
  <2>2. Cardinality(1..MaxRequest) <= Cardinality(used)
    BY <1>3, <2>1, FS_Subset
  <2> QED BY <1>1, <1>3, <1>4, <1>5, <2>2
<1>7. 1..MaxRequest \ used \subseteq Nat
  BY <1>4
<1> HIDE DEF used
<1>8. Min(1..MaxRequest \ used) \in 1..MaxRequest \ used
  BY <1>6, <1>7, MinIn
<1> QED BY <1>8 DEF used

\* The request that is sent gets a number no other request of the row has.
LEMMA Sent ==
    ASSUME IType, NEW r \in Row, NEW method \in {"POST", "PUT", "GET", "DELETE"},
           NEW id \in Id \cup {None}, NEW data \in Value, Send(r, method, id, data)
    PROVE  \E q \in Request :
              /\ requests' = requests \cup {q}
              /\ q.row = r /\ q.method = method /\ q.id = id /\ q.data = data
              /\ q.answer = "none" /\ \A p \in requests : p.row = r => p.n # q.n
<1> DEFINE used == {q.n : q \in {p \in requests : p.row = r}}
           n == Min(1..MaxRequest \ used)
           q == [row |-> r, n |-> n, method |-> method, id |-> id, data |-> data,
                 answer |-> "none"]
<1>1. n \in 1..MaxRequest \ used
  BY FreeNumber DEF Send, IType, RequestsOK
<1>2. requests' = requests \cup {q}
  BY DEF Send
<1>3. \A p \in requests : p.row = r => p.n # n
  BY <1>1
<1> HIDE DEF n
<1>4. q \in Request
  BY <1>1 DEF Request
<1> QED BY <1>2, <1>3, <1>4

\* What save sends.
LEMMA Saving ==
    ASSUME IType, NEW r \in Row, NEW new \in RowRecord, new.state = "shown",
           new.id = rows[r].id, new.inputs \in Valid, Act(r, new), save(r, new.inputs)
    PROVE  UserStep(r, new)
<1>1. new.inputs \in Value /\ rows[r].id \in Id \cup {None}
  BY DEF IType, TypeOK, RowRecord
<1>2. CASE rows[r].id = None
  <2>1. Send(r, "POST", None, new.inputs)
    BY <1>2 DEF save
  <2>2. PICK q \in Request :
              /\ requests' = requests \cup {q}
              /\ q.row = r /\ q.method = "POST" /\ q.id = None /\ q.data = new.inputs
              /\ q.answer = "none" /\ \A p \in requests : p.row = r => p.n # q.n
    BY <1>1, <2>1, Sent
  <2> QED BY <1>2, <2>2 DEF UserStep, Asks
<1>3. CASE rows[r].id # None
  <2>1. Send(r, "PUT", rows[r].id, new.inputs)
    BY <1>3 DEF save
  <2>2. PICK q \in Request :
              /\ requests' = requests \cup {q}
              /\ q.row = r /\ q.method = "PUT" /\ q.id = rows[r].id /\ q.data = new.inputs
              /\ q.answer = "none" /\ \A p \in requests : p.row = r => p.n # q.n
    BY <1>1, <2>1, Sent
  <2> QED BY <1>3, <2>2 DEF UserStep, Asks
<1> QED BY <1>2, <1>3

\* Whatever the user does to a row in use is one of the two kinds of steps.
LEMMA SaveStep ==
    ASSUME IType, NEW r \in Row, NEW v \in Value, NEW s \in Status, NEW progress \in Status,
           SaveStorageConfig(r, v, s, progress)
    PROVE  \E new \in RowRecord : UserStep(r, new)
<1>1. rows[r] \in RowRecord
  BY DEF IType, TypeOK
<1>2. CASE v \in Valid
  <2> DEFINE new == [rows[r] EXCEPT !.inputs = v, !.status = progress]
  <2>1. Act(r, new) /\ save(r, v)
    BY <1>2 DEF SaveStorageConfig
  <2>2. new \in RowRecord /\ new.inputs = v /\ new.id = rows[r].id /\ new.state = rows[r].state
    BY <1>1 DEF RowRecord
  <2>3. rows[r].state = "shown"
    BY <2>1 DEF Act
  <2> HIDE DEF new
  <2> QED BY <1>2, <2>1, <2>2, <2>3, Saving
<1>3. CASE v \notin Valid
  <2> DEFINE new == [rows[r] EXCEPT !.inputs = v, !.status = s]
  <2>1. Act(r, new) /\ UNCHANGED requests
    BY <1>3 DEF SaveStorageConfig
  <2>2. new \in RowRecord /\ new.inputs = v /\ new.id = rows[r].id /\ new.state = rows[r].state
    BY <1>1 DEF RowRecord
  <2>3. rows[r].state = "shown"
    BY <2>1 DEF Act
  <2> HIDE DEF new
  <2> QED BY <1>3, <2>1, <2>2, <2>3 DEF UserStep, Idle
<1> QED BY <1>2, <1>3

LEMMA UserActs ==
    ASSUME IType, NEW r \in Row,
           \/ Save(r) \/ RecheckStorageConfig(r) \/ DeleteStorageConfig(r)
           \/ \E v \in Value : Change(r, v) \/ ChangeAndSave(r, v) \/ ChangeApplicable(r, v)
    PROVE  \E new \in RowRecord : UserStep(r, new)
<1>1. rows[r] \in RowRecord /\ rows[r].status \in Status /\ rows[r].inputs \in Value
  BY DEF IType, TypeOK, RowRecord
<1>2. {"none", "progress"} \subseteq Status /\ Blank \in Value
  BY ValueAssumption DEF Status
<1>3. CASE Save(r)
  BY <1>1, <1>2, <1>3, SaveStep DEF Save
<1>4. ASSUME NEW v \in Value, Change(r, v) PROVE \E new \in RowRecord : UserStep(r, new)
  <2> DEFINE new == [rows[r] EXCEPT !.inputs = v, !.status = "none"]
  <2>1. Act(r, new) /\ UNCHANGED requests
    BY <1>4 DEF Change
  <2>2. new \in RowRecord /\ new.status = "none" /\ new.id = rows[r].id /\ new.state = rows[r].state
    BY <1>1, <1>2 DEF RowRecord
  <2>3. rows[r].state = "shown"
    BY <2>1 DEF Act
  <2> HIDE DEF new
  <2> QED BY <2>1, <2>2, <2>3 DEF UserStep, Idle
<1>5. ASSUME NEW v \in Value, ChangeAndSave(r, v) PROVE \E new \in RowRecord : UserStep(r, new)
  BY <1>1, <1>2, <1>5, SaveStep DEF ChangeAndSave
<1>6. ASSUME NEW v \in Value, ChangeApplicable(r, v) PROVE \E new \in RowRecord : UserStep(r, new)
  BY <1>1, <1>2, <1>6, SaveStep DEF ChangeApplicable
<1>7. ASSUME NEW new \in RowRecord, NEW method \in {"GET", "DELETE"}, rows[r].id # None,
             new.state = "shown", new.id = rows[r].id, Act(r, new),
             Send(r, method, rows[r].id, Blank),
             method = "GET" => new.inputs = rows[r].inputs /\ rows[r].status # "none"
      PROVE  UserStep(r, new)
  <2>1. rows[r].id \in Id \cup {None}
    BY <1>1 DEF RowRecord
  <2>2. PICK q \in Request :
              /\ requests' = requests \cup {q}
              /\ q.row = r /\ q.method = method /\ q.id = rows[r].id /\ q.data = Blank
              /\ q.answer = "none" /\ \A p \in requests : p.row = r => p.n # q.n
    BY <1>2, <1>7, <2>1, Sent
  <2> QED BY <1>7, <2>2 DEF UserStep, Asks
<1>8. CASE RecheckStorageConfig(r)
  <2>1. rows[r].status # "none"
    BY <1>8 DEF RecheckStorageConfig
  <2>2. CASE rows[r].id = None
    <3> DEFINE new == [rows[r] EXCEPT !.status = "error"]
    <3>1. Act(r, new) /\ UNCHANGED requests
      BY <1>8, <2>2 DEF RecheckStorageConfig
    <3>2. new \in RowRecord /\ new.status = "error" /\ new.id = None /\ new.state = rows[r].state
      BY <1>1, <2>2 DEF RowRecord, Status
    <3>3. rows[r].state = "shown"
      BY <3>1 DEF Act
    <3> HIDE DEF new
    <3> QED BY <2>2, <3>1, <3>2, <3>3 DEF UserStep, Idle
  <2>3. CASE rows[r].id # None
    <3> DEFINE new == [rows[r] EXCEPT !.status = "progress"]
    <3>1. Act(r, new) /\ Send(r, "GET", rows[r].id, Blank)
      BY <1>8, <2>3 DEF RecheckStorageConfig
    <3>2. /\ new \in RowRecord /\ new.id = rows[r].id /\ new.state = rows[r].state
          /\ new.inputs = rows[r].inputs
      BY <1>1, <1>2 DEF RowRecord
    <3>3. rows[r].state = "shown"
      BY <3>1 DEF Act
    <3> HIDE DEF new
    <3> QED BY <2>1, <2>3, <3>1, <3>2, <3>3, <1>7
  <2> QED BY <2>2, <2>3
<1>9. CASE DeleteStorageConfig(r)
  <2>1. CASE rows[r].id = None
    <3> DEFINE new == [unused EXCEPT !.state = "removed"]
    <3>1. Act(r, new) /\ UNCHANGED requests
      BY <1>9, <2>1 DEF DeleteStorageConfig
    <3>2. new \in RowRecord /\ new.state = "removed"
      BY <1>2 DEF RowRecord, unused
    <3> QED BY <2>1, <3>1, <3>2 DEF UserStep, Idle
  <2>2. CASE rows[r].id # None
    <3> DEFINE new == [rows[r] EXCEPT !.status = "progress"]
    <3>1. Act(r, new) /\ Send(r, "DELETE", rows[r].id, Blank)
      BY <1>9, <2>2 DEF DeleteStorageConfig
    <3>2. /\ new \in RowRecord /\ new.id = rows[r].id /\ new.state = rows[r].state
      BY <1>1, <1>2 DEF RowRecord
    <3>3. rows[r].state = "shown"
      BY <3>1 DEF Act
    <3> HIDE DEF new
    <3> QED BY <2>2, <3>1, <3>2, <3>3, <1>7
  <2> QED BY <2>1, <2>2
<1> QED BY <1>3, <1>4, <1>5, <1>6, <1>8, <1>9

-----------------------------------------------------------------------------
(***************************************************************************)
(* Types.                                                                  *)
(***************************************************************************)
LEMMA Ids == Id \subseteq Nat /\ None \notin Id /\ \A i \in Id : i >= 1 /\ i <= MaxId
BY BoundAssumption DEF Id

LEMMA InitType == Init => IType
<1> SUFFICES ASSUME Init PROVE IType
  OBVIOUS
<1>1. unused \in RowRecord /\ unused = [unused EXCEPT !.state = "unused"]
  BY ValueAssumption DEF unused, RowRecord, Status
<1>2. TypeOK
  <2>1. /\ lastId \in 0..1 /\ rows = [r \in Row |-> unused] /\ requests = {}
        /\ owner = [i \in Id |-> None] /\ raced = {} /\ failed = {}
        /\ storages \in [Id -> Valid \cup {None}]
    BY DEF Init
  <2>2. lastId \in 0..MaxId
    BY <2>1, BoundAssumption
  <2>3. \A r \in Row : rows[r] = [unused EXCEPT !.state = rows[r].state]
    BY <1>1, <2>1 DEF unused
  <2> QED BY <1>1, <2>1, <2>2, <2>3 DEF TypeOK
<1>3. RequestsOK
  BY FS_EmptySet DEF Init, RequestsOK
<1>4. ListingOK
  BY Ids DEF Init, ListingOK
<1> QED BY <1>2, <1>3, <1>4 DEF IType

LEMMA UserType ==
    ASSUME IType, NEW r \in Row, NEW new \in RowRecord, UserStep(r, new)
    PROVE  IType'
<1>1. /\ rows[r].state = "shown" /\ rows' = [rows EXCEPT ![r] = new]
      /\ raced' \in {raced, raced \cup {r}}
      /\ UNCHANGED <<storages, lastId, owner, listing, failed>>
  BY DEF UserStep, Act, server
<1>2. /\ new.state # "unused"
      /\ new.state # "shown" => new = [unused EXCEPT !.state = new.state]
  <2>1. CASE Idle(r, new)
    BY <2>1 DEF Idle, unused
  <2>2. CASE ~Idle(r, new)
    BY <2>2 DEF UserStep, Asks
  <2> QED BY <2>1, <2>2
<1>3. /\ rows' \in [Row -> RowRecord]
      /\ \A s \in Row : rows'[s].state # "shown" =>
            rows'[s] = [unused EXCEPT !.state = rows'[s].state]
      /\ \A s \in Row : rows[s].state # "unused" => rows'[s].state # "unused"
  BY <1>1, <1>2 DEF IType, TypeOK
<1>4. /\ requests' \subseteq Request /\ IsFiniteSet(requests')
      /\ \A p, q \in requests' : p.row = q.row /\ p.n = q.n => p = q
      /\ RequestsOK'
  <2>1. CASE UNCHANGED requests
    <3>1. \A q \in requests : rows'[q.row].state # "unused"
      BY <1>3 DEF IType, TypeOK, RequestsOK, Request
    <3> QED BY <2>1, <3>1 DEF IType, TypeOK, RequestsOK
  <2>2. ASSUME NEW q \in Request, Asks(r, new, q), requests' = requests \cup {q}
        PROVE  <1>4!1 /\ <1>4!2 /\ <1>4!3
    <3>1. IsFiniteSet(requests')
      BY <2>2, FS_AddElement DEF IType, RequestsOK
    <3>2. \A p \in requests : rows'[p.row].state # "unused"
      BY <1>3 DEF IType, TypeOK, RequestsOK, Request
    <3>3. q.id \in Id \cup {None} /\ rows'[q.row].state # "unused"
      BY <1>1, <1>2, <2>2 DEF Asks, Request, IType, TypeOK
    <3>4. RequestsOK'
      BY <2>2, <3>1, <3>2, <3>3 DEF RequestsOK, IType, Asks
    <3> QED BY <2>2, <3>1, <3>4 DEF IType, TypeOK, Asks
  <2> QED BY <2>1, <2>2 DEF UserStep
<1>5. ListingOK'
  BY <1>1 DEF IType, ListingOK
<1> QED BY <1>1, <1>3, <1>4, <1>5 DEF IType, TypeOK

\* A request keeps its row and number when it is answered.
LEMMA AnsweredType ==
    ASSUME IType, NEW q \in requests, NEW a \in {"ok", "failed"}, NEW id \in Id \cup {None},
           a = "ok" => id \in Id, Answered(q, a, id), UNCHANGED rows
    PROVE  /\ \E q2 \in Request :
                 /\ requests' = (requests \ {q}) \cup {q2}
                 /\ q2.row = q.row /\ q2.n = q.n /\ q2.method = q.method
                 /\ q2.answer = a /\ q2.id = id
           /\ requests' \subseteq Request
           /\ \A p, s \in requests' : p.row = s.row /\ p.n = s.n => p = s
           /\ RequestsOK'
<1> DEFINE q2 == [q EXCEPT !.answer = a, !.id = id, !.data = Blank]
<1>1. q \in Request
  BY DEF IType, TypeOK
<1>2. /\ q2 \in Request /\ q2.row = q.row /\ q2.n = q.n /\ q2.method = q.method
      /\ q2.answer = a /\ q2.id = id
  BY <1>1, ValueAssumption DEF Request
<1>3. requests' = (requests \ {q}) \cup {q2}
  BY DEF Answered
<1> HIDE DEF q2
<1>4. IsFiniteSet(requests')
  BY <1>3, FS_RemoveElement, FS_AddElement DEF IType, RequestsOK
<1>5. RequestsOK'
  BY <1>2, <1>3, <1>4 DEF RequestsOK, IType
<1> QED BY <1>2, <1>3, <1>5 DEF IType, TypeOK

LEMMA ServeType ==
    ASSUME IType, Apart, NEW q \in requests, Serve(q)
    PROVE  IType'
<1>1. q.answer = "none" /\ UNCHANGED <<listing, rows, raced, failed>> /\ q \in Request
  BY DEF Serve, IType, TypeOK
<1>2. CASE Create(q)
  <2>1. /\ q.method = "POST" /\ lastId < MaxId /\ lastId' = lastId + 1
        /\ storages' = [storages EXCEPT ![lastId + 1] = q.data]
        /\ owner' = [owner EXCEPT ![lastId + 1] = q.row]
        /\ Answered(q, "ok", lastId + 1)
    BY <1>2 DEF Create
  <2>2. lastId + 1 \in Id /\ lastId \in Nat /\ lastId' \in 0..MaxId
    BY <2>1, BoundAssumption DEF IType, TypeOK, Id
  <2>3. q.data \in Valid
    BY <1>1, <2>1 DEF IType, RequestsOK
  <2>4. ListingOK'
    <3>1. \A i \in Id : i > lastId' => storages'[i] = storages[i] /\ owner'[i] = owner[i] /\ i > lastId
      BY <2>1, <2>2, Ids DEF IType, TypeOK
    <3>2. \A i \in Id : owner'[i] = None => owner[i] = None /\ storages'[i] = storages[i]
      BY <1>1, <2>1, <2>2, RowAssumption, BoundAssumption DEF IType, TypeOK, Request
    <3> QED BY <1>1, <3>1, <3>2 DEF IType, ListingOK
  <2> QED BY <1>1, <2>1, <2>2, <2>3, <2>4, AnsweredType DEF IType, TypeOK, Request
<1>3. ASSUME q.id \in There, Answered(q, "ok", q.id), UNCHANGED <<lastId, owner>>,
             NEW v \in Valid \cup {None}, storages' = [storages EXCEPT ![q.id] = v]
      PROVE  IType'
  <2>1. q.id \in Id /\ q.row \in Row /\ Knows(q.row, q.id)
    BY <1>1, <1>3 DEF There, Request, Knows
  <2>2. storages' \in [Id -> Valid \cup {None}]
    BY <1>3 DEF IType, TypeOK
  <2>3. q.id <= lastId /\ (listing.state # "done" => owner[q.id] # None)
    BY <2>1, RowAssumption, BoundAssumption DEF Apart
  <2>4. ListingOK'
    <3>1. \A i \in Id : i # q.id => storages'[i] = storages[i]
      BY <1>3 DEF IType, TypeOK
    <3>2. \A i \in Id : i > lastId => i # q.id
      BY <2>1, <2>3, Ids DEF IType, TypeOK
    <3> QED BY <1>1, <1>3, <2>3, <3>1, <3>2 DEF IType, ListingOK
  <2> QED BY <1>1, <1>3, <2>1, <2>2, <2>4, AnsweredType DEF IType, TypeOK
<1>4. CASE Update(q)
  <2>1. q.data \in Valid
    BY <1>1, <1>4 DEF Update, IType, RequestsOK
  <2> QED BY <1>3, <1>4, <2>1 DEF Update
<1>5. CASE Destroy(q)
  BY <1>3, <1>5 DEF Destroy
<1>6. CASE Show(q)
  <2>1. q.id \in There /\ Answered(q, "ok", q.id) /\ UNCHANGED <<storages, lastId, owner>>
    BY <1>6 DEF Show, server
  <2>2. storages[q.id] \in Valid \cup {None} /\ storages' = [storages EXCEPT ![q.id] = storages[q.id]]
    BY <2>1 DEF IType, TypeOK, There
  <2> QED BY <1>3, <2>1, <2>2
<1> QED BY <1>2, <1>4, <1>5, <1>6 DEF Serve

LEMMA LostType ==
    ASSUME IType, NEW q \in requests, Refuse(q) \/ Lose(q)
    PROVE  IType'
<1>1. /\ Answered(q, "failed", None) /\ raced' \in {raced, raced \cup {q.row}}
      /\ UNCHANGED <<storages, lastId, owner, listing, rows, failed>>
  BY DEF Refuse, Lose, server
<1>2. q.row \in Row
  BY DEF IType, TypeOK, Request
<1>3. ListingOK'
  BY <1>1 DEF IType, ListingOK
<1> QED BY <1>1, <1>2, <1>3, AnsweredType DEF IType, TypeOK

LEMMA DeliverType ==
    ASSUME IType, NEW q \in requests, Deliver(q)
    PROVE  IType'
<1>1. q \in Request /\ q.row \in Row /\ rows[q.row] \in RowRecord /\ rows[q.row].state # "unused"
  BY DEF IType, TypeOK, Request, RequestsOK
<1>2. /\ q.answer # "none" /\ requests' = requests \ {q}
      /\ rows' = IF rows[q.row].state = "removed" THEN rows
                 ELSE [rows EXCEPT ![q.row] = Callback(q)]
      /\ failed' \in {failed, failed \cup {q.row}, failed \ {q.row}}
      /\ UNCHANGED <<storages, lastId, owner, listing, raced>>
  BY DEF Deliver, server
<1>3. ASSUME rows[q.row].state # "removed"
      PROVE  /\ Callback(q) \in RowRecord /\ Callback(q).state # "unused"
             /\ Callback(q).state # "shown" =>
                   Callback(q) = [unused EXCEPT !.state = Callback(q).state]
  <2>1. unused \in RowRecord
    BY ValueAssumption DEF unused, RowRecord, Status
  <2> DEFINE row == rows[q.row]
  <2>2. CASE q.answer = "ok" /\ q.method = "DELETE"
    <3>1. Callback(q) = [unused EXCEPT !.state = "removed"]
      BY <2>2 DEF Callback
    <3> QED BY <2>1, <3>1 DEF RowRecord, unused
  <2>3. CASE ~(q.answer = "ok" /\ q.method = "DELETE")
    <3>1. PICK s \in Status, i \in Id \cup {None} :
             Callback(q) = [row EXCEPT !.status = s, !.id = i]
      <4>1. CASE q.answer # "ok"
        <5>1. Callback(q) = [row EXCEPT !.status = "error"]
          BY <4>1 DEF Callback
        <5>2. Callback(q) = [row EXCEPT !.status = "error", !.id = row.id]
          BY <1>1, <5>1 DEF RowRecord
        <5> QED BY <1>1, <5>2 DEF RowRecord, Status
      <4>2. CASE q.answer = "ok" /\ q.method = "GET"
        <5>1. Callback(q) = [row EXCEPT !.status = "result"]
          BY <4>2 DEF Callback
        <5>2. Callback(q) = [row EXCEPT !.status = "result", !.id = row.id]
          BY <1>1, <5>1 DEF RowRecord
        <5> QED BY <1>1, <5>2 DEF RowRecord, Status
      <4>3. CASE q.answer = "ok" /\ q.method # "GET"
        <5>1. Callback(q) = [row EXCEPT !.status = "result", !.id = q.id]
          BY <2>3, <4>3 DEF Callback
        <5> QED BY <1>1, <5>1 DEF Request, Status
      <4> QED BY <4>1, <4>2, <4>3
    <3>2. Callback(q) \in RowRecord /\ Callback(q).state = row.state
      BY <1>1, <3>1 DEF RowRecord
    <3>3. row.state = "shown"
      BY <1>1, <1>3 DEF RowRecord
    <3> QED BY <3>2, <3>3
  <2> QED BY <2>2, <2>3
<1>4. /\ rows' \in [Row -> RowRecord]
      /\ \A s \in Row : rows'[s].state # "shown" =>
            rows'[s] = [unused EXCEPT !.state = rows'[s].state]
      /\ \A s \in Row : rows[s].state # "unused" => rows'[s].state # "unused"
  BY <1>1, <1>2, <1>3 DEF IType, TypeOK
<1>5. IsFiniteSet(requests') /\ \A p \in requests' : p.row \in Row
  BY <1>2, FS_RemoveElement DEF IType, RequestsOK, TypeOK, Request
<1>6. RequestsOK'
  BY <1>2, <1>4, <1>5 DEF IType, RequestsOK
<1>7. ListingOK'
  BY <1>2 DEF IType, ListingOK
<1> QED BY <1>1, <1>2, <1>4, <1>6, <1>7 DEF IType, TypeOK

LEMMA NewType ==
    ASSUME IType, NEW r \in Row, NewStorage(r)
    PROVE  IType'
<1> DEFINE new == [unused EXCEPT !.state = "shown"]
<1>1. /\ rows[r].state = "unused" /\ rows' = [rows EXCEPT ![r] = new]
      /\ UNCHANGED <<storages, lastId, owner, listing, requests, raced, failed>>
  BY DEF NewStorage, server
<1>2. new \in RowRecord /\ new.state = "shown"
  BY ValueAssumption DEF unused, RowRecord, Status
<1> HIDE DEF new
<1>3. TypeOK'
  BY <1>1, <1>2 DEF IType, TypeOK
<1>4. RequestsOK'
  BY <1>1, <1>2 DEF IType, RequestsOK, TypeOK, Request
<1>5. ListingOK'
  BY <1>1 DEF IType, ListingOK
<1> QED BY <1>3, <1>4, <1>5 DEF IType

LEMMA ServeListingType ==
    ASSUME IType, ServeListing
    PROVE  IType'
<1>1. /\ listing' = [state |-> "answered", content |-> storages]
      /\ UNCHANGED <<storages, lastId, owner, rows, requests, raced, failed>>
  BY DEF ServeListing, server
<1>2. TypeOK'
  BY <1>1 DEF IType, TypeOK
<1>3. RequestsOK'
  BY <1>1 DEF IType, RequestsOK
<1>4. ListingOK'
  BY <1>1 DEF IType, ListingOK, TypeOK
<1> QED BY <1>2, <1>3, <1>4 DEF IType

-----------------------------------------------------------------------------
(***************************************************************************)
(* The list of storages arrives.                                           *)
(***************************************************************************)
Loaded(rowOf) == {rowOf[i] : i \in DOMAIN rowOf}

\* Each storage that is listed has a row, and a row that got one is checked or
\* shows the result; the other rows stay.
LoadedRows(ids, rowOf) ==
    /\ listing.state = "answered" /\ listing'.state = "done"
    /\ listing'.content = [i \in Id |-> None]
    /\ ids = {i \in Id : listing.content[i] # None}
    /\ \A i, j \in ids : rowOf[i] = rowOf[j] => i = j
    /\ \A i \in ids : rows[rowOf[i]].state = "unused"
    /\ \A r \in Row \ Loaded(rowOf) : rows'[r] = rows[r]
    /\ \A i \in ids :
          /\ rows'[rowOf[i]] \in RowRecord
          /\ rows'[rowOf[i]].state = "shown" /\ rows'[rowOf[i]].id = i
          /\ rows'[rowOf[i]].inputs = listing.content[i]
    /\ rows' \in [Row -> RowRecord]
    /\ \A i \in ids : owner[i] # None => {rowOf[i], owner[i]} \subseteq raced'
    /\ raced' \subseteq Row /\ raced \subseteq raced'
    /\ UNCHANGED <<storages, lastId, owner, failed>>

LEMMA LoadRows ==
    ASSUME IType, NEW ids \in SUBSET Id, NEW rowOf \in [ids -> Row], LoadStorages(rowOf)
    PROVE  LoadedRows(ids, rowOf)
<1> DEFINE few == Cardinality(ids) < AutoCheck
           idOf(r) == CHOOSE i \in ids : rowOf[i] = r
           content == listing.content
<1>1. DOMAIN rowOf = ids
  OBVIOUS
<1>2. /\ listing.state = "answered" /\ ids = {i \in Id : content[i] # None}
      /\ \A i \in ids : rows[rowOf[i]].state = "unused"
      /\ \A i, j \in ids : i < j => rowOf[i] < rowOf[j]
      /\ rows' = [r \in Row |->
            IF \A i \in ids : rowOf[i] # r THEN rows[r]
            ELSE [state |-> "shown", id |-> idOf(r), inputs |-> content[idOf(r)],
                  status |-> IF few THEN "progress" ELSE "result"]]
      /\ raced' = raced \cup UNION {{rowOf[i], owner[i]} \ {None} :
                                       i \in {j \in ids : owner[j] # None}}
      /\ listing' = [state |-> "done", content |-> [i \in Id |-> None]]
      /\ UNCHANGED <<storages, lastId, owner, failed>>
  BY <1>1 DEF LoadStorages, server
<1>3. ASSUME NEW i \in ids, NEW j \in ids, rowOf[i] = rowOf[j] PROVE i = j
  <2>1. i \in Nat /\ j \in Nat /\ rowOf[i] \in Nat /\ rowOf[j] \in Nat
    BY Ids, RowAssumption
  <2>2. ~(i < j) /\ ~(j < i)
    BY <1>2, <1>3, <2>1
  <2> QED BY <2>1, <2>2
<1>4. ASSUME NEW i \in ids PROVE idOf(rowOf[i]) = i
  BY <1>3
<1>5. ASSUME NEW i \in ids
      PROVE  /\ rows'[rowOf[i]] \in RowRecord
             /\ rows'[rowOf[i]].state = "shown" /\ rows'[rowOf[i]].id = i
             /\ rows'[rowOf[i]].inputs = content[i]
  <2>1. content[i] \in Valid
    BY <1>2 DEF IType, ListingOK
  <2>2. rows'[rowOf[i]] = [state |-> "shown", id |-> i, inputs |-> content[i],
                           status |-> IF few THEN "progress" ELSE "result"]
    BY <1>2, <1>4
  <2> QED BY <2>1, <2>2, ValueAssumption DEF RowRecord, Status
<1>6. \A r \in Row \ Loaded(rowOf) : rows'[r] = rows[r]
  BY <1>1, <1>2 DEF Loaded
<1>7. ASSUME NEW r \in Row PROVE rows'[r] \in RowRecord
  BY <1>1, <1>5, <1>6 DEF Loaded, IType, TypeOK
<1>8. rows' \in [Row -> RowRecord]
  BY <1>2, <1>7
<1>9. ASSUME NEW i \in ids, owner[i] # None PROVE {rowOf[i], owner[i]} \subseteq raced'
  <2>1. {rowOf[i], owner[i]} \ {None} \subseteq raced'
    BY <1>2, <1>9
  <2>2. rowOf[i] # None
    BY RowAssumption, BoundAssumption
  <2> QED BY <1>9, <2>1, <2>2
<1>10. raced' \subseteq Row /\ raced \subseteq raced'
  BY <1>2 DEF IType, TypeOK
<1> HIDE DEF idOf, few
<1> QED BY <1>2, <1>3, <1>5, <1>6, <1>8, <1>9, <1>10 DEF LoadedRows

\* The rows that got a storage ask for it, and no row asks for anything else.
LoadedRequests(ids, rowOf) ==
    /\ requests \subseteq requests' /\ IsFiniteSet(requests')
    /\ \A q \in requests' \ requests : \E i \in ids :
          /\ q.row = rowOf[i] /\ q.n = 1 /\ q.method = "GET" /\ q.id = i
          /\ q.answer = "none" /\ q \in Request
    /\ \A i \in ids : \E q \in requests' : q.row = rowOf[i]
    /\ \A p, q \in requests' \ requests : p.row = q.row => p = q

LEMMA LoadRequests ==
    ASSUME IType, NEW ids \in SUBSET Id, NEW rowOf \in [ids -> Row], LoadStorages(rowOf)
    PROVE  LoadedRequests(ids, rowOf) \/ requests' = requests
<1> DEFINE few == Cardinality(ids) < AutoCheck
           Check(i) == [row |-> rowOf[i], n |-> 1, method |-> "GET", id |-> i, data |-> Blank,
                        answer |-> "none"]
           new == {Check(i) : i \in ids}
<1>1. DOMAIN rowOf = ids
  OBVIOUS
<1>2. \A i, j \in ids : rowOf[i] = rowOf[j] => i = j
  <2>1. LoadedRows(ids, rowOf)
    BY LoadRows
  <2> QED BY <2>1 DEF LoadedRows
<1>3. CASE ~few
  BY <1>1, <1>3 DEF LoadStorages
<1>4. CASE few
  <2>1. requests' = requests \cup new
    BY <1>1, <1>4 DEF LoadStorages
  <2>2. IsFiniteSet(ids)
    <3>1. IsFiniteSet(Id)
      BY FS_Interval, BoundAssumption DEF Id
    <3> QED BY <3>1, FS_Subset
  <2>3. IsFiniteSet(new)
    <3>1. [i \in ids |-> Check(i)] \in Surjection(ids, new)
      BY DEF Surjection
    <3> HIDE DEF new
    <3> QED BY <2>2, <3>1, FS_Surjection
  <2>4. IsFiniteSet(requests')
    BY <2>1, <2>3, FS_Union DEF IType, RequestsOK
  <2>5. ASSUME NEW i \in ids PROVE Check(i) \in Request
    BY ValueAssumption, BoundAssumption DEF Request
  <2>6. \A p, q \in new : p.row = q.row => p = q
    BY <1>2
  <2>7. \A q \in new : \E i \in ids :
          /\ q.row = rowOf[i] /\ q.n = 1 /\ q.method = "GET" /\ q.id = i
          /\ q.answer = "none" /\ q \in Request
    BY <2>5
  <2>8. \A i \in ids : Check(i) \in new /\ Check(i).row = rowOf[i]
    OBVIOUS
  <2> HIDE DEF new
  <2>9. \A i \in ids : \E q \in requests' : q.row = rowOf[i]
    BY <2>1, <2>8
  <2> QED BY <2>1, <2>4, <2>6, <2>7, <2>9 DEF LoadedRequests
<1> QED BY <1>3, <1>4

LEMMA LoadType ==
    ASSUME IType, NEW ids \in SUBSET Id, NEW rowOf \in [ids -> Row], LoadStorages(rowOf)
    PROVE  IType'
<1> USE DEF LoadedRows
<1>0. LoadedRows(ids, rowOf)
  BY LoadRows
<1>1. \A r \in Row : rows'[r] = rows[r] \/ rows'[r].state = "shown"
  BY <1>0 DEF Loaded
<1>2. \A r \in Row : rows[r].state # "unused" => rows'[r].state # "unused"
  BY <1>1
<1>3. \A q \in requests : q.row \in Row /\ rows[q.row].state # "unused"
  BY DEF IType, TypeOK, Request, RequestsOK
<1>4. /\ requests' \subseteq Request /\ IsFiniteSet(requests')
      /\ \A p, q \in requests' : p.row = q.row /\ p.n = q.n => p = q
      /\ RequestsOK'
  <2>1. CASE requests' = requests
    BY <1>2, <1>3, <2>1 DEF IType, TypeOK, RequestsOK
  <2>2. CASE requests' # requests
    <3>0. LoadedRequests(ids, rowOf)
      BY <2>2, LoadRequests
    <3>1. /\ requests \subseteq requests' /\ IsFiniteSet(requests')
          /\ \A q \in requests' \ requests : \E i \in ids :
                    /\ q.row = rowOf[i] /\ q.n = 1 /\ q.method = "GET" /\ q.id = i
                    /\ q.answer = "none" /\ q \in Request
          /\ \A p, q \in requests' \ requests : p.row = q.row => p = q
      BY <3>0 DEF LoadedRequests
    <3>2. \A i \in ids : rows[rowOf[i]].state = "unused" /\ rows'[rowOf[i]].state = "shown"
      BY <1>0
    <3>3. \A p \in requests, q \in requests' \ requests : p.row # q.row
      BY <1>3, <3>1, <3>2
    <3>4. RequestsOK'
      BY <1>2, <1>3, <3>1, <3>2 DEF IType, RequestsOK
    <3> QED BY <3>1, <3>3, <3>4 DEF IType, TypeOK
  <2> QED BY <2>1, <2>2
<1>5. ListingOK'
  <2>1. /\ listing'.state = "done" /\ listing'.content = [i \in Id |-> None]
        /\ UNCHANGED <<storages, lastId, owner>>
    BY <1>0
  <2>2. listing' = [state |-> "done", content |-> [i \in Id |-> None]]
    BY DEF LoadStorages
  <2> QED BY <2>1, <2>2 DEF IType, ListingOK
<1>6. /\ rows' \in [Row -> RowRecord] /\ raced' \subseteq Row
      /\ UNCHANGED <<storages, lastId, owner, failed>>
  BY <1>0
<1>7. \A r \in Row : rows'[r].state # "shown" => rows'[r] = [unused EXCEPT !.state = rows'[r].state]
  BY <1>1 DEF IType, TypeOK
<1> QED BY <1>4, <1>5, <1>6, <1>7 DEF IType, TypeOK

-----------------------------------------------------------------------------
(***************************************************************************)
(* Who knows which storage.                                                *)
(***************************************************************************)
\* A step by which no row learns of a storage.
LEMMA ApartKept ==
    ASSUME Apart, UNCHANGED <<lastId, owner>>, raced \subseteq raced',
           listing'.state # "done" => listing.state # "done",
           \A r \in Row, i \in Id : Knows(r, i)' => Knows(r, i)
    PROVE  Apart'
BY DEF Apart

LEMMA UserApart ==
    ASSUME IType, Apart, NEW r \in Row, NEW new \in RowRecord, UserStep(r, new)
    PROVE  Apart'
<1>1. /\ rows' = [rows EXCEPT ![r] = new] /\ raced' \in {raced, raced \cup {r}}
      /\ UNCHANGED <<lastId, owner, listing>>
  BY DEF UserStep, Act, server
<1>2. new.id \in {rows[r].id, None}
  BY DEF UserStep, Idle, Asks, unused
<1>3. \A q \in requests' : q \in requests \/ (q.row = r /\ q.id = rows[r].id)
  BY DEF UserStep, Asks
<1>4. ASSUME NEW s \in Row, NEW i \in Id, Knows(s, i)' PROVE Knows(s, i)
  BY <1>1, <1>2, <1>3, <1>4, Ids DEF Knows, IType, TypeOK
<1> QED BY <1>1, <1>4, ApartKept

LEMMA NewApart ==
    ASSUME IType, Apart, NEW r \in Row, NewStorage(r)
    PROVE  Apart'
<1>1. /\ rows' = [rows EXCEPT ![r] = [unused EXCEPT !.state = "shown"]]
      /\ UNCHANGED <<lastId, owner, listing, requests, raced>>
  BY DEF NewStorage, server
<1>2. [unused EXCEPT !.state = "shown"].id = None
  BY DEF unused
<1>3. ASSUME NEW s \in Row, NEW i \in Id, Knows(s, i)' PROVE Knows(s, i)
  BY <1>1, <1>2, <1>3, Ids DEF Knows, IType, TypeOK
<1> QED BY <1>1, <1>3, ApartKept

\* The server gives a new storage an id nobody has.
LEMMA ServeApart ==
    ASSUME IType, Apart, NEW q \in requests, Serve(q)
    PROVE  Apart'
<1>1. /\ q.answer = "none" /\ UNCHANGED <<listing, rows, raced>> /\ q \in Request
      /\ q.row \in Row
  BY DEF Serve, IType, TypeOK, Request
<1>2. CASE Create(q)
  <2>1. /\ lastId' = lastId + 1 /\ owner' = [owner EXCEPT ![lastId + 1] = q.row]
        /\ Answered(q, "ok", lastId + 1) /\ lastId < MaxId
    BY <1>2 DEF Create
  <2>2. lastId + 1 \in Id /\ lastId \in Nat
    BY <2>1, BoundAssumption DEF IType, TypeOK, Id
  <2>3. \A p \in requests' : p \in requests \/ (p.row = q.row /\ p.id = lastId + 1)
    BY <1>1, <2>1, <2>2, AnsweredType
  <2>4. ASSUME NEW s \in Row, NEW i \in Id, Knows(s, i)'
        PROVE  Knows(s, i) \/ (s = q.row /\ i = lastId + 1)
    BY <1>1, <2>1, <2>2, <2>3, <2>4 DEF Knows, IType, TypeOK
  <2>5. \A s \in Row, i \in Id : Knows(s, i) => i <= lastId
    BY DEF Apart
  <2>6. \A s \in Row, i \in Id : Knows(s, i)' => i <= lastId'
    BY <2>1, <2>2, <2>4, <2>5, Ids
  <2>7. ASSUME listing.state # "done", NEW s \in Row, NEW i \in Id, Knows(s, i)'
        PROVE  owner'[i] = s
    BY <2>1, <2>2, <2>4, <2>5, <2>7, Ids DEF Apart, IType, TypeOK
  <2>8. ASSUME NEW s \in Row \ raced, NEW t \in Row, NEW i \in Id, Knows(s, i)', Knows(t, i)'
        PROVE  s = t
    <3>1. CASE i = lastId + 1
      BY <2>2, <2>4, <2>5, <2>8, <3>1
    <3>2. CASE i # lastId + 1
      BY <2>4, <2>8, <3>2 DEF Apart
    <3> QED BY <3>1, <3>2
  <2> QED BY <1>1, <2>6, <2>7, <2>8 DEF Apart
<1>3. CASE Update(q) \/ Destroy(q) \/ Show(q)
  <2>1. q.id \in There /\ Answered(q, "ok", q.id) /\ UNCHANGED <<lastId, owner>>
    BY <1>3 DEF Update, Destroy, Show, server
  <2>2. \A p \in requests' : p \in requests \/ (p.row = q.row /\ p.id = q.id)
    BY <1>1, <2>1, AnsweredType DEF There
  <2>3. ASSUME NEW s \in Row, NEW i \in Id, Knows(s, i)' PROVE Knows(s, i)
    BY <1>1, <2>1, <2>2, <2>3 DEF Knows
  <2> QED BY <1>1, <2>1, <2>3, ApartKept
<1> QED BY <1>2, <1>3 DEF Serve

LEMMA LostApart ==
    ASSUME IType, Apart, NEW q \in requests, Refuse(q) \/ Lose(q)
    PROVE  Apart'
<1>1. /\ Answered(q, "failed", None) /\ raced' \in {raced, raced \cup {q.row}}
      /\ UNCHANGED <<lastId, owner, listing, rows>>
  BY DEF Refuse, Lose, server
<1>2. \A p \in requests' : p \in requests \/ p.id = None
  BY <1>1, AnsweredType
<1>3. ASSUME NEW s \in Row, NEW i \in Id, Knows(s, i)' PROVE Knows(s, i)
  BY <1>1, <1>2, <1>3, Ids DEF Knows
<1> QED BY <1>1, <1>3, ApartKept

LEMMA DeliverApart ==
    ASSUME IType, Apart, NEW q \in requests, Deliver(q)
    PROVE  Apart'
<1>1. /\ requests' = requests \ {q} /\ UNCHANGED <<lastId, owner, listing, raced>>
      /\ rows' = IF rows[q.row].state = "removed" THEN rows
                 ELSE [rows EXCEPT ![q.row] = Callback(q)]
  BY DEF Deliver, server
<1>2. q.row \in Row /\ rows[q.row] \in RowRecord
  BY DEF IType, TypeOK, Request
<1>3. Callback(q).id \in {rows[q.row].id, q.id, None}
  <2>1. CASE q.answer # "ok"
    BY <1>2, <2>1 DEF Callback, RowRecord
  <2>2. CASE q.answer = "ok" /\ q.method = "DELETE"
    BY <2>2 DEF Callback, unused
  <2>3. CASE q.answer = "ok" /\ q.method = "GET"
    BY <1>2, <2>3 DEF Callback, RowRecord
  <2>4. CASE q.answer = "ok" /\ q.method \notin {"DELETE", "GET"}
    BY <1>2, <2>4 DEF Callback, RowRecord
  <2> QED BY <2>1, <2>2, <2>3, <2>4
<1>4. \A s \in Row : rows'[s].id = rows[s].id \/ (s = q.row /\ rows'[s].id \in {q.id, None})
  BY <1>1, <1>2, <1>3 DEF IType, TypeOK
<1>5. ASSUME NEW s \in Row, NEW i \in Id, Knows(s, i)' PROVE Knows(s, i)
  BY <1>1, <1>4, <1>5, Ids DEF Knows
<1> QED BY <1>1, <1>5, ApartKept

\* A row that is filled from the list learns of its storage; so far only the row
\* that created it could know it, and then both of them race.
LEMMA LoadApart ==
    ASSUME IType, Apart, NEW ids \in SUBSET Id, NEW rowOf \in [ids -> Row], LoadStorages(rowOf)
    PROVE  Apart'
<1>1. LoadedRows(ids, rowOf)
  BY LoadRows
<1>2. \A q \in requests' : q \in requests \/ \E i \in ids : q.row = rowOf[i] /\ q.id = i
  BY LoadRequests DEF LoadedRequests
<1>3. ASSUME NEW s \in Row, NEW i \in Id, Knows(s, i)'
      PROVE  Knows(s, i) \/ (i \in ids /\ s = rowOf[i])
  <2>1. CASE owner'[i] = s
    BY <1>1, <2>1 DEF LoadedRows, Knows
  <2>2. CASE rows'[s].id = i
    <3>1. CASE s \in Loaded(rowOf)
      BY <1>1, <2>2, <3>1 DEF LoadedRows, Loaded
    <3>2. CASE s \notin Loaded(rowOf)
      BY <1>1, <2>2, <3>2 DEF LoadedRows, Knows
    <3> QED BY <3>1, <3>2
  <2>3. CASE \E q \in requests' : q.row = s /\ q.id = i
    BY <1>2, <2>3 DEF Knows
  <2> QED BY <1>3, <2>1, <2>2, <2>3 DEF Knows
<1>4. \A i \in ids : i <= lastId
  BY <1>1, Ids DEF LoadedRows, IType, ListingOK, TypeOK
<1>5. /\ \A s \in Row, i \in Id : Knows(s, i) => owner[i] = s
      /\ \A s \in Row, i \in Id : Knows(s, i) => i <= lastId
  BY <1>1 DEF LoadedRows, Apart
<1>6. \A s \in Row : s # None
  BY RowAssumption, BoundAssumption
<1>7. ASSUME NEW s \in Row \ raced', NEW t \in Row, NEW i \in Id, Knows(s, i)', Knows(t, i)'
      PROVE  s = t
  <2>1. Knows(s, i) \/ (i \in ids /\ s = rowOf[i])
    BY <1>3, <1>7
  <2>2. Knows(t, i) \/ (i \in ids /\ t = rowOf[i])
    BY <1>3, <1>7
  <2>3. i \in ids /\ owner[i] # None => {rowOf[i], owner[i]} \subseteq raced'
    BY <1>1 DEF LoadedRows
  <2> QED BY <1>5, <1>6, <1>7, <2>1, <2>2, <2>3
<1>8. listing'.state = "done" /\ lastId' = lastId
  BY <1>1 DEF LoadedRows
<1> QED BY <1>3, <1>4, <1>5, <1>7, <1>8 DEF Apart

LEMMA InitApart == Init => Apart
<1> SUFFICES ASSUME Init PROVE Apart
  OBVIOUS
<1>1. \A r \in Row, i \in Id : ~Knows(r, i)
  BY Ids, RowAssumption, BoundAssumption DEF Init, Knows, unused
<1> QED BY <1>1 DEF Apart

-----------------------------------------------------------------------------
(***************************************************************************)
(* The rows that did not race.                                             *)
(***************************************************************************)
\* A step of another row, which does not know the storage of row s.
LEMMA OtherRow ==
    ASSUME IType, NEW s \in Row, RowOK(s), rows'[s] = rows[s], s \in failed' <=> s \in failed,
           \A q \in requests \cup requests' : q.row = s => (q \in requests' <=> q \in requests),
           \A i \in Id : owner'[i] = s <=> owner[i] = s,
           \A i \in Id : Knows(s, i) => storages'[i] = storages[i]
    PROVE  RowOK(s)'
<1>1. \A i \in Id : owner[i] = s \/ rows[s].id = i => storages'[i] = storages[i]
  BY DEF Knows
<1>2. \A q \in requests : q.row = s /\ q.id \in Id => storages'[q.id] = storages[q.id]
  BY DEF Knows
<1>3. \A j \in Id : j \in There' /\ owner'[j] = s <=> j \in There /\ owner[j] = s
  BY <1>1 DEF There
<1>4. There \subseteq Id /\ There' \subseteq Id
  BY DEF There
<1>5. \A i : OnlyStorage(s, i)' <=> OnlyStorage(s, i)
  BY <1>3, <1>4 DEF OnlyStorage
<1>6. Saved(s, rows[s].id) => Saved(s, rows[s].id)'
  BY <1>1 DEF Saved, There
<1>7. \A q \in requests : q.row = s /\ Saved(s, q.id) => Saved(s, q.id)'
  BY <1>2 DEF Saved, There
<1>8. ASSUME NEW q \in requests', q.row = s PROVE Waits(s, q)'
  <2>1. q \in requests /\ Waits(s, q)
    BY <1>8 DEF RowOK
  <2>2. After(q)' = After(q)
    BY <1>8 DEF After
  <2>3. OnlyStorage(s, After(q))'
    BY <1>5, <2>1, <2>2 DEF Waits
  <2>4. q.method \in {"POST", "PUT"} =>
          /\ q.answer = "none" => q.data = rows'[s].inputs
          /\ q.answer = "ok" => Saved(s, q.id)'
    BY <1>7, <1>8, <2>1 DEF Waits
  <2>5. /\ rows'[s].state = "shown"
        /\ q.answer = "none" \/ (q.answer = "ok" /\ q.method = "GET") => q.id = rows'[s].id
        /\ q.method = "GET" /\ q.answer # "failed" /\ s \notin failed'
              /\ rows'[s].inputs \in Valid => Saved(s, rows[s].id)'
    BY <1>6, <2>1 DEF Waits
  <2> QED BY <2>3, <2>4, <2>5 DEF Waits
<1>9. ASSUME ~OnItsWay(s)' PROVE Rests(s)'
  <2>1. Rests(s)
    BY <1>9 DEF RowOK, OnItsWay
  <2> QED BY <1>3, <1>4, <1>6, <2>1 DEF Rests
<1>10. \A p, q \in requests' : p.row = s /\ q.row = s => p = q
  BY DEF RowOK
<1> QED BY <1>8, <1>9, <1>10 DEF RowOK

\* The only request of row r is answered.
LEMMA AnsweredRow ==
    ASSUME NEW r \in Row, RowOK(r), NEW q \in requests, NEW q2, q.row = r, q2.row = r,
           requests' = (requests \ {q}) \cup {q2}, Waits(r, q2)'
    PROVE  RowOK(r)'
<1>1. \A p \in requests' : p.row = r => p = q2
  BY DEF RowOK
<1>2. OnItsWay(r)'
  BY DEF OnItsWay
<1> QED BY <1>1, <1>2 DEF RowOK

\* The user acts on a row that waits for nothing, or the row races.
LEMMA UserRows ==
    ASSUME IInv, NEW r \in Row, NEW new \in RowRecord, UserStep(r, new)
    PROVE  RowsOK'
<1>1. /\ rows[r].state = "shown" /\ rows' = [rows EXCEPT ![r] = new]
      /\ raced' = IF OnItsWay(r) THEN raced \cup {r} ELSE raced
      /\ UNCHANGED <<storages, lastId, owner, listing, failed>>
      /\ IType
  BY DEF UserStep, Act, server, IInv
<1>2. \A q \in requests \cup requests' : q.row # r => (q \in requests' <=> q \in requests)
  BY DEF UserStep, Asks
<1>3. ASSUME NEW s \in Row \ raced', s # r PROVE RowOK(s)'
  <2>1. RowOK(s) /\ rows'[s] = rows[s]
    BY <1>1, <1>3 DEF IInv, RowsOK, IType, TypeOK
  <2> QED BY <1>1, <1>2, <1>3, <2>1, OtherRow
<1>4. ASSUME r \notin raced' PROVE RowOK(r)'
  <2>1. ~OnItsWay(r) /\ Rests(r)
    BY <1>1, <1>4 DEF IInv, RowsOK, RowOK
  <2>2. There' = There /\ There \subseteq Id /\ rows'[r] = new
    BY <1>1 DEF There, IType, TypeOK
  <2>3. CASE Idle(r, new) /\ UNCHANGED requests
    <3>1. ~OnItsWay(r)' /\ \A q \in requests' : q.row # r
      BY <2>1, <2>3 DEF OnItsWay
    <3>2. \A i \in There' : owner'[i] = r => new.state = "shown" /\ new.id = i
      BY <1>1, <2>1, <2>2, <2>3, Ids DEF Idle, Rests
    <3>3. ~(/\ new.state = "shown" /\ new.inputs \in Valid
            /\ new.status = "result" \/ (new.status # "none" /\ new.id # None))
      BY <2>3 DEF Idle
    <3>4. Rests(r)'
      BY <2>2, <3>2, <3>3 DEF Rests
    <3> QED BY <3>1, <3>4 DEF RowOK
  <2>4. ASSUME NEW q \in Request, Asks(r, new, q), requests' = requests \cup {q}
        PROVE  RowOK(r)'
    <3>1. \A p \in requests' : p.row = r => p = q
      BY <2>1, <2>4 DEF OnItsWay
    <3>2. OnItsWay(r)'
      BY <2>4 DEF OnItsWay, Asks
    <3>3. OnlyStorage(r, After(q))'
      <4>1. After(q)' = rows[r].id
        BY <2>2, <2>4 DEF After, Asks
      <4> QED BY <1>1, <2>1, <2>2, <4>1 DEF OnlyStorage, Rests
    <3>4. q.method = "GET" /\ r \notin failed /\ new.inputs \in Valid => Saved(r, new.id)'
      <4> SUFFICES ASSUME q.method = "GET", r \notin failed, new.inputs \in Valid
                   PROVE  Saved(r, new.id)'
        OBVIOUS
      <4>1. /\ new.inputs = rows[r].inputs /\ rows[r].status # "none"
            /\ rows[r].id # None /\ new.id = rows[r].id
        BY <2>4 DEF Asks
      <4>2. Saved(r, rows[r].id)
        BY <1>1, <2>1, <4>1 DEF Rests
      <4> QED BY <1>1, <2>2, <4>1, <4>2 DEF Saved
    <3>5. Waits(r, q)'
      BY <1>1, <2>2, <2>4, <3>3, <3>4 DEF Waits, Asks
    <3> QED BY <3>1, <3>2, <3>5 DEF RowOK
  <2> QED BY <2>3, <2>4 DEF UserStep
<1> QED BY <1>3, <1>4 DEF RowsOK

LEMMA NewRows ==
    ASSUME IInv, NEW r \in Row, NewStorage(r)
    PROVE  RowsOK'
<1> DEFINE new == [unused EXCEPT !.state = "shown"]
<1>1. /\ rows[r].state = "unused" /\ rows' = [rows EXCEPT ![r] = new] /\ IType
      /\ UNCHANGED <<storages, lastId, owner, listing, requests, raced, failed>>
  BY DEF NewStorage, server, IInv
<1>2. new.state = "shown" /\ new.status = "none"
  BY DEF unused
<1> HIDE DEF new
<1>3. ASSUME NEW s \in Row \ raced', s # r PROVE RowOK(s)'
  <2>1. RowOK(s) /\ rows'[s] = rows[s]
    BY <1>1, <1>3 DEF IInv, RowsOK, IType, TypeOK
  <2> QED BY <1>1, <1>3, <2>1, OtherRow
<1>4. ASSUME r \notin raced' PROVE RowOK(r)'
  <2>1. \A q \in requests : q.row # r
    BY <1>1 DEF IType, RequestsOK
  <2>2. Rests(r)
    BY <1>1, <1>4, <2>1 DEF IInv, RowsOK, RowOK, OnItsWay
  <2>3. \A i \in There' : owner'[i] # r
    BY <1>1, <2>2 DEF Rests, There
  <2>4. rows'[r] = new
    BY <1>1 DEF IType, TypeOK
  <2>5. Rests(r)'
    BY <1>2, <2>3, <2>4 DEF Rests
  <2> QED BY <1>1, <2>1, <2>5 DEF RowOK
<1> QED BY <1>3, <1>4 DEF RowsOK

\* The server changes the storage of the row that asked, which no row that did
\* not race knows.
LEMMA ServeOthers ==
    ASSUME IInv, NEW q \in requests, Serve(q), NEW s \in Row \ raced', s # q.row
    PROVE  RowOK(s)'
<1>1. /\ q.answer = "none" /\ UNCHANGED <<listing, rows, raced, failed>> /\ q \in Request
      /\ q.row \in Row /\ RowOK(s) /\ IType /\ Apart
  BY DEF Serve, IInv, IType, TypeOK, Request, RowsOK
<1>2. CASE Create(q)
  <2>1. /\ lastId' = lastId + 1 /\ owner' = [owner EXCEPT ![lastId + 1] = q.row]
        /\ storages' = [storages EXCEPT ![lastId + 1] = q.data]
        /\ Answered(q, "ok", lastId + 1) /\ lastId < MaxId
    BY <1>2 DEF Create
  <2>2. lastId + 1 \in Id /\ lastId \in Nat
    BY <1>1, <2>1, BoundAssumption DEF IType, TypeOK, Id
  <2>3. owner[lastId + 1] # s
    BY <1>1, <2>2, RowAssumption, BoundAssumption DEF IType, ListingOK
  <2>4. \A i \in Id : owner'[i] = s <=> owner[i] = s
    BY <1>1, <2>1, <2>3 DEF IType, TypeOK
  <2>5. ASSUME NEW i \in Id, Knows(s, i) PROVE storages'[i] = storages[i]
    <3>1. i <= lastId
      BY <1>1, <2>5 DEF Apart
    <3> QED BY <1>1, <2>1, <2>2, <3>1, Ids DEF IType, TypeOK
  <2>6. \A p \in requests \cup requests' : p.row = s => (p \in requests' <=> p \in requests)
    BY <1>1, <2>1, <2>2, AnsweredType
  <2> QED BY <1>1, <2>4, <2>5, <2>6, OtherRow
<1>3. CASE Update(q) \/ Destroy(q) \/ Show(q)
  <2>1. /\ q.id \in There /\ Answered(q, "ok", q.id) /\ UNCHANGED owner
        /\ \E v : storages' = [storages EXCEPT ![q.id] = v] \/ storages' = storages
    BY <1>3 DEF Update, Destroy, Show, server
  <2>2. q.id \in Id /\ Knows(q.row, q.id)
    BY <2>1 DEF There, Knows
  <2>3. ASSUME NEW i \in Id, Knows(s, i) PROVE storages'[i] = storages[i]
    <3>1. i # q.id
      BY <1>1, <2>2, <2>3 DEF Apart
    <3> QED BY <1>1, <2>1, <3>1 DEF IType, TypeOK
  <2>4. \A p \in requests \cup requests' : p.row = s => (p \in requests' <=> p \in requests)
    BY <1>1, <2>1, <2>2, AnsweredType
  <2> QED BY <1>1, <2>1, <2>3, <2>4, OtherRow
<1> QED BY <1>2, <1>3 DEF Serve

\* A row that did not race gets what it asked for.
LEMMA ServeOwn ==
    ASSUME IInv, NEW q \in requests, Serve(q), NEW r, r = q.row, r \notin raced'
    PROVE  RowOK(r)'
<1>1. /\ q.answer = "none" /\ UNCHANGED <<listing, rows, raced, failed>> /\ q \in Request
      /\ r \in Row /\ IType /\ Apart
  BY DEF Serve, IInv, IType, TypeOK, Request
<1>2. RowOK(r)
  BY <1>1 DEF IInv, RowsOK
<1>3. /\ rows[r].state = "shown" /\ OnlyStorage(r, rows[r].id) /\ q.id = rows[r].id
      /\ q.method \in {"POST", "PUT"} => q.data = rows[r].inputs
      /\ q.method = "GET" /\ r \notin failed /\ rows[r].inputs \in Valid => Saved(r, rows[r].id)
  BY <1>1, <1>2 DEF RowOK, Waits, After
<1>4. r = q.row
  OBVIOUS
<1>5. CASE Create(q)
  <2>0. PICK k : k = lastId + 1
    OBVIOUS
  <2>1. /\ owner' = [owner EXCEPT ![k] = r] /\ storages' = [storages EXCEPT ![k] = q.data]
        /\ Answered(q, "ok", k) /\ q.method = "POST" /\ lastId < MaxId
    BY <1>4, <1>5, <2>0 DEF Create
  <2>2. k \in Id
    BY <1>1, <2>0, <2>1, BoundAssumption DEF IType, TypeOK, Id
  <2>3. q.id = None /\ q.data \in Valid /\ q.data # None
    BY <1>1, <2>1, ValueAssumption DEF IType, RequestsOK
  <2>4. PICK q2 \in Request :
              /\ requests' = (requests \ {q}) \cup {q2}
              /\ q2.row = r /\ q2.method = "POST" /\ q2.answer = "ok" /\ q2.id = k
    BY <1>1, <1>4, <2>1, <2>2, AnsweredType
  <2>5. storages'[k] = q.data /\ k \in There'
    BY <1>1, <2>1, <2>2, <2>3 DEF IType, TypeOK, There
  <2>6. OnlyStorage(r, k)'
    <3> SUFFICES ASSUME NEW j, j \in There', owner'[j] = r, j # k PROVE FALSE
      BY DEF OnlyStorage
    <3>1. j \in Id /\ j \in There /\ owner[j] = r
      BY <1>1, <2>1 DEF There, IType, TypeOK
    <3>2. j = None
      BY <1>3, <2>3, <3>1 DEF OnlyStorage
    <3> QED BY <3>1, <3>2, Ids
  <2>7. Saved(r, k)'
    <3>1. storages'[k] = rows'[r].inputs
      BY <1>1, <1>3, <2>1, <2>5
    <3> QED BY <2>5, <3>1 DEF Saved
  <2>8. After(q2)' = k
    BY <2>4 DEF After
  <2>9. Waits(r, q2)'
    BY <1>1, <1>3, <2>4, <2>6, <2>7, <2>8 DEF Waits
  <2> QED BY <1>1, <1>2, <1>4, <2>4, <2>9, AnsweredRow
<1>6. CASE Update(q)
  <2>1. /\ q.id \in There /\ UNCHANGED owner /\ storages' = [storages EXCEPT ![q.id] = q.data]
        /\ Answered(q, "ok", q.id) /\ q.method = "PUT"
    BY <1>6 DEF Update
  <2>2. q.id \in Id /\ q.data \in Valid /\ q.data # None
    BY <1>1, <2>1, ValueAssumption DEF IType, RequestsOK, There
  <2>3. PICK q2 \in Request :
              /\ requests' = (requests \ {q}) \cup {q2}
              /\ q2.row = r /\ q2.method = "PUT" /\ q2.answer = "ok" /\ q2.id = q.id
    BY <1>1, <1>4, <2>1, <2>2, AnsweredType
  <2>4. There' = There /\ storages'[q.id] = q.data
    BY <1>1, <2>1, <2>2 DEF There, IType, TypeOK
  <2>5. OnlyStorage(r, q.id)' /\ After(q2)' = q.id
    BY <1>3, <2>1, <2>3, <2>4 DEF OnlyStorage, After
  <2>6. Saved(r, q.id)'
    BY <1>1, <1>3, <2>1, <2>4 DEF Saved
  <2>7. Waits(r, q2)'
    BY <1>1, <1>3, <2>3, <2>5, <2>6 DEF Waits
  <2> QED BY <1>1, <1>2, <1>4, <2>3, <2>7, AnsweredRow
<1>7. CASE Destroy(q)
  <2>1. /\ q.id \in There /\ UNCHANGED owner /\ storages' = [storages EXCEPT ![q.id] = None]
        /\ Answered(q, "ok", q.id) /\ q.method = "DELETE"
    BY <1>7 DEF Destroy
  <2>2. q.id \in Id
    BY <2>1 DEF There
  <2>3. PICK q2 \in Request :
              /\ requests' = (requests \ {q}) \cup {q2}
              /\ q2.row = r /\ q2.method = "DELETE" /\ q2.answer = "ok" /\ q2.id = q.id
    BY <1>1, <1>4, <2>1, <2>2, AnsweredType
  <2>4. There' = There \ {q.id}
    BY <1>1, <2>1, <2>2 DEF There, IType, TypeOK
  <2>5. OnlyStorage(r, None)' /\ After(q2)' = None
    BY <1>3, <2>1, <2>3, <2>4 DEF OnlyStorage, After
  <2>6. Waits(r, q2)'
    BY <1>1, <1>3, <2>3, <2>5 DEF Waits
  <2> QED BY <1>1, <1>2, <1>4, <2>3, <2>6, AnsweredRow
<1>8. CASE Show(q)
  <2>1. /\ q.id \in There /\ UNCHANGED <<owner, storages>>
        /\ Answered(q, "ok", q.id) /\ q.method = "GET"
    BY <1>8 DEF Show, server
  <2>2. q.id \in Id
    BY <2>1 DEF There
  <2>3. PICK q2 \in Request :
              /\ requests' = (requests \ {q}) \cup {q2}
              /\ q2.row = r /\ q2.method = "GET" /\ q2.answer = "ok" /\ q2.id = q.id
    BY <1>1, <1>4, <2>1, <2>2, AnsweredType
  <2>4. There' = There
    BY <2>1 DEF There
  <2>5. OnlyStorage(r, q.id)' /\ After(q2)' = q.id
    BY <1>3, <2>1, <2>3, <2>4 DEF OnlyStorage, After
  <2>6. r \notin failed' /\ rows'[r].inputs \in Valid => Saved(r, rows[r].id)'
    BY <1>1, <1>3, <2>1, <2>4 DEF Saved
  <2>7. rows'[r].state = "shown" /\ q2.id = rows'[r].id
    BY <1>1, <1>3, <2>3
  <2>8. Waits(r, q2)'
    BY <2>3, <2>5, <2>6, <2>7 DEF Waits
  <2> QED BY <1>1, <1>2, <1>4, <2>3, <2>8, AnsweredRow
<1> QED BY <1>5, <1>6, <1>7, <1>8 DEF Serve

LEMMA ServeRows ==
    ASSUME IInv, NEW q \in requests, Serve(q)
    PROVE  RowsOK'
BY ServeOthers, ServeOwn DEF RowsOK

\* A request that is refused has changed nothing; one whose answer is lost makes
\* the row race.
LEMMA LostRows ==
    ASSUME IInv, NEW q \in requests, Refuse(q) \/ Lose(q)
    PROVE  RowsOK'
<1>1. /\ Answered(q, "failed", None) /\ UNCHANGED <<storages, lastId, owner, listing, rows, failed>>
      /\ q \in Request /\ q.row \in Row /\ IType
      /\ (q.answer = "none" /\ raced' = raced) \/ raced' = raced \cup {q.row}
  BY DEF Refuse, Lose, server, IInv, IType, TypeOK, Request
<1>2. PICK q2 \in Request :
         /\ requests' = (requests \ {q}) \cup {q2}
         /\ q2.row = q.row /\ q2.method = q.method /\ q2.answer = "failed" /\ q2.id = None
  BY <1>1, AnsweredType
<1>3. There' = There
  BY <1>1 DEF There
<1>4. ASSUME NEW s \in Row \ raced', s # q.row PROVE RowOK(s)'
  <2>1. RowOK(s)
    BY <1>1, <1>4 DEF IInv, RowsOK
  <2> QED BY <1>1, <1>2, <1>4, <2>1, OtherRow
<1>5. ASSUME q.row \notin raced' PROVE RowOK(q.row)'
  <2>1. RowOK(q.row) /\ q.answer = "none"
    BY <1>1, <1>5 DEF IInv, RowsOK
  <2>2. rows[q.row].state = "shown" /\ OnlyStorage(q.row, rows[q.row].id)
    BY <2>1 DEF RowOK, Waits, After
  <2>3. After(q2)' = rows[q.row].id
    BY <1>1, <1>2 DEF After
  <2>4. OnlyStorage(q.row, After(q2))'
    BY <1>1, <1>3, <2>2, <2>3 DEF OnlyStorage
  <2>5. Waits(q.row, q2)'
    BY <1>1, <1>2, <2>2, <2>4 DEF Waits
  <2> QED BY <1>1, <1>2, <2>1, <2>5, AnsweredRow
<1> QED BY <1>4, <1>5 DEF RowsOK

\* A row that did not race waits for nothing after its answer.
LEMMA DeliverRows ==
    ASSUME IInv, NEW q \in requests, Deliver(q)
    PROVE  RowsOK'
<1> DEFINE r == q.row
<1>1. /\ requests' = requests \ {q} /\ q.answer # "none"
      /\ UNCHANGED <<storages, lastId, owner, listing, raced>>
      /\ rows' = IF rows[r].state = "removed" THEN rows ELSE [rows EXCEPT ![r] = Callback(q)]
      /\ failed' = CASE q.answer = "failed" -> failed \cup {r}
                     [] q.answer = "ok" /\ q.method \in {"POST", "PUT"} -> failed \ {r}
                     [] OTHER -> failed
      /\ q \in Request /\ r \in Row /\ rows[r] \in RowRecord /\ IType
  BY DEF Deliver, server, IInv, IType, TypeOK, Request
<1>2. There' = There /\ There \subseteq Id
  BY <1>1 DEF There
<1>3. q.answer \in {"ok", "failed"} /\ q.method \in {"POST", "PUT", "GET", "DELETE"}
  BY <1>1 DEF Request
<1> HIDE DEF r
<1>4. r = q.row
  BY DEF r
<1>5. ASSUME NEW s \in Row \ raced', s # r PROVE RowOK(s)'
  <2>1. RowOK(s) /\ rows'[s] = rows[s] /\ (s \in failed' <=> s \in failed)
    BY <1>1, <1>3, <1>5 DEF IInv, RowsOK, IType, TypeOK
  <2> QED BY <1>1, <1>4, <1>5, <2>1, OtherRow
<1>6. ASSUME r \notin raced' PROVE RowOK(r)'
  <2>1. RowOK(r)
    BY <1>1, <1>6 DEF IInv, RowsOK
  <2>2. Waits(r, q) /\ \A p \in requests' : p.row # r
    BY <1>1, <1>4, <2>1 DEF RowOK
  <2>3. rows[r].state = "shown" /\ rows'[r] = Callback(q)
    BY <1>1, <2>2 DEF Waits, IType, TypeOK
  <2>4. Rests(r)'
    <3>1. CASE q.answer = "failed"
      <4>1. Callback(q) = [rows[r] EXCEPT !.status = "error"]
        BY <1>4, <3>1 DEF Callback
      <4>2. rows'[r].id = rows[r].id /\ rows'[r].state = "shown"
        BY <1>1, <2>3, <4>1 DEF RowRecord
      <4>3. OnlyStorage(r, rows[r].id) /\ r \in failed'
        BY <1>1, <1>4, <2>2, <3>1 DEF Waits, After
      <4> QED BY <1>1, <1>2, <4>2, <4>3 DEF Rests, OnlyStorage
    <3>2. CASE q.answer = "ok" /\ q.method = "DELETE"
      <4>1. Callback(q).state = "removed"
        BY <3>2 DEF Callback, unused
      <4>2. \A j \in There' : owner'[j] # r
        BY <1>1, <1>2, <2>2, <3>2, Ids DEF Waits, After, OnlyStorage
      <4> QED BY <2>3, <4>1, <4>2 DEF Rests
    <3>3. CASE q.answer = "ok" /\ q.method = "GET"
      <4>1. Callback(q) = [rows[r] EXCEPT !.status = "result"]
        BY <1>4, <3>3 DEF Callback
      <4>2. /\ rows'[r].id = rows[r].id /\ rows'[r].state = "shown"
            /\ rows'[r].inputs = rows[r].inputs
        BY <1>1, <2>3, <4>1 DEF RowRecord
      <4>3. OnlyStorage(r, rows[r].id) /\ failed' = failed
        BY <1>1, <2>2, <3>3 DEF Waits, After
      <4>4. r \notin failed /\ rows[r].inputs \in Valid => Saved(r, rows[r].id)
        BY <2>2, <3>3 DEF Waits
      <4> QED BY <1>1, <1>2, <4>2, <4>3, <4>4 DEF Rests, OnlyStorage, Saved
    <3>4. CASE q.answer = "ok" /\ q.method \in {"POST", "PUT"}
      <4>1. Callback(q) = [rows[r] EXCEPT !.status = "result", !.id = q.id]
        BY <1>4, <3>4 DEF Callback
      <4>2. /\ rows'[r].id = q.id /\ rows'[r].state = "shown"
            /\ rows'[r].inputs = rows[r].inputs
        BY <1>1, <2>3, <4>1 DEF RowRecord
      <4>3. OnlyStorage(r, q.id) /\ Saved(r, q.id)
        BY <2>2, <3>4 DEF Waits, After
      <4> QED BY <1>1, <1>2, <4>2, <4>3 DEF Rests, OnlyStorage, Saved
    <3> QED BY <1>3, <3>1, <3>2, <3>3, <3>4
  <2> QED BY <2>2, <2>4 DEF RowOK
<1> QED BY <1>5, <1>6 DEF RowsOK

\* What the list says of a storage that was not created from the page is still
\* so when the row is filled.
LEMMA LoadRowsOK ==
    ASSUME IInv, NEW ids \in SUBSET Id, NEW rowOf \in [ids -> Row], LoadStorages(rowOf)
    PROVE  RowsOK'
<1>1. LoadedRows(ids, rowOf) /\ (LoadedRequests(ids, rowOf) \/ requests' = requests)
  BY LoadRows, LoadRequests DEF IInv
<1>2. /\ UNCHANGED <<storages, lastId, owner, failed>> /\ raced \subseteq raced' /\ IType
      /\ \A r \in Row \ Loaded(rowOf) : rows'[r] = rows[r]
  BY <1>1 DEF LoadedRows, IInv
<1>3. There' = There /\ There \subseteq Id
  BY <1>2 DEF There
<1>4. \A q \in requests' \ requests : \E i \in ids :
         q.row = rowOf[i] /\ q.method = "GET" /\ q.answer = "none" /\ q.id = i
  BY <1>1 DEF LoadedRequests
<1>5. requests \subseteq requests' /\ \A p, q \in requests' \ requests : p.row = q.row => p = q
  BY <1>1 DEF LoadedRequests
<1>6. ASSUME NEW s \in Row \ raced', s \notin Loaded(rowOf) PROVE RowOK(s)'
  <2>1. RowOK(s) /\ rows'[s] = rows[s]
    BY <1>2, <1>6 DEF IInv, RowsOK
  <2>2. \A q \in requests \cup requests' : q.row = s => (q \in requests' <=> q \in requests)
    BY <1>4, <1>5, <1>6 DEF Loaded
  <2> QED BY <1>2, <2>1, <2>2, OtherRow
<1>7. ASSUME NEW s \in Row \ raced', s \in Loaded(rowOf) PROVE RowOK(s)'
  <2>1. PICK i \in ids : rowOf[i] = s
    BY <1>7 DEF Loaded
  <2>2. /\ rows[s].state = "unused" /\ owner[i] = None
        /\ rows'[s].state = "shown" /\ rows'[s].id = i
        /\ rows'[s].inputs = listing.content[i]
        /\ listing.state = "answered" /\ listing.content[i] # None
        /\ \A j \in ids : rowOf[j] = s => j = i
    BY <1>1, <1>7, <2>1 DEF LoadedRows
  <2>3. \A q \in requests : q.row # s
    BY <1>2, <2>2 DEF IType, RequestsOK
  <2>4. Rests(s)
    BY <1>2, <1>7, <2>3 DEF IInv, RowsOK, RowOK, OnItsWay
  <2>5. \A j \in There' : owner'[j] # s
    BY <1>2, <1>3, <2>2, <2>4 DEF Rests
  <2>6. Saved(s, i)'
    BY <1>2, <2>2 DEF IType, ListingOK, Saved, There
  <2>7. Rests(s)'
    BY <2>2, <2>5, <2>6 DEF Rests
  <2>8. ASSUME NEW q \in requests', q.row = s PROVE Waits(s, q)'
    <3>1. q.method = "GET" /\ q.answer = "none" /\ q.id = i
      BY <1>4, <2>2, <2>3, <2>8
    <3> QED BY <2>2, <2>5, <2>6, <3>1 DEF Waits, OnlyStorage
  <2>9. \A p, q \in requests' : p.row = s /\ q.row = s => p = q
    BY <1>5, <2>3
  <2> QED BY <2>7, <2>8, <2>9 DEF RowOK
<1> QED BY <1>6, <1>7 DEF RowsOK

LEMMA ListingRows ==
    ASSUME IInv, ServeListing
    PROVE  RowsOK'
<1>1. UNCHANGED <<storages, lastId, owner, rows, requests, raced, failed>> /\ IType
  BY DEF ServeListing, server, IInv
<1> QED BY <1>1, OtherRow DEF IInv, RowsOK

LEMMA InitRows == Init => RowsOK
<1> SUFFICES ASSUME Init, NEW r \in Row PROVE RowOK(r)
  BY DEF RowsOK
<1>1. requests = {} /\ rows[r] = unused /\ \A i \in Id : owner[i] # r
  BY RowAssumption, BoundAssumption DEF Init
<1> QED BY <1>1 DEF RowOK, Rests, unused, There

-----------------------------------------------------------------------------
(***************************************************************************)
(* The invariant is kept.                                                  *)
(***************************************************************************)
LEMMA UserInv ==
    ASSUME IInv, User
    PROVE  IInv'
<1>1. PICK r \in Row :
         \/ NewStorage(r)
         \/ Save(r) \/ RecheckStorageConfig(r) \/ DeleteStorageConfig(r)
         \/ \E v \in Value : Change(r, v) \/ ChangeAndSave(r, v) \/ ChangeApplicable(r, v)
  BY DEF User
<1>2. CASE NewStorage(r)
  BY <1>2, NewType, NewApart, NewRows DEF IInv
<1>3. CASE ~NewStorage(r)
  <2>1. PICK new \in RowRecord : UserStep(r, new)
    BY <1>1, <1>3, UserActs DEF IInv
  <2> QED BY <2>1, UserType, UserApart, UserRows DEF IInv
<1> QED BY <1>2, <1>3

LEMMA NetworkInv ==
    ASSUME IInv, Network
    PROVE  IInv'
<1>1. PICK q \in requests : Serve(q) \/ Refuse(q) \/ Lose(q) \/ Deliver(q)
  BY DEF Network, Answering
<1>2. CASE Serve(q)
  BY <1>2, ServeType, ServeApart, ServeRows DEF IInv
<1>3. CASE Refuse(q) \/ Lose(q)
  BY <1>3, LostType, LostApart, LostRows DEF IInv
<1>4. CASE Deliver(q)
  BY <1>4, DeliverType, DeliverApart, DeliverRows DEF IInv
<1> QED BY <1>1, <1>2, <1>3, <1>4

LEMMA LoadInv ==
    ASSUME IInv, Load
    PROVE  IInv'
BY LoadType, LoadApart, LoadRowsOK DEF IInv, Load

LEMMA ListingInv ==
    ASSUME IInv, ServeListing
    PROVE  IInv'
<1>1. Apart'
  BY ApartKept DEF IInv, ServeListing, server, Knows
<1> QED BY <1>1, ServeListingType, ListingRows DEF IInv

LEMMA StutterInv ==
    ASSUME IInv, UNCHANGED vars
    PROVE  IInv'
<1>1. /\ UNCHANGED <<storages, lastId, owner, listing, rows, requests, raced, failed>>
      /\ IType /\ Apart /\ RowsOK
  BY DEF vars, server, IInv
<1>2. IType'
  BY <1>1 DEF IType, TypeOK, RequestsOK, ListingOK
<1>3. Apart'
  BY <1>1 DEF Apart, Knows
<1>4. RowsOK'
  BY <1>1, OtherRow DEF RowsOK
<1> QED BY <1>2, <1>3, <1>4 DEF IInv

LEMMA Invariance == Spec => []IInv
<1>1. Init => IInv
  BY InitType, InitApart, InitRows DEF IInv
<1>2. IInv /\ [Next]_vars => IInv'
  BY UserInv, NetworkInv, LoadInv, ListingInv, StutterInv DEF Next
<1> QED BY <1>1, <1>2, PTL DEF Spec

-----------------------------------------------------------------------------
(***************************************************************************)
(* Theorems.                                                               *)
(***************************************************************************)
\* The variables keep their shape; in particular the requests of a row that are
\* on their way have different numbers, which Send has to find.
THEOREM TypeCorrect == Spec => []TypeOK
<1>1. IInv => TypeOK
  BY DEF IInv, IType
<1> QED BY <1>1, Invariance, PTL

\* What the status icon of a row says of its storage is true of the inputs that
\* are shown next to it, unless the row raced or its last save failed.
THEOREM StatusTrue == Spec => []StatusIsTrue
<1>1. IInv => StatusIsTrue
  <2> SUFFICES ASSUME IInv, NEW r \in Row \ (raced \cup failed), rows[r].state = "shown",
                      rows[r].status = "result", rows[r].inputs \in Valid, ~OnItsWay(r)
               PROVE  rows[r].id \in There /\ storages[rows[r].id] = rows[r].inputs
    BY DEF StatusIsTrue
  <2> QED BY DEF IInv, RowsOK, RowOK, Rests, Saved
<1> QED BY <1>1, Invariance, PTL

\* A storage that was created from the page belongs to its row, unless the row
\* raced: saving the row again updates it, and deleting the row deletes it.
THEOREM NoOrphans == Spec => []NoOrphan
<1>1. IInv => NoOrphan
  <2> SUFFICES ASSUME IInv, NEW i \in There, owner[i] \in Row \ raced, ~OnItsWay(owner[i])
               PROVE  rows[owner[i]].state = "shown" /\ rows[owner[i]].id = i
    BY DEF NoOrphan
  <2>1. RowOK(owner[i])
    BY DEF IInv, RowsOK
  <2> QED BY <2>1 DEF RowOK, Rests
<1> QED BY <1>1, Invariance, PTL

\* Whatever updates of a storage are still on their way when it is deleted, none
\* of them brings it back, and its id is not given again.
THEOREM NotResurrected == Spec => NeverResurrected
<1>1. IInv /\ [Next]_vars => [\A i \in 1..lastId : storages[i] = None => storages'[i] = None]_vars
  <2> SUFFICES ASSUME IInv, Next, NEW i \in 1..lastId, storages[i] = None
               PROVE  storages'[i] = None
    OBVIOUS
  <2>1. CASE UNCHANGED storages
    BY <2>1
  <2>2. ASSUME NEW q \in requests, Serve(q) PROVE storages'[i] = None
    <3>1. lastId \in Nat /\ storages \in [Id -> Valid \cup {None}] /\ i # lastId + 1 /\ i \notin There
      BY DEF IInv, IType, TypeOK, There
    <3>2. i \in Id
      BY <3>1, BoundAssumption DEF IInv, IType, TypeOK, Id
    <3>3. \/ storages' = [storages EXCEPT ![lastId + 1] = q.data]
          \/ q.id \in There /\ \E v : storages' = [storages EXCEPT ![q.id] = v]
          \/ storages' = storages
      BY <2>2 DEF Serve, Create, Update, Destroy, Show, server
    <3> QED BY <3>1, <3>2, <3>3
  <2>3. User => UNCHANGED storages
    BY DEF User, NewStorage, Save, RecheckStorageConfig, DeleteStorageConfig, Change,
           ChangeAndSave, ChangeApplicable, SaveStorageConfig, Act, server
  <2>4. ServeListing \/ Load => UNCHANGED storages
    BY DEF ServeListing, Load, LoadStorages, server
  <2>5. \A q \in requests : Refuse(q) \/ Lose(q) \/ Deliver(q) => UNCHANGED storages
    BY DEF Refuse, Lose, Deliver, server
  <2> QED BY <2>1, <2>2, <2>3, <2>4, <2>5 DEF Next, Network, Answering
<1> QED BY <1>1, Invariance, PTL DEF Spec, NeverResurrected

=============================================================================
