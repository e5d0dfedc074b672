---------------------- MODULE DBLockingProviderProofs ----------------------
(***************************************************************************)
(* Proofs about DBLockingProvider, for every set of requests, paths and    *)
(* every ttl.                                                              *)
(*                                                                         *)
(* The inductive invariant says whose units the counters of the table      *)
(* consist of (RowIsExact).  It needs the bookkeeping of the requests      *)
(* (KeptLocks, LifeOK), what is true of an UPDATE that has yet to be sent  *)
(* (PendingOK), and that no row of a live request is cleaned up            *)
(* (LiveLocksDoNotExpire).                                                 *)
(***************************************************************************)
EXTENDS DBLockingProvider, FiniteSetTheorems, TLAPS

(* sharedLocks and acquiredLocks['shared'] of a request fit together.  A   *)
(* request that does not cache keeps nothing; one that does keeps every    *)
(* unit until its end.                                                     *)
KeptLocks ==
    \A r \in Request :
        /\ r \notin Caching => sharedLocks[r] = {}
        /\ sharedLocks[r] \subseteq SharedPath
        /\ \A p \in Path :
              r \in Caching /\ acquiredShared[r][p] > 0 => p \in sharedLocks[r]

(* A request between its INSERT and its UPDATE.                            *)
PendingOK ==
    \A r \in Request :
        pending[r] # NoStatement =>
            /\ mode[r] = "running"
            /\ pending[r].expire >= TTL - age[r]
            /\ pending[r].type = "shared" =>
                  /\ pending[r].path \in SharedPath \ sharedLocks[r]
                  /\ acquiredShared[r][pending[r].path] < MaxShared
            /\ pending[r].type = "exclusive" => pending[r].existing = 0

(* A request that has not started holds nothing; no request is too old.    *)
LifeOK ==
    \A r \in Request :
        /\ Live(r) => age[r] <= MaxAge
        /\ ~Live(r) => age[r] = 0
        /\ mode[r] = "idle" =>
              /\ acquiredExclusive[r] = {} /\ sharedLocks[r] = {}
              /\ \A p \in Path : acquiredShared[r][p] = 0

IInv ==
    /\ TypeOK
    /\ KeptLocks
    /\ PendingOK
    /\ LifeOK
    /\ RowIsExact
    /\ LiveLocksDoNotExpire

-----------------------------------------------------------------------------
(* Counting units.  Tok(U) are the tokens of a path on which request r has  *)
(* U[r] units.                                                             *)
Tok(U) == {u \in Request \X (1..MaxShared) : u[2] <= U[u[1]]}

(* There are finitely many tokens. *)
LEMMA TokFinite ==
    ASSUME IsFiniteSet(Request), NEW U
    PROVE  IsFiniteSet(Tok(U))
<1>1. MaxShared \in Nat
  BY ConstantsOK
<1>2. IsFiniteSet(1..MaxShared)
  BY <1>1, FS_Interval
<1>3. IsFiniteSet(Request \X (1..MaxShared))
  BY <1>2, FS_Product
<1> QED
  BY <1>3, FS_Subset DEF Tok

(* No token, no unit. *)
LEMMA TokEmpty ==
    ASSUME NEW U \in [Request -> 0..MaxShared]
    PROVE  Tok(U) = {} <=> \A r \in Request : U[r] = 0
<1>1. MaxShared \in Nat \ {0}
  BY ConstantsOK
<1>2. ASSUME Tok(U) = {}, NEW r \in Request, U[r] # 0
      PROVE  FALSE
  <2>1. U[r] \in 1..MaxShared
    BY <1>1, <1>2
  <2>2. <<r, U[r]>> \in Tok(U)
    BY <2>1 DEF Tok
  <2> QED
    BY <1>2, <2>2
<1>3. ASSUME \A r \in Request : U[r] = 0
      PROVE  Tok(U) = {}
  BY <1>3, <1>1 DEF Tok
<1> QED
  BY <1>2, <1>3

(* One more unit is one more token. *)
LEMMA TokGain ==
    ASSUME IsFiniteSet(Request),
           NEW U \in [Request -> 0..MaxShared], NEW V \in [Request -> 0..MaxShared],
           NEW r \in Request, V[r] = U[r] + 1,
           \A q \in Request : q # r => V[q] = U[q]
    PROVE  Cardinality(Tok(V)) = Cardinality(Tok(U)) + 1
<1>1. MaxShared \in Nat \ {0} /\ V[r] \in 1..MaxShared
  BY ConstantsOK
<1>2. <<r, V[r]>> \notin Tok(U)
  BY <1>1 DEF Tok
<1>3. Tok(V) = Tok(U) \cup {<<r, V[r]>>}
  <2>1. ASSUME NEW u \in Request \X (1..MaxShared)
        PROVE  u[2] <= V[u[1]] <=> u[2] <= U[u[1]] \/ u = <<r, V[r]>>
    <3>1. u[1] \in Request /\ u[2] \in 1..MaxShared /\ u = <<u[1], u[2]>>
      OBVIOUS
    <3>2. CASE u[1] = r
      BY <3>1, <3>2, <1>1
    <3>3. CASE u[1] # r
      BY <3>1, <3>3, <1>1
    <3> QED
      BY <3>2, <3>3
  <2>2. <<r, V[r]>> \in Request \X (1..MaxShared)
    BY <1>1
  <2> QED
    BY <2>1, <2>2 DEF Tok
<1> QED
  BY <1>2, <1>3, TokFinite, FS_AddElement

(* If there is a single token, it belongs to the request that has a unit.  *)
LEMMA TokSingle ==
    ASSUME IsFiniteSet(Request),
           NEW U \in [Request -> 0..MaxShared], Cardinality(Tok(U)) = 1,
           NEW r \in Request, U[r] > 0
    PROVE  U[r] = 1 /\ \A q \in Request : q # r => U[q] = 0
<1>1. MaxShared \in Nat \ {0}
  BY ConstantsOK
<1>2. PICK x : Tok(U) = {x}
  BY TokFinite, FS_Singleton
<1>3. \A q \in Request, k \in 1..MaxShared : k <= U[q] => <<q, k>> = x
  BY <1>2 DEF Tok
<1>4. x = <<r, 1>>
  BY <1>1, <1>3
<1>5. \A q \in Request : U[q] > 0 => <<q, U[q]>> = <<r, 1>>
  BY <1>1, <1>3, <1>4
<1> QED
  BY <1>5

-----------------------------------------------------------------------------
(* What a change of the bookkeeping means, request by request and path by  *)
(* path.                                                                   *)

(* The bookkeeping of one request on one path becomes ... *)
Booked(r, p, shared, excl, cached) ==
    /\ acquiredShared' \in [Request -> [Path -> 0..MaxShared]]
    /\ acquiredExclusive' \in [Request -> SUBSET Path]
    /\ sharedLocks' \in [Request -> SUBSET Path]
    /\ acquiredShared'[r][p] = shared
    /\ p \in acquiredExclusive'[r] <=> excl
    /\ p \in sharedLocks'[r] <=> cached
    /\ \A q \in Request, t \in Path : <<q, t>> # <<r, p>> =>
          /\ acquiredShared'[q][t] = acquiredShared[q][t]
          /\ t \in acquiredExclusive'[q] <=> t \in acquiredExclusive[q]
          /\ t \in sharedLocks'[q] <=> t \in sharedLocks[q]

(* The bookkeeping changes for one request and one path. *)
LEMMA BookkeepFacts ==
    ASSUME TypeOK, NEW r \in Request, NEW p \in Path, NEW shared \in 0..MaxShared,
           NEW excl \in BOOLEAN, NEW cached \in BOOLEAN,
           Bookkeep(r, p, shared, excl, cached)
    PROVE  Booked(r, p, shared, excl, cached)
<1>1. /\ acquiredShared \in [Request -> [Path -> 0..MaxShared]]
      /\ acquiredExclusive \in [Request -> SUBSET Path]
      /\ sharedLocks \in [Request -> SUBSET Path]
  BY DEF TypeOK
<1>2. /\ acquiredShared' \in [Request -> [Path -> 0..MaxShared]]
      /\ acquiredShared'[r][p] = shared
      /\ \A q \in Request, t \in Path : <<q, t>> # <<r, p>> =>
            acquiredShared'[q][t] = acquiredShared[q][t]
  BY <1>1 DEF Bookkeep
<1>3. /\ acquiredExclusive' \in [Request -> SUBSET Path]
      /\ p \in acquiredExclusive'[r] <=> excl
      /\ \A q \in Request, t \in Path : <<q, t>> # <<r, p>> =>
            (t \in acquiredExclusive'[q] <=> t \in acquiredExclusive[q])
  BY <1>1 DEF Bookkeep
<1>4. /\ sharedLocks' \in [Request -> SUBSET Path]
      /\ p \in sharedLocks'[r] <=> cached
      /\ \A q \in Request, t \in Path : <<q, t>> # <<r, p>> =>
            (t \in sharedLocks'[q] <=> t \in sharedLocks[q])
  BY <1>1 DEF Bookkeep
<1> QED
  BY <1>2, <1>3, <1>4 DEF Booked

UnitsAt(p) == [r \in Request |-> Units(r, p)]

(* Units are units. *)
LEMMA UnitsType ==
    ASSUME TypeOK, NEW p \in Path
    PROVE  /\ UnitsAt(p) \in [Request -> 0..MaxShared]
           /\ Tokens(p) = Tok(UnitsAt(p))
<1>1. MaxShared \in Nat \ {0}
  BY ConstantsOK
<1>2. \A r \in Request : Units(r, p) \in 0..MaxShared
  BY <1>1 DEF Units, TypeOK
<1> QED
  BY <1>2 DEF UnitsAt, Tokens, Tok

-----------------------------------------------------------------------------
(* What a step does to the counter of one path.                            *)

(* The step concerns no other request and no other path. *)
Only(r, p) ==
    /\ \A t \in Path : t # p => (t \in rows' <=> t \in rows) /\ lock'[t] = lock[t]
    /\ \A q \in Request, t \in Path : <<q, t>> # <<r, p>> =>
          /\ Units(q, t)' = Units(q, t)
          /\ t \in acquiredExclusive'[q] <=> t \in acquiredExclusive[q]

(* Nothing changes about a path. *)
LEMMA Frame ==
    ASSUME NEW p \in Path, RowExact(p),
           p \in rows' <=> p \in rows, lock'[p] = lock[p],
           \A q \in Request : /\ Units(q, p)' = Units(q, p)
                              /\ p \in acquiredExclusive'[q] <=> p \in acquiredExclusive[q]
    PROVE  RowExact(p)'
<1>1. Tokens(p)' = Tokens(p)
  BY DEF Tokens
<1>2. Owners(p)' = Owners(p)
  BY DEF Owners
<1> QED
  BY <1>1, <1>2 DEF RowExact

LEMMA OnlyFrame ==
    ASSUME NEW r \in Request, NEW p \in Path, RowIsExact, Only(r, p), RowExact(p)'
    PROVE  RowIsExact'
<1>1. ASSUME NEW t \in Path, t # p
      PROVE  RowExact(t)'
  BY <1>1, Frame DEF RowIsExact, Only
<1> QED
  BY <1>1 DEF RowIsExact

(* A path on which nobody has a unit has no token. *)
LEMMA NoUnits ==
    ASSUME TypeOK, NEW p \in Path
    PROVE  Tokens(p) = {} <=> \A q \in Request : Units(q, p) = 0
<1>1. UnitsAt(p) \in [Request -> 0..MaxShared] /\ Tokens(p) = Tok(UnitsAt(p))
  BY UnitsType
<1>2. Tok(UnitsAt(p)) = {} <=> \A q \in Request : UnitsAt(p)[q] = 0
  BY <1>1, TokEmpty
<1> QED
  BY <1>1, <1>2 DEF UnitsAt

(* A request takes one more shared unit of a row that is not locked        *)
(* exclusively, or of a new row.                                           *)
LEMMA RowGain ==
    ASSUME IsFiniteSet(Request), TypeOK, TypeOK', NEW r \in Request, NEW p \in Path,
           RowExact(p), Only(r, p),
           Units(r, p)' = Units(r, p) + 1,
           p \in acquiredExclusive'[r] <=> p \in acquiredExclusive[r],
           p \in rows',
           \/ p \in rows /\ lock[p] # -1 /\ lock'[p] = lock[p] + 1
           \/ p \notin rows /\ lock'[p] = 1
    PROVE  RowExact(p)'
<1>1. Owners(p)' = Owners(p) /\ Owners(p) = {}
  BY DEF Owners, RowExact, Only
<1>2. /\ UnitsAt(p) \in [Request -> 0..MaxShared] /\ Tokens(p) = Tok(UnitsAt(p))
      /\ UnitsAt(p)' \in [Request -> 0..MaxShared] /\ Tokens(p)' = Tok(UnitsAt(p)')
  <2>1. UnitsAt(p) \in [Request -> 0..MaxShared] /\ Tokens(p) = Tok(UnitsAt(p))
    BY UnitsType
  <2>2. (UnitsAt(p) \in [Request -> 0..MaxShared] /\ Tokens(p) = Tok(UnitsAt(p)))'
    BY UnitsType, PTL
  <2> QED
    BY <2>1, <2>2 DEF Tok
<1>3. /\ UnitsAt(p)'[r] = UnitsAt(p)[r] + 1
      /\ \A q \in Request : q # r => UnitsAt(p)'[q] = UnitsAt(p)[q]
  BY DEF UnitsAt, Only
<1>4. Cardinality(Tokens(p)') = Cardinality(Tokens(p)) + 1
  BY <1>2, <1>3, TokGain
<1>5. Cardinality(Tokens(p)) \in Nat
  BY <1>2, TokFinite, FS_CardinalityType
<1>6. CASE p \in rows
  <2>1. lock[p] = Cardinality(Tokens(p))
    BY <1>6 DEF RowExact
  <2> QED
    BY <2>1, <1>1, <1>4, <1>5, <1>6 DEF RowExact
<1>7. CASE p \notin rows
  <2>1. Cardinality(Tokens(p)) = 0
    BY <1>7, FS_EmptySet DEF RowExact
  <2> QED
    BY <2>1, <1>1, <1>4, <1>7 DEF RowExact
<1> QED
  BY <1>6, <1>7

(* A request gives one of its units back. *)
LEMMA RowLose ==
    ASSUME IsFiniteSet(Request), TypeOK, TypeOK', NEW r \in Request, NEW p \in Path,
           RowExact(p),
           Units(r, p) > 0,
           Units(r, p)' = Units(r, p) - 1,
           \A q \in Request : q # r => Units(q, p)' = Units(q, p),
           \A q \in Request : p \in acquiredExclusive'[q] <=> p \in acquiredExclusive[q],
           p \in rows' <=> p \in rows,
           lock'[p] = IF p \in rows /\ lock[p] > 0 THEN lock[p] - 1 ELSE lock[p]
    PROVE  RowExact(p)'
<1>1. Owners(p)' = Owners(p)
  BY DEF Owners
<1>2. /\ UnitsAt(p) \in [Request -> 0..MaxShared] /\ Tokens(p) = Tok(UnitsAt(p))
      /\ UnitsAt(p)' \in [Request -> 0..MaxShared] /\ Tokens(p)' = Tok(UnitsAt(p)')
  <2>1. UnitsAt(p) \in [Request -> 0..MaxShared] /\ Tokens(p) = Tok(UnitsAt(p))
    BY UnitsType
  <2>2. (UnitsAt(p) \in [Request -> 0..MaxShared] /\ Tokens(p) = Tok(UnitsAt(p)))'
    BY UnitsType, PTL
  <2> QED
    BY <2>1, <2>2 DEF Tok
<1>3. /\ UnitsAt(p)[r] = UnitsAt(p)'[r] + 1
      /\ \A q \in Request : q # r => UnitsAt(p)[q] = UnitsAt(p)'[q]
  <2>1. Units(r, p) \in 0..MaxShared /\ MaxShared \in Nat
    BY <1>2, ConstantsOK DEF UnitsAt
  <2> QED
    BY <2>1 DEF UnitsAt
<1>4. Cardinality(Tokens(p)) = Cardinality(Tokens(p)') + 1
  BY <1>2, <1>3, TokGain
<1>5. Cardinality(Tokens(p)') \in Nat
  BY <1>2, TokFinite, FS_CardinalityType
<1>6. Tokens(p) # {}
  <2>1. Units(r, p) # 0
    BY <1>2, ConstantsOK DEF UnitsAt
  <2> QED
    BY <2>1, NoUnits
<1> QED
  BY <1>1, <1>4, <1>5, <1>6 DEF RowExact

(* A counter that is 0, or no row: the path is free. *)
LEMMA RowFree ==
    ASSUME IsFiniteSet(Request), TypeOK, NEW p \in Path, RowExact(p),
           p \notin rows \/ lock[p] = 0
    PROVE  /\ \A q \in Request : Units(q, p) = 0
           /\ Owners(p) = {}
<1>1. Tokens(p) = Tok(UnitsAt(p))
  BY UnitsType
<1>2. IsFiniteSet(Tokens(p))
  BY <1>1, TokFinite
<1>3. Tokens(p) = {} /\ Owners(p) = {}
  BY <1>2, FS_EmptySet DEF RowExact
<1> QED
  BY <1>3, NoUnits

(* The owner of a path is alone on it. *)
LEMMA RowOwner ==
    ASSUME TypeOK, NEW r \in Request, NEW p \in Path, RowExact(p), p \in acquiredExclusive[r]
    PROVE  /\ p \in rows /\ lock[p] = -1
           /\ Owners(p) = {r}
           /\ \A q \in Request : Units(q, p) = 0
<1>1. r \in Owners(p)
  BY DEF Owners
<1>2. p \in rows /\ lock[p] = -1 /\ Tokens(p) = {} /\ Owners(p) = {r}
  BY <1>1 DEF RowExact
<1> QED
  BY <1>2, NoUnits

(* A counter of 1 is the unit of the request that has one. *)
LEMMA RowSole ==
    ASSUME IsFiniteSet(Request), TypeOK, NEW r \in Request, NEW p \in Path, RowExact(p),
           p \in rows, lock[p] = 1, Units(r, p) > 0
    PROVE  /\ Units(r, p) = 1
           /\ \A q \in Request : q # r => Units(q, p) = 0
           /\ Owners(p) = {}
<1>1. Cardinality(Tokens(p)) = 1 /\ Owners(p) = {}
  BY DEF RowExact
<1>2. UnitsAt(p) \in [Request -> 0..MaxShared] /\ Tokens(p) = Tok(UnitsAt(p))
  BY UnitsType
<1>3. UnitsAt(p)[r] > 0
  BY DEF UnitsAt
<1>4. UnitsAt(p)[r] = 1 /\ \A q \in Request : q # r => UnitsAt(p)[q] = 0
  BY <1>1, <1>2, <1>3, TokSingle
<1> QED
  BY <1>1, <1>4 DEF UnitsAt

(* A request locks a path exclusively on which nobody else has anything. *)
LEMMA RowTake ==
    ASSUME TypeOK', NEW r \in Request, NEW p \in Path,
           Owners(p) = {}, \A q \in Request : q # r => Units(q, p) = 0,
           Only(r, p), Units(r, p)' = 0, p \in acquiredExclusive'[r],
           p \in rows', lock'[p] = -1
    PROVE  RowExact(p)'
<1>1. Owners(p)' = {r}
  BY DEF Owners, Only
<1>2. \A q \in Request : Units(q, p)' = 0
  BY DEF Only
<1>3. (TypeOK => (Tokens(p) = {} <=> \A q \in Request : Units(q, p) = 0))'
  BY NoUnits, PTL
<1>4. Tokens(p)' = {}
  BY <1>2, <1>3
<1> QED
  BY <1>1, <1>4 DEF RowExact

(* The owner of a path releases it. *)
LEMMA RowDrop ==
    ASSUME TypeOK, TypeOK', NEW r \in Request, NEW p \in Path,
           RowExact(p), p \in acquiredExclusive[r],
           Only(r, p), Units(r, p)' = Units(r, p), p \notin acquiredExclusive'[r],
           p \in rows', lock'[p] = 0
    PROVE  RowExact(p)'
<1>1. Owners(p) = {r} /\ \A q \in Request : Units(q, p) = 0
  BY RowOwner
<1>2. Owners(p)' = {}
  BY <1>1 DEF Owners, Only
<1>3. \A q \in Request : Units(q, p)' = 0
  BY <1>1 DEF Only
<1>4. (TypeOK => (Tokens(p) = {} <=> \A q \in Request : Units(q, p) = 0))'
  BY NoUnits, PTL
<1>5. Tokens(p)' = {}
  BY <1>3, <1>4
<1> QED
  BY <1>2, <1>5, FS_EmptySet DEF RowExact

(* The owner of a path turns its lock into a shared one. *)
LEMMA RowShare ==
    ASSUME IsFiniteSet(Request), TypeOK, TypeOK', NEW r \in Request, NEW p \in Path,
           RowExact(p), p \in acquiredExclusive[r],
           Only(r, p), Units(r, p)' = 1, p \notin acquiredExclusive'[r],
           p \in rows', lock'[p] = 1
    PROVE  RowExact(p)'
<1>1. /\ Owners(p) = {r} /\ \A q \in Request : Units(q, p) = 0
      /\ Tokens(p) = {}
  BY RowOwner, NoUnits
<1>2. Owners(p)' = {}
  BY <1>1 DEF Owners, Only
<1>3. /\ UnitsAt(p) \in [Request -> 0..MaxShared] /\ Tokens(p) = Tok(UnitsAt(p))
      /\ UnitsAt(p)' \in [Request -> 0..MaxShared] /\ Tokens(p)' = Tok(UnitsAt(p)')
  <2>1. UnitsAt(p) \in [Request -> 0..MaxShared] /\ Tokens(p) = Tok(UnitsAt(p))
    BY UnitsType
  <2>2. (UnitsAt(p) \in [Request -> 0..MaxShared] /\ Tokens(p) = Tok(UnitsAt(p)))'
    BY UnitsType, PTL
  <2> QED
    BY <2>1, <2>2 DEF Tok
<1>4. /\ UnitsAt(p)'[r] = UnitsAt(p)[r] + 1
      /\ \A q \in Request : q # r => UnitsAt(p)'[q] = UnitsAt(p)[q]
  BY <1>1 DEF UnitsAt, Only
<1>5. Cardinality(Tokens(p)') = Cardinality(Tokens(p)) + 1
  BY <1>3, <1>4, TokGain
<1>6. Cardinality(Tokens(p)) = 0
  BY <1>1, FS_EmptySet
<1> QED
  BY <1>2, <1>5, <1>6 DEF RowExact

-----------------------------------------------------------------------------
(* What a step does to the life of locks. *)

(* A step that gives nobody a lock and leaves the rows alone. *)
LEMMA LivesOn ==
    ASSUME LiveLocksDoNotExpire, rows' = rows, ttl' = ttl,
           \A q \in Request : Live(q)' => Live(q) /\ age'[q] = age[q],
           \A q \in Request, t \in Path :
              /\ Units(q, t)' > 0 => Units(q, t) > 0
              /\ t \in acquiredExclusive'[q] => t \in acquiredExclusive[q]
    PROVE  LiveLocksDoNotExpire'
BY DEF LiveLocksDoNotExpire

(* A step that renews the row of the only path it concerns. *)
LEMMA Renewed ==
    ASSUME TypeOK, LiveLocksDoNotExpire, NEW r \in Request, NEW p \in Path,
           Only(r, p), mode' = mode, age' = age,
           p \in rows', ttl'[p] \in Int, ttl'[p] >= MaxAge,
           \A t \in Path : t # p => ttl'[t] = ttl[t]
    PROVE  LiveLocksDoNotExpire'
<1>1. \A q \in Request : age[q] \in Nat /\ age'[q] = age[q] /\ (Live(q)' <=> Live(q))
  BY DEF TypeOK, Live
<1>2. MaxAge \in Nat
  BY ConstantsOK
<1>3. ASSUME NEW q \in Request, NEW t \in Path, Live(q)',
             Units(q, t)' > 0 \/ t \in acquiredExclusive'[q]
      PROVE  t \in rows' /\ ttl'[t] >= MaxAge - age'[q]
  <2>1. CASE t = p
    BY <2>1, <1>1, <1>2
  <2>2. CASE t # p
    <3>1. Live(q) /\ (Units(q, t) > 0 \/ t \in acquiredExclusive[q])
      BY <2>2, <1>1, <1>3 DEF Only
    <3> QED
      BY <3>1, <2>2, <1>1 DEF LiveLocksDoNotExpire, Only
  <2> QED
    BY <2>1, <2>2
<1> QED
  BY <1>3 DEF LiveLocksDoNotExpire

-----------------------------------------------------------------------------
(* What a change of the bookkeeping means for the invariant. *)

(* Only units and locks of the request and the path change. *)
LEMMA BookkeepUnits ==
    ASSUME NEW r \in Request, NEW p \in Path, NEW shared, NEW excl, NEW cached,
           Booked(r, p, shared, excl, cached)
    PROVE  /\ Units(r, p)' = IF r \in Caching THEN (IF cached THEN 1 ELSE 0) ELSE shared
           /\ \A q \in Request, t \in Path : <<q, t>> # <<r, p>> =>
                 /\ Units(q, t)' = Units(q, t)
                 /\ t \in acquiredExclusive'[q] <=> t \in acquiredExclusive[q]
BY DEF Units, Booked

(* The bookkeeping of a live request that has no statement to send (any    *)
(* more) keeps the parts of the invariant about single requests.           *)
LEMMA BookkeepStep ==
    ASSUME TypeOK, KeptLocks, PendingOK, LifeOK,
           NEW r \in Request, NEW p \in Path, NEW shared,
           NEW excl, NEW cached,
           Booked(r, p, shared, excl, cached),
           Live(r), mode' = mode, age' = age,
           pending' = [pending EXCEPT ![r] = NoStatement],
           cached => r \in Caching /\ p \in SharedPath,
           r \in Caching /\ shared > 0 => cached
    PROVE  /\ pending' \in [Request -> Statement \cup {NoStatement}]
           /\ KeptLocks' /\ PendingOK' /\ LifeOK'
<1>1. /\ acquiredShared'[r][p] = shared
      /\ p \in acquiredExclusive'[r] <=> excl
      /\ p \in sharedLocks'[r] <=> cached
      /\ sharedLocks' \in [Request -> SUBSET Path]
      /\ \A q \in Request, t \in Path : <<q, t>> # <<r, p>> =>
            /\ acquiredShared'[q][t] = acquiredShared[q][t]
            /\ t \in acquiredExclusive'[q] <=> t \in acquiredExclusive[q]
            /\ t \in sharedLocks'[q] <=> t \in sharedLocks[q]
  BY DEF Booked
<1>2. pending' \in [Request -> Statement \cup {NoStatement}]
  BY DEF TypeOK
<1>3. KeptLocks'
  <2>1. ASSUME NEW q \in Request, NEW t \in Path
        PROVE  /\ t \in sharedLocks'[q] => q \in Caching /\ t \in SharedPath
               /\ q \in Caching /\ acquiredShared'[q][t] > 0 => t \in sharedLocks'[q]
    <3>1. CASE <<q, t>> = <<r, p>>
      BY <3>1, <1>1
    <3>2. CASE <<q, t>> # <<r, p>>
      BY <3>2, <1>1 DEF KeptLocks
    <3> QED
      BY <3>1, <3>2
  <2> QED
    BY <2>1, <1>1 DEF KeptLocks
<1>4. PendingOK'
  <2>1. pending'[r] = NoStatement
    BY DEF TypeOK
  <2>2. ASSUME NEW q \in Request, q # r, pending[q] # NoStatement
        PROVE  /\ pending'[q] = pending[q] /\ pending[q].path \in Path
               /\ pending[q].path \in sharedLocks'[q] <=> pending[q].path \in sharedLocks[q]
               /\ acquiredShared'[q][pending[q].path] = acquiredShared[q][pending[q].path]
    <3>1. pending[q] \in Statement /\ pending'[q] = pending[q]
      BY <2>2 DEF TypeOK
    <3>2. pending[q].path \in Path
      BY <3>1 DEF Statement
    <3> QED
      BY <2>2, <3>1, <3>2, <1>1
  <2>3. ASSUME NEW q \in Request, q # r, pending[q] = NoStatement
        PROVE  pending'[q] = NoStatement
    BY <2>3 DEF TypeOK
  <2> QED
    BY <2>1, <2>2, <2>3 DEF PendingOK
<1>5. LifeOK'
  <2>1. mode[r] # "idle" /\ \A q \in Request : Live(q)' <=> Live(q)
    BY DEF Live
  <2>2. ASSUME NEW q \in Request, mode[q] = "idle"
        PROVE  /\ acquiredExclusive'[q] = {} /\ sharedLocks'[q] = {}
               /\ \A t \in Path : acquiredShared'[q][t] = 0
    <3>1. /\ acquiredExclusive[q] = {} /\ sharedLocks[q] = {}
          /\ \A t \in Path : acquiredShared[q][t] = 0
      BY <2>2 DEF LifeOK
    <3>2. q # r
      BY <2>1, <2>2
    <3>3. acquiredExclusive'[q] \subseteq Path /\ sharedLocks'[q] \subseteq Path
      BY DEF Booked
    <3> QED
      BY <1>1, <3>1, <3>2, <3>3
  <2> QED
    BY <2>1, <2>2 DEF LifeOK
<1> QED
  BY <1>2, <1>3, <1>4, <1>5

-----------------------------------------------------------------------------
(* The steps. *)

(* The assumptions on the constants under which the provider is correct.   *)
Assumptions == IsFiniteSet(Request) /\ PathsSeparated /\ RequestsShort

(* Initially there is no row, and nobody holds anything. *)
LEMMA InitIInv == Init => IInv
<1> SUFFICES ASSUME Init PROVE IInv
  OBVIOUS
<1>1. MaxShared \in Nat \ {0}
  BY ConstantsOK
<1>2. TypeOK
  BY <1>1 DEF Init, TypeOK
<1>3. \A r \in Request, p \in Path : Units(r, p) = 0
  BY DEF Init, Units
<1>4. KeptLocks /\ PendingOK /\ LifeOK
  BY DEF Init, KeptLocks, PendingOK, LifeOK, Live
<1>5. RowIsExact
  BY <1>2, <1>3, NoUnits DEF Init, RowIsExact, RowExact, Owners
<1>6. LiveLocksDoNotExpire
  BY DEF Init, LiveLocksDoNotExpire, Live
<1> QED
  BY <1>2, <1>4, <1>5, <1>6 DEF IInv

(* A row that has just been written outlives the request. *)
LEMMA FreshRow ==
    ASSUME RequestsShort, NEW a \in Nat, a <= MaxAge, NEW e \in Int, e >= TTL - a
    PROVE  e >= MaxAge
BY ConstantsOK DEF RequestsShort

(* A request without a statement to send: UNCHANGED pending *)
LEMMA NothingPending ==
    ASSUME TypeOK, PendingOK, NEW r \in Request, mode[r] # "running" \/ pending[r] = NoStatement
    PROVE  pending = [pending EXCEPT ![r] = NoStatement]
<1>1. pending[r] = NoStatement
  BY DEF PendingOK
<1> QED
  BY <1>1 DEF TypeOK

(* A shared lock in the table is granted. *)
LEMMA GainStep ==
    ASSUME Assumptions, IInv, NEW r \in Request, NEW p \in Path, NEW e \in Int, NEW v \in Int,
           Live(r), p \in SharedPath \ sharedLocks[r], acquiredShared[r][p] < MaxShared,
           MarkAcquireShared(r, p),
           \/ p \in rows /\ lock[p] >= 0 /\ v = lock[p] + 1
           \/ p \notin rows /\ v = 1,
           rows' = rows \cup {p},
           lock' = [lock EXCEPT ![p] = v],
           ttl' = [ttl EXCEPT ![p] = e], e >= MaxAge,
           pending' = [pending EXCEPT ![r] = NoStatement],
           mode' = mode, age' = age
    PROVE  IInv'
<1> DEFINE shared == acquiredShared[r][p] + 1
           excl == p \in acquiredExclusive[r]
           cached == r \in Caching
<1>1. /\ TypeOK /\ KeptLocks /\ PendingOK /\ LifeOK /\ RowIsExact /\ LiveLocksDoNotExpire
      /\ IsFiniteSet(Request)
  BY DEF IInv, Assumptions
<1>2. /\ acquiredShared[r][p] \in 0..MaxShared /\ MaxShared \in Nat \ {0}
      /\ shared \in 0..MaxShared /\ excl \in BOOLEAN /\ cached \in BOOLEAN
      /\ Bookkeep(r, p, shared, excl, cached)
  <2>1. acquiredShared[r][p] \in 0..MaxShared /\ MaxShared \in Nat \ {0}
    BY <1>1, ConstantsOK DEF TypeOK
  <2> QED
    BY <2>1 DEF MarkAcquireShared
<1> HIDE DEF shared, excl, cached
<1>0. Booked(r, p, shared, excl, cached)
  BY <1>1, <1>2, BookkeepFacts
<1>3. /\ pending' \in [Request -> Statement \cup {NoStatement}]
      /\ KeptLocks' /\ PendingOK' /\ LifeOK'
  BY <1>0, <1>1, <1>2, BookkeepStep DEF cached
<1>4. TypeOK'
  BY <1>0, <1>1, <1>3 DEF TypeOK, Booked
<1>5. /\ Units(r, p)' = IF r \in Caching THEN 1 ELSE shared
      /\ \A q \in Request, t \in Path : <<q, t>> # <<r, p>> =>
            /\ Units(q, t)' = Units(q, t)
            /\ t \in acquiredExclusive'[q] <=> t \in acquiredExclusive[q]
      /\ p \in acquiredExclusive'[r] <=> p \in acquiredExclusive[r]
  <2>1. /\ Units(r, p)' = IF r \in Caching THEN (IF cached THEN 1 ELSE 0) ELSE shared
        /\ \A q \in Request, t \in Path : <<q, t>> # <<r, p>> =>
              /\ Units(q, t)' = Units(q, t)
              /\ t \in acquiredExclusive'[q] <=> t \in acquiredExclusive[q]
    BY <1>0, BookkeepUnits
  <2>2. p \in acquiredExclusive'[r] <=> p \in acquiredExclusive[r]
    BY <1>0 DEF Booked, excl
  <2> QED
    BY <2>1, <2>2 DEF cached
<1>6. Only(r, p) /\ lock'[p] = v /\ ttl'[p] = e /\ \A t \in Path : t # p => ttl'[t] = ttl[t]
  BY <1>1, <1>5 DEF Only, TypeOK
<1>7. Units(r, p)' = Units(r, p) + 1
  BY <1>2, <1>5 DEF Units, cached, shared
<1>8. RowExact(p)'
  <2>1. RowExact(p) /\ p \in rows' /\ (p \in rows => lock[p] # -1)
    BY <1>1 DEF RowIsExact
  <2> QED
    BY <2>1, <1>1, <1>4, <1>5, <1>6, <1>7, RowGain
<1>9. RowIsExact'
  BY <1>1, <1>6, <1>8, OnlyFrame
<1>10. LiveLocksDoNotExpire'
  BY <1>1, <1>6, Renewed
<1> QED
  BY <1>3, <1>4, <1>9, <1>10 DEF IInv

(* An exclusive lock is granted: nobody else has anything. *)
LEMMA TakeStep ==
    ASSUME Assumptions, IInv, NEW r \in Request, NEW p \in Path, NEW e \in Int,
           NEW shared, shared = 0, NEW excl, excl, NEW cached, ~cached,
           Live(r), Booked(r, p, shared, excl, cached),
           Owners(p) = {}, \A q \in Request : q # r => Units(q, p) = 0,
           rows' = rows \cup {p},
           lock' = [lock EXCEPT ![p] = -1],
           ttl' = [ttl EXCEPT ![p] = e], e >= MaxAge,
           pending' = [pending EXCEPT ![r] = NoStatement],
           mode' = mode, age' = age
    PROVE  IInv'
<1>1. /\ TypeOK /\ KeptLocks /\ PendingOK /\ LifeOK /\ RowIsExact /\ LiveLocksDoNotExpire
      /\ IsFiniteSet(Request)
  BY DEF IInv, Assumptions
<1>2. /\ pending' \in [Request -> Statement \cup {NoStatement}]
      /\ KeptLocks' /\ PendingOK' /\ LifeOK'
  <2>1. /\ cached => r \in Caching /\ p \in SharedPath
        /\ r \in Caching /\ shared > 0 => cached
    OBVIOUS
  <2> QED
    BY <1>1, <2>1, BookkeepStep
<1>3. TypeOK'
  BY <1>1, <1>2 DEF TypeOK, Booked
<1>4. /\ Units(r, p)' = 0 /\ p \in acquiredExclusive'[r]
      /\ \A q \in Request, t \in Path : <<q, t>> # <<r, p>> =>
            /\ Units(q, t)' = Units(q, t)
            /\ t \in acquiredExclusive'[q] <=> t \in acquiredExclusive[q]
  BY BookkeepUnits DEF Booked
<1>5. /\ Only(r, p) /\ p \in rows' /\ lock'[p] = -1
      /\ ttl'[p] = e /\ \A t \in Path : t # p => ttl'[t] = ttl[t]
  BY <1>1, <1>4 DEF Only, TypeOK
<1>6. RowExact(p)'
  BY <1>3, <1>4, <1>5, RowTake
<1>7. RowIsExact'
  BY <1>1, <1>5, <1>6, OnlyFrame
<1>8. LiveLocksDoNotExpire'
  BY <1>1, <1>5, Renewed
<1> QED
  BY <1>2, <1>3, <1>7, <1>8 DEF IInv

(* acquireLock(p, LOCK_SHARED) of a request that keeps a unit. *)
LEMMA ReuseSharedStep ==
    ASSUME Assumptions, IInv, NEW r \in Request, NEW p \in Path, ReuseShared(r, p)
    PROVE  IInv'
<1> DEFINE shared == acquiredShared[r][p] + 1
           excl == p \in acquiredExclusive[r]
           cached == r \in Caching
<1>1. /\ TypeOK /\ KeptLocks /\ PendingOK /\ LifeOK /\ RowIsExact /\ LiveLocksDoNotExpire
      /\ Live(r) /\ mode' = mode /\ age' = age /\ rows' = rows /\ lock' = lock /\ ttl' = ttl
  BY DEF IInv, ReuseShared, table, Ready, Live
<1>2. shared \in 0..MaxShared /\ excl \in BOOLEAN /\ cached \in BOOLEAN
  <2>1. acquiredShared[r][p] \in 0..MaxShared /\ MaxShared \in Nat
    BY <1>1, ConstantsOK DEF TypeOK
  <2> QED
    BY <2>1 DEF ReuseShared
<1>3. /\ Bookkeep(r, p, shared, excl, cached)
      /\ r \in Caching /\ p \in SharedPath /\ p \in sharedLocks[r]
  BY <1>1 DEF ReuseShared, MarkAcquireShared, KeptLocks
<1>4. pending' = [pending EXCEPT ![r] = NoStatement]
  BY <1>1, NothingPending DEF ReuseShared, Ready
<1> HIDE DEF shared, excl, cached
<1>5. Booked(r, p, shared, excl, cached)
  BY <1>1, <1>2, <1>3, BookkeepFacts
<1>6. /\ pending' \in [Request -> Statement \cup {NoStatement}]
      /\ KeptLocks' /\ PendingOK' /\ LifeOK'
  BY <1>1, <1>3, <1>4, <1>5, BookkeepStep DEF cached
<1>7. TypeOK'
  BY <1>1, <1>5, <1>6 DEF TypeOK, Booked
<1>8. \A q \in Request, t \in Path :
         /\ Units(q, t)' = Units(q, t)
         /\ t \in acquiredExclusive'[q] <=> t \in acquiredExclusive[q]
  <2>1. /\ Units(r, p)' = IF r \in Caching THEN (IF cached THEN 1 ELSE 0) ELSE shared
        /\ \A q \in Request, t \in Path : <<q, t>> # <<r, p>> =>
              /\ Units(q, t)' = Units(q, t)
              /\ t \in acquiredExclusive'[q] <=> t \in acquiredExclusive[q]
    BY <1>5, BookkeepUnits
  <2>2. Units(r, p)' = Units(r, p)
    BY <2>1, <1>3 DEF cached, Units
  <2>3. p \in acquiredExclusive'[r] <=> p \in acquiredExclusive[r]
    BY <1>5 DEF Booked, excl
  <2> QED
    BY <2>1, <2>2, <2>3
<1>9. RowIsExact'
  BY <1>1, <1>8, Frame DEF RowIsExact
<1>10. LiveLocksDoNotExpire'
  <2>1. \A q \in Request : Live(q)' => Live(q)
    BY <1>1 DEF Live
  <2> QED
    BY <2>1, <1>1, <1>8, LivesOn
<1> QED
  BY <1>6, <1>7, <1>9, <1>10 DEF IInv

(* acquireLock(p, LOCK_SHARED) whose INSERT creates the row. *)
LEMMA InsertSharedStep ==
    ASSUME Assumptions, IInv, NEW r \in Request, NEW p \in Path, InsertShared(r, p)
    PROVE  IInv'
<1>1. TypeOK /\ PendingOK /\ Live(r) /\ TTL \in Nat /\ TTL >= MaxAge
  BY ConstantsOK DEF IInv, InsertShared, Ready, Live, Assumptions, RequestsShort
<1>2. pending' = [pending EXCEPT ![r] = NoStatement]
  BY <1>1, NothingPending DEF InsertShared, Ready
<1>3. /\ p \in SharedPath \ sharedLocks[r] /\ acquiredShared[r][p] < MaxShared
      /\ MarkAcquireShared(r, p)
      /\ p \notin rows /\ rows' = rows \cup {p}
      /\ lock' = [lock EXCEPT ![p] = 1] /\ ttl' = [ttl EXCEPT ![p] = TTL]
      /\ mode' = mode /\ age' = age
  BY DEF InsertShared, Insert
<1>4. \/ p \in rows /\ lock[p] >= 0 /\ 1 = lock[p] + 1
      \/ p \notin rows /\ 1 = 1
  BY <1>3
<1>5. TTL \in Int /\ 1 \in Int
  BY <1>1
<1> QED
  BY <1>1, <1>2, <1>3, <1>4, <1>5, GainStep

(* acquireLock(p, LOCK_EXCLUSIVE) whose INSERT creates the row. *)
LEMMA InsertExclusiveStep ==
    ASSUME Assumptions, IInv, NEW r \in Request, NEW p \in Path, InsertExclusive(r, p)
    PROVE  IInv'
<1> DEFINE shared == acquiredShared[r][p]
           excl == TRUE
           cached == p \in sharedLocks[r]
<1>1. /\ TypeOK /\ PendingOK /\ KeptLocks /\ RowExact(p) /\ IsFiniteSet(Request)
      /\ Live(r) /\ TTL \in Nat /\ TTL >= MaxAge
  BY ConstantsOK DEF IInv, InsertExclusive, Ready, Live, Assumptions, RequestsShort, RowIsExact
<1>2. pending' = [pending EXCEPT ![r] = NoStatement]
  BY <1>1, NothingPending DEF InsertExclusive, Ready
<1>3. /\ Bookkeep(r, p, shared, excl, cached)
      /\ p \notin rows /\ rows' = rows \cup {p}
      /\ lock' = [lock EXCEPT ![p] = -1] /\ ttl' = [ttl EXCEPT ![p] = TTL]
      /\ mode' = mode /\ age' = age
  BY DEF InsertExclusive, Insert, MarkAcquireExclusive
<1>4. Owners(p) = {} /\ \A q \in Request : Units(q, p) = 0
  BY <1>1, <1>3, RowFree
<1>5. shared = 0 /\ ~cached /\ shared \in 0..MaxShared
  BY <1>1, <1>4 DEF Units, KeptLocks, TypeOK
<1>6. excl /\ excl \in BOOLEAN /\ cached \in BOOLEAN
  OBVIOUS
<1> HIDE DEF shared, excl, cached
<1>7. Booked(r, p, shared, excl, cached)
  BY <1>1, <1>3, <1>5, <1>6, BookkeepFacts
<1>8. TTL \in Int /\ \A q \in Request : q # r => Units(q, p) = 0
  BY <1>1, <1>4
<1> QED
  BY <1>1, <1>2, <1>3, <1>4, <1>5, <1>6, <1>7, <1>8, TakeStep

(* A step that touches neither the table nor the bookkeeping. *)
LEMMA QuietStep ==
    ASSUME IInv, UNCHANGED <<table, local>>
    PROVE  /\ KeptLocks' /\ RowIsExact'
           /\ \A q \in Request, t \in Path : Units(q, t)' = Units(q, t)
<1>1. KeptLocks'
  BY DEF IInv, KeptLocks, local
<1>2. \A q \in Request, t \in Path : Units(q, t)' = Units(q, t)
  BY DEF Units, local
<1>3. RowIsExact'
  BY <1>2, Frame DEF IInv, RowIsExact, table, local
<1> QED
  BY <1>1, <1>2, <1>3

(* acquireLock whose INSERT finds a row. *)
LEMMA InsertConflictStep ==
    ASSUME Assumptions, IInv, NEW r \in Request, NEW p \in Path,
           NEW type \in {"shared", "exclusive"}, InsertConflict(r, p, type)
    PROVE  IInv'
<1>1. /\ TypeOK /\ PendingOK /\ KeptLocks /\ LifeOK /\ LiveLocksDoNotExpire
      /\ mode' = mode /\ age' = age /\ UNCHANGED <<table, local>>
      /\ mode[r] = "running" /\ age[r] \in Nat /\ TTL \in Nat
  BY ConstantsOK DEF IInv, InsertConflict, Ready, TypeOK
<1> DEFINE existing == IF type = "exclusive" /\ acquiredShared[r][p] = 0 /\ p \in sharedLocks[r]
                       THEN 1 ELSE 0
           statement == [type |-> type, path |-> p, existing |-> existing, expire |-> TTL]
<1>2. pending' = [pending EXCEPT ![r] = statement]
  BY DEF InsertConflict
<1>3. type = "exclusive" => existing = 0
  <2>1. ASSUME type = "exclusive", p \in sharedLocks[r]
        PROVE  FALSE
    <3>1. p \in ExclusivePath
      BY <2>1 DEF InsertConflict
    <3>2. r \in Caching /\ p \in SharedPath
      BY <2>1, <1>1 DEF KeptLocks
    <3> QED
      BY <3>1, <3>2 DEF Assumptions, PathsSeparated
  <2> QED
    BY <2>1
<1>4. statement \in Statement
  BY <1>1 DEF Statement
<1>5. TypeOK'
  BY <1>1, <1>2, <1>4 DEF TypeOK, table, local
<1>6. /\ pending'[r] = statement
      /\ \A q \in Request : q # r => pending'[q] = pending[q]
  BY <1>1, <1>2 DEF TypeOK
<1>7. PendingOK'
  <2>1. type = "shared" => p \in SharedPath \ sharedLocks[r] /\ acquiredShared[r][p] < MaxShared
    BY DEF InsertConflict
  <2>2. /\ statement.type = type /\ statement.path = p
        /\ statement.existing = existing /\ statement.expire = TTL
    OBVIOUS
  <2>3. TTL >= TTL - age[r]
    BY <1>1
  <2> HIDE DEF statement, existing
  <2> QED
    BY <2>1, <2>2, <2>3, <1>1, <1>3, <1>6 DEF PendingOK, local
<1>8. LifeOK'
  BY <1>1 DEF LifeOK, Live, local
<1>9. KeptLocks' /\ RowIsExact' /\ \A q \in Request, t \in Path : Units(q, t)' = Units(q, t)
  BY <1>1, QuietStep
<1>10. LiveLocksDoNotExpire'
  BY <1>1, <1>9, LivesOn DEF table, local, Live
<1> QED
  BY <1>5, <1>7, <1>8, <1>9, <1>10 DEF IInv

(* acquireLock(p, LOCK_SHARED) whose UPDATE finds a row it may share. *)
LEMMA UpdateSharedStep ==
    ASSUME Assumptions, IInv, NEW r \in Request, UpdateShared(r)
    PROVE  IInv'
<1>1. TypeOK /\ PendingOK /\ LifeOK /\ Live(r) /\ pending[r].type = "shared" /\ RequestsShort
  BY DEF IInv, UpdateShared, Assumptions
<1>2. pending[r] \in Statement /\ pending[r] # NoStatement
  BY <1>1 DEF TypeOK, NoStatement
<1>3. PICK p \in Path, e \in Int : p = pending[r].path /\ e = pending[r].expire
  BY <1>2 DEF Statement
<1>4. p \in SharedPath \ sharedLocks[r] /\ acquiredShared[r][p] < MaxShared /\ e >= TTL - age[r]
  BY <1>1, <1>2, <1>3 DEF PendingOK
<1>5. e >= MaxAge
  BY <1>1, <1>4, FreshRow DEF LifeOK, TypeOK
<1>6. lock[p] \in Int
  BY <1>1 DEF TypeOK
<1>7. PICK v \in Int : v = lock[p] + 1
  BY <1>6
<1>8. /\ MarkAcquireShared(r, p)
      /\ p \in rows /\ lock[p] >= 0 /\ rows' = rows \cup {p}
      /\ lock' = [lock EXCEPT ![p] = v] /\ ttl' = [ttl EXCEPT ![p] = e]
      /\ pending' = [pending EXCEPT ![r] = NoStatement]
      /\ mode' = mode /\ age' = age
  BY <1>3, <1>7 DEF UpdateShared, Update
<1>9. \/ p \in rows /\ lock[p] >= 0 /\ v = lock[p] + 1
      \/ p \notin rows /\ v = 1
  BY <1>7, <1>8
<1> QED
  BY <1>1, <1>4, <1>5, <1>7, <1>8, <1>9, GainStep

(* acquireLock(p, LOCK_EXCLUSIVE) whose UPDATE finds a free row. *)
LEMMA UpdateExclusiveStep ==
    ASSUME Assumptions, IInv, NEW r \in Request, UpdateExclusive(r)
    PROVE  IInv'
<1>1. /\ TypeOK /\ PendingOK /\ LifeOK /\ KeptLocks /\ Live(r) /\ pending[r].type = "exclusive"
      /\ RequestsShort /\ IsFiniteSet(Request)
  BY DEF IInv, UpdateExclusive, Assumptions
<1>2. pending[r] \in Statement /\ pending[r] # NoStatement
  BY <1>1 DEF TypeOK, NoStatement
<1>3. PICK p \in Path, e \in Int : p = pending[r].path /\ e = pending[r].expire
  BY <1>2 DEF Statement
<1> DEFINE shared == acquiredShared[r][p]
           excl == TRUE
           cached == p \in sharedLocks[r]
<1>4. pending[r].existing = 0 /\ e >= TTL - age[r]
  BY <1>1, <1>2, <1>3 DEF PendingOK
<1>5. e >= MaxAge
  BY <1>1, <1>4, FreshRow DEF LifeOK, TypeOK
<1>6. /\ Bookkeep(r, p, shared, excl, cached)
      /\ p \in rows /\ lock[p] = 0 /\ rows' = rows \cup {p}
      /\ lock' = [lock EXCEPT ![p] = -1] /\ ttl' = [ttl EXCEPT ![p] = e]
      /\ pending' = [pending EXCEPT ![r] = NoStatement]
      /\ mode' = mode /\ age' = age
  BY <1>3, <1>4 DEF UpdateExclusive, Update, MarkAcquireExclusive
<1>7. RowExact(p)
  BY <1>3 DEF IInv, RowIsExact
<1>8. Owners(p) = {} /\ \A q \in Request : Units(q, p) = 0
  BY <1>1, <1>3, <1>6, <1>7, RowFree
<1>9. shared = 0 /\ ~cached /\ shared \in 0..MaxShared
  BY <1>1, <1>3, <1>8 DEF Units, KeptLocks, TypeOK
<1>10. excl /\ excl \in BOOLEAN /\ cached \in BOOLEAN
  OBVIOUS
<1> HIDE DEF shared, excl, cached
<1>11. Booked(r, p, shared, excl, cached)
  BY <1>1, <1>3, <1>6, <1>9, <1>10, BookkeepFacts
<1>12. \A q \in Request : q # r => Units(q, p) = 0
  BY <1>8
<1> QED
  BY <1>1, <1>3, <1>5, <1>6, <1>8, <1>9, <1>10, <1>11, <1>12, TakeStep

(* releaseLock(p, LOCK_SHARED) *)
LEMMA ReleaseSharedStep ==
    ASSUME Assumptions, IInv, NEW r \in Request, NEW p \in Path, ReleaseShared(r, p)
    PROVE  IInv'
<1> DEFINE shared == acquiredShared[r][p] - 1
           excl == p \in acquiredExclusive[r]
           cached == p \in sharedLocks[r]
<1>1. /\ TypeOK /\ KeptLocks /\ PendingOK /\ LifeOK /\ RowIsExact /\ LiveLocksDoNotExpire
      /\ IsFiniteSet(Request) /\ Live(r)
      /\ mode' = mode /\ age' = age /\ rows' = rows /\ ttl' = ttl
  BY DEF IInv, Assumptions, ReleaseShared, MayRelease, Ready, Live, table, UpdateLockWhere
<1>2. /\ shared \in 0..MaxShared /\ acquiredShared[r][p] \in 0..MaxShared
      /\ acquiredShared[r][p] > 0 /\ excl \in BOOLEAN /\ cached \in BOOLEAN
  <2>1. acquiredShared[r][p] \in 0..MaxShared /\ MaxShared \in Nat
    BY <1>1, ConstantsOK DEF TypeOK
  <2> QED
    BY <2>1 DEF ReleaseShared
<1>3. /\ Bookkeep(r, p, shared, excl, cached)
      /\ cached => r \in Caching /\ p \in SharedPath
      /\ r \in Caching => cached
  BY <1>1, <1>2 DEF ReleaseShared, MarkReleaseShared, KeptLocks
<1>4. pending' = [pending EXCEPT ![r] = NoStatement]
  BY <1>1, NothingPending DEF ReleaseShared, MayRelease, Ready
<1>5. /\ r \in Caching => lock' = lock
      /\ r \notin Caching =>
            lock' = IF p \in rows /\ lock[p] > 0 THEN [lock EXCEPT ![p] = lock[p] - 1] ELSE lock
  BY DEF ReleaseShared, UpdateLockWhere, table
<1>6. /\ lock' \in [Path -> Int]
      /\ \A t \in Path : t # p => lock'[t] = lock[t]
      /\ r \notin Caching =>
            lock'[p] = IF p \in rows /\ lock[p] > 0 THEN lock[p] - 1 ELSE lock[p]
  BY <1>1, <1>5 DEF TypeOK
<1>7. Units(r, p) = IF r \in Caching THEN (IF cached THEN 1 ELSE 0) ELSE shared + 1
  BY <1>2 DEF Units
<1> HIDE DEF shared, excl, cached
<1>8. Booked(r, p, shared, excl, cached)
  BY <1>1, <1>2, <1>3, BookkeepFacts
<1>9. /\ pending' \in [Request -> Statement \cup {NoStatement}]
      /\ KeptLocks' /\ PendingOK' /\ LifeOK'
  BY <1>1, <1>3, <1>4, <1>8, BookkeepStep
<1>10. TypeOK'
  BY <1>1, <1>6, <1>8, <1>9 DEF TypeOK, Booked
<1>11. /\ Units(r, p)' = IF r \in Caching THEN (IF cached THEN 1 ELSE 0) ELSE shared
       /\ \A q \in Request, t \in Path : <<q, t>> # <<r, p>> =>
             /\ Units(q, t)' = Units(q, t)
             /\ t \in acquiredExclusive'[q] <=> t \in acquiredExclusive[q]
  BY <1>8, BookkeepUnits
<1>12. p \in acquiredExclusive'[r] <=> p \in acquiredExclusive[r]
  BY <1>8 DEF Booked, excl
<1>13. Only(r, p)
  BY <1>1, <1>6, <1>11 DEF Only
<1>14. \A q \in Request : p \in acquiredExclusive'[q] <=> p \in acquiredExclusive[q]
  BY <1>11, <1>12
<1>15. RowExact(p)'
  <2>1. RowExact(p)
    BY <1>1 DEF RowIsExact
  <2>2. CASE r \in Caching
    <3>1. lock'[p] = lock[p] /\ \A q \in Request : Units(q, p)' = Units(q, p)
      BY <2>2, <1>5, <1>7, <1>11
    <3> QED
      BY <2>1, <3>1, <1>1, <1>14, Frame
  <2>3. CASE r \notin Caching
    <3>1. Units(r, p) > 0 /\ Units(r, p)' = Units(r, p) - 1
      BY <2>3, <1>2, <1>7, <1>11
    <3>2. \A q \in Request : q # r => Units(q, p)' = Units(q, p)
      BY <1>11
    <3>3. lock'[p] = IF p \in rows /\ lock[p] > 0 THEN lock[p] - 1 ELSE lock[p]
      BY <2>3, <1>6
    <3> QED
      BY <2>1, <3>1, <3>2, <3>3, <1>1, <1>10, <1>14, RowLose
  <2> QED
    BY <2>2, <2>3
<1>16. RowIsExact'
  BY <1>1, <1>13, <1>15, OnlyFrame
<1>17. LiveLocksDoNotExpire'
  <2>1. \A q \in Request : Live(q)' => Live(q) /\ age'[q] = age[q]
    BY <1>1 DEF Live
  <2>2. \A q \in Request, t \in Path :
           /\ Units(q, t)' > 0 => Units(q, t) > 0
           /\ t \in acquiredExclusive'[q] => t \in acquiredExclusive[q]
    <3>1. Units(r, p)' > 0 => Units(r, p) > 0
      BY <1>2, <1>7, <1>11
    <3> QED
      BY <3>1, <1>11, <1>14
  <2> QED
    BY <2>1, <2>2, <1>1, LivesOn
<1> QED
  BY <1>9, <1>10, <1>16, <1>17 DEF IInv

(* releaseLock(p, LOCK_EXCLUSIVE) *)
LEMMA ReleaseExclusiveStep ==
    ASSUME Assumptions, IInv, NEW r \in Request, NEW p \in Path, ReleaseExclusive(r, p)
    PROVE  IInv'
<1> DEFINE shared == acquiredShared[r][p]
           excl == FALSE
           cached == p \in sharedLocks[r]
<1>1. /\ TypeOK /\ KeptLocks /\ PendingOK /\ LifeOK /\ RowIsExact /\ LiveLocksDoNotExpire
      /\ RowExact(p) /\ Live(r) /\ p \in acquiredExclusive[r]
      /\ mode' = mode /\ age' = age /\ rows' = rows /\ ttl' = ttl
  BY DEF IInv, ReleaseExclusive, MayRelease, Ready, Live, UpdateLockWhere, RowIsExact
<1>2. /\ shared \in 0..MaxShared /\ excl \in BOOLEAN /\ cached \in BOOLEAN
      /\ Bookkeep(r, p, shared, excl, cached)
      /\ cached => r \in Caching /\ p \in SharedPath
      /\ r \in Caching /\ shared > 0 => cached
  <2>1. Bookkeep(r, p, shared, excl, cached)
    BY DEF ReleaseExclusive, MarkReleaseExclusive
  <2>2. /\ shared \in 0..MaxShared
        /\ cached => r \in Caching /\ p \in SharedPath
        /\ r \in Caching /\ shared > 0 => cached
    BY <1>1 DEF KeptLocks, TypeOK
  <2>3. excl \in BOOLEAN /\ cached \in BOOLEAN
    OBVIOUS
  <2> HIDE DEF excl, cached
  <2> QED
    BY <2>1, <2>2, <2>3
<1>3. pending' = [pending EXCEPT ![r] = NoStatement]
  BY <1>1, NothingPending DEF ReleaseExclusive, MayRelease, Ready
<1>4. p \in rows /\ lock[p] = -1
  BY <1>1, RowOwner
<1>5. lock' = [lock EXCEPT ![p] = 0]
  BY <1>4 DEF ReleaseExclusive, UpdateLockWhere
<1>6. Units(r, p) = IF r \in Caching THEN (IF cached THEN 1 ELSE 0) ELSE shared
  BY DEF Units
<1> HIDE DEF shared, cached
<1>7. Booked(r, p, shared, excl, cached)
  BY <1>1, <1>2, BookkeepFacts
<1>8. /\ pending' \in [Request -> Statement \cup {NoStatement}]
      /\ KeptLocks' /\ PendingOK' /\ LifeOK'
  BY <1>1, <1>2, <1>3, <1>7, BookkeepStep
<1>9. TypeOK'
  BY <1>1, <1>5, <1>7, <1>8 DEF TypeOK, Booked
<1>10. /\ Units(r, p)' = IF r \in Caching THEN (IF cached THEN 1 ELSE 0) ELSE shared
       /\ \A q \in Request, t \in Path : <<q, t>> # <<r, p>> =>
             /\ Units(q, t)' = Units(q, t)
             /\ t \in acquiredExclusive'[q] <=> t \in acquiredExclusive[q]
  BY <1>7, BookkeepUnits
<1>11. Units(r, p)' = Units(r, p) /\ p \notin acquiredExclusive'[r]
  BY <1>6, <1>7, <1>10 DEF Booked
<1>12. Only(r, p) /\ p \in rows' /\ lock'[p] = 0
  BY <1>1, <1>4, <1>5, <1>10 DEF Only, TypeOK
<1>13. RowExact(p)'
  BY <1>1, <1>9, <1>11, <1>12, RowDrop
<1>14. RowIsExact'
  BY <1>1, <1>12, <1>13, OnlyFrame
<1>15. LiveLocksDoNotExpire'
  <2>1. \A q \in Request : Live(q)' => Live(q) /\ age'[q] = age[q]
    BY <1>1 DEF Live
  <2>2. \A q \in Request, t \in Path :
           /\ Units(q, t)' > 0 => Units(q, t) > 0
           /\ t \in acquiredExclusive'[q] => t \in acquiredExclusive[q]
    BY <1>10, <1>11
  <2> QED
    BY <2>1, <2>2, <1>1, LivesOn
<1> QED
  BY <1>8, <1>9, <1>14, <1>15 DEF IInv

(* changeLock(p, LOCK_SHARED) *)
LEMMA ChangeToSharedStep ==
    ASSUME Assumptions, IInv, NEW r \in Request, NEW p \in Path, ChangeToShared(r, p)
    PROVE  IInv'
<1> DEFINE shared == acquiredShared[r][p] + 1
           excl == FALSE
           cached == r \in Caching
<1>1. /\ TypeOK /\ KeptLocks /\ PendingOK /\ LifeOK /\ RowIsExact /\ LiveLocksDoNotExpire
      /\ IsFiniteSet(Request) /\ RowExact(p) /\ Live(r) /\ p \in acquiredExclusive[r]
      /\ TTL \in Int /\ TTL >= MaxAge
      /\ mode' = mode /\ age' = age /\ rows' = rows /\ p \in rows /\ p \in SharedPath
      /\ lock' = [lock EXCEPT ![p] = 1] /\ ttl' = [ttl EXCEPT ![p] = TTL]
  BY ConstantsOK DEF IInv, ChangeToShared, Ready, Live, Update, RowIsExact,
                     Assumptions, RequestsShort
<1>2. /\ shared \in 0..MaxShared /\ acquiredShared[r][p] \in 0..MaxShared
      /\ excl \in BOOLEAN /\ cached \in BOOLEAN
      /\ Bookkeep(r, p, shared, excl, cached)
  <2>1. acquiredShared[r][p] \in 0..MaxShared /\ MaxShared \in Nat
    BY <1>1, ConstantsOK DEF TypeOK
  <2>2. Bookkeep(r, p, shared, excl, cached)
    BY DEF ChangeToShared, MarkChangeToShared
  <2>3. acquiredShared[r][p] < MaxShared
    BY DEF ChangeToShared
  <2>4. excl \in BOOLEAN /\ cached \in BOOLEAN
    OBVIOUS
  <2> HIDE DEF excl, cached
  <2> QED
    BY <2>1, <2>2, <2>3, <2>4
<1>3. pending' = [pending EXCEPT ![r] = NoStatement]
  BY <1>1, NothingPending DEF ChangeToShared, Ready
<1>4. Units(r, p) = 0
  BY <1>1, RowOwner
<1>5. r \notin Caching => shared = 1
  BY <1>4 DEF Units
<1>6. cached <=> r \in Caching
  OBVIOUS
<1> HIDE DEF shared, cached
<1>7. Booked(r, p, shared, excl, cached)
  BY <1>1, <1>2, BookkeepFacts
<1>8. /\ pending' \in [Request -> Statement \cup {NoStatement}]
      /\ KeptLocks' /\ PendingOK' /\ LifeOK'
  BY <1>1, <1>3, <1>6, <1>7, BookkeepStep
<1>9. TypeOK'
  BY <1>1, <1>7, <1>8 DEF TypeOK, Booked
<1>10. /\ Units(r, p)' = IF r \in Caching THEN (IF cached THEN 1 ELSE 0) ELSE shared
       /\ \A q \in Request, t \in Path : <<q, t>> # <<r, p>> =>
             /\ Units(q, t)' = Units(q, t)
             /\ t \in acquiredExclusive'[q] <=> t \in acquiredExclusive[q]
  BY <1>7, BookkeepUnits
<1>11. Units(r, p)' = 1 /\ p \notin acquiredExclusive'[r]
  BY <1>5, <1>6, <1>7, <1>10 DEF Booked
<1>12. /\ Only(r, p) /\ p \in rows' /\ lock'[p] = 1
       /\ ttl'[p] = TTL /\ \A t \in Path : t # p => ttl'[t] = ttl[t]
  BY <1>1, <1>10 DEF Only, TypeOK
<1>13. RowExact(p)'
  BY <1>1, <1>9, <1>11, <1>12, RowShare
<1>14. RowIsExact'
  BY <1>1, <1>12, <1>13, OnlyFrame
<1>15. LiveLocksDoNotExpire'
  BY <1>1, <1>12, Renewed
<1> QED
  BY <1>8, <1>9, <1>14, <1>15 DEF IInv

(* changeLock(p, LOCK_EXCLUSIVE): the only unit of the row is the one of   *)
(* the request.                                                            *)
LEMMA ChangeToExclusiveStep ==
    ASSUME Assumptions, IInv, NEW r \in Request, NEW p \in Path, ChangeToExclusive(r, p)
    PROVE  IInv'
<1> DEFINE shared == acquiredShared[r][p] - 1
           excl == TRUE
           cached == FALSE
<1>1. /\ TypeOK /\ PendingOK /\ KeptLocks /\ RowExact(p) /\ IsFiniteSet(Request)
      /\ Live(r) /\ TTL \in Int /\ TTL >= MaxAge
      /\ acquiredShared[r][p] = 1 /\ p \in rows /\ lock[p] = 1
      /\ mode' = mode /\ age' = age /\ rows' = rows \cup {p}
      /\ lock' = [lock EXCEPT ![p] = -1] /\ ttl' = [ttl EXCEPT ![p] = TTL]
  BY ConstantsOK DEF IInv, ChangeToExclusive, Ready, Live, Update, RowIsExact,
                     Assumptions, RequestsShort
<1>2. pending' = [pending EXCEPT ![r] = NoStatement]
  BY <1>1, NothingPending DEF ChangeToExclusive, Ready
<1>3. Units(r, p) > 0
  BY <1>1 DEF Units, KeptLocks
<1>4. Owners(p) = {} /\ \A q \in Request : q # r => Units(q, p) = 0
  BY <1>1, <1>3, RowSole
<1>5. /\ shared = 0 /\ excl /\ ~cached
      /\ shared \in 0..MaxShared /\ excl \in BOOLEAN /\ cached \in BOOLEAN
  BY <1>1, ConstantsOK
<1>6. Bookkeep(r, p, shared, excl, cached)
  BY DEF ChangeToExclusive, MarkChangeToExclusive
<1> HIDE DEF shared, excl, cached
<1>7. Booked(r, p, shared, excl, cached)
  BY <1>1, <1>5, <1>6, BookkeepFacts
<1> QED
  BY <1>1, <1>2, <1>4, <1>5, <1>7, TakeStep

(* acquireLock whose UPDATE finds no row it may change. *)
LEMMA RefusedStep ==
    ASSUME IInv, NEW r \in Request, Refused(r)
    PROVE  IInv'
<1>1. /\ TypeOK /\ PendingOK /\ LifeOK /\ LiveLocksDoNotExpire
      /\ mode' = mode /\ age' = age /\ UNCHANGED <<table, local>>
      /\ pending' = [pending EXCEPT ![r] = NoStatement]
  BY DEF IInv, Refused
<1>2. TypeOK'
  BY <1>1 DEF TypeOK, table, local
<1>3. \A q \in Request : pending'[q] \in {pending[q], NoStatement}
  BY <1>1 DEF TypeOK
<1>4. PendingOK'
  BY <1>1, <1>3 DEF PendingOK, local
<1>5. LifeOK'
  BY <1>1 DEF LifeOK, Live, local
<1>6. KeptLocks' /\ RowIsExact' /\ \A q \in Request, t \in Path : Units(q, t)' = Units(q, t)
  BY <1>1, QuietStep
<1>7. LiveLocksDoNotExpire'
  BY <1>1, <1>6, LivesOn DEF table, local, Live
<1> QED
  BY <1>2, <1>4, <1>5, <1>6, <1>7 DEF IInv

(* A request starts, holding nothing. *)
LEMMA StartStep ==
    ASSUME IInv, NEW r \in Request, Start(r)
    PROVE  IInv'
<1>1. /\ TypeOK /\ PendingOK /\ LifeOK /\ LiveLocksDoNotExpire
      /\ mode[r] = "idle" /\ mode' = [mode EXCEPT ![r] = "running"]
      /\ age' = age /\ pending' = pending /\ UNCHANGED <<table, local>>
  BY DEF IInv, Start
<1>2. TypeOK'
  BY <1>1 DEF TypeOK, table, local
<1>3. mode'[r] = "running" /\ \A q \in Request : q # r => mode'[q] = mode[q]
  BY <1>1 DEF TypeOK
<1>4. PendingOK'
  BY <1>1, <1>3 DEF PendingOK, local
<1>5. LifeOK'
  BY <1>1, <1>3, ConstantsOK DEF LifeOK, Live, local
<1>6. KeptLocks' /\ RowIsExact' /\ \A q \in Request, t \in Path : Units(q, t)' = Units(q, t)
  BY <1>1, QuietStep
<1>7. LiveLocksDoNotExpire'
  <2>1. acquiredExclusive[r] = {} /\ \A t \in Path : Units(r, t) = 0
    BY <1>1 DEF LifeOK, Units
  <2>2. ASSUME NEW q \in Request, NEW t \in Path, Live(q)',
               Units(q, t)' > 0 \/ t \in acquiredExclusive'[q]
        PROVE  Live(q) /\ (Units(q, t) > 0 \/ t \in acquiredExclusive[q])
    <3>1. q # r
      BY <2>1, <2>2, <1>1, <1>6 DEF local
    <3> QED
      BY <3>1, <2>2, <1>1, <1>3, <1>6 DEF Live, local
  <2> QED
    BY <2>2, <1>1 DEF LiveLocksDoNotExpire, table
<1> QED
  BY <1>2, <1>4, <1>5, <1>6, <1>7 DEF IInv

(* A request begins to give back, or is killed. *)
LEMMA EndStep ==
    ASSUME IInv, NEW r \in Request, BeginClose(r) \/ Crash(r)
    PROVE  IInv'
<1>1. /\ TypeOK /\ PendingOK /\ LifeOK /\ LiveLocksDoNotExpire
      /\ Live(r) /\ pending' = [pending EXCEPT ![r] = NoStatement]
      /\ UNCHANGED <<table, local>>
      /\ \/ mode' = [mode EXCEPT ![r] = "closing"] /\ age' = age
         \/ mode' = [mode EXCEPT ![r] = "crashed"] /\ age' = [age EXCEPT ![r] = 0]
  BY DEF IInv, BeginClose, Crash, Live
<1>2. TypeOK'
  <2>1. /\ mode' \in [Request -> {"idle", "running", "closing", "crashed"}]
        /\ age' \in [Request -> Nat]
        /\ pending' \in [Request -> Statement \cup {NoStatement}]
    <3>1. /\ mode \in [Request -> {"idle", "running", "closing", "crashed"}]
          /\ age \in [Request -> Nat]
          /\ pending \in [Request -> Statement \cup {NoStatement}]
      BY <1>1 DEF TypeOK
    <3>2. pending' \in [Request -> Statement \cup {NoStatement}]
      BY <1>1, <3>1
    <3>3. CASE mode' = [mode EXCEPT ![r] = "closing"] /\ age' = age
      BY <3>1, <3>2, <3>3
    <3>4. CASE mode' = [mode EXCEPT ![r] = "crashed"] /\ age' = [age EXCEPT ![r] = 0]
      BY <3>1, <3>2, <3>4
    <3> QED
      BY <3>3, <3>4, <1>1
  <2> QED
    BY <2>1, <1>1 DEF TypeOK, table, local
<1>3. /\ pending'[r] = NoStatement
      /\ \/ mode'[r] = "closing" /\ age'[r] = age[r]
         \/ mode'[r] = "crashed" /\ age'[r] = 0
      /\ \A q \in Request : q # r =>
            mode'[q] = mode[q] /\ age'[q] = age[q] /\ pending'[q] = pending[q]
  BY <1>1 DEF TypeOK
<1>4. PendingOK'
  BY <1>1, <1>3 DEF PendingOK, local
<1>5. LifeOK'
  BY <1>1, <1>3 DEF LifeOK, Live, local
<1>6. KeptLocks' /\ RowIsExact' /\ \A q \in Request, t \in Path : Units(q, t)' = Units(q, t)
  BY <1>1, QuietStep
<1>7. LiveLocksDoNotExpire'
  <2>1. \A q \in Request : Live(q)' => Live(q) /\ age'[q] = age[q]
    BY <1>1, <1>3 DEF Live
  <2> QED
    BY <2>1, <1>1, <1>6, LivesOn DEF table, local
<1> QED
  BY <1>2, <1>4, <1>5, <1>6, <1>7 DEF IInv

(* What is left when a request forgets everything. *)
LEMMA ForgetFacts ==
    ASSUME TypeOK, KeptLocks, PendingOK, LifeOK, NEW r \in Request, Forget(r),
           NoSharedLeft(r), acquiredExclusive[r] = {}, mode[r] # "running", pending' = pending
    PROVE  /\ mode' \in [Request -> {"idle", "running", "closing", "crashed"}]
           /\ age' \in [Request -> Nat]
           /\ acquiredShared' \in [Request -> [Path -> 0..MaxShared]]
           /\ acquiredExclusive' \in [Request -> SUBSET Path]
           /\ sharedLocks' \in [Request -> SUBSET Path]
           /\ KeptLocks' /\ PendingOK' /\ LifeOK'
           /\ acquiredExclusive' = acquiredExclusive
           /\ mode'[r] = "idle"
           /\ \A q \in Request : q # r => mode'[q] = mode[q] /\ age'[q] = age[q]
           /\ \A t \in Path : Units(r, t)' = 0
           /\ \A q \in Request, t \in Path : q # r => Units(q, t)' = Units(q, t)
<1>1. /\ acquiredShared' \in [Request -> [Path -> 0..MaxShared]]
      /\ acquiredExclusive' \in [Request -> SUBSET Path]
      /\ sharedLocks' \in [Request -> SUBSET Path]
      /\ mode' \in [Request -> {"idle", "running", "closing", "crashed"}]
      /\ age' \in [Request -> Nat]
  BY ConstantsOK DEF TypeOK, Forget
<1>2. /\ \A t \in Path : acquiredShared'[r][t] = 0
      /\ acquiredExclusive'[r] = {} /\ sharedLocks'[r] = {} /\ mode'[r] = "idle" /\ age'[r] = 0
      /\ \A q \in Request : q # r =>
            /\ acquiredShared'[q] = acquiredShared[q] /\ sharedLocks'[q] = sharedLocks[q]
            /\ acquiredExclusive'[q] = acquiredExclusive[q]
            /\ mode'[q] = mode[q] /\ age'[q] = age[q]
  BY DEF TypeOK, Forget
<1>3. acquiredExclusive' = acquiredExclusive
  BY DEF TypeOK, Forget
<1>4. KeptLocks'
  BY <1>2 DEF KeptLocks
<1>5. PendingOK'
  BY <1>2 DEF PendingOK
<1>6. LifeOK'
  BY <1>2, ConstantsOK DEF LifeOK, Live
<1>7. /\ \A t \in Path : Units(r, t)' = 0
      /\ \A q \in Request, t \in Path : q # r => Units(q, t)' = Units(q, t)
  BY <1>2 DEF Units
<1> QED
  BY <1>1, <1>2, <1>3, <1>4, <1>5, <1>6, <1>7

(* The end of releaseAll. *)
LEMMA CloseStep ==
    ASSUME Assumptions, IInv, NEW r \in Request, Close(r)
    PROVE  IInv'
<1>1. /\ TypeOK /\ KeptLocks /\ PendingOK /\ LifeOK /\ RowIsExact /\ LiveLocksDoNotExpire
      /\ IsFiniteSet(Request)
      /\ Forget(r) /\ NoSharedLeft(r) /\ acquiredExclusive[r] = {} /\ mode[r] = "closing"
      /\ rows' = rows /\ ttl' = ttl /\ pending' = pending
      /\ lock' = [p \in Path |-> IF p \in sharedLocks[r] \cap rows /\ lock[p] > 0
                                 THEN lock[p] - 1 ELSE lock[p]]
  BY DEF IInv, Assumptions, Close
<1>2. mode[r] # "running"
  BY <1>1
<1>3. /\ mode' \in [Request -> {"idle", "running", "closing", "crashed"}]
      /\ age' \in [Request -> Nat]
      /\ acquiredShared' \in [Request -> [Path -> 0..MaxShared]]
      /\ acquiredExclusive' \in [Request -> SUBSET Path]
      /\ sharedLocks' \in [Request -> SUBSET Path]
      /\ KeptLocks' /\ PendingOK' /\ LifeOK'
      /\ acquiredExclusive' = acquiredExclusive
      /\ mode'[r] = "idle"
      /\ \A q \in Request : q # r => mode'[q] = mode[q] /\ age'[q] = age[q]
      /\ \A t \in Path : Units(r, t)' = 0
      /\ \A q \in Request, t \in Path : q # r => Units(q, t)' = Units(q, t)
  BY <1>1, <1>2, ForgetFacts
<1>4. lock' \in [Path -> Int]
  BY <1>1 DEF TypeOK
<1>5. TypeOK'
  BY <1>1, <1>3, <1>4 DEF TypeOK
<1>6. ASSUME NEW p \in Path
      PROVE  RowExact(p)'
  <2>1. RowExact(p)
    BY <1>1 DEF RowIsExact
  <2>2. CASE p \in sharedLocks[r]
    <3>1. Units(r, p) = 1
      BY <2>2, <1>1 DEF Units, KeptLocks
    <3>2. Units(r, p) > 0 /\ Units(r, p)' = Units(r, p) - 1
      BY <3>1, <1>3
    <3>3. lock'[p] = IF p \in rows /\ lock[p] > 0 THEN lock[p] - 1 ELSE lock[p]
      BY <2>2, <1>1
    <3>4. \A q \in Request : q # r => Units(q, p)' = Units(q, p)
      BY <1>3
    <3>5. \A q \in Request : p \in acquiredExclusive'[q] <=> p \in acquiredExclusive[q]
      BY <1>3
    <3> QED
      BY <2>1, <3>2, <3>3, <3>4, <3>5, <1>1, <1>5, RowLose
  <2>3. CASE p \notin sharedLocks[r]
    <3>1. Units(r, p) = 0
      BY <2>3, <1>1 DEF Units, NoSharedLeft
    <3>2. lock'[p] = lock[p]
      BY <2>3, <1>1
    <3> QED
      BY <2>1, <3>1, <3>2, <1>1, <1>3, Frame
  <2> QED
    BY <2>2, <2>3
<1>7. RowIsExact'
  BY <1>6 DEF RowIsExact
<1>8. LiveLocksDoNotExpire'
  <2>1. \A q \in Request : Live(q)' => Live(q) /\ age'[q] = age[q]
    BY <1>3 DEF Live
  <2>2. \A q \in Request, t \in Path :
           /\ Units(q, t)' > 0 => Units(q, t) > 0
           /\ t \in acquiredExclusive'[q] => t \in acquiredExclusive[q]
    BY <1>3
  <2> QED
    BY <2>1, <2>2, <1>1, LivesOn
<1> QED
  BY <1>3, <1>5, <1>7, <1>8 DEF IInv

(* A killed request of which nothing is left is forgotten. *)
LEMMA BuryStep ==
    ASSUME IInv, NEW r \in Request, Bury(r)
    PROVE  IInv'
<1>1. /\ TypeOK /\ KeptLocks /\ PendingOK /\ LifeOK /\ RowIsExact /\ LiveLocksDoNotExpire
      /\ Forget(r) /\ NoSharedLeft(r) /\ acquiredExclusive[r] = {} /\ sharedLocks[r] = {}
      /\ mode[r] = "crashed"
      /\ rows' = rows /\ lock' = lock /\ ttl' = ttl /\ pending' = pending
  BY DEF IInv, Bury, table
<1>2. mode[r] # "running"
  BY <1>1
<1>3. /\ mode' \in [Request -> {"idle", "running", "closing", "crashed"}]
      /\ age' \in [Request -> Nat]
      /\ acquiredShared' \in [Request -> [Path -> 0..MaxShared]]
      /\ acquiredExclusive' \in [Request -> SUBSET Path]
      /\ sharedLocks' \in [Request -> SUBSET Path]
      /\ KeptLocks' /\ PendingOK' /\ LifeOK'
      /\ acquiredExclusive' = acquiredExclusive
      /\ mode'[r] = "idle"
      /\ \A q \in Request : q # r => mode'[q] = mode[q] /\ age'[q] = age[q]
      /\ \A t \in Path : Units(r, t)' = 0
      /\ \A q \in Request, t \in Path : q # r => Units(q, t)' = Units(q, t)
  BY <1>1, <1>2, ForgetFacts
<1>4. TypeOK'
  BY <1>1, <1>3 DEF TypeOK
<1>5. \A q \in Request, t \in Path : Units(q, t)' = Units(q, t)
  <2>1. \A t \in Path : Units(r, t) = 0
    BY <1>1 DEF Units, NoSharedLeft
  <2> QED
    BY <2>1, <1>3
<1>6. RowIsExact'
  BY <1>1, <1>3, <1>5, Frame DEF RowIsExact
<1>7. LiveLocksDoNotExpire'
  <2>1. \A q \in Request : Live(q)' => Live(q) /\ age'[q] = age[q]
    BY <1>3 DEF Live
  <2> QED
    BY <2>1, <1>1, <1>3, <1>5, LivesOn
<1> QED
  BY <1>3, <1>4, <1>6, <1>7 DEF IInv

(* Rows are deleted that no live request relies on. *)
LEMMA CleanStep ==
    ASSUME IInv, CleanExpiredLocks
    PROVE  IInv'
<1> DEFINE expired == {p \in rows : ttl[p] < 0}
           dead == {r \in Request : mode[r] = "crashed"}
<1>1. /\ TypeOK /\ KeptLocks /\ PendingOK /\ LifeOK /\ RowIsExact /\ LiveLocksDoNotExpire
      /\ mode' = mode /\ age' = age /\ pending' = pending
      /\ rows' = rows \ expired
      /\ lock' = [p \in Path |-> IF p \in expired THEN 0 ELSE lock[p]]
      /\ ttl' = [p \in Path |-> IF p \in expired THEN 0 ELSE ttl[p]]
      /\ acquiredShared' = [r \in Request |-> [p \in Path |->
           IF r \in dead /\ p \in expired THEN 0 ELSE acquiredShared[r][p]]]
      /\ acquiredExclusive' = [r \in Request |->
           IF r \in dead THEN acquiredExclusive[r] \ expired ELSE acquiredExclusive[r]]
      /\ sharedLocks' = [r \in Request |->
           IF r \in dead THEN sharedLocks[r] \ expired ELSE sharedLocks[r]]
  BY DEF IInv, CleanExpiredLocks, DeleteRows
<1>2. \A q \in Request : /\ q \in dead <=> mode[q] = "crashed"
                         /\ mode[q] \in {"idle", "running", "closing", "crashed"}
  BY <1>1 DEF TypeOK
<1>3. \A t \in Path : t \in expired <=> t \in rows /\ ttl[t] < 0
  OBVIOUS
<1> HIDE DEF expired, dead
<1>4. \A q \in Request, t \in Path :
         /\ acquiredShared'[q][t] =
               IF q \in dead /\ t \in expired THEN 0 ELSE acquiredShared[q][t]
         /\ t \in acquiredExclusive'[q] <=>
               t \in acquiredExclusive[q] /\ ~(q \in dead /\ t \in expired)
         /\ t \in sharedLocks'[q] <=> t \in sharedLocks[q] /\ ~(q \in dead /\ t \in expired)
  BY <1>1
<1>5. /\ acquiredShared' \in [Request -> [Path -> 0..MaxShared]]
      /\ acquiredExclusive' \in [Request -> SUBSET Path]
      /\ sharedLocks' \in [Request -> SUBSET Path]
  BY <1>1, ConstantsOK DEF TypeOK
<1>6. TypeOK'
  BY <1>1, <1>5 DEF TypeOK
<1>7. KeptLocks'
  <2>1. ASSUME NEW q \in Request, NEW t \in Path
        PROVE  /\ t \in sharedLocks'[q] => q \in Caching /\ t \in SharedPath
               /\ q \in Caching /\ acquiredShared'[q][t] > 0 => t \in sharedLocks'[q]
    BY <1>1, <1>4 DEF KeptLocks
  <2> QED
    BY <2>1, <1>5 DEF KeptLocks
<1>8. PendingOK'
  <2>1. ASSUME NEW q \in Request, pending[q] # NoStatement
        PROVE  /\ pending[q].path \in Path /\ q \notin dead
    BY <2>1, <1>1, <1>2 DEF PendingOK, TypeOK, Statement
  <2> QED
    BY <2>1, <1>1, <1>4 DEF PendingOK
<1>9. LifeOK'
  BY <1>1, <1>2 DEF LifeOK, Live
<1>10. \A q \in Request, t \in Path :
          Units(q, t)' = IF q \in dead /\ t \in expired THEN 0 ELSE Units(q, t)
  BY <1>4 DEF Units
<1>11. \A q \in Request, t \in Path :
          t \in expired => Units(q, t)' = 0 /\ t \notin acquiredExclusive'[q]
  <2>1. SUFFICES ASSUME NEW q \in Request, NEW t \in Path, t \in expired
                 PROVE  Units(q, t)' = 0 /\ t \notin acquiredExclusive'[q]
    OBVIOUS
  <2>2. CASE mode[q] = "crashed"
    BY <2>1, <2>2, <1>2, <1>4, <1>10
  <2>3. CASE mode[q] = "idle"
    <3>1. Units(q, t) = 0 /\ t \notin acquiredExclusive[q]
      BY <2>3, <1>1 DEF LifeOK, Units
    <3> QED
      BY <3>1, <1>4, <1>10
  <2>4. CASE Live(q)
    <3>1. age[q] \in Nat /\ age[q] <= MaxAge /\ MaxAge \in Nat /\ ttl[t] \in Int /\ ttl[t] < 0
      BY <2>1, <2>4, <1>1, <1>3, ConstantsOK DEF LifeOK, TypeOK
    <3>2. ~(Units(q, t) > 0 \/ t \in acquiredExclusive[q])
      BY <2>4, <3>1, <1>1 DEF LiveLocksDoNotExpire
    <3>3. Units(q, t) \in Nat
      BY <1>1 DEF Units, TypeOK
    <3> QED
      BY <3>2, <3>3, <1>4, <1>10
  <2> QED
    BY <2>2, <2>3, <2>4, <1>2 DEF Live
<1>12. RowIsExact'
  <2>1. ASSUME NEW p \in Path
        PROVE  RowExact(p)'
    <3>1. CASE p \in expired
      <4>1. p \notin rows'
        BY <3>1, <1>1
      <4>2. Owners(p)' = {}
        BY <3>1, <1>11 DEF Owners
      <4>3. (TypeOK => (Tokens(p) = {} <=> \A q \in Request : Units(q, p) = 0))'
        BY NoUnits, PTL
      <4>4. Tokens(p)' = {}
        BY <3>1, <4>3, <1>6, <1>11
      <4> QED
        BY <4>1, <4>2, <4>4 DEF RowExact
    <3>2. CASE p \notin expired
      <4>1. RowExact(p) /\ (p \in rows' <=> p \in rows) /\ lock'[p] = lock[p]
        BY <3>2, <1>1 DEF RowIsExact
      <4> QED
        BY <3>2, <4>1, <1>4, <1>10, Frame
    <3> QED
      BY <3>1, <3>2
  <2> QED
    BY <2>1 DEF RowIsExact
<1>13. LiveLocksDoNotExpire'
  <2>1. ASSUME NEW q \in Request, NEW t \in Path, Live(q)',
               Units(q, t)' > 0 \/ t \in acquiredExclusive'[q]
        PROVE  t \in rows' /\ ttl'[t] >= MaxAge - age'[q]
    <3>1. t \notin expired
      BY <2>1, <1>11
    <3>2. Live(q) /\ (Units(q, t) > 0 \/ t \in acquiredExclusive[q])
      BY <2>1, <3>1, <1>1, <1>4, <1>10 DEF Live
    <3> QED
      BY <3>1, <3>2, <1>1 DEF LiveLocksDoNotExpire
  <2> QED
    BY <2>1 DEF LiveLocksDoNotExpire
<1> QED
  BY <1>1, <1>6, <1>7, <1>8, <1>9, <1>12, <1>13 DEF IInv

(* A second passes: no request is older than a lock of its own may get. *)
LEMMA TickStep ==
    ASSUME IInv, Tick
    PROVE  IInv'
<1>1. /\ TypeOK /\ KeptLocks /\ PendingOK /\ LifeOK /\ RowIsExact /\ LiveLocksDoNotExpire
      /\ rows' = rows /\ lock' = lock /\ mode' = mode /\ UNCHANGED local
      /\ \A r \in Request : Live(r) => age[r] < MaxAge
      /\ age' = [r \in Request |-> IF Live(r) THEN age[r] + 1 ELSE age[r]]
      /\ ttl' = [p \in Path |-> IF p \in rows THEN Older(ttl[p]) ELSE ttl[p]]
      /\ pending' = [r \in Request |->
           IF pending[r] = NoStatement THEN NoStatement
           ELSE [pending[r] EXCEPT !.expire = Older(pending[r].expire)]]
      /\ MaxAge \in Nat /\ TTL \in Nat
  BY ConstantsOK DEF IInv, Tick
<1>2. \A t \in Int : Older(t) \in Int /\ Older(t) >= t - 1
  BY DEF Older
<1>3. ASSUME NEW q \in Request, pending[q] # NoStatement
      PROVE  /\ pending'[q] \in Statement /\ pending[q] \in Statement
             /\ pending'[q].type = pending[q].type /\ pending'[q].path = pending[q].path
             /\ pending'[q].existing = pending[q].existing
             /\ pending'[q].expire >= pending[q].expire - 1
  <2>1. pending[q] \in Statement
    BY <1>1, <1>3 DEF TypeOK
  <2>2. pending'[q] = [pending[q] EXCEPT !.expire = Older(pending[q].expire)]
    BY <1>1, <1>3
  <2> QED
    BY <2>1, <2>2, <1>2 DEF Statement
<1>4. \A q \in Request : pending[q] = NoStatement => pending'[q] = NoStatement
  BY <1>1
<1>5. TypeOK'
  <2>1. age' \in [Request -> Nat]
    BY <1>1 DEF TypeOK
  <2>2. ttl' \in [Path -> Int]
    BY <1>1, <1>2 DEF TypeOK
  <2>3. pending' \in [Request -> Statement \cup {NoStatement}]
    <3>1. \A q \in Request : pending'[q] \in Statement \cup {NoStatement}
      BY <1>3, <1>4
    <3>2. pending' = [q \in Request |-> pending'[q]]
      BY <1>1
    <3> QED
      BY <3>1, <3>2
  <2> QED
    BY <2>1, <2>2, <2>3, <1>1 DEF TypeOK, local
<1>6. \A q \in Request, t \in Path :
         Units(q, t)' = Units(q, t) /\ acquiredExclusive'[q] = acquiredExclusive[q]
  BY <1>1 DEF Units, local
<1>7. KeptLocks'
  BY <1>1 DEF KeptLocks, local
<1>8. PendingOK'
  <2>1. SUFFICES ASSUME NEW q \in Request, pending[q] # NoStatement
                 PROVE  /\ mode'[q] = "running"
                        /\ pending'[q].expire >= TTL - age'[q]
                        /\ pending'[q].type = "shared" =>
                              /\ pending'[q].path \in SharedPath \ sharedLocks'[q]
                              /\ acquiredShared'[q][pending'[q].path] < MaxShared
                        /\ pending'[q].type = "exclusive" => pending'[q].existing = 0
    BY <1>4 DEF PendingOK
  <2>2. /\ mode[q] = "running" /\ Live(q) /\ age'[q] = age[q] + 1 /\ age[q] \in Nat
        /\ pending[q].expire >= TTL - age[q]
    BY <2>1, <1>1 DEF PendingOK, Live, TypeOK
  <2>3. pending'[q].expire \in Int /\ pending[q].expire \in Int
    BY <2>1, <1>3 DEF Statement
  <2>4. pending'[q].expire >= TTL - age'[q]
    <3>1. pending'[q].expire >= pending[q].expire - 1
      BY <2>1, <1>3
    <3> QED
      BY <3>1, <2>2, <2>3, <1>1
  <2> QED
    BY <2>1, <2>2, <2>4, <1>1, <1>3 DEF PendingOK, local
<1>9. LifeOK'
  BY <1>1 DEF LifeOK, Live, local, TypeOK
<1>10. RowIsExact'
  BY <1>1, <1>6, Frame DEF RowIsExact
<1>11. LiveLocksDoNotExpire'
  <2>1. ASSUME NEW q \in Request, NEW t \in Path, Live(q)',
               Units(q, t)' > 0 \/ t \in acquiredExclusive'[q]
        PROVE  t \in rows' /\ ttl'[t] >= MaxAge - age'[q]
    <3>1. Live(q) /\ t \in rows /\ ttl[t] >= MaxAge - age[q]
      BY <2>1, <1>1, <1>6 DEF LiveLocksDoNotExpire, Live
    <3>2. age'[q] = age[q] + 1 /\ ttl'[t] = Older(ttl[t]) /\ age[q] \in Nat /\ ttl[t] \in Int
      BY <3>1, <1>1 DEF TypeOK
    <3> QED
      BY <3>1, <3>2, <1>1, <1>2
  <2> QED
    BY <2>1 DEF LiveLocksDoNotExpire
<1> QED
  BY <1>5, <1>7, <1>8, <1>9, <1>10, <1>11 DEF IInv

-----------------------------------------------------------------------------
(* The theorems. *)

(* Every step keeps the invariant. *)
LEMMA NextIInv ==
    ASSUME Assumptions, IInv, [Next]_vars
    PROVE  IInv'
<1>1. CASE UNCHANGED vars
  <2>1. /\ UNCHANGED <<table, local>> /\ mode' = mode /\ age' = age /\ pending' = pending
        /\ rows' = rows /\ ttl' = ttl /\ acquiredExclusive' = acquiredExclusive
    BY <1>1 DEF vars, table, local
  <2>2. KeptLocks' /\ RowIsExact' /\ \A q \in Request, t \in Path : Units(q, t)' = Units(q, t)
    BY <2>1, QuietStep
  <2>3. TypeOK' /\ PendingOK' /\ LifeOK'
    BY <2>1 DEF IInv, TypeOK, PendingOK, LifeOK, Live, table, local
  <2>4. LiveLocksDoNotExpire'
    BY <2>1, <2>2, LivesOn DEF IInv, Live
  <2> QED
    BY <2>2, <2>3, <2>4 DEF IInv
<1>2. ASSUME NEW r \in Request, NEW p \in Path,
             \/ ReuseShared(r, p)
             \/ InsertShared(r, p)
             \/ InsertExclusive(r, p)
             \/ \E type \in {"shared", "exclusive"} : InsertConflict(r, p, type)
             \/ ReleaseShared(r, p)
             \/ ReleaseExclusive(r, p)
             \/ ChangeToShared(r, p)
             \/ ChangeToExclusive(r, p)
      PROVE  IInv'
  BY <1>2, ReuseSharedStep, InsertSharedStep, InsertExclusiveStep, InsertConflictStep,
     ReleaseSharedStep, ReleaseExclusiveStep, ChangeToSharedStep, ChangeToExclusiveStep
<1>3. ASSUME NEW r \in Request,
             \/ UpdateShared(r)
             \/ UpdateExclusive(r)
             \/ Refused(r)
             \/ Start(r)
             \/ BeginClose(r)
             \/ Close(r)
             \/ Crash(r)
             \/ Bury(r)
      PROVE  IInv'
  BY <1>3, UpdateSharedStep, UpdateExclusiveStep, RefusedStep, StartStep, EndStep,
     CloseStep, BuryStep
<1>4. CASE CleanExpiredLocks
  BY <1>4, CleanStep
<1>5. CASE Tick
  BY <1>5, TickStep
<1> QED
  BY <1>1, <1>2, <1>3, <1>4, <1>5 DEF Next

(* The invariant excludes writers. *)
LEMMA IInvExcludes ==
    ASSUME IInv
    PROVE  MutualExclusion
<1>1. SUFFICES ASSUME NEW p \in Path, NEW r \in Writers(p)
               PROVE  /\ Writers(p) = {r}
                      /\ Readers(p) = {}
  <2>1. SUFFICES ASSUME NEW p \in Path
                 PROVE  /\ Cardinality(Writers(p)) <= 1
                        /\ Writers(p) # {} => Readers(p) \subseteq Writers(p)
    BY DEF MutualExclusion
  <2>2. CASE Writers(p) = {}
    BY <2>2, FS_EmptySet
  <2>3. CASE Writers(p) # {}
    BY <2>3, FS_Singleton
  <2> QED
    BY <2>2, <2>3
<1>2. r \in Request /\ Live(r) /\ p \in acquiredExclusive[r]
  BY <1>1 DEF Writers
<1>3. TypeOK /\ KeptLocks /\ RowExact(p)
  BY DEF IInv, RowIsExact
<1>4. Owners(p) = {r} /\ \A q \in Request : Units(q, p) = 0
  BY <1>2, <1>3, RowOwner
<1>5. Writers(p) = {r}
  BY <1>1, <1>4 DEF Writers, Owners
<1>6. Readers(p) = {}
  BY <1>3, <1>4 DEF Readers, Units, KeptLocks, TypeOK
<1> QED
  BY <1>5, <1>6

(* The inductive invariant holds in every reachable state of the provider. *)
THEOREM Invariance ==
    ASSUME Assumptions
    PROVE  Spec => []IInv
<1>1. IInv /\ [Next]_vars => IInv'
  BY NextIInv
<1> QED
  BY InitIInv, <1>1, PTL DEF Spec

(* No call of the provider, in any order, leaves the bookkeeping of a       *)
(* request or a row outside of their types (acquiredLocks never becomes    *)
(* negative).                                                              *)
THEOREM TypeCorrect ==
    ASSUME Assumptions
    PROVE  Spec => []TypeOK
<1>1. IInv => TypeOK
  BY DEF IInv
<1> QED
  BY Invariance, <1>1, PTL

(* acquireLock and changeLock never grant an exclusive lock beside another  *)
(* lock of a live request, for any number of requests and paths.           *)
THEOREM Exclusion ==
    ASSUME Assumptions
    PROVE  Spec => []MutualExclusion
<1>1. IInv => MutualExclusion
  BY IInvExcludes
<1> QED
  BY Invariance, <1>1, PTL

(* The counter in file_locks is exactly the number of units requests have:  *)
(* releaseLock and releaseAll never give away a unit of somebody else.     *)
THEOREM CountersExact ==
    ASSUME Assumptions
    PROVE  Spec => []RowIsExact
<1>1. IInv => RowIsExact
  BY DEF IInv
<1> QED
  BY Invariance, <1>1, PTL

(* cleanExpiredLocks never deletes the row of a live request. *)
THEOREM NoEarlyCleanup ==
    ASSUME Assumptions
    PROVE  Spec => []LiveLocksDoNotExpire
<1>1. IInv => LiveLocksDoNotExpire
  BY DEF IInv
<1> QED
  BY Invariance, <1>1, PTL

-----------------------------------------------------------------------------
(***************************************************************************)
(* The database locking provider implements the readers-writer lock of     *)
(* FileLock, for every set of requests and paths.                          *)
(*                                                                         *)
(* The abstract readers and writers of a path are the live requests whose  *)
(* bookkeeping (acquiredLocks) says they hold it.  An acquisition that is  *)
(* granted maps to Share or Claim, changeLock to Downgrade or Claim, the   *)
(* last release to Unshare or Unclaim, and a killed request to Vanish.     *)
(* Everything else, the work on rows and counters included, is invisible.  *)
(***************************************************************************)
ReadersBar == [p \in Path |-> Readers(p)]
WritersBar == [p \in Path |-> Writers(p)]

(* The step concerns the roles of one path. *)
Elsewhere(p) ==
    \A t \in Path : t # p => Readers(t)' = Readers(t) /\ Writers(t)' = Writers(t)

-----------------------------------------------------------------------------
(* What the bookkeeping of a request on a path means for its roles.         *)
LEMMA RolesMove ==
    ASSUME TypeOK, NEW r \in Request, NEW p \in Path, NEW shared,
           NEW excl \in BOOLEAN, NEW cached,
           Bookkeep(r, p, shared, excl, cached), Live(r), mode' = mode
    PROVE  /\ Elsewhere(p)
           /\ Readers(p)' = IF shared > 0 THEN Readers(p) \cup {r} ELSE Readers(p) \ {r}
           /\ Writers(p)' = IF excl THEN Writers(p) \cup {r} ELSE Writers(p) \ {r}
<1>1. /\ acquiredShared'[r][p] = shared
      /\ \A q \in Request, t \in Path : <<q, t>> # <<r, p>> =>
            acquiredShared'[q][t] = acquiredShared[q][t]
  BY DEF TypeOK, Bookkeep
<1>2. /\ p \in acquiredExclusive'[r] <=> excl
      /\ \A q \in Request, t \in Path : <<q, t>> # <<r, p>> =>
            (t \in acquiredExclusive'[q] <=> t \in acquiredExclusive[q])
  BY DEF TypeOK, Bookkeep
<1>3. \A q \in Request : Live(q)' <=> Live(q)
  BY DEF Live
<1>4. Elsewhere(p)
  BY <1>1, <1>2, <1>3 DEF Elsewhere, Readers, Writers
<1>5. Readers(p)' = IF shared > 0 THEN Readers(p) \cup {r} ELSE Readers(p) \ {r}
  BY <1>1, <1>3 DEF Readers
<1>6. Writers(p)' = IF excl THEN Writers(p) \cup {r} ELSE Writers(p) \ {r}
  BY <1>2, <1>3 DEF Writers
<1> QED
  BY <1>4, <1>5, <1>6

(* The abstract state after a step that concerns one path. *)
LEMMA BarMoves ==
    ASSUME NEW p \in Path, Elsewhere(p)
    PROVE  /\ ReadersBar' = [ReadersBar EXCEPT ![p] = Readers(p)']
           /\ WritersBar' = [WritersBar EXCEPT ![p] = Writers(p)']
BY DEF ReadersBar, WritersBar, Elsewhere

(* A step that changes no role is a stuttering step. *)
LEMMA BarStays ==
    ASSUME \A t \in Path : Readers(t)' = Readers(t) /\ Writers(t)' = Writers(t)
    PROVE  UNCHANGED Abstract!vars
BY DEF Abstract!vars, ReadersBar, WritersBar

(* A lock is held only through units or as the owner of the row.            *)
LEMMA RolesHoldUnits ==
    ASSUME TypeOK, KeptLocks, NEW p \in Path
    PROVE  /\ \A q \in Readers(p) : q \in Request /\ Units(q, p) > 0
           /\ Writers(p) \subseteq Owners(p)
BY DEF TypeOK, KeptLocks, Readers, Writers, Owners, Units

-----------------------------------------------------------------------------
(* acquireLock(p, LOCK_SHARED) is granted. *)
LEMMA ShareStep ==
    ASSUME TypeOK, NEW r \in Request, NEW p \in Path, Live(r), mode' = mode,
           MarkAcquireShared(r, p), Owners(p) = {}
    PROVE  Abstract!Share(r, p)
<1> DEFINE shared == acquiredShared[r][p] + 1
           excl == p \in acquiredExclusive[r]
           cached == r \in Caching
<1>1. Bookkeep(r, p, shared, excl, cached) /\ excl \in BOOLEAN
  BY DEF MarkAcquireShared
<1>2. shared > 0 /\ ~excl
  BY ConstantsOK DEF TypeOK, Owners
<1>3. Writers(p) = {}
  BY DEF Writers, Owners
<1> HIDE DEF shared, excl, cached
<1>4. /\ Elsewhere(p)
      /\ Readers(p)' = IF shared > 0 THEN Readers(p) \cup {r} ELSE Readers(p) \ {r}
      /\ Writers(p)' = IF excl THEN Writers(p) \cup {r} ELSE Writers(p) \ {r}
  BY <1>1, RolesMove
<1>5. Readers(p)' = Readers(p) \cup {r} /\ Writers(p)' = {}
  BY <1>2, <1>3, <1>4
<1>6. /\ ReadersBar' = [ReadersBar EXCEPT ![p] = Readers(p) \cup {r}]
      /\ WritersBar' = [WritersBar EXCEPT ![p] = {}]
  BY <1>4, <1>5, BarMoves
<1>7. ReadersBar[p] = Readers(p) /\ WritersBar[p] = {} /\ WritersBar' = WritersBar
  BY <1>3, <1>6 DEF ReadersBar, WritersBar
<1> QED
  BY <1>6, <1>7 DEF Abstract!Share, ReadersBar, WritersBar

(* A request gets the exclusive lock of a path on which nobody else has     *)
(* anything.                                                               *)
LEMMA ClaimStep ==
    ASSUME TypeOK, KeptLocks, NEW r \in Request, NEW p \in Path, Live(r), mode' = mode,
           NEW shared, shared = 0, NEW cached, Bookkeep(r, p, shared, TRUE, cached),
           Owners(p) = {}, \A q \in Request : q # r => Units(q, p) = 0
    PROVE  Abstract!Claim(r, p)
<1>1. Writers(p) = {} /\ Readers(p) \subseteq {r}
  BY RolesHoldUnits
<1>2. /\ Elsewhere(p)
      /\ Readers(p)' = IF shared > 0 THEN Readers(p) \cup {r} ELSE Readers(p) \ {r}
      /\ Writers(p)' = IF TRUE THEN Writers(p) \cup {r} ELSE Writers(p) \ {r}
  <2> DEFINE excl == TRUE
  <2>1. Bookkeep(r, p, shared, excl, cached) /\ excl \in BOOLEAN /\ excl
    OBVIOUS
  <2> HIDE DEF excl
  <2>2. /\ Elsewhere(p)
        /\ Readers(p)' = IF shared > 0 THEN Readers(p) \cup {r} ELSE Readers(p) \ {r}
        /\ Writers(p)' = IF excl THEN Writers(p) \cup {r} ELSE Writers(p) \ {r}
    BY <2>1, RolesMove
  <2> QED
    BY <2>1, <2>2
<1>3. Readers(p)' = {} /\ Writers(p)' = {r}
  BY <1>1, <1>2
<1>4. /\ ReadersBar' = [ReadersBar EXCEPT ![p] = {}]
      /\ WritersBar' = [WritersBar EXCEPT ![p] = {r}]
  BY <1>2, <1>3, BarMoves
<1>5. WritersBar[p] = {} /\ ReadersBar[p] \subseteq {r}
  BY <1>1 DEF ReadersBar, WritersBar
<1> QED
  BY <1>4, <1>5 DEF Abstract!Claim, ReadersBar, WritersBar

(* changeLock(p, LOCK_SHARED) *)
LEMMA DowngradeStep ==
    ASSUME IInv, NEW r \in Request, NEW p \in Path, ChangeToShared(r, p)
    PROVE  Abstract!Downgrade(r, p)
<1> DEFINE shared == acquiredShared[r][p] + 1
           excl == FALSE
           cached == r \in Caching
<1>1. /\ TypeOK /\ KeptLocks /\ RowExact(p) /\ Live(r) /\ mode' = mode
      /\ p \in acquiredExclusive[r]
  BY DEF IInv, RowIsExact, ChangeToShared, Ready, Live
<1>2. Bookkeep(r, p, shared, excl, cached) /\ excl \in BOOLEAN /\ ~excl
  BY DEF ChangeToShared, MarkChangeToShared
<1>3. shared > 0
  BY <1>1, ConstantsOK DEF TypeOK
<1>4. Owners(p) = {r} /\ \A q \in Request : Units(q, p) = 0
  BY <1>1, RowOwner
<1>5. Readers(p) = {} /\ Writers(p) = {r}
  <2>1. Readers(p) = {}
    BY <1>1, <1>4, RolesHoldUnits
  <2>2. Writers(p) = {r}
    BY <1>1, <1>4 DEF Writers, Owners
  <2> QED
    BY <2>1, <2>2
<1> HIDE DEF shared, excl, cached
<1>6. /\ Elsewhere(p)
      /\ Readers(p)' = IF shared > 0 THEN Readers(p) \cup {r} ELSE Readers(p) \ {r}
      /\ Writers(p)' = IF excl THEN Writers(p) \cup {r} ELSE Writers(p) \ {r}
  BY <1>1, <1>2, RolesMove
<1>7. Readers(p)' = {r} /\ Writers(p)' = {}
  BY <1>2, <1>3, <1>5, <1>6
<1>8. /\ ReadersBar' = [ReadersBar EXCEPT ![p] = {r}]
      /\ WritersBar' = [WritersBar EXCEPT ![p] = {}]
  BY <1>6, <1>7, BarMoves
<1>9. WritersBar[p] = {r}
  BY <1>5 DEF WritersBar
<1> QED
  BY <1>8, <1>9 DEF Abstract!Downgrade, ReadersBar, WritersBar

(* releaseLock(p, LOCK_SHARED): only the last release of a nested lock is   *)
(* visible.                                                                *)
LEMMA UnshareStep ==
    ASSUME IInv, NEW r \in Request, NEW p \in Path, ReleaseShared(r, p)
    PROVE  Abstract!Unshare(r, p) \/ UNCHANGED Abstract!vars
<1> DEFINE shared == acquiredShared[r][p] - 1
           excl == p \in acquiredExclusive[r]
           cached == p \in sharedLocks[r]
<1>1. /\ TypeOK /\ Live(r) /\ mode' = mode
      /\ acquiredShared[r][p] > 0 /\ acquiredShared[r][p] \in Nat
  BY ConstantsOK DEF IInv, TypeOK, ReleaseShared, MayRelease, Ready, Live
<1>2. Bookkeep(r, p, shared, excl, cached) /\ excl \in BOOLEAN
  BY DEF ReleaseShared, MarkReleaseShared
<1>3. r \in Readers(p) /\ (excl <=> r \in Writers(p))
  BY <1>1 DEF Readers, Writers
<1> HIDE DEF shared, excl, cached
<1>4. /\ Elsewhere(p)
      /\ Readers(p)' = IF shared > 0 THEN Readers(p) \cup {r} ELSE Readers(p) \ {r}
      /\ Writers(p)' = IF excl THEN Writers(p) \cup {r} ELSE Writers(p) \ {r}
  <2>1. CASE excl
    BY <2>1, <1>1, <1>2, RolesMove
  <2>2. CASE ~excl
    BY <2>2, <1>1, <1>2, RolesMove
  <2> QED
    BY <2>1, <2>2
<1>5. Writers(p)' = Writers(p)
  BY <1>3, <1>4
<1>6. CASE shared > 0
  <2>1. Readers(p)' = Readers(p)
    BY <1>3, <1>4, <1>6
  <2>2. \A t \in Path : Readers(t)' = Readers(t) /\ Writers(t)' = Writers(t)
    BY <2>1, <1>4, <1>5 DEF Elsewhere
  <2> QED
    BY <2>2, BarStays
<1>7. CASE ~(shared > 0)
  <2>1. Readers(p)' = Readers(p) \ {r}
    BY <1>4, <1>7
  <2>2. /\ ReadersBar' = [ReadersBar EXCEPT ![p] = Readers(p) \ {r}]
        /\ WritersBar' = [WritersBar EXCEPT ![p] = Writers(p)]
    BY <2>1, <1>4, <1>5, BarMoves
  <2>3. ReadersBar[p] = Readers(p) /\ WritersBar' = WritersBar
    BY <2>2 DEF ReadersBar, WritersBar
  <2> QED
    BY <2>2, <2>3, <1>3 DEF Abstract!Unshare, ReadersBar, WritersBar
<1> QED
  BY <1>6, <1>7

(* releaseLock(p, LOCK_EXCLUSIVE) *)
LEMMA UnclaimStep ==
    ASSUME IInv, NEW r \in Request, NEW p \in Path, ReleaseExclusive(r, p)
    PROVE  Abstract!Unclaim(r, p)
<1> DEFINE shared == acquiredShared[r][p]
           excl == FALSE
           cached == p \in sharedLocks[r]
<1>1. /\ TypeOK /\ KeptLocks /\ RowExact(p) /\ Live(r) /\ mode' = mode
      /\ p \in acquiredExclusive[r]
  BY DEF IInv, RowIsExact, ReleaseExclusive, MayRelease, Ready, Live
<1>2. Bookkeep(r, p, shared, excl, cached) /\ excl \in BOOLEAN /\ ~excl
  BY DEF ReleaseExclusive, MarkReleaseExclusive
<1>3. Owners(p) = {r} /\ \A q \in Request : Units(q, p) = 0
  BY <1>1, RowOwner
<1>4. Readers(p) = {} /\ Writers(p) = {r}
  <2>1. Readers(p) = {}
    BY <1>1, <1>3, RolesHoldUnits
  <2>2. Writers(p) = {r}
    BY <1>1, <1>3 DEF Writers, Owners
  <2> QED
    BY <2>1, <2>2
<1>5. ~(shared > 0)
  BY <1>1, <1>4 DEF Readers
<1> HIDE DEF shared, excl, cached
<1>6. /\ Elsewhere(p)
      /\ Readers(p)' = IF shared > 0 THEN Readers(p) \cup {r} ELSE Readers(p) \ {r}
      /\ Writers(p)' = IF excl THEN Writers(p) \cup {r} ELSE Writers(p) \ {r}
  BY <1>1, <1>2, RolesMove
<1>7. Readers(p)' = {} /\ Writers(p)' = {}
  BY <1>2, <1>4, <1>5, <1>6
<1>8. /\ ReadersBar' = [ReadersBar EXCEPT ![p] = {}]
      /\ WritersBar' = [WritersBar EXCEPT ![p] = {}]
  BY <1>6, <1>7, BarMoves
<1>9. ReadersBar[p] = {} /\ WritersBar[p] = {r} /\ ReadersBar' = ReadersBar
  BY <1>4, <1>8 DEF ReadersBar, WritersBar
<1> QED
  BY <1>8, <1>9 DEF Abstract!Unclaim, ReadersBar, WritersBar

-----------------------------------------------------------------------------
(* The acquisitions, statement by statement. *)

(* acquireLock(p, LOCK_SHARED) on a unit the request keeps. *)
LEMMA ReuseSharedRefines ==
    ASSUME IInv, NEW r \in Request, NEW p \in Path, ReuseShared(r, p)
    PROVE  Abstract!Share(r, p)
<1>1. /\ TypeOK /\ KeptLocks /\ RowExact(p) /\ Live(r) /\ mode' = mode
      /\ MarkAcquireShared(r, p) /\ p \in sharedLocks[r]
  BY DEF IInv, RowIsExact, ReuseShared, Ready, Live
<1>2. Units(r, p) > 0
  BY <1>1 DEF KeptLocks, Units
<1>3. Tokens(p) # {}
  BY <1>1, <1>2, NoUnits
<1>4. Owners(p) = {}
  BY <1>1, <1>3 DEF RowExact
<1> QED
  BY <1>1, <1>4, ShareStep

(* acquireLock(p, LOCK_SHARED) that inserts the row. *)
LEMMA InsertSharedRefines ==
    ASSUME IInv, NEW r \in Request, NEW p \in Path, InsertShared(r, p)
    PROVE  Abstract!Share(r, p)
<1>1. TypeOK /\ RowExact(p) /\ Live(r) /\ mode' = mode /\ MarkAcquireShared(r, p) /\ p \notin rows
  BY DEF IInv, RowIsExact, InsertShared, Insert, Ready, Live
<1>2. Owners(p) = {}
  BY <1>1 DEF RowExact
<1> QED
  BY <1>1, <1>2, ShareStep

(* acquireLock(p, LOCK_SHARED) whose UPDATE matches the row. *)
LEMMA UpdateSharedRefines ==
    ASSUME IInv, NEW r \in Request, UpdateShared(r)
    PROVE  \E p \in Path : Abstract!Share(r, p)
<1>1. TypeOK /\ Live(r) /\ mode' = mode /\ pending[r].type = "shared"
  BY DEF IInv, UpdateShared
<1>2. pending[r] \in Statement
  BY <1>1 DEF TypeOK, NoStatement
<1>3. PICK p \in Path : p = pending[r].path
  BY <1>2 DEF Statement
<1>4. RowExact(p) /\ MarkAcquireShared(r, p) /\ p \in rows /\ lock[p] >= 0 /\ lock[p] \in Int
  BY <1>1, <1>3 DEF IInv, RowIsExact, UpdateShared, TypeOK
<1>5. Owners(p) = {}
  BY <1>4 DEF RowExact
<1> QED
  BY <1>1, <1>4, <1>5, ShareStep

(* acquireLock(p, LOCK_EXCLUSIVE) that inserts the row. *)
LEMMA InsertExclusiveRefines ==
    ASSUME Assumptions, IInv, NEW r \in Request, NEW p \in Path, InsertExclusive(r, p)
    PROVE  Abstract!Claim(r, p)
<1>1. /\ IsFiniteSet(Request) /\ TypeOK /\ KeptLocks /\ RowExact(p) /\ Live(r) /\ mode' = mode
      /\ MarkAcquireExclusive(r, p) /\ p \notin rows
  BY DEF Assumptions, IInv, RowIsExact, InsertExclusive, Insert, Ready, Live
<1>2. Owners(p) = {} /\ \A q \in Request : Units(q, p) = 0
  BY <1>1, RowFree
<1>3. acquiredShared[r][p] = 0
  BY <1>1, <1>2 DEF Units, KeptLocks, TypeOK
<1> QED
  BY <1>1, <1>2, <1>3, ClaimStep DEF MarkAcquireExclusive

(* acquireLock(p, LOCK_EXCLUSIVE) whose UPDATE matches the row. *)
LEMMA UpdateExclusiveRefines ==
    ASSUME Assumptions, IInv, NEW r \in Request, UpdateExclusive(r)
    PROVE  \E p \in Path : Abstract!Claim(r, p)
<1>1. /\ IsFiniteSet(Request) /\ TypeOK /\ KeptLocks /\ PendingOK /\ Live(r) /\ mode' = mode
      /\ pending[r].type = "exclusive"
  BY DEF Assumptions, IInv, UpdateExclusive
<1>2. pending[r] \in Statement /\ pending[r] # NoStatement
  BY <1>1 DEF TypeOK, NoStatement
<1>3. PICK p \in Path : p = pending[r].path
  BY <1>2 DEF Statement
<1>4. RowExact(p) /\ MarkAcquireExclusive(r, p) /\ p \in rows /\ lock[p] = 0
  BY <1>1, <1>2, <1>3 DEF IInv, RowIsExact, UpdateExclusive, PendingOK
<1>5. Owners(p) = {} /\ \A q \in Request : Units(q, p) = 0
  BY <1>1, <1>4, RowFree
<1>6. acquiredShared[r][p] = 0
  BY <1>1, <1>5 DEF Units, KeptLocks, TypeOK
<1>7. Abstract!Claim(r, p)
  BY <1>1, <1>4, <1>5, <1>6, ClaimStep DEF MarkAcquireExclusive
<1> QED
  BY <1>7

(* changeLock(p, LOCK_EXCLUSIVE) *)
LEMMA ChangeToExclusiveRefines ==
    ASSUME Assumptions, IInv, NEW r \in Request, NEW p \in Path, ChangeToExclusive(r, p)
    PROVE  Abstract!Claim(r, p)
<1>1. /\ IsFiniteSet(Request) /\ TypeOK /\ KeptLocks /\ RowExact(p) /\ Live(r) /\ mode' = mode
      /\ acquiredShared[r][p] = 1 /\ p \in rows /\ lock[p] = 1
  BY DEF Assumptions, IInv, RowIsExact, ChangeToExclusive, Ready, Live
<1>2. Bookkeep(r, p, acquiredShared[r][p] - 1, TRUE, FALSE)
  BY DEF ChangeToExclusive, MarkChangeToExclusive
<1>3. Units(r, p) > 0
  BY <1>1 DEF Units, KeptLocks
<1>4. Owners(p) = {} /\ \A q \in Request : q # r => Units(q, p) = 0
  BY <1>1, <1>3, RowSole
<1>5. acquiredShared[r][p] - 1 = 0
  BY <1>1
<1> QED
  BY <1>1, <1>2, <1>4, <1>5, ClaimStep

-----------------------------------------------------------------------------
(* Steps nobody sees. *)

(* Neither the bookkeeping of a live request nor its life changes. *)
LEMMA Unseen ==
    ASSUME \A q \in Request :
              /\ Live(q)' <=> Live(q)
              /\ Live(q) => /\ acquiredShared'[q] = acquiredShared[q]
                            /\ acquiredExclusive'[q] = acquiredExclusive[q]
    PROVE  UNCHANGED Abstract!vars
<1>1. \A t \in Path : Readers(t)' = Readers(t) /\ Writers(t)' = Writers(t)
  BY DEF Readers, Writers
<1> QED
  BY <1>1, BarStays

(* The steps between the statements, and those of the clock. *)
LEMMA QuietRefines ==
    ASSUME UNCHANGED <<mode, local>>
    PROVE  UNCHANGED Abstract!vars
BY Unseen DEF local, Live

(* A request starts: it holds nothing yet. *)
LEMMA StartRefines ==
    ASSUME IInv, NEW r \in Request, Start(r)
    PROVE  UNCHANGED Abstract!vars
<1>1. /\ mode[r] = "idle" /\ mode \in [Request -> {"idle", "running", "closing", "crashed"}]
      /\ mode' = [mode EXCEPT ![r] = "running"] /\ UNCHANGED local
      /\ acquiredExclusive[r] = {} /\ \A t \in Path : acquiredShared[r][t] = 0
  BY DEF IInv, TypeOK, LifeOK, Start
<1>2. \A q \in Request : q # r => (Live(q)' <=> Live(q))
  BY <1>1 DEF Live
<1>3. acquiredShared' = acquiredShared /\ acquiredExclusive' = acquiredExclusive
  BY <1>1 DEF local
<1>4. \A t \in Path : Readers(t)' = Readers(t) /\ Writers(t)' = Writers(t)
  BY <1>1, <1>2, <1>3 DEF Readers, Writers
<1> QED
  BY <1>4, BarStays

(* Shutdown begins: the request still holds what it held. *)
LEMMA BeginCloseRefines ==
    ASSUME IInv, NEW r \in Request, BeginClose(r)
    PROVE  UNCHANGED Abstract!vars
<1>1. \A q \in Request : Live(q)' <=> Live(q)
  BY DEF IInv, TypeOK, BeginClose, Live
<1>2. acquiredShared' = acquiredShared /\ acquiredExclusive' = acquiredExclusive
  BY DEF BeginClose, local
<1> QED
  BY <1>1, <1>2, Unseen

(* A request that holds nothing any more forgets everything. *)
LEMMA ForgetRefines ==
    ASSUME IInv, NEW r \in Request, Forget(r), NoSharedLeft(r), acquiredExclusive[r] = {}
    PROVE  UNCHANGED Abstract!vars
<1>1. /\ \A t \in Path : acquiredShared[r][t] = 0 /\ acquiredShared'[r][t] = 0
      /\ acquiredExclusive'[r] = {}
      /\ \A q \in Request : q # r =>
            /\ acquiredShared'[q] = acquiredShared[q]
            /\ acquiredExclusive'[q] = acquiredExclusive[q]
            /\ mode'[q] = mode[q]
  BY DEF IInv, TypeOK, Forget, NoSharedLeft
<1>2. \A t \in Path : Readers(t)' = Readers(t) /\ Writers(t)' = Writers(t)
  BY <1>1 DEF Readers, Writers, Live
<1> QED
  BY <1>2, BarStays

(* A request is killed: its locks vanish with it. *)
LEMMA CrashRefines ==
    ASSUME IInv, NEW r \in Request, Crash(r)
    PROVE  Abstract!Vanish(r)
<1>1. /\ mode \in [Request -> {"idle", "running", "closing", "crashed"}]
      /\ mode' = [mode EXCEPT ![r] = "crashed"]
      /\ acquiredShared' = acquiredShared /\ acquiredExclusive' = acquiredExclusive
  BY DEF IInv, TypeOK, Crash, local
<1>2. ~Live(r)' /\ \A q \in Request : q # r => (Live(q)' <=> Live(q))
  BY <1>1 DEF Live
<1>3. \A t \in Path : Readers(t)' = Readers(t) \ {r} /\ Writers(t)' = Writers(t) \ {r}
  BY <1>1, <1>2 DEF Readers, Writers
<1> QED
  BY <1>3 DEF Abstract!Vanish

(* The clean-up job takes from dead requests only. *)
LEMMA CleanRefines ==
    ASSUME IInv, CleanExpiredLocks
    PROVE  UNCHANGED Abstract!vars
<1>1. PICK expired : DeleteRows(expired)
  BY DEF CleanExpiredLocks
<1>2. mode' = mode
  BY <1>1 DEF DeleteRows
<1>3. ASSUME NEW q \in Request, Live(q)
      PROVE  /\ acquiredShared'[q] = acquiredShared[q]
             /\ acquiredExclusive'[q] = acquiredExclusive[q]
  <2>1. mode[q] # "crashed"
    BY <1>3 DEF Live
  <2>2. acquiredExclusive'[q] = acquiredExclusive[q]
    BY <1>1, <2>1 DEF DeleteRows
  <2>3. acquiredShared'[q] = [p \in Path |-> acquiredShared[q][p]]
    BY <1>1, <2>1 DEF DeleteRows
  <2>4. acquiredShared[q] \in [Path -> 0..MaxShared]
    BY DEF IInv, TypeOK
  <2> QED
    BY <2>2, <2>3, <2>4
<1>4. \A q \in Request : Live(q)' <=> Live(q)
  BY <1>2 DEF Live
<1> QED
  BY <1>3, <1>4, Unseen

-----------------------------------------------------------------------------
(* Initially nobody holds anything. *)
LEMMA InitRefines == Init => Abstract!Init
<1> SUFFICES ASSUME Init PROVE Abstract!Init
  OBVIOUS
<1>1. \A p \in Path : Readers(p) = {} /\ Writers(p) = {}
  BY DEF Init, Readers, Writers, Live
<1> QED
  BY <1>1 DEF Abstract!Init

(* Every step of the provider is a step of the lock, or invisible. *)
LEMMA NextRefines ==
    ASSUME Assumptions, IInv, [Next]_vars
    PROVE  [Abstract!Next]_Abstract!vars
<1>1. ASSUME NEW r \in Request, NEW p \in Path,
             \/ Abstract!Share(r, p)
             \/ Abstract!Claim(r, p)
             \/ Abstract!Downgrade(r, p)
             \/ Abstract!Unshare(r, p)
             \/ Abstract!Unclaim(r, p)
      PROVE  Abstract!Next
  BY <1>1 DEF Abstract!Next
<1>2. ASSUME NEW r \in Request, Abstract!Vanish(r)
      PROVE  Abstract!Next
  BY <1>2 DEF Abstract!Next
<1>3. CASE UNCHANGED vars
  BY <1>3, QuietRefines DEF vars
<1>4. ASSUME NEW r \in Request, NEW p \in Path,
             \/ ReuseShared(r, p)
             \/ InsertShared(r, p)
             \/ InsertExclusive(r, p)
             \/ \E type \in {"shared", "exclusive"} : InsertConflict(r, p, type)
             \/ ReleaseShared(r, p)
             \/ ReleaseExclusive(r, p)
             \/ ChangeToShared(r, p)
             \/ ChangeToExclusive(r, p)
      PROVE  [Abstract!Next]_Abstract!vars
  <2>1. CASE \E type \in {"shared", "exclusive"} : InsertConflict(r, p, type)
    BY <2>1, QuietRefines DEF InsertConflict
  <2>2. CASE ReleaseShared(r, p)
    BY <2>2, <1>1, UnshareStep
  <2>3. CASE ReleaseExclusive(r, p)
    BY <2>3, <1>1, UnclaimStep
  <2>4. CASE ChangeToShared(r, p)
    BY <2>4, <1>1, DowngradeStep
  <2>5. CASE ReuseShared(r, p) \/ InsertShared(r, p)
    BY <2>5, <1>1, ReuseSharedRefines, InsertSharedRefines
  <2>6. CASE InsertExclusive(r, p) \/ ChangeToExclusive(r, p)
    BY <2>6, <1>1, InsertExclusiveRefines, ChangeToExclusiveRefines
  <2> QED
    BY <1>4, <2>1, <2>2, <2>3, <2>4, <2>5, <2>6
<1>5. ASSUME NEW r \in Request,
             \/ UpdateShared(r)
             \/ UpdateExclusive(r)
             \/ Refused(r)
             \/ Start(r)
             \/ BeginClose(r)
             \/ Close(r)
             \/ Crash(r)
             \/ Bury(r)
      PROVE  [Abstract!Next]_Abstract!vars
  <2>1. CASE UpdateShared(r) \/ UpdateExclusive(r)
    BY <2>1, <1>1, UpdateSharedRefines, UpdateExclusiveRefines
  <2>2. CASE Refused(r)
    BY <2>2, QuietRefines DEF Refused
  <2>3. CASE Start(r) \/ BeginClose(r)
    BY <2>3, StartRefines, BeginCloseRefines
  <2>4. CASE Close(r) \/ Bury(r)
    BY <2>4, ForgetRefines DEF Close, Bury
  <2>5. CASE Crash(r)
    BY <2>5, <1>2, CrashRefines
  <2> QED
    BY <1>5, <2>1, <2>2, <2>3, <2>4, <2>5
<1>6. CASE CleanExpiredLocks
  BY <1>6, CleanRefines
<1>7. CASE Tick
  BY <1>7, QuietRefines DEF Tick
<1> QED
  BY <1>3, <1>4, <1>5, <1>6, <1>7 DEF Next

(* DBLockingProvider implements ILockingProvider: whatever acquireLock,     *)
(* changeLock and releaseLock tell the requests, one readers-writer lock   *)
(* per path could have told them, with any number of requests and paths.   *)
THEOREM Refinement ==
    ASSUME Assumptions
    PROVE  Spec => ImplementsFileLock
<1>1. IInv /\ [Next]_vars => [Abstract!Next]_Abstract!vars
  BY NextRefines
<1> QED
  BY InitRefines, <1>1, Invariance, PTL DEF Spec, ImplementsFileLock, Abstract!Spec
=============================================================================
