----------------------- MODULE MemcacheLockingProofs -----------------------
(***************************************************************************)
(* Proofs about MemcacheLockingProvider, for every set of requests and     *)
(* paths and every ttl.                                                    *)
(*                                                                         *)
(* Two inductive invariants relate the anonymous value of a key to the     *)
(* requests.  The weak one (Backed) holds on every cache whose cas is      *)
(* atomic, also when keys expire: a key never stands for more locks than   *)
(* there are.  The strong one (Exact) says that it stands for exactly the  *)
(* locks there are.                                                        *)
(***************************************************************************)
EXTENDS MemcacheLockingProvider, FiniteSetTheorems, TLAPS

\* Where a key is worth what it says: no lock expires within the behaviour, and
\* if keys can expire, or cas is emulated, the paths are only locked exclusively.
\* For the others see MemcacheRestore.cfg and MemcacheEmulated.cfg.
Assumptions ==
    /\ IsFiniteSet(Request)
    /\ HasTTL => TTL > MaxTime
    /\ HasTTL \/ ~AtomicCas => SharedPath = {}

-----------------------------------------------------------------------------
(* Where a call is. *)
In(r, p, kind, commands) ==
    /\ call[r] # NoCall /\ call[r].path = p
    /\ call[r].kind = kind /\ call[r].at \in commands

Swapping == {"swap", "apply", "unlock"}

\* What the steps of a call may rely on.
CallOK(r) ==
    call[r] # NoCall =>
        LET c == call[r] IN
        /\ mode[r] # "idle" /\ c.at # "none"
        /\ c.at = "inc" => c.kind = "share"
        /\ c.at = "add" => c.kind = "acquire"
        /\ c.at \in Swapping => c.kind # "share"
        /\ c.at = "setTTL" => c.kind \in {"share", "acquire", "toShared", "toExclusive"}
        /\ c.at \in {"dec", "reset"} => c.kind = "unshare"
        /\ c.at \in {"get", "getTTL", "expire"} => c.kind \in {"toExclusive", "unshare"}
        /\ c.at \in {"apply", "unlock"} => ~AtomicCas
        /\ c.kind \in {"share", "toShared", "toExclusive", "unshare"} => c.path \in SharedPath
        /\ c.at = "reset" => c.seen \in Int /\ c.seen < 0
        /\ In(r, c.path, "share", {"inc"}) => shared[r][c.path] < MaxShared
        /\ In(r, c.path, "toShared", Swapping) =>
              shared[r][c.path] < MaxShared /\ c.path \in exclusive[r]
        /\ In(r, c.path, "toExclusive", Swapping) => shared[r][c.path] > 0

\* A request that is not running has nothing; nobody shares what is not shared.
MemoryOK(r) ==
    /\ mode[r] = "idle" =>
          call[r] = NoCall /\ exclusive[r] = {} /\ \A p \in Path : shared[r][p] = 0
    /\ \A p \in Path : shared[r][p] > 0 => p \in SharedPath

CallsOK == \A r \in Request : CallOK(r) /\ MemoryOK(r)

-----------------------------------------------------------------------------
(* The shared units a request has on a path: those of its bookkeeping, and *)
(* the one it is giving back.  Likewise for the exclusive lock.            *)
Releasing(r, p) == In(r, p, "unshare", Swapping \cup {"dec"})
Unacquiring(r, p) == In(r, p, "unacquire", Swapping)

Units(r, p) == shared[r][p] + (IF Releasing(r, p) THEN 1 ELSE 0)
Owns(r, p) == p \in exclusive[r] \/ Unacquiring(r, p)

Owners(p) == {r \in Request : Owns(r, p)}
Tokens(p) == {u \in Request \X (1..(MaxShared + 1)) : u[2] <= Units(u[1], p)}

\* A request is about to reset the key to what it is.
ResetDue(r, p) == In(r, p, "unshare", {"reset"}) /\ call[r].seen = value[p]

\* What the key says is backed by requests.
BackedAt(p) ==
    /\ value[p] = Exclusive => Owners(p) # {}
    /\ value[p] \in Int => value[p] <= Cardinality(Tokens(p))
    /\ value[p] \in Int /\ value[p] < 0 =>
          Tokens(p) # {} \/ \E r \in Request : ResetDue(r, p)

Backed == \A p \in Path : BackedAt(p)

\* What requests believe is what the key says.
Count(v) == IF v = Absent THEN 0 ELSE v

ExactAt(p) ==
    /\ \A r, q \in Owners(p) : r = q
    /\ value[p] = Exclusive => Tokens(p) = {}
    /\ value[p] # Exclusive => Owners(p) = {} /\ Count(value[p]) = Cardinality(Tokens(p))

\* No key expires within the behaviour.
LastsAt(p) == expires[p] = Never \/ expires[p] > MaxTime

\* Only one request is within an emulated cas, and the key is what it compared.
CasOK(p) ==
    /\ \A r \in Request, kind \in Kind :
          /\ In(r, p, kind, {"apply", "unlock"}) => p \in casLock
          /\ In(r, p, kind, {"apply"}) => value[p] = Old(kind)
    /\ \A r, q \in Request, k1, k2 \in Kind :
          In(r, p, k1, {"apply", "unlock"}) /\ In(q, p, k2, {"apply", "unlock"}) => r = q

Exact == \A p \in Path : ExactAt(p) /\ LastsAt(p) /\ CasOK(p)

-----------------------------------------------------------------------------
(* Calls. *)
LEMMA CallType ==
    ASSUME TypeOK, NEW r \in Request
    PROVE  /\ call[r].at # "none" => call[r] # NoCall
           /\ call[r] # NoCall =>
                 /\ call[r] \in Call /\ call[r].at \in Command /\ call[r].path \in Path
                 /\ call[r].kind \in Kind /\ call[r].seen \in Value /\ call[r].time \in Int
BY DEF TypeOK, Call, NoCall

\* A call begins.
LEMMA BeginFacts ==
    ASSUME TypeOK, NEW r \in Request, NEW p \in Path, NEW kind \in Kind,
           NEW command \in Command \ {"none"}, Begin(r, p, kind, command)
    PROVE  /\ call' \in [Request -> Call \cup {NoCall}]
           /\ call'[r].at = command /\ call'[r].path = p /\ call'[r].kind = kind
           /\ call'[r] # NoCall
           /\ \A q \in Request : q # r => call'[q] = call[q]
<1> DEFINE c == [at |-> command, path |-> p, kind |-> kind, seen |-> Absent, time |-> 0]
<1>1. c \in Call /\ c.at # "none"
  BY DEF Call, Value
<1>2. call' = [call EXCEPT ![r] = c]
  BY DEF Begin
<1>3. c # NoCall
  BY <1>1 DEF NoCall
<1>4. call'[r] = c /\ \A q \in Request : q # r => call'[q] = call[q]
  BY <1>2 DEF TypeOK
<1>5. call' \in [Request -> Call \cup {NoCall}]
  BY <1>1, <1>2 DEF TypeOK
<1> QED
  BY <1>3, <1>4, <1>5

\* A call goes on with another command.
LEMMA GotoFacts ==
    ASSUME TypeOK, NEW r \in Request, call[r] # NoCall,
           NEW command \in Command \ {"none"}, Goto(r, command)
    PROVE  /\ call' \in [Request -> Call \cup {NoCall}]
           /\ call'[r] # NoCall /\ call'[r].at = command
           /\ call'[r].path = call[r].path /\ call'[r].kind = call[r].kind
           /\ call'[r].seen = call[r].seen /\ call'[r].time = call[r].time
           /\ \A q \in Request : q # r => call'[q] = call[q]
<1> DEFINE c == [call[r] EXCEPT !.at = command]
<1>1. call[r] \in Call
  BY CallType
<1>2. /\ c \in Call /\ c.at = command /\ c.path = call[r].path /\ c.kind = call[r].kind
      /\ c.seen = call[r].seen /\ c.time = call[r].time
  BY <1>1 DEF Call
<1>3. call' = [call EXCEPT ![r] = c]
  BY DEF Goto
<1>4. c # NoCall
  BY <1>2 DEF NoCall
<1> HIDE DEF c
<1>5. call'[r] = c /\ \A q \in Request : q # r => call'[q] = call[q]
  BY <1>3 DEF TypeOK
<1>6. call' \in [Request -> Call \cup {NoCall}]
  BY <1>2, <1>3 DEF TypeOK
<1> QED
  BY <1>2, <1>4, <1>5, <1>6

\* A call ends.
LEMMA DoneFacts ==
    ASSUME TypeOK, NEW r \in Request, Done(r)
    PROVE  /\ call' \in [Request -> Call \cup {NoCall}]
           /\ call'[r] = NoCall
           /\ \A q \in Request : q # r => call'[q] = call[q]
BY DEF TypeOK, Done

\* restoreTTL begins, or is skipped.
LEMMA RestoreFacts ==
    ASSUME TypeOK, NEW r \in Request, call[r] # NoCall, NEW p, RestoreTTL(r, p)
    PROVE  /\ call' \in [Request -> Call \cup {NoCall}]
           /\ \/ call'[r] = NoCall
              \/ /\ call'[r] # NoCall /\ call'[r].at = "get"
                 /\ call'[r].path = call[r].path /\ call'[r].kind = call[r].kind
           /\ \A q \in Request : q # r => call'[q] = call[q]
<1>1. CASE Done(r)
  BY <1>1, DoneFacts
<1>2. CASE Goto(r, "get")
  <2>1. "get" \in Command \ {"none"}
    BY DEF Command
  <2> QED
    BY <1>2, <2>1, GotoFacts
<1> QED
  BY <1>1, <1>2 DEF RestoreTTL

\* The step concerns the call and the memory of one request.
OnlyOf(r) ==
    \A q \in Request : q # r =>
        /\ call'[q] = call[q] /\ mode'[q] = mode[q]
        /\ shared'[q] = shared[q] /\ exclusive'[q] = exclusive[q]

\* What is left to show is that the request itself may go on.
LEMMA OneCall ==
    ASSUME CallsOK, NEW r \in Request, OnlyOf(r), CallOK(r)', MemoryOK(r)'
    PROVE  CallsOK'
<1>1. ASSUME NEW q \in Request, q # r
      PROVE  CallOK(q)' /\ MemoryOK(q)'
  <2>1. /\ call'[q] = call[q] /\ mode'[q] = mode[q]
        /\ shared'[q] = shared[q] /\ exclusive'[q] = exclusive[q]
    BY <1>1 DEF OnlyOf
  <2>2. CallOK(q) /\ MemoryOK(q)
    BY DEF CallsOK
  <2> QED
    BY <2>1, <2>2 DEF CallOK, MemoryOK, In
<1> QED
  BY <1>1 DEF CallsOK

\* A call that has got the path, or not, ends or goes on with its ttl.
LEMMA CallEnds ==
    ASSUME TypeOK, NEW r \in Request, CallOK(r), MemoryOK(r), mode' = mode, mode[r] # "idle",
           \A p \in Path : shared'[r][p] > 0 => p \in SharedPath,
           \/ call'[r] = NoCall
           \/ /\ call'[r] # NoCall /\ call[r] # NoCall /\ call'[r].at \in {"setTTL", "get", "getTTL", "expire"}
              /\ call'[r].path = call[r].path /\ call'[r].kind = call[r].kind
              /\ IF call'[r].at = "setTTL"
                 THEN call[r].kind \in {"share", "acquire", "toShared", "toExclusive"}
                 ELSE call[r].kind \in {"toExclusive", "unshare"}
    PROVE  CallOK(r)' /\ MemoryOK(r)'
<1>1. MemoryOK(r)'
  BY DEF MemoryOK
<1>2. CASE call'[r] = NoCall
  BY <1>1, <1>2 DEF CallOK
<1>3. CASE call'[r] # NoCall
  BY <1>1, <1>3 DEF CallOK, In, Swapping
<1> QED
  BY <1>2, <1>3

-----------------------------------------------------------------------------
(* The types, and what calls may rely on. *)
LEMMA BoundsType == /\ MaxShared \in Nat \ {0} /\ MaxTime \in Nat
                    /\ TTL \in Nat \ {0} /\ DefaultTTL \in Nat /\ DefaultTTL > TTL
                    /\ Absent \notin Int /\ Exclusive \notin Int /\ Absent # Exclusive
                    /\ SharedPath \subseteq Path
BY ConstantsOK

\* The values of the variables, one by one.
LEMMA StateType ==
    ASSUME TypeOK
    PROVE  /\ now \in 0..MaxTime
           /\ \A p \in Path : value[p] \in Value /\ expires[p] \in Int
           /\ \A r \in Request, p \in Path :
                 shared[r][p] \in 0..MaxShared /\ shared[r][p] \in Int
           /\ \A r \in Request, p \in Path :
                 /\ oldTTLs[r][p] \in [ttl : Int, time : Int]
                 /\ oldTTLs[r][p].ttl \in Int /\ oldTTLs[r][p].time \in Int
BY BoundsType DEF TypeOK

\* The cache keeps its type.
LEMMA CacheType ==
    ASSUME TypeOK, NEW p \in Path,
           \/ UNCHANGED <<value, expires>>
           \/ \E v \in Value, e \in Int : Store(p, v, e)
           \/ \E seconds \in Int : Expire(p, seconds)
    PROVE  value' \in [Path -> Value] /\ expires' \in [Path -> Int]
<1>1. now \in Int /\ Absent \in Value /\ Never \in Int /\ value[p] \in Value
  BY StateType, BoundsType DEF Never, Value
<1>2. CASE UNCHANGED <<value, expires>>
  BY <1>2 DEF TypeOK
<1>3. ASSUME NEW v \in Value, NEW e \in Int, Store(p, v, e)
      PROVE  value' \in [Path -> Value] /\ expires' \in [Path -> Int]
  BY <1>3 DEF TypeOK, Store
<1>4. ASSUME NEW seconds \in Int, Expire(p, seconds)
      PROVE  value' \in [Path -> Value] /\ expires' \in [Path -> Int]
  <2>1. now + seconds \in Int
    BY <1>1
  <2>2. \/ UNCHANGED <<value, expires>>
        \/ Store(p, Absent, Never)
        \/ Store(p, value[p], now + seconds)
    BY <1>4 DEF Expire
  <2> QED
    BY <2>1, <2>2, <1>1, <1>2, <1>3
<1> QED
  BY <1>2, <1>3, <1>4

\* A method is called.
LEMMA MethodTyped ==
    ASSUME TypeOK, CallsOK, NEW r \in Request, NEW p \in Path,
           \/ AcquireShared(r, p)
           \/ AcquireExclusive(r, p)
           \/ ChangeToShared(r, p)
           \/ ChangeToExclusive(r, p)
           \/ ReleaseShared(r, p)
           \/ ReleaseExclusive(r, p)
    PROVE  TypeOK' /\ CallsOK'
<1>1. /\ mode[r] # "idle" /\ MemoryOK(r) /\ UNCHANGED <<cache, now, mode>>
      /\ now \in Int /\ expires[p] \in Int /\ shared[r][p] \in 0..MaxShared
  BY StateType, BoundsType DEF AcquireShared, AcquireExclusive, ChangeToShared, ChangeToExclusive, ReleaseShared,
         ReleaseExclusive, Ready, MayRelease, Live, CallsOK
<1>2. KeyTTL(p) \in Int
  BY <1>1 DEF KeyTTL
<1>3. CASE AcquireShared(r, p)
  <2>1. Begin(r, p, "share", "inc") /\ "inc" \in Command \ {"none"} /\ "share" \in Kind
    BY <1>3 DEF AcquireShared, Command, Kind
  <2>2. /\ call' \in [Request -> Call \cup {NoCall}]
        /\ call'[r].at = "inc" /\ call'[r].path = p /\ call'[r].kind = "share"
        /\ call'[r] # NoCall
        /\ \A q \in Request : q # r => call'[q] = call[q]
    BY <2>1, BeginFacts
  <2>3. TypeOK'
    BY <1>1, <1>2, <1>3, <2>2 DEF AcquireShared, TypeOK, cache
  <2>4. CallOK(r)' /\ MemoryOK(r)' /\ OnlyOf(r)
    BY <1>1, <1>3, <2>2 DEF AcquireShared, CallOK, MemoryOK, In, Swapping, OnlyOf
  <2> QED
    BY <2>3, <2>4, OneCall
<1>4. CASE AcquireExclusive(r, p)
  <2>1. Begin(r, p, "acquire", "add") /\ "add" \in Command \ {"none"} /\ "acquire" \in Kind
    BY <1>4 DEF AcquireExclusive, Command, Kind
  <2>2. /\ call' \in [Request -> Call \cup {NoCall}]
        /\ call'[r].at = "add" /\ call'[r].path = p /\ call'[r].kind = "acquire"
        /\ call'[r] # NoCall
        /\ \A q \in Request : q # r => call'[q] = call[q]
    BY <2>1, BeginFacts
  <2>3. TypeOK'
    BY <1>1, <1>4, <2>2 DEF AcquireExclusive, TypeOK, cache, memory
  <2>4. CallOK(r)' /\ MemoryOK(r)' /\ OnlyOf(r)
    BY <1>1, <1>4, <2>2 DEF AcquireExclusive, CallOK, MemoryOK, In, Swapping, OnlyOf, memory
  <2> QED
    BY <2>3, <2>4, OneCall
<1>5. CASE ChangeToShared(r, p)
  <2>1. Begin(r, p, "toShared", "swap") /\ "swap" \in Command \ {"none"} /\ "toShared" \in Kind
    BY <1>5 DEF ChangeToShared, Command, Kind
  <2>2. /\ call' \in [Request -> Call \cup {NoCall}]
        /\ call'[r].at = "swap" /\ call'[r].path = p /\ call'[r].kind = "toShared"
        /\ call'[r] # NoCall
        /\ \A q \in Request : q # r => call'[q] = call[q]
    BY <2>1, BeginFacts
  <2>3. TypeOK'
    BY <1>1, <1>5, <2>2 DEF ChangeToShared, TypeOK, cache, memory
  <2>4. CallOK(r)' /\ MemoryOK(r)' /\ OnlyOf(r)
    BY <1>1, <1>5, <2>2 DEF ChangeToShared, CallOK, MemoryOK, In, Swapping, OnlyOf, memory
  <2> QED
    BY <2>3, <2>4, OneCall
<1>6. CASE ChangeToExclusive(r, p)
  <2>1. Begin(r, p, "toExclusive", "swap") /\ "swap" \in Command \ {"none"} /\ "toExclusive" \in Kind
    BY <1>6 DEF ChangeToExclusive, Command, Kind
  <2>2. /\ call' \in [Request -> Call \cup {NoCall}]
        /\ call'[r].at = "swap" /\ call'[r].path = p /\ call'[r].kind = "toExclusive"
        /\ call'[r] # NoCall
        /\ \A q \in Request : q # r => call'[q] = call[q]
    BY <2>1, BeginFacts
  <2>3. TypeOK'
    BY <1>1, <1>6, <2>2 DEF ChangeToExclusive, TypeOK, cache, memory
  <2>4. CallOK(r)' /\ MemoryOK(r)' /\ OnlyOf(r)
    BY <1>1, <1>6, <2>2 DEF ChangeToExclusive, CallOK, MemoryOK, In, Swapping, OnlyOf, memory
  <2> QED
    BY <2>3, <2>4, OneCall
<1>7. CASE ReleaseShared(r, p)
  <2> DEFINE command == IF shared[r][p] = 1 THEN "swap" ELSE "dec"
  <2>1. /\ Begin(r, p, "unshare", command)
        /\ command \in Command \ {"none"} /\ "unshare" \in Kind
        /\ command \in {"swap", "dec"} /\ shared[r][p] > 0
    BY <1>7 DEF ReleaseShared, Command, Kind
  <2> HIDE DEF command
  <2>2. /\ call' \in [Request -> Call \cup {NoCall}]
        /\ call'[r].at \in {"swap", "dec"} /\ call'[r].path = p /\ call'[r].kind = "unshare"
        /\ call'[r] # NoCall
        /\ \A q \in Request : q # r => call'[q] = call[q]
    BY <2>1, BeginFacts
  <2>3. shared[r][p] - 1 \in 0..MaxShared /\ p \in SharedPath
    BY <1>1, <2>1, BoundsType DEF MemoryOK
  <2>4. shared' = [shared EXCEPT ![r][p] = shared[r][p] - 1] /\ UNCHANGED <<exclusive, oldTTLs>>
    BY <1>7 DEF ReleaseShared
  <2>5. TypeOK'
    BY <1>1, <2>2, <2>3, <2>4 DEF TypeOK, cache
  <2>6. OnlyOf(r) /\ \A t \in Path : shared'[r][t] > 0 => t \in SharedPath
    BY <1>1, <2>2, <2>3, <2>4 DEF OnlyOf, MemoryOK, TypeOK
  <2>7. CallOK(r)' /\ MemoryOK(r)'
    BY <1>1, <2>2, <2>3, <2>6 DEF CallOK, MemoryOK, In, Swapping
  <2> QED
    BY <2>5, <2>6, <2>7, OneCall
<1>8. CASE ReleaseExclusive(r, p)
  <2>1. Begin(r, p, "unacquire", "swap") /\ "swap" \in Command \ {"none"} /\ "unacquire" \in Kind
    BY <1>8 DEF ReleaseExclusive, Command, Kind
  <2>2. /\ call' \in [Request -> Call \cup {NoCall}]
        /\ call'[r].at = "swap" /\ call'[r].path = p /\ call'[r].kind = "unacquire"
        /\ call'[r] # NoCall
        /\ \A q \in Request : q # r => call'[q] = call[q]
    BY <2>1, BeginFacts
  <2>3. TypeOK'
    BY <1>1, <1>8, <2>2 DEF ReleaseExclusive, TypeOK, cache
  <2>4. CallOK(r)' /\ MemoryOK(r)' /\ OnlyOf(r)
    BY <1>1, <1>8, <2>2 DEF ReleaseExclusive, CallOK, MemoryOK, In, Swapping, OnlyOf, TypeOK
  <2> QED
    BY <2>3, <2>4, OneCall
<1> QED
  BY <1>3, <1>4, <1>5, <1>6, <1>7, <1>8

\* What is known of a request at a command.
LEMMA AtFacts ==
    ASSUME TypeOK, CallsOK, NEW r \in Request, NEW command \in Command \ {"none"}, At(r, command)
    PROVE  /\ Live(r) /\ mode[r] # "idle" /\ call[r] # NoCall /\ call[r].at = command
           /\ call[r].path \in Path /\ call[r].kind \in Kind
           /\ call[r].seen \in Value /\ call[r].time \in Int
           /\ CallOK(r) /\ MemoryOK(r)
BY CallType DEF At, Live, CallsOK

\* After a cas or cad that succeeded.
LEMMA SwappedFacts ==
    ASSUME TypeOK, CallsOK, NEW r \in Request, NEW command \in {"swap", "apply"},
           At(r, command), Swapped(r), NEW p, p = call[r].path, NEW kind, kind = call[r].kind
    PROVE  /\ value' = [value EXCEPT ![p] = New(kind)] /\ expires' = [expires EXCEPT ![p] = Never]
           /\ shared' = [shared EXCEPT ![r][p] =
                 IF kind = "toShared" THEN shared[r][p] + 1
                 ELSE IF kind = "toExclusive" THEN shared[r][p] - 1 ELSE shared[r][p]]
           /\ exclusive' = [exclusive EXCEPT ![r] =
                 IF kind \in {"acquire", "toExclusive"} THEN exclusive[r] \cup {p} ELSE exclusive[r] \ {p}]
           /\ IF kind \in {"unshare", "unacquire"} THEN call'[r] = NoCall
              ELSE call'[r] # NoCall /\ call'[r].at = "setTTL" /\ call'[r].path = p /\ call'[r].kind = kind
           /\ kind # "share" /\ p \in Path /\ kind \in Kind
           /\ \A q \in Request : q # r => call'[q] = call[q]
           /\ value' \in [Path -> Value] /\ expires' \in [Path -> Int]
           /\ shared' \in [Request -> [Path -> 0..MaxShared]]
           /\ exclusive' \in [Request -> SUBSET Path]
           /\ oldTTLs' \in [Request -> [Path -> [ttl : Int, time : Int]]]
           /\ call' \in [Request -> Call \cup {NoCall}]
<1>1. /\ Live(r) /\ call[r] # NoCall /\ call[r].at = command
      /\ p \in Path /\ kind \in Kind /\ CallOK(r)
  BY AtFacts DEF Command
<1>2. /\ value' = [value EXCEPT ![p] = New(kind)] /\ expires' = [expires EXCEPT ![p] = Never]
      /\ shared' = [shared EXCEPT ![r][p] =
            IF kind = "toShared" THEN shared[r][p] + 1
            ELSE IF kind = "toExclusive" THEN shared[r][p] - 1 ELSE shared[r][p]]
      /\ exclusive' = [exclusive EXCEPT ![r] =
            IF kind \in {"acquire", "toExclusive"} THEN exclusive[r] \cup {p} ELSE exclusive[r] \ {p}]
  BY DEF Swapped, Store
<1>3. kind # "share"
  BY <1>1 DEF CallOK, Swapping
<1>4. New(kind) \in Value /\ Never \in Int
  BY DEF New, Value, Never
<1>5. value' \in [Path -> Value] /\ expires' \in [Path -> Int]
  BY <1>2, <1>4 DEF TypeOK
<1>6. shared' \in [Request -> [Path -> 0..MaxShared]]
  <2> DEFINE n == IF kind = "toShared" THEN shared[r][p] + 1
                  ELSE IF kind = "toExclusive" THEN shared[r][p] - 1 ELSE shared[r][p]
  <2>1. shared[r][p] \in 0..MaxShared /\ MaxShared \in Nat
    BY <1>1, StateType, BoundsType
  <2>2. /\ kind = "toShared" => shared[r][p] < MaxShared
        /\ kind = "toExclusive" => shared[r][p] > 0
    BY <1>1 DEF CallOK, In, Swapping
  <2>3. n \in 0..MaxShared
    BY <2>1, <2>2
  <2> HIDE DEF n
  <2>4. shared' = [shared EXCEPT ![r][p] = n]
    BY <1>2 DEF n
  <2> QED
    BY <2>3, <2>4 DEF TypeOK
<1>7. exclusive' \in [Request -> SUBSET Path]
  BY <1>1, <1>2 DEF TypeOK
<1>8. oldTTLs' \in [Request -> [Path -> [ttl : Int, time : Int]]]
  <2>1. CASE oldTTLs' = oldTTLs
    BY <2>1 DEF TypeOK
  <2>2. CASE oldTTLs' = [oldTTLs EXCEPT ![r][p] = NoOldTTL]
    BY <2>2, <1>1 DEF TypeOK, NoOldTTL
  <2> QED
    BY <2>1, <2>2 DEF Swapped, ForgetTTL
<1>9. /\ IF kind \in {"unshare", "unacquire"} THEN call'[r] = NoCall
         ELSE call'[r] # NoCall /\ call'[r].at = "setTTL" /\ call'[r].path = p /\ call'[r].kind = kind
      /\ call' \in [Request -> Call \cup {NoCall}]
      /\ \A q \in Request : q # r => call'[q] = call[q]
  <2>1. CASE kind \in {"unshare", "unacquire"}
    <3>1. Done(r)
      BY <2>1 DEF Swapped
    <3> QED
      BY <2>1, <3>1, DoneFacts
  <2>2. CASE kind \notin {"unshare", "unacquire"}
    <3>1. Goto(r, "setTTL") /\ "setTTL" \in Command \ {"none"}
      BY <2>2 DEF Swapped, Command
    <3> QED
      BY <2>2, <3>1, <1>1, GotoFacts
  <2> QED
    BY <2>1, <2>2
<1> QED
  BY <1>1, <1>2, <1>3, <1>5, <1>6, <1>7, <1>8, <1>9

\* After a cas or cad that failed.
LEMMA NotSwappedFacts ==
    ASSUME TypeOK, CallsOK, NEW r \in Request, NEW command \in Swapping,
           At(r, command), NotSwapped(r)
    PROVE  /\ UNCHANGED <<value, expires, memory>>
           /\ call' \in [Request -> Call \cup {NoCall}]
           /\ \A q \in Request : q # r => call'[q] = call[q]
           /\ call[r].kind # "share"
           /\ \/ call[r].kind # "unshare" /\ call'[r] = NoCall
              \/ /\ call[r].kind = "toExclusive" /\ call'[r] # NoCall /\ call'[r].at = "get"
                 /\ call'[r].path = call[r].path /\ call'[r].kind = call[r].kind
              \/ /\ call[r].kind = "unshare" /\ call'[r] # NoCall /\ call'[r].at = "dec"
                 /\ call'[r].path = call[r].path /\ call'[r].kind = call[r].kind
<1>1. call[r] # NoCall /\ call[r].at \in Swapping /\ call[r].kind # "share"
  BY AtFacts DEF Swapping, Command, CallOK
<1>2. CASE call[r].kind \in {"acquire", "toShared", "unacquire"} /\ Done(r)
  BY <1>1, <1>2, DoneFacts DEF NotSwapped
<1>3. CASE call[r].kind = "toExclusive" /\ RestoreTTL(r, call[r].path)
  BY <1>1, <1>3, RestoreFacts DEF NotSwapped
<1>4. CASE call[r].kind = "unshare" /\ Goto(r, "dec")
  <2>1. "dec" \in Command \ {"none"}
    BY DEF Command
  <2> QED
    BY <1>1, <1>4, <2>1, GotoFacts DEF NotSwapped
<1> QED
  BY <1>2, <1>3, <1>4 DEF NotSwapped

\* The request may go on after a cas or cad.
LEMMA SettledTyped ==
    ASSUME TypeOK, CallsOK, NEW r \in Request, NEW command \in Swapping, At(r, command),
           \/ command # "unlock" /\ Swapped(r)
           \/ NotSwapped(r),
           casLock' \subseteq Path, UNCHANGED <<now, mode>>
    PROVE  TypeOK' /\ CallsOK'
<1>1. /\ Live(r) /\ mode[r] # "idle" /\ call[r] # NoCall /\ call[r].at = command
      /\ call[r].path \in Path /\ call[r].kind \in Kind /\ CallOK(r) /\ MemoryOK(r)
  BY AtFacts DEF Command, Swapping
<1>2. CASE command # "unlock" /\ Swapped(r)
  <2> DEFINE p == call[r].path
             kind == call[r].kind
             n == IF kind = "toShared" THEN shared[r][p] + 1
                  ELSE IF kind = "toExclusive" THEN shared[r][p] - 1 ELSE shared[r][p]
             locks == IF kind \in {"acquire", "toExclusive"} THEN exclusive[r] \cup {p} ELSE exclusive[r] \ {p}
  <2>1. /\ shared' = [shared EXCEPT ![r][p] = n]
        /\ exclusive' = [exclusive EXCEPT ![r] = locks]
        /\ IF kind \in {"unshare", "unacquire"} THEN call'[r] = NoCall
           ELSE call'[r] # NoCall /\ call'[r].at = "setTTL" /\ call'[r].path = p /\ call'[r].kind = kind
        /\ kind # "share" /\ p \in Path /\ kind \in Kind
        /\ \A q \in Request : q # r => call'[q] = call[q]
        /\ value' \in [Path -> Value] /\ expires' \in [Path -> Int]
        /\ shared' \in [Request -> [Path -> 0..MaxShared]]
        /\ exclusive' \in [Request -> SUBSET Path]
        /\ oldTTLs' \in [Request -> [Path -> [ttl : Int, time : Int]]]
        /\ call' \in [Request -> Call \cup {NoCall}]
    BY <1>2, SwappedFacts DEF Swapping
  <2> HIDE DEF n, locks
  <2>2. TypeOK'
    BY <2>1 DEF TypeOK
  <2>3. OnlyOf(r)
    BY <2>1 DEF OnlyOf, TypeOK
  <2>4. ASSUME NEW t \in Path, shared'[r][t] > 0
        PROVE  t \in SharedPath
    <3>1. CASE t = p
      <4>1. CASE kind \in {"toShared", "toExclusive"}
        BY <1>1, <3>1, <4>1 DEF CallOK
      <4>2. CASE kind \notin {"toShared", "toExclusive"}
        <5>1. shared'[r][t] = shared[r][t]
          BY <2>1, <3>1, <4>2 DEF n, TypeOK
        <5> QED
          BY <1>1, <2>4, <5>1 DEF MemoryOK
      <4> QED
        BY <4>1, <4>2
    <3>2. CASE t # p
      <4>1. shared'[r][t] = shared[r][t]
        BY <2>1, <3>2 DEF TypeOK
      <4> QED
        BY <1>1, <2>4, <4>1 DEF MemoryOK
    <3> QED
      BY <3>1, <3>2
  <2>5. kind \notin {"unshare", "unacquire"} => kind \in {"share", "acquire", "toShared", "toExclusive"}
    BY <2>1 DEF Kind
  <2>6. CallOK(r)' /\ MemoryOK(r)'
    BY <1>1, <2>1, <2>4, <2>5, CallEnds
  <2> QED
    BY <2>2, <2>3, <2>6, OneCall
<1>3. CASE NotSwapped(r)
  <2>1. /\ UNCHANGED <<value, expires, memory>>
        /\ call' \in [Request -> Call \cup {NoCall}]
        /\ \A q \in Request : q # r => call'[q] = call[q]
        /\ \/ call[r].kind # "unshare" /\ call'[r] = NoCall
           \/ /\ call[r].kind = "toExclusive" /\ call'[r] # NoCall /\ call'[r].at = "get"
              /\ call'[r].path = call[r].path /\ call'[r].kind = call[r].kind
           \/ /\ call[r].kind = "unshare" /\ call'[r] # NoCall /\ call'[r].at = "dec"
              /\ call'[r].path = call[r].path /\ call'[r].kind = call[r].kind
    BY <1>3, NotSwappedFacts
  <2>2. TypeOK'
    BY <2>1 DEF TypeOK, memory
  <2>3. OnlyOf(r)
    BY <2>1 DEF OnlyOf, memory
  <2>4. \A t \in Path : shared'[r][t] > 0 => t \in SharedPath
    BY <1>1, <2>1 DEF MemoryOK, memory
  <2>5. ASSUME call'[r] # NoCall, call'[r].at = "dec"
        PROVE  CallOK(r)' /\ MemoryOK(r)'
    BY <1>1, <2>1, <2>4, <2>5 DEF CallOK, MemoryOK, In, Swapping
  <2>6. ASSUME call'[r] = NoCall \/ call'[r].at = "get"
        PROVE  CallOK(r)' /\ MemoryOK(r)'
    <3>1. \/ call'[r] = NoCall
          \/ /\ call'[r] # NoCall /\ call'[r].at = "get" /\ call[r].kind = "toExclusive"
             /\ call'[r].path = call[r].path /\ call'[r].kind = call[r].kind
      BY <2>1, <2>6
    <3> QED
      BY <1>1, <2>4, <3>1, CallEnds
  <2>7. CallOK(r)' /\ MemoryOK(r)'
    BY <2>1, <2>5, <2>6
  <2> QED
    BY <2>2, <2>3, <2>7, OneCall
<1> QED
  BY <1>2, <1>3

\* inc, and what acquireLock makes of its result.
LEMMA IncTyped ==
    ASSUME TypeOK, CallsOK, NEW r \in Request, Inc(r)
    PROVE  TypeOK' /\ CallsOK'
<1> DEFINE p == call[r].path
           new == IF value[p] = Absent THEN 1 ELSE value[p] + 1
<1>1. /\ Live(r) /\ mode[r] # "idle" /\ call[r] # NoCall /\ call[r].at = "inc"
      /\ p \in Path /\ CallOK(r) /\ MemoryOK(r)
  <2>1. At(r, "inc") /\ "inc" \in Command \ {"none"}
    BY DEF Inc, Command
  <2> QED
    BY <2>1, AtFacts
<1>2. call[r].kind = "share" /\ p \in SharedPath /\ shared[r][p] < MaxShared
  BY <1>1 DEF CallOK, In
<1>3. UNCHANGED <<expires, casLock, now, mode, exclusive, oldTTLs>>
  BY DEF Inc, cache
<1>4. CASE Done(r) /\ UNCHANGED shared /\ (value' = value \/ (value' = [value EXCEPT ![p] = new] /\ value[p] # Exclusive))
  <2>1. /\ call' \in [Request -> Call \cup {NoCall}] /\ call'[r] = NoCall
        /\ \A q \in Request : q # r => call'[q] = call[q]
    BY <1>4, DoneFacts
  <2>2. value' \in [Path -> Value]
    <3>1. value[p] # Exclusive => new \in Value
      BY <1>1, StateType DEF Value
    <3> QED
      BY <1>4, <3>1 DEF TypeOK
  <2>3. TypeOK'
    BY <1>3, <1>4, <2>1, <2>2 DEF TypeOK
  <2>4. OnlyOf(r) /\ \A t \in Path : shared'[r][t] > 0 => t \in SharedPath
    BY <1>1, <1>3, <1>4, <2>1 DEF OnlyOf, MemoryOK
  <2>5. CallOK(r)' /\ MemoryOK(r)'
    BY <1>1, <1>3, <2>1, <2>4, CallEnds
  <2> QED
    BY <2>3, <2>4, <2>5, OneCall
<1>5. CASE /\ Goto(r, "setTTL") /\ shared' = [shared EXCEPT ![r][p] = @ + 1]
           /\ value' = [value EXCEPT ![p] = new] /\ value[p] # Exclusive
  <2>1. "setTTL" \in Command \ {"none"}
    BY DEF Command
  <2>2. /\ call' \in [Request -> Call \cup {NoCall}]
        /\ call'[r] # NoCall /\ call'[r].at = "setTTL"
        /\ call'[r].path = call[r].path /\ call'[r].kind = call[r].kind
        /\ \A q \in Request : q # r => call'[q] = call[q]
    BY <1>1, <1>5, <2>1, GotoFacts
  <2>3. new \in Value /\ shared[r][p] + 1 \in 0..MaxShared
    BY <1>1, <1>2, <1>5, StateType, BoundsType DEF Value
  <2>4. value' \in [Path -> Value] /\ shared' \in [Request -> [Path -> 0..MaxShared]]
    BY <1>5, <2>3 DEF TypeOK
  <2>5. TypeOK'
    BY <1>3, <2>2, <2>4 DEF TypeOK
  <2>6. OnlyOf(r) /\ \A t \in Path : shared'[r][t] > 0 => t \in SharedPath
    BY <1>1, <1>2, <1>3, <1>5, <2>2 DEF OnlyOf, MemoryOK, TypeOK
  <2>7. CallOK(r)' /\ MemoryOK(r)'
    BY <1>1, <1>2, <1>3, <2>2, <2>6, CallEnds
  <2> QED
    BY <2>5, <2>6, <2>7, OneCall
<1>6. \/ UNCHANGED <<cache, shared>> /\ Done(r)
      \/ /\ value[p] # Exclusive /\ value' = [value EXCEPT ![p] = new]
         /\ IF new = 0 THEN Done(r) /\ UNCHANGED shared
            ELSE Goto(r, "setTTL") /\ shared' = [shared EXCEPT ![r][p] = @ + 1]
  BY DEF Inc
<1> HIDE DEF new
<1>7. CASE UNCHANGED <<cache, shared>> /\ Done(r)
  <2>1. value' = value /\ shared' = shared /\ Done(r)
    BY <1>7 DEF cache
  <2> QED
    BY <1>4, <2>1
<1>8. CASE new = 0 /\ ~(UNCHANGED <<cache, shared>> /\ Done(r))
  <2>1. value[p] # Exclusive /\ value' = [value EXCEPT ![p] = new] /\ Done(r) /\ UNCHANGED shared
    BY <1>6, <1>8
  <2> QED
    BY <1>4, <2>1
<1>9. CASE new # 0 /\ ~(UNCHANGED <<cache, shared>> /\ Done(r))
  BY <1>5, <1>6, <1>9
<1> QED
  BY <1>7, <1>8, <1>9

\* dec, and what releaseLock makes of its result.
LEMMA DecTyped ==
    ASSUME TypeOK, CallsOK, NEW r \in Request, Dec(r)
    PROVE  TypeOK' /\ CallsOK'
<1> DEFINE p == call[r].path
<1>1. /\ Live(r) /\ mode[r] # "idle" /\ call[r] # NoCall /\ call[r].at = "dec"
      /\ p \in Path /\ CallOK(r) /\ MemoryOK(r) /\ call[r].kind \in Kind
  <2>1. At(r, "dec") /\ "dec" \in Command \ {"none"}
    BY DEF Dec, Command
  <2> QED
    BY <2>1, AtFacts
<1>2. call[r].kind = "unshare" /\ p \in SharedPath
  BY <1>1 DEF CallOK
<1>3. UNCHANGED <<expires, casLock, now, mode, shared, exclusive>>
  BY DEF Dec, cache
<1>4. oldTTLs' \in [Request -> [Path -> [ttl : Int, time : Int]]]
  <2>1. oldTTLs' = oldTTLs \/ ForgetTTL(r, p)
    BY DEF Dec
  <2>2. CASE oldTTLs' = oldTTLs
    BY <2>2 DEF TypeOK
  <2>3. CASE ForgetTTL(r, p)
    BY <1>1, <2>3 DEF ForgetTTL, NoOldTTL, TypeOK
  <2> QED
    BY <2>1, <2>2, <2>3
<1>5. value' \in [Path -> Value]
  <2>1. value[p] \in Value
    BY <1>1, StateType
  <2>2. \/ value' = value
        \/ value[p] \notin {Absent, Exclusive} /\ value' = [value EXCEPT ![p] = value[p] - 1]
    BY DEF Dec, cache
  <2>3. CASE value' = value
    BY <2>3 DEF TypeOK
  <2>4. CASE value[p] \notin {Absent, Exclusive} /\ value' = [value EXCEPT ![p] = value[p] - 1]
    <3>1. value[p] - 1 \in Value
      BY <2>1, <2>4 DEF Value
    <3> QED
      BY <2>4, <3>1 DEF TypeOK
  <2> QED
    BY <2>2, <2>3, <2>4
<1>6. CASE /\ value[p] \in Int /\ value[p] < 1
           /\ call' = [call EXCEPT ![r].at = "reset", ![r].seen = value[p] - 1]
  <2> DEFINE c == [call[r] EXCEPT !.at = "reset", !.seen = value[p] - 1]
  <2>1. call[r] \in Call /\ "reset" \in Command /\ value[p] - 1 \in Value /\ value[p] - 1 \in Int
    BY <1>1, <1>6, CallType DEF Command, Value
  <2>2. /\ c \in Call /\ c.at = "reset" /\ c.path = p /\ c.kind = "unshare"
        /\ c.seen = value[p] - 1
    BY <1>2, <2>1 DEF Call
  <2>3. call' = [call EXCEPT ![r] = c]
    BY <1>6
  <2> HIDE DEF c
  <2>4. call'[r] = c /\ \A q \in Request : q # r => call'[q] = call[q]
    BY <2>3 DEF TypeOK
  <2>5. TypeOK'
    BY <1>3, <1>4, <1>5, <2>2, <2>3 DEF TypeOK
  <2>6. OnlyOf(r)
    BY <1>3, <2>4 DEF OnlyOf
  <2>7. CallOK(r)' /\ MemoryOK(r)'
    <3>1. c.seen \in Int /\ c.seen < 0
      BY <1>6, <2>2
    <3> QED
      BY <1>1, <1>2, <1>3, <2>2, <2>4, <3>1 DEF CallOK, MemoryOK, In, Swapping
  <2> QED
    BY <2>5, <2>6, <2>7, OneCall
<1>7. CASE Done(r) \/ RestoreTTL(r, p)
  <2>1. /\ call' \in [Request -> Call \cup {NoCall}]
        /\ \/ call'[r] = NoCall
           \/ /\ call'[r] # NoCall /\ call'[r].at = "get"
              /\ call'[r].path = call[r].path /\ call'[r].kind = call[r].kind
        /\ \A q \in Request : q # r => call'[q] = call[q]
    BY <1>1, <1>7, DoneFacts, RestoreFacts
  <2>2. TypeOK'
    BY <1>3, <1>4, <1>5, <2>1 DEF TypeOK
  <2>3. OnlyOf(r) /\ \A t \in Path : shared'[r][t] > 0 => t \in SharedPath
    BY <1>1, <1>3, <2>1 DEF OnlyOf, MemoryOK
  <2>4. \/ call'[r] = NoCall
        \/ /\ call'[r] # NoCall /\ call'[r].at = "get" /\ call[r].kind = "unshare"
           /\ call'[r].path = call[r].path /\ call'[r].kind = call[r].kind
    BY <1>2, <2>1
  <2>5. CallOK(r)' /\ MemoryOK(r)'
    BY <1>1, <1>3, <2>3, <2>4, CallEnds
  <2> QED
    BY <2>2, <2>3, <2>5, OneCall
<1>8. value[p] \in {Absent, Exclusive} \/ value[p] \in Int
  BY <1>1, StateType DEF Value
<1> QED
  BY <1>6, <1>7, <1>8 DEF Dec

\* add, and the commands that only look at the key or set its ttl.
LEMMA AddTyped ==
    ASSUME TypeOK, CallsOK, NEW r \in Request, Add(r)
    PROVE  TypeOK' /\ CallsOK'
<1> DEFINE p == call[r].path
<1>1. /\ Live(r) /\ mode[r] # "idle" /\ call[r] # NoCall /\ call[r].at = "add"
      /\ p \in Path /\ CallOK(r) /\ MemoryOK(r)
  <2>1. At(r, "add") /\ "add" \in Command \ {"none"}
    BY DEF Add, Command
  <2> QED
    BY <2>1, AtFacts
<1>2. call[r].kind = "acquire"
  BY <1>1 DEF CallOK
<1>3. UNCHANGED <<casLock, now, mode, memory>> /\ Goto(r, "swap") /\ "swap" \in Command \ {"none"}
  BY DEF Add, Command
<1>4. /\ call' \in [Request -> Call \cup {NoCall}]
      /\ call'[r] # NoCall /\ call'[r].at = "swap"
      /\ call'[r].path = call[r].path /\ call'[r].kind = call[r].kind
      /\ \A q \in Request : q # r => call'[q] = call[q]
  BY <1>1, <1>3, GotoFacts
<1>5. value' \in [Path -> Value] /\ expires' \in [Path -> Int]
  <2>1. /\ (IF HasTTL THEN now + DefaultTTL ELSE Never) \in Int
        /\ 0 \in Value
    BY StateType, BoundsType DEF Never, Value
  <2>2. UNCHANGED <<value, expires>> \/ Store(p, 0, IF HasTTL THEN now + DefaultTTL ELSE Never)
    BY DEF Add
  <2> QED
    BY <1>1, <2>1, <2>2, CacheType
<1>6. TypeOK'
  BY <1>3, <1>4, <1>5 DEF TypeOK, memory
<1>7. OnlyOf(r)
  BY <1>3, <1>4 DEF OnlyOf, memory
<1>8. CallOK(r)' /\ MemoryOK(r)'
  BY <1>1, <1>2, <1>3, <1>4 DEF CallOK, MemoryOK, In, Swapping, memory
<1> QED
  BY <1>6, <1>7, <1>8, OneCall

LEMMA AfterwardsTyped ==
    ASSUME TypeOK, CallsOK, NEW r \in Request,
           SetTTL(r) \/ Reset(r) \/ Get(r) \/ GetTTL(r) \/ CompareSetTTL(r)
    PROVE  TypeOK' /\ CallsOK'
<1> DEFINE p == call[r].path
<1>1. PICK command \in {"setTTL", "reset", "get", "getTTL", "expire"} : At(r, command)
  BY DEF SetTTL, Reset, Get, GetTTL, CompareSetTTL
<1>2. /\ mode[r] # "idle" /\ call[r] # NoCall /\ call[r].at = command
      /\ p \in Path /\ call[r].kind \in Kind /\ call[r].time \in Int
      /\ CallOK(r) /\ MemoryOK(r)
  BY <1>1, AtFacts DEF Command
<1>3. UNCHANGED <<casLock, now, mode, memory>>
  BY DEF SetTTL, Reset, Get, GetTTL, CompareSetTTL, cache
<1>4. value' \in [Path -> Value] /\ expires' \in [Path -> Int]
  <2>1. /\ TTL \in Int /\ Absent \in Value /\ Never \in Int
        /\ oldTTLs[r][p].ttl - Elapsed(r) \in Int
    BY <1>2, StateType, BoundsType DEF Never, Value, Elapsed
  <2>2. \/ UNCHANGED <<value, expires>>
        \/ Store(p, Absent, Never)
        \/ Expire(p, TTL)
        \/ Expire(p, oldTTLs[r][p].ttl - Elapsed(r))
    BY DEF SetTTL, Reset, Get, GetTTL, CompareSetTTL, cache
  <2> QED
    BY <1>2, <2>1, <2>2, CacheType
<1>5. /\ call' \in [Request -> Call \cup {NoCall}]
      /\ \A q \in Request : q # r => call'[q] = call[q]
      /\ \/ call'[r] = NoCall
         \/ /\ call'[r] # NoCall /\ call'[r].at \in {"getTTL", "expire"}
            /\ command \in {"get", "getTTL"}
            /\ call'[r].path = call[r].path /\ call'[r].kind = call[r].kind
  <2>1. CASE Done(r)
    BY <2>1, DoneFacts
  <2>2. CASE Get(r)
    <3> DEFINE c == [call[r] EXCEPT !.at = "getTTL", !.seen = value[p], !.time = now]
    <3>1. call[r] \in Call /\ "getTTL" \in Command /\ value[p] \in Value /\ now \in Int
      BY <1>2, CallType, StateType DEF Command
    <3>2. c \in Call /\ c.at = "getTTL" /\ c.path = call[r].path /\ c.kind = call[r].kind
      BY <3>1 DEF Call
    <3>3. call' = [call EXCEPT ![r] = c]
      BY <2>2 DEF Get
    <3>4. c # NoCall /\ command = "get"
      BY <1>2, <2>2, <3>2 DEF NoCall, Get, At
    <3> HIDE DEF c
    <3>5. call'[r] = c /\ \A q \in Request : q # r => call'[q] = call[q]
      BY <3>3 DEF TypeOK
    <3>6. call' \in [Request -> Call \cup {NoCall}]
      BY <3>2, <3>3 DEF TypeOK
    <3> QED
      BY <3>2, <3>4, <3>5, <3>6
  <2>3. CASE GetTTL(r) /\ Goto(r, "expire")
    <3>1. "expire" \in Command \ {"none"} /\ command = "getTTL"
      BY <1>2, <2>3 DEF Command, GetTTL, At
    <3> QED
      BY <1>2, <2>3, <3>1, GotoFacts
  <2> QED
    BY <2>1, <2>2, <2>3 DEF SetTTL, Reset, GetTTL, CompareSetTTL
<1>6. TypeOK'
  BY <1>3, <1>4, <1>5 DEF TypeOK, memory
<1>7. OnlyOf(r) /\ \A t \in Path : shared'[r][t] > 0 => t \in SharedPath
  BY <1>2, <1>3, <1>5 DEF OnlyOf, memory, MemoryOK
<1>8. command \in {"get", "getTTL"} => call[r].kind \in {"toExclusive", "unshare"}
  BY <1>2 DEF CallOK
<1>9. CallOK(r)' /\ MemoryOK(r)'
  BY <1>2, <1>3, <1>5, <1>7, <1>8, CallEnds
<1> QED
  BY <1>6, <1>7, <1>9, OneCall

\* cas and cad, in one command or emulated.
LEMMA SwapTyped ==
    ASSUME TypeOK, CallsOK, NEW r \in Request, Swap(r) \/ EmulatedCompare(r) \/ EmulatedApply(r)
    PROVE  TypeOK' /\ CallsOK'
<1> DEFINE p == call[r].path
<1>1. PICK command \in Swapping : At(r, command)
  BY DEF Swap, EmulatedCompare, EmulatedApply, Swapping
<1>2. /\ mode[r] # "idle" /\ call[r] # NoCall /\ call[r].at = command
      /\ p \in Path /\ call[r].kind \in Kind /\ CallOK(r) /\ MemoryOK(r)
  BY <1>1, AtFacts DEF Swapping, Command
<1>3. UNCHANGED <<now, mode>> /\ casLock' \subseteq Path
  BY <1>2 DEF Swap, EmulatedCompare, EmulatedApply, TypeOK
<1>4. CASE (command # "unlock" /\ Swapped(r)) \/ NotSwapped(r)
  BY <1>1, <1>3, <1>4, SettledTyped
<1>5. CASE ~AtomicCas /\ UNCHANGED <<value, expires, memory>> /\ \E next \in {"apply", "unlock"} : Goto(r, next)
  <2>1. PICK next \in {"apply", "unlock"} : Goto(r, next)
    BY <1>5
  <2>2. /\ call' \in [Request -> Call \cup {NoCall}]
        /\ call'[r] # NoCall /\ call'[r].at = next
        /\ call'[r].path = call[r].path /\ call'[r].kind = call[r].kind
        /\ \A q \in Request : q # r => call'[q] = call[q]
    BY <1>2, <2>1, GotoFacts DEF Command
  <2>3. TypeOK'
    BY <1>3, <1>5, <2>2 DEF TypeOK, memory
  <2>4. OnlyOf(r)
    BY <1>3, <1>5, <2>2 DEF OnlyOf, memory
  <2>5. CallOK(r)' /\ MemoryOK(r)'
    BY <1>2, <1>3, <1>5, <2>2 DEF CallOK, MemoryOK, In, Swapping, memory
  <2> QED
    BY <2>3, <2>4, <2>5, OneCall
<1>6. CASE Swap(r)
  <2>1. command # "unlock"
    BY <1>2, <1>6 DEF Swap, At
  <2> QED
    BY <1>4, <1>6, <2>1 DEF Swap
<1>7. CASE EmulatedCompare(r)
  BY <1>4, <1>5, <1>7 DEF EmulatedCompare
<1>8. CASE EmulatedApply(r)
  <2>1. At(r, "apply") => command # "unlock"
    BY <1>2 DEF At
  <2> QED
    BY <1>4, <1>8, <2>1 DEF EmulatedApply
<1> QED
  BY <1>6, <1>7, <1>8

\* The life of a request.
LEMMA LifeTyped ==
    ASSUME TypeOK, CallsOK, NEW r \in Request, Start(r) \/ BeginClose(r) \/ Close(r) \/ Crash(r)
    PROVE  TypeOK' /\ CallsOK'
<1>1. /\ UNCHANGED <<cache, now, call, shared, exclusive>>
      /\ CallOK(r) /\ MemoryOK(r)
      /\ oldTTLs' \in [Request -> [Path -> [ttl : Int, time : Int]]]
  <2>1. oldTTLs' = oldTTLs \/ oldTTLs' = [oldTTLs EXCEPT ![r] = [p \in Path |-> NoOldTTL]]
    BY DEF Start, BeginClose, Close, Crash, memory
  <2>2. oldTTLs' \in [Request -> [Path -> [ttl : Int, time : Int]]]
    <3>1. CASE oldTTLs' = oldTTLs
      BY <3>1 DEF TypeOK
    <3>2. CASE oldTTLs' = [oldTTLs EXCEPT ![r] = [p \in Path |-> NoOldTTL]]
      <4>1. [p \in Path |-> NoOldTTL] \in [Path -> [ttl : Int, time : Int]]
        BY DEF NoOldTTL
      <4> QED
        BY <3>2, <4>1 DEF TypeOK
    <3> QED
      BY <2>1, <3>1, <3>2
  <2> QED
    BY <2>2 DEF Start, BeginClose, Close, Crash, memory, CallsOK
<1>2. PICK m \in {"idle", "running", "closing", "crashed"} :
          /\ mode' = [mode EXCEPT ![r] = m]
          /\ m = "idle" => call[r] = NoCall /\ exclusive[r] = {} /\ \A p \in Path : shared[r][p] = 0
  BY DEF Start, BeginClose, Close, Crash, NoSharedLeft
<1>3. mode'[r] = m /\ \A q \in Request : q # r => mode'[q] = mode[q]
  BY <1>2 DEF TypeOK
<1>4. TypeOK'
  BY <1>1, <1>2 DEF TypeOK, cache
<1>5. OnlyOf(r)
  BY <1>1, <1>3 DEF OnlyOf
<1>6. CallOK(r)' /\ MemoryOK(r)'
  BY <1>1, <1>2, <1>3 DEF CallOK, MemoryOK, In
<1> QED
  BY <1>4, <1>5, <1>6, OneCall

\* A second passes.
LEMMA TickTyped ==
    ASSUME TypeOK, CallsOK, Tick
    PROVE  TypeOK' /\ CallsOK'
<1>1. UNCHANGED <<casLock, mode, call, memory>> /\ now' \in 0..MaxTime
  BY BoundsType DEF Tick, TypeOK
<1>2. value' \in [Path -> Value] /\ expires' \in [Path -> Int]
  <2>1. Absent \in Value /\ Never \in Int
    BY DEF Value, Never
  <2> QED
    BY <2>1, StateType DEF Tick
<1>3. TypeOK'
  BY <1>1, <1>2 DEF TypeOK, memory
<1>4. CallsOK'
  BY <1>1 DEF CallsOK, CallOK, MemoryOK, In, memory
<1> QED
  BY <1>3, <1>4

\* Initially no request runs.
LEMMA InitTyped == Init => TypeOK /\ CallsOK
<1> SUFFICES ASSUME Init PROVE TypeOK /\ CallsOK
  OBVIOUS
<1>1. Absent \in Value /\ Never \in Int /\ 0 \in 0..MaxShared /\ 0 \in 0..MaxTime
  BY BoundsType DEF Value, Never
<1>2. TypeOK
  BY <1>1 DEF Init, TypeOK, NoOldTTL
<1>3. CallsOK
  BY DEF Init, CallsOK, CallOK, MemoryOK
<1> QED
  BY <1>2, <1>3

\* Every step keeps the types, and what calls may rely on.
LEMMA NextTyped ==
    ASSUME TypeOK, CallsOK, [Next]_vars
    PROVE  TypeOK' /\ CallsOK'
<1>1. CASE UNCHANGED vars
  BY <1>1 DEF vars, cache, memory, TypeOK, CallsOK, CallOK, MemoryOK, In
<1>2. ASSUME NEW r \in Request, NEW p \in Path,
             \/ AcquireShared(r, p)
             \/ AcquireExclusive(r, p)
             \/ ChangeToShared(r, p)
             \/ ChangeToExclusive(r, p)
             \/ ReleaseShared(r, p)
             \/ ReleaseExclusive(r, p)
      PROVE  TypeOK' /\ CallsOK'
  BY <1>2, MethodTyped
<1>3. ASSUME NEW r \in Request, Inc(r) \/ Add(r) \/ Dec(r)
      PROVE  TypeOK' /\ CallsOK'
  BY <1>3, IncTyped, AddTyped, DecTyped
<1>4. ASSUME NEW r \in Request, Swap(r) \/ EmulatedCompare(r) \/ EmulatedApply(r)
      PROVE  TypeOK' /\ CallsOK'
  BY <1>4, SwapTyped
<1>5. ASSUME NEW r \in Request, SetTTL(r) \/ Reset(r) \/ Get(r) \/ GetTTL(r) \/ CompareSetTTL(r)
      PROVE  TypeOK' /\ CallsOK'
  BY <1>5, AfterwardsTyped
<1>6. ASSUME NEW r \in Request, Start(r) \/ BeginClose(r) \/ Close(r) \/ Crash(r)
      PROVE  TypeOK' /\ CallsOK'
  BY <1>6, LifeTyped
<1>7. CASE Tick
  BY <1>7, TickTyped
<1> QED
  BY <1>1, <1>2, <1>3, <1>4, <1>5, <1>6, <1>7 DEF Next

LEMMA Typing == Spec => [](TypeOK /\ CallsOK)
<1>1. TypeOK /\ CallsOK /\ [Next]_vars => (TypeOK /\ CallsOK)'
  BY NextTyped
<1> QED
  BY InitTyped, <1>1, PTL DEF Spec

\* Keys hold 'exclusive' or a number, also where a cache lets a counter become
\* negative; no request counts its locks below zero or beyond the bound.
THEOREM TypeCorrect == Spec => []TypeOK
  BY Typing, PTL

-----------------------------------------------------------------------------
(* Counting units.  Tok(U) are the tokens of a path on which request r has  *)
(* U[r] units.                                                             *)
Most == MaxShared + 1
Tok(U) == {u \in Request \X (1..Most) : u[2] <= U[u[1]]}
UnitsAt(p) == [r \in Request |-> Units(r, p)]

LEMMA MostType == Most \in Nat \ {0} /\ MaxShared \in Nat /\ Most = MaxShared + 1
BY BoundsType DEF Most

\* There are finitely many tokens.
LEMMA TokFinite ==
    ASSUME IsFiniteSet(Request), NEW U
    PROVE  IsFiniteSet(Tok(U)) /\ Cardinality(Tok(U)) \in Nat
<1>1. IsFiniteSet(1..Most)
  BY MostType, FS_Interval
<1>2. IsFiniteSet(Request \X (1..Most))
  BY <1>1, FS_Product
<1>3. IsFiniteSet(Tok(U))
  BY <1>2, FS_Subset DEF Tok
<1> QED
  BY <1>3, FS_CardinalityType

\* A request with a unit has a token.
LEMMA TokSome ==
    ASSUME NEW U \in [Request -> 0..Most]
    PROVE  Tok(U) = {} <=> \A r \in Request : U[r] = 0
<1>1. ASSUME NEW r \in Request, U[r] # 0
      PROVE  Tok(U) # {}
  <2>1. U[r] \in 1..Most
    BY <1>1, MostType
  <2>2. <<r, U[r]>> \in Tok(U)
    BY <2>1 DEF Tok
  <2> QED
    BY <2>2
<1>2. ASSUME \A r \in Request : U[r] = 0
      PROVE  Tok(U) = {}
  BY <1>2, MostType DEF Tok
<1> QED
  BY <1>1, <1>2

\* One unit more is one token more.
LEMMA TokGain ==
    ASSUME IsFiniteSet(Request),
           NEW U \in [Request -> 0..Most], NEW V \in [Request -> 0..Most],
           NEW r \in Request, V[r] = U[r] + 1,
           \A q \in Request : q # r => V[q] = U[q]
    PROVE  Cardinality(Tok(V)) = Cardinality(Tok(U)) + 1
<1>1. U[r] \in Nat /\ V[r] \in 1..Most
  BY MostType
<1>2. <<r, V[r]>> \notin Tok(U)
  BY <1>1 DEF Tok
<1>3. ASSUME NEW u \in Request \X (1..Most)
      PROVE  u[2] <= V[u[1]] <=> u[2] <= U[u[1]] \/ u = <<r, V[r]>>
  <2>1. u[1] \in Request /\ u[2] \in 1..Most /\ u = <<u[1], u[2]>>
    OBVIOUS
  <2>2. CASE u[1] = r
    BY <1>1, <2>1, <2>2, MostType
  <2>3. CASE u[1] # r
    BY <1>1, <2>1, <2>3
  <2> QED
    BY <2>2, <2>3
<1>4. Tok(V) = Tok(U) \cup {<<r, V[r]>>}
  BY <1>1, <1>3 DEF Tok
<1> QED
  BY <1>2, <1>4, TokFinite, FS_AddElement

\* Units are units.
LEMMA UnitsType ==
    ASSUME TypeOK, NEW p \in Path
    PROVE  /\ UnitsAt(p) \in [Request -> 0..Most] /\ Tokens(p) = Tok(UnitsAt(p))
           /\ \A r \in Request : Units(r, p) \in 0..Most /\ UnitsAt(p)[r] = Units(r, p)
<1>1. \A r \in Request : shared[r][p] \in 0..MaxShared
  BY StateType
<1>2. \A r \in Request : Units(r, p) \in 0..Most
  BY <1>1, MostType DEF Units
<1> QED
  BY <1>2 DEF UnitsAt, Tokens, Tok, Most

\* Units after a step.
LEMMA UnitsNext ==
    ASSUME TypeOK', NEW p \in Path
    PROVE  \A q \in Request : shared'[q][p] \in Nat /\ Units(q, p)' \in 1..Most \cup {0}
<1>1. \A q \in Request : shared'[q][p] \in 0..MaxShared
  BY DEF TypeOK
<1> QED
  BY <1>1, MostType DEF Units

\* Nobody has units where there are no tokens.
LEMMA TokensNext ==
    ASSUME TypeOK', NEW p \in Path, Tokens(p)' = {}
    PROVE  \A q \in Request : Units(q, p)' = 0
<1> SUFFICES ASSUME NEW q \in Request, Units(q, p)' # 0 PROVE FALSE
  OBVIOUS
<1>1. Units(q, p)' \in 1..Most
  BY UnitsNext
<1>2. <<q, Units(q, p)'>> \in Tokens(p)'
  BY <1>1, MostType DEF Tokens, Most
<1> QED
  BY <1>2

LEMMA TokensType ==
    ASSUME IsFiniteSet(Request), TypeOK, NEW p \in Path
    PROVE  /\ Cardinality(Tokens(p)) \in Nat
           /\ Cardinality(Tokens(p)) = 0 <=> Tokens(p) = {}
           /\ Tokens(p) = {} <=> \A r \in Request : Units(r, p) = 0
<1>1. IsFiniteSet(Tokens(p)) /\ Cardinality(Tokens(p)) \in Nat
  BY UnitsType, TokFinite
<1> QED
  BY <1>1, UnitsType, TokSome, FS_EmptySet

\* A request takes a unit of a path, or gives one back, or neither.
LEMMA TokensGain ==
    ASSUME IsFiniteSet(Request), TypeOK, TypeOK', NEW r \in Request, NEW p \in Path,
           \A q \in Request : q # r => Units(q, p)' = Units(q, p)
    PROVE  /\ Units(r, p)' = Units(r, p) + 1 =>
                 Cardinality(Tokens(p)') = Cardinality(Tokens(p)) + 1
           /\ Units(r, p)' = Units(r, p) - 1 =>
                 Cardinality(Tokens(p)') = Cardinality(Tokens(p)) - 1
           /\ Units(r, p)' = Units(r, p) => Tokens(p)' = Tokens(p)
<1>1. /\ UnitsAt(p) \in [Request -> 0..Most] /\ Tokens(p) = Tok(UnitsAt(p))
      /\ \A q \in Request : Units(q, p) \in 0..Most /\ UnitsAt(p)[q] = Units(q, p)
  BY UnitsType
<1>2. /\ UnitsAt(p)' \in [Request -> 0..Most] /\ Tokens(p)' = Tok(UnitsAt(p)')
      /\ \A q \in Request : Units(q, p)' \in 0..Most /\ UnitsAt(p)'[q] = Units(q, p)'
  <2>1. (UnitsAt(p) \in [Request -> 0..Most] /\ Tokens(p) = Tok(UnitsAt(p)))'
    BY UnitsType, PTL
  <2>2. \A q \in Request : UnitsAt(p)'[q] = Units(q, p)'
    BY DEF UnitsAt
  <2> QED
    BY <2>1, <2>2 DEF Tok
<1>3. ASSUME Units(r, p)' = Units(r, p) + 1
      PROVE  Cardinality(Tokens(p)') = Cardinality(Tokens(p)) + 1
  BY <1>1, <1>2, <1>3, TokGain
<1>4. ASSUME Units(r, p)' = Units(r, p) - 1
      PROVE  Cardinality(Tokens(p)') = Cardinality(Tokens(p)) - 1
  <2>1. Units(r, p) = Units(r, p)' + 1
    BY <1>1, <1>2, <1>4, MostType
  <2>2. Cardinality(Tokens(p)) = Cardinality(Tokens(p)') + 1
    BY <1>1, <1>2, <2>1, TokGain
  <2>3. Cardinality(Tokens(p)') \in Nat
    BY <1>2, TokFinite
  <2> QED
    BY <2>2, <2>3
<1>5. ASSUME Units(r, p)' = Units(r, p)
      PROVE  Tokens(p)' = Tokens(p)
  <2>1. \A q \in Request : Units(q, p)' = Units(q, p)
    BY <1>5
  <2> QED
    BY <2>1 DEF Tokens
<1> QED
  BY <1>3, <1>4, <1>5

-----------------------------------------------------------------------------
(* What a step does to one path.                                           *)

\* The step concerns one request and one path.
Only(r, p) ==
    /\ \A t \in Path : t # p =>
          /\ value'[t] = value[t] /\ shared'[r][t] = shared[r][t]
          /\ t \in exclusive'[r] <=> t \in exclusive[r]
    /\ \A q \in Request : q # r =>
          call'[q] = call[q] /\ shared'[q] = shared[q] /\ exclusive'[q] = exclusive[q]
    /\ call[r] = NoCall \/ call[r].path = p
    /\ call'[r] = NoCall \/ call'[r].path = p

LEMMA Elsewhere ==
    ASSUME NEW r \in Request, NEW p \in Path, Only(r, p),
           NEW q \in Request, NEW t \in Path, <<q, t>> # <<r, p>>
    PROVE  /\ Units(q, t)' = Units(q, t)
           /\ Owns(q, t)' <=> Owns(q, t)
           /\ \A kind, commands : In(q, t, kind, commands)' <=> In(q, t, kind, commands)
<1>1. \A kind, commands : In(q, t, kind, commands)' <=> In(q, t, kind, commands)
  <2>1. CASE q # r
    BY <2>1 DEF Only, In
  <2>2. CASE q = r /\ t # p
    BY <2>2 DEF Only, In
  <2> QED
    BY <2>1, <2>2
<1>2. /\ Releasing(q, t)' <=> Releasing(q, t)
      /\ Unacquiring(q, t)' <=> Unacquiring(q, t)
  BY <1>1 DEF Releasing, Unacquiring
<1>3. shared'[q][t] = shared[q][t] /\ (t \in exclusive'[q] <=> t \in exclusive[q])
  BY DEF Only
<1> QED
  BY <1>1, <1>2, <1>3 DEF Units, Owns

LEMMA SharedType ==
    ASSUME TypeOK, TypeOK', NEW r \in Request, NEW p \in Path
    PROVE  shared[r][p] \in Int /\ shared'[r][p] \in Int
<1>1. shared[r][p] \in 0..MaxShared /\ shared'[r][p] \in 0..MaxShared
  BY DEF TypeOK
<1> QED
  BY <1>1, BoundsType

\* The bookkeeping moves from one place to another, or not at all.
Unmoved ==
    \A q \in Request, t \in Path :
        Units(q, t)' = Units(q, t) /\ (Owns(q, t)' <=> Owns(q, t))

\* A method is called: what is given back is still there.
LEMMA MethodEffect ==
    ASSUME TypeOK, CallsOK, NEW r \in Request, NEW p \in Path,
           \/ AcquireShared(r, p)
           \/ AcquireExclusive(r, p)
           \/ ChangeToShared(r, p)
           \/ ChangeToExclusive(r, p)
           \/ ReleaseShared(r, p)
           \/ ReleaseExclusive(r, p)
    PROVE  /\ UNCHANGED cache /\ Unmoved
           /\ call[r] = NoCall /\ call'[r].at \in {"inc", "add", "swap", "dec"}
           /\ \A q \in Request : q # r => call'[q] = call[q]
<1>1. /\ call[r] = NoCall /\ UNCHANGED cache
      /\ ~Releasing(r, p) /\ ~Unacquiring(r, p) /\ \A t \in Path : ~Releasing(r, t) /\ ~Unacquiring(r, t)
  BY DEF AcquireShared, AcquireExclusive, ChangeToShared, ChangeToExclusive, ReleaseShared,
         ReleaseExclusive, Ready, MayRelease, Releasing, Unacquiring, In
<1>2. PICK command \in {"inc", "add", "swap", "dec"}, kind \in Kind : Begin(r, p, kind, command)
  BY DEF AcquireShared, AcquireExclusive, ChangeToShared, ChangeToExclusive, ReleaseShared,
         ReleaseExclusive, Kind
<1>3. /\ call' \in [Request -> Call \cup {NoCall}]
      /\ call'[r].at = command /\ call'[r].path = p /\ call'[r].kind = kind
      /\ call'[r] # NoCall
      /\ \A q \in Request : q # r => call'[q] = call[q]
  BY <1>2, BeginFacts DEF Command
<1>4. CASE ReleaseShared(r, p)
  <2>1. /\ shared' = [shared EXCEPT ![r][p] = shared[r][p] - 1] /\ exclusive' = exclusive
        /\ call'[r].kind = "unshare" /\ call'[r].at \in {"swap", "dec"}
    <3>1. /\ Begin(r, p, "unshare", "swap") \/ Begin(r, p, "unshare", "dec")
          /\ shared' = [shared EXCEPT ![r][p] = shared[r][p] - 1] /\ exclusive' = exclusive
      BY <1>4 DEF ReleaseShared
    <3>2. \A c \in {"swap", "dec"} : Begin(r, p, "unshare", c) => call'[r].kind = "unshare" /\ call'[r].at = c
      BY BeginFacts DEF Command, Kind
    <3> QED
      BY <3>1, <3>2
  <2>2. /\ Releasing(r, p)' /\ \A t \in Path : ~Unacquiring(r, t)'
        /\ \A t \in Path : t # p => ~Releasing(r, t)'
    BY <1>3, <2>1 DEF Releasing, Unacquiring, In, Swapping
  <2>3. \A q \in Request, t \in Path : q # r =>
            (Releasing(q, t)' <=> Releasing(q, t)) /\ (Unacquiring(q, t)' <=> Unacquiring(q, t))
    BY <1>3 DEF Releasing, Unacquiring, In
  <2>4. shared[r][p] \in Int
    BY StateType
  <2>5. Unmoved
    BY <1>1, <2>1, <2>2, <2>3, <2>4 DEF Unmoved, Units, Owns, TypeOK
  <2> QED
    BY <1>1, <1>3, <2>5
<1>5. CASE ReleaseExclusive(r, p)
  <2>1. /\ exclusive' = [exclusive EXCEPT ![r] = @ \ {p}] /\ shared' = shared
        /\ p \in exclusive[r] /\ call'[r].kind = "unacquire" /\ call'[r].at = "swap"
    <3>1. "swap" \in Command \ {"none"} /\ "unacquire" \in Kind
      BY DEF Command, Kind
    <3> QED
      BY <1>5, <3>1, BeginFacts DEF ReleaseExclusive
  <2>2. /\ Unacquiring(r, p)' /\ \A t \in Path : ~Releasing(r, t)'
        /\ \A t \in Path : t # p => ~Unacquiring(r, t)'
    BY <1>3, <2>1 DEF Releasing, Unacquiring, In, Swapping
  <2>3. \A q \in Request, t \in Path : q # r =>
            (Releasing(q, t)' <=> Releasing(q, t)) /\ (Unacquiring(q, t)' <=> Unacquiring(q, t))
    BY <1>3 DEF Releasing, Unacquiring, In
  <2>4. Unmoved
    BY <1>1, <2>1, <2>2, <2>3 DEF Unmoved, Units, Owns, TypeOK
  <2> QED
    BY <1>1, <1>3, <2>4
<1>6. CASE \/ AcquireShared(r, p) \/ AcquireExclusive(r, p)
           \/ ChangeToShared(r, p) \/ ChangeToExclusive(r, p)
  <2>1. UNCHANGED <<shared, exclusive>> /\ call'[r].kind \in {"share", "acquire", "toShared", "toExclusive"}
    <3>1. UNCHANGED <<shared, exclusive>>
      BY <1>6 DEF AcquireShared, AcquireExclusive, ChangeToShared, ChangeToExclusive, memory
    <3>2. \E k \in {"share", "acquire", "toShared", "toExclusive"}, c \in {"inc", "add", "swap"} : Begin(r, p, k, c)
      BY <1>6 DEF AcquireShared, AcquireExclusive, ChangeToShared, ChangeToExclusive
    <3> QED
      BY <3>1, <3>2, BeginFacts DEF Command, Kind
  <2>2. \A t \in Path : ~Releasing(r, t)' /\ ~Unacquiring(r, t)'
    BY <2>1 DEF Releasing, Unacquiring, In
  <2>3. \A q \in Request, t \in Path : q # r =>
            (Releasing(q, t)' <=> Releasing(q, t)) /\ (Unacquiring(q, t)' <=> Unacquiring(q, t))
    BY <1>3 DEF Releasing, Unacquiring, In
  <2>4. Unmoved
    BY <1>1, <2>1, <2>2, <2>3 DEF Unmoved, Units, Owns
  <2> QED
    BY <1>1, <1>3, <2>4
<1> QED
  BY <1>4, <1>5, <1>6

\* inc: a unit more, unless it fails.
LEMMA IncEffect ==
    ASSUME TypeOK, TypeOK', CallsOK, NEW r \in Request, Inc(r), NEW p, p = call[r].path
    PROVE  /\ p \in Path /\ Only(r, p) /\ (Owns(r, p)' <=> Owns(r, p))
           /\ UNCHANGED <<expires, casLock, mode, exclusive>> /\ p \in SharedPath
           /\ In(r, p, "share", {"inc"}) /\ (call'[r] = NoCall \/ In(r, p, "share", {"setTTL"})')
           /\ \/ value' = value /\ Units(r, p)' = Units(r, p) /\ shared' = shared
              \/ /\ value[p] # Exclusive /\ value'[p] = Count(value[p]) + 1
                 /\ IF Count(value[p]) + 1 = 0 THEN Units(r, p)' = Units(r, p) /\ shared' = shared
                    ELSE /\ Units(r, p)' = Units(r, p) + 1
                         /\ shared' = [shared EXCEPT ![r][p] = shared[r][p] + 1]
<1> DEFINE new == Count(value[p]) + 1
<1>1. call[r] # NoCall /\ call[r].at = "inc" /\ p \in Path /\ CallOK(r)
  <2>1. At(r, "inc") /\ "inc" \in Command \ {"none"}
    BY DEF Inc, Command
  <2> QED
    BY <2>1, AtFacts
<1>2. call[r].kind = "share" /\ p \in SharedPath
  BY <1>1 DEF CallOK
<1>3. UNCHANGED <<expires, casLock, mode, exclusive>>
  BY DEF Inc, cache
<1>4. \/ value' = value /\ shared' = shared /\ Done(r)
      \/ /\ value[p] # Exclusive /\ value' = [value EXCEPT ![p] = new]
         /\ IF new = 0 THEN Done(r) /\ shared' = shared
            ELSE Goto(r, "setTTL") /\ shared' = [shared EXCEPT ![r][p] = shared[r][p] + 1]
  BY DEF Inc, Count, cache
<1>5. /\ \A q \in Request : q # r => call'[q] = call[q]
      /\ call'[r] = NoCall \/ In(r, p, "share", {"setTTL"})'
  <2>1. CASE Done(r)
    BY <2>1, DoneFacts
  <2>2. CASE Goto(r, "setTTL")
    <3>1. "setTTL" \in Command \ {"none"}
      BY DEF Command
    <3> QED
      BY <1>1, <1>2, <2>2, <3>1, GotoFacts DEF In
  <2> QED
    BY <1>4, <2>1, <2>2
<1>6. ~Releasing(r, p) /\ ~Releasing(r, p)' /\ ~Unacquiring(r, p) /\ ~Unacquiring(r, p)'
  BY <1>2, <1>5 DEF Releasing, Unacquiring, In
<1> HIDE DEF new
<1>7. Only(r, p)
  <2>1. \A t \in Path : t # p => value'[t] = value[t] /\ shared'[r][t] = shared[r][t]
    BY <1>4 DEF TypeOK
  <2>2. \A q \in Request : q # r => shared'[q] = shared[q] /\ exclusive'[q] = exclusive[q]
    BY <1>3, <1>4 DEF TypeOK
  <2> QED
    BY <1>3, <1>5, <2>1, <2>2 DEF Only, In
<1>8. Owns(r, p)' <=> Owns(r, p)
  BY <1>3, <1>6 DEF Owns
<1>9. Units(r, p)' = shared'[r][p] /\ Units(r, p) = shared[r][p] /\ shared[r][p] \in Int
  BY <1>1, <1>6, SharedType DEF Units
<1>10. \/ value' = value /\ Units(r, p)' = Units(r, p) /\ shared' = shared
       \/ /\ value[p] # Exclusive /\ value'[p] = new
          /\ IF new = 0 THEN Units(r, p)' = Units(r, p) /\ shared' = shared
             ELSE /\ Units(r, p)' = Units(r, p) + 1
                  /\ shared' = [shared EXCEPT ![r][p] = shared[r][p] + 1]
  <2>1. CASE value' = value /\ shared' = shared
    BY <1>9, <2>1
  <2>2. CASE value[p] # Exclusive /\ value' = [value EXCEPT ![p] = new] /\ new = 0 /\ shared' = shared
    BY <1>1, <1>9, <2>2 DEF TypeOK
  <2>3. CASE /\ value[p] # Exclusive /\ value' = [value EXCEPT ![p] = new] /\ new # 0
             /\ shared' = [shared EXCEPT ![r][p] = shared[r][p] + 1]
    BY <1>1, <1>9, <2>3 DEF TypeOK
  <2> QED
    BY <1>4, <2>1, <2>2, <2>3
<1> QED
  BY <1>1, <1>2, <1>3, <1>5, <1>7, <1>8, <1>10 DEF new, In

\* add: the key is there, and worth nothing.
LEMMA AddEffect ==
    ASSUME TypeOK, CallsOK, NEW r \in Request, Add(r), NEW p, p = call[r].path
    PROVE  /\ p \in Path /\ Only(r, p) /\ Unmoved
           /\ UNCHANGED <<casLock, mode, memory>>
           /\ In(r, p, "acquire", {"add"}) /\ In(r, p, "acquire", {"swap"})'
           /\ value'[p] = IF value[p] = Absent THEN 0 ELSE value[p]
           /\ \/ expires' = expires
              \/ expires' = [expires EXCEPT ![p] = IF HasTTL THEN now + DefaultTTL ELSE Never]
<1>1. call[r] # NoCall /\ call[r].at = "add" /\ p \in Path /\ CallOK(r)
  <2>1. At(r, "add") /\ "add" \in Command \ {"none"}
    BY DEF Add, Command
  <2> QED
    BY <2>1, AtFacts
<1>2. call[r].kind = "acquire"
  BY <1>1 DEF CallOK
<1>3. /\ UNCHANGED <<casLock, mode, memory>> /\ Goto(r, "swap") /\ "swap" \in Command \ {"none"}
      /\ value' = value \/ (value[p] = Absent /\ value' = [value EXCEPT ![p] = 0])
      /\ value[p] = Absent => value' = [value EXCEPT ![p] = 0]
      /\ \/ expires' = expires
         \/ expires' = [expires EXCEPT ![p] = IF HasTTL THEN now + DefaultTTL ELSE Never]
  BY DEF Add, Store, Command
<1>4. /\ call'[r] # NoCall /\ call'[r].at = "swap" /\ call'[r].path = p /\ call'[r].kind = "acquire"
      /\ \A q \in Request : q # r => call'[q] = call[q]
  BY <1>1, <1>2, <1>3, GotoFacts
<1>5. Only(r, p) /\ In(r, p, "acquire", {"add"}) /\ In(r, p, "acquire", {"swap"})'
  BY <1>1, <1>2, <1>3, <1>4 DEF Only, In, TypeOK, memory
<1>6. \A q \in Request, t \in Path :
          (Releasing(q, t)' <=> Releasing(q, t)) /\ (Unacquiring(q, t)' <=> Unacquiring(q, t))
  BY <1>2, <1>4 DEF Releasing, Unacquiring, In
<1>7. Unmoved
  BY <1>3, <1>6 DEF Unmoved, Units, Owns, memory
<1>8. value'[p] = IF value[p] = Absent THEN 0 ELSE value[p]
  BY <1>1, <1>3 DEF TypeOK
<1> QED
  BY <1>1, <1>3, <1>5, <1>7, <1>8

\* A cas or cad that succeeds.
LEMMA SwappedEffect ==
    ASSUME TypeOK, TypeOK', CallsOK, NEW r \in Request, NEW command \in {"swap", "apply"},
           At(r, command), Swapped(r), NEW p, p = call[r].path, NEW kind, kind = call[r].kind
    PROVE  /\ p \in Path /\ kind \in Kind \ {"share"} /\ Only(r, p)
           /\ In(r, p, kind, {command}) /\ (call'[r] = NoCall \/ In(r, p, kind, {"setTTL"})')
           /\ value'[p] = New(kind) /\ expires' = [expires EXCEPT ![p] = Never]
           /\ kind \in {"acquire", "unacquire"} => Units(r, p)' = Units(r, p)
           /\ kind = "toShared" => Units(r, p)' = Units(r, p) + 1
           /\ kind \in {"toExclusive", "unshare"} =>
                 Units(r, p)' = Units(r, p) - 1 /\ Units(r, p) > 0
           /\ Owns(r, p)' <=> kind \in {"acquire", "toExclusive"}
           /\ kind \in {"toShared", "unacquire"} => Owns(r, p)
<1> DEFINE n == IF kind = "toShared" THEN shared[r][p] + 1
                ELSE IF kind = "toExclusive" THEN shared[r][p] - 1 ELSE shared[r][p]
           locks == IF kind \in {"acquire", "toExclusive"} THEN exclusive[r] \cup {p} ELSE exclusive[r] \ {p}
<1>1. /\ value' = [value EXCEPT ![p] = New(kind)] /\ expires' = [expires EXCEPT ![p] = Never]
      /\ shared' = [shared EXCEPT ![r][p] = n] /\ exclusive' = [exclusive EXCEPT ![r] = locks]
      /\ IF kind \in {"unshare", "unacquire"} THEN call'[r] = NoCall
         ELSE call'[r] # NoCall /\ call'[r].at = "setTTL" /\ call'[r].path = p /\ call'[r].kind = kind
      /\ kind # "share" /\ p \in Path /\ kind \in Kind
      /\ \A q \in Request : q # r => call'[q] = call[q]
  BY SwappedFacts
<1>2. call[r] # NoCall /\ call[r].at = command /\ CallOK(r) /\ MemoryOK(r)
  BY AtFacts DEF Command
<1>3. In(r, p, kind, {command}) /\ (call'[r] = NoCall \/ In(r, p, kind, {"setTTL"})')
  BY <1>1, <1>2 DEF In
<1>4. /\ shared'[r][p] = n /\ \A t \in Path : t # p => shared'[r][t] = shared[r][t]
      /\ exclusive'[r] = locks
      /\ \A q \in Request : q # r => shared'[q] = shared[q] /\ exclusive'[q] = exclusive[q]
      /\ value'[p] = New(kind) /\ \A t \in Path : t # p => value'[t] = value[t]
  BY <1>1 DEF TypeOK
<1>5. Only(r, p)
  BY <1>1, <1>3, <1>4 DEF Only, In
<1>6. /\ Releasing(r, p) <=> kind = "unshare"
      /\ Unacquiring(r, p) <=> kind = "unacquire"
      /\ ~Releasing(r, p)' /\ ~Unacquiring(r, p)'
  BY <1>1, <1>2, <1>3 DEF Releasing, Unacquiring, In, Swapping
<1>7. /\ Units(r, p) = shared[r][p] + (IF kind = "unshare" THEN 1 ELSE 0)
      /\ Units(r, p)' = n /\ shared[r][p] \in Nat /\ n \in Int
      /\ kind = "toExclusive" => shared[r][p] > 0
  <2>1. shared[r][p] \in Nat /\ n \in Int
    BY <1>1, StateType
  <2>2. kind = "toExclusive" => shared[r][p] > 0
    BY <1>2, <1>3 DEF CallOK, In, Swapping
  <2>3. Units(r, p)' = shared'[r][p] /\ Units(r, p) = shared[r][p] + (IF kind = "unshare" THEN 1 ELSE 0)
    BY <1>1, <1>6, SharedType DEF Units
  <2> QED
    BY <1>4, <2>1, <2>2, <2>3
<1>8. /\ kind \in {"acquire", "unacquire"} => Units(r, p)' = Units(r, p)
      /\ kind = "toShared" => Units(r, p)' = Units(r, p) + 1
      /\ kind \in {"toExclusive", "unshare"} =>
            Units(r, p)' = Units(r, p) - 1 /\ Units(r, p) > 0
  BY <1>7
<1>9. /\ Owns(r, p)' <=> kind \in {"acquire", "toExclusive"}
      /\ kind \in {"toShared", "unacquire"} => Owns(r, p)
  <2>1. kind = "toShared" => p \in exclusive[r]
    BY <1>2, <1>3 DEF CallOK, In, Swapping
  <2> QED
    BY <1>4, <1>6, <2>1 DEF Owns
<1> QED
  BY <1>1, <1>3, <1>4, <1>5, <1>8, <1>9

\* A cas or cad that fails.
LEMMA NotSwappedEffect ==
    ASSUME TypeOK, TypeOK', CallsOK, NEW r \in Request, NEW command \in Swapping,
           At(r, command), NotSwapped(r), UNCHANGED mode, NEW p, p = call[r].path
    PROVE  /\ p \in Path /\ Only(r, p) /\ UNCHANGED <<value, expires, memory>>
           /\ In(r, p, call[r].kind, {command}) /\ call[r].kind \in Kind
           /\ call'[r] = NoCall \/ In(r, p, call[r].kind, {"get", "dec"})'
           /\ Units(r, p)' = Units(r, p)
           /\ Owns(r, p)' => Owns(r, p)
           /\ call[r].kind # "unacquire" => (Owns(r, p)' <=> Owns(r, p))
<1>1. /\ UNCHANGED <<value, expires, memory>>
      /\ \A q \in Request : q # r => call'[q] = call[q]
      /\ \/ call[r].kind # "unshare" /\ call'[r] = NoCall
         \/ /\ call[r].kind = "toExclusive" /\ call'[r] # NoCall /\ call'[r].at = "get"
            /\ call'[r].path = call[r].path /\ call'[r].kind = call[r].kind
         \/ /\ call[r].kind = "unshare" /\ call'[r] # NoCall /\ call'[r].at = "dec"
            /\ call'[r].path = call[r].path /\ call'[r].kind = call[r].kind
  BY NotSwappedFacts
<1>2. call[r] # NoCall /\ call[r].at = command /\ p \in Path /\ call[r].kind \in Kind
  BY AtFacts DEF Command, Swapping
<1>3. In(r, p, call[r].kind, {command}) /\ (call'[r] = NoCall \/ In(r, p, call[r].kind, {"get", "dec"})')
  BY <1>1, <1>2 DEF In
<1>4. Only(r, p)
  BY <1>1, <1>3 DEF Only, In, memory
<1>5. (Releasing(r, p)' <=> Releasing(r, p)) /\ ~Unacquiring(r, p)'
  BY <1>1, <1>2 DEF Releasing, Unacquiring, In, Swapping
<1>6. call[r].kind # "unacquire" => ~Unacquiring(r, p)
  BY DEF Unacquiring, In
<1>7. Units(r, p)' = Units(r, p)
  BY <1>1, <1>5 DEF Units, memory
<1>8. (Owns(r, p)' => Owns(r, p)) /\ (call[r].kind # "unacquire" => (Owns(r, p)' <=> Owns(r, p)))
  BY <1>1, <1>5, <1>6 DEF Owns, memory
<1> QED
  BY <1>1, <1>2, <1>3, <1>4, <1>7, <1>8

\* dec: a unit less.
LEMMA DecEffect ==
    ASSUME TypeOK, TypeOK', CallsOK, NEW r \in Request, Dec(r), NEW p, p = call[r].path
    PROVE  /\ p \in Path /\ p \in SharedPath /\ Only(r, p) /\ (Owns(r, p)' <=> Owns(r, p))
           /\ UNCHANGED <<expires, casLock, mode, shared, exclusive>>
           /\ In(r, p, "unshare", {"dec"}) /\ (call'[r] = NoCall \/ In(r, p, "unshare", {"get", "reset"})')
           /\ Units(r, p)' = Units(r, p) - 1 /\ Units(r, p) > 0
           /\ \/ value[p] \in {Absent, Exclusive} /\ value'[p] = value[p]
              \/ /\ value[p] \in Int /\ value'[p] = value[p] - 1
                 /\ value[p] < 1 => In(r, p, "unshare", {"reset"})' /\ call'[r].seen = value[p] - 1
<1>1. call[r] # NoCall /\ call[r].at = "dec" /\ p \in Path /\ CallOK(r)
  <2>1. At(r, "dec") /\ "dec" \in Command \ {"none"}
    BY DEF Dec, Command
  <2> QED
    BY <2>1, AtFacts
<1>2. call[r].kind = "unshare" /\ p \in SharedPath
  BY <1>1 DEF CallOK
<1>3. UNCHANGED <<expires, casLock, mode, shared, exclusive>>
  BY DEF Dec, cache
<1>4. /\ \/ value' = value /\ value[p] \in {Absent, Exclusive}
         \/ /\ value[p] \notin {Absent, Exclusive} /\ value' = [value EXCEPT ![p] = value[p] - 1]
            /\ value[p] > 1 \/ value[p] < 1 \/ Done(r)
      /\ \/ Done(r) \/ RestoreTTL(r, p)
         \/ call' = [call EXCEPT ![r].at = "reset", ![r].seen = value[p] - 1]
      /\ value[p] \notin {Absent, Exclusive} /\ ~(value[p] > 1) /\ value[p] < 1 =>
            call' = [call EXCEPT ![r].at = "reset", ![r].seen = value[p] - 1]
  BY DEF Dec, cache
<1>5. value[p] \in {Absent, Exclusive} \/ value[p] \in Int
  BY <1>1, StateType DEF Value
<1>6. ASSUME call' = [call EXCEPT ![r].at = "reset", ![r].seen = value[p] - 1]
      PROVE  /\ In(r, p, "unshare", {"reset"})' /\ call'[r].seen = value[p] - 1
             /\ \A q \in Request : q # r => call'[q] = call[q]
  <2> DEFINE c == [call[r] EXCEPT !.at = "reset", !.seen = value[p] - 1]
  <2>1. call[r] \in Call
    BY <1>1, CallType
  <2>2. /\ c.at = "reset" /\ c.path = p /\ c.kind = "unshare" /\ c.seen = value[p] - 1
        /\ c # NoCall
    BY <1>2, <2>1 DEF Call, NoCall
  <2>3. call' = [call EXCEPT ![r] = c]
    BY <1>6
  <2> HIDE DEF c
  <2>4. call'[r] = c /\ \A q \in Request : q # r => call'[q] = call[q]
    BY <2>3 DEF TypeOK
  <2> QED
    BY <2>2, <2>4 DEF In
<1>7. /\ \A q \in Request : q # r => call'[q] = call[q]
      /\ call'[r] = NoCall \/ In(r, p, "unshare", {"get", "reset"})'
  <2>1. CASE Done(r) \/ RestoreTTL(r, p)
    BY <1>1, <1>2, <2>1, DoneFacts, RestoreFacts DEF In
  <2>2. CASE call' = [call EXCEPT ![r].at = "reset", ![r].seen = value[p] - 1]
    BY <1>6, <2>2 DEF In
  <2> QED
    BY <1>4, <2>1, <2>2
<1>8. Releasing(r, p) /\ ~Releasing(r, p)' /\ ~Unacquiring(r, p) /\ ~Unacquiring(r, p)'
  BY <1>1, <1>2, <1>7 DEF Releasing, Unacquiring, In, Swapping
<1>9. Only(r, p) /\ (Owns(r, p)' <=> Owns(r, p))
  BY <1>1, <1>3, <1>4, <1>7, <1>8 DEF Only, Owns, In, TypeOK
<1>10. Units(r, p)' = Units(r, p) - 1 /\ Units(r, p) > 0
  <2>1. shared[r][p] \in Nat
    BY <1>1, StateType
  <2> QED
    BY <1>3, <1>8, <2>1 DEF Units
<1>11. \/ value[p] \in {Absent, Exclusive} /\ value'[p] = value[p]
       \/ /\ value[p] \in Int /\ value'[p] = value[p] - 1
          /\ value[p] < 1 => In(r, p, "unshare", {"reset"})' /\ call'[r].seen = value[p] - 1
  <2>1. CASE value' = value /\ value[p] \in {Absent, Exclusive}
    BY <2>1
  <2>2. CASE value[p] \in Int /\ value' = [value EXCEPT ![p] = value[p] - 1]
    <3>1. value'[p] = value[p] - 1
      BY <1>1, <2>2 DEF TypeOK
    <3>2. value[p] < 1 => ~(value[p] > 1) /\ value[p] \notin {Absent, Exclusive}
      BY <2>2, BoundsType
    <3> QED
      BY <1>4, <1>6, <2>2, <3>1, <3>2
  <2> QED
    BY <1>4, <1>5, <2>1, <2>2
<1> QED
  BY <1>1, <1>2, <1>3, <1>7, <1>9, <1>10, <1>11 DEF In

-----------------------------------------------------------------------------
(* Steps in which nobody gets anything and nobody gives anything back.      *)

\* A key vanishes, or stays what it is.
Vanishing == \A t \in Path : value'[t] \in {value[t], Absent}

\* Who is about to reset a key still is.
KeepsResets ==
    \A q \in Request, t \in Path : ResetDue(q, t) /\ value'[t] = value[t] => ResetDue(q, t)'

After == {"setTTL", "reset", "get", "getTTL", "expire"}

LEMMA ExpireVanishes ==
    ASSUME TypeOK, NEW p \in Path, NEW seconds, Expire(p, seconds)
    PROVE  Vanishing
BY DEF Expire, Store, Vanishing, TypeOK

\* The ends of the calls.
LEMMA AfterwardsEffect ==
    ASSUME TypeOK, CallsOK, NEW r \in Request,
           SetTTL(r) \/ Reset(r) \/ Get(r) \/ GetTTL(r) \/ CompareSetTTL(r)
    PROVE  /\ call[r] # NoCall /\ call[r].at \in After /\ call[r].path \in Path /\ CallOK(r)
           /\ call'[r] = NoCall \/ call'[r].at \in {"getTTL", "expire"}
           /\ \A q \in Request : q # r => call'[q] = call[q]
           /\ UNCHANGED <<casLock, mode, shared, exclusive>>
           /\ Unmoved /\ Vanishing /\ KeepsResets
<1>1. /\ call[r] # NoCall /\ call[r].at \in After /\ call[r].path \in Path /\ CallOK(r)
      /\ call[r].seen \in Value
      /\ Reset(r) \/ call[r].at # "reset"
  <2>1. PICK command \in After : /\ At(r, command)
                                 /\ Reset(r) \/ command # "reset"
    BY DEF SetTTL, Reset, Get, GetTTL, CompareSetTTL, After
  <2>2. command \in Command \ {"none"}
    BY DEF After, Command
  <2> QED
    BY <2>1, <2>2, AtFacts
<1>2. /\ call'[r] = NoCall \/ call'[r].at \in {"getTTL", "expire"}
      /\ \A q \in Request : q # r => call'[q] = call[q]
  <2>1. CASE Done(r)
    BY <2>1, DoneFacts
  <2>2. CASE Goto(r, "expire")
    <3>1. "expire" \in Command \ {"none"}
      BY DEF Command
    <3> QED
      BY <1>1, <2>2, <3>1, GotoFacts
  <2>3. CASE Get(r)
    BY <2>3, <1>1, CallType DEF Get, TypeOK, Call
  <2> QED
    BY <2>1, <2>2, <2>3 DEF SetTTL, Reset, GetTTL, CompareSetTTL
<1>3. UNCHANGED <<casLock, mode, shared, exclusive>>
  BY DEF SetTTL, Reset, Get, GetTTL, CompareSetTTL, cache, memory
<1>4. \A q \in Request, t \in Path :
          (Releasing(q, t)' <=> Releasing(q, t)) /\ (Unacquiring(q, t)' <=> Unacquiring(q, t))
  BY <1>1, <1>2 DEF Releasing, Unacquiring, In, Swapping, After
<1>5. Unmoved
  BY <1>3, <1>4 DEF Unmoved, Units, Owns
<1>6. Vanishing
  <2>1. CASE SetTTL(r)
    BY <2>1, <1>1, ExpireVanishes DEF SetTTL
  <2>2. CASE CompareSetTTL(r)
    BY <2>2, <1>1, ExpireVanishes DEF CompareSetTTL, Vanishing
  <2>3. CASE Reset(r)
    BY <2>3, <1>1 DEF Reset, Store, Vanishing, TypeOK
  <2>4. CASE Get(r) \/ GetTTL(r)
    BY <2>4 DEF Get, GetTTL, cache, Vanishing
  <2> QED
    BY <2>1, <2>2, <2>3, <2>4
<1>7. KeepsResets
  <2>1. ASSUME NEW q \in Request, NEW t \in Path, ResetDue(q, t), value'[t] = value[t]
        PROVE  ResetDue(q, t)'
    <3>1. CASE q # r
      BY <1>2, <2>1, <3>1 DEF ResetDue, In
    <3>2. CASE q = r
      <4>1. call[r].at = "reset" /\ call[r].path = t /\ call[r].seen = value[t]
        BY <2>1, <3>2 DEF ResetDue, In
      <4>2. Reset(r) /\ value[t] # Absent
        BY <1>1, <4>1, BoundsType DEF CallOK
      <4>3. value'[t] = Absent
        BY <1>1, <4>1, <4>2 DEF Reset, Store, TypeOK
      <4> QED
        BY <2>1, <4>2, <4>3
    <3> QED
      BY <3>1, <3>2
  <2> QED
    BY <2>1 DEF KeepsResets
<1> QED
  BY <1>1, <1>2, <1>3, <1>5, <1>6, <1>7

\* The life of a request, and the clock.
LEMMA LifeEffect ==
    ASSUME TypeOK,
           \/ UNCHANGED vars
           \/ Tick
           \/ \E r \in Request : Start(r) \/ BeginClose(r) \/ Close(r) \/ Crash(r)
    PROVE  UNCHANGED <<casLock, call, shared, exclusive>> /\ Unmoved /\ Vanishing /\ KeepsResets
<1>1. UNCHANGED <<casLock, call, shared, exclusive>>
  BY DEF Tick, Start, BeginClose, Close, Crash, vars, cache, memory
<1>2. \A q \in Request, t \in Path :
          /\ Releasing(q, t)' <=> Releasing(q, t)
          /\ Unacquiring(q, t)' <=> Unacquiring(q, t)
          /\ In(q, t, "unshare", {"reset"})' <=> In(q, t, "unshare", {"reset"})
  BY <1>1 DEF Releasing, Unacquiring, In
<1>3. Unmoved
  BY <1>1, <1>2 DEF Unmoved, Units, Owns
<1>4. Vanishing
  BY DEF Tick, Start, BeginClose, Close, Crash, vars, cache, Vanishing
<1>5. KeepsResets
  BY <1>1, <1>2 DEF KeepsResets, ResetDue
<1> QED
  BY <1>1, <1>3, <1>4, <1>5

-----------------------------------------------------------------------------
(* The weak invariant.                                                     *)

\* What a key says stays backed when nobody gives anything back.
LEMMA BackedStays ==
    ASSUME Backed, Unmoved, Vanishing, KeepsResets
    PROVE  Backed'
<1> SUFFICES ASSUME NEW t \in Path PROVE BackedAt(t)'
  BY DEF Backed
<1>1. Owners(t)' = Owners(t) /\ Tokens(t)' = Tokens(t)
  BY DEF Owners, Tokens, Unmoved
<1>2. BackedAt(t) /\ value'[t] \in {value[t], Absent}
  BY DEF Backed, Vanishing
<1>3. CASE value'[t] = value[t]
  BY <1>1, <1>2, <1>3 DEF BackedAt, KeepsResets
<1>4. CASE value'[t] = Absent
  BY <1>4, BoundsType DEF BackedAt
<1> QED
  BY <1>2, <1>3, <1>4

\* The other paths are what they were.
LEMMA BackedElsewhere ==
    ASSUME Backed, NEW r \in Request, NEW p \in Path, Only(r, p), BackedAt(p)'
    PROVE  Backed'
<1> SUFFICES ASSUME NEW t \in Path, t # p PROVE BackedAt(t)'
  BY DEF Backed
<1>1. \A q \in Request : /\ Units(q, t)' = Units(q, t) /\ (Owns(q, t)' <=> Owns(q, t))
                         /\ In(q, t, "unshare", {"reset"})' <=> In(q, t, "unshare", {"reset"})
  BY Elsewhere
<1>2. Owners(t)' = Owners(t) /\ Tokens(t)' = Tokens(t)
  BY <1>1 DEF Owners, Tokens
<1>3. value'[t] = value[t] /\ \A q \in Request : q # r => call'[q] = call[q]
  BY DEF Only
<1>4. \A q \in Request : ResetDue(q, t) => ResetDue(q, t)'
  <2>1. ~In(r, t, "unshare", {"reset"})
    BY DEF Only, In
  <2> QED
    BY <1>1, <1>3, <2>1 DEF ResetDue
<1>5. BackedAt(t)
  BY DEF Backed
<1> QED
  BY <1>2, <1>3, <1>4, <1>5 DEF BackedAt

\* The roles of the other requests on the path do not change.
LEMMA RolesAt ==
    ASSUME IsFiniteSet(Request), TypeOK, TypeOK', NEW r \in Request, NEW p \in Path, Only(r, p)
    PROVE  /\ Owns(r, p)' /\ Owns(r, p) => Owners(p)' = Owners(p)
           /\ ~Owns(r, p)' => Owners(p)' = Owners(p) \ {r}
           /\ Owns(r, p)' => Owners(p)' = Owners(p) \cup {r}
           /\ Cardinality(Tokens(p)) \in Nat /\ Cardinality(Tokens(p)') \in Nat
           /\ Units(r, p)' = Units(r, p) => Tokens(p)' = Tokens(p)
           /\ Units(r, p)' = Units(r, p) + 1 =>
                 Cardinality(Tokens(p)') = Cardinality(Tokens(p)) + 1
           /\ Units(r, p)' = Units(r, p) - 1 =>
                 Cardinality(Tokens(p)') = Cardinality(Tokens(p)) - 1
           /\ Tokens(p) = {} <=> Cardinality(Tokens(p)) = 0
           /\ Tokens(p)' = {} <=> Cardinality(Tokens(p)') = 0
           /\ Tokens(p) = {} <=> \A q \in Request : Units(q, p) = 0
           /\ Units(r, p) \in Nat /\ Units(r, p)' \in Nat
<1>1. \A q \in Request : q # r => Units(q, p)' = Units(q, p) /\ (Owns(q, p)' <=> Owns(q, p))
  BY Elsewhere
<1>2. /\ Cardinality(Tokens(p)) \in Nat
      /\ Cardinality(Tokens(p)) = 0 <=> Tokens(p) = {}
      /\ Tokens(p) = {} <=> \A q \in Request : Units(q, p) = 0
  BY TokensType
<1>3. /\ Cardinality(Tokens(p)') \in Nat
      /\ Cardinality(Tokens(p)') = 0 <=> Tokens(p)' = {}
  <2>1. IsFiniteSet(Tokens(p)')
    <3>1. (Tokens(p) = Tok(UnitsAt(p)))'
      BY UnitsType, PTL
    <3> QED
      BY <3>1, TokFinite
  <2> QED
    BY <2>1, FS_CardinalityType, FS_EmptySet
<1>4. /\ Units(r, p)' = Units(r, p) => Tokens(p)' = Tokens(p)
      /\ Units(r, p)' = Units(r, p) + 1 =>
            Cardinality(Tokens(p)') = Cardinality(Tokens(p)) + 1
      /\ Units(r, p)' = Units(r, p) - 1 =>
            Cardinality(Tokens(p)') = Cardinality(Tokens(p)) - 1
  BY <1>1, TokensGain
<1>5. /\ Owns(r, p)' /\ Owns(r, p) => Owners(p)' = Owners(p)
      /\ ~Owns(r, p)' => Owners(p)' = Owners(p) \ {r}
      /\ Owns(r, p)' => Owners(p)' = Owners(p) \cup {r}
  BY <1>1 DEF Owners
<1>6. Units(r, p) \in Nat /\ Units(r, p)' \in Nat
  <2>1. Units(r, p) \in 0..Most
    BY UnitsType
  <2>2. (Units(r, p) \in 0..Most)'
    <3>1. shared'[r][p] \in 0..MaxShared
      BY DEF TypeOK
    <3> QED
      BY <3>1, MostType DEF Units, Most
  <2>3. Most' = Most
    BY DEF Most
  <2> QED
    BY <2>1, <2>2, <2>3, MostType
<1> QED
  BY <1>2, <1>3, <1>4, <1>5, <1>6

LEMMA IncBacked ==
    ASSUME IsFiniteSet(Request), TypeOK, TypeOK', CallsOK, Backed, NEW r \in Request, Inc(r)
    PROVE  Backed'
<1>0. PICK p : p = call[r].path
  OBVIOUS
<1>1. /\ p \in Path /\ Only(r, p) /\ (Owns(r, p)' <=> Owns(r, p))
      /\ In(r, p, "share", {"inc"})
      /\ \/ value' = value /\ Units(r, p)' = Units(r, p)
         \/ /\ value[p] # Exclusive /\ value'[p] = Count(value[p]) + 1
            /\ IF Count(value[p]) + 1 = 0 THEN Units(r, p)' = Units(r, p)
               ELSE Units(r, p)' = Units(r, p) + 1
  BY <1>0, IncEffect
<1>2. BackedAt(p) /\ value[p] \in Value
  BY <1>1, StateType DEF Backed
<1>3. Owners(p)' = Owners(p)
  BY <1>1, RolesAt DEF Owners
<1>4. ASSUME NEW q \in Request, ResetDue(q, p), value' = value PROVE ResetDue(q, p)'
  BY <1>1, <1>4 DEF ResetDue, In, Only
<1>5. BackedAt(p)'
  <2>1. CASE value' = value /\ Units(r, p)' = Units(r, p)
    <3>1. Tokens(p)' = Tokens(p)
      BY <1>1, <2>1, RolesAt
    <3> QED
      BY <1>2, <1>3, <1>4, <2>1, <3>1 DEF BackedAt
  <2>2. CASE /\ value[p] # Exclusive /\ value'[p] = Count(value[p]) + 1
             /\ Count(value[p]) + 1 = 0 /\ Units(r, p)' = Units(r, p)
    <3>1. value'[p] = 0 /\ Cardinality(Tokens(p)') \in Nat /\ value'[p] # Exclusive
      BY <1>1, <2>2, RolesAt, BoundsType
    <3> QED
      BY <3>1 DEF BackedAt
  <2>3. CASE /\ value[p] # Exclusive /\ value'[p] = Count(value[p]) + 1
             /\ Units(r, p)' = Units(r, p) + 1
    <3>1. /\ Cardinality(Tokens(p)') = Cardinality(Tokens(p)) + 1
          /\ Cardinality(Tokens(p)) \in Nat /\ (Tokens(p)' = {} <=> Cardinality(Tokens(p)') = 0)
      BY <1>1, <2>3, RolesAt
    <3>2. Count(value[p]) \in Int /\ Count(value[p]) <= Cardinality(Tokens(p))
      BY <1>2, <2>3, <3>1 DEF BackedAt, Count, Value
    <3>3. value'[p] \in Int /\ value'[p] # Exclusive
      BY <2>3, <3>2, BoundsType
    <3>4. Tokens(p)' # {} /\ value'[p] <= Cardinality(Tokens(p)')
      BY <2>3, <3>1, <3>2
    <3> QED
      BY <3>3, <3>4 DEF BackedAt
  <2> QED
    BY <1>1, <2>1, <2>2, <2>3
<1> QED
  BY <1>1, <1>5, BackedElsewhere

LEMMA AddBacked ==
    ASSUME IsFiniteSet(Request), TypeOK, TypeOK', CallsOK, Backed, NEW r \in Request, Add(r)
    PROVE  Backed'
<1>0. PICK p : p = call[r].path
  OBVIOUS
<1>1. /\ p \in Path /\ Only(r, p) /\ Unmoved /\ In(r, p, "acquire", {"add"})
      /\ value'[p] = IF value[p] = Absent THEN 0 ELSE value[p]
  BY <1>0, AddEffect
<1>2. BackedAt(p)
  BY <1>1 DEF Backed
<1>3. Owners(p)' = Owners(p) /\ Tokens(p)' = Tokens(p)
  BY <1>1 DEF Owners, Tokens, Unmoved
<1>4. BackedAt(p)'
  <2>1. CASE value'[p] = value[p]
    <3>1. \A q \in Request : ResetDue(q, p) => ResetDue(q, p)'
      BY <1>1, <2>1 DEF ResetDue, In, Only
    <3> QED
      BY <1>2, <1>3, <2>1, <3>1 DEF BackedAt
  <2>2. CASE value'[p] = 0
    <3>1. Cardinality(Tokens(p)') \in Nat /\ value'[p] # Exclusive
      BY <1>1, <2>2, RolesAt, BoundsType
    <3> QED
      BY <2>2, <3>1 DEF BackedAt
  <2> QED
    BY <1>1, <2>1, <2>2
<1> QED
  BY <1>1, <1>4, BackedElsewhere

LEMMA DecBacked ==
    ASSUME IsFiniteSet(Request), TypeOK, TypeOK', CallsOK, Backed, NEW r \in Request, Dec(r)
    PROVE  Backed'
<1>0. PICK p : p = call[r].path
  OBVIOUS
<1>1. /\ p \in Path /\ Only(r, p) /\ (Owns(r, p)' <=> Owns(r, p))
      /\ Units(r, p)' = Units(r, p) - 1
      /\ \/ value[p] \in {Absent, Exclusive} /\ value'[p] = value[p]
         \/ /\ value[p] \in Int /\ value'[p] = value[p] - 1
            /\ value[p] < 1 => In(r, p, "unshare", {"reset"})' /\ call'[r].seen = value[p] - 1
  BY <1>0, DecEffect
<1>2. BackedAt(p)
  BY <1>1 DEF Backed
<1>3. Owners(p)' = Owners(p)
  BY <1>1, RolesAt DEF Owners
<1>4. /\ Cardinality(Tokens(p)') = Cardinality(Tokens(p)) - 1
      /\ Cardinality(Tokens(p)) \in Nat
  BY <1>1, RolesAt
<1>5. BackedAt(p)'
  <2>1. CASE value[p] \in {Absent, Exclusive} /\ value'[p] = value[p]
    BY <1>2, <1>3, <2>1, BoundsType DEF BackedAt
  <2>2. CASE /\ value[p] \in Int /\ value'[p] = value[p] - 1
             /\ value[p] < 1 => In(r, p, "unshare", {"reset"})' /\ call'[r].seen = value[p] - 1
    <3>1. value'[p] \in Int /\ value'[p] # Exclusive
      BY <2>2, BoundsType
    <3>2. value'[p] <= Cardinality(Tokens(p)')
      BY <1>2, <1>4, <2>2 DEF BackedAt
    <3>3. value'[p] < 0 => ResetDue(r, p)'
      BY <2>2 DEF ResetDue
    <3> QED
      BY <3>1, <3>2, <3>3 DEF BackedAt
  <2> QED
    BY <1>1, <2>1, <2>2
<1> QED
  BY <1>1, <1>5, BackedElsewhere

\* A cas or cad: what it leaves behind is backed by the request itself.
LEMMA SwapBacked ==
    ASSUME IsFiniteSet(Request), TypeOK, TypeOK', CallsOK, Backed, NEW r \in Request, Swap(r)
    PROVE  Backed'
<1>0. PICK p, kind : p = call[r].path /\ kind = call[r].kind
  OBVIOUS
<1>1. At(r, "swap") /\ "swap" \in Swapping /\ UNCHANGED mode
  BY DEF Swap, Swapping
<1>2. CASE Swapped(r)
  <2>1. /\ p \in Path /\ kind \in Kind \ {"share"} /\ Only(r, p) /\ value'[p] = New(kind)
        /\ kind = "toShared" => Units(r, p)' = Units(r, p) + 1
        /\ Owns(r, p)' <=> kind \in {"acquire", "toExclusive"}
    BY <1>0, <1>1, <1>2, SwappedEffect
  <2>2. CASE kind \in {"acquire", "toExclusive"}
    <3>1. value'[p] = Exclusive /\ Owners(p)' # {} /\ Exclusive \notin Int
      BY <2>1, <2>2, RolesAt, BoundsType DEF New
    <3> QED
      BY <2>1, <3>1, BackedElsewhere DEF BackedAt
  <2>3. CASE kind = "toShared"
    <3>1. value'[p] = 1 /\ value'[p] # Exclusive
      BY <2>1, <2>3, BoundsType DEF New
    <3>2. Cardinality(Tokens(p)') >= 1
      BY <2>1, <2>3, RolesAt
    <3> QED
      BY <2>1, <3>1, <3>2, BackedElsewhere DEF BackedAt
  <2>4. CASE kind \in {"unshare", "unacquire"}
    <3>1. value'[p] = Absent /\ Absent # Exclusive /\ Absent \notin Int
      BY <2>1, <2>4, BoundsType DEF New
    <3> QED
      BY <2>1, <3>1, BackedElsewhere DEF BackedAt
  <2> QED
    BY <2>1, <2>2, <2>3, <2>4 DEF Kind
<1>3. CASE NotSwapped(r) /\ value[p] # Old(kind)
  <2>1. /\ p \in Path /\ Only(r, p) /\ value' = value /\ kind \in Kind
        /\ In(r, p, kind, {"swap"})
        /\ Units(r, p)' = Units(r, p)
        /\ Owns(r, p)' => Owns(r, p)
        /\ kind # "unacquire" => (Owns(r, p)' <=> Owns(r, p))
    BY <1>0, <1>1, <1>3, NotSwappedEffect
  <2>2. BackedAt(p)
    BY <2>1 DEF Backed
  <2>3. kind = "unacquire" => value[p] # Exclusive
    BY <1>3 DEF Old
  <2>4. Tokens(p)' = Tokens(p)
    BY <2>1, RolesAt
  <2>5. value[p] = Exclusive => Owners(p)' = Owners(p)
    BY <2>1, <2>3, RolesAt DEF Owners
  <2>6. \A q \in Request : ResetDue(q, p) => ResetDue(q, p)'
    BY <2>1 DEF ResetDue, In, Only
  <2>7. BackedAt(p)'
    BY <2>1, <2>2, <2>4, <2>5, <2>6 DEF BackedAt
  <2> QED
    BY <2>1, <2>7, BackedElsewhere
<1> QED
  BY <1>0, <1>2, <1>3 DEF Swap

\* A method: what is given back is still there.
LEMMA MethodBacked ==
    ASSUME TypeOK, CallsOK, Backed, NEW r \in Request, NEW p \in Path,
           \/ AcquireShared(r, p)
           \/ AcquireExclusive(r, p)
           \/ ChangeToShared(r, p)
           \/ ChangeToExclusive(r, p)
           \/ ReleaseShared(r, p)
           \/ ReleaseExclusive(r, p)
    PROVE  Backed'
<1>1. /\ UNCHANGED cache /\ Unmoved
      /\ call[r] = NoCall /\ \A q \in Request : q # r => call'[q] = call[q]
  BY MethodEffect
<1>2. value' = value
  BY <1>1 DEF cache
<1>3. Vanishing
  BY <1>2 DEF Vanishing
<1>4. KeepsResets
  BY <1>1, <1>2 DEF KeepsResets, ResetDue, In
<1> QED
  BY <1>1, <1>3, <1>4, BackedStays

LEMMA InitBacked ==
    ASSUME Init
    PROVE  Backed
BY BoundsType DEF Init, Backed, BackedAt

LEMMA NextBacked ==
    ASSUME IsFiniteSet(Request), AtomicCas, TypeOK, TypeOK', CallsOK, Backed, [Next]_vars
    PROVE  Backed'
<1>1. CASE UNCHANGED vars
  BY <1>1, LifeEffect, BackedStays
<1>2. ASSUME NEW r \in Request, NEW p \in Path,
             \/ AcquireShared(r, p)
             \/ AcquireExclusive(r, p)
             \/ ChangeToShared(r, p)
             \/ ChangeToExclusive(r, p)
             \/ ReleaseShared(r, p)
             \/ ReleaseExclusive(r, p)
      PROVE  Backed'
  BY <1>2, MethodBacked
<1>3. ASSUME NEW r \in Request, Inc(r) \/ Add(r) \/ Dec(r)
      PROVE  Backed'
  BY <1>3, IncBacked, AddBacked, DecBacked
<1>4. ASSUME NEW r \in Request, Swap(r)
      PROVE  Backed'
  BY <1>4, SwapBacked
<1>5. ASSUME NEW r \in Request, EmulatedCompare(r) \/ EmulatedApply(r)
      PROVE  FALSE
  <2>1. ~EmulatedCompare(r)
    BY DEF EmulatedCompare
  <2>2. PICK command \in {"apply", "unlock"} : At(r, command)
    BY <1>5, <2>1 DEF EmulatedApply
  <2> QED
    BY <2>2, AtFacts DEF Command, CallOK
<1>6. ASSUME NEW r \in Request, SetTTL(r) \/ Reset(r) \/ Get(r) \/ GetTTL(r) \/ CompareSetTTL(r)
      PROVE  Backed'
  BY <1>6, AfterwardsEffect, BackedStays
<1>7. ASSUME NEW r \in Request, Start(r) \/ BeginClose(r) \/ Close(r) \/ Crash(r)
      PROVE  Backed'
  BY <1>7, LifeEffect, BackedStays
<1>8. CASE Tick
  BY <1>8, LifeEffect, BackedStays
<1> QED
  BY <1>1, <1>2, <1>3, <1>4, <1>5, <1>6, <1>7, <1>8 DEF Next

LEMMA Backing ==
    ASSUME IsFiniteSet(Request), AtomicCas
    PROVE  Spec => []Backed
<1>1. Init => Backed
  BY InitBacked
<1>2. TypeOK /\ CallsOK /\ TypeOK' /\ Backed /\ [Next]_vars => Backed'
  BY NextBacked
<1> QED
  BY <1>1, <1>2, Typing, PTL DEF Spec

\* When everybody has gone, there is nobody to back a lock.
LEMMA NobodyLeaks ==
    ASSUME IsFiniteSet(Request), TypeOK, CallsOK, Backed
    PROVE  NoLeakedLock
<1> SUFFICES ASSUME Quiet, NEW p \in Path PROVE value[p] \in {Absent, 0}
  BY DEF NoLeakedLock
<1>1. \A r \in Request : call[r] = NoCall /\ exclusive[r] = {} /\ shared[r][p] = 0
  BY DEF Quiet, CallsOK, MemoryOK
<1>2. \A r \in Request : Units(r, p) = 0 /\ ~Owns(r, p) /\ ~ResetDue(r, p)
  BY <1>1 DEF Units, Owns, ResetDue, Releasing, Unacquiring, In
<1>3. Owners(p) = {} /\ Tokens(p) = {} /\ Cardinality(Tokens(p)) = 0
  BY <1>2, TokensType DEF Owners
<1>4. BackedAt(p) /\ value[p] \in Value
  BY StateType DEF Backed
<1>5. value[p] # Exclusive /\ (value[p] \in Int => value[p] <= 0 /\ ~(value[p] < 0))
  BY <1>2, <1>3, <1>4 DEF BackedAt
<1> QED
  BY <1>4, <1>5 DEF Value

\* With an atomic cas nothing is left behind, also when locks expired under the
\* requests that held them, were reset, or were never there.
THEOREM NothingLeaks ==
    ASSUME IsFiniteSet(Request), AtomicCas
    PROVE  Spec => []NoLeakedLock
<1>1. TypeOK /\ CallsOK /\ Backed => NoLeakedLock
  BY NobodyLeaks
<1> QED
  BY <1>1, Typing, Backing, PTL

-----------------------------------------------------------------------------
(* The strong invariant.                                                   *)

\* Nobody gains or loses a unit of a path whose key stays.
LEMMA ExactStays ==
    ASSUME NEW p \in Path, ExactAt(p), value'[p] = value[p],
           \A q \in Request : Units(q, p)' = Units(q, p) /\ (Owns(q, p)' => Owns(q, p))
    PROVE  ExactAt(p)'
<1>1. Tokens(p)' = Tokens(p) /\ Owners(p)' \subseteq Owners(p)
  BY DEF Tokens, Owners
<1>2. Count(value[p])' = Count(value[p])
  BY DEF Count
<1> QED
  BY <1>1, <1>2 DEF ExactAt

\* With an atomic cas nobody is within an emulated one.
LEMMA CasAtomic ==
    ASSUME AtomicCas, CallsOK, NEW p \in Path
    PROVE  CasOK(p)
<1>1. \A r \in Request, kind \in Kind : ~In(r, p, kind, {"apply", "unlock"}) /\ ~In(r, p, kind, {"apply"})
  BY DEF In, CallsOK, CallOK
<1> QED
  BY <1>1 DEF CasOK

LEMMA CasAtomicNext ==
    ASSUME AtomicCas, CallsOK', NEW p \in Path
    PROVE  CasOK(p)'
<1>1. \A r \in Request, kind \in Kind : ~In(r, p, kind, {"apply", "unlock"})' /\ ~In(r, p, kind, {"apply"})'
  BY DEF In, CallsOK, CallOK
<1> QED
  BY <1>1 DEF CasOK

\* Nobody enters an emulated cas, and who is within one finds the key as it was.
LEMMA CasStays ==
    ASSUME NEW p \in Path, CasOK(p), p \in casLock => p \in casLock',
           \A q \in Request, kind \in Kind :
              /\ In(q, p, kind, {"apply", "unlock"})' => In(q, p, kind, {"apply", "unlock"})
              /\ In(q, p, kind, {"apply"})' => In(q, p, kind, {"apply"}) /\ value'[p] = value[p]
    PROVE  CasOK(p)'
<1>1. \A kind \in Kind : Old(kind)' = Old(kind)
  BY DEF Old
<1>2. \A q \in Request, kind \in Kind :
          /\ In(q, p, kind, {"apply", "unlock"})' => p \in casLock'
          /\ In(q, p, kind, {"apply"})' => value'[p] = Old(kind)
  BY DEF CasOK
<1>3. \A q, s \in Request, k1, k2 \in Kind :
          In(q, p, k1, {"apply", "unlock"})' /\ In(s, p, k2, {"apply", "unlock"})' => q = s
  BY DEF CasOK
<1> QED
  BY <1>1, <1>2, <1>3 DEF CasOK

\* The other paths are what they were.
LEMMA ExactElsewhere ==
    ASSUME Exact, NEW r \in Request, NEW p \in Path, Only(r, p),
           \A t \in Path : t # p => expires'[t] = expires[t] /\ (t \in casLock => t \in casLock'),
           ExactAt(p)', LastsAt(p)', CasOK(p)'
    PROVE  Exact'
<1> SUFFICES ASSUME NEW t \in Path, t # p PROVE (ExactAt(t) /\ LastsAt(t) /\ CasOK(t))'
  BY DEF Exact
<1>1. ExactAt(t) /\ LastsAt(t) /\ CasOK(t)
  BY DEF Exact
<1>2. /\ \A q \in Request : Units(q, t)' = Units(q, t) /\ (Owns(q, t)' <=> Owns(q, t))
      /\ \A q \in Request : \A kind, commands : In(q, t, kind, commands)' <=> In(q, t, kind, commands)
  BY Elsewhere
<1>3. value'[t] = value[t]
  BY DEF Only
<1>4. ExactAt(t)'
  BY <1>1, <1>2, <1>3, ExactStays
<1>5. LastsAt(t)'
  BY <1>1 DEF LastsAt
<1>6. CasOK(t)'
  BY <1>1, <1>2, <1>3, CasStays
<1> QED
  BY <1>4, <1>5, <1>6

\* What a key says of the requests, and they of it.
LEMMA ExactFacts ==
    ASSUME IsFiniteSet(Request), TypeOK, NEW p \in Path, ExactAt(p)
    PROVE  /\ value[p] = Exclusive => Tokens(p) = {} /\ Cardinality(Tokens(p)) = 0
           /\ value[p] # Exclusive => Owners(p) = {} /\ Count(value[p]) = Cardinality(Tokens(p))
           /\ Cardinality(Tokens(p)) \in Nat
           /\ \A r \in Request : Units(r, p) > 0 =>
                 value[p] \in Int /\ value[p] = Cardinality(Tokens(p)) /\ value[p] >= 1
           /\ \A r \in Request : Owns(r, p) => value[p] = Exclusive /\ Owners(p) = {r}
           /\ value[p] \in Int => value[p] >= 0
<1>1. /\ Cardinality(Tokens(p)) \in Nat
      /\ Cardinality(Tokens(p)) = 0 <=> Tokens(p) = {}
      /\ Tokens(p) = {} <=> \A r \in Request : Units(r, p) = 0
      /\ \A r \in Request : Units(r, p) \in 0..Most
  BY TokensType, UnitsType
<1>2. value[p] \in Value /\ Absent \notin Int /\ Exclusive \notin Int /\ Absent # Exclusive
  BY StateType, BoundsType
<1>3. ASSUME NEW r \in Request, Units(r, p) > 0
      PROVE  value[p] \in Int /\ value[p] = Cardinality(Tokens(p)) /\ value[p] >= 1
  <2>1. Tokens(p) # {} /\ Cardinality(Tokens(p)) # 0
    BY <1>1, <1>3
  <2>2. value[p] # Exclusive /\ Count(value[p]) = Cardinality(Tokens(p))
    BY <2>1 DEF ExactAt
  <2> QED
    BY <1>1, <1>2, <2>1, <2>2 DEF Count, Value
<1>4. ASSUME NEW r \in Request, Owns(r, p)
      PROVE  value[p] = Exclusive /\ Owners(p) = {r}
  BY <1>4 DEF ExactAt, Owners
<1>5. value[p] \in Int => value[p] >= 0
  BY <1>1, <1>2 DEF ExactAt, Count
<1> QED
  BY <1>1, <1>3, <1>4, <1>5 DEF ExactAt

LEMMA IncExact ==
    ASSUME Assumptions, TypeOK, TypeOK', CallsOK, CallsOK', Exact, NEW r \in Request, Inc(r)
    PROVE  Exact'
<1>0. PICK p : p = call[r].path
  OBVIOUS
<1>1. /\ p \in Path /\ Only(r, p) /\ (Owns(r, p)' <=> Owns(r, p))
      /\ UNCHANGED <<expires, casLock>> /\ p \in SharedPath
      /\ \/ value' = value /\ Units(r, p)' = Units(r, p)
         \/ /\ value[p] # Exclusive /\ value'[p] = Count(value[p]) + 1
            /\ IF Count(value[p]) + 1 = 0 THEN Units(r, p)' = Units(r, p)
               ELSE Units(r, p)' = Units(r, p) + 1
  BY <1>0, IncEffect
<1>2. ExactAt(p) /\ LastsAt(p) /\ IsFiniteSet(Request) /\ AtomicCas
  BY <1>1 DEF Exact, Assumptions
<1>3. LastsAt(p)' /\ CasOK(p)'
  <2>1. LastsAt(p)'
    BY <1>1, <1>2 DEF LastsAt
  <2>2. CasOK(p)'
    BY <1>1, <1>2, CasAtomicNext
  <2> QED
    BY <2>1, <2>2
<1>4. Owners(p)' = Owners(p)
  BY <1>1, <1>2, RolesAt, Elsewhere DEF Owners
<1>5. ExactAt(p)'
  <2>1. CASE value' = value /\ Units(r, p)' = Units(r, p)
    BY <1>1, <1>2, <2>1, Elsewhere, ExactStays
  <2>2. CASE /\ value[p] # Exclusive /\ value'[p] = Count(value[p]) + 1
             /\ IF Count(value[p]) + 1 = 0 THEN Units(r, p)' = Units(r, p)
                ELSE Units(r, p)' = Units(r, p) + 1
    <3>1. /\ Owners(p) = {} /\ Count(value[p]) = Cardinality(Tokens(p))
          /\ Cardinality(Tokens(p)) \in Nat
      BY <1>1, <1>2, <2>2, ExactFacts
    <3>2. Units(r, p)' = Units(r, p) + 1
      BY <2>2, <3>1
    <3>3. Cardinality(Tokens(p)') = Cardinality(Tokens(p)) + 1
      BY <1>1, <1>2, <3>2, RolesAt
    <3>4. value'[p] # Exclusive /\ value'[p] = Cardinality(Tokens(p)') /\ value'[p] # Absent
      BY <2>2, <3>1, <3>3, BoundsType
    <3>5. Count(value[p])' = Cardinality(Tokens(p)')
      BY <3>4 DEF Count
    <3> QED
      BY <1>4, <3>1, <3>4, <3>5 DEF ExactAt
  <2> QED
    BY <1>1, <2>1, <2>2
<1> QED
  BY <1>1, <1>3, <1>5, ExactElsewhere

LEMMA AddExact ==
    ASSUME Assumptions, TypeOK, TypeOK', CallsOK, Exact, NEW r \in Request, Add(r)
    PROVE  Exact'
<1>0. PICK p : p = call[r].path
  OBVIOUS
<1>1. /\ p \in Path /\ Only(r, p) /\ Unmoved /\ casLock' = casLock
      /\ In(r, p, "acquire", {"add"}) /\ In(r, p, "acquire", {"swap"})'
      /\ value'[p] = IF value[p] = Absent THEN 0 ELSE value[p]
      /\ \/ expires' = expires
         \/ expires' = [expires EXCEPT ![p] = IF HasTTL THEN now + DefaultTTL ELSE Never]
  BY <1>0, AddEffect
<1>2. ExactAt(p) /\ LastsAt(p) /\ CasOK(p)
  BY <1>1 DEF Exact
<1>3. Owners(p)' = Owners(p) /\ Tokens(p)' = Tokens(p)
  BY <1>1 DEF Owners, Tokens, Unmoved
<1>4. ExactAt(p)'
  <2>1. Count(value[p])' = Count(value[p]) /\ (value'[p] = Exclusive <=> value[p] = Exclusive)
    BY <1>1, BoundsType DEF Count
  <2> QED
    BY <1>2, <1>3, <2>1 DEF ExactAt
<1>5. LastsAt(p)' /\ \A t \in Path : t # p => expires'[t] = expires[t]
  <2>1. now \in Nat /\ (HasTTL => now + DefaultTTL > MaxTime)
    BY StateType, BoundsType DEF Assumptions
  <2> QED
    BY <1>1, <1>2, <2>1 DEF LastsAt, TypeOK
<1>6. CasOK(p)'
  <2>1. ASSUME NEW q \in Request, NEW kind \in Kind
        PROVE  /\ In(q, p, kind, {"apply", "unlock"})' => In(q, p, kind, {"apply", "unlock"})
               /\ In(q, p, kind, {"apply"})' => In(q, p, kind, {"apply"}) /\ value'[p] = value[p]
    <3>1. CASE q = r
      BY <1>1, <3>1 DEF In
    <3>2. CASE q # r
      <4>1. /\ In(q, p, kind, {"apply", "unlock"})' <=> In(q, p, kind, {"apply", "unlock"})
            /\ In(q, p, kind, {"apply"})' <=> In(q, p, kind, {"apply"})
        BY <1>1, <3>2, Elsewhere
      <4>2. In(q, p, kind, {"apply"}) => value[p] # Absent
        BY <1>2, BoundsType DEF CasOK, Old
      <4> QED
        BY <1>1, <4>1, <4>2
    <3> QED
      BY <3>1, <3>2
  <2> QED
    BY <1>1, <1>2, <2>1, CasStays
<1> QED
  BY <1>1, <1>4, <1>5, <1>6, ExactElsewhere

LEMMA DecExact ==
    ASSUME Assumptions, TypeOK, TypeOK', CallsOK, CallsOK', Exact, NEW r \in Request, Dec(r)
    PROVE  Exact'
<1>0. PICK p : p = call[r].path
  OBVIOUS
<1>1. /\ p \in Path /\ Only(r, p) /\ (Owns(r, p)' <=> Owns(r, p))
      /\ UNCHANGED <<expires, casLock>> /\ p \in SharedPath
      /\ Units(r, p)' = Units(r, p) - 1 /\ Units(r, p) > 0
      /\ \/ value[p] \in {Absent, Exclusive} /\ value'[p] = value[p]
         \/ value[p] \in Int /\ value'[p] = value[p] - 1
  BY <1>0, DecEffect
<1>2. ExactAt(p) /\ LastsAt(p) /\ IsFiniteSet(Request) /\ AtomicCas
  BY <1>1 DEF Exact, Assumptions
<1>3. LastsAt(p)' /\ CasOK(p)'
  <2>1. LastsAt(p)'
    BY <1>1, <1>2 DEF LastsAt
  <2>2. CasOK(p)'
    BY <1>1, <1>2, CasAtomicNext
  <2> QED
    BY <2>1, <2>2
<1>4. Owners(p)' = Owners(p)
  BY <1>1, <1>2, RolesAt, Elsewhere DEF Owners
<1>5. ExactAt(p)'
  <2>1. value[p] \in Int /\ value[p] = Cardinality(Tokens(p)) /\ value[p] >= 1
    BY <1>1, <1>2, ExactFacts
  <2>2. Cardinality(Tokens(p)') = Cardinality(Tokens(p)) - 1
    BY <1>1, <1>2, RolesAt
  <2>3. /\ value'[p] # Exclusive /\ value'[p] # Absent /\ value'[p] = Cardinality(Tokens(p)')
        /\ value[p] # Exclusive
    BY <1>1, <2>1, <2>2, BoundsType
  <2>4. Count(value[p])' = Cardinality(Tokens(p)') /\ Owners(p) = {}
    BY <1>1, <1>2, <2>3, ExactFacts DEF Count
  <2> QED
    BY <1>4, <2>3, <2>4 DEF ExactAt
<1> QED
  BY <1>1, <1>3, <1>5, ExactElsewhere

\* A cas or cad that succeeds where the key is what it compared.
LEMMA SwappedExact ==
    ASSUME Assumptions, TypeOK, TypeOK', CallsOK, Exact, NEW r \in Request,
           NEW command \in {"swap", "apply"}, At(r, command), Swapped(r),
           NEW p, p = call[r].path, value[p] = Old(call[r].kind)
    PROVE  p \in Path /\ Only(r, p) /\ ExactAt(p)' /\ LastsAt(p)'
           /\ \A t \in Path : t # p => expires'[t] = expires[t]
<1>0. PICK kind : kind = call[r].kind
  OBVIOUS
<1>1. /\ p \in Path /\ kind \in Kind \ {"share"} /\ Only(r, p)
      /\ value'[p] = New(kind) /\ expires' = [expires EXCEPT ![p] = Never]
      /\ kind \in {"acquire", "unacquire"} => Units(r, p)' = Units(r, p)
      /\ kind = "toShared" => Units(r, p)' = Units(r, p) + 1
      /\ kind \in {"toExclusive", "unshare"} =>
            Units(r, p)' = Units(r, p) - 1 /\ Units(r, p) > 0
      /\ Owns(r, p)' <=> kind \in {"acquire", "toExclusive"}
      /\ kind \in {"toShared", "unacquire"} => Owns(r, p)
  BY <1>0, SwappedEffect
<1>2. ExactAt(p) /\ IsFiniteSet(Request) /\ value[p] = Old(kind)
  BY <1>0, <1>1 DEF Exact, Assumptions
<1>3. LastsAt(p)' /\ \A t \in Path : t # p => expires'[t] = expires[t]
  BY <1>1 DEF LastsAt, TypeOK
<1>4. CASE kind \in {"acquire", "toExclusive"}
  <2>1. /\ kind = "acquire" => value[p] = 0
        /\ kind = "toExclusive" => value[p] = 1
        /\ value[p] # Exclusive /\ value[p] # Absent
    <3>1. (kind = "acquire" => value[p] = 0) /\ (kind = "toExclusive" => value[p] = 1)
      BY <1>2 DEF Old
    <3>2. value[p] \in Int
      BY <1>4, <3>1
    <3> QED
      BY <3>1, <3>2, BoundsType
  <2>2. Owners(p) = {} /\ Cardinality(Tokens(p)) = value[p]
    BY <1>1, <1>2, <2>1, ExactFacts DEF Count
  <2>3. Tokens(p)' = {}
    <3>1. Cardinality(Tokens(p)') = 0
      <4>1. CASE kind = "acquire"
        <5>1. Tokens(p)' = Tokens(p)
          BY <1>1, <1>2, <4>1, RolesAt
        <5> QED
          BY <2>1, <2>2, <4>1, <5>1
      <4>2. CASE kind = "toExclusive"
        BY <1>1, <1>2, <2>1, <2>2, <4>2, RolesAt
      <4> QED
        BY <1>4, <4>1, <4>2
    <3> QED
      BY <1>1, <1>2, <3>1, RolesAt
  <2>4. Owners(p)' = {r}
    BY <1>1, <1>2, <1>4, <2>2, RolesAt
  <2>5. value'[p] = Exclusive
    BY <1>1, <1>4 DEF New
  <2> QED
    BY <1>1, <1>3, <2>3, <2>4, <2>5 DEF ExactAt
<1>5. CASE kind \in {"unshare", "toShared", "unacquire"}
  <2>1. Owners(p)' = {}
    <3>1. CASE kind = "unshare"
      <4>1. value[p] # Exclusive
        BY <1>2, <3>1, BoundsType DEF Old
      <4> QED
        BY <1>1, <1>2, <3>1, <4>1, ExactFacts, RolesAt
    <3>2. CASE kind \in {"toShared", "unacquire"}
      BY <1>1, <1>2, <3>2, ExactFacts, RolesAt
    <3> QED
      BY <1>5, <3>1, <3>2
  <2>2. Cardinality(Tokens(p)') = IF kind = "toShared" THEN 1 ELSE 0
    <3>1. CASE kind = "unshare"
      <4>1. Cardinality(Tokens(p)) = 1
        BY <1>1, <1>2, <3>1, ExactFacts DEF Old
      <4> QED
        BY <1>1, <1>2, <3>1, <4>1, RolesAt
    <3>2. CASE kind \in {"toShared", "unacquire"}
      <4>1. Cardinality(Tokens(p)) = 0
        BY <1>1, <1>2, <3>2, ExactFacts
      <4> QED
        BY <1>1, <1>2, <3>2, <4>1, RolesAt
    <3> QED
      BY <1>5, <3>1, <3>2
  <2>3. value'[p] = IF kind = "toShared" THEN 1 ELSE Absent
    BY <1>1, <1>5 DEF New
  <2>4. Count(value[p])' = Cardinality(Tokens(p)') /\ value'[p] # Exclusive
    <3>1. CASE kind = "toShared"
      <4>1. value'[p] = 1 /\ value'[p] # Absent /\ value'[p] # Exclusive
        BY <2>3, <3>1, BoundsType
      <4> QED
        BY <2>2, <3>1, <4>1 DEF Count
    <3>2. CASE kind # "toShared"
      BY <2>2, <2>3, <3>2, BoundsType DEF Count
    <3> QED
      BY <3>1, <3>2
  <2> QED
    BY <1>1, <1>3, <2>1, <2>4 DEF ExactAt
<1> QED
  BY <1>1, <1>4, <1>5 DEF Kind

\* A cas or cad that fails.
LEMMA NotSwappedExact ==
    ASSUME TypeOK, TypeOK', CallsOK, Exact, NEW r \in Request, NEW command \in Swapping,
           At(r, command), NotSwapped(r), UNCHANGED mode, NEW p, p = call[r].path
    PROVE  p \in Path /\ Only(r, p) /\ ExactAt(p)' /\ LastsAt(p)' /\ expires' = expires
           /\ value' = value
           /\ \A kind : ~In(r, p, kind, {"apply", "unlock"})' /\ ~In(r, p, kind, {"apply"})'
<1>1. /\ p \in Path /\ Only(r, p) /\ UNCHANGED <<value, expires>>
      /\ call'[r] = NoCall \/ In(r, p, call[r].kind, {"get", "dec"})'
      /\ Units(r, p)' = Units(r, p) /\ (Owns(r, p)' => Owns(r, p))
  BY NotSwappedEffect
<1>2. ExactAt(p) /\ LastsAt(p)
  BY <1>1 DEF Exact
<1>3. ExactAt(p)'
  BY <1>1, <1>2, Elsewhere, ExactStays
<1>4. LastsAt(p)'
  BY <1>1, <1>2 DEF LastsAt
<1>5. \A kind : ~In(r, p, kind, {"apply", "unlock"})' /\ ~In(r, p, kind, {"apply"})'
  BY <1>1 DEF In
<1> QED
  BY <1>1, <1>3, <1>4, <1>5

LEMMA SwapExact ==
    ASSUME Assumptions, TypeOK, TypeOK', CallsOK, CallsOK', Exact, NEW r \in Request, Swap(r)
    PROVE  Exact'
<1>0. PICK p : p = call[r].path
  OBVIOUS
<1>1. /\ At(r, "swap") /\ "swap" \in Swapping /\ UNCHANGED <<mode, casLock>> /\ AtomicCas
      /\ \/ value[p] = Old(call[r].kind) /\ Swapped(r)
         \/ NotSwapped(r)
  BY <1>0 DEF Swap, Swapping
<1>2. /\ p \in Path /\ Only(r, p) /\ ExactAt(p)' /\ LastsAt(p)'
      /\ \A t \in Path : t # p => expires'[t] = expires[t]
  BY <1>0, <1>1, SwappedExact, NotSwappedExact
<1>3. CasOK(p)'
  BY <1>1, <1>2, CasAtomicNext
<1> QED
  BY <1>1, <1>2, <1>3, ExactElsewhere

\* The first half of an emulated cas: nothing changes but who is within.
LEMMA EnterExact ==
    ASSUME TypeOK, CallsOK, Exact, NEW r \in Request, At(r, "swap"), ~AtomicCas,
           NEW p, p = call[r].path, p \notin casLock, casLock' = casLock \cup {p},
           NEW command \in {"apply", "unlock"}, Goto(r, command),
           command = "apply" => value[p] = Old(call[r].kind),
           UNCHANGED <<value, expires, memory, mode>>
    PROVE  Exact'
<1>1. /\ call[r] # NoCall /\ call[r].at = "swap" /\ p \in Path
  BY AtFacts DEF Command
<1>2. /\ call'[r] # NoCall /\ call'[r].at = command
      /\ call'[r].path = p /\ call'[r].kind = call[r].kind
      /\ \A q \in Request : q # r => call'[q] = call[q]
  <2>1. command \in Command \ {"none"}
    BY DEF Command
  <2> QED
    BY <1>1, <2>1, GotoFacts
<1>3. Only(r, p)
  BY <1>1, <1>2 DEF Only, memory
<1>4. (Releasing(r, p)' <=> Releasing(r, p)) /\ (Unacquiring(r, p)' <=> Unacquiring(r, p))
  BY <1>1, <1>2 DEF Releasing, Unacquiring, In, Swapping
<1>5. Units(r, p)' = Units(r, p) /\ (Owns(r, p)' <=> Owns(r, p))
  BY <1>4 DEF Units, Owns, memory
<1>6. ExactAt(p) /\ LastsAt(p) /\ CasOK(p)
  BY <1>1 DEF Exact
<1>7. ExactAt(p)'
  BY <1>1, <1>3, <1>5, <1>6, Elsewhere, ExactStays
<1>8. LastsAt(p)'
  BY <1>6 DEF LastsAt
<1>9. CasOK(p)'
  <2>1. \A q \in Request, kind \in Kind : ~In(q, p, kind, {"apply", "unlock"})
    BY <1>6 DEF CasOK
  <2>2. ASSUME NEW q \in Request, NEW kind \in Kind, In(q, p, kind, {"apply", "unlock"})'
        PROVE  q = r
    <3>1. CASE q # r
      <4>1. In(q, p, kind, {"apply", "unlock"})
        BY <1>1, <1>3, <2>2, <3>1, Elsewhere
      <4> QED
        BY <2>1, <4>1
    <3> QED
      BY <3>1
  <2>3. \A q \in Request, kind \in Kind :
            In(q, p, kind, {"apply"})' => In(q, p, kind, {"apply", "unlock"})'
    BY DEF In
  <2>4. ASSUME NEW kind \in Kind, In(r, p, kind, {"apply"})'
        PROVE  value'[p] = Old(kind)
    BY <1>2, <2>4 DEF In
  <2>5. \A kind \in Kind : Old(kind)' = Old(kind)
    BY DEF Old
  <2> QED
    BY <2>2, <2>3, <2>4, <2>5 DEF CasOK
<1> QED
  BY <1>1, <1>3, <1>7, <1>8, <1>9, ExactElsewhere

LEMMA EmulatedCompareExact ==
    ASSUME TypeOK, TypeOK', CallsOK, Exact, NEW r \in Request, EmulatedCompare(r)
    PROVE  Exact'
<1>0. PICK p : p = call[r].path
  OBVIOUS
<1>1. /\ At(r, "swap") /\ "swap" \in Swapping /\ ~AtomicCas /\ UNCHANGED mode
      /\ \/ /\ p \notin casLock /\ casLock' = casLock \cup {p}
            /\ \E command \in {"apply", "unlock"} :
                  Goto(r, command) /\ (command = "apply" => value[p] = Old(call[r].kind))
            /\ UNCHANGED <<value, expires, memory>>
         \/ NotSwapped(r) /\ casLock' = casLock
  BY <1>0 DEF EmulatedCompare, Swapping
<1>2. CASE /\ p \notin casLock /\ casLock' = casLock \cup {p}
           /\ \E command \in {"apply", "unlock"} :
                 Goto(r, command) /\ (command = "apply" => value[p] = Old(call[r].kind))
           /\ UNCHANGED <<value, expires, memory>>
  BY <1>0, <1>1, <1>2, EnterExact
<1>3. CASE NotSwapped(r) /\ casLock' = casLock
  <2>1. /\ p \in Path /\ Only(r, p) /\ ExactAt(p)' /\ LastsAt(p)' /\ expires' = expires
        /\ value' = value
        /\ \A kind : ~In(r, p, kind, {"apply", "unlock"})' /\ ~In(r, p, kind, {"apply"})'
    BY <1>0, <1>1, <1>3, NotSwappedExact
  <2>2. CasOK(p) /\ \A q \in Request : \A kind, commands : q # r => (In(q, p, kind, commands)' <=> In(q, p, kind, commands))
    BY <2>1, Elsewhere DEF Exact
  <2>3. CasOK(p)'
    BY <1>3, <2>1, <2>2, CasStays
  <2> QED
    BY <1>3, <2>1, <2>3, ExactElsewhere
<1> QED
  BY <1>1, <1>2, <1>3

\* The second half: the request that is within leaves, and nobody else is.
LEMMA EmulatedApplyExact ==
    ASSUME Assumptions, TypeOK, TypeOK', CallsOK, Exact, NEW r \in Request, EmulatedApply(r)
    PROVE  Exact'
<1>0. PICK p : p = call[r].path
  OBVIOUS
<1>1. /\ casLock' = casLock \ {p} /\ UNCHANGED mode
      /\ \E command \in {"apply", "unlock"} : At(r, command)
      /\ \/ At(r, "apply") /\ Swapped(r)
         \/ At(r, "unlock") /\ NotSwapped(r)
  BY <1>0 DEF EmulatedApply
<1>2. /\ p \in Path /\ call[r].kind \in Kind
      /\ In(r, p, call[r].kind, {"apply", "unlock"})
      /\ At(r, "apply") => In(r, p, call[r].kind, {"apply"})
  BY <1>0, <1>1, AtFacts DEF Command, In
<1>3. CasOK(p)
  BY <1>2 DEF Exact
<1>4. /\ Only(r, p) /\ ExactAt(p)' /\ LastsAt(p)'
      /\ \A t \in Path : t # p => expires'[t] = expires[t]
      /\ \A kind : ~In(r, p, kind, {"apply", "unlock"})' /\ ~In(r, p, kind, {"apply"})'
  <2>1. CASE At(r, "apply") /\ Swapped(r)
    <3>1. value[p] = Old(call[r].kind)
      BY <1>2, <1>3, <2>1 DEF CasOK
    <3>2. call'[r] = NoCall \/ call'[r].at = "setTTL"
      BY <2>1, SwappedFacts
    <3>3. \A kind : ~In(r, p, kind, {"apply", "unlock"})' /\ ~In(r, p, kind, {"apply"})'
      BY <3>2 DEF In
    <3> QED
      BY <1>0, <2>1, <3>1, <3>3, SwappedExact
  <2>2. CASE At(r, "unlock") /\ NotSwapped(r)
    BY <1>0, <1>1, <2>2, NotSwappedExact DEF Swapping
  <2> QED
    BY <1>1, <2>1, <2>2
<1>5. CasOK(p)'
  <2>1. ASSUME NEW q \in Request, NEW kind \in Kind
        PROVE  ~In(q, p, kind, {"apply", "unlock"})' /\ ~In(q, p, kind, {"apply"})'
    <3>1. CASE q = r
      BY <1>4, <3>1
    <3>2. CASE q # r
      <4>1. ~In(q, p, kind, {"apply", "unlock"})
        BY <1>2, <1>3, <3>2 DEF CasOK
      <4>2. ~In(q, p, kind, {"apply"})
        BY <4>1 DEF In
      <4> QED
        BY <1>2, <1>4, <3>2, <4>1, <4>2, Elsewhere
    <3> QED
      BY <3>1, <3>2
  <2> QED
    BY <2>1 DEF CasOK
<1> QED
  BY <1>1, <1>2, <1>4, <1>5, ExactElsewhere

\* Steps that leave every key as it is, and every request where it was or
\* outside of an emulated cas.
LEMMA ExactUnmoved ==
    ASSUME Exact, Unmoved, UNCHANGED <<value, casLock>>,
           \A t \in Path : LastsAt(t)',
           \A q \in Request, t \in Path, kind \in Kind :
              /\ In(q, t, kind, {"apply", "unlock"})' => In(q, t, kind, {"apply", "unlock"})
              /\ In(q, t, kind, {"apply"})' => In(q, t, kind, {"apply"})
    PROVE  Exact'
<1> SUFFICES ASSUME NEW t \in Path PROVE ExactAt(t)' /\ CasOK(t)'
  BY DEF Exact
<1>1. ExactAt(t) /\ CasOK(t)
  BY DEF Exact
<1>2. ExactAt(t)'
  BY <1>1, ExactStays DEF Unmoved
<1>3. CasOK(t)'
  BY <1>1, CasStays
<1> QED
  BY <1>2, <1>3

LEMMA MethodExact ==
    ASSUME TypeOK, CallsOK, Exact, NEW r \in Request, NEW p \in Path,
           \/ AcquireShared(r, p)
           \/ AcquireExclusive(r, p)
           \/ ChangeToShared(r, p)
           \/ ChangeToExclusive(r, p)
           \/ ReleaseShared(r, p)
           \/ ReleaseExclusive(r, p)
    PROVE  Exact'
<1>1. /\ UNCHANGED cache /\ Unmoved
      /\ call'[r].at \in {"inc", "add", "swap", "dec"}
      /\ \A q \in Request : q # r => call'[q] = call[q]
  BY MethodEffect
<1>2. UNCHANGED <<value, casLock, expires>>
  BY <1>1 DEF cache
<1>3. \A t \in Path : LastsAt(t)'
  BY <1>2 DEF Exact, LastsAt
<1>4. ASSUME NEW q \in Request, NEW t \in Path, NEW kind \in Kind
      PROVE  /\ In(q, t, kind, {"apply", "unlock"})' => In(q, t, kind, {"apply", "unlock"})
             /\ In(q, t, kind, {"apply"})' => In(q, t, kind, {"apply"})
  BY <1>1 DEF In
<1> QED
  BY <1>1, <1>2, <1>3, <1>4, ExactUnmoved

\* No lock is given so little time that it expires within the behaviour.
LEMMA ExpireExact ==
    ASSUME Assumptions, TypeOK, NEW p \in Path, Expire(p, TTL), \A t \in Path : LastsAt(t)
    PROVE  value' = value /\ \A t \in Path : LastsAt(t)'
<1>1. now \in Nat /\ TTL > 0 /\ TTL \in Nat /\ MaxTime \in Nat /\ (HasTTL => TTL > MaxTime)
  BY StateType, BoundsType DEF Assumptions
<1>2. \/ UNCHANGED <<value, expires>>
      \/ HasTTL /\ Store(p, value[p], now + TTL)
  BY <1>1 DEF Expire
<1>3. HasTTL => now + TTL > MaxTime
  BY <1>1
<1> QED
  BY <1>2, <1>3 DEF Store, LastsAt, TypeOK

\* The ends of the calls: no counter is reset, and no ttl is restored.
LEMMA AfterwardsExact ==
    ASSUME Assumptions, TypeOK, CallsOK, Exact, NEW r \in Request,
           SetTTL(r) \/ Reset(r) \/ Get(r) \/ GetTTL(r) \/ CompareSetTTL(r)
    PROVE  Exact'
<1>1. /\ call[r] # NoCall /\ call[r].at \in After /\ call[r].path \in Path /\ CallOK(r)
      /\ call'[r] = NoCall \/ call'[r].at \in {"getTTL", "expire"}
      /\ \A q \in Request : q # r => call'[q] = call[q]
      /\ casLock' = casLock /\ Unmoved
  BY AfterwardsEffect
<1>2. \A t \in Path : LastsAt(t) /\ ExactAt(t)
  BY DEF Exact
<1>3. value' = value /\ \A t \in Path : LastsAt(t)'
  <2>1. CASE SetTTL(r)
    BY <1>1, <1>2, <2>1, ExpireExact DEF SetTTL
  <2>2. CASE UNCHANGED <<value, expires>>
    BY <1>2, <2>2 DEF LastsAt
  <2>3. CASE CompareSetTTL(r)
    <3>1. call[r].at = "expire"
      BY <2>3 DEF CompareSetTTL, At
    <3>2. ~HasTTL
      BY <1>1, <3>1 DEF CallOK, Assumptions
    <3>3. UNCHANGED <<value, expires>>
      BY <2>3, <3>2 DEF CompareSetTTL, Expire
    <3> QED
      BY <2>2, <3>3
  <2>4. CASE Reset(r)
    <3>1. call[r].at = "reset"
      BY <2>4 DEF Reset, At
    <3>2. call[r].seen \in Int /\ call[r].seen < 0
      BY <1>1, <3>1 DEF CallOK
    <3>3. value[call[r].path] \in Int => value[call[r].path] >= 0
      BY <1>1, <1>2, ExactFacts DEF Assumptions
    <3>4. value[call[r].path] # call[r].seen
      BY <3>2, <3>3
    <3>5. UNCHANGED <<value, expires>>
      BY <2>4, <3>4 DEF Reset
    <3> QED
      BY <2>2, <3>5
  <2> QED
    BY <2>1, <2>2, <2>3, <2>4 DEF Get, GetTTL, cache
<1>4. ASSUME NEW q \in Request, NEW t \in Path, NEW kind \in Kind
      PROVE  /\ In(q, t, kind, {"apply", "unlock"})' => In(q, t, kind, {"apply", "unlock"})
             /\ In(q, t, kind, {"apply"})' => In(q, t, kind, {"apply"})
  BY <1>1 DEF In
<1> QED
  BY <1>1, <1>3, <1>4, ExactUnmoved

LEMMA LifeExact ==
    ASSUME TypeOK, Exact,
           \/ UNCHANGED vars
           \/ Tick
           \/ \E r \in Request : Start(r) \/ BeginClose(r) \/ Close(r) \/ Crash(r)
    PROVE  Exact'
<1>1. UNCHANGED <<casLock, call>> /\ Unmoved
  BY LifeEffect
<1>2. UNCHANGED <<value, expires>>
  <2>1. CASE Tick
    <3>1. now \in Nat /\ MaxTime \in Nat
      BY StateType, BoundsType
    <3>2. ASSUME NEW t \in Path
          PROVE  expires[t] # now + 1
      BY <2>1, <3>1, StateType DEF Exact, LastsAt, Never, Tick
    <3> QED
      BY <2>1, <3>2 DEF Tick, TypeOK
  <2> QED
    BY <2>1 DEF Start, BeginClose, Close, Crash, vars, cache
<1>3. \A t \in Path : LastsAt(t)'
  BY <1>2 DEF Exact, LastsAt
<1>4. ASSUME NEW q \in Request, NEW t \in Path, NEW kind \in Kind
      PROVE  /\ In(q, t, kind, {"apply", "unlock"})' => In(q, t, kind, {"apply", "unlock"})
             /\ In(q, t, kind, {"apply"})' => In(q, t, kind, {"apply"})
  BY <1>1 DEF In
<1> QED
  BY <1>1, <1>2, <1>3, <1>4, ExactUnmoved

LEMMA InitExact ==
    ASSUME IsFiniteSet(Request), Init, TypeOK
    PROVE  Exact
<1> SUFFICES ASSUME NEW p \in Path PROVE ExactAt(p) /\ LastsAt(p) /\ CasOK(p)
  BY DEF Exact
<1>1. \A r \in Request : call[r] = NoCall /\ exclusive[r] = {} /\ shared[r][p] = 0
  BY DEF Init
<1>2. \A r \in Request : Units(r, p) = 0 /\ ~Owns(r, p)
  BY <1>1 DEF Units, Owns, Releasing, Unacquiring, In
<1>3. Owners(p) = {} /\ Tokens(p) = {} /\ Cardinality(Tokens(p)) = 0
  BY <1>2, TokensType DEF Owners
<1>4. value[p] = Absent /\ expires[p] = Never /\ Absent # Exclusive
  BY BoundsType DEF Init
<1>5. ExactAt(p) /\ LastsAt(p)
  BY <1>3, <1>4 DEF ExactAt, LastsAt, Count
<1>6. CasOK(p)
  BY <1>1 DEF CasOK, In
<1> QED
  BY <1>5, <1>6

LEMMA NextExact ==
    ASSUME Assumptions, TypeOK, TypeOK', CallsOK, CallsOK', Exact, [Next]_vars
    PROVE  Exact'
<1>1. CASE UNCHANGED vars
  BY <1>1, LifeExact
<1>2. ASSUME NEW r \in Request, NEW p \in Path,
             \/ AcquireShared(r, p)
             \/ AcquireExclusive(r, p)
             \/ ChangeToShared(r, p)
             \/ ChangeToExclusive(r, p)
             \/ ReleaseShared(r, p)
             \/ ReleaseExclusive(r, p)
      PROVE  Exact'
  BY <1>2, MethodExact
<1>3. ASSUME NEW r \in Request, Inc(r) \/ Add(r) \/ Dec(r)
      PROVE  Exact'
  BY <1>3, IncExact, AddExact, DecExact
<1>4. ASSUME NEW r \in Request, Swap(r) \/ EmulatedCompare(r) \/ EmulatedApply(r)
      PROVE  Exact'
  BY <1>4, SwapExact, EmulatedCompareExact, EmulatedApplyExact
<1>5. ASSUME NEW r \in Request, SetTTL(r) \/ Reset(r) \/ Get(r) \/ GetTTL(r) \/ CompareSetTTL(r)
      PROVE  Exact'
  BY <1>5, AfterwardsExact
<1>6. ASSUME NEW r \in Request, Start(r) \/ BeginClose(r) \/ Close(r) \/ Crash(r)
      PROVE  Exact'
  BY <1>6, LifeExact
<1>7. CASE Tick
  BY <1>7, LifeExact
<1> QED
  BY <1>1, <1>2, <1>3, <1>4, <1>5, <1>6, <1>7 DEF Next

LEMMA Exactness ==
    ASSUME Assumptions
    PROVE  Spec => []Exact
<1>1. Init /\ TypeOK => Exact
  BY InitExact DEF Assumptions
<1>2. TypeOK /\ CallsOK /\ TypeOK' /\ CallsOK' /\ Exact /\ [Next]_vars => Exact'
  BY NextExact
<1> QED
  BY <1>1, <1>2, Typing, PTL DEF Spec

-----------------------------------------------------------------------------
(* What it is for. *)

\* A lock is held only through units or as the owner of the key.
LEMMA RolesHold ==
    ASSUME IsFiniteSet(Request), TypeOK, NEW p \in Path
    PROVE  /\ \A r \in Readers(p) : r \in Request /\ Units(r, p) > 0
           /\ Writers(p) \subseteq Owners(p)
<1>1. \A r \in Readers(p) : r \in Request /\ Units(r, p) > 0
  BY StateType DEF Readers, Units
<1> QED
  BY <1>1 DEF Writers, Owners, Owns

LEMMA ExactExcludes ==
    ASSUME IsFiniteSet(Request), TypeOK, Exact
    PROVE  MutualExclusion
<1> SUFFICES ASSUME NEW p \in Path
             PROVE  /\ Cardinality(Writers(p)) <= 1
                    /\ Writers(p) # {} => Readers(p) \subseteq Writers(p)
  BY DEF MutualExclusion
<1>1. ExactAt(p)
  BY DEF Exact
<1>2. CASE Writers(p) = {}
  BY <1>2, FS_EmptySet
<1>3. CASE Writers(p) # {}
  <2>1. PICK r \in Request : Writers(p) = {r} /\ Owns(r, p)
    BY <1>1, <1>3, RolesHold DEF ExactAt, Owners
  <2>2. Cardinality(Writers(p)) = 1
    BY <2>1, FS_Singleton
  <2>3. value[p] = Exclusive /\ Tokens(p) = {}
    BY <1>1, <2>1, ExactFacts
  <2>4. \A q \in Request : Units(q, p) = 0
    BY <2>3, TokensType
  <2>5. Readers(p) = {}
    BY <2>4, RolesHold
  <2> QED
    BY <2>2, <2>5
<1> QED
  BY <1>2, <1>3

\* Whatever commands of others come between two commands of a call, also where
\* cas is emulated: nobody writes a path that another request reads or writes.
THEOREM Exclusion ==
    ASSUME Assumptions
    PROVE  Spec => []MutualExclusion
<1>1. TypeOK /\ Exact => MutualExclusion
  BY ExactExcludes DEF Assumptions
<1> QED
  BY <1>1, Typing, Exactness, PTL

-----------------------------------------------------------------------------
(* The provider implements the readers-writer lock.  The abstract readers   *)
(* and writers of a path are the live requests whose bookkeeping says they *)
(* hold it.  inc maps to Share; the cas of changeLock to Downgrade or      *)
(* Claim, that of acquireLock to Claim; releaseLock, which forgets the     *)
(* lock before the key changes, to Unshare or Unclaim; a killed request to *)
(* Vanish.  The commands in between are invisible.                         *)

ReadersBar == [p \in Path |-> Readers(p)]
WritersBar == [p \in Path |-> Writers(p)]

\* The abstract state after a step that concerns one path.
LEMMA BarMoves ==
    ASSUME NEW p \in Path, \A t \in Path : t # p => Readers(t)' = Readers(t) /\ Writers(t)' = Writers(t)
    PROVE  /\ ReadersBar' = [ReadersBar EXCEPT ![p] = Readers(p)']
           /\ WritersBar' = [WritersBar EXCEPT ![p] = Writers(p)']
BY DEF ReadersBar, WritersBar

\* A step that changes no role is a stuttering step.
LEMMA BarStays ==
    ASSUME \A t \in Path : Readers(t)' = Readers(t) /\ Writers(t)' = Writers(t)
    PROVE  UNCHANGED Abstract!vars
BY DEF Abstract!vars, ReadersBar, WritersBar

LEMMA Unseen ==
    ASSUME UNCHANGED <<mode, shared, exclusive>>
    PROVE  UNCHANGED Abstract!vars
<1>1. \A t \in Path : Readers(t)' = Readers(t) /\ Writers(t)' = Writers(t)
  BY DEF Readers, Writers, Live
<1> QED
  BY <1>1, BarStays

\* What a step of one request on one path does to the roles.
LEMMA RolesMove ==
    ASSUME NEW r \in Request, NEW p \in Path, Only(r, p), Live(r), mode' = mode
    PROVE  /\ ReadersBar' = [ReadersBar EXCEPT ![p] = Readers(p)']
           /\ WritersBar' = [WritersBar EXCEPT ![p] = Writers(p)']
           /\ Readers(p)' = IF shared'[r][p] > 0 THEN Readers(p) \cup {r} ELSE Readers(p) \ {r}
           /\ Writers(p)' = IF p \in exclusive'[r] THEN Writers(p) \cup {r} ELSE Writers(p) \ {r}
<1>1. \A q \in Request : Live(q)' <=> Live(q)
  BY DEF Live
<1>2. \A q \in Request, t \in Path : <<q, t>> # <<r, p>> =>
          shared'[q][t] = shared[q][t] /\ (t \in exclusive'[q] <=> t \in exclusive[q])
  BY DEF Only
<1>3. \A t \in Path : t # p => Readers(t)' = Readers(t) /\ Writers(t)' = Writers(t)
  BY <1>1, <1>2 DEF Readers, Writers
<1>4. Readers(p)' = IF shared'[r][p] > 0 THEN Readers(p) \cup {r} ELSE Readers(p) \ {r}
  BY <1>1, <1>2 DEF Readers
<1>5. Writers(p)' = IF p \in exclusive'[r] THEN Writers(p) \cup {r} ELSE Writers(p) \ {r}
  BY <1>1, <1>2 DEF Writers
<1> QED
  BY <1>3, <1>4, <1>5, BarMoves

\* Roles that do not change.
LEMMA SameRoles ==
    ASSUME NEW r \in Request, NEW p \in Path, Only(r, p), Live(r), mode' = mode,
           shared'[r][p] > 0 <=> shared[r][p] > 0, p \in exclusive'[r] <=> p \in exclusive[r]
    PROVE  UNCHANGED Abstract!vars
<1>1. Readers(p)' = Readers(p) /\ Writers(p)' = Writers(p)
  BY RolesMove DEF Readers, Writers
<1>2. ReadersBar' = ReadersBar /\ WritersBar' = WritersBar
  BY <1>1, RolesMove DEF ReadersBar, WritersBar
<1> QED
  BY <1>2 DEF Abstract!vars, ReadersBar, WritersBar

\* The roles of a path by the value of its key.
LEMMA RolesOfKey ==
    ASSUME IsFiniteSet(Request), TypeOK, NEW p \in Path, ExactAt(p)
    PROVE  /\ value[p] # Exclusive => Writers(p) = {}
           /\ value[p] = Exclusive => Readers(p) = {}
           /\ \A r \in Request : Owns(r, p) => Writers(p) \subseteq {r} /\ Readers(p) = {}
           /\ \A r \in Request : Owns(r, p) /\ Live(r) /\ p \in exclusive[r] => Writers(p) = {r}
<1>1. value[p] # Exclusive => Writers(p) = {}
  BY RolesHold, ExactFacts
<1>2. value[p] = Exclusive => Readers(p) = {}
  <2>1. Tokens(p) = {} => \A q \in Request : Units(q, p) = 0
    BY TokensType
  <2> QED
    BY <2>1, RolesHold, ExactFacts
<1>3. \A r \in Request : Owns(r, p) => Writers(p) \subseteq {r} /\ Readers(p) = {}
  BY <1>2, RolesHold, ExactFacts
<1>4. \A r \in Request : Owns(r, p) /\ Live(r) /\ p \in exclusive[r] => Writers(p) = {r}
  BY <1>3 DEF Writers
<1> QED
  BY <1>1, <1>2, <1>3, <1>4

\* acquireLock(p, LOCK_SHARED): inc
LEMMA IncRefines ==
    ASSUME Assumptions, TypeOK, TypeOK', CallsOK, Exact, NEW r \in Request, Inc(r)
    PROVE  (\E p \in Path : Abstract!Share(r, p)) \/ UNCHANGED Abstract!vars
<1>0. PICK p : p = call[r].path
  OBVIOUS
<1>1. /\ p \in Path /\ Only(r, p) /\ UNCHANGED <<mode, exclusive>>
      /\ \/ shared' = shared
         \/ /\ value[p] # Exclusive
            /\ shared' = [shared EXCEPT ![r][p] = shared[r][p] + 1]
  BY <1>0, IncEffect
<1>2. CASE shared' = shared
  BY <1>1, <1>2, Unseen
<1>3. CASE value[p] # Exclusive /\ shared' = [shared EXCEPT ![r][p] = shared[r][p] + 1]
  <2>1. Live(r) /\ shared'[r][p] > 0
    <3>1. shared[r][p] \in Nat /\ shared'[r][p] = shared[r][p] + 1
      BY <1>1, <1>3, StateType, BoundsType DEF TypeOK
    <3> QED
      BY <3>1 DEF Inc, At
  <2>2. Writers(p) = {}
    BY <1>1, <1>3, RolesOfKey DEF Exact, Assumptions
  <2>3. Readers(p)' = Readers(p) \cup {r} /\ Writers(p)' = Writers(p)
    BY <1>1, <2>1, RolesMove DEF Writers
  <2>4. ReadersBar' = [ReadersBar EXCEPT ![p] = Readers(p) \cup {r}] /\ WritersBar' = WritersBar
    BY <1>1, <2>1, <2>3, RolesMove DEF WritersBar
  <2>5. Abstract!Share(r, p)
    BY <1>1, <2>2, <2>4 DEF Abstract!Share, ReadersBar, WritersBar
  <2> QED
    BY <1>1, <2>5
<1> QED
  BY <1>1, <1>2, <1>3

\* A cas or cad that succeeds: the exclusive lock is granted, or turned into a
\* shared one, or the key of a released lock is removed.
LEMMA SwappedRefines ==
    ASSUME Assumptions, TypeOK, TypeOK', CallsOK, Exact, Exact', NEW r \in Request,
           NEW command \in {"swap", "apply"}, At(r, command), Swapped(r), mode' = mode,
           NEW p, p = call[r].path, value[p] = Old(call[r].kind)
    PROVE  \/ \E t \in Path : Abstract!Claim(r, t) \/ Abstract!Downgrade(r, t) \/ Abstract!Unclaim(r, t)
           \/ UNCHANGED Abstract!vars
<1>0. PICK kind : kind = call[r].kind
  OBVIOUS
<1>1. /\ p \in Path /\ kind \in Kind \ {"share"} /\ Only(r, p) /\ value'[p] = New(kind)
      /\ call[r] # NoCall /\ call[r].at = command /\ call[r].path = p /\ call[r].kind = kind
      /\ kind \in {"toShared", "unacquire"} => Owns(r, p)
  <2>1. call[r] # NoCall /\ call[r].at = command
    BY AtFacts DEF Command
  <2> QED
    BY <1>0, <2>1, SwappedEffect
<1>2. ExactAt(p) /\ ExactAt(p)' /\ IsFiniteSet(Request) /\ value[p] = Old(kind) /\ Live(r)
  BY <1>0, <1>1 DEF Exact, Assumptions, At
<1>3. /\ kind = "toShared" => shared'[r][p] > 0
      /\ kind \in {"acquire", "unshare", "unacquire"} => shared'[r][p] = shared[r][p]
      /\ p \in exclusive'[r] <=> kind \in {"acquire", "toExclusive"}
      /\ kind = "toShared" => p \in exclusive[r]
  <2>1. /\ shared' = [shared EXCEPT ![r][p] =
              IF kind = "toShared" THEN shared[r][p] + 1
              ELSE IF kind = "toExclusive" THEN shared[r][p] - 1 ELSE shared[r][p]]
        /\ exclusive' = [exclusive EXCEPT ![r] =
              IF kind \in {"acquire", "toExclusive"} THEN exclusive[r] \cup {p} ELSE exclusive[r] \ {p}]
    BY <1>0, SwappedFacts
  <2>2. shared[r][p] \in Nat
    BY <1>1, StateType
  <2>3. /\ kind = "toShared" => shared'[r][p] = shared[r][p] + 1
        /\ kind \in {"acquire", "unshare", "unacquire"} => shared'[r][p] = shared[r][p]
    BY <1>1, <2>1 DEF TypeOK
  <2>4. p \in exclusive'[r] <=> kind \in {"acquire", "toExclusive"}
    BY <2>1 DEF TypeOK
  <2>5. kind = "toShared" => p \in exclusive[r]
    BY <1>1 DEF CallsOK, CallOK, In, Swapping
  <2> QED
    BY <2>2, <2>3, <2>4, <2>5
<1>4. CASE kind \in {"acquire", "toExclusive"}
  <2>1. value[p] # Exclusive /\ value'[p] = Exclusive
    BY <1>1, <1>2, <1>4, BoundsType DEF Old, New
  <2>2. Writers(p) = {}
    BY <1>1, <1>2, <2>1, RolesOfKey
  <2>3. \A q \in Request : Units(q, p)' = 0
    <3>1. Tokens(p)' = {}
      BY <1>2, <2>1 DEF ExactAt
    <3> QED
      BY <1>1, <3>1, TokensNext
  <2>4. Readers(p) \subseteq {r}
    BY <1>1, <1>2, <2>3, Elsewhere, RolesHold
  <2>5. shared'[r][p] = 0
    <3>1. shared'[r][p] \in Nat /\ ~Releasing(r, p)'
      BY <1>0, <1>1, <1>4, SwappedFacts, UnitsNext DEF Releasing, In, Swapping
    <3> QED
      BY <2>3, <3>1 DEF Units
  <2>6. Readers(p)' = {} /\ Writers(p)' = {r}
    BY <1>1, <1>2, <1>3, <1>4, <2>2, <2>4, <2>5, RolesMove
  <2>7. /\ ReadersBar' = [ReadersBar EXCEPT ![p] = {}]
        /\ WritersBar' = [WritersBar EXCEPT ![p] = {r}]
    BY <1>1, <1>2, <2>6, RolesMove
  <2>8. Abstract!Claim(r, p)
    BY <1>1, <2>2, <2>4, <2>7 DEF Abstract!Claim, ReadersBar, WritersBar
  <2> QED
    BY <1>1, <2>8
<1>5. CASE kind = "toShared"
  <2>1. Writers(p) = {r} /\ Readers(p) = {}
    BY <1>1, <1>2, <1>3, <1>5, RolesOfKey
  <2>2. Readers(p)' = {r} /\ Writers(p)' = {}
    BY <1>1, <1>2, <1>3, <1>5, <2>1, RolesMove
  <2>3. /\ ReadersBar' = [ReadersBar EXCEPT ![p] = {r}]
        /\ WritersBar' = [WritersBar EXCEPT ![p] = {}]
    BY <1>1, <1>2, <2>2, RolesMove
  <2>4. Abstract!Downgrade(r, p)
    BY <1>1, <2>1, <2>3 DEF Abstract!Downgrade, ReadersBar, WritersBar
  <2> QED
    BY <1>1, <2>4
<1>6. CASE kind \in {"unshare", "unacquire"} /\ p \notin exclusive[r]
  BY <1>1, <1>2, <1>3, <1>6, SameRoles
<1>7. CASE kind = "unshare" /\ p \in exclusive[r]
  <2>1. value[p] # Exclusive
    BY <1>2, <1>7, BoundsType DEF Old
  <2>2. Owns(r, p)
    BY <1>7 DEF Owns
  <2> QED
    BY <1>1, <1>2, <2>1, <2>2, ExactFacts
<1>8. CASE kind = "unacquire" /\ p \in exclusive[r]
  <2>1. Writers(p) = {r} /\ Readers(p) = {}
    BY <1>1, <1>2, <1>8, RolesOfKey
  <2>2. Readers(p)' = Readers(p) /\ Writers(p)' = {}
    BY <1>1, <1>2, <1>3, <1>8, <2>1, RolesMove DEF Readers
  <2>3. ReadersBar' = ReadersBar /\ WritersBar' = [WritersBar EXCEPT ![p] = {}]
    BY <1>1, <1>2, <2>2, RolesMove DEF ReadersBar
  <2>4. Abstract!Unclaim(r, p)
    BY <1>1, <2>1, <2>3 DEF Abstract!Unclaim, ReadersBar, WritersBar
  <2> QED
    BY <1>1, <2>4
<1> QED
  BY <1>1, <1>4, <1>5, <1>6, <1>7, <1>8 DEF Kind

\* A cas or cad, in one command or emulated.
LEMMA CasRefines ==
    ASSUME Assumptions, TypeOK, TypeOK', CallsOK, Exact, Exact', NEW r \in Request,
           Swap(r) \/ EmulatedCompare(r) \/ EmulatedApply(r)
    PROVE  \/ \E t \in Path : Abstract!Claim(r, t) \/ Abstract!Downgrade(r, t) \/ Abstract!Unclaim(r, t)
           \/ UNCHANGED Abstract!vars
<1>0. PICK p : p = call[r].path
  OBVIOUS
<1>1. mode' = mode
  BY DEF Swap, EmulatedCompare, EmulatedApply
<1>2. CASE UNCHANGED memory
  BY <1>1, <1>2, Unseen DEF memory
<1>3. CASE Swap(r)
  <2>1. CASE value[p] = Old(call[r].kind) /\ Swapped(r)
    BY <1>0, <1>1, <1>3, <2>1, SwappedRefines DEF Swap
  <2>2. CASE NotSwapped(r)
    BY <1>2, <2>2 DEF NotSwapped
  <2> QED
    BY <1>0, <1>3, <2>1, <2>2 DEF Swap
<1>4. CASE EmulatedCompare(r)
  BY <1>2, <1>4 DEF EmulatedCompare, NotSwapped
<1>5. CASE EmulatedApply(r)
  <2>1. CASE At(r, "apply") /\ Swapped(r)
    <3>1. call[r] # NoCall /\ call[r].at = "apply" /\ p \in Path /\ call[r].kind \in Kind
      BY <1>0, <2>1, AtFacts DEF Command
    <3>2. value[p] = Old(call[r].kind)
      BY <1>0, <3>1 DEF Exact, CasOK, In
    <3> QED
      BY <1>0, <1>1, <2>1, <3>2, SwappedRefines
  <2>2. CASE NotSwapped(r)
    BY <1>2, <2>2 DEF NotSwapped
  <2> QED
    BY <1>5, <2>1, <2>2 DEF EmulatedApply
<1> QED
  BY <1>3, <1>4, <1>5

\* A lock is given back: the request forgets it, and then changes the key.
LEMMA ReleaseOnly ==
    ASSUME TypeOK, NEW r \in Request, NEW p \in Path, ReleaseShared(r, p) \/ ReleaseExclusive(r, p)
    PROVE  /\ Only(r, p) /\ Live(r) /\ mode' = mode
           /\ ReleaseShared(r, p) =>
                 /\ shared[r][p] > 0 /\ shared'[r][p] = shared[r][p] - 1 /\ exclusive' = exclusive
           /\ ReleaseExclusive(r, p) =>
                 p \in exclusive[r] /\ p \notin exclusive'[r] /\ shared' = shared
<1>1. /\ Live(r) /\ mode' = mode /\ call[r] = NoCall /\ UNCHANGED cache
      /\ \E kind \in Kind, command \in Command \ {"none"} : Begin(r, p, kind, command)
  BY DEF ReleaseShared, ReleaseExclusive, MayRelease, Kind, Command
<1>2. call'[r].path = p /\ \A q \in Request : q # r => call'[q] = call[q]
  BY <1>1, BeginFacts
<1>3. ReleaseShared(r, p) =>
          /\ shared[r][p] > 0 /\ shared' = [shared EXCEPT ![r][p] = shared[r][p] - 1]
          /\ exclusive' = exclusive
  BY DEF ReleaseShared
<1>4. ReleaseExclusive(r, p) =>
          /\ p \in exclusive[r] /\ exclusive' = [exclusive EXCEPT ![r] = exclusive[r] \ {p}]
          /\ shared' = shared
  BY DEF ReleaseExclusive
<1>5. Only(r, p)
  BY <1>1, <1>2, <1>3, <1>4 DEF Only, TypeOK, cache
<1> QED
  BY <1>1, <1>3, <1>4, <1>5 DEF TypeOK

\* releaseLock(p, LOCK_SHARED): only the last release of a nested lock shows.
LEMMA UnshareRefines ==
    ASSUME TypeOK, NEW r \in Request, NEW p \in Path, ReleaseShared(r, p)
    PROVE  Abstract!Unshare(r, p) \/ UNCHANGED Abstract!vars
<1>1. /\ Only(r, p) /\ Live(r) /\ mode' = mode
      /\ shared[r][p] > 0 /\ shared'[r][p] = shared[r][p] - 1 /\ exclusive' = exclusive
      /\ shared[r][p] \in Int
  BY ReleaseOnly, StateType
<1>2. CASE shared'[r][p] > 0
  BY <1>1, <1>2, SameRoles
<1>3. CASE ~(shared'[r][p] > 0)
  <2>1. r \in Readers(p) /\ Readers(p)' = Readers(p) \ {r} /\ Writers(p)' = Writers(p)
    BY <1>1, <1>3, RolesMove DEF Readers, Writers
  <2>2. ReadersBar' = [ReadersBar EXCEPT ![p] = Readers(p) \ {r}] /\ WritersBar' = WritersBar
    BY <1>1, <2>1, RolesMove DEF WritersBar
  <2> QED
    BY <2>1, <2>2 DEF Abstract!Unshare, ReadersBar, WritersBar
<1> QED
  BY <1>2, <1>3

\* releaseLock(p, LOCK_EXCLUSIVE)
LEMMA UnclaimRefines ==
    ASSUME IsFiniteSet(Request), TypeOK, Exact, NEW r \in Request, NEW p \in Path,
           ReleaseExclusive(r, p)
    PROVE  Abstract!Unclaim(r, p)
<1>1. /\ Only(r, p) /\ Live(r) /\ mode' = mode
      /\ p \in exclusive[r] /\ p \notin exclusive'[r] /\ shared' = shared
  BY ReleaseOnly
<1>2. ExactAt(p) /\ Owns(r, p)
  BY <1>1 DEF Exact, Owns
<1>3. Writers(p) = {r}
  BY <1>1, <1>2, RolesOfKey
<1>4. Readers(p)' = Readers(p) /\ Writers(p)' = {}
  BY <1>1, <1>3, RolesMove DEF Readers
<1>5. ReadersBar' = ReadersBar /\ WritersBar' = [WritersBar EXCEPT ![p] = {}]
  BY <1>1, <1>4, RolesMove DEF ReadersBar
<1> QED
  BY <1>3, <1>5 DEF Abstract!Unclaim, ReadersBar, WritersBar

\* A request starts with nothing and ends with nothing; it is killed with
\* everything it holds.
LEMMA LifeRefines ==
    ASSUME TypeOK, CallsOK, NEW r \in Request, Start(r) \/ BeginClose(r) \/ Close(r) \/ Crash(r)
    PROVE  Abstract!Vanish(r) \/ UNCHANGED Abstract!vars
<1>1. UNCHANGED <<shared, exclusive>>
  BY DEF Start, BeginClose, Close, Crash, memory
<1>2. PICK m \in {"idle", "running", "closing", "crashed"} : mode' = [mode EXCEPT ![r] = m]
  BY DEF Start, BeginClose, Close, Crash
<1>3. \A q \in Request : q # r => (Live(q)' <=> Live(q))
  BY <1>2 DEF Live, TypeOK
<1>4. CASE Start(r) \/ Close(r)
  <2>1. exclusive[r] = {} /\ \A t \in Path : ~(shared[r][t] > 0)
    <3>1. exclusive[r] = {} /\ \A t \in Path : shared[r][t] = 0
      BY <1>4 DEF Start, Close, CallsOK, MemoryOK, NoSharedLeft
    <3> QED
      BY <3>1
  <2>2. \A t \in Path : Readers(t)' = Readers(t) /\ Writers(t)' = Writers(t)
    BY <1>1, <1>3, <2>1 DEF Readers, Writers
  <2> QED
    BY <2>2, BarStays
<1>5. CASE BeginClose(r)
  <2>1. Live(r)' <=> Live(r)
    BY <1>5 DEF BeginClose, Ready, Live, TypeOK
  <2>2. \A t \in Path : Readers(t)' = Readers(t) /\ Writers(t)' = Writers(t)
    BY <1>1, <1>3, <2>1 DEF Readers, Writers
  <2> QED
    BY <2>2, BarStays
<1>6. CASE Crash(r)
  <2>1. ~Live(r)'
    BY <1>6 DEF Crash, Live, TypeOK
  <2>2. \A t \in Path : Readers(t)' = Readers(t) \ {r} /\ Writers(t)' = Writers(t) \ {r}
    BY <1>1, <1>3, <2>1 DEF Readers, Writers
  <2> QED
    BY <2>2 DEF Abstract!Vanish
<1> QED
  BY <1>4, <1>5, <1>6

\* Initially nobody holds anything.
LEMMA InitRefines == Init => Abstract!Init
<1> SUFFICES ASSUME Init PROVE Abstract!Init
  OBVIOUS
<1>1. \A p \in Path : Readers(p) = {} /\ Writers(p) = {}
  BY DEF Init, Readers, Writers, Live
<1> QED
  BY <1>1 DEF Abstract!Init

\* Every step of the provider is a step of the lock, or invisible.
LEMMA NextRefines ==
    ASSUME Assumptions, TypeOK, TypeOK', CallsOK, Exact, Exact', [Next]_vars
    PROVE  [Abstract!Next]_Abstract!vars
<1>1. ASSUME NEW r \in Request, NEW p \in Path,
             \/ Abstract!Share(r, p)
             \/ Abstract!Claim(r, p)
             \/ Abstract!Downgrade(r, p)
             \/ Abstract!Unshare(r, p)
             \/ Abstract!Unclaim(r, p)
      PROVE  Abstract!Next
  BY <1>1 DEF Abstract!Next
<1>2. ASSUME NEW r \in Request, Abstract!Vanish(r)
      PROVE  Abstract!Next
  BY <1>2 DEF Abstract!Next
<1>3. CASE UNCHANGED <<mode, shared, exclusive>>
  BY <1>3, Unseen
<1>4. ASSUME NEW r \in Request, NEW p \in Path,
             \/ AcquireShared(r, p)
             \/ AcquireExclusive(r, p)
             \/ ChangeToShared(r, p)
             \/ ChangeToExclusive(r, p)
      PROVE  [Abstract!Next]_Abstract!vars
  BY <1>3, <1>4 DEF AcquireShared, AcquireExclusive, ChangeToShared, ChangeToExclusive, memory
<1>5. ASSUME NEW r \in Request, NEW p \in Path, ReleaseShared(r, p) \/ ReleaseExclusive(r, p)
      PROVE  [Abstract!Next]_Abstract!vars
  BY <1>1, <1>5, UnshareRefines, UnclaimRefines DEF Assumptions
<1>6. ASSUME NEW r \in Request, Inc(r)
      PROVE  [Abstract!Next]_Abstract!vars
  BY <1>1, <1>6, IncRefines
<1>7. ASSUME NEW r \in Request, Swap(r) \/ EmulatedCompare(r) \/ EmulatedApply(r)
      PROVE  [Abstract!Next]_Abstract!vars
  BY <1>1, <1>7, CasRefines
<1>8. ASSUME NEW r \in Request, Start(r) \/ BeginClose(r) \/ Close(r) \/ Crash(r)
      PROVE  [Abstract!Next]_Abstract!vars
  BY <1>2, <1>8, LifeRefines
<1>9. ASSUME NEW r \in Request,
             \/ Add(r)
             \/ SetTTL(r)
             \/ Dec(r)
             \/ Reset(r)
             \/ Get(r)
             \/ GetTTL(r)
             \/ CompareSetTTL(r)
      PROVE  [Abstract!Next]_Abstract!vars
  BY <1>3, <1>9 DEF Add, SetTTL, Dec, Reset, Get, GetTTL, CompareSetTTL, memory
<1>10. CASE Tick \/ UNCHANGED vars
  BY <1>3, <1>10 DEF Tick, vars, memory
<1> QED
  BY <1>4, <1>5, <1>6, <1>7, <1>8, <1>9, <1>10 DEF Next

\* MemcacheLockingProvider implements ILockingProvider where no lock expires
\* under the request that holds it: one readers-writer lock per path could have
\* told the requests the same, although every call is a sequence of commands
\* and the key does not say who holds it.
THEOREM Refinement ==
    ASSUME Assumptions
    PROVE  Spec => ImplementsFileLock
<1>1. TypeOK /\ TypeOK' /\ CallsOK /\ Exact /\ Exact' /\ [Next]_vars => [Abstract!Next]_Abstract!vars
  BY NextRefines
<1> QED
  BY InitRefines, <1>1, Typing, Exactness, PTL DEF Spec, ImplementsFileLock, Abstract!Spec
=============================================================================
