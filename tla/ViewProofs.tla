----------------------------- MODULE ViewProofs -----------------------------
(***************************************************************************)
(* Proofs about View, for any tree of files, any mounts and any number of  *)
(* requests: while a request works on a file, it holds every lock from the *)
(* file up to the root, so that no other one can claim a folder above it.  *)
(*                                                                         *)
(* A request may need a lock several times: for files it has open, and for *)
(* the files of the operation it is in.  Each need is an element of        *)
(* Sharers or of Claimers; a step adds one when it takes a lock, and takes *)
(* one away when it gives a lock back.  A lock is held at least as often   *)
(* as it is needed: it may be held more often, when an exception left an   *)
(* operation without giving back what it took.                             *)
(*                                                                         *)
(* Spare is the converse, for a request that no exception left unguarded:  *)
(* it holds no lock more often than it needs it, so that it has given      *)
(* everything back when it is done.                                        *)
(***************************************************************************)
EXTENDS View, FiniteSetTheorems, SequenceTheorems, TLAPS

\* A request with an open file does not rename: rename gives back what it did
\* not get, and with it the locks of the open file (see the README).
Assumptions == IsFiniteSet(Operation) /\ "rename" \notin BesideHandle

\* The files of an operation, counted from the last one it locks.
FileCount(o) == IF o.kind \in {"rename", "copy"} THEN 2 ELSE 1

PathAt(o, j) ==
    IF (o.kind = "rename" /\ j = 1) \/ (o.kind = "copy" /\ j = 2) THEN o.target ELSE o.source

KeysAt(o, j) == LockKeys(o.kind, PathAt(o, j))
OwnKeyAt(o, j) == OwnKey(o.kind, PathAt(o, j))

\* The files an operation changes.
ClaimsFile(o, j) ==
    \/ o.kind = "rename"
    \/ o.kind = "copy" /\ j = 2
    \/ o.kind \notin {"rename", "copy", "read", "openRead"}

\* An operation o in phase p, with the files q and the locks left still to be done,
\* holds the lock k exclusively for its file j.
ClaimsAt(o, p, q, left, j, k) ==
    /\ p # "idle" /\ j \in 1..FileCount(o) /\ k = OwnKeyAt(o, j)
    /\ \/ p \in {"work", "back"} /\ ClaimsFile(o, j)
       \/ p = "claim" /\ o.kind = "rename" /\ j = 2 /\ Len(q) = 1
       \/ p = "unlock" /\ j = Len(q) /\ Head(q).type = "exclusive" /\ k \in left

\* It holds the lock k shared for its file j.
SharesAt(o, p, q, left, j, k) ==
    /\ p # "idle" /\ j \in 1..FileCount(o) /\ k \in KeysAt(o, j)
    /\ ~ClaimsAt(o, p, q, left, j, k)
    /\ p = "lock" => j > Len(q) \/ (j = Len(q) /\ k \notin left)
    /\ p = "unlock" => j < Len(q) \/ (j = Len(q) /\ k \in left)

\* A request needs k exclusively, or shared, for the file j of an operation o: of
\* the one it is in, or of one that left the file open.
ClaimsFor(r, o, j, k) ==
    \/ o \in handles[r] /\ j = 1 /\ o.kind = "openWrite" /\ k = OwnKeyAt(o, 1)
    \/ o = op[r] /\ ClaimsAt(o, pc[r], queue[r], todo[r], j, k)

SharesFor(r, o, j, k) ==
    \/ o \in handles[r] /\ j = 1 /\ k \in KeysAt(o, 1) /\ ~(o.kind = "openWrite" /\ k = OwnKeyAt(o, 1))
    \/ o = op[r] /\ SharesAt(o, pc[r], queue[r], todo[r], j, k)

Needs == Operation \X {1, 2}
Claimers(r, k) == {n \in Needs : ClaimsFor(r, n[1], n[2], k)}
Sharers(r, k) == {n \in Needs : SharesFor(r, n[1], n[2], k)}

\* Nothing else needs a lock that is held exclusively, and the others are held
\* as often as they are needed.
EnoughOf(r, k) ==
    /\ Cardinality(Sharers(r, k)) <= shared[r][k]
    /\ \A n \in Claimers(r, k) : writer[k] = {r} /\ Sharers(r, k) = {} /\ Claimers(r, k) = {n}

\* What rename gives back is not among it.
Exempt(o, p) == p \in {"back", "posthooks", "unlock"} /\ o.kind = "rename"

\* The locks are those of one writer or of readers, and the requests know theirs.
LocksOK ==
    /\ \A k \in Path : writer[k] # {} => readers[k] = {} /\ \E r \in Request : writer[k] = {r}
    /\ \A r \in Request, k \in Path : r \in readers[k] <=> shared[r][k] > 0

\* The files q are the last ones of the operation.
Rest(o, q) ==
    /\ Len(q) \in 1..FileCount(o)
    /\ \A i \in 1..Len(q) : q[i].path = PathAt(o, Len(q) + 1 - i)

\* What remains to be done is a part of the operation.
Shape(o, p, q, left) ==
    /\ p \in {"lock", "unlock"} => Rest(o, q) /\ left \subseteq KeysAt(o, Len(q))
    /\ p = "unlock" /\ Len(q) = 2 => q[2].type = "shared"
    /\ p \in {"claim", "back"} =>
          IF o.kind = "rename" THEN Rest(o, q)
          ELSE Len(q) = 1 /\ \E j \in 1..FileCount(o) : ClaimsFile(o, j) /\ q[1].path = PathAt(o, j)

HandlesOK(r) ==
    /\ \A o \in handles[r] : o.kind \in {"openRead", "openWrite"}
    /\ pc[r] # "idle" => op[r] \notin handles[r] /\ (op[r].kind = "rename" => handles[r] = {})

RequestOK(r) ==
    /\ Shape(op[r], pc[r], queue[r], todo[r])
    /\ HandlesOK(r)
    /\ ~Exempt(op[r], pc[r]) => \A k \in Path : EnoughOf(r, k)

IInv == TypeOK /\ LocksOK /\ \A r \in Request : RequestOK(r)

-----------------------------------------------------------------------------
(***************************************************************************)
(* The locks of a path.                                                    *)
(***************************************************************************)
LEMMA OperationType ==
    ASSUME NEW o \in Operation, NEW j
    PROVE  /\ o.kind \in Kind /\ o.source \in Path /\ o.target \in Path
           /\ PathAt(o, j) \in Path
  BY OperationAssumption DEF PathAt

LEMMA KeysType ==
    ASSUME NEW kind, NEW p \in Path
    PROVE  /\ OwnKey(kind, p) \in Path
           /\ LockKeys(kind, p) \subseteq Path
           /\ OwnKey(kind, p) \in LockKeys(kind, p)
  BY TreeAssumption, MountAssumption DEF LockKeys, OwnKey, OwnerFolders

\* From the node of a path up to the root, every folder is locked.
LEMMA LocksUp ==
    ASSUME NEW kind, NEW p \in Path
    PROVE  UpTo(OwnKey(kind, p)) \subseteq LockKeys(kind, p)
<1> DEFINE K == OwnKey(kind, p)
<1> SUFFICES ASSUME NEW a \in Parents[K] PROVE a \in LockKeys(kind, p)
  BY KeysType DEF UpTo
<1>0. /\ K \in Path /\ Parents[p] \subseteq Path /\ Parents[K] \subseteq Path
      /\ K = p \/ K = Node[p]
  BY KeysType, TreeAssumption DEF OwnKey
<1>1. \A q \in Parents[p] : Node[q] \in LockKeys(kind, p) /\ OwnerFolders(q) \subseteq LockKeys(kind, p)
  BY DEF LockKeys
<1>2. CASE UpTo(p) \cap Mount = {}
  <2>1. K = p
    BY <1>0, <1>2, MountAssumption
  <2>2. a \in Path /\ a \in Parents[p] /\ Parents[a] \subseteq Parents[p]
    BY <2>1, <1>0, TreeAssumption
  <2>3. UpTo(a) \cap Mount = {}
    BY <1>2, <2>2 DEF UpTo
  <2>4. Node[a] = a
    BY <2>3, <2>2, MountAssumption
  <2> QED
    BY <1>1, <2>2, <2>4
<1>3. CASE UpTo(p) \cap Mount # {}
  <2>1. PICK m \in Mount : m \in UpTo(p)
    BY <1>3
  <2>2. m \in Path /\ Source[m] \in Path
    BY MountAssumption
  <2>3. Parents[Node[p]] = Parents[Source[m]] \cup {Node[q] : q \in {c \in Parents[p] : m \in UpTo(c)}}
    BY <2>1, MountAssumption
  <2>4. CASE K = Node[p]
    <3>1. CASE a \in Parents[Source[m]]
      <4>1. a \in OwnerFolders(m)
        BY <3>1 DEF OwnerFolders
      <4>2. CASE m \in Parents[p]
        BY <4>1, <4>2, <1>1
      <4>3. CASE m = p
        <5>1. Node[p] = Source[p]
          BY <4>3, MountAssumption
        <5>2. Source[p] # p
          BY <4>3, MountAssumption, <2>2 DEF UpTo
        <5>3. K # p
          BY <2>4, <5>1, <5>2
        <5> QED
          BY <5>3, <4>1, <4>3 DEF LockKeys
      <4> QED
        BY <4>2, <4>3, <2>1 DEF UpTo
    <3>2. CASE a \in {Node[q] : q \in {c \in Parents[p] : m \in UpTo(c)}}
      BY <3>2, <1>1
    <3> QED
      BY <3>1, <3>2, <2>3, <2>4
  <2>5. CASE K # Node[p]
    <3>1. K = p /\ p \in Mount
      BY <2>5, <1>0 DEF OwnKey
    <3>2. Parents[p] \cap Mount = {}
      BY <3>1, MountAssumption
    <3>3. a \in Path /\ a \in Parents[p] /\ Parents[a] \subseteq Parents[p]
      BY <3>1, <1>0, TreeAssumption
    <3>4. UpTo(a) \cap Mount = {}
      BY <3>2, <3>3 DEF UpTo
    <3>5. Node[a] = a
      BY <3>4, <3>3, MountAssumption
    <3> QED
      BY <1>1, <3>3, <3>5
  <2> QED
    BY <2>4, <2>5
<1> QED
  BY <1>2, <1>3

LEMMA CountType ==
    ASSUME NEW o \in Operation
    PROVE  FileCount(o) \in {1, 2}
  BY DEF FileCount

\* Files lists every file of the operation, with a shared lock.
LEMMA FilesShape ==
    ASSUME NEW o \in Operation
    PROVE  /\ Files(o) \in Seq(File) /\ Files(o) # <<>> /\ Len(Files(o)) = FileCount(o)
           /\ Rest(o, Files(o))
           /\ \A i \in 1..Len(Files(o)) : Files(o)[i].type = "shared"
<1> USE OperationType DEF File, Shared, FileCount, PathAt, Rest
<1>1. CASE o.kind = "rename"
  <2>1. Files(o) = <<Shared(o.source), Shared(o.target)>>
    BY <1>1 DEF Files
  <2> QED
    BY <1>1, <2>1
<1>2. CASE o.kind = "copy"
  <2>1. Files(o) = <<Shared(o.target), Shared(o.source)>>
    BY <1>2 DEF Files
  <2> QED
    BY <1>2, <2>1
<1>3. CASE o.kind \notin {"rename", "copy"}
  <2>1. Files(o) = <<Shared(o.source)>>
    BY <1>3 DEF Files
  <2> QED
    BY <1>3, <2>1
<1> QED
  BY <1>1, <1>2, <1>3

\* Claims lists the files that it changes, if any.
LEMMA ClaimsShape ==
    ASSUME NEW o \in Operation
    PROVE  /\ Claims(o) \in Seq(File)
           /\ Claims(o) = <<>> <=> o.kind \in {"read", "openRead"}
           /\ o.kind = "rename" => Claims(o) = Files(o)
           /\ Claims(o) # <<>> /\ o.kind # "rename" =>
                 /\ Len(Claims(o)) = 1
                 /\ \E j \in 1..FileCount(o) : ClaimsFile(o, j) /\ Claims(o)[1].path = PathAt(o, j)
<1> USE OperationType DEF File, Shared, FileCount, PathAt, ClaimsFile
<1>1. CASE o.kind = "rename"
  <2>1. Claims(o) = <<Shared(o.source), Shared(o.target)>> /\ Claims(o) = Files(o)
    BY <1>1 DEF Claims, Files
  <2> QED
    BY <1>1, <2>1
<1>2. CASE o.kind = "copy"
  <2>1. Claims(o) = <<Shared(o.target)>>
    BY <1>2 DEF Claims
  <2>2. 2 \in 1..FileCount(o) /\ ClaimsFile(o, 2) /\ Claims(o)[1].path = PathAt(o, 2)
    BY <1>2, <2>1
  <2> QED
    BY <1>2, <2>1, <2>2
<1>3. CASE o.kind \in {"read", "openRead"}
  <2>1. Claims(o) = <<>>
    BY <1>3 DEF Claims
  <2> QED
    BY <1>3, <2>1
<1>4. CASE o.kind \notin {"rename", "copy", "read", "openRead"}
  <2>1. Claims(o) = <<Shared(o.source)>>
    BY <1>4 DEF Claims
  <2>2. 1 \in 1..FileCount(o) /\ ClaimsFile(o, 1) /\ Claims(o)[1].path = PathAt(o, 1)
    BY <1>4, <2>1
  <2> QED
    BY <1>4, <2>1, <2>2
<1> QED
  BY <1>1, <1>2, <1>3, <1>4

\* The next file of an operation.
LEMMA RestTail ==
    ASSUME NEW o \in Operation, NEW q \in Seq(File), Rest(o, q)
    PROVE  /\ Head(q) = q[1] /\ Head(q).path = PathAt(o, Len(q))
           /\ Len(q) > 1 => /\ Len(q) = 2 /\ Tail(q) \in Seq(File) /\ Tail(q) # <<>>
                            /\ Len(Tail(q)) = 1 /\ Rest(o, Tail(q)) /\ Head(Tail(q)) = q[2]
                            /\ Head(Tail(q)).path = PathAt(o, 1)
           /\ Len(q) = 1 => Tail(q) = <<>>
<1>0. /\ FileCount(o) \in {1, 2} /\ Len(q) \in 1..FileCount(o)
      /\ \A i \in 1..Len(q) : q[i].path = PathAt(o, Len(q) + 1 - i)
  BY CountType DEF Rest
<1>e. Len(<<>>) = 0 /\ \A u \in Seq(File) : u # <<>> => Len(u) \in Nat \ {0}
  BY EmptySeq, Zenon
<1>1. Len(q) \in {1, 2} /\ q # <<>>
  <2>0. Len(q) \in 1..1 \/ Len(q) \in 1..2
    BY <1>0, Zenon
  <2>1. Len(q) \in {1, 2}
    BY <2>0
  <2> QED
    BY <2>1, <1>e
<1>2. Head(q) = q[1] /\ Head(q).path = PathAt(o, Len(q))
  BY <1>0, <1>1
<1>h. Tail(q) \in Seq(File) /\ Len(Tail(q)) = Len(q) - 1 /\ \A i \in 1..Len(Tail(q)) : Tail(q)[i] = q[i + 1]
  BY <1>1, HeadTailProperties
<1>3. ASSUME Len(q) > 1
      PROVE  /\ Len(q) = 2 /\ Tail(q) \in Seq(File) /\ Tail(q) # <<>>
             /\ Len(Tail(q)) = 1 /\ Head(Tail(q)) = q[2] /\ Tail(q)[1] = q[2]
             /\ q[2].path = PathAt(o, 1)
  <2>1. Len(q) = 2 /\ Len(Tail(q)) = 1 /\ Tail(q)[1] = q[2]
    BY <1>1, <1>h, <1>3
  <2>2. Tail(q) # <<>> /\ Head(Tail(q)) = Tail(q)[1]
    <3>1. Tail(q) # <<>>
      <4>1. ASSUME Tail(q) = <<>> PROVE FALSE
        <5>1. Len(Tail(q)) = 0
          BY <4>1, <1>e, Zenon
        <5> QED
          BY <5>1, <2>1
      <4> QED
        BY <4>1
    <3> QED
      BY <3>1, <1>h
  <2>3. q[2].path = PathAt(o, 1)
    BY <2>1, <1>0
  <2> QED
    BY <2>1, <2>2, <2>3, <1>h
<1>4. ASSUME Len(q) > 1
      PROVE  Rest(o, Tail(q))
  BY <1>0, <1>3, <1>4 DEF Rest
<1>5. ASSUME Len(q) = 1
      PROVE  Tail(q) = <<>>
  <2>1. Len(Tail(q)) = 0
    BY <1>h, <1>5
  <2> QED
    BY <2>1, <1>h, <1>e
<1> QED
  BY <1>2, <1>3, <1>4, <1>5

-----------------------------------------------------------------------------
(***************************************************************************)
(* Enough of each lock, when a step adds or takes away a need.             *)
(***************************************************************************)
LEMMA NeedsFinite ==
    ASSUME IsFiniteSet(Operation), NEW N, N \subseteq Needs
    PROVE  IsFiniteSet(N) /\ Cardinality(N) \in Nat
<1>1. IsFiniteSet({1, 2})
  <2>0. 1 \in Int /\ 2 \in Int
    OBVIOUS
  <2>1. IsFiniteSet(1..2)
    BY <2>0, FS_Interval, Zenon
  <2>2. 1..2 = {1, 2}
    OBVIOUS
  <2> QED
    BY <2>1, <2>2
<1>2. IsFiniteSet(Needs)
  BY <1>1, FS_Product DEF Needs
<1> QED
  BY <1>2, FS_Subset, FS_CardinalityType

LEMMA EnoughKept ==
    ASSUME IsFiniteSet(Operation), NEW r, NEW k, EnoughOf(r, k), shared[r][k] \in Nat,
           shared'[r][k] = shared[r][k],
           writer[k] = {r} => writer'[k] = {r},
           \A o \in Operation, j \in {1, 2} : SharesFor(r, o, j, k)' => SharesFor(r, o, j, k),
           \A o \in Operation, j \in {1, 2} : ClaimsFor(r, o, j, k)' => ClaimsFor(r, o, j, k)
    PROVE  EnoughOf(r, k)'
<1>1. Sharers(r, k)' \subseteq Sharers(r, k) /\ Sharers(r, k) \subseteq Needs
  BY DEF Sharers, Needs
<1>2. Claimers(r, k)' \subseteq Claimers(r, k)
  BY DEF Claimers, Needs
<1>3. Cardinality(Sharers(r, k)') <= Cardinality(Sharers(r, k))
  BY <1>1, NeedsFinite, FS_Subset
<1>4. Cardinality(Sharers(r, k)') \in Nat /\ Cardinality(Sharers(r, k)) \in Nat
  BY <1>1, NeedsFinite
<1>5. Cardinality(Sharers(r, k)') <= shared'[r][k]
  BY <1>3, <1>4 DEF EnoughOf
<1>6. ASSUME NEW n \in Claimers(r, k)'
      PROVE  writer'[k] = {r} /\ Sharers(r, k)' = {} /\ Claimers(r, k)' = {n}
  BY <1>1, <1>2, <1>6 DEF EnoughOf
<1> QED
  BY <1>5, <1>6 DEF EnoughOf

LEMMA EnoughShared ==
    ASSUME IsFiniteSet(Operation), NEW r, NEW k, EnoughOf(r, k), shared[r][k] \in Nat,
           NEW a \in Operation, NEW i \in {1, 2},
           shared'[r][k] = shared[r][k] + 1, writer[k] = {},
           \A o \in Operation, j \in {1, 2} :
               SharesFor(r, o, j, k)' => SharesFor(r, o, j, k) \/ (o = a /\ j = i),
           \A o \in Operation, j \in {1, 2} : ClaimsFor(r, o, j, k)' => ClaimsFor(r, o, j, k)
    PROVE  EnoughOf(r, k)'
<1> DEFINE S == Sharers(r, k)
           n == <<a, i>>
<1>1. Sharers(r, k)' \subseteq S \cup {n} /\ S \subseteq Needs /\ n \in Needs
  BY DEF Sharers, Needs
<1>2. Claimers(r, k)' \subseteq Claimers(r, k)
  BY DEF Claimers, Needs
<1>3. Claimers(r, k) = {}
  BY DEF EnoughOf
<1>4. IsFiniteSet(S) /\ Cardinality(S) \in Nat
  BY <1>1, NeedsFinite
<1>5. IsFiniteSet(S \cup {n}) /\ Cardinality(S \cup {n}) <= Cardinality(S) + 1 /\ Cardinality(S \cup {n}) \in Nat
  <2>1. IsFiniteSet(S \cup {n})
    BY <1>4, FS_AddElement, Zenon
  <2>2. Cardinality(S \cup {n}) = IF n \in S THEN Cardinality(S) ELSE Cardinality(S) + 1
    BY <1>4, FS_AddElement, Zenon
  <2> HIDE DEF S, n
  <2> QED
    BY <2>1, <2>2, <1>4
<1>6. Cardinality(Sharers(r, k)') <= Cardinality(S \cup {n}) /\ Cardinality(Sharers(r, k)') \in Nat
  <2>1. IsFiniteSet(Sharers(r, k)') /\ Cardinality(Sharers(r, k)') <= Cardinality(S \cup {n})
    BY <1>1, <1>5, FS_Subset
  <2> QED
    BY <2>1, FS_CardinalityType
<1>7. Cardinality(S) <= shared[r][k]
  BY DEF EnoughOf
<1>8. Cardinality(Sharers(r, k)') <= shared'[r][k]
  <2> HIDE DEF S, n
  <2> QED
    BY <1>4, <1>5, <1>6, <1>7
<1> QED
  BY <1>2, <1>3, <1>8 DEF EnoughOf

LEMMA EnoughClaimed ==
    ASSUME IsFiniteSet(Operation), NEW r, NEW k, EnoughOf(r, k),
           NEW a \in Operation, NEW i \in {1, 2}, SharesFor(r, a, i, k),
           shared[r][k] = 1, writer[k] = {}, shared'[r][k] \in Nat, writer'[k] = {r},
           \A o \in Operation, j \in {1, 2} :
               SharesFor(r, o, j, k)' => SharesFor(r, o, j, k) /\ ~(o = a /\ j = i),
           \A o \in Operation, j \in {1, 2} :
               ClaimsFor(r, o, j, k)' => ClaimsFor(r, o, j, k) \/ (o = a /\ j = i)
    PROVE  EnoughOf(r, k)'
<1> DEFINE S == Sharers(r, k)
           n == <<a, i>>
<1>1. Sharers(r, k)' \subseteq S \ {n} /\ S \subseteq Needs /\ n \in S
  BY DEF Sharers, Needs
<1>2. Claimers(r, k)' \subseteq Claimers(r, k) \cup {n}
  BY DEF Claimers, Needs
<1>3. Claimers(r, k) = {}
  BY DEF EnoughOf
<1>4. IsFiniteSet(S) /\ Cardinality(S) \in Nat /\ Cardinality(S) <= 1
  BY <1>1, NeedsFinite DEF EnoughOf
<1>5. IsFiniteSet(S \ {n}) /\ Cardinality(S \ {n}) = Cardinality(S) - 1
  BY <1>1, <1>4, FS_RemoveElement
<1>6. Cardinality(S \ {n}) = 0
  <2>1. Cardinality(S \ {n}) \in Nat
    BY <1>5, FS_CardinalityType
  <2> HIDE DEF S, n
  <2> QED
    BY <1>4, <1>5, <2>1
<1>7. S \ {n} = {}
  BY <1>5, <1>6, FS_EmptySet
<1>8. Sharers(r, k)' = {} /\ Cardinality(Sharers(r, k)') = 0
  BY <1>1, <1>7, FS_EmptySet
<1> QED
  BY <1>2, <1>3, <1>8 DEF EnoughOf

LEMMA EnoughDowngraded ==
    ASSUME IsFiniteSet(Operation), NEW r, NEW k, EnoughOf(r, k),
           NEW a \in Operation, NEW i \in {1, 2}, ClaimsFor(r, a, i, k),
           shared'[r][k] = 1,
           \A o \in Operation, j \in {1, 2} :
               SharesFor(r, o, j, k)' => SharesFor(r, o, j, k) \/ (o = a /\ j = i),
           \A o \in Operation, j \in {1, 2} :
               ClaimsFor(r, o, j, k)' => ClaimsFor(r, o, j, k) /\ ~(o = a /\ j = i)
    PROVE  EnoughOf(r, k)'
<1> DEFINE n == <<a, i>>
<1>1. Sharers(r, k)' \subseteq Sharers(r, k) \cup {n}
  BY DEF Sharers, Needs
<1>2. Claimers(r, k)' \subseteq Claimers(r, k) \ {n} /\ n \in Claimers(r, k)
  BY DEF Claimers, Needs
<1>3. Sharers(r, k) = {} /\ Claimers(r, k) = {n}
  BY <1>2 DEF EnoughOf
<1>4. Sharers(r, k)' \subseteq {n} /\ Claimers(r, k)' = {}
  BY <1>1, <1>2, <1>3
<1>5. IsFiniteSet({n}) /\ Cardinality({n}) = 1
  BY FS_Singleton
<1>6. Cardinality(Sharers(r, k)') <= 1
  BY <1>4, <1>5, FS_Subset
<1> QED
  BY <1>4, <1>6 DEF EnoughOf

LEMMA EnoughReleased ==
    ASSUME IsFiniteSet(Operation), NEW r, NEW k, EnoughOf(r, k), shared[r][k] \in Nat,
           NEW a \in Operation, NEW i \in {1, 2}, SharesFor(r, a, i, k),
           shared[r][k] > 0 => shared'[r][k] = shared[r][k] - 1,
           \A o \in Operation, j \in {1, 2} :
               SharesFor(r, o, j, k)' => SharesFor(r, o, j, k) /\ ~(o = a /\ j = i),
           \A o \in Operation, j \in {1, 2} : ClaimsFor(r, o, j, k)' => ClaimsFor(r, o, j, k)
    PROVE  EnoughOf(r, k)' /\ shared[r][k] > 0
<1> DEFINE S == Sharers(r, k)
           n == <<a, i>>
<1>1. Sharers(r, k)' \subseteq S \ {n} /\ S \subseteq Needs /\ n \in S
  BY DEF Sharers, Needs
<1>2. Claimers(r, k)' \subseteq Claimers(r, k)
  BY DEF Claimers, Needs
<1>3. Claimers(r, k) = {}
  BY <1>1 DEF EnoughOf
<1>4. IsFiniteSet(S) /\ Cardinality(S) \in Nat /\ Cardinality(S) <= shared[r][k]
  BY <1>1, NeedsFinite DEF EnoughOf
<1>5. IsFiniteSet(S \ {n}) /\ Cardinality(S \ {n}) = Cardinality(S) - 1
  BY <1>1, <1>4, FS_RemoveElement
<1>6. Cardinality(S \ {n}) \in Nat
  BY <1>5, FS_CardinalityType
<1>7. IsFiniteSet(Sharers(r, k)') /\ Cardinality(Sharers(r, k)') <= Cardinality(S \ {n})
  BY <1>1, <1>5, FS_Subset
<1>8. Cardinality(Sharers(r, k)') \in Nat
  BY <1>7, FS_CardinalityType
<1>9. Cardinality(Sharers(r, k)') <= shared'[r][k] /\ shared[r][k] > 0
  <2> HIDE DEF S, n
  <2> QED
    BY <1>4, <1>5, <1>6, <1>7, <1>8
<1> QED
  BY <1>2, <1>3, <1>9 DEF EnoughOf

LEMMA EnoughUnclaimed ==
    ASSUME IsFiniteSet(Operation), NEW r, NEW k, EnoughOf(r, k), shared'[r][k] \in Nat,
           NEW a \in Operation, NEW i \in {1, 2}, ClaimsFor(r, a, i, k),
           \A o \in Operation, j \in {1, 2} : SharesFor(r, o, j, k)' => SharesFor(r, o, j, k),
           \A o \in Operation, j \in {1, 2} :
               ClaimsFor(r, o, j, k)' => ClaimsFor(r, o, j, k) /\ ~(o = a /\ j = i)
    PROVE  EnoughOf(r, k)'
<1> DEFINE n == <<a, i>>
<1>1. Sharers(r, k)' \subseteq Sharers(r, k)
  BY DEF Sharers, Needs
<1>2. Claimers(r, k)' \subseteq Claimers(r, k) \ {n} /\ n \in Claimers(r, k)
  BY DEF Claimers, Needs
<1>3. Sharers(r, k) = {} /\ Claimers(r, k) = {n}
  BY <1>2 DEF EnoughOf
<1>4. Sharers(r, k)' = {} /\ Claimers(r, k)' = {} /\ Cardinality(Sharers(r, k)') = 0
  BY <1>1, <1>2, <1>3, FS_EmptySet
<1> QED
  BY <1>4 DEF EnoughOf

-----------------------------------------------------------------------------
(***************************************************************************)
(* What a step of the request r leaves alone.                              *)
(***************************************************************************)
LockTypes == Lock!TypeOK /\ shared \in [Request -> [Path -> 0..MaxShared]]

\* Only the lock k of r changes.
LocksTo(r, k) ==
    /\ LockTypes' /\ LocksOK'
    /\ \A q \in Request \ {r} : shared'[q] = shared[q]
    /\ \A q \in Request \ {r}, i \in Path : writer[i] = {q} => writer'[i] = {q}
    /\ \A i \in Path \ {k} : shared'[r][i] = shared[r][i] /\ writer'[i] = writer[i]

\* A lock of another request stays what it is, and so does every other lock of r.
LEMMA LocksKept ==
    ASSUME LockTypes, LocksOK, NEW r \in Request, NEW k \in Path,
           \/ Lock!Share(r, k) /\ Count(r, k, shared[r][k] + 1) /\ shared[r][k] < MaxShared
           \/ Lock!Claim(r, k) /\ Count(r, k, 0) /\ shared[r][k] = 1
           \/ Lock!Downgrade(r, k) /\ Count(r, k, shared[r][k] + 1)
           \/ ReleaseShared(r, k)
           \/ ReleaseExclusive(r, k)
    PROVE  LocksTo(r, k)
<1> USE OperationAssumption DEF LocksTo, LockTypes, LocksOK, Lock!TypeOK, Count
<1>0. /\ writer[k] # {} => readers[k] = {} /\ \E q \in Request : writer[k] = {q}
      /\ r \in readers[k] <=> shared[r][k] > 0
      /\ shared[r][k] \in 0..MaxShared /\ MaxShared \in Nat \ {0}
  OBVIOUS
<1>1. ASSUME NEW n \in 0..MaxShared, Count(r, k, n)
      PROVE  /\ shared' \in [Request -> [Path -> 0..MaxShared]] /\ shared'[r][k] = n
             /\ \A q \in Request \ {r} : shared'[q] = shared[q]
             /\ \A i \in Path \ {k} : shared'[r][i] = shared[r][i]
  BY <1>1
<1>2. CASE Lock!Share(r, k) /\ Count(r, k, shared[r][k] + 1) /\ shared[r][k] < MaxShared
  <2>1. shared[r][k] + 1 \in 0..MaxShared /\ shared[r][k] + 1 > 0
    BY <1>0, <1>2
  <2>2. writer' = writer /\ readers' = [readers EXCEPT ![k] = @ \cup {r}] /\ writer[k] = {}
    BY <1>2 DEF Lock!Share
  <2> QED
    BY <1>1, <1>2, <2>1, <2>2
<1>3. CASE Lock!Claim(r, k) /\ Count(r, k, 0) /\ shared[r][k] = 1
  <2>1. 0 \in 0..MaxShared /\ ~(0 > 0)
    BY <1>0
  <2>2. /\ writer' = [writer EXCEPT ![k] = {r}] /\ readers' = [readers EXCEPT ![k] = {}]
        /\ writer[k] = {} /\ readers[k] \subseteq {r}
    BY <1>3 DEF Lock!Claim
  <2>3. /\ shared' \in [Request -> [Path -> 0..MaxShared]] /\ shared'[r][k] = 0
        /\ \A q \in Request \ {r} : shared'[q] = shared[q]
        /\ \A i \in Path \ {k} : shared'[r][i] = shared[r][i]
    BY <1>1, <1>3, <2>1
  <2>4. \A q \in Request : ~(shared'[q][k] > 0)
    BY <2>2, <2>3
  <2>5. LockTypes'
    BY <2>2, <2>3
  <2>6. /\ readers'[k] = {} /\ writer'[k] = {r}
        /\ \A i \in Path \ {k} : readers'[i] = readers[i] /\ writer'[i] = writer[i]
    BY <2>2
  <2>7. ASSUME NEW i \in Path
        PROVE  writer'[i] # {} => readers'[i] = {} /\ \E q \in Request : writer'[i] = {q}
    <3>1. CASE i = k
      BY <2>6, <3>1
    <3>2. CASE i # k
      <4>1. readers'[i] = readers[i] /\ writer'[i] = writer[i]
        BY <2>6, <3>2
      <4>2. writer[i] # {} => readers[i] = {} /\ \E q \in Request : writer[i] = {q}
        OBVIOUS
      <4> QED
        BY <4>1, <4>2
    <3> QED
      BY <3>1, <3>2
  <2>8. ASSUME NEW q \in Request, NEW i \in Path
        PROVE  q \in readers'[i] <=> shared'[q][i] > 0
    BY <2>3, <2>4, <2>6
  <2>9. \A q \in Request : writer[k] # {q}
    BY <2>2
  <2> QED
    BY <2>3, <2>5, <2>6, <2>7, <2>8, <2>9
<1>4. CASE Lock!Downgrade(r, k) /\ Count(r, k, shared[r][k] + 1)
  <2>1. /\ writer' = [writer EXCEPT ![k] = {}] /\ readers' = [readers EXCEPT ![k] = {r}]
        /\ writer[k] = {r} /\ readers[k] = {}
    BY <1>4, <1>0 DEF Lock!Downgrade
  <2>2. shared[r][k] + 1 \in 0..MaxShared /\ shared[r][k] + 1 > 0
    BY <1>0, <2>1
  <2>3. \A q \in Request \ {r} : ~(shared[q][k] > 0) /\ writer[k] # {q}
    BY <2>1
  <2> QED
    BY <1>1, <1>4, <2>1, <2>2, <2>3
<1>5. CASE ReleaseShared(r, k)
  <2> DEFINE n == IF shared[r][k] > 0 THEN shared[r][k] - 1 ELSE 0
  <2>1. n \in 0..MaxShared /\ (shared[r][k] # 1 => (n > 0 <=> shared[r][k] > 0))
    BY <1>0
  <2>2. Count(r, k, n)
    BY <1>5 DEF ReleaseShared
  <2>3. CASE shared[r][k] = 1
    <3>1. writer' = writer /\ readers' = [readers EXCEPT ![k] = @ \ {r}] /\ ~(n > 0)
      BY <1>5, <2>3 DEF ReleaseShared, Lock!Unshare
    <3> HIDE DEF n
    <3>2. /\ shared' \in [Request -> [Path -> 0..MaxShared]] /\ ~(shared'[r][k] > 0)
          /\ \A q \in Request \ {r} : shared'[q] = shared[q]
          /\ \A i \in Path \ {k} : shared'[r][i] = shared[r][i]
      BY <1>1, <2>1, <2>2, <3>1
    <3>3. LockTypes' /\ writer' = writer
      BY <3>1, <3>2
    <3>4. \A i \in Path \ {k} : readers'[i] = readers[i]
      BY <3>1
    <3>5. \A q \in Request : q \in readers'[k] <=> q \in readers[k] /\ q # r
      BY <3>1
    <3>6. writer[k] = {}
      BY <1>0, <2>3
    <3>7. ASSUME NEW q \in Request, NEW i \in Path
          PROVE  q \in readers'[i] <=> shared'[q][i] > 0
      BY <3>2, <3>4, <3>5
    <3>8. ASSUME NEW i \in Path, writer'[i] # {}
          PROVE  readers'[i] = {} /\ \E q \in Request : writer'[i] = {q}
      BY <3>3, <3>4, <3>6, <3>8
    <3> QED
      BY <3>2, <3>3, <3>7, <3>8
  <2>4. CASE shared[r][k] # 1
    <3>1. writer' = writer /\ readers' = readers
      BY <1>5, <2>4 DEF ReleaseShared
    <3> HIDE DEF n
    <3>2. /\ shared' \in [Request -> [Path -> 0..MaxShared]] /\ shared'[r][k] = n
          /\ \A q \in Request \ {r} : shared'[q] = shared[q]
          /\ \A i \in Path \ {k} : shared'[r][i] = shared[r][i]
      BY <1>1, <2>1, <2>2
    <3>3. LockTypes'
      BY <3>1, <3>2
    <3>4. ASSUME NEW q \in Request, NEW i \in Path
          PROVE  shared'[q][i] > 0 <=> shared[q][i] > 0
      BY <2>1, <2>4, <3>2
    <3>5. LocksOK'
      BY <3>1, <3>4
    <3> QED
      BY <3>1, <3>2, <3>3, <3>5
  <2> QED
    BY <2>3, <2>4
<1>6. CASE ReleaseExclusive(r, k)
  <2>1. shared' = shared
    BY <1>6 DEF ReleaseExclusive
  <2>2. CASE writer[k] = {r}
    <3>1. writer' = [writer EXCEPT ![k] = {}] /\ readers' = readers
      BY <1>6, <2>2 DEF ReleaseExclusive, Lock!Unclaim
    <3>2. LockTypes' /\ writer'[k] = {} /\ \A i \in Path \ {k} : writer'[i] = writer[i]
      BY <2>1, <3>1
    <3>3. LocksOK'
      BY <2>1, <3>1, <3>2
    <3>4. \A q \in Request \ {r} : writer[k] # {q}
      BY <2>2
    <3> QED
      BY <2>1, <3>2, <3>3, <3>4
  <2>3. CASE writer[k] # {r}
    <3>1. writer' = writer /\ readers' = readers
      BY <1>6, <2>3 DEF ReleaseExclusive
    <3> QED
      BY <2>1, <3>1
  <2> QED
    BY <2>2, <2>3
<1> QED
  BY <1>2, <1>3, <1>4, <1>5, <1>6

\* The other requests.
Others(r) ==
    \A q \in Request \ {r} :
        /\ op'[q] = op[q] /\ pc'[q] = pc[q] /\ queue'[q] = queue[q] /\ todo'[q] = todo[q]
        /\ handles'[q] = handles[q] /\ shared'[q] = shared[q]
        /\ \A k \in Path : writer[k] = {q} => writer'[k] = {q}

LEMMA OthersKept ==
    ASSUME IsFiniteSet(Operation), LockTypes, NEW r \in Request, Others(r),
           NEW q \in Request \ {r}, RequestOK(q)
    PROVE  RequestOK(q)'
<1>1. /\ op'[q] = op[q] /\ pc'[q] = pc[q] /\ queue'[q] = queue[q] /\ todo'[q] = todo[q]
      /\ handles'[q] = handles[q] /\ shared'[q] = shared[q]
      /\ \A k \in Path : writer[k] = {q} => writer'[k] = {q}
  BY DEF Others
<1>2. Shape(op[q], pc[q], queue[q], todo[q])' /\ HandlesOK(q)'
  BY <1>1 DEF RequestOK, HandlesOK
<1>3. ASSUME NEW k \in Path, EnoughOf(q, k)
      PROVE  EnoughOf(q, k)'
  <2>1. shared[q][k] \in Nat /\ shared'[q][k] = shared[q][k]
    BY <1>1, OperationAssumption DEF LockTypes
  <2>2. \A o \in Operation, j \in {1, 2} : SharesFor(q, o, j, k)' => SharesFor(q, o, j, k)
    BY <1>1 DEF SharesFor
  <2>3. \A o \in Operation, j \in {1, 2} : ClaimsFor(q, o, j, k)' => ClaimsFor(q, o, j, k)
    BY <1>1 DEF ClaimsFor
  <2> QED
    BY <1>1, <1>3, <2>1, <2>2, <2>3, EnoughKept
<1> QED
  BY <1>1, <1>2, <1>3 DEF RequestOK

LEMMA OneRequest ==
    ASSUME IsFiniteSet(Operation), IInv, NEW r \in Request, Others(r),
           TypeOK', LocksOK', RequestOK(r)'
    PROVE  IInv'
<1>1. LockTypes
  BY DEF IInv, TypeOK, LockTypes
<1>2. ASSUME NEW q \in Request \ {r}
      PROVE  RequestOK(q)'
  BY <1>1, OthersKept DEF IInv
<1> QED
  BY <1>2 DEF IInv

-----------------------------------------------------------------------------
(***************************************************************************)
(* From one phase of an operation to another.                              *)
(***************************************************************************)
Phase == {"idle", "lock", "hooks", "claim", "work", "back", "posthooks", "unlock"}

\* The locks of the first file, to be taken or given back.
LocksOfHead(o, p, q) ==
    IF p \in {"lock", "unlock"} /\ q # <<>> THEN LockKeys(o.kind, Head(q).path) ELSE {}

LEMMA Goes ==
    ASSUME TypeOK, NEW r \in Request, NEW p \in Phase, NEW q \in Seq(File), Goto(r, p, q)
    PROVE  /\ pc' \in [Request -> Phase] /\ queue' \in [Request -> Seq(File)]
           /\ todo' \in [Request -> SUBSET Path]
           /\ pc'[r] = p /\ queue'[r] = q /\ todo'[r] = LocksOfHead(op'[r], p, q)
           /\ \A i \in Request \ {r} : pc'[i] = pc[i] /\ queue'[i] = queue[i] /\ todo'[i] = todo[i]
<1> DEFINE left == LocksOfHead(op'[r], p, q)
<1>1. /\ pc \in [Request -> Phase] /\ queue \in [Request -> Seq(File)]
      /\ todo \in [Request -> SUBSET Path]
  BY DEF TypeOK, Phase
<1>2. left \subseteq Path
  <2>1. CASE q = <<>>
    BY <2>1 DEF LocksOfHead
  <2>2. CASE q # <<>>
    <3>1. Head(q) \in File
      BY <2>2, HeadTailProperties
    <3>2. Head(q).path \in Path
      BY <3>1 DEF File
    <3> QED
      BY <3>2, KeysType DEF LocksOfHead
  <2> QED
    BY <2>1, <2>2
<1>3. /\ pc' = [pc EXCEPT ![r] = p] /\ queue' = [queue EXCEPT ![r] = q]
      /\ todo' = [todo EXCEPT ![r] = left]
  BY DEF Goto, LocksOfHead
<1> HIDE DEF left
<1>4. pc' \in [Request -> Phase] /\ pc'[r] = p /\ \A i \in Request \ {r} : pc'[i] = pc[i]
  BY <1>1, <1>3
<1>5. queue' \in [Request -> Seq(File)] /\ queue'[r] = q /\ \A i \in Request \ {r} : queue'[i] = queue[i]
  BY <1>1, <1>3
<1>6. todo' \in [Request -> SUBSET Path] /\ todo'[r] = left /\ \A i \in Request \ {r} : todo'[i] = todo[i]
  BY <1>1, <1>2, <1>3
<1> QED
  BY <1>4, <1>5, <1>6 DEF left

\* What o needs in phase p2 it already has in phase p1.
NeedsNoMore(o, p1, q1, left1, p2, q2, left2) ==
    \A j \in {1, 2}, k \in Path :
        /\ SharesAt(o, p2, q2, left2, j, k) => SharesAt(o, p1, q1, left1, j, k)
        /\ ClaimsAt(o, p2, q2, left2, j, k) => ClaimsAt(o, p1, q1, left1, j, k)

\* A request that may go on in phase p with the files q.
MayGo(r, p, q) ==
    LET left == LocksOfHead(op[r], p, q)
    IN  /\ Shape(op[r], p, q, left)
        /\ \/ Exempt(op[r], p)
           \/ /\ ~Exempt(op[r], pc[r])
              /\ NeedsNoMore(op[r], pc[r], queue[r], todo[r], p, q, left)

LEMMA ContinueKeeps ==
    ASSUME IsFiniteSet(Operation), IInv, NEW r \in Request, pc[r] # "idle",
           NEW p \in Phase \ {"idle"}, NEW q \in Seq(File), Continue(r, p, q), MayGo(r, p, q),
           UNCHANGED <<locks, handles>>
    PROVE  IInv'
<1> USE DEF IInv
<1> DEFINE left == LocksOfHead(op[r], p, q)
<1>1. /\ op' = op /\ unguarded' = unguarded /\ handles' = handles
      /\ readers' = readers /\ writer' = writer /\ shared' = shared
  BY DEF Continue, locks
<1>2. TypeOK /\ Goto(r, p, q) /\ p \in Phase
  BY DEF Continue
<1>3. /\ pc' \in [Request -> Phase] /\ queue' \in [Request -> Seq(File)]
      /\ todo' \in [Request -> SUBSET Path]
      /\ pc'[r] = p /\ queue'[r] = q /\ todo'[r] = left
      /\ \A i \in Request \ {r} : pc'[i] = pc[i] /\ queue'[i] = queue[i] /\ todo'[i] = todo[i]
  BY <1>1, <1>2, Goes
<1>4. TypeOK'
  BY <1>1, <1>3 DEF TypeOK, Phase, Lock!TypeOK
<1>5. LocksOK' /\ Others(r)
  BY <1>1, <1>3 DEF LocksOK, Others
<1>6. Shape(op[r], pc[r], queue[r], todo[r])'
  BY <1>1, <1>3 DEF MayGo
<1>7. HandlesOK(r)'
  BY <1>1, <1>3 DEF RequestOK, HandlesOK
<1>8. ASSUME ~Exempt(op[r], pc[r])', NEW k \in Path
      PROVE  EnoughOf(r, k)'
  <2>1. ~Exempt(op[r], p)
    BY <1>1, <1>3, <1>8
  <2>2. /\ ~Exempt(op[r], pc[r])
        /\ NeedsNoMore(op[r], pc[r], queue[r], todo[r], p, q, left)
    BY <2>1 DEF MayGo
  <2>3. EnoughOf(r, k) /\ shared[r][k] \in Nat
    BY <2>2, OperationAssumption DEF RequestOK, TypeOK
  <2> HIDE DEF left
  <2>4. \A o \in Operation, j \in {1, 2} : SharesFor(r, o, j, k)' => SharesFor(r, o, j, k)
    BY <1>1, <1>3, <2>2 DEF SharesFor, NeedsNoMore
  <2>5. \A o \in Operation, j \in {1, 2} : ClaimsFor(r, o, j, k)' => ClaimsFor(r, o, j, k)
    BY <1>1, <1>3, <2>2 DEF ClaimsFor, NeedsNoMore
  <2> QED
    BY <1>1, <2>3, <2>4, <2>5, EnoughKept
<1>9. RequestOK(r)'
  BY <1>6, <1>7, <1>8 DEF RequestOK
<1> QED
  BY <1>4, <1>5, <1>9, OneRequest

\* A request that leaves an operation needs no more than its open files do.
LEMMA LeaveKeeps ==
    ASSUME IsFiniteSet(Operation), IInv, NEW r \in Request, Return(r),
           LockTypes', LocksOK', Others(r), handles' = handles,
           unguarded' \in [Request -> BOOLEAN],
           Exempt(op[r], pc[r]) \/ \A k \in Path : EnoughOf(r, k)'
    PROVE  IInv'
<1> USE DEF IInv
<1>2. op' = [op EXCEPT ![r] = NoOperation] /\ Goto(r, "idle", <<>>)
  BY DEF Return
<1>3. /\ pc' \in [Request -> Phase] /\ queue' \in [Request -> Seq(File)]
      /\ todo' \in [Request -> SUBSET Path]
      /\ pc'[r] = "idle"
      /\ \A i \in Request \ {r} : pc'[i] = pc[i] /\ queue'[i] = queue[i] /\ todo'[i] = todo[i]
  <2>1. "idle" \in Phase /\ <<>> \in Seq(File)
    BY EmptySeq DEF Phase
  <2> QED
    BY <1>2, <2>1, Goes
<1>4. TypeOK'
  <2>1. op' \in [Request -> Operation \cup {NoOperation}] /\ op'[r] = NoOperation
    BY <1>2 DEF TypeOK
  <2>2. \A i \in Request : op'[i] = NoOperation <=> pc'[i] = "idle"
    BY <1>3, <2>1 DEF TypeOK, Others
  <2> QED
    BY <1>3, <2>1, <2>2 DEF TypeOK, LockTypes, Phase
<1>5. Shape(op[r], pc[r], queue[r], todo[r])' /\ HandlesOK(r)'
  BY <1>3 DEF Shape, HandlesOK, RequestOK
<1>6. ASSUME NEW k \in Path, Exempt(op[r], pc[r])
      PROVE  EnoughOf(r, k)'
  <2>1. handles'[r] = {}
    BY <1>6 DEF Exempt, RequestOK, HandlesOK
  <2>2. Sharers(r, k)' = {} /\ Claimers(r, k)' = {}
    BY <1>3, <2>1 DEF Sharers, Claimers, SharesFor, ClaimsFor, SharesAt, ClaimsAt
  <2>3. Cardinality(Sharers(r, k)') = 0 /\ shared'[r][k] \in Nat
    BY <2>2, FS_EmptySet, OperationAssumption DEF LockTypes
  <2> QED
    BY <2>2, <2>3 DEF EnoughOf
<1>7. RequestOK(r)'
  BY <1>5, <1>6 DEF RequestOK
<1> QED
  BY <1>4, <1>7, OneRequest

LEMMA ThrowKeeps ==
    ASSUME IsFiniteSet(Operation), IInv, NEW r \in Request, Throw(r),
           ~Exempt(op[r], pc[r]), UNCHANGED <<locks, handles>>
    PROVE  IInv'
<1> USE DEF IInv
<1>1. /\ readers' = readers /\ writer' = writer /\ shared' = shared /\ handles' = handles
      /\ Return(r) /\ unguarded' = [unguarded EXCEPT ![r] = TRUE]
  BY DEF Throw, locks
<1>2. LockTypes' /\ LocksOK' /\ unguarded' \in [Request -> BOOLEAN]
  BY <1>1 DEF LockTypes, LocksOK, TypeOK, Lock!TypeOK
<1>3. /\ pc'[r] = "idle" /\ op'[r] = NoOperation
      /\ \A i \in Request \ {r} : pc'[i] = pc[i] /\ queue'[i] = queue[i] /\ todo'[i] = todo[i] /\ op'[i] = op[i]
  BY <1>1 DEF Return, Goto, TypeOK
<1>4. Others(r)
  BY <1>1, <1>3 DEF Others
<1>5. ASSUME NEW k \in Path
      PROVE  EnoughOf(r, k)'
  <2>1. EnoughOf(r, k) /\ shared[r][k] \in Nat
    BY OperationAssumption DEF RequestOK, TypeOK
  <2>2. \A o \in Operation, j \in {1, 2} : SharesFor(r, o, j, k)' => SharesFor(r, o, j, k)
    BY <1>1, <1>3 DEF SharesFor, SharesAt
  <2>3. \A o \in Operation, j \in {1, 2} : ClaimsFor(r, o, j, k)' => ClaimsFor(r, o, j, k)
    BY <1>1, <1>3 DEF ClaimsFor, ClaimsAt
  <2> QED
    BY <1>1, <2>1, <2>2, <2>3, EnoughKept
<1> QED
  BY <1>1, <1>2, <1>4, <1>5, LeaveKeeps

LEMMA MayUnlockAll ==
    ASSUME NEW r \in Request, op[r] \in Operation, pc[r] # "idle",
           \/ op[r].kind = "rename"
           \/ pc[r] \in {"hooks", "claim", "posthooks"}
           \/ pc[r] = "work" /\ op[r].kind \in {"read", "openRead"}
    PROVE  MayGo(r, "unlock", Files(op[r]))
<1> DEFINE o == op[r]
           left == LocksOfHead(o, "unlock", Files(o))
<1>1. /\ Rest(o, Files(o)) /\ left = KeysAt(o, Len(Files(o)))
      /\ Len(Files(o)) \in {1, 2} /\ Len(Files(o)) = FileCount(o)
      /\ \A i \in 1..Len(Files(o)) : Files(o)[i].type = "shared"
      /\ Head(Files(o)) = Files(o)[1]
  BY FilesShape, RestTail, CountType DEF LocksOfHead, KeysAt
<1> HIDE DEF left
<1>2. Shape(o, "unlock", Files(o), left)
  BY <1>1 DEF Shape
<1>3. CASE o.kind = "rename"
  BY <1>2, <1>3 DEF MayGo, Exempt, left
<1>4. CASE o.kind # "rename"
  <2>1. ~Exempt(o, pc[r])
    BY <1>4 DEF Exempt
  <2>2. Head(Files(o)).type = "shared"
    BY <1>1
  <2>3. ASSUME NEW j \in {1, 2}, NEW k \in Path
        PROVE  ~ClaimsAt(o, "unlock", Files(o), left, j, k) /\ ~ClaimsAt(o, pc[r], queue[r], todo[r], j, k)
    BY <1>4, <2>2 DEF ClaimsAt, ClaimsFile
  <2>4. NeedsNoMore(o, pc[r], queue[r], todo[r], "unlock", Files(o), left)
    BY <1>4, <2>3 DEF NeedsNoMore, SharesAt
  <2> QED
    BY <1>2, <2>1, <2>4 DEF MayGo, left
<1> QED
  BY <1>3, <1>4

\* The way out of an operation that knows of its exclusive lock.
LEMMA MayUnlockExclusive ==
    ASSUME NEW r \in Request, op[r] \in Operation, pc[r] = "work",
           NEW q \in Seq(File),
           \/ /\ op[r].kind \in {"write", "openWrite", "stream"}
              /\ q = <<Exclusive(op[r].source)>>
           \/ /\ op[r].kind = "copy"
              /\ q = <<Exclusive(op[r].target), Shared(op[r].source)>>
    PROVE  MayGo(r, "unlock", q)
<1> DEFINE o == op[r]
           left == LocksOfHead(o, "unlock", q)
<1>1. /\ Rest(o, q) /\ Len(q) = FileCount(o) /\ FileCount(o) \in {1, 2}
      /\ Head(q) = q[1] /\ Head(q).type = "exclusive" /\ o.kind # "rename"
      /\ Len(q) = 2 => q[2].type = "shared"
      /\ ClaimsFile(o, Len(q)) /\ q # <<>>
  <2> USE DEF Rest, FileCount, PathAt, Exclusive, Shared, ClaimsFile
  <2>1. CASE o.kind \in {"write", "openWrite", "stream"}
    <3>1. q = <<Exclusive(o.source)>> /\ Len(q) = 1 /\ q[1] = Exclusive(o.source)
      BY <2>1
    <3> QED
      BY <2>1, <3>1
  <2>2. CASE o.kind = "copy"
    <3>1. /\ q = <<Exclusive(o.target), Shared(o.source)>> /\ Len(q) = 2
          /\ q[1] = Exclusive(o.target) /\ q[2] = Shared(o.source)
      BY <2>2
    <3> QED
      BY <2>2, <3>1
  <2> QED
    BY <2>1, <2>2
<1>2. left = KeysAt(o, Len(q))
  BY <1>1, RestTail DEF LocksOfHead, KeysAt
<1> HIDE DEF left
<1>3. Shape(o, "unlock", q, left) /\ ~Exempt(o, pc[r])
  BY <1>1, <1>2 DEF Shape, Exempt
<1>4. ASSUME NEW j \in {1, 2}, NEW k \in Path
      PROVE  ClaimsAt(o, "unlock", q, left, j, k) <=> ClaimsAt(o, pc[r], queue[r], todo[r], j, k)
  <2>1. j = Len(q) /\ k = OwnKeyAt(o, j) => k \in left
    BY <1>2, OperationType, KeysType DEF OwnKeyAt, KeysAt
  <2>2. j \in 1..FileCount(o) /\ ClaimsFile(o, j) => j = Len(q)
    BY <1>1 DEF ClaimsFile, FileCount
  <2> QED
    BY <1>1, <2>1, <2>2 DEF ClaimsAt
<1>5. NeedsNoMore(o, pc[r], queue[r], todo[r], "unlock", q, left)
  BY <1>1, <1>4 DEF NeedsNoMore, SharesAt
<1> QED
  BY <1>3, <1>5 DEF MayGo, left

LEMMA MayBack ==
    ASSUME NEW r \in Request, op[r] \in Operation,
           \/ op[r].kind = "rename" /\ pc[r] # "idle"
           \/ pc[r] = "work" /\ op[r].kind \notin {"read", "openRead"}
    PROVE  MayGo(r, "back", Claims(op[r]))
<1> DEFINE o == op[r]
           left == LocksOfHead(o, "back", Claims(o))
<1>1. Claims(o) # <<>>
  BY ClaimsShape
<1>2. Shape(o, "back", Claims(o), left)
  BY <1>1, ClaimsShape, FilesShape DEF Shape
<1>3. CASE o.kind = "rename"
  BY <1>2, <1>3 DEF MayGo, Exempt
<1>4. CASE o.kind # "rename"
  <2>1. NeedsNoMore(o, pc[r], queue[r], todo[r], "back", Claims(o), left)
    BY <1>4 DEF NeedsNoMore, SharesAt, ClaimsAt
  <2> QED
    BY <1>2, <1>4, <2>1 DEF MayGo, Exempt
<1> QED
  BY <1>3, <1>4

\* What the hooks let through.
LEMMA MayWork ==
    ASSUME NEW r \in Request, op[r] \in Operation, pc[r] = "hooks"
    PROVE  /\ Claims(op[r]) = <<>> => MayGo(r, "work", <<>>)
           /\ Claims(op[r]) # <<>> => MayGo(r, "claim", Claims(op[r]))
<1> DEFINE o == op[r]
<1>1. ASSUME Claims(o) = <<>>
      PROVE  MayGo(r, "work", <<>>)
  <2>1. o.kind \in {"read", "openRead"}
    BY <1>1, ClaimsShape
  <2>2. Shape(o, "work", <<>>, LocksOfHead(o, "work", <<>>))
    BY DEF Shape
  <2>3. NeedsNoMore(o, pc[r], queue[r], todo[r], "work", <<>>, LocksOfHead(o, "work", <<>>))
    BY <2>1 DEF NeedsNoMore, SharesAt, ClaimsAt, ClaimsFile
  <2> QED
    BY <2>2, <2>3 DEF MayGo, Exempt
<1>2. ASSUME Claims(o) # <<>>
      PROVE  MayGo(r, "claim", Claims(o))
  <2> DEFINE left == LocksOfHead(o, "claim", Claims(o))
  <2>1. Shape(o, "claim", Claims(o), left)
    BY <1>2, ClaimsShape, FilesShape DEF Shape
  <2>2. o.kind = "rename" => Len(Claims(o)) = 2
    BY ClaimsShape, FilesShape DEF FileCount
  <2>3. NeedsNoMore(o, pc[r], queue[r], todo[r], "claim", Claims(o), left)
    BY <2>2 DEF NeedsNoMore, SharesAt, ClaimsAt
  <2> QED
    BY <2>1, <2>3 DEF MayGo, Exempt
<1> QED
  BY <1>1, <1>2

-----------------------------------------------------------------------------
(***************************************************************************)
(* The steps that leave the locks alone.                                   *)
(***************************************************************************)
LEMMA Operating ==
    ASSUME TypeOK, NEW r \in Request, pc[r] # "idle"
    PROVE  op[r] \in Operation
  BY DEF TypeOK

LEMMA UnlockAllKeeps ==
    ASSUME IsFiniteSet(Operation), IInv, NEW r \in Request, pc[r] # "idle", UnlockAll(r),
           \/ op[r].kind = "rename"
           \/ pc[r] \in {"hooks", "claim", "posthooks"}
           \/ pc[r] = "work" /\ op[r].kind \in {"read", "openRead"},
           UNCHANGED <<locks, handles>>
    PROVE  IInv'
<1>1. op[r] \in Operation
  BY Operating DEF IInv
<1>2. Files(op[r]) \in Seq(File) /\ "unlock" \in Phase \ {"idle"}
  BY <1>1, FilesShape DEF Phase
<1> QED
  BY <1>1, <1>2, MayUnlockAll, ContinueKeeps DEF UnlockAll

LEMMA BackKeeps ==
    ASSUME IsFiniteSet(Operation), IInv, NEW r \in Request, pc[r] # "idle",
           Continue(r, "back", Claims(op[r])),
           \/ op[r].kind = "rename"
           \/ pc[r] = "work" /\ op[r].kind \notin {"read", "openRead"},
           UNCHANGED <<locks, handles>>
    PROVE  IInv'
<1>1. op[r] \in Operation
  BY Operating DEF IInv
<1>2. Claims(op[r]) \in Seq(File) /\ "back" \in Phase \ {"idle"}
  BY <1>1, ClaimsShape DEF Phase
<1> QED
  BY <1>1, <1>2, MayBack, ContinueKeeps

LEMMA UnlockExclusiveKeeps ==
    ASSUME IsFiniteSet(Operation), IInv, NEW r \in Request, pc[r] = "work", NEW q,
           Continue(r, "unlock", q),
           \/ /\ op[r].kind \in {"write", "openWrite", "stream"}
              /\ q = <<Exclusive(op[r].source)>>
           \/ /\ op[r].kind = "copy"
              /\ q = <<Exclusive(op[r].target), Shared(op[r].source)>>,
           UNCHANGED <<locks, handles>>
    PROVE  IInv'
<1>1. op[r] \in Operation
  BY Operating DEF IInv
<1>2. Exclusive(op[r].source) \in File /\ Exclusive(op[r].target) \in File /\ Shared(op[r].source) \in File
  BY <1>1, OperationType DEF File, Exclusive, Shared
<1>3. q \in Seq(File) /\ "unlock" \in Phase \ {"idle"}
  <2>1. <<Exclusive(op[r].source)>> \in Seq(File)
    BY <1>2
  <2>2. <<Exclusive(op[r].target), Shared(op[r].source)>> \in Seq(File)
    BY <1>2
  <2> QED
    BY <2>1, <2>2 DEF Phase
<1> QED
  BY <1>1, <1>3, MayUnlockExclusive, ContinueKeeps

LEMMA StartKeeps ==
    ASSUME Assumptions, IInv, NEW r \in Request, NEW o \in Operation, Start(r, o)
    PROVE  IInv'
<1> USE DEF IInv
<1>1. /\ pc[r] = "idle" /\ o \notin handles[r] /\ (handles[r] # {} => o.kind \in BesideHandle)
      /\ op' = [op EXCEPT ![r] = o] /\ Goto(r, "lock", Files(o))
      /\ readers' = readers /\ writer' = writer /\ shared' = shared
      /\ handles' = handles /\ unguarded' = unguarded
  BY DEF Start, locks
<1> DEFINE left == KeysAt(o, FileCount(o))
<1>2. op' \in [Request -> Operation \cup {NoOperation}] /\ op'[r] = o /\ \A i \in Request \ {r} : op'[i] = op[i]
  BY <1>1 DEF TypeOK
<1>3. /\ Files(o) \in Seq(File) /\ Rest(o, Files(o)) /\ Len(Files(o)) = FileCount(o)
      /\ Head(Files(o)).path = PathAt(o, FileCount(o)) /\ Files(o) # <<>> /\ "lock" \in Phase
  BY FilesShape, RestTail DEF Phase
<1>4. LocksOfHead(o, "lock", Files(o)) = left
  BY <1>3 DEF LocksOfHead, KeysAt
<1>5. /\ pc' \in [Request -> Phase] /\ queue' \in [Request -> Seq(File)]
      /\ todo' \in [Request -> SUBSET Path]
      /\ pc'[r] = "lock" /\ queue'[r] = Files(o) /\ todo'[r] = left
      /\ \A i \in Request \ {r} : pc'[i] = pc[i] /\ queue'[i] = queue[i] /\ todo'[i] = todo[i]
  BY <1>1, <1>2, <1>3, <1>4, Goes
<1> HIDE DEF left
<1>6. TypeOK'
  <2>1. \A i \in Request : op'[i] = NoOperation <=> pc'[i] = "idle"
    BY <1>2, <1>5, OperationAssumption DEF TypeOK
  <2> QED
    BY <1>1, <1>2, <1>5, <2>1 DEF TypeOK, Phase, Lock!TypeOK
<1>7. LocksOK' /\ Others(r)
  BY <1>1, <1>2, <1>5 DEF LocksOK, Others
<1>8. Shape(op[r], pc[r], queue[r], todo[r])'
  BY <1>2, <1>3, <1>5 DEF Shape, left
<1>9. HandlesOK(r)'
  BY <1>1, <1>2, <1>5 DEF RequestOK, HandlesOK, Assumptions
<1>10. ASSUME NEW k \in Path
       PROVE  EnoughOf(r, k)'
  <2>1. EnoughOf(r, k) /\ shared[r][k] \in Nat
    <3>1. ~Exempt(op[r], pc[r])
      BY <1>1 DEF Exempt
    <3>2. shared[r][k] \in Nat
      BY OperationAssumption DEF TypeOK
    <3> QED
      BY <3>1, <3>2 DEF RequestOK
  <2>2. ASSUME NEW j \in {1, 2}
        PROVE  ~SharesAt(o, "lock", Files(o), left, j, k) /\ ~ClaimsAt(o, "lock", Files(o), left, j, k)
    BY <1>3, CountType DEF SharesAt, ClaimsAt, left
  <2>3. \A a \in Operation, j \in {1, 2} : SharesFor(r, a, j, k)' => SharesFor(r, a, j, k)
    BY <1>1, <1>2, <1>5, <2>2 DEF SharesFor
  <2>4. \A a \in Operation, j \in {1, 2} : ClaimsFor(r, a, j, k)' => ClaimsFor(r, a, j, k)
    BY <1>1, <1>2, <1>5, <2>2 DEF ClaimsFor
  <2> QED
    BY <1>1, <2>1, <2>3, <2>4, EnoughKept DEF Assumptions
<1>11. RequestOK(r)'
  BY <1>8, <1>9, <1>10 DEF RequestOK
<1> QED
  BY <1>6, <1>7, <1>11, OneRequest DEF Assumptions

\* Hooks, vetos and failures.
LEMMA QuietKeeps ==
    ASSUME IsFiniteSet(Operation), IInv, NEW r \in Request,
           \/ Refused(r) \/ Hooks(r) \/ Veto(r) \/ HooksThrow(r) \/ ClaimRefused(r)
           \/ WorkFailed(r) \/ StorageThrows(r) \/ UpdateThrows(r) \/ PostHooks(r)
    PROVE  IInv'
<1>0. pc[r] # "idle" /\ UNCHANGED <<locks, handles>>
  BY DEF Refused, Hooks, Veto, HooksThrow, ClaimRefused, WorkFailed, StorageThrows, UpdateThrows, PostHooks
<1>o. op[r] \in Operation
  BY <1>0, Operating DEF IInv
<1>t. Throw(r) /\ ~Exempt(op[r], pc[r]) => IInv'
  BY <1>0, ThrowKeeps
<1>1. CASE Refused(r)
  <2>1. CASE op[r].kind = "rename" /\ Len(queue[r]) = 1
    BY <1>0, <1>1, <2>1, UnlockAllKeeps DEF Refused
  <2>2. CASE ~(op[r].kind = "rename" /\ Len(queue[r]) = 1)
    BY <1>1, <1>t, <2>2 DEF Refused, Exempt
  <2> QED
    BY <2>1, <2>2
<1>2. CASE Hooks(r)
  <2>1. pc[r] = "hooks"
    BY <1>2 DEF Hooks
  <2>2. CASE Claims(op[r]) = <<>>
    <3>1. Continue(r, "work", <<>>) /\ <<>> \in Seq(File) /\ "work" \in Phase \ {"idle"}
      BY <1>2, <2>2, EmptySeq DEF Hooks, Phase
    <3> QED
      BY <1>0, <1>o, <2>1, <2>2, <3>1, MayWork, ContinueKeeps
  <2>3. CASE Claims(op[r]) # <<>>
    <3>1. Continue(r, "claim", Claims(op[r])) /\ Claims(op[r]) \in Seq(File) /\ "claim" \in Phase \ {"idle"}
      BY <1>2, <1>o, <2>3, ClaimsShape DEF Hooks, Phase
    <3> QED
      BY <1>0, <1>o, <2>1, <2>3, <3>1, MayWork, ContinueKeeps
  <2> QED
    BY <2>2, <2>3
<1>3. CASE Veto(r)
  BY <1>0, <1>3, UnlockAllKeeps DEF Veto
<1>4. CASE HooksThrow(r)
  <2>1. pc[r] \in {"hooks", "posthooks"}
    BY <1>4 DEF HooksThrow
  <2>2. CASE op[r].kind \in Guarded
    BY <1>0, <1>4, <2>1, <2>2, UnlockAllKeeps DEF HooksThrow
  <2>3. CASE op[r].kind \notin Guarded
    BY <1>4, <1>t, <2>3 DEF HooksThrow, Exempt, Guarded
  <2> QED
    BY <2>2, <2>3
<1>5. CASE ClaimRefused(r)
  <2>1. pc[r] = "claim"
    BY <1>5 DEF ClaimRefused
  <2>2. CASE op[r].kind = "rename" /\ Len(queue[r]) = 1
    <3>1. Continue(r, "back", Claims(op[r]))
      BY <1>5, <1>o, <2>2, ClaimsShape DEF ClaimRefused
    <3> QED
      BY <1>0, <2>2, <3>1, BackKeeps
  <2>3. CASE op[r].kind \in {"put", "unmount"}
    BY <1>5, <1>t, <2>3 DEF ClaimRefused, Exempt
  <2>4. CASE ~(op[r].kind = "rename" /\ Len(queue[r]) = 1) /\ op[r].kind \notin {"put", "unmount"}
    <3>1. UnlockAll(r)
      BY <1>5, <2>4 DEF ClaimRefused
    <3> QED
      BY <1>0, <2>1, <3>1, UnlockAllKeeps
  <2> QED
    BY <2>2, <2>3, <2>4
<1>6. CASE WorkFailed(r)
  <2>1. pc[r] = "work" /\ op[r].kind \in {"openRead", "openWrite", "stream", "put"}
    BY <1>6 DEF WorkFailed
  <2>2. CASE op[r].kind = "openRead"
    <3>1. UnlockAll(r)
      BY <1>6, <2>2 DEF WorkFailed
    <3> QED
      BY <1>0, <2>1, <2>2, <3>1, UnlockAllKeeps
  <2>3. CASE op[r].kind = "openWrite"
    <3>1. Continue(r, "back", Claims(op[r]))
      BY <1>6, <2>3 DEF WorkFailed
    <3> QED
      BY <1>0, <2>1, <2>3, <3>1, BackKeeps
  <2>4. CASE op[r].kind = "stream"
    <3>1. Continue(r, "unlock", <<Exclusive(op[r].source)>>)
      BY <1>6, <2>4 DEF WorkFailed
    <3> QED
      BY <1>0, <2>1, <2>4, <3>1, UnlockExclusiveKeeps
  <2>5. CASE op[r].kind = "put"
    <3>1. Throw(r)
      BY <1>6, <2>5 DEF WorkFailed
    <3> QED
      BY <1>t, <2>5, <3>1 DEF Exempt
  <2> QED
    BY <2>1, <2>2, <2>3, <2>4, <2>5
<1>7. CASE StorageThrows(r)
  <2>1. pc[r] = "work"
    BY <1>7 DEF StorageThrows
  <2>2. CASE op[r].kind \in {"read", "openRead"}
    <3>1. UnlockAll(r)
      BY <1>7, <2>2 DEF StorageThrows
    <3> QED
      BY <1>0, <2>1, <2>2, <3>1, UnlockAllKeeps
  <2>3. CASE op[r].kind \in {"write", "openWrite"}
    <3>1. Continue(r, "unlock", <<Exclusive(op[r].source)>>)
      BY <1>7, <2>3 DEF StorageThrows
    <3> QED
      BY <1>0, <2>1, <2>3, <3>1, UnlockExclusiveKeeps
  <2>4. CASE op[r].kind = "copy"
    <3>1. Continue(r, "unlock", <<Exclusive(op[r].target), Shared(op[r].source)>>)
      BY <1>7, <2>4 DEF StorageThrows, UnlockCopy
    <3> QED
      BY <1>0, <2>1, <2>4, <3>1, UnlockExclusiveKeeps
  <2>5. CASE op[r].kind = "rename"
    <3>1. Continue(r, "back", Claims(op[r]))
      BY <1>7, <1>o, <2>5, ClaimsShape DEF StorageThrows
    <3> QED
      BY <1>0, <2>5, <3>1, BackKeeps
  <2>6. CASE op[r].kind \notin {"read", "openRead", "write", "openWrite", "copy", "rename"}
    <3>1. Throw(r)
      BY <1>7, <2>6 DEF StorageThrows
    <3> QED
      BY <1>t, <2>6, <3>1 DEF Exempt
  <2> QED
    BY <2>2, <2>3, <2>4, <2>5, <2>6
<1>8. CASE UpdateThrows(r)
  BY <1>8, <1>t DEF UpdateThrows, Exempt
<1>9. CASE PostHooks(r)
  BY <1>0, <1>9, UnlockAllKeeps DEF PostHooks
<1> QED
  BY <1>1, <1>2, <1>3, <1>4, <1>5, <1>6, <1>7, <1>8, <1>9

-----------------------------------------------------------------------------
(***************************************************************************)
(* The steps that take a lock or give one back.                            *)
(***************************************************************************)
\* The request goes on in phase p, with the files q and the locks left.
ControlTo(r, p, q, left) ==
    /\ pc' \in [Request -> Phase] /\ queue' \in [Request -> Seq(File)]
    /\ todo' \in [Request -> SUBSET Path]
    /\ pc'[r] = p /\ queue'[r] = q /\ todo'[r] = left
    /\ \A i \in Request \ {r} : pc'[i] = pc[i] /\ queue'[i] = queue[i] /\ todo'[i] = todo[i]

LEMMA ContinueTo ==
    ASSUME TypeOK, NEW r \in Request, NEW p \in Phase, NEW q \in Seq(File), Continue(r, p, q)
    PROVE  ControlTo(r, p, q, LocksOfHead(op[r], p, q)) /\ op' = op /\ unguarded' = unguarded
<1>1. op' = op /\ unguarded' = unguarded /\ Goto(r, p, q)
  BY DEF Continue
<1> QED
  BY <1>1, Goes DEF ControlTo

LEMMA StepKeeps ==
    ASSUME IsFiniteSet(Operation), IInv, NEW r \in Request, pc[r] # "idle", NEW k,
           NEW p \in Phase \ {"idle"}, NEW q, NEW left,
           ControlTo(r, p, q, left), op' = op, unguarded' = unguarded, handles' = handles,
           LocksTo(r, k), Shape(op[r], p, q, left),
           Exempt(op[r], p) \/ \A i \in Path : EnoughOf(r, i)'
    PROVE  IInv'
<1> USE DEF IInv
<1>1. TypeOK'
  <2>1. \A i \in Request : op'[i] = NoOperation <=> pc'[i] = "idle"
    BY DEF TypeOK, ControlTo
  <2> QED
    BY <2>1 DEF TypeOK, ControlTo, LocksTo, LockTypes, Phase
<1>2. Others(r)
  <2>1. ASSUME NEW i \in Request \ {r}
        PROVE  /\ pc'[i] = pc[i] /\ queue'[i] = queue[i] /\ todo'[i] = todo[i]
               /\ op'[i] = op[i] /\ handles'[i] = handles[i]
    BY DEF ControlTo
  <2>2. ASSUME NEW i \in Request \ {r}, NEW j \in Path
        PROVE  writer[j] = {i} => writer'[j] = {i}
    BY DEF LocksTo
  <2>3. ASSUME NEW i \in Request \ {r}
        PROVE  shared'[i] = shared[i]
    BY DEF LocksTo
  <2> QED
    BY <2>1, <2>2, <2>3 DEF Others
<1>3. Shape(op[r], pc[r], queue[r], todo[r])'
  BY DEF ControlTo
<1>4. HandlesOK(r)'
  BY DEF RequestOK, HandlesOK, ControlTo
<1>5. RequestOK(r)'
  BY <1>3, <1>4 DEF RequestOK, ControlTo
<1> QED
  BY <1>1, <1>2, <1>5, OneRequest DEF LocksTo

\* Of the lock at hand and of the files that remain.
LEMMA AtHand ==
    ASSUME IInv, NEW r \in Request, pc[r] \in {"lock", "unlock"}
    PROVE  LET o == op[r]
               n == Len(queue[r])
           IN  /\ o \in Operation /\ Rest(o, queue[r]) /\ n \in {1, 2} /\ n \in 1..FileCount(o)
               /\ todo[r] \subseteq KeysAt(o, n) /\ Own(r) = OwnKeyAt(o, n)
               /\ o \notin handles[r] /\ queue[r] \in Seq(File)
<1>1. op[r] \in Operation /\ queue[r] \in Seq(File)
  BY Operating DEF IInv, TypeOK
<1>2. Rest(op[r], queue[r]) /\ todo[r] \subseteq KeysAt(op[r], Len(queue[r]))
  BY DEF IInv, RequestOK, Shape
<1>3. Len(queue[r]) \in 1..FileCount(op[r]) /\ FileCount(op[r]) \in {1, 2}
  BY <1>1, <1>2, CountType DEF Rest
<1>4. Len(queue[r]) \in 1..1 \/ Len(queue[r]) \in 1..2
  BY <1>3, Zenon
<1>5. Len(queue[r]) \in {1, 2}
  BY <1>4
<1>6. Own(r) = OwnKeyAt(op[r], Len(queue[r]))
  BY <1>1, <1>2, RestTail DEF Own, OwnKeyAt
<1>7. op[r] \notin handles[r]
  BY DEF IInv, RequestOK, HandlesOK
<1> QED
  BY <1>1, <1>2, <1>3, <1>5, <1>6, <1>7

\* The files and locks after the lock k.
LEMMA AdvanceTo ==
    ASSUME IInv, NEW r \in Request, pc[r] \in {"lock", "unlock"}, NEW k \in todo[r],
           More(r, k), Advance(r, k)
    PROVE  /\ op' = op /\ unguarded' = unguarded
           /\ \/ /\ todo[r] = {k} /\ Len(queue[r]) = 2
                 /\ ControlTo(r, pc[r], Tail(queue[r]), KeysAt(op[r], 1))
              \/ ControlTo(r, pc[r], queue[r], todo[r] \ {k})
<1> DEFINE o == op[r]
           q == queue[r]
<1>1. o \in Operation /\ Rest(o, q) /\ q \in Seq(File) /\ Len(q) \in {1, 2} /\ todo[r] \subseteq KeysAt(o, Len(q))
  BY AtHand
<1>2. pc[r] \in Phase /\ TypeOK
  BY DEF IInv, Phase
<1>3. CASE todo[r] = {k}
  <2>0. Continue(r, pc[r], Tail(q)) /\ Len(q) > 1
    BY <1>3 DEF Advance, More
  <2>1. Continue(r, pc[r], Tail(q)) /\ Len(q) > 1 /\ Len(q) = 2
    BY <1>1, <2>0
  <2>2. Tail(q) \in Seq(File) /\ Tail(q) # <<>> /\ Head(Tail(q)).path = PathAt(o, 1)
    BY <1>1, <2>1, RestTail
  <2>3. LocksOfHead(o, pc[r], Tail(q)) = KeysAt(o, 1)
    BY <2>2 DEF LocksOfHead, KeysAt
  <2> QED
    BY <1>2, <1>3, <2>1, <2>2, <2>3, ContinueTo
<1>4. CASE todo[r] # {k}
  <2>1. todo' = [todo EXCEPT ![r] = @ \ {k}] /\ UNCHANGED <<op, pc, queue, unguarded>>
    BY <1>4 DEF Advance
  <2>2. ControlTo(r, pc[r], q, todo[r] \ {k})
    BY <1>2, <2>1 DEF ControlTo, TypeOK, Phase
  <2> QED
    BY <2>1, <2>2
<1> QED
  BY <1>3, <1>4

\* lockFile
LEMMA AcquireKeeps ==
    ASSUME IsFiniteSet(Operation), IInv, NEW r \in Request, NEW k \in Path, Acquire(r, k)
    PROVE  IInv'
<1> DEFINE o == op[r]
           n == Len(queue[r])
<1>1. /\ pc[r] = "lock" /\ k \in todo[r] /\ shared[r][k] < MaxShared
      /\ Lock!Share(r, k) /\ Count(r, k, shared[r][k] + 1) /\ handles' = handles
      /\ (More(r, k) /\ Advance(r, k)) \/ (~More(r, k) /\ Continue(r, "hooks", <<>>))
  BY DEF Acquire, Turn
<1>2. /\ o \in Operation /\ Rest(o, queue[r]) /\ n \in {1, 2} /\ n \in 1..FileCount(o)
      /\ todo[r] \subseteq KeysAt(o, n) /\ o \notin handles[r] /\ queue[r] \in Seq(File)
      /\ TypeOK
  BY <1>1, AtHand DEF IInv
<1>3. LocksTo(r, k)
  BY <1>1, LocksKept DEF IInv, TypeOK, LockTypes
<1>4. \E p \in {"lock", "hooks"}, q \in Seq(File), left \in SUBSET Path :
          /\ ControlTo(r, p, q, left) /\ op' = op /\ unguarded' = unguarded
          /\ Shape(o, p, q, left)
          /\ \A j \in {1, 2}, i \in Path :
                /\ SharesAt(o, p, q, left, j, i) =>
                      SharesAt(o, "lock", queue[r], todo[r], j, i) \/ (j = n /\ i = k)
                /\ ~ClaimsAt(o, p, q, left, j, i)
  <2>1. CASE More(r, k)
    <3>1. /\ op' = op /\ unguarded' = unguarded
          /\ \/ /\ todo[r] = {k} /\ n = 2
                /\ ControlTo(r, "lock", Tail(queue[r]), KeysAt(o, 1))
             \/ ControlTo(r, "lock", queue[r], todo[r] \ {k})
      BY <1>1, <2>1, AdvanceTo
    <3>2. CASE todo[r] = {k} /\ n = 2 /\ ControlTo(r, "lock", Tail(queue[r]), KeysAt(o, 1))
      <4>0. Len(queue[r]) = 2 /\ Len(queue[r]) > 1
        BY <3>2
      <4>1. Tail(queue[r]) \in Seq(File) /\ Len(Tail(queue[r])) = 1 /\ Rest(o, Tail(queue[r]))
        BY <1>2, <4>0, RestTail
      <4>2. KeysAt(o, 1) \in SUBSET Path
        BY <1>2, OperationType, KeysType DEF KeysAt
      <4>3. Shape(o, "lock", Tail(queue[r]), KeysAt(o, 1))
        BY <4>1 DEF Shape
      <4>4. ASSUME NEW j \in {1, 2}, NEW i \in Path
            PROVE  /\ SharesAt(o, "lock", Tail(queue[r]), KeysAt(o, 1), j, i) =>
                         SharesAt(o, "lock", queue[r], todo[r], j, i) \/ (j = n /\ i = k)
                   /\ ~ClaimsAt(o, "lock", Tail(queue[r]), KeysAt(o, 1), j, i)
        <5>1. CASE j = 1
          <6>1. Len(Tail(queue[r])) = 1
            BY <4>1
          <6>2. ~SharesAt(o, "lock", Tail(queue[r]), KeysAt(o, 1), 1, i)
            BY <6>1 DEF SharesAt
          <6> QED
            BY <5>1, <6>2 DEF ClaimsAt
        <5>2. CASE j = 2
          <6>1. SharesAt(o, "lock", Tail(queue[r]), KeysAt(o, 1), j, i) => j = n
            BY <4>0, <5>2
          <6>2. todo[r] = {k}
            BY <3>2
          <6> QED
            BY <4>0, <4>1, <5>2, <6>1, <6>2 DEF SharesAt, ClaimsAt
        <5> QED
          BY <5>1, <5>2
      <4> QED
        BY <3>1, <3>2, <4>1, <4>2, <4>3, <4>4
    <3>3. CASE ControlTo(r, "lock", queue[r], todo[r] \ {k})
      <4>1. todo[r] \ {k} \in SUBSET Path
        BY <1>2 DEF TypeOK
      <4>2. Shape(o, "lock", queue[r], todo[r] \ {k})
        BY <1>2 DEF Shape
      <4>3. ASSUME NEW j \in {1, 2}, NEW i \in Path
            PROVE  /\ SharesAt(o, "lock", queue[r], todo[r] \ {k}, j, i) =>
                         SharesAt(o, "lock", queue[r], todo[r], j, i) \/ (j = n /\ i = k)
                   /\ ~ClaimsAt(o, "lock", queue[r], todo[r] \ {k}, j, i)
        BY DEF SharesAt, ClaimsAt
      <4> QED
        BY <1>2, <3>1, <3>3, <4>1, <4>2, <4>3
    <3> QED
      BY <3>1, <3>2, <3>3
  <2>2. CASE ~More(r, k)
    <3>0. todo[r] = {k} /\ ~(n > 1)
      BY <2>2 DEF More
    <3>1. todo[r] = {k} /\ n = 1
      <4>1. n \in {1, 2}
        BY <1>2
      <4> HIDE DEF n
      <4> QED
        BY <3>0, <4>1
    <3>2. ControlTo(r, "hooks", <<>>, {}) /\ op' = op /\ unguarded' = unguarded /\ <<>> \in Seq(File)
      <4>1. <<>> \in Seq(File) /\ "hooks" \in Phase /\ LocksOfHead(op[r], "hooks", <<>>) = {}
        BY EmptySeq DEF Phase, LocksOfHead
      <4>2. Continue(r, "hooks", <<>>)
        BY <1>1, <2>2
      <4>3. /\ ControlTo(r, "hooks", <<>>, LocksOfHead(op[r], "hooks", <<>>))
            /\ op' = op /\ unguarded' = unguarded
        BY <1>2, <4>1, <4>2, ContinueTo
      <4> QED
        BY <4>1, <4>3
    <3>3. Shape(o, "hooks", <<>>, {})
      BY DEF Shape
    <3>4. ASSUME NEW j \in {1, 2}, NEW i \in Path
          PROVE  /\ SharesAt(o, "hooks", <<>>, {}, j, i) =>
                       SharesAt(o, "lock", queue[r], todo[r], j, i) \/ (j = n /\ i = k)
                 /\ ~ClaimsAt(o, "hooks", <<>>, {}, j, i)
      BY <3>1 DEF SharesAt, ClaimsAt
    <3> QED
      BY <3>2, <3>3, <3>4
  <2> QED
    BY <2>1, <2>2
<1>5. PICK p \in {"lock", "hooks"}, q \in Seq(File), left \in SUBSET Path :
          /\ ControlTo(r, p, q, left) /\ op' = op /\ unguarded' = unguarded
          /\ Shape(o, p, q, left)
          /\ \A j \in {1, 2}, i \in Path :
                /\ SharesAt(o, p, q, left, j, i) =>
                      SharesAt(o, "lock", queue[r], todo[r], j, i) \/ (j = n /\ i = k)
                /\ ~ClaimsAt(o, p, q, left, j, i)
  BY <1>4
<1>6. pc'[r] = p /\ queue'[r] = q /\ todo'[r] = left /\ op'[r] = o /\ handles'[r] = handles[r]
  BY <1>1, <1>5 DEF ControlTo
<1>7. ASSUME NEW i \in Path
      PROVE  EnoughOf(r, i)'
  <2>1. EnoughOf(r, i) /\ shared[r][i] \in Nat
    <3>1. ~Exempt(o, pc[r])
      BY <1>1 DEF Exempt
    <3> QED
      BY <3>1, OperationAssumption DEF IInv, RequestOK, TypeOK
  <2>2. \A a \in Operation, j \in {1, 2} :
            SharesFor(r, a, j, i)' => SharesFor(r, a, j, i) \/ (a = o /\ j = n /\ i = k)
    BY <1>1, <1>5, <1>6 DEF SharesFor
  <2>3. \A a \in Operation, j \in {1, 2} : ClaimsFor(r, a, j, i)' => ClaimsFor(r, a, j, i)
    BY <1>5, <1>6 DEF ClaimsFor
  <2>4. CASE i = k
    <3>1. shared'[r][i] = shared[r][i] + 1 /\ writer[i] = {}
      BY <1>1, <1>2, <2>4 DEF Count, TypeOK, Lock!Share
    <3>2. \A a \in Operation, j \in {1, 2} : SharesFor(r, a, j, i)' => SharesFor(r, a, j, i) \/ (a = o /\ j = n)
      BY <2>2
    <3>3. o \in Operation /\ n \in {1, 2}
      BY <1>2
    <3> HIDE DEF o, n
    <3> QED
      BY <2>1, <2>3, <3>1, <3>2, <3>3, EnoughShared
  <2>5. CASE i # k
    <3>1. shared'[r][i] = shared[r][i] /\ writer'[i] = writer[i]
      BY <1>3, <2>5 DEF LocksTo
    <3>2. \A a \in Operation, j \in {1, 2} : SharesFor(r, a, j, i)' => SharesFor(r, a, j, i)
      BY <2>2, <2>5
    <3>3. writer[i] = {r} => writer'[i] = {r}
      BY <3>1
    <3> QED
      BY <2>1, <2>3, <3>1, <3>2, <3>3, EnoughKept
  <2> QED
    BY <2>4, <2>5
<1>8. p \in Phase \ {"idle"} /\ pc[r] # "idle"
  BY <1>1 DEF Phase
<1> QED
  BY <1>1, <1>3, <1>5, <1>7, <1>8, StepKeeps

\* The file of a claim, and of the way back.
LEMMA ClaimAtHand ==
    ASSUME IInv, NEW r \in Request, pc[r] \in {"claim", "back"}
    PROVE  LET o == op[r]
           IN  /\ o \in Operation /\ o \notin handles[r] /\ queue[r] \in Seq(File)
               /\ Own(r) \in Path
               /\ \E n \in {1, 2} :
                     /\ n \in 1..FileCount(o) /\ Own(r) = OwnKeyAt(o, n) /\ ClaimsFile(o, n)
                     /\ IF o.kind = "rename" THEN n = Len(queue[r]) ELSE Len(queue[r]) = 1
<1> DEFINE o == op[r]
<1>1. o \in Operation /\ queue[r] \in Seq(File) /\ o \notin handles[r]
  BY Operating DEF IInv, TypeOK, RequestOK, HandlesOK
<1>2. Shape(o, pc[r], queue[r], todo[r])
  BY DEF IInv, RequestOK
<1>3. \E n \in {1, 2} :
          /\ n \in 1..FileCount(o) /\ Own(r) = OwnKeyAt(o, n) /\ ClaimsFile(o, n)
          /\ IF o.kind = "rename" THEN n = Len(queue[r]) ELSE Len(queue[r]) = 1
  <2>1. CASE o.kind = "rename"
    <3>1. Rest(o, queue[r]) /\ FileCount(o) = 2
      BY <1>2, <2>1 DEF Shape, FileCount
    <3>2. Len(queue[r]) \in 1..2
      BY <3>1 DEF Rest
    <3>3. Len(queue[r]) \in {1, 2}
      BY <3>2
    <3>4. Own(r) = OwnKeyAt(o, Len(queue[r])) /\ ClaimsFile(o, Len(queue[r]))
      BY <1>1, <2>1, <3>1, RestTail DEF Own, OwnKeyAt, ClaimsFile
    <3> QED
      BY <2>1, <3>1, <3>2, <3>3, <3>4
  <2>2. CASE o.kind # "rename"
    <3>1. /\ Len(queue[r]) = 1
          /\ \E j \in 1..FileCount(o) : ClaimsFile(o, j) /\ queue[r][1].path = PathAt(o, j)
      BY <1>2, <2>2 DEF Shape
    <3>2. PICK n \in 1..FileCount(o) : ClaimsFile(o, n) /\ queue[r][1].path = PathAt(o, n)
      BY <3>1
    <3>3. n \in 1..1 \/ n \in 1..2
      BY <1>1, <3>2, CountType, Zenon
    <3>4. n \in {1, 2}
      BY <3>3
    <3>5. Own(r) = OwnKeyAt(o, n)
      <4>1. queue[r] # <<>> /\ Head(queue[r]) = queue[r][1]
        BY <1>1, <3>1
      <4> QED
        BY <3>2, <4>1 DEF Own, OwnKeyAt
    <3> QED
      BY <2>2, <3>1, <3>2, <3>4, <3>5
  <2> QED
    BY <2>1, <2>2
<1>4. Own(r) \in Path
  BY <1>1, <1>3, OperationType, KeysType DEF OwnKeyAt
<1> QED
  BY <1>1, <1>3, <1>4

\* changeLock to exclusive.
LEMMA ClaimKeeps ==
    ASSUME IsFiniteSet(Operation), IInv, NEW r \in Request, Claim(r)
    PROVE  IInv'
<1> DEFINE o == op[r]
           k == Own(r)
<1>1. /\ pc[r] = "claim" /\ shared[r][k] = 1 /\ Lock!Claim(r, k) /\ Count(r, k, 0)
      /\ handles' = handles
      /\ \/ Len(queue[r]) = 1 /\ Continue(r, "work", <<>>)
         \/ Len(queue[r]) # 1 /\ Continue(r, "claim", Tail(queue[r]))
  BY DEF Claim
<1>2. PICK n \in {1, 2} :
          /\ n \in 1..FileCount(o) /\ k = OwnKeyAt(o, n) /\ ClaimsFile(o, n)
          /\ IF o.kind = "rename" THEN n = Len(queue[r]) ELSE Len(queue[r]) = 1
  BY <1>1, ClaimAtHand
<1>3. /\ o \in Operation /\ o \notin handles[r] /\ queue[r] \in Seq(File) /\ k \in Path /\ TypeOK
      /\ Shape(o, "claim", queue[r], todo[r])
  BY <1>1, ClaimAtHand DEF IInv, RequestOK
<1> HIDE DEF k
<1>4. LocksTo(r, k)
  BY <1>1, <1>3, LocksKept DEF IInv, TypeOK, LockTypes
<1>5. \E p \in {"claim", "work"}, q \in Seq(File) :
          /\ ControlTo(r, p, q, {}) /\ op' = op /\ unguarded' = unguarded
          /\ Shape(o, p, q, {})
          /\ \A j \in {1, 2}, i \in Path :
                /\ SharesAt(o, p, q, {}, j, i) =>
                      SharesAt(o, "claim", queue[r], todo[r], j, i) /\ ~(j = n /\ i = k)
                /\ ClaimsAt(o, p, q, {}, j, i) =>
                      ClaimsAt(o, "claim", queue[r], todo[r], j, i) \/ (j = n /\ i = k)
  <2>1. CASE Len(queue[r]) = 1
    <3>1. <<>> \in Seq(File) /\ "work" \in Phase /\ LocksOfHead(o, "work", <<>>) = {}
      BY EmptySeq DEF Phase, LocksOfHead
    <3>2. ControlTo(r, "work", <<>>, {}) /\ op' = op /\ unguarded' = unguarded
      <4>1. Continue(r, "work", <<>>)
        BY <1>1, <2>1
      <4> QED
        BY <1>3, <3>1, <4>1, ContinueTo
    <3>3. Shape(o, "work", <<>>, {})
      BY DEF Shape
    <3>4. ASSUME NEW j \in {1, 2}, NEW i \in Path
          PROVE  /\ SharesAt(o, "work", <<>>, {}, j, i) =>
                       SharesAt(o, "claim", queue[r], todo[r], j, i) /\ ~(j = n /\ i = k)
                 /\ ClaimsAt(o, "work", <<>>, {}, j, i) =>
                       ClaimsAt(o, "claim", queue[r], todo[r], j, i) \/ (j = n /\ i = k)
      <4>1. CASE o.kind = "rename"
        BY <1>2, <2>1, <4>1 DEF SharesAt, ClaimsAt, ClaimsFile
      <4>2. CASE o.kind # "rename"
        <5>1. j \in 1..FileCount(o) /\ ClaimsFile(o, j) => j = n
          BY <1>2, <4>2 DEF ClaimsFile, FileCount
        <5> QED
          BY <1>2, <4>2, <5>1 DEF SharesAt, ClaimsAt
      <4> QED
        BY <4>1, <4>2
    <3> QED
      BY <3>1, <3>2, <3>3, <3>4
  <2>2. CASE Len(queue[r]) # 1
    <3>1. o.kind = "rename" /\ n = 2 /\ Len(queue[r]) = 2 /\ Rest(o, queue[r]) /\ Len(queue[r]) > 1
      <4>1. o.kind = "rename" /\ n = Len(queue[r])
        BY <1>2, <2>2
      <4>2. n = 2
        BY <2>2, <4>1
      <4>3. Rest(o, queue[r])
        BY <1>3, <4>1 DEF Shape
      <4> QED
        BY <4>1, <4>2, <4>3
    <3>2. Tail(queue[r]) \in Seq(File) /\ Len(Tail(queue[r])) = 1 /\ Rest(o, Tail(queue[r]))
      BY <1>3, <3>1, RestTail
    <3>3. ControlTo(r, "claim", Tail(queue[r]), {}) /\ op' = op /\ unguarded' = unguarded
      <4>1. Continue(r, "claim", Tail(queue[r]))
        BY <1>1, <2>2
      <4>2. "claim" \in Phase /\ LocksOfHead(o, "claim", Tail(queue[r])) = {}
        BY DEF Phase, LocksOfHead
      <4> QED
        BY <1>3, <3>2, <4>1, <4>2, ContinueTo
    <3>4. Shape(o, "claim", Tail(queue[r]), {})
      BY <3>1, <3>2 DEF Shape
    <3>5. ASSUME NEW j \in {1, 2}, NEW i \in Path
          PROVE  /\ SharesAt(o, "claim", Tail(queue[r]), {}, j, i) =>
                       SharesAt(o, "claim", queue[r], todo[r], j, i) /\ ~(j = n /\ i = k)
                 /\ ClaimsAt(o, "claim", Tail(queue[r]), {}, j, i) =>
                       ClaimsAt(o, "claim", queue[r], todo[r], j, i) \/ (j = n /\ i = k)
      BY <1>2, <3>1, <3>2 DEF SharesAt, ClaimsAt
    <3> QED
      BY <3>2, <3>3, <3>4, <3>5
  <2> QED
    BY <2>1, <2>2
<1>6. PICK p \in {"claim", "work"}, q \in Seq(File) :
          /\ ControlTo(r, p, q, {}) /\ op' = op /\ unguarded' = unguarded
          /\ Shape(o, p, q, {})
          /\ \A j \in {1, 2}, i \in Path :
                /\ SharesAt(o, p, q, {}, j, i) =>
                      SharesAt(o, "claim", queue[r], todo[r], j, i) /\ ~(j = n /\ i = k)
                /\ ClaimsAt(o, p, q, {}, j, i) =>
                      ClaimsAt(o, "claim", queue[r], todo[r], j, i) \/ (j = n /\ i = k)
  BY <1>5
<1>7. pc'[r] = p /\ queue'[r] = q /\ todo'[r] = {} /\ op'[r] = o /\ handles'[r] = handles[r]
  BY <1>1, <1>6 DEF ControlTo
<1>8. ASSUME NEW i \in Path
      PROVE  EnoughOf(r, i)'
  <2>1. EnoughOf(r, i) /\ shared[r][i] \in Nat /\ shared'[r][i] \in Nat
    <3>1. ~Exempt(o, pc[r])
      BY <1>1 DEF Exempt
    <3> QED
      BY <1>4, <3>1, OperationAssumption DEF IInv, RequestOK, TypeOK, LocksTo, LockTypes
  <2>2. \A a \in Operation, j \in {1, 2} :
            SharesFor(r, a, j, i)' => SharesFor(r, a, j, i) /\ ~(a = o /\ j = n /\ i = k)
    BY <1>1, <1>3, <1>6, <1>7 DEF SharesFor
  <2>3. \A a \in Operation, j \in {1, 2} :
            ClaimsFor(r, a, j, i)' => ClaimsFor(r, a, j, i) \/ (a = o /\ j = n /\ i = k)
    BY <1>1, <1>6, <1>7 DEF ClaimsFor
  <2>4. CASE i = k
    <3>1. shared[r][i] = 1 /\ writer[i] = {} /\ writer'[i] = {r}
      BY <1>1, <1>3, <2>4 DEF TypeOK, Lock!TypeOK, Lock!Claim
    <3>2. SharesFor(r, o, n, i)
      <4>1. SharesAt(o, "claim", queue[r], todo[r], n, i)
        <5>1. i \in KeysAt(o, n)
          BY <1>2, <1>3, <2>4, OperationType, KeysType DEF KeysAt, OwnKeyAt
        <5>2. ~ClaimsAt(o, "claim", queue[r], todo[r], n, i)
          <6>1. o.kind = "rename" => n = Len(queue[r])
            BY <1>2
          <6>2. ASSUME ClaimsAt(o, "claim", queue[r], todo[r], n, i)
                PROVE  FALSE
            <7>1. o.kind = "rename" /\ n = 2 /\ Len(queue[r]) = 1
              BY <6>2 DEF ClaimsAt
            <7>2. 2 = 1
              BY <6>1, <7>1, Zenon
            <7> QED
              BY <7>2
          <6> QED
            BY <6>2
        <5> QED
          BY <1>2, <5>1, <5>2 DEF SharesAt
      <4> QED
        BY <1>1, <4>1 DEF SharesFor
    <3>3. \A a \in Operation, j \in {1, 2} : SharesFor(r, a, j, i)' => SharesFor(r, a, j, i) /\ ~(a = o /\ j = n)
      BY <2>2, <2>4
    <3>4. \A a \in Operation, j \in {1, 2} : ClaimsFor(r, a, j, i)' => ClaimsFor(r, a, j, i) \/ (a = o /\ j = n)
      BY <2>3
    <3>5. o \in Operation
      BY <1>3
    <3> HIDE DEF o
    <3> QED
      BY <2>1, <3>1, <3>2, <3>3, <3>4, <3>5, EnoughClaimed
  <2>5. CASE i # k
    <3>1. shared'[r][i] = shared[r][i] /\ writer'[i] = writer[i]
      BY <1>4, <2>5 DEF LocksTo
    <3>2. \A a \in Operation, j \in {1, 2} : SharesFor(r, a, j, i)' => SharesFor(r, a, j, i)
      BY <2>2
    <3>3. \A a \in Operation, j \in {1, 2} : ClaimsFor(r, a, j, i)' => ClaimsFor(r, a, j, i)
      BY <2>3, <2>5
    <3>4. writer[i] = {r} => writer'[i] = {r}
      BY <3>1
    <3> QED
      BY <2>1, <3>1, <3>2, <3>3, <3>4, EnoughKept
  <2> QED
    BY <2>4, <2>5
<1>9. p \in Phase \ {"idle"} /\ pc[r] # "idle"
  BY <1>1 DEF Phase
<1> QED
  BY <1>1, <1>4, <1>6, <1>8, <1>9, StepKeeps

\* changeLock to shared.
LEMMA DowngradeKeeps ==
    ASSUME IsFiniteSet(Operation), IInv, NEW r \in Request, Back(r)
    PROVE  IInv'
<1> DEFINE o == op[r]
           k == Own(r)
<1>1. pc[r] = "back" /\ handles' = handles
  BY DEF Back
<1>2. PICK n \in {1, 2} :
          /\ n \in 1..FileCount(o) /\ k = OwnKeyAt(o, n) /\ ClaimsFile(o, n)
          /\ IF o.kind = "rename" THEN n = Len(queue[r]) ELSE Len(queue[r]) = 1
  BY <1>1, ClaimAtHand
<1>3. /\ o \in Operation /\ o \notin handles[r] /\ queue[r] \in Seq(File) /\ k \in Path /\ TypeOK
      /\ Shape(o, "back", queue[r], todo[r])
  BY <1>1, ClaimAtHand DEF IInv, RequestOK
<1> HIDE DEF k
<1>4. ASSUME o.kind # "rename"
      PROVE  ClaimsFor(r, o, n, k) /\ writer[k] = {r}
  <2>1. ClaimsAt(o, "back", queue[r], todo[r], n, k)
    BY <1>2 DEF ClaimsAt
  <2>2. ClaimsFor(r, o, n, k)
    BY <1>1, <2>1 DEF ClaimsFor
  <2>3. <<o, n>> \in Claimers(r, k)
    BY <1>3, <2>2 DEF Claimers, Needs
  <2>4. EnoughOf(r, k)
    BY <1>3, <1>4 DEF IInv, RequestOK, Exempt
  <2> QED
    BY <2>2, <2>3, <2>4 DEF EnoughOf
<1>5. CASE writer[k] # {r}
  <2>1. o.kind = "rename" /\ UnlockAll(r) /\ UNCHANGED <<locks, handles>>
    BY <1>1, <1>4, <1>5 DEF Back, k
  <2> QED
    BY <1>1, <2>1, UnlockAllKeeps
<1>6. CASE writer[k] = {r}
  <2>1. /\ Lock!Downgrade(r, k) /\ Count(r, k, shared[r][k] + 1)
        /\ \/ Len(queue[r]) = 1 /\ Continue(r, "posthooks", <<>>)
           \/ Len(queue[r]) # 1 /\ Continue(r, "back", Tail(queue[r]))
    BY <1>6 DEF Back, k
  <2>2. LocksTo(r, k)
    BY <1>3, <2>1, LocksKept DEF IInv, TypeOK, LockTypes
  <2>3. shared[r][k] = 0 /\ shared'[r][k] = 1
    <3>1. readers[k] = {} /\ shared[r][k] \in Nat
      <4>1. writer[k] # {}
        BY <1>6
      <4>2. readers[k] = {}
        BY <1>3, <4>1 DEF IInv, LocksOK
      <4>3. shared[r][k] \in Nat
        BY <1>3, OperationAssumption DEF TypeOK
      <4> QED
        BY <4>2, <4>3
    <3>2. shared[r][k] = 0
      <4>1. ~(shared[r][k] > 0)
        BY <1>3, <3>1 DEF IInv, LocksOK
      <4> QED
        BY <3>1, <4>1
    <3> QED
      BY <1>3, <2>1, <3>2 DEF Count, TypeOK
  <2>4. CASE Len(queue[r]) # 1
    <3>1. o.kind = "rename" /\ Rest(o, queue[r])
      BY <1>2, <1>3, <2>4 DEF Shape
    <3>2. Len(queue[r]) > 1
      <4>1. n = Len(queue[r])
        BY <1>2, <3>1
      <4> QED
        BY <2>4, <4>1
    <3>3. Tail(queue[r]) \in Seq(File) /\ Rest(o, Tail(queue[r]))
      BY <1>3, <3>1, <3>2, RestTail
    <3>4. ControlTo(r, "back", Tail(queue[r]), {}) /\ op' = op /\ unguarded' = unguarded
      <4>1. Continue(r, "back", Tail(queue[r]))
        BY <2>1, <2>4
      <4>2. "back" \in Phase /\ LocksOfHead(o, "back", Tail(queue[r])) = {}
        BY DEF Phase, LocksOfHead
      <4> QED
        BY <1>3, <3>3, <4>1, <4>2, ContinueTo
    <3>5. Shape(o, "back", Tail(queue[r]), {}) /\ Exempt(o, "back")
      BY <3>1, <3>3 DEF Shape, Exempt
    <3>6. "back" \in Phase \ {"idle"} /\ pc[r] # "idle"
      BY <1>1 DEF Phase
    <3> QED
      BY <1>1, <2>2, <3>4, <3>5, <3>6, StepKeeps
  <2>5. CASE Len(queue[r]) = 1
    <3>1. ControlTo(r, "posthooks", <<>>, {}) /\ op' = op /\ unguarded' = unguarded
      <4>1. Continue(r, "posthooks", <<>>)
        BY <2>1, <2>5
      <4>2. <<>> \in Seq(File) /\ "posthooks" \in Phase /\ LocksOfHead(o, "posthooks", <<>>) = {}
        BY EmptySeq DEF Phase, LocksOfHead
      <4> QED
        BY <1>3, <4>1, <4>2, ContinueTo
    <3>2. Shape(o, "posthooks", <<>>, {})
      BY DEF Shape
    <3>3. pc'[r] = "posthooks" /\ queue'[r] = <<>> /\ todo'[r] = {} /\ op'[r] = o /\ handles'[r] = handles[r]
      BY <1>1, <3>1 DEF ControlTo
    <3>4. ASSUME ~Exempt(o, "posthooks"), NEW i \in Path
          PROVE  EnoughOf(r, i)'
      <4>1. o.kind # "rename"
        BY <3>4 DEF Exempt
      <4>2. ASSUME NEW j \in {1, 2}
            PROVE  /\ ~ClaimsAt(o, "posthooks", <<>>, {}, j, i)
                   /\ ClaimsAt(o, "back", queue[r], todo[r], j, i) => j = n /\ i = k
                   /\ SharesAt(o, "posthooks", <<>>, {}, j, i) =>
                         SharesAt(o, "back", queue[r], todo[r], j, i) \/ (j = n /\ i = k)
        <5>1. j \in 1..FileCount(o) /\ ClaimsFile(o, j) => j = n
          BY <1>2, <4>1 DEF ClaimsFile, FileCount
        <5> QED
          BY <1>2, <4>1, <5>1 DEF SharesAt, ClaimsAt
      <4>3. EnoughOf(r, i) /\ shared[r][i] \in Nat
        BY <1>3, <4>1, OperationAssumption DEF IInv, RequestOK, TypeOK, Exempt
      <4>4. \A a \in Operation, j \in {1, 2} :
                SharesFor(r, a, j, i)' => SharesFor(r, a, j, i) \/ (a = o /\ j = n /\ i = k)
        BY <1>1, <3>3, <4>2 DEF SharesFor
      <4>5. \A a \in Operation, j \in {1, 2} :
                ClaimsFor(r, a, j, i)' => ClaimsFor(r, a, j, i) /\ a # o
        BY <1>1, <1>3, <3>3, <4>2 DEF ClaimsFor
      <4>6. CASE i = k
        <5>1. \A a \in Operation, j \in {1, 2} : SharesFor(r, a, j, i)' => SharesFor(r, a, j, i) \/ (a = o /\ j = n)
          BY <4>4
        <5>2. \A a \in Operation, j \in {1, 2} : ClaimsFor(r, a, j, i)' => ClaimsFor(r, a, j, i) /\ ~(a = o /\ j = n)
          BY <4>5
        <5>3. o \in Operation /\ ClaimsFor(r, o, n, i) /\ shared'[r][i] = 1
          BY <1>3, <1>4, <2>3, <4>1, <4>6
        <5> HIDE DEF o
        <5> QED
          BY <4>3, <5>1, <5>2, <5>3, EnoughDowngraded
      <4>7. CASE i # k
        <5>1. shared'[r][i] = shared[r][i] /\ writer'[i] = writer[i]
          BY <2>2, <4>7 DEF LocksTo
        <5>2. \A a \in Operation, j \in {1, 2} : SharesFor(r, a, j, i)' => SharesFor(r, a, j, i)
          BY <4>4, <4>7
        <5>3. \A a \in Operation, j \in {1, 2} : ClaimsFor(r, a, j, i)' => ClaimsFor(r, a, j, i)
          BY <4>5
        <5>4. writer[i] = {r} => writer'[i] = {r}
          BY <5>1
        <5> QED
          BY <4>3, <5>1, <5>2, <5>3, <5>4, EnoughKept
      <4> QED
        BY <4>6, <4>7
    <3>5. "posthooks" \in Phase \ {"idle"} /\ pc[r] # "idle"
      BY <1>1 DEF Phase
    <3> QED
      BY <1>1, <2>2, <3>1, <3>2, <3>4, <3>5, StepKeeps
  <2> QED
    BY <2>4, <2>5
<1> QED
  BY <1>5, <1>6

\* unlockFile
LEMMA ReleaseKeeps ==
    ASSUME IsFiniteSet(Operation), IInv, NEW r \in Request, NEW k \in Path, Release(r, k)
    PROVE  IInv'
<1> DEFINE o == op[r]
           n == Len(queue[r])
           exclusive == k = Own(r) /\ Head(queue[r]).type = "exclusive"
<1>1. /\ pc[r] = "unlock" /\ k \in todo[r] /\ handles' = handles
      /\ IF exclusive THEN ReleaseExclusive(r, k) ELSE ReleaseShared(r, k)
      /\ (More(r, k) /\ Advance(r, k)) \/ (~More(r, k) /\ Return(r) /\ unguarded' = unguarded)
  BY DEF Release, Turn
<1>2. /\ o \in Operation /\ Rest(o, queue[r]) /\ n \in {1, 2} /\ n \in 1..FileCount(o)
      /\ todo[r] \subseteq KeysAt(o, n) /\ o \notin handles[r] /\ queue[r] \in Seq(File)
      /\ Own(r) = OwnKeyAt(o, n) /\ TypeOK /\ Shape(o, "unlock", queue[r], todo[r])
  BY <1>1, AtHand DEF IInv, RequestOK
<1>3. LocksTo(r, k)
  BY <1>1, LocksKept DEF IInv, TypeOK, LockTypes
<1>4. /\ exclusive => ClaimsAt(o, "unlock", queue[r], todo[r], n, k)
      /\ ~exclusive => SharesAt(o, "unlock", queue[r], todo[r], n, k)
  BY <1>1, <1>2 DEF SharesAt, ClaimsAt
<1> HIDE DEF exclusive
\* What the step needs of the rest: that k is no longer needed for file n.
<1>5. ASSUME NEW p, NEW q, NEW left,
             pc'[r] = p, queue'[r] = q, todo'[r] = left,
             \A a \in Operation : a = op'[r] => a = o,
             ~Exempt(o, "unlock"),
             \A j \in {1, 2}, i \in Path :
                 /\ SharesAt(o, p, q, left, j, i) =>
                       SharesAt(o, "unlock", queue[r], todo[r], j, i) /\ ~(j = n /\ i = k)
                 /\ ClaimsAt(o, p, q, left, j, i) =>
                       ClaimsAt(o, "unlock", queue[r], todo[r], j, i) /\ ~(j = n /\ i = k),
             NEW i \in Path
      PROVE  EnoughOf(r, i)'
  <2>1. EnoughOf(r, i) /\ shared[r][i] \in Nat /\ shared'[r][i] \in Nat
    BY <1>1, <1>2, <1>3, <1>5, OperationAssumption DEF IInv, RequestOK, TypeOK, LocksTo, LockTypes
  <2>2. \A a \in Operation, j \in {1, 2} :
            SharesFor(r, a, j, i)' => SharesFor(r, a, j, i) /\ ~(a = o /\ j = n /\ i = k)
    BY <1>1, <1>2, <1>5 DEF SharesFor
  <2>3. \A a \in Operation, j \in {1, 2} :
            ClaimsFor(r, a, j, i)' => ClaimsFor(r, a, j, i) /\ ~(a = o /\ j = n /\ i = k)
    BY <1>1, <1>2, <1>5 DEF ClaimsFor
  <2>4. CASE i # k
    <3>1. shared'[r][i] = shared[r][i] /\ writer'[i] = writer[i]
      BY <1>3, <2>4 DEF LocksTo
    <3>2. \A a \in Operation, j \in {1, 2} : SharesFor(r, a, j, i)' => SharesFor(r, a, j, i)
      BY <2>2
    <3>3. \A a \in Operation, j \in {1, 2} : ClaimsFor(r, a, j, i)' => ClaimsFor(r, a, j, i)
      BY <2>3
    <3>4. writer[i] = {r} => writer'[i] = {r}
      BY <3>1
    <3> QED
      BY <2>1, <3>1, <3>2, <3>3, <3>4, EnoughKept
  <2>5. CASE i = k /\ exclusive
    <3>1. ClaimsFor(r, o, n, i)
      BY <1>1, <1>4, <2>5 DEF ClaimsFor
    <3>2. \A a \in Operation, j \in {1, 2} : SharesFor(r, a, j, i)' => SharesFor(r, a, j, i)
      BY <2>2
    <3>3. \A a \in Operation, j \in {1, 2} : ClaimsFor(r, a, j, i)' => ClaimsFor(r, a, j, i) /\ ~(a = o /\ j = n)
      BY <2>3, <2>5
    <3>4. o \in Operation /\ n \in {1, 2}
      BY <1>2
    <3> HIDE DEF o, n
    <3> QED
      BY <2>1, <3>1, <3>2, <3>3, <3>4, EnoughUnclaimed
  <2>6. CASE i = k /\ ~exclusive
    <3>1. SharesFor(r, o, n, i)
      BY <1>1, <1>4, <2>6 DEF SharesFor
    <3>2. \A a \in Operation, j \in {1, 2} : SharesFor(r, a, j, i)' => SharesFor(r, a, j, i) /\ ~(a = o /\ j = n)
      BY <2>2, <2>6
    <3>3. \A a \in Operation, j \in {1, 2} : ClaimsFor(r, a, j, i)' => ClaimsFor(r, a, j, i)
      BY <2>3
    <3>4. o \in Operation /\ n \in {1, 2}
      BY <1>2
    <3>5. shared[r][i] > 0 => shared'[r][i] = shared[r][i] - 1
      BY <1>1, <1>2, <2>6 DEF ReleaseShared, Count, TypeOK
    <3> HIDE DEF o, n
    <3> QED
      BY <2>1, <3>1, <3>2, <3>3, <3>4, <3>5, EnoughReleased
  <2> QED
    BY <2>4, <2>5, <2>6
<1>6. CASE More(r, k)
  <2>1. /\ op' = op /\ unguarded' = unguarded
        /\ \/ /\ todo[r] = {k} /\ n = 2
              /\ ControlTo(r, "unlock", Tail(queue[r]), KeysAt(o, 1))
           \/ ControlTo(r, "unlock", queue[r], todo[r] \ {k})
    BY <1>1, <1>6, AdvanceTo
  <2>2. "unlock" \in Phase \ {"idle"} /\ pc[r] # "idle"
    BY <1>1 DEF Phase
  <2>3. CASE todo[r] = {k} /\ n = 2 /\ ControlTo(r, "unlock", Tail(queue[r]), KeysAt(o, 1))
    <3>1. Len(queue[r]) = 2 /\ Len(queue[r]) > 1
      BY <2>3
    <3>2. /\ Len(Tail(queue[r])) = 1 /\ Rest(o, Tail(queue[r]))
          /\ Head(Tail(queue[r])).type = "shared"
      BY <1>2, <3>1, RestTail DEF Shape
    <3> DEFINE next == Tail(queue[r])
    <3>a. Len(next) = 1 /\ Rest(o, next)
      BY <3>2
    <3> HIDE DEF next
    <3>b. Shape(o, "unlock", next, KeysAt(o, 1))
      BY <3>a DEF Shape
    <3>c. \A j \in {1, 2}, i \in Path : SharesAt(o, "unlock", next, KeysAt(o, 1), j, i) => j = 1
      BY <3>a DEF SharesAt
    <3> USE DEF next
    <3>3. Shape(o, "unlock", Tail(queue[r]), KeysAt(o, 1))
      BY <3>b
    <3>4. ASSUME NEW j \in {1, 2}, NEW i \in Path
          PROVE  /\ SharesAt(o, "unlock", Tail(queue[r]), KeysAt(o, 1), j, i) =>
                       SharesAt(o, "unlock", queue[r], todo[r], j, i) /\ ~(j = n /\ i = k)
                 /\ ~ClaimsAt(o, "unlock", Tail(queue[r]), KeysAt(o, 1), j, i)
      <4>1. ~ClaimsAt(o, "unlock", Tail(queue[r]), KeysAt(o, 1), j, i)
        BY <3>2 DEF ClaimsAt
      <4>2. SharesAt(o, "unlock", Tail(queue[r]), KeysAt(o, 1), j, i) => j = 1
        BY <3>c
      <4>3. CASE j = 1
        BY <3>1, <4>1, <4>3 DEF SharesAt, ClaimsAt
      <4> QED
        BY <4>1, <4>2, <4>3
    <3>5. ASSUME ~Exempt(o, "unlock"), NEW i \in Path
          PROVE  EnoughOf(r, i)'
      <4>1. /\ pc'[r] = "unlock" /\ queue'[r] = Tail(queue[r]) /\ todo'[r] = KeysAt(o, 1)
            /\ \A a \in Operation : a = op'[r] => a = o
        BY <2>1, <2>3 DEF ControlTo
      <4> HIDE DEF o, n
      <4> QED
        BY <1>5, <3>4, <3>5, <4>1
    <3> QED
      BY <1>1, <1>3, <2>1, <2>2, <2>3, <3>3, <3>5, StepKeeps
  <2>4. CASE ControlTo(r, "unlock", queue[r], todo[r] \ {k})
    <3>1. Shape(o, "unlock", queue[r], todo[r] \ {k})
      BY <1>2 DEF Shape
    <3>2. ASSUME NEW j \in {1, 2}, NEW i \in Path
          PROVE  /\ SharesAt(o, "unlock", queue[r], todo[r] \ {k}, j, i) =>
                       SharesAt(o, "unlock", queue[r], todo[r], j, i) /\ ~(j = n /\ i = k)
                 /\ ClaimsAt(o, "unlock", queue[r], todo[r] \ {k}, j, i) =>
                       ClaimsAt(o, "unlock", queue[r], todo[r], j, i) /\ ~(j = n /\ i = k)
      <4>1. ClaimsAt(o, "unlock", queue[r], todo[r] \ {k}, j, i) =>
                ClaimsAt(o, "unlock", queue[r], todo[r], j, i) /\ ~(j = n /\ i = k)
        BY DEF ClaimsAt
      <4>2. ClaimsAt(o, "unlock", queue[r], todo[r], j, i) /\ i # k =>
                ClaimsAt(o, "unlock", queue[r], todo[r] \ {k}, j, i)
        BY DEF ClaimsAt
      <4>3. ASSUME SharesAt(o, "unlock", queue[r], todo[r] \ {k}, j, i)
            PROVE  SharesAt(o, "unlock", queue[r], todo[r], j, i) /\ ~(j = n /\ i = k)
        <5>0. n \in Nat
          BY <1>2
        <5>1. ~(j = n /\ i = k)
          BY <4>3, <5>0 DEF SharesAt
        <5>2. ClaimsAt(o, "unlock", queue[r], todo[r], j, i) => j = n
          BY DEF ClaimsAt
        <5>3. ~ClaimsAt(o, "unlock", queue[r], todo[r], j, i)
          BY <4>2, <4>3, <5>1, <5>2 DEF SharesAt
        <5> QED
          BY <4>3, <5>1, <5>3 DEF SharesAt
      <4> QED
        BY <4>1, <4>3
    <3>3. ASSUME ~Exempt(o, "unlock"), NEW i \in Path
          PROVE  EnoughOf(r, i)'
      <4>1. /\ pc'[r] = "unlock" /\ queue'[r] = queue[r] /\ todo'[r] = todo[r] \ {k}
            /\ \A a \in Operation : a = op'[r] => a = o
        BY <2>1, <2>4 DEF ControlTo
      <4> HIDE DEF o, n
      <4> QED
        BY <1>5, <3>2, <3>3, <4>1
    <3> QED
      BY <1>1, <1>3, <2>1, <2>2, <2>4, <3>1, <3>3, StepKeeps
  <2> QED
    BY <2>1, <2>3, <2>4
<1>7. CASE ~More(r, k)
  <2>1. Return(r) /\ unguarded' = unguarded
    BY <1>1, <1>7
  <2>2. /\ pc'[r] = "idle" /\ queue'[r] = <<>> /\ todo'[r] = {} /\ op'[r] = NoOperation
        /\ \A i \in Request \ {r} : pc'[i] = pc[i] /\ queue'[i] = queue[i] /\ todo'[i] = todo[i] /\ op'[i] = op[i]
    BY <1>2, <2>1 DEF Return, Goto, TypeOK
  <2>3. Others(r)
    BY <1>1, <1>3, <2>2 DEF Others, LocksTo
  <2>4. ASSUME NEW i \in Path, ~Exempt(o, "unlock")
        PROVE  EnoughOf(r, i)'
    <3>1. \A a \in Operation : a = op'[r] => a = o
      BY <2>2, OperationAssumption
    <3>2. \A j \in {1, 2}, h \in Path :
              ~SharesAt(o, "idle", <<>>, {}, j, h) /\ ~ClaimsAt(o, "idle", <<>>, {}, j, h)
      BY DEF SharesAt, ClaimsAt
    <3> HIDE DEF o, n
    <3> QED
      BY <1>5, <2>2, <2>4, <3>1, <3>2
  <2>5. unguarded' \in [Request -> BOOLEAN]
    BY <1>2, <2>1 DEF TypeOK
  <2> QED
    BY <1>1, <1>3, <2>1, <2>3, <2>4, <2>5, LeaveKeeps DEF LocksTo
<1> QED
  BY <1>6, <1>7

\* fopen returns a handle, and its locks become those of the handle.
LEMMA OpenKeeps ==
    ASSUME IsFiniteSet(Operation), IInv, NEW r \in Request, pc[r] = "work",
           op[r].kind \in {"openRead", "openWrite"}, Return(r),
           handles' = [handles EXCEPT ![r] = @ \cup {op[r]}],
           unguarded' = unguarded, UNCHANGED locks
    PROVE  IInv'
<1> DEFINE o == op[r]
<1>1. TypeOK /\ o \in Operation /\ FileCount(o) = 1
  BY Operating DEF IInv, FileCount
<1>2. readers' = readers /\ writer' = writer /\ shared' = shared
  BY DEF locks
<1>3. /\ op' = [op EXCEPT ![r] = NoOperation] /\ "idle" \in Phase /\ <<>> \in Seq(File)
      /\ Goto(r, "idle", <<>>)
  BY EmptySeq DEF Return, Phase
<1>4. /\ pc' \in [Request -> Phase] /\ queue' \in [Request -> Seq(File)]
      /\ todo' \in [Request -> SUBSET Path] /\ pc'[r] = "idle"
      /\ \A i \in Request \ {r} : pc'[i] = pc[i] /\ queue'[i] = queue[i] /\ todo'[i] = todo[i]
  BY <1>1, <1>3, Goes
<1>5. /\ op' \in [Request -> Operation \cup {NoOperation}] /\ op'[r] = NoOperation
      /\ \A i \in Request \ {r} : op'[i] = op[i]
  BY <1>1, <1>3 DEF TypeOK
<1>6. /\ handles' \in [Request -> SUBSET Operation] /\ handles'[r] = handles[r] \cup {o}
      /\ \A i \in Request \ {r} : handles'[i] = handles[i]
  BY <1>1 DEF TypeOK
<1>7. TypeOK'
  <2>1. \A i \in Request : op'[i] = NoOperation <=> pc'[i] = "idle"
    BY <1>1, <1>4, <1>5 DEF TypeOK
  <2> QED
    BY <1>1, <1>2, <1>4, <1>5, <1>6, <2>1 DEF TypeOK, Phase, Lock!TypeOK
<1>8. LocksOK' /\ Others(r)
  BY <1>2, <1>4, <1>5, <1>6 DEF IInv, LocksOK, Others
<1>9. Shape(op[r], pc[r], queue[r], todo[r])' /\ HandlesOK(r)'
  <2>1. \A h \in handles[r] : h.kind \in {"openRead", "openWrite"}
    BY DEF IInv, RequestOK, HandlesOK
  <2> QED
    BY <1>4, <1>6, <2>1 DEF Shape, HandlesOK
<1>10. ASSUME NEW k \in Path
       PROVE  EnoughOf(r, k)'
  <2>1. EnoughOf(r, k) /\ shared[r][k] \in Nat
    <3>1. ~Exempt(o, pc[r])
      BY DEF Exempt
    <3>2. shared[r][k] \in Nat
      BY <1>1, OperationAssumption DEF TypeOK
    <3> QED
      BY <3>1, <3>2 DEF IInv, RequestOK
  <2>2. ClaimsAt(o, pc[r], queue[r], todo[r], 1, k) <=> o.kind = "openWrite" /\ k = OwnKeyAt(o, 1)
    BY <1>1 DEF ClaimsAt, ClaimsFile
  <2>3. SharesAt(o, pc[r], queue[r], todo[r], 1, k) <=>
            k \in KeysAt(o, 1) /\ ~(o.kind = "openWrite" /\ k = OwnKeyAt(o, 1))
    BY <1>1, <2>2 DEF SharesAt
  <2>4. ASSUME NEW a \in Operation, NEW j \in {1, 2}, SharesFor(r, a, j, k)'
        PROVE  SharesFor(r, a, j, k)
    <3>1. /\ a \in handles[r] \cup {o} /\ j = 1 /\ k \in KeysAt(a, 1)
          /\ ~(a.kind = "openWrite" /\ k = OwnKeyAt(a, 1))
      BY <1>4, <1>6, <2>4 DEF SharesFor, SharesAt
    <3> QED
      BY <2>3, <3>1 DEF SharesFor
  <2>5. ASSUME NEW a \in Operation, NEW j \in {1, 2}, ClaimsFor(r, a, j, k)'
        PROVE  ClaimsFor(r, a, j, k)
    <3>1. a \in handles[r] \cup {o} /\ j = 1 /\ a.kind = "openWrite" /\ k = OwnKeyAt(a, 1)
      BY <1>4, <1>6, <2>5 DEF ClaimsFor, ClaimsAt
    <3> QED
      BY <2>2, <3>1 DEF ClaimsFor
  <2> QED
    BY <1>2, <2>1, <2>4, <2>5, EnoughKept
<1>11. RequestOK(r)'
  BY <1>9, <1>10 DEF RequestOK
<1> QED
  BY <1>7, <1>8, <1>11, OneRequest

LEMMA WorkDoneKeeps ==
    ASSUME IsFiniteSet(Operation), IInv, NEW r \in Request, WorkDone(r)
    PROVE  IInv'
<1>1. pc[r] = "work" /\ UNCHANGED locks /\ pc[r] # "idle"
  BY DEF WorkDone
<1>2. CASE op[r].kind \in {"openRead", "openWrite"}
  <2>1. /\ Return(r) /\ handles' = [handles EXCEPT ![r] = @ \cup {op[r]}]
        /\ unguarded' = unguarded
    BY <1>2 DEF WorkDone
  <2> QED
    BY <1>1, <1>2, <2>1, OpenKeeps
<1>3. CASE op[r].kind = "read"
  <2>1. UnlockAll(r) /\ UNCHANGED <<locks, handles>>
    BY <1>1, <1>3 DEF WorkDone
  <2> QED
    BY <1>1, <1>3, <2>1, UnlockAllKeeps
<1>4. CASE op[r].kind \notin {"openRead", "openWrite", "read"}
  <2>1. Continue(r, "back", Claims(op[r])) /\ UNCHANGED <<locks, handles>>
    BY <1>1, <1>4 DEF WorkDone
  <2> QED
    BY <1>1, <1>4, <2>1, BackKeeps
<1> QED
  BY <1>2, <1>3, <1>4

\* The callback of a handle gives back what the open file needed.
LEMMA CloseKeeps ==
    ASSUME IsFiniteSet(Operation), IInv, NEW r \in Request, NEW o \in Operation, Close(r, o)
    PROVE  IInv'
<1> DEFINE q == IF o.kind = "openWrite" THEN <<Exclusive(o.source)>> ELSE <<Shared(o.source)>>
<1>1. /\ TypeOK /\ pc[r] = "idle" /\ o \in handles[r] /\ o.kind \in {"openRead", "openWrite"}
      /\ handles' = [handles EXCEPT ![r] = @ \ {o}] /\ op' = [op EXCEPT ![r] = o]
      /\ Goto(r, "unlock", q) /\ readers' = readers /\ writer' = writer /\ shared' = shared
      /\ unguarded' = unguarded
  BY DEF Close, locks, IInv, RequestOK, HandlesOK
<1>2. /\ q \in Seq(File) /\ Len(q) = 1 /\ Head(q) = q[1] /\ q[1].path = o.source /\ q # <<>>
      /\ Head(q).type = "exclusive" <=> o.kind = "openWrite"
  <2>1. Exclusive(o.source) \in File /\ Shared(o.source) \in File
    BY OperationType DEF File, Exclusive, Shared
  <2>2. CASE o.kind = "openWrite"
    <3>1. q = <<Exclusive(o.source)>>
      BY <2>2
    <3> HIDE DEF q
    <3> QED
      BY <2>1, <2>2, <3>1 DEF Exclusive
  <2>3. CASE o.kind # "openWrite"
    <3>1. q = <<Shared(o.source)>>
      BY <2>3
    <3> HIDE DEF q
    <3> QED
      BY <2>1, <2>3, <3>1 DEF Shared
  <2> QED
    BY <2>2, <2>3
<1> HIDE DEF q
<1>3. FileCount(o) = 1 /\ PathAt(o, 1) = o.source
  BY <1>1 DEF FileCount, PathAt
<1>4. /\ op' \in [Request -> Operation \cup {NoOperation}] /\ op'[r] = o
      /\ \A i \in Request \ {r} : op'[i] = op[i]
  BY <1>1 DEF TypeOK
<1>5. LocksOfHead(op'[r], "unlock", q) = KeysAt(o, 1)
  BY <1>2, <1>3, <1>4 DEF LocksOfHead, KeysAt
<1>6. /\ pc' \in [Request -> Phase] /\ queue' \in [Request -> Seq(File)]
      /\ todo' \in [Request -> SUBSET Path]
      /\ pc'[r] = "unlock" /\ queue'[r] = q /\ todo'[r] = KeysAt(o, 1)
      /\ \A i \in Request \ {r} : pc'[i] = pc[i] /\ queue'[i] = queue[i] /\ todo'[i] = todo[i]
  <2>1. "unlock" \in Phase
    BY DEF Phase
  <2> QED
    BY <1>1, <1>2, <1>5, <2>1, Goes
<1>7. /\ handles' \in [Request -> SUBSET Operation] /\ handles'[r] = handles[r] \ {o}
      /\ \A i \in Request \ {r} : handles'[i] = handles[i]
  BY <1>1 DEF TypeOK
<1>8. TypeOK'
  <2>1. \A i \in Request : op'[i] = NoOperation <=> pc'[i] = "idle"
    BY <1>1, <1>4, <1>6, OperationAssumption DEF TypeOK
  <2> QED
    BY <1>1, <1>4, <1>6, <1>7, <2>1 DEF TypeOK, Phase, Lock!TypeOK
<1>9. LocksOK' /\ Others(r)
  BY <1>1, <1>4, <1>6, <1>7 DEF IInv, LocksOK, Others
<1>10. Shape(op[r], pc[r], queue[r], todo[r])'
  <2>1. Rest(o, q)
    BY <1>2, <1>3 DEF Rest
  <2>2. Shape(o, "unlock", q, KeysAt(o, 1))
    BY <1>2, <2>1 DEF Shape
  <2> QED
    BY <1>4, <1>6, <2>2
<1>11. HandlesOK(r)'
  <2>1. \A h \in handles[r] : h.kind \in {"openRead", "openWrite"}
    BY DEF IInv, RequestOK, HandlesOK
  <2> QED
    BY <1>1, <1>4, <1>7, <2>1 DEF HandlesOK
<1>12. ASSUME NEW k \in Path
       PROVE  EnoughOf(r, k)'
  <2>1. EnoughOf(r, k) /\ shared[r][k] \in Nat
    <3>1. ~Exempt(op[r], pc[r])
      BY <1>1 DEF Exempt
    <3>2. shared[r][k] \in Nat
      BY <1>1, OperationAssumption DEF TypeOK
    <3> QED
      BY <3>1, <3>2 DEF IInv, RequestOK
  <2>2. ASSUME NEW j \in {1, 2}
        PROVE  ClaimsAt(o, "unlock", q, KeysAt(o, 1), j, k) <=>
                   j = 1 /\ o.kind = "openWrite" /\ k = OwnKeyAt(o, 1)
    <3>1. OwnKeyAt(o, 1) \in KeysAt(o, 1)
      BY OperationType, KeysType DEF OwnKeyAt, KeysAt
    <3> QED
      BY <1>2, <1>3, <3>1 DEF ClaimsAt
  <2>3. ASSUME NEW j \in {1, 2}, SharesAt(o, "unlock", q, KeysAt(o, 1), j, k)
        PROVE  j = 1 /\ k \in KeysAt(o, 1) /\ ~(o.kind = "openWrite" /\ k = OwnKeyAt(o, 1))
    <3>1. j = 1 /\ k \in KeysAt(o, 1) /\ ~ClaimsAt(o, "unlock", q, KeysAt(o, 1), j, k)
      BY <1>2, <1>3, <2>3 DEF SharesAt
    <3> QED
      BY <2>2, <3>1
  <2>4. \A a \in Operation, j \in {1, 2} : SharesFor(r, a, j, k)' => SharesFor(r, a, j, k)
    BY <1>1, <1>4, <1>6, <1>7, <2>3 DEF SharesFor
  <2>5. \A a \in Operation, j \in {1, 2} : ClaimsFor(r, a, j, k)' => ClaimsFor(r, a, j, k)
    BY <1>1, <1>4, <1>6, <1>7, <2>2 DEF ClaimsFor
  <2> QED
    BY <1>1, <2>1, <2>4, <2>5, EnoughKept
<1>13. RequestOK(r)'
  BY <1>10, <1>11, <1>12 DEF RequestOK
<1> QED
  BY <1>8, <1>9, <1>13, OneRequest

\* A request ends without any lock.
LEMMA EndKeeps ==
    ASSUME IsFiniteSet(Operation), IInv, NEW r \in Request, End(r)
    PROVE  IInv'
<1>1. /\ TypeOK /\ LocksOK
      /\ readers' = [p \in Path |-> readers[p] \ {r}]
      /\ writer' = [p \in Path |-> writer[p] \ {r}]
      /\ shared' = [shared EXCEPT ![r] = [k \in Path |-> 0]]
      /\ op' = [op EXCEPT ![r] = NoOperation] /\ Goto(r, "idle", <<>>)
      /\ handles' = [handles EXCEPT ![r] = {}]
      /\ unguarded' = [unguarded EXCEPT ![r] = FALSE]
  BY DEF End, Return, Lock!Vanish, IInv
<1>2. "idle" \in Phase /\ <<>> \in Seq(File)
  BY EmptySeq DEF Phase
<1>3. /\ pc' \in [Request -> Phase] /\ queue' \in [Request -> Seq(File)]
      /\ todo' \in [Request -> SUBSET Path] /\ pc'[r] = "idle"
      /\ \A i \in Request \ {r} : pc'[i] = pc[i] /\ queue'[i] = queue[i] /\ todo'[i] = todo[i]
  BY <1>1, <1>2, Goes
<1>4. /\ op' \in [Request -> Operation \cup {NoOperation}] /\ op'[r] = NoOperation
      /\ \A i \in Request \ {r} : op'[i] = op[i]
  BY <1>1 DEF TypeOK
<1>5. /\ handles' \in [Request -> SUBSET Operation] /\ handles'[r] = {}
      /\ \A i \in Request \ {r} : handles'[i] = handles[i]
      /\ unguarded' \in [Request -> BOOLEAN]
  BY <1>1 DEF TypeOK
<1>6. /\ shared' \in [Request -> [Path -> 0..MaxShared]]
      /\ \A k \in Path : shared'[r][k] = 0
      /\ \A i \in Request \ {r} : shared'[i] = shared[i]
  BY <1>1, OperationAssumption DEF TypeOK
<1>7. readers' \in [Path -> SUBSET Request] /\ writer' \in [Path -> SUBSET Request]
  BY <1>1 DEF TypeOK, Lock!TypeOK
<1>8. TypeOK'
  <2>1. \A i \in Request : op'[i] = NoOperation <=> pc'[i] = "idle"
    BY <1>1, <1>3, <1>4 DEF TypeOK
  <2> QED
    BY <1>3, <1>4, <1>5, <1>6, <1>7, <2>1 DEF TypeOK, Phase, Lock!TypeOK
<1>9. LocksOK'
  <2>1. ASSUME NEW k \in Path, writer'[k] # {}
        PROVE  readers'[k] = {} /\ \E i \in Request : writer'[k] = {i}
    <3>1. writer'[k] = writer[k] \ {r} /\ readers'[k] = readers[k] \ {r}
      BY <1>1
    <3>2. writer[k] # {}
      BY <2>1, <3>1
    <3>3. PICK i \in Request : readers[k] = {} /\ writer[k] = {i}
      BY <1>1, <3>2 DEF LocksOK
    <3>4. writer'[k] = {i}
      BY <2>1, <3>1, <3>3
    <3> QED
      BY <3>1, <3>3, <3>4
  <2>2. ASSUME NEW i \in Request, NEW k \in Path
        PROVE  i \in readers'[k] <=> shared'[i][k] > 0
    BY <1>1, <1>6 DEF LocksOK
  <2> QED
    BY <2>1, <2>2 DEF LocksOK
<1>10. Others(r)
  <2>1. ASSUME NEW i \in Request \ {r}, NEW k \in Path, writer[k] = {i}
        PROVE  writer'[k] = {i}
    BY <1>1, <2>1
  <2> QED
    BY <1>3, <1>4, <1>5, <1>6, <2>1 DEF Others
<1>11. RequestOK(r)'
  <2>1. Shape(op[r], pc[r], queue[r], todo[r])' /\ HandlesOK(r)'
    BY <1>3, <1>5 DEF Shape, HandlesOK
  <2>2. ASSUME NEW k \in Path
        PROVE  EnoughOf(r, k)'
    <3>1. Sharers(r, k)' = {} /\ Claimers(r, k)' = {}
      BY <1>3, <1>5 DEF Sharers, Claimers, SharesFor, ClaimsFor, SharesAt, ClaimsAt
    <3>2. Cardinality(Sharers(r, k)') = 0
      BY <3>1, FS_EmptySet
    <3> QED
      BY <1>6, <3>1, <3>2 DEF EnoughOf
  <2> QED
    BY <2>1, <2>2 DEF RequestOK
<1> QED
  BY <1>8, <1>9, <1>10, <1>11, OneRequest

-----------------------------------------------------------------------------
(***************************************************************************)
(* The invariant, and what follows from it.                                *)
(***************************************************************************)
LEMMA InitIInv == Init => IInv
<1> SUFFICES ASSUME Init PROVE IInv
  OBVIOUS
<1>1. /\ readers = [p \in Path |-> {}] /\ writer = [p \in Path |-> {}]
      /\ shared = [r \in Request |-> [k \in Path |-> 0]]
      /\ op = [r \in Request |-> NoOperation] /\ pc = [r \in Request |-> "idle"]
      /\ queue = [r \in Request |-> <<>>] /\ todo = [r \in Request |-> {}]
      /\ handles = [r \in Request |-> {}] /\ unguarded = [r \in Request |-> FALSE]
  BY DEF Init, Lock!Init
<1>2. TypeOK
  <2>1. <<>> \in Seq(File)
    BY EmptySeq
  <2>2. 0 \in 0..MaxShared
    BY OperationAssumption
  <2> QED
    BY <1>1, <2>1, <2>2 DEF TypeOK, Lock!TypeOK
<1>3. LocksOK
  BY <1>1 DEF LocksOK
<1>4. ASSUME NEW r \in Request
      PROVE  RequestOK(r)
  <2>1. pc[r] = "idle" /\ handles[r] = {}
    BY <1>1
  <2>2. Shape(op[r], pc[r], queue[r], todo[r]) /\ HandlesOK(r)
    BY <2>1 DEF Shape, HandlesOK
  <2>3. ASSUME NEW k \in Path
        PROVE  EnoughOf(r, k)
    <3>1. Sharers(r, k) = {} /\ Claimers(r, k) = {}
      BY <2>1 DEF Sharers, Claimers, SharesFor, ClaimsFor, SharesAt, ClaimsAt
    <3>2. Cardinality(Sharers(r, k)) = 0 /\ shared[r][k] = 0
      BY <1>1, <3>1, FS_EmptySet
    <3> QED
      BY <3>1, <3>2 DEF EnoughOf
  <2> QED
    BY <2>2, <2>3 DEF RequestOK
<1> QED
  BY <1>2, <1>3, <1>4 DEF IInv

LEMMA NextIInv ==
    ASSUME Assumptions, IInv, [Next]_vars
    PROVE  IInv'
<1> USE DEF Assumptions
<1>1. CASE UNCHANGED vars
  <2>1. /\ readers' = readers /\ writer' = writer /\ shared' = shared /\ op' = op /\ pc' = pc
        /\ queue' = queue /\ todo' = todo /\ handles' = handles /\ unguarded' = unguarded
    BY <1>1 DEF vars, locks, control
  <2>2. TypeOK' /\ LocksOK'
    BY <2>1 DEF IInv, TypeOK, Lock!TypeOK, LocksOK
  <2>3. ASSUME NEW r \in Request
        PROVE  RequestOK(r)'
    <3>1. Shape(op[r], pc[r], queue[r], todo[r])' /\ HandlesOK(r)'
      BY <2>1 DEF IInv, RequestOK, HandlesOK
    <3>2. ASSUME NEW k \in Path, EnoughOf(r, k)
          PROVE  EnoughOf(r, k)'
      <4>1. shared[r][k] \in Nat
        BY OperationAssumption DEF IInv, TypeOK
      <4>2. \A o \in Operation, j \in {1, 2} : SharesFor(r, o, j, k)' => SharesFor(r, o, j, k)
        BY <2>1 DEF SharesFor
      <4>3. \A o \in Operation, j \in {1, 2} : ClaimsFor(r, o, j, k)' => ClaimsFor(r, o, j, k)
        BY <2>1 DEF ClaimsFor
      <4> QED
        BY <2>1, <3>2, <4>1, <4>2, <4>3, EnoughKept
    <3> QED
      BY <2>1, <3>1, <3>2 DEF IInv, RequestOK
  <2> QED
    BY <2>2, <2>3 DEF IInv
<1>2. ASSUME NEW r \in Request, Step(r)
      PROVE  IInv'
  <2>1. ASSUME NEW o \in Operation, Start(r, o) \/ Close(r, o)
        PROVE  IInv'
    BY <2>1, StartKeeps, CloseKeeps
  <2>2. ASSUME NEW k \in Path, Acquire(r, k) \/ Release(r, k)
        PROVE  IInv'
    BY <2>2, AcquireKeeps, ReleaseKeeps
  <2>3. CASE \/ Refused(r) \/ Hooks(r) \/ Veto(r) \/ HooksThrow(r) \/ ClaimRefused(r)
             \/ WorkFailed(r) \/ StorageThrows(r) \/ UpdateThrows(r) \/ PostHooks(r)
    BY <2>3, QuietKeeps
  <2>4. CASE Claim(r) \/ Back(r) \/ WorkDone(r)
    BY <2>4, ClaimKeeps, DowngradeKeeps, WorkDoneKeeps
  <2> QED
    BY <1>2, <2>1, <2>2, <2>3, <2>4 DEF Step
<1>3. ASSUME NEW r \in Request, End(r)
      PROVE  IInv'
  BY <1>3, EndKeeps
<1> QED
  BY <1>1, <1>2, <1>3 DEF Next

\* A lock that is needed is held.
LEMMA Held ==
    ASSUME IsFiniteSet(Operation), IInv, NEW r \in Request, NEW k \in Path,
           ~Exempt(op[r], pc[r]), NEW o \in Operation, NEW j \in {1, 2}
    PROVE  /\ ClaimsFor(r, o, j, k) => writer[k] = {r}
           /\ SharesFor(r, o, j, k) => shared[r][k] > 0
<1>1. EnoughOf(r, k) /\ shared[r][k] \in Nat
  BY OperationAssumption DEF IInv, RequestOK, TypeOK
<1>2. ASSUME ClaimsFor(r, o, j, k)
      PROVE  writer[k] = {r}
  <2>1. <<o, j>> \in Claimers(r, k)
    BY <1>2 DEF Claimers, Needs
  <2> QED
    BY <1>1, <2>1 DEF EnoughOf
<1>3. ASSUME SharesFor(r, o, j, k)
      PROVE  shared[r][k] > 0
  <2>1. <<o, j>> \in Sharers(r, k) /\ Sharers(r, k) \subseteq Needs
    BY <1>3 DEF Sharers, Needs
  <2>2. IsFiniteSet(Sharers(r, k)) /\ Cardinality(Sharers(r, k)) \in Nat
    BY <2>1, NeedsFinite
  <2>3. Cardinality(Sharers(r, k)) # 0
    BY <2>1, <2>2, FS_EmptySet
  <2>4. Cardinality(Sharers(r, k)) <= shared[r][k]
    BY <1>1 DEF EnoughOf
  <2> QED
    BY <1>1, <2>2, <2>3, <2>4
<1> QED
  BY <1>2, <1>3

\* The own locks of the files of an operation, and of those it changes.
LEMMA KeysOf ==
    ASSUME NEW o \in Operation, NEW k
    PROVE  /\ k \in Keys(o, Files(o)) => \E j \in {1, 2} : j \in 1..FileCount(o) /\ k = OwnKeyAt(o, j)
           /\ k \in Keys(o, Claims(o)) =>
                 \E j \in {1, 2} : j \in 1..FileCount(o) /\ k = OwnKeyAt(o, j) /\ ClaimsFile(o, j)
<1>0. \A j : j \in 1..FileCount(o) => j \in {1, 2}
  <2>1. FileCount(o) = 1 \/ FileCount(o) = 2
    BY CountType
  <2> QED
    BY <2>1
<1>1. ASSUME k \in Keys(o, Files(o))
      PROVE  \E j \in {1, 2} : j \in 1..FileCount(o) /\ k = OwnKeyAt(o, j)
  <2>1. /\ Files(o) \in Seq(File) /\ Len(Files(o)) = FileCount(o)
        /\ \A i \in 1..Len(Files(o)) : Files(o)[i].path = PathAt(o, Len(Files(o)) + 1 - i)
    BY FilesShape DEF Rest
  <2>2. PICK i \in 1..Len(Files(o)) : k = OwnKey(o.kind, Files(o)[i].path)
    BY <1>1, <2>1 DEF Keys
  <2>3. k = OwnKeyAt(o, Len(Files(o)) + 1 - i)
    BY <2>1, <2>2 DEF OwnKeyAt
  <2>4. FileCount(o) \in Nat
    BY CountType
  <2>5. Len(Files(o)) + 1 - i \in 1..FileCount(o)
    BY <2>1, <2>2, <2>4
  <2> QED
    BY <1>0, <2>3, <2>5
<1>2. ASSUME k \in Keys(o, Claims(o))
      PROVE  \E j \in {1, 2} : j \in 1..FileCount(o) /\ k = OwnKeyAt(o, j) /\ ClaimsFile(o, j)
  <2>1. Claims(o) \in Seq(File)
    BY ClaimsShape
  <2>2. PICK i \in 1..Len(Claims(o)) : k = OwnKey(o.kind, Claims(o)[i].path)
    BY <1>2, <2>1 DEF Keys
  <2>3. CASE o.kind = "rename"
    <3>1. Claims(o) = Files(o)
      BY <2>3, ClaimsShape
    <3>2. \A j \in {1, 2} : ClaimsFile(o, j)
      BY <2>3 DEF ClaimsFile
    <3>3. k \in Keys(o, Files(o))
      BY <1>2, <3>1
    <3> QED
      BY <1>1, <3>2, <3>3
  <2>4. CASE o.kind # "rename"
    <3>1. Claims(o) # <<>>
      BY <2>2, EmptySeq
    <3>2. PICK j \in 1..FileCount(o) : ClaimsFile(o, j) /\ Claims(o)[1].path = PathAt(o, j)
      BY <2>4, <3>1, ClaimsShape
    <3>3. Len(Claims(o)) = 1
      BY <2>4, <3>1, ClaimsShape
    <3>4. i = 1
      BY <2>2, <3>3
    <3> QED
      BY <1>0, <2>2, <3>2, <3>4 DEF OwnKeyAt
  <2> QED
    BY <2>3, <2>4
<1> QED
  BY <1>1, <1>2

\* What a request works on, or has open.
LEMMA BusyNeeds ==
    ASSUME IInv, NEW r \in Request, NEW o \in Busy(r)
    PROVE  /\ o \in Operation /\ ~Exempt(op[r], pc[r])
           /\ \A j \in {1, 2}, k \in Path :
                 /\ j \in 1..FileCount(o) /\ ClaimsFile(o, j) /\ k = OwnKeyAt(o, j) =>
                       ClaimsFor(r, o, j, k)
                 /\ j \in 1..FileCount(o) /\ k \in KeysAt(o, j) =>
                       ClaimsFor(r, o, j, k) \/ SharesFor(r, o, j, k)
<1>1. CASE o \in handles[r]
  <2>1. /\ o \in Operation /\ o.kind \in {"openRead", "openWrite"}
        /\ pc[r] # "idle" => op[r].kind # "rename"
    BY <1>1 DEF IInv, TypeOK, RequestOK, HandlesOK
  <2>2. ~Exempt(op[r], pc[r])
    BY <2>1 DEF Exempt
  <2>3. FileCount(o) = 1 /\ \A j : ClaimsFile(o, j) <=> o.kind = "openWrite"
    BY <2>1 DEF FileCount, ClaimsFile
  <2> QED
    BY <1>1, <2>1, <2>2, <2>3 DEF ClaimsFor, SharesFor
<1>2. CASE o \notin handles[r]
  <2>1. o \in Operation /\ pc[r] = "work" /\ op[r] = o
    BY <1>2 DEF Busy
  <2>2. ~Exempt(op[r], pc[r])
    BY <2>1 DEF Exempt
  <2>3. \A j \in {1, 2}, k \in Path :
            /\ j \in 1..FileCount(o) /\ ClaimsFile(o, j) /\ k = OwnKeyAt(o, j) =>
                  ClaimsAt(o, "work", queue[r], todo[r], j, k)
            /\ j \in 1..FileCount(o) /\ k \in KeysAt(o, j) =>
                  \/ ClaimsAt(o, "work", queue[r], todo[r], j, k)
                  \/ SharesAt(o, "work", queue[r], todo[r], j, k)
    BY DEF ClaimsAt, SharesAt
  <2> QED
    BY <2>1, <2>2, <2>3 DEF ClaimsFor, SharesFor
<1> QED
  BY <1>1, <1>2

LEMMA TreeIsExclusive ==
    ASSUME IsFiniteSet(Operation), IInv
    PROVE  TreeExclusion
<1> SUFFICES ASSUME NEW r1 \in Request, NEW r2 \in Request, r1 # r2,
                    NEW k1 \in Changed(r1), NEW k2 \in Used(r2), k1 \in UpTo(k2)
             PROVE  FALSE
  BY DEF TreeExclusion
<1>1. PICK o1 \in Busy(r1) : k1 \in Keys(o1, Claims(o1))
  BY DEF Changed
<1>2. PICK o2 \in Busy(r2) : k2 \in Keys(o2, Files(o2))
  BY DEF Used
<1>3. o1 \in Operation /\ ~Exempt(op[r1], pc[r1]) /\ o2 \in Operation /\ ~Exempt(op[r2], pc[r2])
  BY <1>1, <1>2, BusyNeeds
<1>4. PICK j1 \in {1, 2} : j1 \in 1..FileCount(o1) /\ k1 = OwnKeyAt(o1, j1) /\ ClaimsFile(o1, j1)
  BY <1>1, <1>3, KeysOf
<1>5. PICK j2 \in {1, 2} : j2 \in 1..FileCount(o2) /\ k2 = OwnKeyAt(o2, j2)
  BY <1>2, <1>3, KeysOf
<1>6. k1 \in Path /\ k1 \in KeysAt(o2, j2)
  <2>1. PathAt(o1, j1) \in Path /\ PathAt(o2, j2) \in Path
    BY <1>3, OperationType
  <2>2. k1 \in Path
    BY <1>4, <2>1, KeysType DEF OwnKeyAt
  <2>3. UpTo(OwnKey(o2.kind, PathAt(o2, j2))) \subseteq LockKeys(o2.kind, PathAt(o2, j2))
    BY <2>1, LocksUp
  <2> QED
    BY <1>5, <2>2, <2>3 DEF OwnKeyAt, KeysAt
<1>7. writer[k1] = {r1}
  BY <1>1, <1>3, <1>4, <1>6, BusyNeeds, Held
<1>8. ClaimsFor(r2, o2, j2, k1) \/ SharesFor(r2, o2, j2, k1)
  BY <1>2, <1>5, <1>6, BusyNeeds
<1>9. writer[k1] = {r2} \/ shared[r2][k1] > 0
  BY <1>3, <1>6, <1>8, Held
<1>10. readers[k1] = {} /\ (r2 \in readers[k1] <=> shared[r2][k1] > 0)
  BY <1>6, <1>7 DEF IInv, LocksOK
<1> QED
  BY <1>7, <1>9, <1>10

LEMMA ClaimsAreHeld ==
    ASSUME IsFiniteSet(Operation), IInv
    PROVE  HoldsWhatItClaims
<1> SUFFICES ASSUME NEW r \in Request, pc[r] = "claim"
             PROVE  shared[r][Own(r)] > 0
  BY DEF HoldsWhatItClaims
<1> DEFINE o == op[r]
           k == Own(r)
<1>1. o \in Operation /\ k \in Path
  BY ClaimAtHand
<1>2. PICK n \in {1, 2} :
          /\ n \in 1..FileCount(o) /\ k = OwnKeyAt(o, n) /\ ClaimsFile(o, n)
          /\ IF o.kind = "rename" THEN n = Len(queue[r]) ELSE Len(queue[r]) = 1
  BY ClaimAtHand
<1> HIDE DEF k
<1>3. ~Exempt(o, pc[r])
  BY DEF Exempt
<1>4. k \in KeysAt(o, n)
  BY <1>1, <1>2, OperationType, KeysType DEF KeysAt, OwnKeyAt
<1>5. ASSUME ClaimsAt(o, "claim", queue[r], todo[r], n, k)
      PROVE  FALSE
  <2>1. o.kind = "rename" => n = Len(queue[r])
    BY <1>2
  <2>2. o.kind = "rename" /\ n = 2 /\ Len(queue[r]) = 1
    BY <1>5 DEF ClaimsAt
  <2>3. 2 = 1
    BY <2>1, <2>2, Zenon
  <2> QED
    BY <2>3
<1>6. SharesAt(o, "claim", queue[r], todo[r], n, k)
  BY <1>2, <1>4, <1>5 DEF SharesAt
<1>7. SharesFor(r, o, n, k)
  BY <1>6 DEF SharesFor
<1>8. shared[r][k] > 0
  BY <1>1, <1>3, <1>7, Held
<1> QED
  BY <1>8 DEF k

LEMMA Invariance ==
    ASSUME Assumptions
    PROVE  Spec => []IInv
<1>1. Init => IInv
  BY InitIInv
<1>2. IInv /\ [Next]_vars => IInv'
  BY NextIInv
<1> QED
  BY <1>1, <1>2, PTL DEF Spec

\* The locks, the counters of each request and its control keep their types: a
\* request never counts a lock below zero, or beyond the bound.
THEOREM TypeCorrect ==
    ASSUME Assumptions
    PROVE  Spec => []TypeOK
<1>1. IInv => TypeOK
  BY DEF IInv
<1> QED
  BY <1>1, Invariance, PTL

\* Whatever the tree, the shares and the order of the requests: while View
\* changes a file or folder in the storage, no other request works on it or
\* below it, or has a file open there.
THEOREM NobodyElseBelow ==
    ASSUME Assumptions
    PROVE  Spec => []TreeExclusion
<1>1. IInv => TreeExclusion
  BY TreeIsExclusive DEF Assumptions
<1> QED
  BY <1>1, Invariance, PTL

\* View only asks changeLock for an exclusive lock where it holds a shared one,
\* which is what both lock providers take for granted.
THEOREM ClaimsWhatItHolds ==
    ASSUME Assumptions
    PROVE  Spec => []HoldsWhatItClaims
<1>1. IInv => HoldsWhatItClaims
  BY ClaimsAreHeld DEF Assumptions
<1> QED
  BY <1>1, Invariance, PTL

-----------------------------------------------------------------------------
(***************************************************************************)
(* An operation gives back what it took: unless an exception left one, a   *)
(* request holds no lock more often than it needs it.                      *)
(***************************************************************************)
\* An operation o in phase p, with the files q and the locks left still to be
\* done, has got the lock k for its file j and not given it back.
TakenAt(o, p, q, left, j, k) ==
    /\ p # "idle" /\ j \in 1..FileCount(o) /\ k \in KeysAt(o, j)
    /\ p = "lock" => j > Len(q) \/ (j = Len(q) /\ k \notin left)
    /\ p = "unlock" => j < Len(q) \/ (j = Len(q) /\ k \in left)

NeedsLock(r, o, j, k) ==
    \/ o \in handles[r] /\ j = 1 /\ k \in KeysAt(o, 1)
    \/ o = op[r] /\ TakenAt(o, pc[r], queue[r], todo[r], j, k)

Needers(r, k) == {n \in Needs : NeedsLock(r, n[1], n[2], k)}
Claimed(r, k) == \E o \in Operation, j \in {1, 2} : ClaimsFor(r, o, j, k)
HeldBy(r, k) == shared[r][k] + (IF writer[k] = {r} THEN 1 ELSE 0)

\* The lock k is held no more often than it is needed.
SpareOf(r, k) ==
    /\ HeldBy(r, k) <= Cardinality(Needers(r, k))
    /\ writer[k] = {r} => Claimed(r, k)

\* On its way out, rename knows what it claimed: the target first.
WayBack(r, o, p, q, w) ==
    /\ p = "unlock" /\ o.kind = "rename" => \A i \in 1..Len(q) : q[i].type = "shared"
    /\ p = "back" /\ o.kind = "rename" =>
          /\ \A k \in Path : w[k] = {r} => \E j \in 1..Len(q) : k = OwnKeyAt(o, j)
          /\ Len(q) = 2 => w[OwnKeyAt(o, 2)] = {r}

NothingSpare(r) ==
    /\ WayBack(r, op[r], pc[r], queue[r], writer)
    /\ \A k \in Path : SpareOf(r, k)

Spare == \A r \in Request : ~unguarded[r] => NothingSpare(r)

LEMMA SpareKept ==
    ASSUME IsFiniteSet(Operation), NEW r, NEW k, SpareOf(r, k),
           shared[r][k] \in Nat, shared'[r][k] \in Nat, HeldBy(r, k)' <= HeldBy(r, k),
           \A o \in Operation, j \in {1, 2} : NeedsLock(r, o, j, k) => NeedsLock(r, o, j, k)',
           writer'[k] = {r} => Claimed(r, k)'
    PROVE  SpareOf(r, k)'
<1>1. Needers(r, k) \subseteq Needers(r, k)' /\ Needers(r, k)' \subseteq Needs /\ Needers(r, k) \subseteq Needs
  BY DEF Needers, Needs
<1>2. Cardinality(Needers(r, k)) <= Cardinality(Needers(r, k)')
  BY <1>1, NeedsFinite, FS_Subset
<1>3. Cardinality(Needers(r, k)) \in Nat /\ Cardinality(Needers(r, k)') \in Nat
  BY <1>1, NeedsFinite
<1>4. HeldBy(r, k) \in Nat /\ HeldBy(r, k)' \in Nat
  BY DEF HeldBy
<1>5. HeldBy(r, k)' <= Cardinality(Needers(r, k)')
  BY <1>2, <1>3, <1>4 DEF SpareOf
<1> QED
  BY <1>5 DEF SpareOf

LEMMA SpareGained ==
    ASSUME IsFiniteSet(Operation), NEW r, NEW k, SpareOf(r, k),
           shared[r][k] \in Nat, writer[k] = {}, writer'[k] = {}, shared'[r][k] = shared[r][k] + 1,
           NEW a \in Operation, NEW i \in {1, 2},
           ~NeedsLock(r, a, i, k), NeedsLock(r, a, i, k)',
           \A o \in Operation, j \in {1, 2} : NeedsLock(r, o, j, k) => NeedsLock(r, o, j, k)'
    PROVE  SpareOf(r, k)'
<1> DEFINE S == Needers(r, k)
           n == <<a, i>>
<1>1. S \cup {n} \subseteq Needers(r, k)' /\ Needers(r, k)' \subseteq Needs /\ S \subseteq Needs /\ n \notin S
  BY DEF Needers, Needs
<1>2. IsFiniteSet(S) /\ Cardinality(S) \in Nat /\ Cardinality(Needers(r, k)') \in Nat
  BY <1>1, NeedsFinite
<1>3. Cardinality(S \cup {n}) = Cardinality(S) + 1
  BY <1>1, <1>2, FS_AddElement
<1>4. Cardinality(S \cup {n}) <= Cardinality(Needers(r, k)')
  BY <1>1, NeedsFinite, FS_Subset
<1>5. HeldBy(r, k)' = HeldBy(r, k) + 1 /\ HeldBy(r, k) \in Nat /\ HeldBy(r, k) <= Cardinality(S)
  BY DEF HeldBy, SpareOf
<1>6. HeldBy(r, k)' <= Cardinality(Needers(r, k)')
  <2> HIDE DEF S, n
  <2> QED
    BY <1>2, <1>3, <1>4, <1>5
<1> QED
  BY <1>6 DEF SpareOf

LEMMA SpareReleased ==
    ASSUME IsFiniteSet(Operation), NEW r, NEW k, SpareOf(r, k),
           shared[r][k] \in Nat, shared'[r][k] \in Nat,
           HeldBy(r, k)' = 0 \/ HeldBy(r, k)' = HeldBy(r, k) - 1,
           NEW a \in Operation, NEW i \in {1, 2},
           \A o \in Operation, j \in {1, 2} :
               NeedsLock(r, o, j, k) => NeedsLock(r, o, j, k)' \/ (o = a /\ j = i),
           writer'[k] = {r} => Claimed(r, k)'
    PROVE  SpareOf(r, k)'
<1> DEFINE S == Needers(r, k)
           T == Needers(r, k)'
           n == <<a, i>>
<1>1. S \subseteq T \cup {n} /\ T \subseteq Needs /\ S \subseteq Needs /\ n \in Needs /\ T \cup {n} \subseteq Needs
  BY DEF Needers, Needs
<1>2. IsFiniteSet(T) /\ Cardinality(S) \in Nat /\ Cardinality(T) \in Nat /\ Cardinality(T \cup {n}) \in Nat
  BY <1>1, NeedsFinite
<1>3. Cardinality(T \cup {n}) <= Cardinality(T) + 1
  <2>1. Cardinality(T \cup {n}) = IF n \in T THEN Cardinality(T) ELSE Cardinality(T) + 1
    BY <1>2, FS_AddElement, Zenon
  <2> HIDE DEF S, T, n
  <2> QED
    BY <2>1, <1>2
<1>4. Cardinality(S) <= Cardinality(T \cup {n})
  <2>1. IsFiniteSet(T \cup {n})
    BY <1>1, NeedsFinite
  <2> QED
    BY <1>1, <2>1, FS_Subset
<1>5. HeldBy(r, k) <= Cardinality(S) /\ HeldBy(r, k) \in Nat /\ HeldBy(r, k)' \in Nat
  BY DEF SpareOf, HeldBy
<1>6. HeldBy(r, k)' <= Cardinality(T)
  <2> HIDE DEF S, T, n
  <2> QED
    BY <1>2, <1>3, <1>4, <1>5
<1> QED
  BY <1>6 DEF SpareOf

\* The other requests, and what their locks were before.
OthersAlone(r) ==
    /\ Others(r)
    /\ \A q \in Request \ {r} :
          unguarded'[q] = unguarded[q] /\ \A k \in Path : writer'[k] = {q} => writer[k] = {q}

LEMMA OneSpares ==
    ASSUME IsFiniteSet(Operation), IInv, IInv', Spare, NEW r \in Request, OthersAlone(r),
           ~unguarded'[r] => NothingSpare(r)'
    PROVE  Spare'
<1> SUFFICES ASSUME NEW q \in Request \ {r}, ~unguarded'[q]
             PROVE  NothingSpare(q)'
  BY DEF Spare
<1>1. /\ op'[q] = op[q] /\ pc'[q] = pc[q] /\ queue'[q] = queue[q] /\ todo'[q] = todo[q]
      /\ handles'[q] = handles[q] /\ shared'[q] = shared[q] /\ ~unguarded[q]
      /\ \A k \in Path : writer'[k] = {q} <=> writer[k] = {q}
  BY DEF OthersAlone, Others
<1>2. NothingSpare(q)
  BY <1>1 DEF Spare
<1>3. WayBack(q, op[q], pc[q], queue[q], writer')
  <2>0. pc[q] # "idle" => \A j \in {1, 2} : OwnKeyAt(op[q], j) \in Path
    BY Operating, OperationType, KeysType DEF OwnKeyAt, IInv
  <2> QED
    BY <1>1, <1>2, <2>0 DEF NothingSpare, WayBack
<1>4. ASSUME NEW k \in Path
      PROVE  SpareOf(q, k)'
  <2>1. SpareOf(q, k) /\ shared[q][k] \in Nat /\ shared'[q][k] \in Nat
    BY <1>1, <1>2, OperationAssumption DEF NothingSpare, IInv, TypeOK
  <2>2. HeldBy(q, k)' <= HeldBy(q, k)
    BY <1>1, <2>1 DEF HeldBy
  <2>3. \A o \in Operation, j \in {1, 2} : NeedsLock(q, o, j, k) => NeedsLock(q, o, j, k)'
    BY <1>1 DEF NeedsLock
  <2>4. writer'[k] = {q} => Claimed(q, k)'
    BY <1>1, <2>1 DEF SpareOf, Claimed, ClaimsFor
  <2> QED
    BY <2>1, <2>2, <2>3, <2>4, SpareKept
<1> QED
  BY <1>1, <1>3, <1>4 DEF NothingSpare

LEMMA OthersStay ==
    ASSUME NEW r \in Request,
           \A q \in Request \ {r} :
               /\ op'[q] = op[q] /\ pc'[q] = pc[q] /\ queue'[q] = queue[q] /\ todo'[q] = todo[q]
               /\ handles'[q] = handles[q] /\ unguarded'[q] = unguarded[q],
           \/ UNCHANGED locks
           \/ \E k \in Path : LocksTo(r, k) /\ writer'[k] \in {writer[k], {r}, {}}
    PROVE  OthersAlone(r)
<1>1. ASSUME NEW q \in Request \ {r}
      PROVE  shared'[q] = shared[q] /\ \A k \in Path : writer'[k] = {q} <=> writer[k] = {q}
  <2>1. CASE UNCHANGED locks
    BY <2>1 DEF locks
  <2>2. ASSUME NEW k \in Path, LocksTo(r, k), writer'[k] \in {writer[k], {r}, {}}
        PROVE  shared'[q] = shared[q] /\ \A i \in Path : writer'[i] = {q} <=> writer[i] = {q}
    <3>1. shared'[q] = shared[q] /\ \A i \in Path : writer[i] = {q} => writer'[i] = {q}
      BY <2>2 DEF LocksTo
    <3>2. \A i \in Path \ {k} : writer'[i] = writer[i]
      BY <2>2 DEF LocksTo
    <3>3. writer'[k] = {q} => writer[k] = {q}
      BY <2>2
    <3> QED
      BY <3>1, <3>2, <3>3
  <2> QED
    BY <2>1, <2>2
<1> QED
  BY <1>1 DEF OthersAlone, Others

\* Of a step of the request r in an operation that leaves the locks alone.
SpareMove(r, p, q, left) ==
    /\ WayBack(r, op[r], p, q, writer)
    /\ \A j \in {1, 2}, k \in Path :
          /\ TakenAt(op[r], pc[r], queue[r], todo[r], j, k) => TakenAt(op[r], p, q, left, j, k)
          /\ ClaimsAt(op[r], pc[r], queue[r], todo[r], j, k) /\ writer[k] = {r} =>
                ClaimsAt(op[r], p, q, left, j, k)

LEMMA SpareContinued ==
    ASSUME IsFiniteSet(Operation), IInv, IInv', Spare, NEW r \in Request, pc[r] # "idle",
           NEW p \in Phase \ {"idle"}, NEW q \in Seq(File), Continue(r, p, q),
           UNCHANGED <<locks, handles>>,
           ~unguarded[r] => SpareMove(r, p, q, LocksOfHead(op[r], p, q))
    PROVE  Spare'
<1> DEFINE left == LocksOfHead(op[r], p, q)
<1>1. ControlTo(r, p, q, left) /\ op' = op /\ unguarded' = unguarded /\ handles' = handles
  BY ContinueTo DEF IInv
<1>2. writer' = writer /\ shared' = shared
  BY DEF locks
<1> HIDE DEF left
<1>3. pc'[r] = p /\ queue'[r] = q /\ todo'[r] = left
  BY <1>1 DEF ControlTo
<1>4. OthersAlone(r)
  <2>1. ASSUME NEW i \in Request \ {r}
        PROVE  /\ op'[i] = op[i] /\ pc'[i] = pc[i] /\ queue'[i] = queue[i] /\ todo'[i] = todo[i]
               /\ handles'[i] = handles[i] /\ unguarded'[i] = unguarded[i]
    BY <1>1 DEF ControlTo
  <2> QED
    BY <2>1, OthersStay
<1>5. ASSUME ~unguarded[r]
      PROVE  NothingSpare(r)'
  <2>1. SpareMove(r, p, q, left) /\ NothingSpare(r)
    BY <1>5 DEF left, Spare
  <2>2. WayBack(r, op[r], pc[r], queue[r], writer)'
    BY <1>1, <1>2, <1>3, <2>1 DEF SpareMove, WayBack
  <2>3. ASSUME NEW k \in Path
        PROVE  SpareOf(r, k)'
    <3>1. SpareOf(r, k) /\ shared[r][k] \in Nat /\ shared'[r][k] \in Nat
      BY <1>2, <2>1, OperationAssumption DEF NothingSpare, IInv, TypeOK
    <3>2. HeldBy(r, k)' <= HeldBy(r, k)
      BY <1>2, <3>1 DEF HeldBy
    <3>3. \A o \in Operation, j \in {1, 2} : NeedsLock(r, o, j, k) => NeedsLock(r, o, j, k)'
      BY <1>1, <1>3, <2>1 DEF NeedsLock, SpareMove
    <3>4. ASSUME writer'[k] = {r}
          PROVE  Claimed(r, k)'
      <4>1. PICK o \in Operation, j \in {1, 2} : ClaimsFor(r, o, j, k)
        BY <1>2, <3>1, <3>4 DEF SpareOf, Claimed
      <4>2. ClaimsFor(r, o, j, k)'
        BY <1>1, <1>2, <1>3, <2>1, <3>4, <4>1 DEF ClaimsFor, SpareMove
      <4> QED
        BY <4>2 DEF Claimed
    <3> QED
      BY <3>1, <3>2, <3>3, <3>4, SpareKept
  <2> QED
    BY <2>2, <2>3 DEF NothingSpare
<1> QED
  BY <1>1, <1>4, <1>5, OneSpares

\* From a phase in which nothing is claimed, or of a rename that failed to claim.
LEMMA SpareUnlockAll ==
    ASSUME IsFiniteSet(Operation), IInv, IInv', Spare, NEW r \in Request, pc[r] # "idle", UnlockAll(r),
           UNCHANGED <<locks, handles>>,
           ~unguarded[r] => \A j \in {1, 2}, k \in Path :
               ~(ClaimsAt(op[r], pc[r], queue[r], todo[r], j, k) /\ writer[k] = {r})
    PROVE  Spare'
<1> DEFINE o == op[r]
<1>1. o \in Operation
  BY Operating DEF IInv
<1>2. Files(o) \in Seq(File) /\ "unlock" \in Phase \ {"idle"} /\ Continue(r, "unlock", Files(o))
  BY <1>1, FilesShape DEF Phase, UnlockAll
<1>3. /\ LocksOfHead(o, "unlock", Files(o)) = KeysAt(o, Len(Files(o)))
      /\ Len(Files(o)) = FileCount(o) /\ FileCount(o) \in {1, 2}
      /\ \A i \in 1..Len(Files(o)) : Files(o)[i].type = "shared"
  BY <1>1, FilesShape, RestTail, CountType DEF LocksOfHead, KeysAt
<1>4. \A j \in {1, 2}, k \in Path : TakenAt(o, pc[r], queue[r], todo[r], j, k) =>
          TakenAt(o, "unlock", Files(o), LocksOfHead(o, "unlock", Files(o)), j, k)
  BY <1>3 DEF TakenAt
<1>5. WayBack(r, o, "unlock", Files(o), writer)
  BY <1>3 DEF WayBack
<1> QED
  BY <1>2, <1>4, <1>5, SpareContinued DEF SpareMove

\* The locks it claimed, of an operation that goes back to shared ones.
LEMMA SpareBack ==
    ASSUME IsFiniteSet(Operation), IInv, IInv', Spare, NEW r \in Request,
           Continue(r, "back", Claims(op[r])), UNCHANGED <<locks, handles>>,
           \/ pc[r] = "work"
           \/ pc[r] = "claim" /\ op[r].kind = "rename" /\ Len(queue[r]) = 1
    PROVE  Spare'
<1> DEFINE o == op[r]
<1>1. o \in Operation
  BY Operating DEF IInv
<1>2. Claims(o) \in Seq(File) /\ "back" \in Phase \ {"idle"}
  BY <1>1, ClaimsShape DEF Phase
<1>3. \A j \in {1, 2}, k \in Path :
          /\ TakenAt(o, pc[r], queue[r], todo[r], j, k) =>
                TakenAt(o, "back", Claims(o), LocksOfHead(o, "back", Claims(o)), j, k)
          /\ ClaimsAt(o, pc[r], queue[r], todo[r], j, k) =>
                ClaimsAt(o, "back", Claims(o), LocksOfHead(o, "back", Claims(o)), j, k)
  BY DEF TakenAt, ClaimsAt, ClaimsFile
<1>4. ASSUME ~unguarded[r], o.kind = "rename"
      PROVE  /\ \A k \in Path : writer[k] = {r} => \E j \in 1..Len(Claims(o)) : k = OwnKeyAt(o, j)
             /\ writer[OwnKeyAt(o, 2)] = {r}
  <2>1. Len(Claims(o)) = 2 /\ FileCount(o) = 2
    BY <1>1, <1>4, ClaimsShape, FilesShape DEF FileCount
  <2>2. ASSUME NEW k \in Path, writer[k] = {r}
        PROVE  \E j \in 1..Len(Claims(o)) : k = OwnKeyAt(o, j)
    <3>1. Claimed(r, k)
      BY <1>4, <2>2 DEF Spare, NothingSpare, SpareOf
    <3>2. PICK a \in Operation, j \in {1, 2} : ClaimsFor(r, a, j, k)
      BY <3>1 DEF Claimed
    <3>3. handles[r] = {}
      BY <1>4 DEF IInv, RequestOK, HandlesOK
    <3>4. ClaimsAt(o, pc[r], queue[r], todo[r], j, k)
      BY <3>2, <3>3 DEF ClaimsFor
    <3> QED
      BY <2>1, <3>4 DEF ClaimsAt
  <2>3. writer[OwnKeyAt(o, 2)] = {r}
    <3>1. ClaimsAt(o, pc[r], queue[r], todo[r], 2, OwnKeyAt(o, 2)) /\ OwnKeyAt(o, 2) \in Path
      BY <1>1, <1>4, <2>1, OperationType, KeysType DEF ClaimsAt, ClaimsFile, OwnKeyAt
    <3>2. <<o, 2>> \in Claimers(r, OwnKeyAt(o, 2))
      BY <1>1, <3>1 DEF Claimers, Needs, ClaimsFor
    <3>3. EnoughOf(r, OwnKeyAt(o, 2))
      BY <3>1 DEF IInv, RequestOK, Exempt
    <3> QED
      BY <3>2, <3>3 DEF EnoughOf
  <2> QED
    BY <2>2, <2>3
<1>5. ~unguarded[r] => WayBack(r, o, "back", Claims(o), writer)
  BY <1>4 DEF WayBack
<1> QED
  BY <1>2, <1>3, <1>5, SpareContinued DEF SpareMove

LEMMA SpareUnlockExclusive ==
    ASSUME IsFiniteSet(Operation), IInv, IInv', Spare, NEW r \in Request, pc[r] = "work", NEW q,
           Continue(r, "unlock", q),
           \/ /\ op[r].kind \in {"write", "openWrite", "stream"}
              /\ q = <<Exclusive(op[r].source)>>
           \/ /\ op[r].kind = "copy"
              /\ q = <<Exclusive(op[r].target), Shared(op[r].source)>>,
           UNCHANGED <<locks, handles>>
    PROVE  Spare'
<1> DEFINE o == op[r]
<1>1. o \in Operation
  BY Operating DEF IInv
<1>2. Exclusive(o.source) \in File /\ Exclusive(o.target) \in File /\ Shared(o.source) \in File
  BY <1>1, OperationType DEF File, Exclusive, Shared
<1>3. q \in Seq(File) /\ "unlock" \in Phase \ {"idle"}
  <2>1. <<Exclusive(o.source)>> \in Seq(File)
    BY <1>2
  <2>2. <<Exclusive(o.target), Shared(o.source)>> \in Seq(File)
    BY <1>2
  <2> QED
    BY <2>1, <2>2 DEF Phase
<1>4. /\ Len(q) = FileCount(o) /\ FileCount(o) \in {1, 2} /\ Head(q).type = "exclusive"
      /\ q # <<>> /\ Head(q).path = PathAt(o, Len(q)) /\ o.kind # "rename"
  <2> USE DEF FileCount, PathAt, Exclusive, Shared
  <2>1. CASE o.kind \in {"write", "openWrite", "stream"}
    <3>1. q = <<Exclusive(o.source)>> /\ Len(q) = 1 /\ Head(q) = Exclusive(o.source)
      BY <2>1
    <3> QED
      BY <2>1, <3>1
  <2>2. CASE o.kind = "copy"
    <3>1. q = <<Exclusive(o.target), Shared(o.source)>> /\ Len(q) = 2 /\ Head(q) = Exclusive(o.target)
      BY <2>2
    <3> QED
      BY <2>2, <3>1
  <2> QED
    BY <2>1, <2>2
<1>5. LocksOfHead(o, "unlock", q) = KeysAt(o, Len(q))
  BY <1>4 DEF LocksOfHead, KeysAt
<1>6. ASSUME NEW j \in {1, 2}, NEW k \in Path
      PROVE  /\ TakenAt(o, pc[r], queue[r], todo[r], j, k) => TakenAt(o, "unlock", q, KeysAt(o, Len(q)), j, k)
             /\ ClaimsAt(o, pc[r], queue[r], todo[r], j, k) => ClaimsAt(o, "unlock", q, KeysAt(o, Len(q)), j, k)
  <2>1. OwnKeyAt(o, j) \in KeysAt(o, j)
    BY <1>1, OperationType, KeysType DEF OwnKeyAt, KeysAt
  <2>2. j \in 1..FileCount(o) /\ ClaimsFile(o, j) => j = Len(q)
    BY <1>4 DEF ClaimsFile, FileCount
  <2>3. TakenAt(o, pc[r], queue[r], todo[r], j, k) => TakenAt(o, "unlock", q, KeysAt(o, Len(q)), j, k)
    BY <1>4 DEF TakenAt
  <2> QED
    BY <1>4, <2>1, <2>2, <2>3 DEF ClaimsAt
<1>7. WayBack(r, o, "unlock", q, writer)
  BY <1>4 DEF WayBack
<1> QED
  BY <1>3, <1>5, <1>6, <1>7, SpareContinued DEF SpareMove

LEMMA SpareThrown ==
    ASSUME IsFiniteSet(Operation), IInv, IInv', Spare, NEW r \in Request, Throw(r),
           UNCHANGED <<locks, handles>>
    PROVE  Spare'
<1>1. /\ op' = [op EXCEPT ![r] = NoOperation] /\ Goto(r, "idle", <<>>)
      /\ unguarded' = [unguarded EXCEPT ![r] = TRUE] /\ handles' = handles
  BY DEF Throw, Return
<1>2. ASSUME NEW i \in Request \ {r}
      PROVE  /\ op'[i] = op[i] /\ pc'[i] = pc[i] /\ queue'[i] = queue[i] /\ todo'[i] = todo[i]
             /\ handles'[i] = handles[i] /\ unguarded'[i] = unguarded[i]
  BY <1>1 DEF Goto, IInv, TypeOK
<1>3. OthersAlone(r) /\ unguarded'[r]
  BY <1>1, <1>2, OthersStay DEF IInv, TypeOK
<1> QED
  BY <1>3, OneSpares

LEMMA SpareQuiet ==
    ASSUME IsFiniteSet(Operation), IInv, IInv', Spare, NEW r \in Request,
           \/ Refused(r) \/ Hooks(r) \/ Veto(r) \/ HooksThrow(r) \/ ClaimRefused(r)
           \/ WorkFailed(r) \/ StorageThrows(r) \/ UpdateThrows(r) \/ PostHooks(r)
    PROVE  Spare'
<1>0. pc[r] # "idle" /\ UNCHANGED <<locks, handles>>
  BY DEF Refused, Hooks, Veto, HooksThrow, ClaimRefused, WorkFailed, StorageThrows, UpdateThrows, PostHooks
<1>o. op[r] \in Operation
  BY <1>0, Operating DEF IInv
<1>t. Throw(r) => Spare'
  BY <1>0, SpareThrown
<1>u. /\ UnlockAll(r)
      /\ \/ pc[r] \in {"lock", "hooks", "posthooks"}
         \/ pc[r] = "claim" /\ ~(op[r].kind = "rename" /\ Len(queue[r]) = 1)
         \/ pc[r] = "work" /\ op[r].kind \in {"read", "openRead"}
      => Spare'
  <2> SUFFICES ASSUME UnlockAll(r),
                      \/ pc[r] \in {"lock", "hooks", "posthooks"}
                      \/ pc[r] = "claim" /\ ~(op[r].kind = "rename" /\ Len(queue[r]) = 1)
                      \/ pc[r] = "work" /\ op[r].kind \in {"read", "openRead"}
               PROVE  Spare'
    OBVIOUS
  <2>1. \A j \in {1, 2}, k \in Path : ~ClaimsAt(op[r], pc[r], queue[r], todo[r], j, k)
    BY DEF ClaimsAt, ClaimsFile
  <2> QED
    BY <1>0, <2>1, SpareUnlockAll
<1>b. /\ Continue(r, "back", Claims(op[r]))
      /\ pc[r] = "work" \/ (pc[r] = "claim" /\ op[r].kind = "rename" /\ Len(queue[r]) = 1)
      => Spare'
  BY <1>0, SpareBack
<1>x. ASSUME NEW q, Continue(r, "unlock", q), pc[r] = "work",
             \/ /\ op[r].kind \in {"write", "openWrite", "stream"}
                /\ q = <<Exclusive(op[r].source)>>
             \/ /\ op[r].kind = "copy"
                /\ q = <<Exclusive(op[r].target), Shared(op[r].source)>>
      PROVE  Spare'
  BY <1>0, <1>x, SpareUnlockExclusive
<1>1. CASE Refused(r)
  BY <1>1, <1>t, <1>u DEF Refused
<1>2. CASE Hooks(r)
  <2>1. pc[r] = "hooks"
    BY <1>2 DEF Hooks
  <2>2. ASSUME NEW p \in {"work", "claim"}, NEW q \in Seq(File), Continue(r, p, q)
        PROVE  Spare'
    <3>1. \A j \in {1, 2}, k \in Path :
              /\ TakenAt(op[r], pc[r], queue[r], todo[r], j, k) =>
                     TakenAt(op[r], p, q, LocksOfHead(op[r], p, q), j, k)
              /\ ~ClaimsAt(op[r], pc[r], queue[r], todo[r], j, k)
      BY <2>1, <2>2 DEF TakenAt, ClaimsAt
    <3>2. WayBack(r, op[r], p, q, writer) /\ p \in Phase \ {"idle"}
      BY <2>2 DEF WayBack, Phase
    <3> QED
      BY <1>0, <2>2, <3>1, <3>2, SpareContinued DEF SpareMove
  <2>3. <<>> \in Seq(File) /\ Claims(op[r]) \in Seq(File)
    BY <1>o, ClaimsShape, EmptySeq
  <2>4. Continue(r, "work", <<>>) \/ Continue(r, "claim", Claims(op[r]))
    BY <1>2 DEF Hooks
  <2> QED
    BY <2>2, <2>3, <2>4
<1>3. CASE Veto(r)
  BY <1>3, <1>u DEF Veto
<1>4. CASE HooksThrow(r)
  BY <1>4, <1>t, <1>u DEF HooksThrow
<1>5. CASE ClaimRefused(r)
  <2>1. pc[r] = "claim"
    BY <1>5 DEF ClaimRefused
  <2>2. CASE op[r].kind = "rename" /\ Len(queue[r]) = 1
    <3>1. Continue(r, "back", Claims(op[r]))
      BY <1>5, <1>o, <2>2, ClaimsShape DEF ClaimRefused
    <3> QED
      BY <1>b, <2>1, <2>2, <3>1
  <2>3. CASE ~(op[r].kind = "rename" /\ Len(queue[r]) = 1)
    <3>1. Throw(r) \/ UnlockAll(r)
      BY <1>5, <2>3 DEF ClaimRefused
    <3> QED
      BY <1>t, <1>u, <2>1, <2>3, <3>1
  <2> QED
    BY <2>2, <2>3
<1>6. CASE WorkFailed(r)
  <2>1. pc[r] = "work" /\ op[r].kind \in {"openRead", "openWrite", "stream", "put"}
    BY <1>6 DEF WorkFailed
  <2>2. CASE op[r].kind = "openRead"
    BY <1>6, <1>u, <2>1, <2>2 DEF WorkFailed
  <2>3. CASE op[r].kind = "openWrite"
    BY <1>6, <1>b, <2>1, <2>3 DEF WorkFailed
  <2>4. CASE op[r].kind = "stream"
    <3>1. Continue(r, "unlock", <<Exclusive(op[r].source)>>)
      BY <1>6, <2>4 DEF WorkFailed
    <3> QED
      BY <1>x, <2>1, <2>4, <3>1
  <2>5. CASE op[r].kind = "put"
    BY <1>6, <1>t, <2>5 DEF WorkFailed
  <2> QED
    BY <2>1, <2>2, <2>3, <2>4, <2>5
<1>7. CASE StorageThrows(r)
  <2>1. pc[r] = "work"
    BY <1>7 DEF StorageThrows
  <2>2. CASE op[r].kind \in {"read", "openRead"}
    BY <1>7, <1>u, <2>1, <2>2 DEF StorageThrows
  <2>3. CASE op[r].kind \in {"write", "openWrite"}
    <3>1. Continue(r, "unlock", <<Exclusive(op[r].source)>>)
      BY <1>7, <2>3 DEF StorageThrows
    <3> QED
      BY <1>x, <2>1, <2>3, <3>1
  <2>4. CASE op[r].kind = "copy"
    <3>1. Continue(r, "unlock", <<Exclusive(op[r].target), Shared(op[r].source)>>)
      BY <1>7, <2>4 DEF StorageThrows, UnlockCopy
    <3> QED
      BY <1>x, <2>1, <2>4, <3>1
  <2>5. CASE op[r].kind = "rename"
    <3>1. Continue(r, "back", Claims(op[r]))
      BY <1>7, <1>o, <2>5, ClaimsShape DEF StorageThrows
    <3> QED
      BY <1>b, <2>1, <3>1
  <2>6. CASE op[r].kind \notin {"read", "openRead", "write", "openWrite", "copy", "rename"}
    BY <1>7, <1>t, <2>6 DEF StorageThrows
  <2> QED
    BY <2>2, <2>3, <2>4, <2>5, <2>6
<1>8. CASE UpdateThrows(r)
  BY <1>8, <1>t DEF UpdateThrows
<1>9. CASE PostHooks(r)
  BY <1>9, <1>u DEF PostHooks
<1> QED
  BY <1>1, <1>2, <1>3, <1>4, <1>5, <1>6, <1>7, <1>8, <1>9

\* A step that leaves the locks alone, when r begins or leaves an operation.
LEMMA SpareSettled ==
    ASSUME IsFiniteSet(Operation), IInv, IInv', Spare, NEW r \in Request, UNCHANGED locks,
           unguarded' = unguarded,
           \A i \in Request \ {r} :
               /\ op'[i] = op[i] /\ pc'[i] = pc[i] /\ queue'[i] = queue[i] /\ todo'[i] = todo[i]
               /\ handles'[i] = handles[i],
           WayBack(r, op'[r], pc'[r], queue'[r], writer'),
           \A o \in Operation, j \in {1, 2}, k \in Path :
               /\ NeedsLock(r, o, j, k) => NeedsLock(r, o, j, k)'
               /\ ClaimsFor(r, o, j, k) => ClaimsFor(r, o, j, k)'
    PROVE  Spare'
<1>1. OthersAlone(r)
  BY OthersStay
<1>2. writer' = writer /\ shared' = shared
  BY DEF locks
<1>3. ASSUME ~unguarded[r], NEW k \in Path
      PROVE  SpareOf(r, k)'
  <2>1. SpareOf(r, k) /\ shared[r][k] \in Nat /\ shared'[r][k] \in Nat
    BY <1>2, <1>3, OperationAssumption DEF Spare, NothingSpare, IInv, TypeOK
  <2>2. HeldBy(r, k)' <= HeldBy(r, k)
    BY <1>2, <2>1 DEF HeldBy
  <2>3. writer'[k] = {r} => Claimed(r, k)'
    BY <1>2, <2>1 DEF SpareOf, Claimed
  <2> QED
    BY <2>1, <2>2, <2>3, SpareKept
<1> QED
  BY <1>1, <1>3, OneSpares DEF NothingSpare

LEMMA SpareStarted ==
    ASSUME IsFiniteSet(Operation), IInv, IInv', Spare, NEW r \in Request, NEW o \in Operation, Start(r, o)
    PROVE  Spare'
<1>1. /\ pc[r] = "idle" /\ op' = [op EXCEPT ![r] = o] /\ Goto(r, "lock", Files(o))
      /\ UNCHANGED locks /\ handles' = handles /\ unguarded' = unguarded /\ writer' = writer
  BY DEF Start, locks
<1>2. \A i \in Request \ {r} :
          /\ op'[i] = op[i] /\ pc'[i] = pc[i] /\ queue'[i] = queue[i] /\ todo'[i] = todo[i]
          /\ handles'[i] = handles[i]
  BY <1>1 DEF Goto, IInv, TypeOK
<1>3. pc'[r] = "lock" /\ handles'[r] = handles[r]
  BY <1>1 DEF Goto, IInv, TypeOK
<1>4. WayBack(r, op'[r], pc'[r], queue'[r], writer')
  BY <1>3 DEF WayBack
<1>5. \A a \in Operation, j \in {1, 2}, k \in Path :
          /\ NeedsLock(r, a, j, k) => NeedsLock(r, a, j, k)'
          /\ ClaimsFor(r, a, j, k) => ClaimsFor(r, a, j, k)'
  BY <1>1, <1>3 DEF NeedsLock, TakenAt, ClaimsFor, ClaimsAt
<1> QED
  BY <1>1, <1>2, <1>4, <1>5, SpareSettled

LEMMA SpareOpened ==
    ASSUME IsFiniteSet(Operation), IInv, IInv', Spare, NEW r \in Request, pc[r] = "work",
           op[r].kind \in {"openRead", "openWrite"}, Return(r),
           handles' = [handles EXCEPT ![r] = @ \cup {op[r]}],
           unguarded' = unguarded, UNCHANGED locks
    PROVE  Spare'
<1> DEFINE o == op[r]
<1>1. o \in Operation /\ FileCount(o) = 1
  BY Operating DEF IInv, FileCount
<1>2. op' = [op EXCEPT ![r] = NoOperation] /\ Goto(r, "idle", <<>>) /\ writer' = writer
  BY DEF Return, locks
<1>3. \A i \in Request \ {r} :
          /\ op'[i] = op[i] /\ pc'[i] = pc[i] /\ queue'[i] = queue[i] /\ todo'[i] = todo[i]
          /\ handles'[i] = handles[i]
  BY <1>2 DEF Goto, IInv, TypeOK
<1>4. pc'[r] = "idle" /\ handles'[r] = handles[r] \cup {o}
  BY <1>2 DEF Goto, IInv, TypeOK
<1>5. WayBack(r, op'[r], pc'[r], queue'[r], writer')
  BY <1>4 DEF WayBack
<1>6. ASSUME NEW j \in {1, 2}, NEW k \in Path
      PROVE  /\ TakenAt(o, pc[r], queue[r], todo[r], j, k) => j = 1 /\ k \in KeysAt(o, 1)
             /\ ClaimsAt(o, pc[r], queue[r], todo[r], j, k) => j = 1 /\ o.kind = "openWrite" /\ k = OwnKeyAt(o, 1)
  BY <1>1 DEF TakenAt, ClaimsAt, ClaimsFile
<1>7. \A a \in Operation, j \in {1, 2}, k \in Path :
          /\ NeedsLock(r, a, j, k) => NeedsLock(r, a, j, k)'
          /\ ClaimsFor(r, a, j, k) => ClaimsFor(r, a, j, k)'
  BY <1>4, <1>6 DEF NeedsLock, ClaimsFor
<1> QED
  BY <1>3, <1>5, <1>7, SpareSettled

LEMMA SpareWorkDone ==
    ASSUME IsFiniteSet(Operation), IInv, IInv', Spare, NEW r \in Request, WorkDone(r)
    PROVE  Spare'
<1>1. pc[r] = "work" /\ UNCHANGED locks /\ pc[r] # "idle"
  BY DEF WorkDone
<1>2. CASE op[r].kind \in {"openRead", "openWrite"}
  <2>1. Return(r) /\ handles' = [handles EXCEPT ![r] = @ \cup {op[r]}] /\ unguarded' = unguarded
    BY <1>2 DEF WorkDone
  <2> QED
    BY <1>1, <1>2, <2>1, SpareOpened
<1>3. CASE op[r].kind = "read"
  <2>1. UnlockAll(r) /\ UNCHANGED <<locks, handles>>
    BY <1>1, <1>3 DEF WorkDone
  <2>2. \A j \in {1, 2}, k \in Path : ~ClaimsAt(op[r], pc[r], queue[r], todo[r], j, k)
    BY <1>1, <1>3 DEF ClaimsAt, ClaimsFile
  <2> QED
    BY <1>1, <2>1, <2>2, SpareUnlockAll
<1>4. CASE op[r].kind \notin {"openRead", "openWrite", "read"}
  <2>1. Continue(r, "back", Claims(op[r])) /\ UNCHANGED <<locks, handles>>
    BY <1>1, <1>4 DEF WorkDone
  <2> QED
    BY <1>1, <2>1, SpareBack
<1> QED
  BY <1>2, <1>3, <1>4

LEMMA SpareClosed ==
    ASSUME IsFiniteSet(Operation), IInv, IInv', Spare, NEW r \in Request, NEW o \in Operation, Close(r, o)
    PROVE  Spare'
<1> DEFINE q == IF o.kind = "openWrite" THEN <<Exclusive(o.source)>> ELSE <<Shared(o.source)>>
<1>1. /\ pc[r] = "idle" /\ o \in handles[r] /\ o.kind \in {"openRead", "openWrite"}
      /\ handles' = [handles EXCEPT ![r] = @ \ {o}] /\ op' = [op EXCEPT ![r] = o]
      /\ Goto(r, "unlock", q) /\ UNCHANGED locks /\ unguarded' = unguarded /\ writer' = writer
  BY DEF Close, locks, IInv, RequestOK, HandlesOK
<1>2. /\ Len(q) = 1 /\ Head(q).path = o.source /\ q # <<>>
      /\ o.kind = "openWrite" => Head(q).type = "exclusive"
  BY DEF Exclusive, Shared
<1> HIDE DEF q
<1>3. FileCount(o) = 1 /\ PathAt(o, 1) = o.source /\ OwnKeyAt(o, 1) \in KeysAt(o, 1)
  BY <1>1, OperationType, KeysType DEF FileCount, PathAt, OwnKeyAt, KeysAt
<1>4. \A i \in Request \ {r} :
          /\ op'[i] = op[i] /\ pc'[i] = pc[i] /\ queue'[i] = queue[i] /\ todo'[i] = todo[i]
          /\ handles'[i] = handles[i]
  BY <1>1 DEF Goto, IInv, TypeOK
<1>5. op'[r] = o /\ handles'[r] = handles[r] \ {o}
  BY <1>1 DEF IInv, TypeOK
<1>6. pc'[r] = "unlock" /\ queue'[r] = q /\ todo'[r] = KeysAt(o, 1)
  BY <1>1, <1>2, <1>3, <1>5 DEF Goto, KeysAt, IInv, TypeOK
<1>7. WayBack(r, op'[r], pc'[r], queue'[r], writer')
  BY <1>1, <1>5, <1>6 DEF WayBack
<1>8. ASSUME NEW k \in Path
      PROVE  /\ k \in KeysAt(o, 1) => TakenAt(o, "unlock", q, KeysAt(o, 1), 1, k)
             /\ o.kind = "openWrite" /\ k = OwnKeyAt(o, 1) => ClaimsAt(o, "unlock", q, KeysAt(o, 1), 1, k)
  BY <1>2, <1>3 DEF TakenAt, ClaimsAt
<1>9. \A a \in Operation, j \in {1, 2}, k \in Path :
          /\ NeedsLock(r, a, j, k) => NeedsLock(r, a, j, k)'
          /\ ClaimsFor(r, a, j, k) => ClaimsFor(r, a, j, k)'
  <2>1. \A a \in Operation, j \in {1, 2}, k \in Path : ~(a = op[r] /\ TakenAt(a, pc[r], queue[r], todo[r], j, k))
    BY <1>1 DEF TakenAt
  <2>2. \A a \in Operation, j \in {1, 2}, k \in Path : ~(a = op[r] /\ ClaimsAt(a, pc[r], queue[r], todo[r], j, k))
    BY <1>1 DEF ClaimsAt
  <2> QED
    BY <1>5, <1>6, <1>8, <2>1, <2>2 DEF NeedsLock, ClaimsFor
<1> QED
  BY <1>1, <1>4, <1>7, <1>9, SpareSettled

LEMMA SpareEnded ==
    ASSUME IsFiniteSet(Operation), IInv, IInv', Spare, NEW r \in Request, End(r)
    PROVE  Spare'
<1>1. /\ writer' = [p \in Path |-> writer[p] \ {r}]
      /\ shared' = [shared EXCEPT ![r] = [k \in Path |-> 0]]
      /\ op' = [op EXCEPT ![r] = NoOperation] /\ Goto(r, "idle", <<>>)
      /\ handles' = [handles EXCEPT ![r] = {}]
      /\ unguarded' = [unguarded EXCEPT ![r] = FALSE]
  BY DEF End, Return, Lock!Vanish
<1>2. \A i \in Request \ {r} :
          /\ op'[i] = op[i] /\ pc'[i] = pc[i] /\ queue'[i] = queue[i] /\ todo'[i] = todo[i]
          /\ handles'[i] = handles[i] /\ unguarded'[i] = unguarded[i] /\ shared'[i] = shared[i]
  BY <1>1 DEF Goto, IInv, TypeOK
<1>3. ASSUME NEW i \in Request \ {r}, NEW k \in Path
      PROVE  writer'[k] = {i} <=> writer[k] = {i}
  <2>1. writer'[k] = writer[k] \ {r}
    BY <1>1
  <2>2. writer[k] # {} => \E s \in Request : writer[k] = {s}
    BY DEF IInv, LocksOK
  <2> QED
    BY <2>1, <2>2
<1>4. OthersAlone(r)
  BY <1>2, <1>3 DEF OthersAlone, Others
<1>5. pc'[r] = "idle"
  BY <1>1 DEF Goto, IInv, TypeOK
<1>6. WayBack(r, op[r], pc[r], queue[r], writer)'
  BY <1>5 DEF WayBack
<1>7. ASSUME NEW k \in Path
      PROVE  SpareOf(r, k)'
  <2>1. writer'[k] # {r} /\ shared'[r][k] = 0
    BY <1>1 DEF IInv, TypeOK
  <2>2. Cardinality(Needers(r, k)') \in Nat
    BY NeedsFinite DEF Needers
  <2> QED
    BY <2>1, <2>2 DEF SpareOf, HeldBy
<1> QED
  BY <1>4, <1>6, <1>7, OneSpares DEF NothingSpare

\* A step that takes the lock k, changes it or gives it back.
LEMMA SpareLocked ==
    ASSUME IsFiniteSet(Operation), IInv, IInv', Spare, NEW r \in Request, NEW k \in Path,
           LocksTo(r, k), writer'[k] \in {writer[k], {r}, {}}, unguarded' = unguarded,
           \A i \in Request \ {r} :
               /\ op'[i] = op[i] /\ pc'[i] = pc[i] /\ queue'[i] = queue[i] /\ todo'[i] = todo[i]
               /\ handles'[i] = handles[i],
           NothingSpare(r) =>
               /\ WayBack(r, op'[r], pc'[r], queue'[r], writer') /\ SpareOf(r, k)'
               /\ \A o \in Operation, j \in {1, 2}, i \in Path \ {k} :
                     /\ NeedsLock(r, o, j, i) => NeedsLock(r, o, j, i)'
                     /\ ClaimsFor(r, o, j, i) /\ writer[i] = {r} => ClaimsFor(r, o, j, i)'
    PROVE  Spare'
<1>1. OthersAlone(r)
  BY OthersStay
<1>2. ASSUME NothingSpare(r), NEW i \in Path \ {k}
      PROVE  SpareOf(r, i)'
  <2>1. SpareOf(r, i) /\ shared'[r][i] = shared[r][i] /\ writer'[i] = writer[i] /\ shared[r][i] \in Nat
    BY <1>2, OperationAssumption DEF NothingSpare, LocksTo, IInv, TypeOK
  <2>2. HeldBy(r, i)' <= HeldBy(r, i)
    BY <2>1 DEF HeldBy
  <2>3. writer'[i] = {r} => Claimed(r, i)'
    BY <1>2, <2>1 DEF SpareOf, Claimed
  <2>4. \A o \in Operation, j \in {1, 2} : NeedsLock(r, o, j, i) => NeedsLock(r, o, j, i)'
    BY <1>2
  <2> QED
    BY <2>1, <2>2, <2>3, <2>4, SpareKept
<1>3. NothingSpare(r) => NothingSpare(r)'
  BY <1>2 DEF NothingSpare
<1>4. ~unguarded'[r] => NothingSpare(r)
  BY DEF Spare
<1> QED
  BY <1>1, <1>3, <1>4, OneSpares

LEMMA SpareAcquired ==
    ASSUME IsFiniteSet(Operation), IInv, IInv', Spare, NEW r \in Request, NEW k \in Path, Acquire(r, k)
    PROVE  Spare'
<1>1. /\ pc[r] = "lock" /\ k \in todo[r] /\ shared[r][k] < MaxShared
      /\ Lock!Share(r, k) /\ Count(r, k, shared[r][k] + 1) /\ handles' = handles
      /\ (More(r, k) /\ Advance(r, k)) \/ (~More(r, k) /\ Continue(r, "hooks", <<>>))
  BY DEF Acquire, Turn
<1>o. PICK o \in Operation, n \in {1, 2} :
          /\ o = op[r] /\ n = Len(queue[r]) /\ Rest(o, queue[r]) /\ n \in 1..FileCount(o)
          /\ todo[r] \subseteq KeysAt(o, n) /\ o \notin handles[r] /\ queue[r] \in Seq(File)
  BY <1>1, AtHand
<1>2. TypeOK /\ LockTypes /\ LocksOK
  BY DEF IInv, TypeOK, LockTypes
<1>3. LocksTo(r, k) /\ writer' = writer /\ writer[k] = {} /\ shared'[r][k] = shared[r][k] + 1
  <2>1. LocksTo(r, k)
    BY <1>1, <1>2, LocksKept
  <2>2. writer' = writer /\ writer[k] = {}
    BY <1>1 DEF Lock!Share
  <2>3. shared'[r][k] = shared[r][k] + 1
    BY <1>1, <1>2 DEF Count, LockTypes
  <2> QED
    BY <2>1, <2>2, <2>3
<1>4. \E p \in {"lock", "hooks"}, q \in Seq(File), left \in SUBSET Path :
          /\ ControlTo(r, p, q, left) /\ op' = op /\ unguarded' = unguarded
          /\ TakenAt(o, p, q, left, n, k)
          /\ \A j \in {1, 2}, i \in Path :
                TakenAt(o, "lock", queue[r], todo[r], j, i) => TakenAt(o, p, q, left, j, i)
  <2>1. CASE More(r, k)
    <3>1. /\ op' = op /\ unguarded' = unguarded
          /\ \/ /\ todo[r] = {k} /\ Len(queue[r]) = 2
                /\ ControlTo(r, "lock", Tail(queue[r]), KeysAt(o, 1))
             \/ ControlTo(r, "lock", queue[r], todo[r] \ {k})
      BY <1>1, <1>o, <2>1, AdvanceTo
    <3>2. CASE todo[r] = {k} /\ Len(queue[r]) = 2 /\ ControlTo(r, "lock", Tail(queue[r]), KeysAt(o, 1))
      <4>0. n = 2 /\ 2 \in 1..FileCount(o) /\ k \in KeysAt(o, 2)
        BY <1>1, <1>o, <3>2
      <4>1. PICK t \in Seq(File) : t = Tail(queue[r]) /\ Len(t) = 1
        <5>1. Len(queue[r]) > 1
          BY <3>2
        <5> QED
          BY <1>o, <3>2, <5>1, RestTail
      <4>2. KeysAt(o, 1) \in SUBSET Path
        BY OperationType, KeysType DEF KeysAt
      <4>3. TakenAt(o, "lock", t, KeysAt(o, 1), 2, k)
        BY <4>0, <4>1 DEF TakenAt
      <4>4. ASSUME NEW j \in {1, 2}, NEW i \in Path, TakenAt(o, "lock", queue[r], todo[r], j, i)
            PROVE  TakenAt(o, "lock", t, KeysAt(o, 1), j, i)
        <5>1. j # 1
          BY <3>2, <4>4 DEF TakenAt
        <5>2. j = 2 /\ i \in KeysAt(o, 2)
          BY <4>4, <5>1 DEF TakenAt
        <5> QED
          BY <4>0, <4>1, <5>2 DEF TakenAt
      <4>5. ControlTo(r, "lock", t, KeysAt(o, 1))
        BY <3>2, <4>1
      <4> QED
        BY <3>1, <4>0, <4>2, <4>3, <4>4, <4>5
    <3>3. CASE ControlTo(r, "lock", queue[r], todo[r] \ {k})
      <4>1. todo[r] \ {k} \in SUBSET Path
        BY <1>2 DEF TypeOK
      <4>2. TakenAt(o, "lock", queue[r], todo[r] \ {k}, n, k)
        BY <1>1, <1>o DEF TakenAt
      <4>3. \A j \in {1, 2}, i \in Path :
                TakenAt(o, "lock", queue[r], todo[r], j, i) => TakenAt(o, "lock", queue[r], todo[r] \ {k}, j, i)
        BY DEF TakenAt
      <4> QED
        BY <1>o, <3>1, <3>3, <4>1, <4>2, <4>3
    <3> QED
      BY <3>1, <3>2, <3>3
  <2>2. CASE ~More(r, k)
    <3>1. <<>> \in Seq(File) /\ "hooks" \in Phase /\ LocksOfHead(op[r], "hooks", <<>>) = {}
      BY EmptySeq DEF Phase, LocksOfHead
    <3>2. Continue(r, "hooks", <<>>)
      BY <1>1, <2>2
    <3>3. ControlTo(r, "hooks", <<>>, {}) /\ op' = op /\ unguarded' = unguarded
      <4>1. ControlTo(r, "hooks", <<>>, LocksOfHead(op[r], "hooks", <<>>)) /\ op' = op /\ unguarded' = unguarded
        BY <1>2, <3>1, <3>2, ContinueTo
      <4> QED
        BY <3>1, <4>1
    <3>4. TakenAt(o, "hooks", <<>>, {}, n, k)
      BY <1>1, <1>o DEF TakenAt
    <3>5. \A j \in {1, 2}, i \in Path :
              TakenAt(o, "lock", queue[r], todo[r], j, i) => TakenAt(o, "hooks", <<>>, {}, j, i)
      BY DEF TakenAt
    <3> QED
      BY <3>1, <3>3, <3>4, <3>5
  <2> QED
    BY <2>1, <2>2
<1>5. PICK p \in {"lock", "hooks"}, q \in Seq(File), left \in SUBSET Path :
          /\ ControlTo(r, p, q, left) /\ op' = op /\ unguarded' = unguarded
          /\ TakenAt(o, p, q, left, n, k)
          /\ \A j \in {1, 2}, i \in Path :
                TakenAt(o, "lock", queue[r], todo[r], j, i) => TakenAt(o, p, q, left, j, i)
  BY <1>4
<1>6. pc'[r] = p /\ queue'[r] = q /\ todo'[r] = left /\ op'[r] = o /\ op[r] = o /\ handles'[r] = handles[r]
  BY <1>1, <1>o, <1>5 DEF ControlTo
<1>7. \A a \in Operation, j \in {1, 2}, i \in Path :
          /\ NeedsLock(r, a, j, i) => NeedsLock(r, a, j, i)'
          /\ ClaimsFor(r, a, j, i) => ClaimsFor(r, a, j, i)'
  <2>1. \A j \in {1, 2}, i \in Path : ~ClaimsAt(o, "lock", queue[r], todo[r], j, i)
    BY DEF ClaimsAt
  <2>2. ASSUME NEW a \in Operation, NEW j \in {1, 2}, NEW i \in Path, NeedsLock(r, a, j, i)
        PROVE  NeedsLock(r, a, j, i)'
    BY <1>1, <1>5, <1>6, <2>2 DEF NeedsLock
  <2>3. ASSUME NEW a \in Operation, NEW j \in {1, 2}, NEW i \in Path, ClaimsFor(r, a, j, i)
        PROVE  ClaimsFor(r, a, j, i)'
    BY <1>1, <1>6, <2>1, <2>3 DEF ClaimsFor
  <2> QED
    BY <2>2, <2>3
<1>8. ASSUME NothingSpare(r)
      PROVE  SpareOf(r, k)'
  <2>1. SpareOf(r, k) /\ shared[r][k] \in Nat /\ writer'[k] = {}
    BY <1>2, <1>3, <1>8, OperationAssumption DEF NothingSpare, LockTypes
  <2>2. ~NeedsLock(r, o, n, k)
    <3>1. ~TakenAt(o, "lock", queue[r], todo[r], n, k)
      BY <1>1, <1>o DEF TakenAt
    <3> QED
      BY <1>1, <1>o, <3>1 DEF NeedsLock
  <2>3. NeedsLock(r, o, n, k)'
    BY <1>5, <1>6 DEF NeedsLock
  <2> QED
    BY <1>3, <1>7, <2>1, <2>2, <2>3, SpareGained
<1>9. WayBack(r, op'[r], pc'[r], queue'[r], writer')
  BY <1>6 DEF WayBack
<1>10. ASSUME NEW i \in Request \ {r}
       PROVE  /\ op'[i] = op[i] /\ pc'[i] = pc[i] /\ queue'[i] = queue[i] /\ todo'[i] = todo[i]
              /\ handles'[i] = handles[i]
  BY <1>1, <1>5 DEF ControlTo
<1> QED
  BY <1>3, <1>5, <1>7, <1>8, <1>9, <1>10, SpareLocked

LEMMA SpareClaimed ==
    ASSUME IsFiniteSet(Operation), IInv, IInv', Spare, NEW r \in Request, Claim(r)
    PROVE  Spare'
<1>0. pc[r] = "claim"
  BY DEF Claim
<1>o. PICK o \in Operation, n \in {1, 2}, k \in Path :
          /\ o = op[r] /\ k = Own(r) /\ o \notin handles[r] /\ queue[r] \in Seq(File)
          /\ n \in 1..FileCount(o) /\ k = OwnKeyAt(o, n) /\ ClaimsFile(o, n)
          /\ IF o.kind = "rename" THEN n = Len(queue[r]) ELSE Len(queue[r]) = 1
  BY <1>0, ClaimAtHand
<1>1. /\ shared[r][k] = 1 /\ Lock!Claim(r, k) /\ Count(r, k, 0) /\ handles' = handles
      /\ \/ Len(queue[r]) = 1 /\ Continue(r, "work", <<>>)
         \/ Len(queue[r]) # 1 /\ Continue(r, "claim", Tail(queue[r]))
  BY <1>o DEF Claim
<1>2. TypeOK /\ LockTypes /\ LocksOK /\ Shape(o, "claim", queue[r], todo[r])
  BY <1>0, <1>o DEF IInv, TypeOK, LockTypes, RequestOK
<1>4. LocksTo(r, k) /\ writer[k] = {} /\ writer'[k] = {r} /\ shared'[r][k] = 0
  <2>1. LocksTo(r, k)
    BY <1>1, <1>2, LocksKept
  <2>2. writer[k] = {} /\ writer'[k] = {r}
    BY <1>1, <1>2 DEF Lock!Claim, LockTypes, Lock!TypeOK
  <2>3. shared'[r][k] = 0
    BY <1>1, <1>2 DEF Count, LockTypes
  <2> QED
    BY <2>1, <2>2, <2>3
<1>5. \E p \in {"claim", "work"}, q \in Seq(File) :
          /\ ControlTo(r, p, q, {}) /\ op' = op /\ unguarded' = unguarded
          /\ ClaimsAt(o, p, q, {}, n, k)
          /\ \A j \in {1, 2}, i \in Path :
                ClaimsAt(o, "claim", queue[r], todo[r], j, i) => ClaimsAt(o, p, q, {}, j, i)
  <2>1. CASE Len(queue[r]) = 1
    <3>1. <<>> \in Seq(File) /\ "work" \in Phase /\ LocksOfHead(op[r], "work", <<>>) = {}
      BY EmptySeq DEF Phase, LocksOfHead
    <3>2. Continue(r, "work", <<>>)
      BY <1>1, <2>1
    <3>3. ControlTo(r, "work", <<>>, {}) /\ op' = op /\ unguarded' = unguarded
      <4>1. ControlTo(r, "work", <<>>, LocksOfHead(op[r], "work", <<>>)) /\ op' = op /\ unguarded' = unguarded
        BY <1>2, <3>1, <3>2, ContinueTo
      <4> QED
        BY <3>1, <4>1
    <3>4. ClaimsAt(o, "work", <<>>, {}, n, k)
      BY <1>o DEF ClaimsAt
    <3>5. \A j \in {1, 2}, i \in Path :
              ClaimsAt(o, "claim", queue[r], todo[r], j, i) => ClaimsAt(o, "work", <<>>, {}, j, i)
      BY DEF ClaimsAt, ClaimsFile
    <3> QED
      BY <3>1, <3>3, <3>4, <3>5
  <2>2. CASE Len(queue[r]) # 1
    <3>1. o.kind = "rename" /\ n = Len(queue[r])
      BY <1>o, <2>2
    <3>2. Len(queue[r]) = 2 /\ n = 2 /\ Rest(o, queue[r])
      BY <1>2, <2>2, <3>1 DEF Shape
    <3>3. PICK t \in Seq(File) : t = Tail(queue[r]) /\ Len(t) = 1
      <4>1. Len(queue[r]) > 1
        BY <3>2
      <4> QED
        BY <1>o, <3>2, <4>1, RestTail
    <3>4. "claim" \in Phase /\ LocksOfHead(op[r], "claim", t) = {}
      BY DEF Phase, LocksOfHead
    <3>5. ControlTo(r, "claim", t, {}) /\ op' = op /\ unguarded' = unguarded
      <4>1. Continue(r, "claim", t)
        BY <1>1, <2>2, <3>3
      <4>2. ControlTo(r, "claim", t, LocksOfHead(op[r], "claim", t)) /\ op' = op /\ unguarded' = unguarded
        BY <1>2, <3>4, <4>1, ContinueTo
      <4> QED
        BY <3>4, <4>2
    <3>6. ClaimsAt(o, "claim", t, {}, n, k)
      BY <1>o, <3>1, <3>2, <3>3 DEF ClaimsAt
    <3>7. \A j \in {1, 2}, i \in Path : ~ClaimsAt(o, "claim", queue[r], todo[r], j, i)
      BY <2>2 DEF ClaimsAt
    <3> QED
      BY <3>5, <3>6, <3>7
  <2> QED
    BY <2>1, <2>2
<1>6. PICK p \in {"claim", "work"}, q \in Seq(File) :
          /\ ControlTo(r, p, q, {}) /\ op' = op /\ unguarded' = unguarded
          /\ ClaimsAt(o, p, q, {}, n, k)
          /\ \A j \in {1, 2}, i \in Path :
                ClaimsAt(o, "claim", queue[r], todo[r], j, i) => ClaimsAt(o, p, q, {}, j, i)
  BY <1>5
<1>7. pc'[r] = p /\ queue'[r] = q /\ todo'[r] = {} /\ op'[r] = o /\ op[r] = o /\ handles'[r] = handles[r]
  BY <1>1, <1>o, <1>6 DEF ControlTo
<1>8. \A a \in Operation, j \in {1, 2}, i \in Path :
          /\ NeedsLock(r, a, j, i) => NeedsLock(r, a, j, i)'
          /\ ClaimsFor(r, a, j, i) => ClaimsFor(r, a, j, i)'
  <2>1. ASSUME NEW a \in Operation, NEW j \in {1, 2}, NEW i \in Path, NeedsLock(r, a, j, i)
        PROVE  NeedsLock(r, a, j, i)'
    BY <1>7, <2>1 DEF NeedsLock, TakenAt
  <2>2. ASSUME NEW a \in Operation, NEW j \in {1, 2}, NEW i \in Path, ClaimsFor(r, a, j, i)
        PROVE  ClaimsFor(r, a, j, i)'
    BY <1>0, <1>6, <1>7, <2>2 DEF ClaimsFor
  <2> QED
    BY <2>1, <2>2
<1>9. ASSUME NothingSpare(r)
      PROVE  SpareOf(r, k)'
  <2>1. SpareOf(r, k) /\ shared[r][k] \in Nat /\ shared'[r][k] \in Nat
    BY <1>1, <1>4, <1>9 DEF NothingSpare
  <2>2. HeldBy(r, k)' <= HeldBy(r, k)
    BY <1>1, <1>4 DEF HeldBy
  <2>3. Claimed(r, k)'
    <3>1. ClaimsFor(r, o, n, k)'
      BY <1>6, <1>7 DEF ClaimsFor
    <3> QED
      BY <3>1 DEF Claimed
  <2> QED
    BY <1>8, <2>1, <2>2, <2>3, SpareKept
<1>10. WayBack(r, op'[r], pc'[r], queue'[r], writer')
  BY <1>7 DEF WayBack
<1>11. ASSUME NEW i \in Request \ {r}
       PROVE  /\ op'[i] = op[i] /\ pc'[i] = pc[i] /\ queue'[i] = queue[i] /\ todo'[i] = todo[i]
              /\ handles'[i] = handles[i]
  BY <1>1, <1>6 DEF ControlTo
<1> QED
  BY <1>4, <1>6, <1>8, <1>9, <1>10, <1>11, SpareLocked

LEMMA SpareDowngraded ==
    ASSUME IsFiniteSet(Operation), IInv, IInv', Spare, NEW r \in Request, Back(r)
    PROVE  Spare'
<1>0. pc[r] = "back" /\ pc[r] # "idle" /\ handles' = handles
  BY DEF Back
<1>o. PICK o \in Operation, n \in {1, 2}, k \in Path :
          /\ o = op[r] /\ k = Own(r) /\ o \notin handles[r] /\ queue[r] \in Seq(File)
          /\ n \in 1..FileCount(o) /\ k = OwnKeyAt(o, n) /\ ClaimsFile(o, n)
          /\ IF o.kind = "rename" THEN n = Len(queue[r]) ELSE Len(queue[r]) = 1
  BY <1>0, ClaimAtHand
<1>2. TypeOK /\ LockTypes /\ LocksOK /\ Shape(o, "back", queue[r], todo[r])
  BY <1>0, <1>o DEF IInv, TypeOK, LockTypes, RequestOK
<1>3. ASSUME o.kind # "rename"
      PROVE  writer[k] = {r}
  <2>1. ClaimsAt(o, "back", queue[r], todo[r], n, k)
    BY <1>o DEF ClaimsAt
  <2>2. <<o, n>> \in Claimers(r, k)
    BY <1>0, <1>o, <2>1 DEF Claimers, Needs, ClaimsFor
  <2>3. EnoughOf(r, k)
    BY <1>o, <1>3 DEF IInv, RequestOK, Exempt
  <2> QED
    BY <2>2, <2>3 DEF EnoughOf
\* What rename still has to give back.
<1>4. ASSUME o.kind = "rename", NothingSpare(r)
      PROVE  /\ \A i \in Path : writer[i] = {r} => \E j \in 1..n : i = OwnKeyAt(o, j)
             /\ n = 2 => writer[OwnKeyAt(o, 2)] = {r}
  BY <1>0, <1>o, <1>4 DEF NothingSpare, WayBack
<1>5. CASE writer[k] # {r}
  <2>1. o.kind = "rename" /\ UnlockAll(r) /\ UNCHANGED <<locks, handles>>
    BY <1>0, <1>o, <1>3, <1>5 DEF Back
  <2>2. ASSUME ~unguarded[r], NEW i \in Path
        PROVE  writer[i] # {r}
    <3>1. NothingSpare(r)
      BY <2>2 DEF Spare
    <3>2. n = 1
      BY <1>o, <1>4, <1>5, <2>1, <3>1
    <3>3. writer[i] = {r} => \E j \in 1..1 : i = OwnKeyAt(o, j)
      BY <1>4, <2>1, <3>1, <3>2
    <3> QED
      BY <1>o, <1>5, <3>2, <3>3
  <2> QED
    BY <1>0, <2>1, <2>2, SpareUnlockAll
<1>6. CASE writer[k] = {r}
  <2>1. /\ Lock!Downgrade(r, k) /\ Count(r, k, shared[r][k] + 1)
        /\ \/ Len(queue[r]) = 1 /\ Continue(r, "posthooks", <<>>)
           \/ Len(queue[r]) # 1 /\ Continue(r, "back", Tail(queue[r]))
    BY <1>o, <1>6 DEF Back
  <2>2. LocksTo(r, k)
    BY <1>2, <2>1, LocksKept
  <2>3. writer'[k] = {} /\ shared[r][k] = 0 /\ shared'[r][k] = 1
    <3>1. writer'[k] = {}
      BY <1>2, <2>1 DEF Lock!Downgrade, LockTypes, Lock!TypeOK
    <3>2. readers[k] = {} /\ shared[r][k] \in Nat
      <4>1. writer[k] # {}
        BY <1>6
      <4>2. readers[k] = {}
        BY <1>2, <4>1 DEF LocksOK
      <4>3. shared[r][k] \in Nat
        BY <1>2, OperationAssumption DEF LockTypes
      <4> QED
        BY <4>2, <4>3
    <3>3. shared[r][k] = 0
      <4>1. ~(shared[r][k] > 0)
        BY <1>2, <3>2 DEF LocksOK
      <4> QED
        BY <3>2, <4>1
    <3>4. shared'[r][k] = 1
      BY <1>2, <2>1, <3>3 DEF Count, LockTypes
    <3> QED
      BY <3>1, <3>3, <3>4
  <2>4. \E p \in {"back", "posthooks"}, q \in Seq(File) :
            /\ ControlTo(r, p, q, {}) /\ op' = op /\ unguarded' = unguarded
            /\ NothingSpare(r) =>
                  /\ WayBack(r, o, p, q, writer')
                  /\ \A j \in {1, 2}, i \in Path \ {k} :
                        ClaimsAt(o, "back", queue[r], todo[r], j, i) /\ writer[i] = {r} =>
                            ClaimsAt(o, p, q, {}, j, i)
    <3>1. CASE Len(queue[r]) = 1
      <4>1. <<>> \in Seq(File) /\ "posthooks" \in Phase /\ LocksOfHead(op[r], "posthooks", <<>>) = {}
        BY EmptySeq DEF Phase, LocksOfHead
      <4>2. Continue(r, "posthooks", <<>>)
        BY <2>1, <3>1
      <4>3. ControlTo(r, "posthooks", <<>>, {}) /\ op' = op /\ unguarded' = unguarded
        <5>1. /\ ControlTo(r, "posthooks", <<>>, LocksOfHead(op[r], "posthooks", <<>>))
              /\ op' = op /\ unguarded' = unguarded
          BY <1>2, <4>1, <4>2, ContinueTo
        <5> QED
          BY <4>1, <5>1
      <4>4. WayBack(r, o, "posthooks", <<>>, writer')
        BY DEF WayBack
      <4>5. ASSUME NothingSpare(r), NEW j \in {1, 2}, NEW i \in Path \ {k},
                   ClaimsAt(o, "back", queue[r], todo[r], j, i), writer[i] = {r}
            PROVE  FALSE
        <5>1. CASE o.kind = "rename"
          <6>1. n = 1
            BY <1>o, <3>1, <5>1
          <6>2. \E h \in 1..1 : i = OwnKeyAt(o, h)
            BY <1>4, <4>5, <5>1, <6>1
          <6> QED
            BY <1>o, <4>5, <6>1, <6>2
        <5>2. CASE o.kind # "rename"
          <6>1. j \in 1..FileCount(o) /\ ClaimsFile(o, j) /\ i = OwnKeyAt(o, j)
            BY <4>5 DEF ClaimsAt
          <6>2. j = n
            BY <1>o, <5>2, <6>1 DEF ClaimsFile, FileCount
          <6> QED
            BY <1>o, <4>5, <6>1, <6>2
        <5> QED
          BY <5>1, <5>2
      <4> QED
        BY <4>1, <4>3, <4>4, <4>5
    <3>2. CASE Len(queue[r]) # 1
      <4>1. o.kind = "rename" /\ n = Len(queue[r])
        BY <1>o, <3>2
      <4>2. Len(queue[r]) = 2 /\ n = 2 /\ Rest(o, queue[r])
        BY <1>2, <3>2, <4>1 DEF Shape
      <4>3. PICK t \in Seq(File) : t = Tail(queue[r]) /\ Len(t) = 1
        <5>1. Len(queue[r]) > 1
          BY <4>2
        <5> QED
          BY <1>o, <4>2, <5>1, RestTail
      <4>4. "back" \in Phase /\ LocksOfHead(op[r], "back", t) = {}
        BY DEF Phase, LocksOfHead
      <4>5. ControlTo(r, "back", t, {}) /\ op' = op /\ unguarded' = unguarded
        <5>1. Continue(r, "back", t)
          BY <2>1, <3>2, <4>3
        <5>2. ControlTo(r, "back", t, LocksOfHead(op[r], "back", t)) /\ op' = op /\ unguarded' = unguarded
          BY <1>2, <4>4, <5>1, ContinueTo
        <5> QED
          BY <4>4, <5>2
      <4>6. ASSUME NothingSpare(r)
            PROVE  WayBack(r, o, "back", t, writer')
        <5>1. ASSUME NEW i \in Path, writer'[i] = {r}
              PROVE  i = OwnKeyAt(o, 1)
          <6>1. i # k /\ writer[i] = {r}
            BY <2>2, <2>3, <5>1 DEF LocksTo
          <6>2. \E j \in 1..2 : i = OwnKeyAt(o, j)
            BY <1>4, <4>1, <4>2, <4>6, <6>1
          <6> QED
            BY <1>o, <4>2, <6>1, <6>2
        <5>2. 1 \in 1..Len(t) /\ Len(t) # 2
          <6>1. Len(t) = 1
            BY <4>3, Zenon
          <6> QED
            BY <6>1
        <5> QED
          BY <5>1, <5>2 DEF WayBack
      <4>7. \A j \in {1, 2}, i \in Path :
                ClaimsAt(o, "back", queue[r], todo[r], j, i) => ClaimsAt(o, "back", t, {}, j, i)
        BY DEF ClaimsAt
      <4> QED
        BY <4>5, <4>6, <4>7
    <3> QED
      BY <3>1, <3>2
  <2>5. PICK p \in {"back", "posthooks"}, q \in Seq(File) :
            /\ ControlTo(r, p, q, {}) /\ op' = op /\ unguarded' = unguarded
            /\ NothingSpare(r) =>
                  /\ WayBack(r, o, p, q, writer')
                  /\ \A j \in {1, 2}, i \in Path \ {k} :
                        ClaimsAt(o, "back", queue[r], todo[r], j, i) /\ writer[i] = {r} =>
                            ClaimsAt(o, p, q, {}, j, i)
    BY <2>4
  <2>6. pc'[r] = p /\ queue'[r] = q /\ todo'[r] = {} /\ op'[r] = o /\ op[r] = o /\ handles'[r] = handles[r]
    BY <1>0, <1>o, <2>5 DEF ControlTo
  <2>7. ASSUME NEW a \in Operation, NEW j \in {1, 2}, NEW i \in Path, NeedsLock(r, a, j, i)
        PROVE  NeedsLock(r, a, j, i)'
    BY <1>0, <2>6, <2>7 DEF NeedsLock, TakenAt
  <2>8. ASSUME NothingSpare(r), NEW a \in Operation, NEW j \in {1, 2}, NEW i \in Path \ {k},
               ClaimsFor(r, a, j, i), writer[i] = {r}
        PROVE  ClaimsFor(r, a, j, i)'
    BY <1>0, <2>5, <2>6, <2>8 DEF ClaimsFor
  <2>9. ASSUME NothingSpare(r)
        PROVE  SpareOf(r, k)'
    <3>1. SpareOf(r, k) /\ shared[r][k] \in Nat /\ shared'[r][k] \in Nat
      BY <2>3, <2>9 DEF NothingSpare
    <3>2. HeldBy(r, k)' <= HeldBy(r, k) /\ writer'[k] # {r}
      BY <1>6, <2>3 DEF HeldBy
    <3> QED
      BY <2>7, <3>1, <3>2, SpareKept
  <2>10. ASSUME NEW i \in Request \ {r}
         PROVE  /\ op'[i] = op[i] /\ pc'[i] = pc[i] /\ queue'[i] = queue[i] /\ todo'[i] = todo[i]
                /\ handles'[i] = handles[i]
    BY <1>0, <2>5 DEF ControlTo
  <2>11. NothingSpare(r) => WayBack(r, op'[r], pc'[r], queue'[r], writer')
    BY <2>5, <2>6
  <2> QED
    BY <2>2, <2>3, <2>5, <2>7, <2>8, <2>9, <2>10, <2>11, SpareLocked
<1> QED
  BY <1>5, <1>6

\* What a request gives back, it was to hold: but for rename, and that claims nothing by then.
LEMMA GivenBack ==
    ASSUME IsFiniteSet(Operation), IInv, NEW r \in Request, NEW k \in Path, Release(r, k), NothingSpare(r)
    PROVE  /\ HeldBy(r, k)' = 0 \/ HeldBy(r, k)' = HeldBy(r, k) - 1
           /\ writer'[k] # {r} /\ writer'[k] \in {writer[k], {}}
<1>0. pc[r] = "unlock" /\ k \in todo[r]
  BY DEF Release, Turn
<1>o. PICK o \in Operation, n \in {1, 2} :
          /\ o = op[r] /\ n = Len(queue[r]) /\ n \in 1..FileCount(o) /\ Rest(o, queue[r])
          /\ todo[r] \subseteq KeysAt(o, n) /\ Own(r) = OwnKeyAt(o, n) /\ o \notin handles[r]
          /\ queue[r] \in Seq(File)
  BY <1>0, AtHand
<1>2. TypeOK /\ LockTypes /\ LocksOK /\ shared[r][k] \in Nat /\ HandlesOK(r)
  BY OperationAssumption DEF IInv, TypeOK, LockTypes, RequestOK
<1>3. CASE k = Own(r) /\ Head(queue[r]).type = "exclusive"
  <2>1. o.kind # "rename"
    <3>1. 1 \in 1..Len(queue[r]) /\ Head(queue[r]) = queue[r][1]
      BY <1>o, RestTail
    <3>2. o.kind = "rename" => Head(queue[r]).type = "shared"
      BY <1>0, <1>o, <3>1 DEF NothingSpare, WayBack
    <3> QED
      BY <1>3, <3>2
  <2>2. ClaimsAt(o, "unlock", queue[r], todo[r], n, k)
    BY <1>0, <1>o, <1>3 DEF ClaimsAt
  <2>3. <<o, n>> \in Claimers(r, k)
    BY <1>0, <1>o, <2>2 DEF Claimers, Needs, ClaimsFor
  <2>4. EnoughOf(r, k)
    BY <1>o, <2>1 DEF IInv, RequestOK, Exempt
  <2>5. writer[k] = {r}
    BY <2>3, <2>4 DEF EnoughOf
  <2>6. Lock!Unclaim(r, k) /\ shared' = shared
    BY <1>3, <2>5 DEF Release, ReleaseExclusive
  <2>7. writer'[k] = {}
    BY <1>2, <2>6 DEF Lock!Unclaim, LockTypes, Lock!TypeOK
  <2> QED
    BY <1>2, <2>5, <2>6, <2>7 DEF HeldBy
<1>4. CASE ~(k = Own(r) /\ Head(queue[r]).type = "exclusive")
  <2>1. ReleaseShared(r, k)
    BY <1>4 DEF Release
  <2>2. writer' = writer
    BY <2>1 DEF ReleaseShared, Lock!Unshare
  <2>3. shared'[r][k] = IF shared[r][k] > 0 THEN shared[r][k] - 1 ELSE 0
    BY <1>2, <2>1 DEF ReleaseShared, Count, LockTypes
  <2>4. writer[k] # {r} /\ (o.kind # "rename" => shared[r][k] > 0)
    <3>1. CASE o.kind = "rename"
      <4>1. ASSUME writer[k] = {r}
            PROVE  FALSE
        <5>1. PICK a \in Operation, j \in {1, 2} : ClaimsFor(r, a, j, k)
          BY <4>1 DEF NothingSpare, SpareOf, Claimed
        <5>2. handles[r] = {}
          BY <1>0, <1>2, <1>o, <3>1 DEF HandlesOK
        <5>3. ClaimsAt(o, "unlock", queue[r], todo[r], j, k)
          BY <1>0, <1>o, <5>1, <5>2 DEF ClaimsFor
        <5>4. k = OwnKeyAt(o, j) /\ j = Len(queue[r]) /\ Head(queue[r]).type = "exclusive"
          BY <5>3 DEF ClaimsAt
        <5> QED
          BY <1>4, <1>o, <5>4
      <4> QED
        BY <3>1, <4>1
    <3>2. CASE o.kind # "rename"
      <4>1. SharesAt(o, "unlock", queue[r], todo[r], n, k)
        BY <1>0, <1>o, <1>4 DEF SharesAt, ClaimsAt
      <4>2. <<o, n>> \in Sharers(r, k)
        BY <1>0, <1>o, <4>1 DEF Sharers, Needs, SharesFor
      <4>3. EnoughOf(r, k)
        BY <1>o, <3>2 DEF IInv, RequestOK, Exempt
      <4>4. shared[r][k] > 0
        <5>1. IsFiniteSet(Sharers(r, k)) /\ Cardinality(Sharers(r, k)) \in Nat
          BY NeedsFinite DEF Sharers
        <5>2. Cardinality(Sharers(r, k)) # 0
          BY <4>2, <5>1, FS_EmptySet
        <5>3. Cardinality(Sharers(r, k)) <= shared[r][k]
          BY <4>3 DEF EnoughOf
        <5> QED
          BY <1>2, <5>1, <5>2, <5>3
      <4>5. r \in readers[k]
        BY <1>2, <4>4 DEF LocksOK
      <4>6. writer[k] = {}
        BY <1>2, <4>5 DEF LocksOK
      <4> QED
        BY <4>4, <4>6
    <3> QED
      BY <3>1, <3>2
  <2>5. HeldBy(r, k) = shared[r][k]
    BY <1>2, <2>4 DEF HeldBy
  <2>6. HeldBy(r, k)' = shared'[r][k]
    BY <1>2, <2>2, <2>3, <2>4 DEF HeldBy
  <2> QED
    BY <1>2, <2>2, <2>3, <2>4, <2>5, <2>6
<1> QED
  BY <1>3, <1>4

\* The need that a step takes away, and the ones it leaves.
LEMMA SpareReturned ==
    ASSUME IsFiniteSet(Operation), IInv, IInv', Spare, NEW r \in Request, NEW k \in Path, Release(r, k)
    PROVE  Spare'
<1>0. /\ pc[r] = "unlock" /\ pc[r] \in {"lock", "unlock"} /\ k \in todo[r] /\ handles' = handles
      /\ (More(r, k) /\ Advance(r, k)) \/ (~More(r, k) /\ Return(r) /\ unguarded' = unguarded)
  BY DEF Release, Turn
<1>o. PICK o \in Operation, n \in {1, 2} :
          /\ o = op[r] /\ n = Len(queue[r]) /\ n \in 1..FileCount(o) /\ Rest(o, queue[r])
          /\ todo[r] \subseteq KeysAt(o, n) /\ o \notin handles[r] /\ queue[r] \in Seq(File)
  BY <1>0, AtHand
<1>2. TypeOK /\ LockTypes /\ LocksOK
  BY DEF IInv, TypeOK, LockTypes
<1>3. LocksTo(r, k)
  <2>1. ReleaseShared(r, k) \/ ReleaseExclusive(r, k)
    BY DEF Release
  <2> QED
    BY <1>2, <2>1, LocksKept
<1>4. \E p \in {"unlock", "idle"}, q \in Seq(File), left \in SUBSET Path :
          /\ pc'[r] = p /\ queue'[r] = q /\ todo'[r] = left /\ unguarded' = unguarded
          /\ p = "unlock" => op'[r] = o
          /\ \A i \in Request \ {r} :
                op'[i] = op[i] /\ pc'[i] = pc[i] /\ queue'[i] = queue[i] /\ todo'[i] = todo[i]
          /\ WayBack(r, o, "unlock", queue[r], writer) => WayBack(r, o, p, q, writer')
          /\ \A j \in {1, 2}, i \in Path :
                /\ TakenAt(o, "unlock", queue[r], todo[r], j, i) =>
                      (p = "unlock" /\ TakenAt(o, p, q, left, j, i)) \/ (j = n /\ i = k)
                /\ ClaimsAt(o, "unlock", queue[r], todo[r], j, i) /\ i # k =>
                      p = "unlock" /\ ClaimsAt(o, p, q, left, j, i)
  <2>1. CASE More(r, k)
    <3>1. /\ op' = op /\ unguarded' = unguarded
          /\ \/ /\ todo[r] = {k} /\ Len(queue[r]) = 2
                /\ ControlTo(r, "unlock", Tail(queue[r]), KeysAt(o, 1))
             \/ ControlTo(r, "unlock", queue[r], todo[r] \ {k})
      BY <1>0, <1>o, <2>1, AdvanceTo
    <3>2. CASE todo[r] = {k} /\ Len(queue[r]) = 2 /\ ControlTo(r, "unlock", Tail(queue[r]), KeysAt(o, 1))
      <4>1. PICK t \in Seq(File) : t = Tail(queue[r]) /\ Len(t) = 1 /\ Head(t) = queue[r][2]
        <5>1. Len(queue[r]) > 1
          BY <3>2
        <5> QED
          BY <1>o, <5>1, RestTail
      <4>2. KeysAt(o, 1) \in SUBSET Path /\ n = 2
        BY <1>o, <3>2, OperationType, KeysType DEF KeysAt
      <4>3. ASSUME WayBack(r, o, "unlock", queue[r], writer)
            PROVE  WayBack(r, o, "unlock", t, writer')
        <5>1. ASSUME o.kind = "rename", NEW i \in 1..Len(t)
              PROVE  t[i].type = "shared"
          <6>1. i = 1 /\ 2 \in 1..Len(queue[r])
            BY <3>2, <4>1, <5>1
          <6>2. queue[r][2].type = "shared"
            BY <4>3, <5>1, <6>1 DEF WayBack
          <6>3. t[1] = Head(t)
            BY <4>1
          <6> QED
            BY <4>1, <6>1, <6>2, <6>3
        <5> QED
          BY <5>1 DEF WayBack
      <4>4. ASSUME NEW j \in {1, 2}, NEW i \in Path, TakenAt(o, "unlock", queue[r], todo[r], j, i),
                   ~(j = n /\ i = k)
            PROVE  TakenAt(o, "unlock", t, KeysAt(o, 1), j, i)
        <5>1. j = 1 /\ 1 \in 1..FileCount(o) /\ i \in KeysAt(o, 1)
          BY <3>2, <4>2, <4>4 DEF TakenAt
        <5> QED
          BY <4>1, <5>1 DEF TakenAt
      <4>5. \A j \in {1, 2}, i \in Path : ~(ClaimsAt(o, "unlock", queue[r], todo[r], j, i) /\ i # k)
        BY <3>2 DEF ClaimsAt
      <4>6. /\ pc'[r] = "unlock" /\ queue'[r] = t /\ todo'[r] = KeysAt(o, 1) /\ op'[r] = o
            /\ \A i \in Request \ {r} :
                  op'[i] = op[i] /\ pc'[i] = pc[i] /\ queue'[i] = queue[i] /\ todo'[i] = todo[i]
        BY <1>o, <3>1, <3>2, <4>1 DEF ControlTo
      <4> QED
        BY <3>1, <4>2, <4>3, <4>4, <4>5, <4>6
    <3>3. CASE ControlTo(r, "unlock", queue[r], todo[r] \ {k})
      <4>1. PICK t \in Seq(File), left \in SUBSET Path : t = queue[r] /\ left = todo[r] \ {k}
        <5>1. todo[r] \ {k} \in SUBSET Path
          BY <1>2 DEF TypeOK
        <5> QED
          BY <1>o, <5>1
      <4>2. WayBack(r, o, "unlock", queue[r], writer) => WayBack(r, o, "unlock", t, writer')
        BY <4>1 DEF WayBack
      <4>3. ASSUME NEW j \in {1, 2}, NEW i \in Path, TakenAt(o, "unlock", queue[r], todo[r], j, i),
                   ~(j = n /\ i = k)
            PROVE  TakenAt(o, "unlock", t, left, j, i)
        BY <1>o, <4>1, <4>3 DEF TakenAt
      <4>4. ASSUME NEW j \in {1, 2}, NEW i \in Path, ClaimsAt(o, "unlock", queue[r], todo[r], j, i), i # k
            PROVE  ClaimsAt(o, "unlock", t, left, j, i)
        BY <4>1, <4>4 DEF ClaimsAt
      <4>5. /\ pc'[r] = "unlock" /\ queue'[r] = t /\ todo'[r] = left /\ op'[r] = o
            /\ \A i \in Request \ {r} :
                  op'[i] = op[i] /\ pc'[i] = pc[i] /\ queue'[i] = queue[i] /\ todo'[i] = todo[i]
        BY <1>o, <3>1, <3>3, <4>1 DEF ControlTo
      <4> QED
        BY <3>1, <4>2, <4>3, <4>4, <4>5
    <3> QED
      BY <3>1, <3>2, <3>3
  <2>2. CASE ~More(r, k)
    <3>1. todo[r] = {k} /\ n = 1
      <4>1. todo[r] = {k} /\ ~(n > 1)
        BY <1>o, <2>2 DEF More
      <4> QED
        BY <4>1
    <3>2. Return(r) /\ unguarded' = unguarded /\ <<>> \in Seq(File) /\ {} \in SUBSET Path
      BY <1>0, <2>2, EmptySeq
    <3>3. /\ pc'[r] = "idle" /\ queue'[r] = <<>> /\ todo'[r] = {}
          /\ \A i \in Request \ {r} :
                op'[i] = op[i] /\ pc'[i] = pc[i] /\ queue'[i] = queue[i] /\ todo'[i] = todo[i]
      BY <1>2, <3>2 DEF Return, Goto, TypeOK
    <3>4. WayBack(r, o, "idle", <<>>, writer')
      BY DEF WayBack
    <3>5. \A j \in {1, 2}, i \in Path : TakenAt(o, "unlock", queue[r], todo[r], j, i) => j = n /\ i = k
      BY <1>o, <3>1 DEF TakenAt
    <3>6. \A j \in {1, 2}, i \in Path : ~(ClaimsAt(o, "unlock", queue[r], todo[r], j, i) /\ i # k)
      BY <3>1 DEF ClaimsAt
    <3> QED
      BY <3>2, <3>3, <3>4, <3>5, <3>6
  <2> QED
    BY <2>1, <2>2
<1>5. PICK p \in {"unlock", "idle"}, q \in Seq(File), left \in SUBSET Path :
          /\ pc'[r] = p /\ queue'[r] = q /\ todo'[r] = left /\ unguarded' = unguarded
          /\ p = "unlock" => op'[r] = o
          /\ \A i \in Request \ {r} :
                op'[i] = op[i] /\ pc'[i] = pc[i] /\ queue'[i] = queue[i] /\ todo'[i] = todo[i]
          /\ WayBack(r, o, "unlock", queue[r], writer) => WayBack(r, o, p, q, writer')
          /\ \A j \in {1, 2}, i \in Path :
                /\ TakenAt(o, "unlock", queue[r], todo[r], j, i) =>
                      (p = "unlock" /\ TakenAt(o, p, q, left, j, i)) \/ (j = n /\ i = k)
                /\ ClaimsAt(o, "unlock", queue[r], todo[r], j, i) /\ i # k =>
                      p = "unlock" /\ ClaimsAt(o, p, q, left, j, i)
  BY <1>4
<1>6. ASSUME NEW a \in Operation, NEW j \in {1, 2}, NEW i \in Path, NeedsLock(r, a, j, i)
      PROVE  NeedsLock(r, a, j, i)' \/ (a = o /\ j = n /\ i = k)
  <2>1. CASE a \in handles[r] /\ j = 1 /\ i \in KeysAt(a, 1)
    BY <1>0, <2>1 DEF NeedsLock
  <2>2. CASE a = o /\ TakenAt(o, "unlock", queue[r], todo[r], j, i)
    <3>1. (p = "unlock" /\ TakenAt(o, p, q, left, j, i)) \/ (j = n /\ i = k)
      BY <1>5, <2>2
    <3> QED
      BY <1>5, <2>2, <3>1 DEF NeedsLock
  <2> QED
    BY <1>0, <1>6, <1>o, <2>1, <2>2 DEF NeedsLock
<1>7. ASSUME NEW a \in Operation, NEW j \in {1, 2}, NEW i \in Path \ {k}, ClaimsFor(r, a, j, i)
      PROVE  ClaimsFor(r, a, j, i)'
  <2>1. CASE a \in handles[r] /\ j = 1 /\ a.kind = "openWrite" /\ i = OwnKeyAt(a, 1)
    BY <1>0, <2>1 DEF ClaimsFor
  <2>2. CASE a = o /\ ClaimsAt(o, "unlock", queue[r], todo[r], j, i)
    <3>1. p = "unlock" /\ ClaimsAt(o, p, q, left, j, i)
      BY <1>5, <2>2
    <3> QED
      BY <1>5, <2>2, <3>1 DEF ClaimsFor
  <2> QED
    BY <1>0, <1>7, <1>o, <2>1, <2>2 DEF ClaimsFor
<1>8. ASSUME NothingSpare(r)
      PROVE  WayBack(r, op'[r], pc'[r], queue'[r], writer') /\ SpareOf(r, k)' /\ writer'[k] \in {writer[k], {}}
  <2>1. WayBack(r, op'[r], pc'[r], queue'[r], writer')
    <3>1. WayBack(r, o, p, q, writer')
      BY <1>0, <1>5, <1>8, <1>o DEF NothingSpare
    <3>2. CASE p = "unlock"
      BY <1>5, <3>1, <3>2
    <3>3. CASE p = "idle"
      BY <1>5, <3>3 DEF WayBack
    <3> QED
      BY <3>2, <3>3
  <2>2. /\ HeldBy(r, k)' = 0 \/ HeldBy(r, k)' = HeldBy(r, k) - 1
        /\ writer'[k] # {r} /\ writer'[k] \in {writer[k], {}}
    BY <1>8, GivenBack
  <2>3. SpareOf(r, k) /\ shared[r][k] \in Nat /\ shared'[r][k] \in Nat
    BY <1>2, <1>3, <1>8, OperationAssumption DEF NothingSpare, LocksTo, LockTypes
  <2>4. \A a \in Operation, j \in {1, 2} : NeedsLock(r, a, j, k) => NeedsLock(r, a, j, k)' \/ (a = o /\ j = n)
    BY <1>6
  <2> QED
    BY <2>1, <2>2, <2>3, <2>4, SpareReleased
<1>9. writer'[k] \in {writer[k], {r}, {}}
  <2>1. ReleaseShared(r, k) \/ ReleaseExclusive(r, k)
    BY DEF Release
  <2>2. CASE ReleaseShared(r, k)
    BY <2>2 DEF ReleaseShared, Lock!Unshare
  <2>3. CASE ReleaseExclusive(r, k)
    BY <1>2, <2>3 DEF ReleaseExclusive, Lock!Unclaim, LockTypes, Lock!TypeOK
  <2> QED
    BY <2>1, <2>2, <2>3
<1>10. \A i \in Request \ {r} :
           /\ op'[i] = op[i] /\ pc'[i] = pc[i] /\ queue'[i] = queue[i] /\ todo'[i] = todo[i]
           /\ handles'[i] = handles[i]
  BY <1>0, <1>5
<1>11. \A a \in Operation, j \in {1, 2}, i \in Path \ {k} :
           /\ NeedsLock(r, a, j, i) => NeedsLock(r, a, j, i)'
           /\ ClaimsFor(r, a, j, i) /\ writer[i] = {r} => ClaimsFor(r, a, j, i)'
  BY <1>6, <1>7
<1> QED
  BY <1>3, <1>5, <1>8, <1>9, <1>10, <1>11, SpareLocked

LEMMA SpareStep ==
    ASSUME IsFiniteSet(Operation), IInv, IInv', Spare, [Next]_vars
    PROVE  Spare'
<1>1. CASE UNCHANGED vars
  <2>1. /\ writer' = writer /\ shared' = shared /\ op' = op /\ pc' = pc
        /\ queue' = queue /\ todo' = todo /\ handles' = handles /\ unguarded' = unguarded
    BY <1>1 DEF vars, locks, control
  <2>2. ASSUME NEW r \in Request, ~unguarded'[r]
        PROVE  NothingSpare(r)'
    <3>1. NothingSpare(r)
      BY <2>1, <2>2 DEF Spare
    <3>2. WayBack(r, op[r], pc[r], queue[r], writer)'
      BY <2>1, <3>1 DEF NothingSpare
    <3>3. ASSUME NEW k \in Path
          PROVE  SpareOf(r, k)'
      <4>1. SpareOf(r, k) /\ shared[r][k] \in Nat /\ shared'[r][k] \in Nat /\ HeldBy(r, k) \in Nat
        BY <2>1, <3>1, OperationAssumption DEF NothingSpare, IInv, TypeOK, HeldBy
      <4>2. HeldBy(r, k)' <= HeldBy(r, k)
        BY <2>1, <4>1 DEF HeldBy
      <4>3. \A o \in Operation, j \in {1, 2} : NeedsLock(r, o, j, k) => NeedsLock(r, o, j, k)'
        BY <2>1 DEF NeedsLock
      <4>4. writer'[k] = {r} => Claimed(r, k)'
        BY <2>1, <4>1 DEF SpareOf, Claimed, ClaimsFor
      <4> QED
        BY <4>1, <4>2, <4>3, <4>4, SpareKept
    <3> QED
      BY <3>2, <3>3 DEF NothingSpare
  <2> QED
    BY <2>2 DEF Spare
<1>2. ASSUME NEW r \in Request, Step(r)
      PROVE  Spare'
  <2>1. ASSUME NEW o \in Operation, Start(r, o) \/ Close(r, o)
        PROVE  Spare'
    BY <2>1, SpareStarted, SpareClosed
  <2>2. ASSUME NEW k \in Path, Acquire(r, k) \/ Release(r, k)
        PROVE  Spare'
    BY <2>2, SpareAcquired, SpareReturned
  <2>3. CASE \/ Refused(r) \/ Hooks(r) \/ Veto(r) \/ HooksThrow(r) \/ ClaimRefused(r)
             \/ WorkFailed(r) \/ StorageThrows(r) \/ UpdateThrows(r) \/ PostHooks(r)
    BY <2>3, SpareQuiet
  <2>4. CASE Claim(r) \/ Back(r) \/ WorkDone(r)
    BY <2>4, SpareClaimed, SpareDowngraded, SpareWorkDone
  <2> QED
    BY <1>2, <2>1, <2>2, <2>3, <2>4 DEF Step
<1>3. ASSUME NEW r \in Request, End(r)
      PROVE  Spare'
  BY <1>3, SpareEnded
<1> QED
  BY <1>1, <1>2, <1>3 DEF Next

LEMMA InitSpare ==
    ASSUME IsFiniteSet(Operation), Init
    PROVE  Spare
<1>1. /\ writer = [p \in Path |-> {}] /\ shared = [r \in Request |-> [k \in Path |-> 0]]
      /\ pc = [r \in Request |-> "idle"]
  BY DEF Init, Lock!Init
<1>2. ASSUME NEW r \in Request
      PROVE  NothingSpare(r)
  <2>1. WayBack(r, op[r], pc[r], queue[r], writer)
    BY <1>1 DEF WayBack
  <2>2. ASSUME NEW k \in Path
        PROVE  SpareOf(r, k)
    <3>1. writer[k] # {r} /\ HeldBy(r, k) = 0
      BY <1>1 DEF HeldBy
    <3>2. Cardinality(Needers(r, k)) \in Nat
      BY NeedsFinite DEF Needers
    <3> QED
      BY <3>1, <3>2 DEF SpareOf
  <2> QED
    BY <2>1, <2>2 DEF NothingSpare
<1> QED
  BY <1>2 DEF Spare

LEMMA AsMany ==
    ASSUME NEW S, IsFiniteSet(S)
    PROVE  Cardinality(S \X {1}) = Cardinality(S)
<1>1. IsFiniteSet({1}) /\ Cardinality({1}) = 1
  BY FS_Singleton
<1>2. Cardinality(S \X {1}) = Cardinality(S) * Cardinality({1})
  BY <1>1, FS_Product
<1>3. Cardinality(S) \in Nat
  BY FS_CardinalityType
<1> QED
  BY <1>1, <1>2, <1>3

\* Between two operations, only the open files need locks.
LEMMA SpareBalances ==
    ASSUME IsFiniteSet(Operation), IInv, Spare
    PROVE  Balanced
<1> SUFFICES ASSUME NEW r \in Request, NEW k \in Path, pc[r] = "idle", ~unguarded[r]
             PROVE  LET opened == {o \in handles[r] : k \in LockKeys(o.kind, o.source)}
                        written == {o \in opened : o.kind = "openWrite" /\ k = Node[o.source]}
                    IN  /\ shared[r][k] = Cardinality(opened \ written)
                        /\ writer[k] = {r} <=> written # {}
  BY DEF Balanced
<1> DEFINE opened == {o \in handles[r] : k \in LockKeys(o.kind, o.source)}
           written == {o \in opened : o.kind = "openWrite" /\ k = Node[o.source]}
<1>1. handles[r] \subseteq Operation /\ shared[r][k] \in Nat /\ LocksOK /\ EnoughOf(r, k) /\ SpareOf(r, k)
  <2>1. handles[r] \subseteq Operation /\ shared[r][k] \in Nat /\ LocksOK
    BY OperationAssumption DEF IInv, TypeOK
  <2>2. EnoughOf(r, k)
    BY DEF IInv, RequestOK, Exempt
  <2>3. SpareOf(r, k)
    BY DEF Spare, NothingSpare
  <2> QED
    BY <2>1, <2>2, <2>3
<1>2. ASSUME NEW o \in handles[r]
      PROVE  /\ KeysAt(o, 1) = LockKeys(o.kind, o.source) /\ OwnKeyAt(o, 1) = Node[o.source]
             /\ OwnKeyAt(o, 1) \in KeysAt(o, 1)
  <2>1. o.kind \in {"openRead", "openWrite"} /\ o \in Operation
    BY <1>1 DEF IInv, RequestOK, HandlesOK
  <2>2. PathAt(o, 1) = o.source /\ o.source \in Path
    BY <2>1, OperationType DEF PathAt
  <2> QED
    BY <2>1, <2>2, KeysType DEF KeysAt, OwnKeyAt, OwnKey
<1>3. ASSUME NEW o \in Operation, NEW j \in {1, 2}
      PROVE  /\ NeedsLock(r, o, j, k) <=> o \in opened /\ j = 1
             /\ ClaimsFor(r, o, j, k) <=> o \in written /\ j = 1
             /\ SharesFor(r, o, j, k) <=> o \in opened \ written /\ j = 1
  <2>1. NeedsLock(r, o, j, k) <=> o \in handles[r] /\ j = 1 /\ k \in KeysAt(o, 1)
    BY DEF NeedsLock, TakenAt
  <2>2. ClaimsFor(r, o, j, k) <=> o \in handles[r] /\ j = 1 /\ o.kind = "openWrite" /\ k = OwnKeyAt(o, 1)
    BY DEF ClaimsFor, ClaimsAt
  <2>3. SharesFor(r, o, j, k) <=> /\ o \in handles[r] /\ j = 1 /\ k \in KeysAt(o, 1)
                                  /\ ~(o.kind = "openWrite" /\ k = OwnKeyAt(o, 1))
    BY DEF SharesFor, SharesAt
  <2> QED
    BY <1>2, <2>1, <2>2, <2>3
<1>4. opened \subseteq Operation /\ written \subseteq opened
  BY <1>1
<1> HIDE DEF opened, written
<1>5. Needers(r, k) = opened \X {1} /\ Claimers(r, k) = written \X {1}
      /\ Sharers(r, k) = (opened \ written) \X {1}
  BY <1>3, <1>4 DEF Needers, Claimers, Sharers, Needs
<1>6. IsFiniteSet(opened) /\ IsFiniteSet(opened \ written)
  BY <1>4, FS_Subset
<1>7. /\ Cardinality(Needers(r, k)) = Cardinality(opened)
      /\ Cardinality(Sharers(r, k)) = Cardinality(opened \ written)
      /\ Cardinality(opened) \in Nat /\ Cardinality(opened \ written) \in Nat
  BY <1>5, <1>6, AsMany, FS_CardinalityType
<1>8. CASE written = {}
  <2>1. writer[k] # {r}
    BY <1>1, <1>3, <1>8 DEF SpareOf, Claimed
  <2>2. shared[r][k] <= Cardinality(opened)
    BY <1>1, <1>7, <2>1 DEF SpareOf, HeldBy
  <2>3. Cardinality(opened \ written) <= shared[r][k]
    BY <1>1, <1>7 DEF EnoughOf
  <2>4. opened \ written = opened
    BY <1>8
  <2>5. shared[r][k] = Cardinality(opened \ written)
    <3>1. Cardinality(opened \ written) = Cardinality(opened)
      BY <2>4, Zenon
    <3> QED
      BY <1>1, <1>7, <2>2, <2>3, <3>1
  <2> QED
    BY <1>8, <2>1, <2>5 DEF opened, written
<1>9. CASE written # {}
  <2>1. PICK w \in written : TRUE
    BY <1>9
  <2>2. <<w, 1>> \in Claimers(r, k)
    BY <1>5, <2>1
  <2>3. writer[k] = {r} /\ Sharers(r, k) = {}
    BY <1>1, <2>2 DEF EnoughOf
  <2>4. Cardinality(opened \ written) = 0
    BY <1>7, <2>3, FS_EmptySet
  <2>5. shared[r][k] = 0
    <3>1. readers[k] = {}
      <4>1. writer[k] # {}
        BY <2>3
      <4> QED
        BY <1>1, <4>1 DEF LocksOK
    <3>2. ~(shared[r][k] > 0)
      BY <1>1, <3>1 DEF LocksOK
    <3> QED
      BY <1>1, <3>2
  <2> QED
    BY <1>9, <2>3, <2>4, <2>5 DEF opened, written
<1> QED
  BY <1>8, <1>9

\* Whatever goes wrong in an operation, short of an exception that leaves it: when
\* it has ended, the request holds the locks of its open files, as often as
\* fopen took them, and no other one.
THEOREM GivesBack ==
    ASSUME Assumptions
    PROVE  Spec => []Balanced
<1>1. Init => Spare
  BY InitSpare DEF Assumptions
<1>2. IInv /\ IInv' /\ Spare /\ [Next]_vars => Spare'
  BY SpareStep DEF Assumptions
<1>3. IInv /\ Spare => Balanced
  BY SpareBalances DEF Assumptions
<1> QED
  BY <1>1, <1>2, <1>3, Invariance, PTL DEF Spec

-----------------------------------------------------------------------------
(***************************************************************************)
(* The contract of the locks, and that View keeps to it.                   *)
(***************************************************************************)
(* A path has no writer, or a single one and no reader. *)
FreeOrOwned ==
    \A p \in Path :
        \/ writer[p] = {}
        \/ \E r \in Request : writer[p] = {r} /\ readers[p] = {}

(* Every step keeps the lock of every path consistent. *)
LEMMA NextFreeOrOwned ==
    ASSUME Lock!TypeOK, FreeOrOwned, [Lock!Next]_(Lock!vars)
    PROVE  Lock!TypeOK' /\ FreeOrOwned'
<1>1. CASE UNCHANGED Lock!vars
  BY <1>1 DEF Lock!TypeOK, FreeOrOwned, Lock!vars
<1>2. ASSUME NEW r \in Request, NEW p \in Path,
             \/ Lock!Share(r, p)
             \/ Lock!Claim(r, p)
             \/ Lock!Downgrade(r, p)
             \/ Lock!Unshare(r, p)
             \/ Lock!Unclaim(r, p)
      PROVE  Lock!TypeOK' /\ FreeOrOwned'
  <2>1. Lock!TypeOK' /\ \A t \in Path : t # p => writer'[t] = writer[t] /\ readers'[t] = readers[t]
    BY <1>2 DEF Lock!TypeOK, Lock!Share, Lock!Claim, Lock!Downgrade, Lock!Unshare, Lock!Unclaim
  <2>2. writer'[p] = {} \/ \E q \in Request : writer'[p] = {q} /\ readers'[p] = {}
    BY <1>2 DEF Lock!TypeOK, FreeOrOwned, Lock!Share, Lock!Claim, Lock!Downgrade, Lock!Unshare, Lock!Unclaim
  <2> QED
    BY <2>1, <2>2 DEF FreeOrOwned
<1>3. ASSUME NEW r \in Request, Lock!Vanish(r)
      PROVE  Lock!TypeOK' /\ FreeOrOwned'
  <2>1. Lock!TypeOK'
    BY <1>3 DEF Lock!TypeOK, Lock!Vanish
  <2>2. ASSUME NEW p \in Path
        PROVE  writer'[p] = {} \/ \E q \in Request : writer'[p] = {q} /\ readers'[p] = {}
    <3>1. writer'[p] = writer[p] \ {r} /\ readers'[p] = readers[p] \ {r}
      BY <1>3 DEF Lock!Vanish
    <3>2. CASE writer[p] = {}
      BY <3>1, <3>2
    <3>3. ASSUME NEW q \in Request, writer[p] = {q}, readers[p] = {}
          PROVE  writer'[p] = {} \/ (writer'[p] = {q} /\ readers'[p] = {})
      BY <3>1, <3>3
    <3> QED
      BY <3>2, <3>3 DEF FreeOrOwned
  <2> QED
    BY <2>1, <2>2 DEF FreeOrOwned
<1> QED
  BY <1>1, <1>2, <1>3 DEF Lock!Next

(* No request writes a path while another one reads or writes it: what     *)
(* every provider that implements ILockingProvider as FileLock states it    *)
(* guarantees.                                                             *)
THEOREM LockExcludes == Lock!Spec => [](Lock!TypeOK /\ Lock!Exclusion)
<1>1. Lock!Init => Lock!TypeOK /\ FreeOrOwned
  BY DEF Lock!Init, Lock!TypeOK, FreeOrOwned
<1>2. Lock!TypeOK /\ FreeOrOwned /\ [Lock!Next]_(Lock!vars) => (Lock!TypeOK /\ FreeOrOwned)'
  BY NextFreeOrOwned
<1>3. Lock!TypeOK /\ FreeOrOwned => Lock!Exclusion
  BY DEF FreeOrOwned, Lock!Exclusion
<1> QED
  BY <1>1, <1>2, <1>3, PTL DEF Lock!Spec

\* A step of View changes the locks as a step of FileLock does, or not at all.
LEMMA NextLocks ==
    ASSUME IInv, [Next]_vars
    PROVE  [Lock!Next]_(Lock!vars)
<1>1. ASSUME UNCHANGED locks
      PROVE  UNCHANGED Lock!vars
  BY <1>1 DEF locks, Lock!vars
<1>2. CASE UNCHANGED vars
  BY <1>1, <1>2 DEF vars
<1>3. ASSUME NEW r \in Request, Step(r)
      PROVE  Lock!Next \/ UNCHANGED Lock!vars
  <2>1. ASSUME NEW k \in Path, Acquire(r, k)
        PROVE  Lock!Next
    BY <2>1 DEF Acquire, Lock!Next
  <2>2. ASSUME NEW k \in Path, Release(r, k)
        PROVE  Lock!Next \/ UNCHANGED Lock!vars
    BY <2>2 DEF Release, ReleaseExclusive, ReleaseShared, Lock!Next, Lock!vars
  <2>3. CASE Claim(r)
    <3>1. Own(r) \in Path
      BY <2>3, ClaimAtHand DEF Claim
    <3> QED
      BY <2>3, <3>1 DEF Claim, Lock!Next
  <2>4. CASE Back(r)
    <3>1. Own(r) \in Path
      BY <2>4, ClaimAtHand DEF Back
    <3>2. Lock!Downgrade(r, Own(r)) \/ UNCHANGED locks
      BY <2>4 DEF Back
    <3> QED
      BY <1>1, <3>1, <3>2 DEF Lock!Next
  <2>5. CASE \E o \in Operation : Start(r, o) \/ Close(r, o)
    BY <1>1, <2>5 DEF Start, Close
  <2>6. CASE \/ Refused(r) \/ Hooks(r) \/ Veto(r) \/ HooksThrow(r) \/ ClaimRefused(r)
             \/ WorkDone(r) \/ WorkFailed(r) \/ StorageThrows(r) \/ UpdateThrows(r)
             \/ PostHooks(r)
    BY <1>1, <2>6 DEF Refused, Hooks, Veto, HooksThrow, ClaimRefused, WorkDone, WorkFailed,
                      StorageThrows, UpdateThrows, PostHooks
  <2> QED
    BY <1>3, <2>1, <2>2, <2>3, <2>4, <2>5, <2>6 DEF Step
<1>4. ASSUME NEW r \in Request, End(r)
      PROVE  Lock!Next
  BY <1>4 DEF End, Lock!Next
<1> QED
  BY <1>2, <1>3, <1>4 DEF Next

\* The operations of View change locks only as a provider may: what they are proved
\* to keep is kept over every provider that implements FileLock.
THEOREM FollowsContract ==
    ASSUME Assumptions
    PROVE  Spec => Lock!Spec
<1>1. Init => Lock!Init
  BY DEF Init
<1>2. IInv /\ [Next]_vars => [Lock!Next]_(Lock!vars)
  BY NextLocks
<1> QED
  BY <1>1, <1>2, Invariance, PTL DEF Spec, Lock!Spec
=============================================================================
