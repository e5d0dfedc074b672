---------------------------- MODULE SharingTabProofs ----------------------------
(***************************************************************************)
(* Proofs about SharingTab, for any number of files, links and requests:   *)
(* the list shows the links of the file that is selected, whatever the     *)
(* order in which files are selected and answers come, and no more than    *)
(* one link is created from a draft.                                       *)
(*                                                                         *)
(* An entry that waits for an answer is shown and waits for one request,   *)
(* which is about the file that is selected (RequestOK, Distinct), so that *)
(* the answer it gets can be put into the list.                            *)
(***************************************************************************)
EXTENDS SharingTab, FiniteSetTheorems, WellFoundedInduction, TLAPS

-----------------------------------------------------------------------------
(***************************************************************************)
(* The invariant.                                                          *)
(***************************************************************************)
ServerOK ==
    /\ lastId \in 0..MaxId
    /\ links \in [File -> SUBSET Id] /\ There \subseteq 1..lastId
    /\ file \in File /\ review \in BOOLEAN

\* No entry is shown while the first listing of a file is loaded.
TabOK ==
    /\ loading \in BOOLEAN
    /\ shares \subseteq Id /\ draft \in {"none", "new", "failed"}
    /\ loading => shares = {}

\* An entry waits for requests about the file that is selected.  A link that was
\* created belongs to the file of its request, one that was deleted to none.
RequestOK(q) ==
    /\ q \in Request
    /\ q.kind = "list" <=> q.by = Tab
    /\ q.by \in Gone => q.answer = "none"
    /\ q.by \in Entry => q.file = file /\ Shown(q.by)
    /\ q.kind = "create" /\ q.answer = "ok" =>
          q.id \in 1..lastId /\ \A f \in File : q.id \in links[f] => f = q.file
    /\ q.kind = "delete" => q.id \in Id /\ (q.by \in Entry => q.by = q.id)
    /\ q.kind = "delete" /\ q.answer = "ok" => q.id \in 1..lastId /\ q.id \notin There

\* Requests are told apart by their number, and those of the entries by the
\* entry too.
Distinct(rs) ==
    \A p, q \in rs : (p.kind = q.kind /\ p.n = q.n) \/ (p.by = q.by /\ p.by \in Entry) => p = q

RequestsOK == Distinct(requests) /\ \A q \in requests : RequestOK(q)

\* A link created from the draft is the one its request was answered with.
OfDraft(q, i) == q.by = Draft /\ q.answer = "ok" /\ q.id = i

MadeOK ==
    /\ made \in (SUBSET Id) \cup {None}
    /\ made # None => \A i \in Id : i \in made <=> \E q \in requests : OfDraft(q, i)

ListOK == stale \subseteq Id /\ ListIsCurrent

IInv == ServerOK /\ TabOK /\ RequestsOK /\ MadeOK /\ ListOK

-----------------------------------------------------------------------------
(***************************************************************************)
(* Names and numbers.                                                      *)
(***************************************************************************)
LEMMA AtMostFive ==
    ASSUME NEW a, NEW b, NEW c, NEW d, NEW e
    PROVE  Cardinality({a, b, c, d, e}) <= 5
<1>1. IsFiniteSet({a}) /\ Cardinality({a}) = 1
  BY FS_Singleton
<1>2. {a, b} = {a} \cup {b} /\ {a, b, c} = {a, b} \cup {c}
      /\ {a, b, c, d} = {a, b, c} \cup {d} /\ {a, b, c, d, e} = {a, b, c, d} \cup {e}
  OBVIOUS
<1>3. IsFiniteSet({a, b}) /\ Cardinality({a, b}) \in 1..2
  BY <1>1, <1>2, FS_AddElement
<1>4. IsFiniteSet({a, b, c}) /\ Cardinality({a, b, c}) \in 1..3
  BY <1>2, <1>3, FS_AddElement
<1>5. IsFiniteSet({a, b, c, d}) /\ Cardinality({a, b, c, d}) \in 1..4
  BY <1>2, <1>4, FS_AddElement
<1>6. Cardinality({a, b, c, d, e}) \in 1..5
  BY <1>2, <1>5, FS_AddElement
<1> QED BY <1>6

\* The names are different, and none is the id of a link.
LEMMA Names ==
    /\ {Default, Draft, Tab, Closed, Cancelled} \cap Id = {}
    /\ Default # Draft /\ {Default, Draft} \cap {Tab, Closed, Cancelled} = {}
    /\ Tab \notin Gone
<1> DEFINE all == {Default, Draft, Tab, Closed, Cancelled, None}
<1>1. Id \subseteq Nat
  BY BoundAssumption DEF Id
<1>2. {Default, Draft, Tab, Closed, Cancelled} \cap Id = {}
  BY <1>1, EntryAssumption
<1>3. ASSUME NEW a, NEW b, NEW c, NEW d, NEW e, all = {a, b, c, d, e} PROVE FALSE
  <2>1. Cardinality(all) = 6
    BY EntryAssumption
  <2>2. Cardinality({a, b, c, d, e}) <= 5
    BY AtMostFive
  <2>3. Cardinality(all) <= 5
    BY <1>3, <2>2
  <2> HIDE DEF all
  <2> QED BY <2>1, <2>3
<1>4. Default # Draft
  <2>1. SUFFICES ASSUME Default = Draft PROVE FALSE
    OBVIOUS
  <2>2. all = {Draft, Tab, Closed, Cancelled, None}
    BY <2>1
  <2> QED BY <1>3, <2>2
<1>5. Default # Tab
  <2>1. SUFFICES ASSUME Default = Tab PROVE FALSE
    OBVIOUS
  <2>2. all = {Draft, Tab, Closed, Cancelled, None}
    BY <2>1
  <2> QED BY <1>3, <2>2
<1>6. Default # Closed
  <2>1. SUFFICES ASSUME Default = Closed PROVE FALSE
    OBVIOUS
  <2>2. all = {Draft, Tab, Closed, Cancelled, None}
    BY <2>1
  <2> QED BY <1>3, <2>2
<1>7. Default # Cancelled
  <2>1. SUFFICES ASSUME Default = Cancelled PROVE FALSE
    OBVIOUS
  <2>2. all = {Draft, Tab, Closed, Cancelled, None}
    BY <2>1
  <2> QED BY <1>3, <2>2
<1>8. Draft # Tab
  <2>1. SUFFICES ASSUME Draft = Tab PROVE FALSE
    OBVIOUS
  <2>2. all = {Default, Tab, Closed, Cancelled, None}
    BY <2>1
  <2> QED BY <1>3, <2>2
<1>9. Draft # Closed
  <2>1. SUFFICES ASSUME Draft = Closed PROVE FALSE
    OBVIOUS
  <2>2. all = {Default, Tab, Closed, Cancelled, None}
    BY <2>1
  <2> QED BY <1>3, <2>2
<1>10. Draft # Cancelled
  <2>1. SUFFICES ASSUME Draft = Cancelled PROVE FALSE
    OBVIOUS
  <2>2. all = {Default, Tab, Closed, Cancelled, None}
    BY <2>1
  <2> QED BY <1>3, <2>2
<1>11. Tab # Closed
  <2>1. SUFFICES ASSUME Tab = Closed PROVE FALSE
    OBVIOUS
  <2>2. all = {Default, Draft, Closed, Cancelled, None}
    BY <2>1
  <2> QED BY <1>3, <2>2
<1>12. Tab # Cancelled
  <2>1. SUFFICES ASSUME Tab = Cancelled PROVE FALSE
    OBVIOUS
  <2>2. all = {Default, Draft, Closed, Cancelled, None}
    BY <2>1
  <2> QED BY <1>3, <2>2
<1> QED BY <1>2, <1>4, <1>5, <1>6, <1>7, <1>8, <1>9, <1>10, <1>11, <1>12 DEF Gone

\* A component that waits for an answer is an entry, or the tab, or has gone.
LEMMA Kinds == Entry \cap Gone = {} /\ Tab \notin Entry \cup Gone
  BY Names DEF Entry, Gone

LEMMA ShownIs ==
    /\ Shown(Default) <=> ~loading /\ shares = {} /\ draft = "none"
    /\ Shown(Draft) <=> ~loading /\ draft # "none"
    /\ \A i \in Id : Shown(i) <=> ~loading /\ i \in shares
  BY Names DEF Shown

LEMMA ShownIsThen ==
    /\ Shown(Default)' <=> ~loading' /\ shares' = {} /\ draft' = "none"
    /\ Shown(Draft)' <=> ~loading' /\ draft' # "none"
    /\ \A i \in Id : Shown(i)' <=> ~loading' /\ i \in shares'
  BY Names DEF Shown

\* A set of numbers that is not empty has a smallest one.
LEMMA MinIn ==
    ASSUME NEW S \in SUBSET Nat, S # {}
    PROVE  Min(S) \in S
<1> DEFINE R == OpToRel(<, Nat)
<1>1. IsWellFoundedOn(R, Nat)
  BY NatLessThanWellFounded, Zenon
<1>2. \A x, y \in Nat : x < y => <<x, y>> \in R
  BY DEF OpToRel
<1> HIDE DEF R
<1>3. PICK x \in S : \A y \in S : ~(<<y, x>> \in R)
  BY <1>1, WFMin
<1>4. ASSUME NEW y \in S PROVE x <= y
  <2>1. ~(y < x)
    BY <1>2, <1>3
  <2> QED BY <2>1
<1> QED BY <1>4 DEF Min

\* There are finitely many requests.
LEMMA Finite ==
    ASSUME RequestsOK
    PROVE  IsFiniteSet(requests)
<1> DEFINE kinds == {"list", "create", "delete"}
           f == [q \in requests |-> <<q.kind, q.n>>]
<1>1. \A q \in requests : q.kind \in kinds /\ q.n \in 1..MaxRequest
  BY DEF RequestsOK, RequestOK, Request
<1>2. f \in Injection(requests, kinds \X (1..MaxRequest))
  BY <1>1 DEF RequestsOK, Distinct, Injection, IsInjective
<1>3. IsFiniteSet({"list"}) /\ IsFiniteSet({"list"} \cup {"create"})
  BY FS_Singleton, FS_AddElement
<1>4. IsFiniteSet(kinds)
  <2>1. kinds = ({"list"} \cup {"create"}) \cup {"delete"}
    OBVIOUS
  <2>2. IsFiniteSet(({"list"} \cup {"create"}) \cup {"delete"})
    BY <1>3, FS_AddElement
  <2> QED BY <2>1, <2>2
<1>5. IsFiniteSet(1..MaxRequest)
  BY FS_Interval, BoundAssumption
<1>6. IsFiniteSet(kinds \X (1..MaxRequest))
  BY <1>4, <1>5, FS_Product
<1> QED BY <1>2, <1>6, FS_Injection

\* As long as there are fewer requests than MaxRequest, some number is free.
LEMMA FreeNumber ==
    ASSUME RequestsOK, CanSend, NEW used \in SUBSET {q.n : q \in requests}
    PROVE  Min(1..MaxRequest \ used) \in 1..MaxRequest \ used
<1> DEFINE all == {q.n : q \in requests}
           f == [q \in requests |-> q.n]
<1>1. IsFiniteSet(requests) /\ Cardinality(requests) < MaxRequest
  BY Finite DEF CanSend
<1>2. f \in Surjection(requests, all)
  BY DEF Surjection
<1>3. IsFiniteSet(all) /\ Cardinality(all) <= Cardinality(requests)
  BY <1>1, <1>2, FS_Surjection
<1>4. IsFiniteSet(used) /\ Cardinality(used) <= Cardinality(all)
  BY <1>3, FS_Subset
<1>5. MaxRequest \in Nat /\ Cardinality(1..MaxRequest) = MaxRequest
  BY FS_Interval, BoundAssumption
<1>6. /\ Cardinality(used) \in Nat /\ Cardinality(all) \in Nat
      /\ Cardinality(requests) \in Nat
  BY <1>1, <1>3, <1>4, FS_CardinalityType
<1>7. 1..MaxRequest \ used # {}
  <2>1. SUFFICES ASSUME 1..MaxRequest \subseteq used PROVE FALSE
    OBVIOUS
  <2>2. Cardinality(1..MaxRequest) <= Cardinality(used)
    BY <1>4, <2>1, FS_Subset
  <2> QED BY <1>1, <1>3, <1>4, <1>5, <1>6, <2>2
<1>8. 1..MaxRequest \ used \subseteq Nat
  BY <1>5
<1> QED BY <1>7, <1>8, MinIn

-----------------------------------------------------------------------------
(***************************************************************************)
(* What happens to the requests.                                           *)
(***************************************************************************)
\* Request q is added to rs.
Adds(q, rs, kind, f, by, id) ==
    /\ Sent(rs, kind, f, by, id) = rs \cup {q}
    /\ q.kind = kind /\ q.file = f /\ q.by = by /\ q.id = id /\ q.answer = "none"
    /\ \A p \in rs : p.kind = kind => p.n # q.n

Numbers(rs) == {q.n : q \in rs}

\* The request that is sent gets a number no other request of its kind has.
LEMMA SentIs ==
    ASSUME RequestsOK, CanSend, NEW rs, NEW kind \in {"list", "create", "delete"},
           NEW f \in File, NEW by \in Entry \cup {Tab}, NEW id \in Id \cup {None},
           Numbers(rs) \subseteq Numbers(requests)
    PROVE  \E q \in Request : Adds(q, rs, kind, f, by, id)
<1> DEFINE used == {q.n : q \in {p \in rs : p.kind = kind}}
           n == Min(1..MaxRequest \ used)
           new == [n |-> n, kind |-> kind, file |-> f, by |-> by, id |-> id,
                   answer |-> "none", content |-> {}]
<1>1. used \in SUBSET {q.n : q \in requests}
  BY DEF Numbers
<1> HIDE DEF used
<1>2. n \in 1..MaxRequest \ used
  BY <1>1, FreeNumber
<1> USE DEF used
<1>3. Sent(rs, kind, f, by, id) = rs \cup {new}
  BY DEF Sent
<1>4. \A p \in rs : p.kind = kind => p.n # n
  BY <1>2
<1> HIDE DEF n
<1>5. new \in Request
  BY <1>2 DEF Request
<1>6. new.kind = kind /\ new.file = f /\ new.by = by /\ new.id = id /\ new.answer = "none"
      /\ new.n = n
  OBVIOUS
<1> HIDE DEF new
<1> QED BY <1>3, <1>4, <1>5, <1>6 DEF Adds

\* A request is added for a component that waits for none.
LEMMA Added ==
    ASSUME NEW rs, NEW q, Distinct(rs), \A p \in rs : p.kind = q.kind => p.n # q.n,
           q.by \in Entry => \A p \in rs : p.by # q.by
    PROVE  Distinct(rs \cup {q})
  BY DEF Distinct

\* Closed requests: what is left of the one that an entry waited for.
ClosedOf(p, q, S, why) ==
    \/ p = q /\ q.by \notin S
    \/ p = [q EXCEPT !.by = why] /\ q.by \in S /\ q.answer = "none"

LEMMA WithoutIs ==
    ASSUME NEW S, NEW why
    PROVE  /\ \A p \in Without(S, why) : \E q \in requests : ClosedOf(p, q, S, why)
           /\ \A q \in requests : q.by \notin S => q \in Without(S, why)
  BY DEF Without, ClosedOf

\* They are still told apart, and none waits for entries in S.
LEMMA WithoutOK ==
    ASSUME RequestsOK, NEW S \in SUBSET Entry, NEW why \in Gone
    PROVE  /\ Distinct(Without(S, why))
           /\ \A p \in Without(S, why) :
                 /\ p.by \notin S
                 /\ \E q \in requests : q.n = p.n
                 /\ p \in requests \/ (p.by \in Gone /\ RequestOK(p))
<1>1. ASSUME NEW q \in requests, q.by \in S, q.answer = "none"
      PROVE  LET p == [q EXCEPT !.by = why]
             IN  RequestOK(p) /\ p.n = q.n /\ p.kind = q.kind /\ p.by = why
  <2>1. RequestOK(q) /\ q \in Request
    BY DEF RequestsOK, RequestOK
  <2> DEFINE p == [q EXCEPT !.by = why]
  <2>2. /\ p \in Request /\ p.n = q.n /\ p.kind = q.kind /\ p.by = why
        /\ p.answer = "none" /\ p.id = q.id
    BY <1>1, <2>1 DEF Request
  <2>3. p.by \in Gone /\ p.by \notin Entry /\ p.by # Tab /\ q.by # Tab
    BY <1>1, <2>2, Kinds
  <2>4. q.kind # "list" /\ (q.kind = "delete" => q.id \in Id)
    BY <2>1, <2>3 DEF RequestOK
  <2> HIDE DEF p
  <2>5. RequestOK(p)
    BY <2>2, <2>3, <2>4 DEF RequestOK
  <2> QED BY <2>2, <2>5 DEF p
<1>2. ASSUME NEW p \in Without(S, why)
      PROVE  \E q \in requests :
                /\ ClosedOf(p, q, S, why)
                /\ p.n = q.n /\ p.kind = q.kind /\ p.by \notin S
                /\ p = q \/ (p.by = why /\ RequestOK(p))
  <2>1. PICK q \in requests : ClosedOf(p, q, S, why)
    BY WithoutIs
  <2>2. CASE p = q /\ q.by \notin S
    BY <2>1, <2>2
  <2>3. CASE p = [q EXCEPT !.by = why] /\ q.by \in S /\ q.answer = "none"
    <3>1. RequestOK(p) /\ p.n = q.n /\ p.kind = q.kind /\ p.by = why
      BY <1>1, <2>3
    <3>2. p.by \notin S
      BY <3>1, Kinds
    <3> QED BY <2>1, <3>1, <3>2
  <2> QED BY <2>1, <2>2, <2>3 DEF ClosedOf
<1>3. ASSUME NEW p1 \in Without(S, why), NEW p2 \in Without(S, why),
             (p1.kind = p2.kind /\ p1.n = p2.n) \/ (p1.by = p2.by /\ p1.by \in Entry)
      PROVE  p1 = p2
  <2>1. PICK q1 \in requests :
                /\ ClosedOf(p1, q1, S, why)
                /\ p1.n = q1.n /\ p1.kind = q1.kind
                /\ p1 = q1 \/ p1.by = why
    BY <1>2
  <2>2. PICK q2 \in requests :
                /\ ClosedOf(p2, q2, S, why)
                /\ p2.n = q2.n /\ p2.kind = q2.kind
                /\ p2 = q2 \/ p2.by = why
    BY <1>2
  <2>3. q1 = q2
    BY <1>3, <2>1, <2>2, Kinds DEF RequestsOK, Distinct
  <2> QED BY <2>1, <2>2, <2>3 DEF ClosedOf
<1> QED BY <1>2, <1>3 DEF Distinct

\* A request that was answered takes the place it had.
Answer(q, p) ==
    /\ p \in Request /\ p.n = q.n /\ p.kind = q.kind /\ p.by = q.by /\ p.file = q.file

LEMMA AnsweredIs ==
    ASSUME RequestsOK, NEW q \in requests, NEW a \in {"ok", "failed"},
           NEW id \in Id \cup {None}, NEW content \in SUBSET Id,
           Answered(q, a, id, content)
    PROVE  /\ Distinct(requests')
           /\ \A p \in requests' : \/ p \in requests /\ p # q
                                   \/ Answer(q, p) /\ p.by \notin Gone /\ p.answer = a /\ p.id = id
           /\ \A p \in requests : p # q => p \in requests'
           /\ q.by \notin Gone => \E p \in requests' : Answer(q, p) /\ p.answer = a /\ p.id = id
<1> DEFINE new == [q EXCEPT !.answer = a, !.id = id, !.content = content]
<1>1. q \in Request
  BY DEF RequestsOK, RequestOK
<1>2. Answer(q, new) /\ new.answer = a /\ new.id = id
  BY <1>1 DEF Request, Answer
<1> HIDE DEF new
<1>3. requests' = (requests \ {q}) \cup (IF q.by \in Gone THEN {} ELSE {new})
  BY DEF Answered, new
<1>4. Distinct(requests')
  BY <1>2, <1>3 DEF Distinct, RequestsOK, Answer
<1>5. \A p \in requests' : \/ p \in requests /\ p # q
                           \/ Answer(q, p) /\ p.by \notin Gone /\ p.answer = a /\ p.id = id
  BY <1>2, <1>3 DEF Answer
<1> QED BY <1>2, <1>3, <1>4, <1>5

\* A request that was taken away.
LEMMA Fewer ==
    ASSUME NEW rs, NEW S, Distinct(rs), S \subseteq rs
    PROVE  Distinct(S)
  BY DEF Distinct

\* What the server does: it adds links with new ids, and deletes others.
Served ==
    /\ lastId \in Nat /\ lastId' \in Nat /\ lastId <= lastId'
    /\ \A f \in File : links'[f] \cap (1..lastId) \subseteq links[f]

LEMMA ThereIs == \A i : i \in There <=> \E f \in File : i \in links[f]
  BY DEF There

LEMMA ThereIsThen == \A i : i \in There' <=> \E f \in File : i \in links'[f]
  BY DEF There

\* A request stays as good as it was, if its entry does.
LEMMA RequestKept ==
    ASSUME NEW q, RequestOK(q), Served, q.by \in Entry => file' = file /\ Shown(q.by)'
    PROVE  RequestOK(q)'
<1>1. \A i \in 1..lastId : i \in 1..lastId' /\ (i \notin There => i \notin There')
  BY ThereIs, ThereIsThen DEF Served
<1>2. q.kind = "create" /\ q.answer = "ok" =>
          q.id \in 1..lastId' /\ \A f \in File : q.id \in links'[f] => f = q.file
  BY <1>1 DEF RequestOK, Served
<1>3. q.kind = "delete" /\ q.answer = "ok" => q.id \in 1..lastId' /\ q.id \notin There'
  BY <1>1 DEF RequestOK
<1>4. q.by \in Entry => q.file = file'
  BY DEF RequestOK
<1> HIDE DEF Served
<1> QED BY <1>2, <1>3, <1>4 DEF RequestOK

-----------------------------------------------------------------------------
(***************************************************************************)
(* What a step leaves alone.                                               *)
(***************************************************************************)
LEMMA ShownSame ==
    ASSUME UNCHANGED <<loading, list>>
    PROVE  \A e : Shown(e)' <=> Shown(e)
  BY DEF Shown, list

LEMMA ServedNothing ==
    ASSUME ServerOK, UNCHANGED server
    PROVE  Served
<1>1. lastId \in Nat
  BY BoundAssumption DEF ServerOK
<1> QED BY <1>1 DEF Served, server

LEMMA ServerSame ==
    ASSUME ServerOK, UNCHANGED <<server, review>>, file' \in File
    PROVE  ServerOK'
<1>1. \A i \in There' : i \in There
  BY ThereIs, ThereIsThen DEF server
<1> QED BY <1>1 DEF ServerOK, server

LEMMA ListSame ==
    ASSUME ListOK, UNCHANGED <<links, tab, shares, stale>>
    PROVE  ListOK'
  BY DEF ListOK, ListIsCurrent, tab

LEMMA TabSame ==
    ASSUME TabOK, UNCHANGED <<loading, list>>
    PROVE  TabOK'
  BY DEF TabOK, list

\* The requests that tell what was created from the draft are the same.
LEMMA MadeSame ==
    ASSUME MadeOK, made' = made,
           \A q : q.by = Draft /\ q.answer = "ok" => (q \in requests' <=> q \in requests)
    PROVE  MadeOK'
<1>1. \A i : (\E q \in requests' : OfDraft(q, i)) <=> \E q \in requests : OfDraft(q, i)
  BY DEF OfDraft
<1> QED BY <1>1 DEF MadeOK

\* The draft waits for nothing, and nothing was created from it.
LEMMA MadeNone ==
    ASSUME made' = {}, \A q \in requests' : q.by # Draft
    PROVE  MadeOK'
  BY DEF MadeOK, OfDraft

\* Requests of an entry are about something that is shown.
LEMMA RequestsAre ==
    ASSUME RequestsOK, NEW q \in requests
    PROVE  /\ RequestOK(q) /\ q \in Request
           /\ q.by \in Entry => q.file = file /\ Shown(q.by) /\ ~loading
           /\ q.by = Default => shares = {} /\ draft = "none"
           /\ q.by = Draft => draft # "none"
           /\ q.by \in Id => q.by \in shares
           /\ q.kind # "list" /\ q.answer # "none" => q.by \in Entry
<1>1. RequestOK(q) /\ q \in Request
  BY DEF RequestsOK, RequestOK
<1>2. q.by \in Entry => q.file = file /\ Shown(q.by)
  BY <1>1 DEF RequestOK
<1>3. {Default, Draft} \subseteq Entry /\ Id \subseteq Entry
  BY DEF Entry
<1>4. q.by \in Entry => q.by \in Id \/ q.by = Default \/ q.by = Draft
  BY DEF Entry
<1>5. q.by \in Entry => ~loading
  BY <1>2, <1>4, ShownIs
<1>6. q.kind # "list" /\ q.answer # "none" => q.by \in Entry
  BY <1>1 DEF RequestOK, Request
<1> QED BY <1>1, <1>2, <1>3, <1>5, <1>6, ShownIs

-----------------------------------------------------------------------------
(***************************************************************************)
(* The user.                                                               *)
(***************************************************************************)
LEMMA InitOK ==
    ASSUME Init
    PROVE  IInv
<1>1. MaxId \in Nat \ {0} /\ MaxRequest \in Nat \ {0}
  BY BoundAssumption
<1>2. lastId \in 0..MaxId /\ lastId \in Nat
  BY <1>1 DEF Init
<1>3. 1..lastId \subseteq Id
  BY <1>1, <1>2 DEF Id
<1>4. links \in [File -> SUBSET Id] /\ There \subseteq 1..lastId
  BY <1>3, ThereIs DEF Init
<1>5. ServerOK
  BY <1>2, <1>4 DEF ServerOK, Init
<1>6. TabOK
  BY DEF TabOK, Init
<1>7. ASSUME NEW q \in requests
      PROVE  q \in Request /\ q.kind = "list" /\ q.by = Tab /\ q.answer = "none"
  BY <1>1, <1>7 DEF Init, Request
<1>8. RequestsOK
  <2>1. \A q \in requests : RequestOK(q)
    BY <1>7, Kinds DEF RequestOK
  <2>2. Distinct(requests)
    BY DEF Init, Distinct
  <2> QED BY <2>1, <2>2 DEF RequestsOK
<1>9. MadeOK
  <2>1. \A q \in requests : q.answer = "none"
    BY <1>7
  <2> QED BY <2>1 DEF MadeOK, OfDraft, Init
<1>10. ListOK
  BY DEF ListOK, ListIsCurrent, Init
<1> QED BY <1>5, <1>6, <1>8, <1>9, <1>10 DEF IInv

LEMMA UpdateKeeps ==
    ASSUME IInv, NEW f \in File, Update(f)
    PROVE  IInv'
<1> DEFINE rs == Without(Entry, Closed)
<1>1. /\ Distinct(rs)
      /\ \A p \in rs : /\ p.by \notin Entry
                       /\ \E q \in requests : q.n = p.n
                       /\ p \in requests \/ (p.by \in Gone /\ RequestOK(p))
  BY WithoutOK DEF IInv, Gone
<1> HIDE DEF rs
<1>2. CanSend /\ requests' = Sent(rs, "list", f, Tab, None)
  BY DEF Update, rs
<1>3. PICK q \in Request : Adds(q, rs, "list", f, Tab, None)
  <2>1. RequestsOK /\ "list" \in {"list", "create", "delete"} /\ Tab \in Entry \cup {Tab}
        /\ None \in Id \cup {None} /\ Numbers(rs) \subseteq Numbers(requests)
    BY <1>1 DEF IInv, Numbers
  <2> QED BY <1>2, <2>1, SentIs, Zenon
<1>4. requests' = rs \cup {q}
      /\ q.kind = "list" /\ q.file = f /\ q.by = Tab /\ q.id = None /\ q.answer = "none"
      /\ \A p \in rs : p.kind = "list" => p.n # q.n
  BY <1>2, <1>3 DEF Adds
<1>5. RequestOK(q) /\ q.by \notin Entry
  BY <1>4, Kinds DEF RequestOK
<1>6. \A p \in requests' : RequestOK(p) /\ p.by \notin Entry
  BY <1>1, <1>4, <1>5 DEF IInv, RequestsOK
<1>7. UNCHANGED <<server, review>> /\ file' = f
  BY DEF Update
<1>8. Served
  BY <1>7, ServedNothing DEF IInv
<1>9. RequestsOK'
  <2>1. \A p \in requests' : RequestOK(p)'
    BY <1>6, <1>8, RequestKept
  <2>2. Distinct(requests')
    BY <1>1, <1>4, <1>5, Added
  <2> QED BY <2>1, <2>2 DEF RequestsOK
<1>10. /\ loading' = TRUE /\ shares' = {} /\ draft' = "none" /\ made' = {} /\ stale' = {}
  BY DEF Update, resetState
<1>11. MadeOK'
  BY <1>6, <1>10, MadeNone DEF Entry
<1>12. ServerOK'
  BY <1>7, ServerSame DEF IInv
<1>13. TabOK' /\ ListOK'
  BY <1>10 DEF TabOK, ListOK, ListIsCurrent
<1> QED BY <1>9, <1>11, <1>12, <1>13 DEF IInv

\* An entry sends a request.
LEMMA EntrySends ==
    ASSUME IInv, CanSend, NEW e \in Entry, Shown(e), ~Waiting(e),
           NEW kind \in {"create", "delete"}, NEW id \in Id \cup {None},
           kind = "delete" => e = id /\ id \in Id,
           requests' = Sent(requests, kind, file, e, id),
           UNCHANGED <<server, review, tab, list, stale, made>>
    PROVE  IInv'
<1>1. file \in File
  BY DEF IInv, ServerOK
<1>2. PICK q \in Request : Adds(q, requests, kind, file, e, id)
  <2>1. RequestsOK /\ kind \in {"list", "create", "delete"} /\ e \in Entry \cup {Tab}
        /\ Numbers(requests) \subseteq Numbers(requests)
    BY DEF IInv
  <2> QED BY <1>1, <2>1, SentIs, Zenon
<1>3. requests' = requests \cup {q}
      /\ q.kind = kind /\ q.file = file /\ q.by = e /\ q.id = id /\ q.answer = "none"
      /\ \A p \in requests : p.kind = kind => p.n # q.n
  BY <1>2 DEF Adds
<1>4. RequestOK(q)
  BY <1>3, Kinds DEF RequestOK
<1>5. Served /\ UNCHANGED <<loading, list, links, tab, shares, server, review>> /\ file' = file
  BY ServedNothing DEF IInv, tab, list, server
<1>6. \A p \in requests' : RequestOK(p) /\ (p.by \in Entry => Shown(p.by)')
  BY <1>3, <1>4, <1>5, ShownSame DEF IInv, RequestsOK, RequestOK
<1>7. \A p \in requests' : RequestOK(p)'
  BY <1>5, <1>6, RequestKept
<1>8. Distinct(requests')
  BY <1>3, Added DEF IInv, RequestsOK, Waiting
<1>9. MadeOK'
  BY <1>3, MadeSame DEF IInv
<1>10. ServerOK' /\ TabOK' /\ ListOK'
  BY <1>1, <1>5, ServerSame, TabSame, ListSame DEF IInv
<1> QED BY <1>7, <1>8, <1>9, <1>10 DEF IInv, RequestsOK

\* The link is reviewed first: a draft takes the place of the default entry.
LEMMA NewLinkShareKeeps ==
    ASSUME IInv, NEW e \in Entry, NewLinkShare(e)
    PROVE  IInv'
<1>1. e # Draft /\ Shown(e) /\ ~Waiting(e) /\ UNCHANGED <<server, review, tab, shares, stale>>
  BY DEF NewLinkShare
<1>2. CASE ~review
  BY <1>1, <1>2, EntrySends DEF NewLinkShare, list
<1>3. CASE review
  <2>1. draft = "none" /\ draft' = "new" /\ made' = {} /\ requests' = requests
    BY <1>3 DEF NewLinkShare
  <2>2. \A q \in requests : q.by # Draft
    BY <2>1, RequestsAre DEF IInv
  <2>3. \A q \in requests : q.by # Default
    BY <1>1, RequestsAre, ShownIs DEF IInv, Entry, Waiting
  <2>4. UNCHANGED <<server, review, tab, links, shares, stale>> /\ loading' = loading
        /\ file' = file
    BY <1>1 DEF tab, server
  <2>5. \A q \in requests : q.by \in Entry => Shown(q.by)'
    BY <2>2, <2>3, <2>4, RequestsAre, ShownIsThen DEF IInv, Entry
  <2>6. Served
    BY <1>1, ServedNothing DEF IInv
  <2>7. RequestsOK'
    <3>1. \A q \in requests : RequestOK(q)'
      BY <2>4, <2>5, <2>6, RequestKept DEF IInv, RequestsOK
    <3> QED BY <2>1, <3>1 DEF IInv, RequestsOK
  <2>8. MadeOK'
    BY <2>1, <2>2, MadeNone
  <2>9. ServerOK' /\ ListOK'
    BY <2>4, ServerSame, ListSame DEF IInv, ServerOK
  <2>10. TabOK'
    BY <2>1, <2>4 DEF IInv, TabOK
  <2> QED BY <2>7, <2>8, <2>9, <2>10 DEF IInv
<1> QED BY <1>2, <1>3

LEMMA OnCancelKeeps ==
    ASSUME IInv, OnCancel
    PROVE  IInv'
<1> DEFINE rs == Without({Draft}, Cancelled)
<1>1. /\ Distinct(rs)
      /\ \A p \in rs : p.by # Draft /\ (p \in requests \/ (p.by \in Gone /\ RequestOK(p)))
  BY WithoutOK DEF IInv, Gone, Entry
<1> HIDE DEF rs
<1>2. /\ draft = "new" /\ draft' = "none" /\ made' = {} /\ requests' = rs
      /\ UNCHANGED <<server, review, tab, shares, stale>>
  BY DEF OnCancel, rs
<1>3. UNCHANGED <<links, shares>> /\ loading' = loading /\ file' = file
  BY <1>2 DEF tab, server
<1>4. Served
  BY <1>2, ServedNothing DEF IInv
<1>5. \A p \in rs : RequestOK(p) /\ (p.by \in Entry => Shown(p.by)')
  <2>1. SUFFICES ASSUME NEW p \in rs PROVE RequestOK(p) /\ (p.by \in Entry => Shown(p.by)')
    OBVIOUS
  <2>2. CASE p \in requests
    BY <1>1, <1>2, <1>3, <2>2, RequestsAre, ShownIsThen DEF IInv, Entry
  <2>3. CASE p.by \in Gone /\ RequestOK(p)
    BY <2>3, Kinds
  <2> QED BY <1>1, <2>2, <2>3
<1>6. \A p \in requests' : RequestOK(p)'
  BY <1>2, <1>3, <1>4, <1>5, RequestKept
<1>7. RequestsOK'
  BY <1>1, <1>2, <1>6 DEF RequestsOK
<1>8. MadeOK'
  BY <1>1, <1>2, MadeNone
<1>9. ServerOK' /\ ListOK'
  BY <1>2, <1>3, ServerSame, ListSame DEF IInv, ServerOK
<1>10. TabOK'
  BY <1>2, <1>3 DEF IInv, TabOK
<1> QED BY <1>7, <1>8, <1>9, <1>10 DEF IInv

LEMMA UserKeeps ==
    ASSUME IInv, User
    PROVE  IInv'
<1>1. ASSUME NEW f \in File, Update(f) PROVE IInv'
  BY <1>1, UpdateKeeps
<1>2. ASSUME NEW e \in Entry, NewLinkShare(e) PROVE IInv'
  BY <1>2, NewLinkShareKeeps
<1>3. ASSUME NEW e \in Entry, OnDelete(e) PROVE IInv'
  BY <1>3, EntrySends DEF OnDelete
<1>4. CASE PushNewLinkShare
  BY <1>4, EntrySends DEF PushNewLinkShare, Entry
<1>5. CASE OnCancel
  BY <1>5, OnCancelKeeps
<1> QED BY <1>1, <1>2, <1>3, <1>4, <1>5 DEF User

-----------------------------------------------------------------------------
(***************************************************************************)
(* The server, and what gets lost.                                         *)
(***************************************************************************)
\* A request is answered, or fails: what is left to show is that its answer is
\* good, and what it means for the draft.
LEMMA AnswerKeeps ==
    ASSUME IInv, NEW q \in requests, NEW a \in {"ok", "failed"},
           NEW id \in Id \cup {None}, NEW content \in SUBSET Id,
           Answered(q, a, id, content), Served, UNCHANGED <<tab, list>>,
           q.kind = "create" /\ a = "ok" =>
              id \in 1..lastId' /\ \A f \in File : id \in links'[f] => f = q.file,
           q.kind = "delete" => id = q.id /\ (a = "ok" => id \in 1..lastId' /\ id \notin There')
    PROVE  RequestsOK'
<1>1. /\ Distinct(requests')
      /\ \A p \in requests' : \/ p \in requests
                              \/ Answer(q, p) /\ p.by \notin Gone /\ p.answer = a /\ p.id = id
  BY AnsweredIs DEF IInv
<1>2. RequestOK(q) /\ file' = file /\ UNCHANGED <<loading, list>>
  BY DEF IInv, RequestsOK, tab
<1>3. ASSUME NEW p \in requests PROVE RequestOK(p)'
  <2>1. RequestOK(p) /\ (p.by \in Entry => Shown(p.by)')
    BY <1>2, <1>3, ShownSame DEF IInv, RequestsOK, RequestOK
  <2> QED BY <1>2, <2>1, RequestKept
<1>4. ASSUME NEW p \in requests', Answer(q, p), p.by \notin Gone, p.answer = a, p.id = id
      PROVE  RequestOK(p)'
  <2>1. RequestOK(q)'
    BY <1>3
  <2>2. /\ p \in Request /\ p.kind = q.kind /\ p.by = q.by /\ p.file = q.file
    BY <1>4 DEF Answer
  <2> QED BY <1>4, <2>1, <2>2 DEF RequestOK
<1> QED BY <1>1, <1>3, <1>4 DEF RequestsOK

LEMMA ListSharesKeeps ==
    ASSUME IInv, NEW q \in requests, q.answer = "none", ListShares(q),
           UNCHANGED <<review, tab, list>>
    PROVE  IInv'
<1>1. q \in Request /\ q.kind = "list" /\ q.by = Tab /\ links[q.file] \in SUBSET Id
  BY DEF IInv, RequestsOK, RequestOK, ListShares, ServerOK, Request
<1>2. /\ Answered(q, "ok", None, links[q.file]) /\ UNCHANGED <<server, stale, made>>
  BY DEF ListShares
<1>3. Served
  BY <1>2, ServedNothing DEF IInv
<1>4. RequestsOK'
  BY <1>1, <1>2, <1>3, AnswerKeeps
<1>5. /\ \A p \in requests' : (p \in requests /\ p # q) \/ p.by = Tab
      /\ \A p \in requests : p # q => p \in requests'
  BY <1>1, <1>2, AnsweredIs DEF IInv, Answer
<1>6. Tab # Draft
  BY Names
<1>7. MadeOK'
  BY <1>1, <1>2, <1>5, <1>6, MadeSame DEF IInv
<1>8. UNCHANGED <<loading, links, shares>> /\ file' = file /\ file \in File
  BY <1>2 DEF tab, list, server, IInv, ServerOK
<1>9. ServerOK' /\ TabOK' /\ ListOK'
  BY <1>2, <1>8, ServerSame, TabSame, ListSame DEF IInv
<1> QED BY <1>4, <1>7, <1>9 DEF IInv

LEMMA CreateShareKeeps ==
    ASSUME IInv, NEW q \in requests, q.answer = "none", CreateShare(q),
           UNCHANGED <<review, tab, list>>
    PROVE  IInv'
<1> DEFINE i == lastId + 1
<1>1. q \in Request /\ q.kind = "create" /\ q.file \in File /\ lastId < MaxId
      /\ lastId' = i /\ links' = [links EXCEPT ![q.file] = @ \cup {i}]
      /\ Answered(q, "ok", i, {})
      /\ stale' = (IF q.file = file THEN stale \cup {i} ELSE stale)
      /\ made' = (IF q.by = Draft /\ made # None THEN made \cup {i} ELSE made)
  BY DEF IInv, RequestsOK, RequestOK, CreateShare, Request
<1>2. /\ MaxId \in Nat /\ lastId \in Nat /\ links \in [File -> SUBSET Id]
      /\ There \subseteq 1..lastId /\ file \in File
  BY BoundAssumption DEF IInv, ServerOK
<1>3. i \in Id /\ i \in 1..i /\ i \notin 1..lastId /\ i \in Nat /\ lastId <= i /\ 1..lastId \subseteq 1..i
  BY <1>1, <1>2 DEF Id
<1> HIDE DEF i
<1>4. \A f \in File : links[f] \subseteq 1..lastId
  BY <1>2, ThereIs
<1>5. \A f \in File : links'[f] = IF f = q.file THEN links[f] \cup {i} ELSE links[f]
  BY <1>1, <1>2
<1>6. Served
  BY <1>1, <1>2, <1>3, <1>5 DEF Served
<1>7. \A f \in File : i \in links'[f] => f = q.file
  BY <1>3, <1>4, <1>5
<1>8. RequestsOK'
  BY <1>1, <1>3, <1>6, <1>7, AnswerKeeps
<1>9. ServerOK'
  <2>1. i \in 0..MaxId
    BY <1>2, <1>3 DEF Id
  <2>2. links' \in [File -> SUBSET Id]
    BY <1>1, <1>2, <1>3
  <2>3. There' \subseteq 1..i
    <3>1. \A f \in File : links'[f] \subseteq 1..i
      BY <1>3, <1>4, <1>5
    <3> QED BY <3>1, ThereIsThen
  <2>4. file' \in File /\ review' \in BOOLEAN
    BY DEF IInv, ServerOK, tab
  <2> QED BY <1>1, <2>1, <2>2, <2>3, <2>4 DEF ServerOK
<1>10. UNCHANGED <<loading, shares>> /\ file' = file
  BY DEF tab, list
<1>11. TabOK'
  BY <1>10, TabSame DEF IInv
<1>12. ListOK'
  <2>1. stale' \subseteq Id
    BY <1>1, <1>3 DEF IInv, ListOK
  <2>2. ASSUME ~loading, NEW j \in Id \ stale' PROVE j \in shares <=> j \in links'[file]
    <3>1. j \notin stale /\ (j = i => q.file # file)
      BY <1>1, <2>2
    <3>2. j \in shares <=> j \in links[file]
      BY <2>2, <3>1 DEF IInv, ListOK, ListIsCurrent
    <3> QED BY <1>2, <1>5, <3>1, <3>2
  <2> QED BY <1>10, <2>1, <2>2 DEF ListOK, ListIsCurrent
<1>13. /\ \A p \in requests' : \/ p \in requests /\ p # q
                               \/ Answer(q, p) /\ p.by \notin Gone /\ p.answer = "ok" /\ p.id = i
       /\ \A p \in requests : p # q => p \in requests'
       /\ q.by \notin Gone => \E p \in requests' : Answer(q, p) /\ p.answer = "ok" /\ p.id = i
  BY <1>1, <1>3, AnsweredIs DEF IInv
<1>14. MadeOK'
  <2>1. CASE q.by # Draft
    <3>1. \A p : Answer(q, p) => p.by # Draft
      BY <2>1 DEF Answer
    <3>2. made' = made
      BY <1>1, <2>1
    <3> QED BY <1>13, <2>1, <3>1, <3>2, MadeSame DEF IInv
  <2>2. CASE q.by = Draft
    <3>1. Draft \notin Gone /\ Draft \in Entry
      BY Names DEF Gone, Entry
    <3>2. \A p \in requests : p.by = Draft => p = q
      BY <2>2, <3>1 DEF IInv, RequestsOK, Distinct
    <3>3. \A j : ~ \E p \in requests : OfDraft(p, j)
      BY <3>2 DEF OfDraft
    <3>4. \A p \in requests' : p.by = Draft => p.answer = "ok" /\ p.id = i
      BY <1>13, <3>2
    <3>5. \E p \in requests' : p.by = Draft /\ p.answer = "ok" /\ p.id = i
      BY <1>13, <2>2, <3>1 DEF Answer
    <3>6. \A j : (\E p \in requests' : OfDraft(p, j)) <=> j = i
      BY <3>4, <3>5 DEF OfDraft
    <3>7. CASE made = None
      <4>1. made' = None
        BY <1>1, <3>7
      <4> QED BY <4>1 DEF MadeOK
    <3>8. CASE made # None
      <4>1. made \in SUBSET Id /\ \A j \in Id : j \notin made
        BY <3>3, <3>8 DEF IInv, MadeOK
      <4>2. made' = {i}
        BY <1>1, <2>2, <3>8, <4>1
      <4> QED BY <1>3, <3>6, <4>2 DEF MadeOK
    <3> QED BY <3>7, <3>8
  <2> QED BY <2>1, <2>2
<1> QED BY <1>8, <1>9, <1>11, <1>12, <1>14 DEF IInv

\* The draft deletes nothing.
LEMMA NotDraft ==
    ASSUME NEW q, RequestOK(q), q.kind = "delete"
    PROVE  q.by # Draft
<1>1. q.by \in Entry => q.by \in Id
  BY DEF RequestOK
<1> QED BY <1>1, Names DEF Entry

LEMMA DeleteShareKeeps ==
    ASSUME IInv, NEW q \in requests, q.answer = "none", DeleteShare(q),
           UNCHANGED <<review, tab, list>>
    PROVE  IInv'
<1>1. /\ RequestOK(q) /\ q.kind = "delete" /\ q.id \in Id /\ q.id \in There
      /\ links' = [f \in File |-> links[f] \ {q.id}]
      /\ Answered(q, "ok", q.id, {})
      /\ stale' = stale \cup {q.id}
      /\ UNCHANGED <<lastId, made>>
  BY DEF IInv, RequestsOK, RequestOK, DeleteShare
<1>2. /\ lastId \in 0..MaxId /\ lastId \in Nat /\ links \in [File -> SUBSET Id]
      /\ There \subseteq 1..lastId /\ file \in File
  BY BoundAssumption DEF IInv, ServerOK
<1>3. \A f \in File : links'[f] = links[f] \ {q.id}
  BY <1>1
<1>4. Served
  BY <1>1, <1>2, <1>3 DEF Served
<1>5. q.id \in 1..lastId' /\ q.id \notin There' /\ There' \subseteq 1..lastId'
  BY <1>1, <1>2, <1>3, ThereIs, ThereIsThen
<1>6. RequestsOK'
  BY <1>1, <1>4, <1>5, AnswerKeeps
<1>7. UNCHANGED <<loading, shares>> /\ file' = file
  BY DEF tab, list
<1>8. ServerOK'
  <2>1. links' \in [File -> SUBSET Id]
    BY <1>1, <1>2
  <2> QED BY <1>1, <1>2, <1>5, <1>7, <2>1 DEF ServerOK, IInv
<1>9. TabOK'
  BY <1>7, TabSame DEF IInv
<1>10. ListOK'
  <2>1. ASSUME ~loading, NEW j \in Id \ stale' PROVE j \in shares <=> j \in links'[file]
    <3>1. j \notin stale /\ j # q.id
      BY <1>1, <2>1
    <3> QED BY <1>2, <1>3, <2>1, <3>1 DEF IInv, ListOK, ListIsCurrent
  <2> QED BY <1>1, <1>7, <2>1 DEF IInv, ListOK, ListIsCurrent
<1>11. q.by # Draft
  BY <1>1, NotDraft
<1>12. /\ \A p \in requests' : (p \in requests /\ p # q) \/ p.by = q.by
       /\ \A p \in requests : p # q => p \in requests'
  BY <1>1, AnsweredIs DEF IInv, Answer
<1>13. MadeOK'
  BY <1>1, <1>11, <1>12, MadeSame DEF IInv
<1> QED BY <1>6, <1>8, <1>9, <1>10, <1>13 DEF IInv

LEMMA FailKeeps ==
    ASSUME IInv, NEW q \in requests, Fail(q)
    PROVE  IInv'
<1> DEFINE id == IF q.kind = "delete" THEN q.id ELSE None
<1>1. /\ RequestOK(q)
      /\ Answered(q, "failed", id, {})
      /\ made' = (IF q.by = Draft /\ q.answer = "ok" THEN None ELSE made)
      /\ UNCHANGED <<server, review, tab, list, stale>>
  BY DEF IInv, RequestsOK, Fail
<1>2. id \in Id \cup {None} /\ (q.kind = "delete" => id = q.id)
  BY <1>1 DEF RequestOK
<1> HIDE DEF id
<1>3. Served
  BY <1>1, ServedNothing DEF IInv
<1>4. RequestsOK'
  BY <1>1, <1>2, <1>3, AnswerKeeps
<1>5. /\ \A p \in requests' : (p \in requests /\ p # q) \/ p.answer = "failed"
      /\ \A p \in requests : p # q => p \in requests'
  BY <1>1, <1>2, AnsweredIs DEF IInv
<1>6. MadeOK'
  <2>1. CASE q.by = Draft /\ q.answer = "ok"
    BY <1>1, <2>1 DEF MadeOK
  <2>2. CASE ~(q.by = Draft /\ q.answer = "ok")
    <3>1. made' = made
      BY <1>1, <2>2
    <3> QED BY <1>5, <2>2, <3>1, MadeSame DEF IInv
  <2> QED BY <2>1, <2>2
<1>7. UNCHANGED <<loading, links, shares>> /\ file' = file /\ file \in File
  BY <1>1 DEF tab, list, server, IInv, ServerOK
<1>8. ServerOK' /\ TabOK' /\ ListOK'
  BY <1>1, <1>7, ServerSame, TabSame, ListSame DEF IInv
<1> QED BY <1>4, <1>6, <1>8 DEF IInv

-----------------------------------------------------------------------------
(***************************************************************************)
(* The answers.                                                            *)
(***************************************************************************)
\* An answer is handled: the other requests stay as good as they were if their
\* entries do.
LEMMA HandledKeeps ==
    ASSUME IInv, NEW rs, Served, file' = file, Distinct(rs), requests' = rs,
           \A p \in rs : RequestOK(p) /\ (p.by \in Entry => Shown(p.by)')
    PROVE  RequestsOK'
<1>1. \A p \in rs : RequestOK(p)'
  BY RequestKept
<1> QED BY <1>1 DEF RequestsOK

LEMMA GetSharesDoneKeeps ==
    ASSUME IInv, NEW q \in requests, GetSharesDone(q)
    PROVE  IInv'
<1> DEFINE new == Processed(q)
           gone == Entry \ (new \cup (IF Kept(q) # "none" THEN {Draft} ELSE {})
                                \cup (IF new = {} /\ Kept(q) = "none" THEN {Default} ELSE {}))
           rs == Without(gone, Closed)
<1>1. /\ q.kind = "list" /\ q.answer = "ok"
      /\ shares' = new
      /\ draft' = Kept(q)
      /\ made' = (IF Kept(q) = "none" THEN {} ELSE made)
      /\ requests' = rs \ {q}
      /\ loading' = FALSE
      /\ stale' = (IF q.file # file THEN Differences(new)
                   ELSE {i \in Id : (i \in q.content) # (i \in links[file])} \cup
                        (IF Ignored(q) THEN stale ELSE {}))
      /\ UNCHANGED <<server, review, file>>
  BY DEF GetSharesDone
<1>2. RequestOK(q) /\ q \in Request /\ q.by = Tab /\ q.content \in SUBSET Id
  BY <1>1 DEF IInv, RequestsOK, RequestOK, Request
<1>3. new \in SUBSET Id /\ Kept(q) \in {"none", "new", "failed"}
  BY <1>2 DEF Processed, Kept, IInv, TabOK
<1>4. /\ gone \in SUBSET Entry /\ Closed \in Gone
      /\ \A e \in Entry \ gone : \/ e \in new
                                 \/ e = Draft /\ Kept(q) # "none"
                                 \/ e = Default /\ new = {} /\ Kept(q) = "none"
      /\ Kept(q) = "none" => Draft \in gone
      /\ Kept(q) # "none" => Draft \notin gone
  <2>1. Draft \in Entry /\ Draft # Default /\ Draft \notin Id
    BY Names DEF Entry
  <2> HIDE DEF new
  <2> QED BY <1>3, <2>1 DEF Gone
<1> HIDE DEF gone, new
<1>5. /\ Distinct(rs)
      /\ \A p \in rs : p.by \notin gone /\ (p \in requests \/ (p.by \in Gone /\ RequestOK(p)))
      /\ \A p \in requests : p.by \notin gone => p \in rs
  BY <1>4, WithoutOK, WithoutIs DEF IInv
<1> HIDE DEF rs
<1>6. Distinct(rs \ {q})
  BY <1>5, Fewer
<1>7. \A e \in Entry \ gone : Shown(e)'
  BY <1>1, <1>3, <1>4, ShownIsThen
<1>8. \A p \in rs \ {q} : RequestOK(p) /\ (p.by \in Entry => Shown(p.by)')
  BY <1>5, <1>7 DEF IInv, RequestsOK
<1>9. Served /\ file' = file /\ UNCHANGED <<server, review>> /\ file \in File
  BY <1>1, ServedNothing DEF IInv, ServerOK
<1>10. RequestsOK'
  BY <1>1, <1>6, <1>8, <1>9, HandledKeeps
<1>11. ServerOK' /\ TabOK'
  BY <1>1, <1>3, <1>9, ServerSame DEF IInv, TabOK
<1>12. MadeOK'
  <2>1. CASE Kept(q) = "none"
    BY <1>1, <1>4, <1>5, <2>1, MadeNone
  <2>2. CASE Kept(q) # "none"
    <3>1. Draft \notin Gone /\ Tab # Draft /\ made' = made
      BY <1>1, <2>2, Names DEF Gone
    <3>2. \A p : p.by = Draft => (p \in requests' <=> p \in requests)
      BY <1>1, <1>2, <1>4, <1>5, <2>2, <3>1
    <3> QED BY <3>1, <3>2, MadeSame DEF IInv
  <2> QED BY <2>1, <2>2
<1>13. ListOK'
  <2>1. links' = links
    BY <1>1 DEF server
  <2>2. stale' \subseteq Id
    BY <1>1 DEF Differences, IInv, ListOK
  <2>3. ASSUME NEW i \in Id \ stale' PROVE i \in new <=> i \in links[file]
    <3>1. CASE q.file # file
      BY <1>1, <2>3, <3>1 DEF Differences
    <3>2. CASE q.file = file /\ ~Ignored(q)
      <4>1. i \in q.content <=> i \in links[file]
        BY <1>1, <2>3, <3>2
      <4> QED BY <3>2, <4>1 DEF new, Processed
    <3>3. CASE q.file = file /\ Ignored(q)
      <4>1. i \notin stale /\ i \notin links[file] /\ new = shares
        BY <1>1, <2>3, <3>3 DEF Ignored, new, Processed
      <4>2. i \notin shares
        BY <2>3, <4>1 DEF IInv, TabOK, ListOK, ListIsCurrent
      <4> QED BY <4>1, <4>2
    <3> QED BY <3>1, <3>2, <3>3
  <2> QED BY <1>1, <2>1, <2>2, <2>3 DEF ListOK, ListIsCurrent
<1> QED BY <1>10, <1>11, <1>12, <1>13 DEF IInv

LEMMA GetSharesFailedKeeps ==
    ASSUME IInv, NEW q \in requests, GetSharesFailed(q)
    PROVE  IInv'
<1>1. /\ q.kind = "list" /\ loading' = FALSE /\ stale' = Differences(shares)
      /\ requests' = requests \ {q}
      /\ UNCHANGED <<server, review, file, list, made>>
  BY DEF GetSharesFailed
<1>2. q.by = Tab /\ Tab # Draft
  BY <1>1, Names DEF IInv, RequestsOK, RequestOK
<1>3. Served /\ UNCHANGED <<server, review, shares, draft, links>> /\ file' = file /\ file \in File
  BY <1>1, ServedNothing DEF IInv, ServerOK, list, server
<1>4. \A p \in requests \ {q} : RequestOK(p) /\ (p.by \in Entry => Shown(p.by)')
  BY <1>1, <1>3, RequestsAre, ShownIsThen DEF IInv, Entry
<1>5. Distinct(requests \ {q})
  BY Fewer DEF IInv, RequestsOK
<1>6. RequestsOK'
  BY <1>1, <1>3, <1>4, <1>5, HandledKeeps
<1>7. MadeOK'
  BY <1>1, <1>2, MadeSame DEF IInv
<1>8. ServerOK' /\ TabOK' /\ ListOK'
  <2>1. ServerOK'
    BY <1>3, ServerSame DEF IInv
  <2>2. TabOK'
    BY <1>1, <1>3 DEF IInv, TabOK
  <2>3. ListOK'
    BY <1>1, <1>3 DEF ListOK, ListIsCurrent, Differences
  <2> QED BY <2>1, <2>2, <2>3
<1> QED BY <1>6, <1>7, <1>8 DEF IInv

\* The entry that got the answer: nothing else waits for it.
LEMMA Waited ==
    ASSUME IInv, NEW q \in requests, q.kind # "list", q.answer # "none"
    PROVE  /\ RequestOK(q) /\ q \in Request /\ q.by \in Entry /\ q.file = file /\ Shown(q.by)
           /\ ~loading
           /\ \A p \in requests \ {q} : p.by # q.by
           /\ Distinct(requests \ {q})
<1>1. RequestOK(q) /\ q \in Request /\ q.by \in Entry /\ q.file = file /\ Shown(q.by) /\ ~loading
  BY RequestsAre DEF IInv
<1>2. \A p \in requests \ {q} : p.by # q.by
  BY <1>1 DEF IInv, RequestsOK, Distinct
<1>3. Distinct(requests \ {q})
  BY Fewer DEF IInv, RequestsOK
<1> QED BY <1>1, <1>2, <1>3

LEMMA CreatedKeeps ==
    ASSUME IInv, NEW q \in requests, Created(q), UNCHANGED <<server, review, tab>>
    PROVE  IInv'
<1>1. /\ q.kind = "create" /\ q.answer = "ok"
      /\ shares' = shares \cup {q.id}
      /\ draft' = (IF q.by = Draft THEN "none" ELSE draft)
      /\ made' = (IF q.by = Draft THEN {} ELSE made)
      /\ stale' = (IF q.id \in There THEN stale \ {q.id} ELSE stale \cup {q.id})
      /\ requests' = requests \ {q}
  BY DEF Created
<1>2. /\ RequestOK(q) /\ q.by \in Entry /\ q.file = file /\ Shown(q.by) /\ ~loading
      /\ \A p \in requests \ {q} : p.by # q.by
      /\ Distinct(requests \ {q})
  BY <1>1, Waited
<1>3. Served /\ UNCHANGED <<loading, links>> /\ file' = file /\ file \in File
  BY ServedNothing DEF IInv, ServerOK, tab, server
<1>4. q.id \in Id /\ \A f \in File : q.id \in links[f] => f = file
  <2>1. lastId \in 0..MaxId /\ MaxId \in Nat
    BY BoundAssumption DEF IInv, ServerOK
  <2>2. q.id \in 1..lastId /\ \A f \in File : q.id \in links[f] => f = file
    BY <1>1, <1>2 DEF RequestOK
  <2> QED BY <2>1, <2>2 DEF Id
<1>5. \A p \in requests \ {q} : RequestOK(p) /\ (p.by \in Entry => Shown(p.by)')
  <2>1. SUFFICES ASSUME NEW p \in requests \ {q}, p.by \in Entry PROVE Shown(p.by)'
    BY DEF IInv, RequestsOK
  <2>2. p.by # q.by /\ p.by \in Id \cup {Default, Draft}
    BY <1>2, <2>1 DEF Entry
  <2>3. p.by # Default
    <3>1. SUFFICES ASSUME p.by = Default PROVE FALSE
      OBVIOUS
    <3>2. shares = {} /\ draft = "none"
      BY <2>1, <3>1, RequestsAre DEF IInv
    <3>3. q.by = Default
      BY <1>2, <3>2, ShownIs DEF Entry
    <3> QED BY <2>2, <3>1, <3>3
  <2>4. CASE p.by = Draft
    BY <1>1, <1>2, <1>3, <2>1, <2>2, <2>4, RequestsAre, ShownIsThen DEF IInv
  <2>5. CASE p.by \in Id
    BY <1>1, <1>2, <1>3, <2>1, <2>5, RequestsAre, ShownIsThen DEF IInv
  <2> QED BY <2>2, <2>3, <2>4, <2>5
<1>6. RequestsOK'
  BY <1>1, <1>2, <1>3, <1>5, HandledKeeps
<1>7. MadeOK'
  <2>1. CASE q.by = Draft
    BY <1>1, <1>2, <2>1, MadeNone
  <2>2. CASE q.by # Draft
    <3>1. made' = made
      BY <1>1, <2>2
    <3> QED BY <1>1, <2>2, <3>1, MadeSame DEF IInv
  <2> QED BY <2>1, <2>2
<1>8. ServerOK'
  BY <1>3, ServerSame DEF IInv
<1>9. TabOK'
  BY <1>1, <1>2, <1>3, <1>4 DEF IInv, TabOK
<1>10. ListOK'
  <2>1. ASSUME NEW i \in Id \ stale' PROVE i \in shares' <=> i \in links[file]
    <3>1. CASE i = q.id
      <4>1. i \in There
        BY <1>1, <2>1, <3>1
      <4>2. i \in links[file]
        BY <1>4, <3>1, <4>1, ThereIs
      <4> QED BY <1>1, <3>1, <4>2
    <3>2. CASE i # q.id
      <4>1. i \notin stale /\ (i \in shares' <=> i \in shares)
        BY <1>1, <2>1, <3>2
      <4> QED BY <1>2, <2>1, <4>1 DEF IInv, ListOK, ListIsCurrent
    <3> QED BY <3>1, <3>2
  <2>2. stale' \subseteq Id
    BY <1>1, <1>4 DEF IInv, ListOK
  <2> QED BY <1>3, <2>1, <2>2 DEF ListOK, ListIsCurrent
<1> QED BY <1>6, <1>7, <1>8, <1>9, <1>10 DEF IInv

LEMMA CreateFailedKeeps ==
    ASSUME IInv, NEW q \in requests, CreateFailed(q), UNCHANGED <<server, review, tab>>
    PROVE  IInv'
<1>1. /\ q.kind = "create" /\ q.answer = "failed"
      /\ draft' = (IF q.by = Draft THEN "failed" ELSE draft)
      /\ requests' = requests \ {q}
      /\ UNCHANGED <<shares, stale, made>>
  BY DEF CreateFailed
<1>2. /\ q.by \in Entry /\ Shown(q.by) /\ ~loading
      /\ \A p \in requests \ {q} : p.by # q.by
      /\ Distinct(requests \ {q})
  BY <1>1, Waited
<1>3. Served /\ UNCHANGED <<loading, links>> /\ file' = file /\ file \in File
  BY ServedNothing DEF IInv, ServerOK, tab, server
<1>4. \A p \in requests \ {q} : RequestOK(p) /\ (p.by \in Entry => Shown(p.by)')
  <2>1. SUFFICES ASSUME NEW p \in requests \ {q}, p.by \in Entry PROVE Shown(p.by)'
    BY DEF IInv, RequestsOK
  <2>2. p.by # q.by /\ p.by \in Id \cup {Default, Draft}
    BY <1>2, <2>1 DEF Entry
  <2>3. CASE p.by = Default
    <3>1. shares = {} /\ draft = "none" /\ q.by # Draft
      BY <1>2, <2>1, <2>3, RequestsAre, ShownIs DEF IInv
    <3> QED BY <1>1, <1>2, <1>3, <2>3, <3>1, ShownIsThen
  <2>4. CASE p.by = Draft
    BY <1>1, <1>2, <1>3, <2>1, <2>2, <2>4, RequestsAre, ShownIsThen DEF IInv
  <2>5. CASE p.by \in Id
    BY <1>1, <1>2, <1>3, <2>1, <2>5, RequestsAre, ShownIsThen DEF IInv
  <2> QED BY <2>2, <2>3, <2>4, <2>5
<1>5. RequestsOK'
  BY <1>1, <1>2, <1>3, <1>4, HandledKeeps
<1>6. MadeOK'
  BY <1>1, MadeSame DEF IInv
<1>7. ServerOK' /\ ListOK'
  BY <1>1, <1>3, ServerSame, ListSame DEF IInv
<1>8. TabOK'
  BY <1>1, <1>3 DEF IInv, TabOK
<1> QED BY <1>5, <1>6, <1>7, <1>8 DEF IInv

LEMMA removeShareKeeps ==
    ASSUME IInv, NEW q \in requests, removeShare(q), UNCHANGED <<server, review, tab>>
    PROVE  IInv'
<1>1. /\ q.kind = "delete" /\ q.answer = "ok"
      /\ shares' = shares \ {q.id}
      /\ stale' = stale \ {q.id}
      /\ requests' = requests \ {q}
      /\ UNCHANGED <<draft, made>>
  BY DEF removeShare
<1>2. /\ RequestOK(q) /\ q.by \in Entry /\ ~loading
      /\ \A p \in requests \ {q} : p.by # q.by
      /\ Distinct(requests \ {q})
  BY <1>1, Waited
<1>3. Served /\ UNCHANGED <<loading, links>> /\ file' = file /\ file \in File
  BY ServedNothing DEF IInv, ServerOK, tab, server
<1>4. q.by = q.id /\ q.id \notin There
  BY <1>1, <1>2 DEF RequestOK
<1>5. \A p \in requests \ {q} : RequestOK(p) /\ (p.by \in Entry => Shown(p.by)')
  BY <1>1, <1>2, <1>3, <1>4, RequestsAre, ShownIsThen DEF IInv, Entry
<1>6. RequestsOK'
  BY <1>1, <1>2, <1>3, <1>5, HandledKeeps
<1>7. MadeOK'
  BY <1>1, <1>2, NotDraft, MadeSame DEF IInv
<1>8. ServerOK'
  BY <1>3, ServerSame DEF IInv
<1>9. TabOK'
  BY <1>1, <1>3 DEF IInv, TabOK
<1>10. ListOK'
  <2>1. q.id \notin links[file]
    BY <1>3, <1>4, ThereIs
  <2> QED BY <1>1, <1>2, <1>3, <2>1 DEF IInv, ListOK, ListIsCurrent
<1> QED BY <1>6, <1>7, <1>8, <1>9, <1>10 DEF IInv

LEMMA DeleteFailedKeeps ==
    ASSUME IInv, NEW q \in requests, DeleteFailed(q), UNCHANGED <<server, review, tab>>
    PROVE  IInv'
<1>1. /\ q.kind = "delete" /\ q.answer = "failed" /\ requests' = requests \ {q}
      /\ UNCHANGED <<list, stale, made>>
  BY DEF DeleteFailed
<1>2. Distinct(requests \ {q})
  BY <1>1, Waited
<1>3. Served /\ UNCHANGED <<loading, list, links, shares>> /\ file' = file /\ file \in File
  BY <1>1, ServedNothing DEF IInv, ServerOK, tab, server, list
<1>4. \A p \in requests \ {q} : RequestOK(p) /\ (p.by \in Entry => Shown(p.by)')
  BY <1>3, ShownSame DEF IInv, RequestsOK, RequestOK
<1>5. RequestsOK'
  BY <1>1, <1>2, <1>3, <1>4, HandledKeeps
<1>6. MadeOK'
  BY <1>1, MadeSame DEF IInv
<1>7. ServerOK' /\ TabOK' /\ ListOK'
  BY <1>1, <1>3, ServerSame, TabSame, ListSame DEF IInv
<1> QED BY <1>5, <1>6, <1>7 DEF IInv

-----------------------------------------------------------------------------
(***************************************************************************)
(* The theorems.                                                           *)
(***************************************************************************)
LEMMA NextKeeps ==
    ASSUME IInv, [Next]_vars
    PROVE  IInv'
<1>1. ASSUME NEW q \in requests, Serve(q) PROVE IInv'
  BY <1>1, ListSharesKeeps, CreateShareKeeps, DeleteShareKeeps DEF Serve
<1>2. ASSUME NEW q \in requests, Deliver(q) PROVE IInv'
  BY <1>2, CreatedKeeps, CreateFailedKeeps, removeShareKeeps, DeleteFailedKeeps DEF Deliver
<1>3. ASSUME NEW q \in requests, Answering(q) PROVE IInv'
  BY <1>1, <1>2, <1>3, FailKeeps, GetSharesDoneKeeps, GetSharesFailedKeeps DEF Answering
<1>4. CASE UNCHANGED vars
  <2>1. UNCHANGED <<server, review, tab, list, requests, stale, made, loading, file, links, shares>>
        /\ file \in File
    BY <1>4 DEF vars, tab, server, list, IInv, ServerOK
  <2>2. ServerOK' /\ TabOK' /\ ListOK' /\ MadeOK'
    BY <2>1, ServerSame, TabSame, ListSame, MadeSame DEF IInv
  <2>3. Served
    BY <2>1, ServedNothing DEF IInv
  <2>4. \A p \in requests : RequestOK(p) /\ (p.by \in Entry => Shown(p.by)')
    BY <2>1, ShownSame DEF IInv, RequestsOK, RequestOK
  <2>5. RequestsOK'
    BY <2>1, <2>3, <2>4, HandledKeeps DEF IInv, RequestsOK
  <2> QED BY <2>2, <2>5 DEF IInv
<1> QED BY <1>3, <1>4, UserKeeps DEF Next

LEMMA Invariant == Spec => []IInv
  BY InitOK, NextKeeps, PTL DEF Spec

\* Every variable keeps its shape, an entry that waits for an answer is shown,
\* and requests are told apart by their number.
THEOREM TypeCorrect == Spec => []TypeOK
<1>1. IInv => TypeOK
  <2>1. ServerOK /\ TabOK /\ MadeOK /\ ListOK
        => /\ lastId \in 0..MaxId
           /\ links \in [File -> SUBSET Id] /\ There \subseteq 1..lastId
           /\ file \in File /\ review \in BOOLEAN /\ loading \in BOOLEAN
           /\ shares \subseteq Id /\ draft \in {"none", "new", "failed"}
           /\ stale \subseteq Id
           /\ made \in (SUBSET Id) \cup {None}
    BY DEF ServerOK, TabOK, MadeOK, ListOK
  <2>2. RequestsOK
        => /\ requests \subseteq Request
           /\ \A p, q \in requests : p.kind = q.kind /\ p.n = q.n => p = q
           /\ \A q \in requests : q.by \in Entry => Shown(q.by)
    BY DEF RequestsOK, Distinct, RequestOK
  <2> QED BY <2>1, <2>2 DEF IInv, TypeOK
<1> QED BY <1>1, Invariant, PTL

\* The list shows the links of the file that is selected, except for those the
\* tab was told nothing of and those the listing of another file brought
\* (processShares, addShare, awaitForShare and removeShare of SharingTab.vue).
THEOREM ShowsItsLinks == Spec => []ListIsCurrent
<1>1. IInv => ListIsCurrent
  BY DEF IInv, ListOK
<1> QED BY <1>1, Invariant, PTL

\* However often a draft is submitted, no more than one link is created from it
\* (onNewLinkShare and pushNewLinkShare of SharingEntryLink.vue), unless an
\* answer was lost.
THEOREM DraftPushedOnce == Spec => []PushedOnce
<1>1. ASSUME IInv, made # None PROVE Cardinality(made) <= 1
  <2>1. made \in SUBSET Id /\ \A i \in Id : i \in made <=> \E q \in requests : OfDraft(q, i)
    BY <1>1 DEF IInv, MadeOK
  <2>2. \A p, q \in requests : p.by = Draft /\ q.by = Draft => p = q
    BY <1>1 DEF IInv, RequestsOK, Distinct, Entry
  <2>3. \A i, j \in made : i = j
    BY <2>1, <2>2 DEF OfDraft
  <2>4. CASE made = {}
    <3>1. Cardinality(made) = 0
      BY <2>4, FS_EmptySet
    <3> QED BY <3>1
  <2>5. ASSUME NEW i \in made PROVE Cardinality(made) <= 1
    <3>1. made = {i}
      BY <2>3
    <3>2. Cardinality(made) = 1
      BY <3>1, FS_Singleton
    <3> QED BY <3>2
  <2> QED BY <2>4, <2>5
<1>2. IInv => PushedOnce
  BY <1>1 DEF PushedOnce
<1> QED BY <1>2, Invariant, PTL

=============================================================================
