--------------------------- MODULE ShareUpdatesProofs ---------------------------
(***************************************************************************)
(* Proofs about ShareUpdates, for any number of openings of the details    *)
(* tab and of updates that are pending: the update that was queued last    *)
(* for a property is the one the server ends up with, and `talk' is shown  *)
(* as the server has it.                                                   *)
(*                                                                         *)
(* Both rest on the same fact: a property that is not clouded, or shaky,   *)
(* waits in one queue only, and all others are empty (Alone).  Nobody else *)
(* then writes back an old value of it.                                    *)
(***************************************************************************)
EXTENDS ShareUpdates, SequenceTheorems, TLAPS

-----------------------------------------------------------------------------
(***************************************************************************)
(* The invariant.                                                          *)
(***************************************************************************)
Update == {Restrict(s, S) : s \in Share, S \in (SUBSET Prop) \ {{}}}

IType ==
    /\ share \in Share /\ server \in Share \cup {None} /\ last \in Share
    /\ newPassword \in (Password \ {Empty}) \cup {None}
    /\ shown \in BOOLEAN /\ shaky \in BOOLEAN
    /\ open \in Details \cup {None}
    /\ deleting \in Component \cup {"none", "ok", "failed", "over"}
    /\ queue \in [Component -> Seq(Update)]
    /\ stage \in [Component -> Stage]
    /\ read \in [Component -> Share \cup {None}]
    /\ \A c \in Component : /\ stage[c] = "idle" <=> queue[c] = <<>>
                            /\ stage[c] = "read" <=> read[c] # None
    /\ clouded \subseteq Prop

\* The properties in the updates of s.
Names(s) == UNION {DOMAIN s[i] : i \in 1..Len(s)}

\* The last update of s that has property p, if any does, sets it to v.
EndsWith(s, p, v) ==
    \A i \in 1..Len(s) :
        p \in DOMAIN s[i] /\ (\A j \in (i + 1)..Len(s) : p \notin DOMAIN s[j]) => s[i][p] = v

\* As long as p waits in a queue all other queues are empty.
Alone(p) ==
    \A c, d \in Component : p \in Names(queue[c]) /\ d # c => queue[d] = <<>>

Nowhere(p) == \A c \in Component : p \notin Names(queue[c])

\* The server has the last value of p, will write it back if it writes the
\* share for other properties, or p waits and its last value is still sent.
Wins(p) ==
    /\ Alone(p)
    /\ \A c \in Component :
          /\ EndsWith(queue[c], p, last[p])
          /\ stage[c] = "ok" /\ p \in DOMAIN Head(queue[c]) /\ p \notin Names(Tail(queue[c]))
                => server[p] = last[p]
    /\ Nowhere(p) =>
          /\ server[p] = last[p]
          /\ \A c \in Component : read[c] # None => read[c][p] = last[p]

UpdatesOK == server # None => \A p \in Prop \ clouded : Wins(p)

\* No more than one update of s has `talk'.
Once(s) ==
    \A i, j \in 1..Len(s) : "talk" \in DOMAIN s[i] /\ "talk" \in DOMAIN s[j] => i = j

\* Queue c has the one toggle of `talk': the server has it if and only if it has
\* written it, unless nobody knows.
Toggled(c) ==
    /\ \A i \in 1..Len(queue[c]) : "talk" \in DOMAIN queue[c][i] => queue[c][i].talk = share.talk
    /\ Once(queue[c])
    /\ \/ stage[c] = "lost" /\ "talk" \in DOMAIN Head(queue[c])
       \/ (server.talk = share.talk <=> stage[c] = "ok" /\ "talk" \in DOMAIN Head(queue[c]))
    /\ read[c] # None => read[c].talk = server.talk

TalkOK ==
    /\ Alone("talk")
    /\ \A c \in Component : "talk" \in Names(queue[c]) => Toggled(c)
    /\ Nowhere("talk") =>
          /\ server.talk = share.talk
          /\ \A c \in Component : read[c] # None => read[c].talk = server.talk

ToggleOK == server # None /\ ~shaky => TalkOK

IInv == IType /\ UpdatesOK /\ ToggleOK

-----------------------------------------------------------------------------
(***************************************************************************)
(* Queues of updates.                                                      *)
(***************************************************************************)
LEMMA RestrictIs ==
    ASSUME NEW s \in Share, NEW S \in (SUBSET Prop) \ {{}}
    PROVE  /\ Restrict(s, S) \in Update
           /\ DOMAIN Restrict(s, S) = S
           /\ \A p \in S : Restrict(s, S)[p] = s[p]
  BY DEF Update, Restrict

LEMMA ShareHas == \A s \in Share : \A p \in Prop : HasType(p, s[p])
  BY DEF Share, Prop, HasType

LEMMA UpdateIs ==
    ASSUME NEW u \in Update
    PROVE  /\ DOMAIN u # {} /\ DOMAIN u \subseteq Prop
           /\ \A p \in DOMAIN u : HasType(p, u[p])
<1>1. PICK s \in Share, S \in (SUBSET Prop) \ {{}} : u = Restrict(s, S)
  BY DEF Update
<1>2. DOMAIN u = S /\ \A p \in S : u[p] = s[p]
  BY <1>1, RestrictIs
<1> QED BY <1>2, ShareHas

LEMMA NamesEmpty ==
    ASSUME NEW s \in Seq(Update)
    PROVE  Names(s) = {} <=> s = <<>>
<1>1. CASE s = <<>>
  BY <1>1 DEF Names
<1>2. CASE s # <<>>
  <2>1. 1 \in 1..Len(s) /\ s[1] \in Update
    BY <1>2
  <2>2. DOMAIN s[1] # {}
    BY <2>1, UpdateIs
  <2> QED BY <1>2, <2>1, <2>2 DEF Names
<1> QED BY <1>1, <1>2

LEMMA NamesAppend ==
    ASSUME NEW s \in Seq(Update), NEW u \in Update
    PROVE  Names(Append(s, u)) = Names(s) \cup DOMAIN u
<1> DEFINE t == Append(s, u)
<1>1. Len(s) \in Nat /\ Len(t) = Len(s) + 1 /\ t[Len(s) + 1] = u
      /\ \A i \in 1..Len(s) : t[i] = s[i]
  OBVIOUS
<1> HIDE DEF t
<1>2. 1..Len(t) = 1..Len(s) \cup {Len(s) + 1}
  BY <1>1
<1>3. \A p : (\E i \in 1..Len(t) : p \in DOMAIN t[i])
             <=> (\E i \in 1..Len(s) : p \in DOMAIN s[i]) \/ p \in DOMAIN u
  BY <1>1, <1>2
<1>4. Names(t) = Names(s) \cup DOMAIN u
  BY <1>3 DEF Names
<1> QED BY <1>4 DEF t

\* The first update and the rest of a queue.
LEMMA TailIs ==
    ASSUME NEW s \in Seq(Update), s # <<>>
    PROVE  /\ Head(s) \in Update /\ Tail(s) \in Seq(Update)
           /\ Len(s) \in Nat \ {0} /\ Len(Tail(s)) = Len(s) - 1
           /\ Head(s) = s[1] /\ \A i \in 1..Len(Tail(s)) : Tail(s)[i] = s[i + 1]
           /\ Tail(s) = <<>> <=> Len(s) = 1
<1>1. Head(s) \in Update /\ Tail(s) \in Seq(Update) /\ Head(s) = s[1]
  OBVIOUS
<1>2. Len(s) \in Nat \ {0} /\ Len(Tail(s)) = Len(s) - 1
  BY EmptySeq, HeadTailProperties
<1>3. \A i \in 1..Len(Tail(s)) : Tail(s)[i] = s[i + 1]
  BY HeadTailProperties
<1>4. Tail(s) = <<>> <=> Len(Tail(s)) = 0
  BY <1>1, EmptySeq
<1> QED BY <1>1, <1>2, <1>3, <1>4

LEMMA NamesTail ==
    ASSUME NEW s \in Seq(Update), s # <<>>
    PROVE  /\ Names(s) = DOMAIN Head(s) \cup Names(Tail(s))
           /\ Names(Tail(s)) = UNION {DOMAIN s[i] : i \in 2..Len(s)}
<1>1. /\ Len(s) \in Nat \ {0} /\ Len(Tail(s)) = Len(s) - 1
      /\ Head(s) = s[1] /\ \A i \in 1..Len(Tail(s)) : Tail(s)[i] = s[i + 1]
  BY TailIs
<1> DEFINE n == Len(s)
           t == Tail(s)
<1> HIDE DEF n, t
<1>2. \A p : (\E i \in 1..(n - 1) : p \in DOMAIN t[i]) <=> (\E i \in 2..n : p \in DOMAIN s[i])
  <2>1. ASSUME NEW p, NEW i \in 1..(n - 1), p \in DOMAIN t[i]
        PROVE  \E j \in 2..n : p \in DOMAIN s[j]
    <3>1. i + 1 \in 2..n /\ t[i] = s[i + 1]
      BY <1>1 DEF n, t
    <3> QED BY <2>1, <3>1
  <2>2. ASSUME NEW p, NEW j \in 2..n, p \in DOMAIN s[j]
        PROVE  \E i \in 1..(n - 1) : p \in DOMAIN t[i]
    <3>1. j - 1 \in 1..(n - 1) /\ t[j - 1] = s[j]
      BY <1>1 DEF n, t
    <3> QED BY <2>2, <3>1
  <2> QED BY <2>1, <2>2
<1>3. Names(t) = UNION {DOMAIN s[i] : i \in 2..n}
  BY <1>1, <1>2 DEF Names, n, t
<1>4. 1..n = {1} \cup 2..n
  BY <1>1 DEF n
<1>5. Names(s) = DOMAIN s[1] \cup UNION {DOMAIN s[i] : i \in 2..n}
  BY <1>4 DEF Names, n
<1> QED BY <1>1, <1>3, <1>5 DEF n, t

LEMMA TailAppend ==
    ASSUME NEW s \in Seq(Update), NEW u \in Update, s # <<>>
    PROVE  Head(Append(s, u)) = Head(s) /\ Tail(Append(s, u)) = Append(Tail(s), u)
<1>1. Head(Append(s, u)) = Head(s)
  OBVIOUS
<1> DEFINE n == Len(s)
           t == Append(s, u)
           r == Tail(s)
<1>2. /\ n \in Nat \ {0} /\ r \in Seq(Update) /\ Len(r) = n - 1
      /\ \A i \in 1..(n - 1) : r[i] = s[i + 1]
  BY TailIs
<1>3. /\ t \in Seq(Update) /\ Len(t) = n + 1 /\ t # <<>> /\ t[n + 1] = u
      /\ \A i \in 1..n : t[i] = s[i]
  OBVIOUS
<1>4. /\ Append(r, u) \in Seq(Update) /\ Len(Append(r, u)) = n /\ Append(r, u)[n] = u
      /\ \A i \in 1..(n - 1) : Append(r, u)[i] = r[i]
  <2> HIDE DEF r, n
  <2> QED BY <1>2
<1>5. /\ Tail(t) \in Seq(Update) /\ Len(Tail(t)) = n
      /\ \A i \in 1..n : Tail(t)[i] = t[i + 1]
  <2>1. /\ Tail(t) \in Seq(Update) /\ Len(Tail(t)) = Len(t) - 1
        /\ \A i \in 1..Len(Tail(t)) : Tail(t)[i] = t[i + 1]
    BY <1>3, TailIs
  <2> HIDE DEF t, n
  <2> QED BY <1>2, <1>3, <2>1
<1> HIDE DEF n, t, r
<1>6. ASSUME NEW i \in 1..n PROVE Tail(t)[i] = Append(r, u)[i]
  <2>1. CASE i = n
    BY <1>2, <1>3, <1>4, <1>5, <2>1
  <2>2. CASE i # n
    <3>1. i \in 1..(n - 1) /\ i + 1 \in 1..n
      BY <1>2, <2>2
    <3> QED BY <1>2, <1>3, <1>4, <1>5, <3>1
  <2> QED BY <2>1, <2>2
<1>7. Tail(t) = Append(r, u)
  BY <1>4, <1>5, <1>6, SeqEqual
<1> QED BY <1>1, <1>7 DEF t, r

LEMMA EndsAppend ==
    ASSUME NEW s \in Seq(Update), NEW u \in Update, NEW p, NEW v,
           IF p \in DOMAIN u THEN u[p] = v ELSE EndsWith(s, p, v)
    PROVE  EndsWith(Append(s, u), p, v)
<1> DEFINE t == Append(s, u)
           n == Len(s)
<1>1. n \in Nat /\ Len(t) = n + 1 /\ t[n + 1] = u /\ \A i \in 1..n : t[i] = s[i]
  OBVIOUS
<1> HIDE DEF t, n
<1>2. ASSUME NEW i \in 1..(n + 1), p \in DOMAIN t[i],
             \A j \in (i + 1)..(n + 1) : p \notin DOMAIN t[j]
      PROVE  t[i][p] = v
  <2>1. CASE i = n + 1
    BY <1>1, <1>2, <2>1
  <2>2. CASE i # n + 1
    <3>1. /\ i \in 1..n /\ n + 1 \in (i + 1)..(n + 1)
          /\ \A j \in (i + 1)..n : j \in 1..n /\ j \in (i + 1)..(n + 1)
      BY <1>1, <2>2
    <3>2. p \notin DOMAIN u /\ p \in DOMAIN s[i] /\ \A j \in (i + 1)..n : p \notin DOMAIN s[j]
      BY <1>1, <1>2, <3>1
    <3>3. s[i][p] = v
      BY <3>1, <3>2 DEF EndsWith, n
    <3> QED BY <1>1, <3>1, <3>3
  <2> QED BY <2>1, <2>2
<1>3. EndsWith(t, p, v)
  BY <1>1, <1>2 DEF EndsWith
<1> QED BY <1>3 DEF t

LEMMA EndsTail ==
    ASSUME NEW s \in Seq(Update), s # <<>>, NEW p, NEW v, EndsWith(s, p, v)
    PROVE  /\ EndsWith(Tail(s), p, v)
           /\ p \in DOMAIN Head(s) /\ p \notin Names(Tail(s)) => Head(s)[p] = v
<1> DEFINE t == Tail(s)
           n == Len(s)
<1>1. n \in Nat \ {0} /\ Len(t) = n - 1 /\ Head(s) = s[1] /\ \A i \in 1..(n - 1) : t[i] = s[i + 1]
  BY TailIs
<1> HIDE DEF t, n
<1>2. ASSUME NEW i \in 1..(n - 1), p \in DOMAIN t[i],
             \A j \in (i + 1)..(n - 1) : p \notin DOMAIN t[j]
      PROVE  t[i][p] = v
  <2>1. i + 1 \in 1..n /\ p \in DOMAIN s[i + 1]
    BY <1>1, <1>2
  <2>2. ASSUME NEW j \in (i + 1 + 1)..n PROVE p \notin DOMAIN s[j]
    <3>1. j - 1 \in (i + 1)..(n - 1) /\ j - 1 \in 1..(n - 1) /\ s[j] = t[j - 1]
      BY <1>1, <2>2
    <3> QED BY <1>2, <3>1
  <2>3. s[i + 1][p] = v
    BY <2>1, <2>2 DEF EndsWith, n
  <2> QED BY <1>1, <2>3
<1>3. EndsWith(t, p, v)
  BY <1>1, <1>2 DEF EndsWith
<1>4. ASSUME p \in DOMAIN Head(s), p \notin Names(t) PROVE Head(s)[p] = v
  <2>1. \A j \in (1 + 1)..n : p \notin DOMAIN s[j]
    BY <1>4, NamesTail DEF n, t
  <2>2. 1 \in 1..n
    BY <1>1
  <2> QED BY <1>1, <1>4, <2>1, <2>2 DEF EndsWith, n
<1> QED BY <1>3, <1>4 DEF t

LEMMA OnceAppend ==
    ASSUME NEW s \in Seq(Update), NEW u \in Update, Once(s),
           "talk" \notin DOMAIN u \/ "talk" \notin Names(s)
    PROVE  Once(Append(s, u))
<1> DEFINE t == Append(s, u)
           n == Len(s)
<1>1. n \in Nat /\ Len(t) = n + 1 /\ t[n + 1] = u /\ \A i \in 1..n : t[i] = s[i]
  OBVIOUS
<1> HIDE DEF t, n
<1>2. 1..(n + 1) = 1..n \cup {n + 1}
  BY <1>1
<1>3. "talk" \in DOMAIN u => \A i \in 1..n : "talk" \notin DOMAIN s[i]
  BY DEF Names, n
<1>4. Once(t)
  BY <1>1, <1>2, <1>3 DEF Once, n
<1> QED BY <1>4 DEF t

LEMMA OnceTail ==
    ASSUME NEW s \in Seq(Update), s # <<>>, Once(s)
    PROVE  /\ Once(Tail(s))
           /\ "talk" \in DOMAIN Head(s) => "talk" \notin Names(Tail(s))
<1> DEFINE t == Tail(s)
           n == Len(s)
<1>1. n \in Nat \ {0} /\ Len(t) = n - 1 /\ Head(s) = s[1] /\ \A i \in 1..(n - 1) : t[i] = s[i + 1]
  BY TailIs
<1> HIDE DEF t, n
<1>2. ASSUME NEW i \in 1..(n - 1) PROVE i + 1 \in 1..n /\ i + 1 # 1 /\ t[i] = s[i + 1]
  BY <1>1
<1>3. Once(t)
  <2>1. SUFFICES ASSUME NEW i \in 1..(n - 1), NEW j \in 1..(n - 1),
                        "talk" \in DOMAIN t[i], "talk" \in DOMAIN t[j]
                 PROVE  i = j
    BY <1>1 DEF Once
  <2>2. i + 1 = j + 1
    BY <1>2, <2>1 DEF Once, n
  <2> QED BY <2>2
<1>4. ASSUME "talk" \in DOMAIN Head(s) PROVE "talk" \notin Names(t)
  <2>1. SUFFICES ASSUME NEW i \in 1..(n - 1) PROVE "talk" \notin DOMAIN t[i]
    BY <1>1 DEF Names
  <2>2. 1 \in 1..n
    BY <1>1
  <2> QED BY <1>1, <1>2, <1>4, <2>2 DEF Once, n
<1> QED BY <1>3, <1>4 DEF t

LEMMA PendingIs ==
    ASSUME IType, NEW S \in SUBSET Component
    PROVE  \A p : p \in Pending(S) <=> \E c \in S : p \in Names(queue[c])
<1>1. \A c \in S : queue[c] \in Seq(Update)
  BY DEF IType
<1>2. \A c \in S : DOMAIN queue[c] = 1..Len(queue[c])
  BY <1>1
<1> QED BY <1>2 DEF Pending, Names

\* A choice between two values is made twice.
LEMMA TwoValues == \A a, b, c \in BOOLEAN : a # b /\ c # b => a = c
  OBVIOUS

LEMMA ShareFrom ==
    ASSUME NEW f, f = [p \in Prop |-> f[p]], \A p \in Prop : HasType(p, f[p])
    PROVE  f \in Share
<1>1. f["permissions"] \in Permission /\ f["password"] \in Password /\ f["talk"] \in BOOLEAN
  BY DEF Prop, HasType
<1> QED BY <1>1 DEF Prop, Share

LEMMA EndsEmpty == \A p, v : EndsWith(<<>>, p, v)
  BY DEF EndsWith

LEMMA QueuesAre ==
    ASSUME IType, NEW c \in Component
    PROVE  /\ queue[c] \in Seq(Update) /\ stage[c] \in Stage /\ read[c] \in Share \cup {None}
           /\ stage[c] = "idle" <=> queue[c] = <<>>
           /\ stage[c] = "read" <=> read[c] # None
           /\ Names(queue[c]) = {} <=> queue[c] = <<>>
  BY NamesEmpty DEF IType

-----------------------------------------------------------------------------
(***************************************************************************)
(* The page.                                                               *)
(***************************************************************************)
LEMMA InitOK ==
    ASSUME Init
    PROVE  IInv
<1>1. <<>> \in Seq(Update)
  BY EmptySeq
<1>2. IType
  BY <1>1 DEF Init, IType, Stage
<1>3. \A c \in Component : queue[c] = <<>> /\ stage[c] = "idle" /\ Names(queue[c]) = {}
                           /\ read[c] = None
  BY <1>2, QueuesAre DEF Init
<1>4. \A p \in Prop : Wins(p)
  BY <1>3, EndsEmpty DEF Init, Wins, Alone
<1>5. TalkOK
  BY <1>3 DEF Init, TalkOK, Alone
<1> QED BY <1>2, <1>4, <1>5 DEF IInv, UpdatesOK, ToggleOK

\* Nothing is queued, and no answer arrives.
LEMMA PageKeeps ==
    ASSUME IInv, share' \in Share, share'.talk = share.talk,
           UNCHANGED <<sending, history>>, server' \in {server, None},
           newPassword' \in (Password \ {Empty}) \cup {None}, shown' \in BOOLEAN,
           open' \in Details \cup {None},
           deleting' \in Component \cup {"none", "ok", "failed", "over"}
    PROVE  IInv'
<1>1. UNCHANGED <<queue, stage, read, last, clouded, shaky>>
  BY DEF sending, history
<1>2. IType'
  BY <1>1 DEF IInv, IType
<1>3. CASE server' = None
  BY <1>2, <1>3 DEF IInv, UpdatesOK, ToggleOK
<1>4. CASE server' = server /\ server # None
  <2>1. \A p \in Prop : Wins(p) => Wins(p)'
    BY <1>1, <1>4 DEF Wins, Alone, Nowhere
  <2>2. TalkOK => TalkOK'
    BY <1>1, <1>4 DEF TalkOK, Alone, Nowhere, Toggled
  <2> QED BY <1>1, <1>2, <1>4, <2>1, <2>2 DEF IInv, UpdatesOK, ToggleOK
<1> QED BY <1>3, <1>4

\* An update is queued: `talk' is in it if it was toggled.
LEMMA QueueKeeps ==
    ASSUME IInv, NEW c \in Component, NEW names \in (SUBSET Prop) \ {{}}, NEW new \in Share,
           queueUpdate(c, names, new), "talk" \in names <=> new.talk # share.talk,
           newPassword' \in (Password \ {Empty}) \cup {None}, open' = open
    PROVE  IInv'
<1> DEFINE u == Restrict(new, names)
           others == Pending(Component \ {c})
           overlap == IF others = {} THEN {} ELSE others \cup Pending({c}) \cup names
<1>1. u \in Update /\ DOMAIN u = names /\ \A p \in names : u[p] = new[p]
  BY RestrictIs
<1>2. /\ share' = new
      /\ queue' = [queue EXCEPT ![c] = Append(@, u)]
      /\ stage' = (IF stage[c] = "idle" THEN [stage EXCEPT ![c] = "sent"] ELSE stage)
      /\ last' = [p \in Prop |-> IF p \in names THEN new[p] ELSE last[p]]
      /\ clouded' = (clouded \ names) \cup overlap
      /\ shaky' = (shaky \/ "talk" \in overlap \cup (names \cap Pending({c})))
      /\ UNCHANGED <<read, shown, deleting, server>>
  BY DEF queueUpdate
<1> HIDE DEF u
<1>3. IType
  BY DEF IInv
<1>4. /\ \A p : p \in others <=> \E d \in Component \ {c} : p \in Names(queue[d])
      /\ \A p : p \in Pending({c}) <=> p \in Names(queue[c])
  BY <1>3, PendingIs
<1> DEFINE mine == Pending({c})
<1>5. others = {} => \A d \in Component \ {c} : queue[d] = <<>>
  BY <1>3, <1>4, QueuesAre
<1>6. /\ mine \subseteq Prop /\ others \subseteq Prop
  <2>1. \A d \in Component : Names(queue[d]) \subseteq Prop
    <3>1. ASSUME NEW d \in Component, NEW i \in 1..Len(queue[d]) PROVE DOMAIN queue[d][i] \subseteq Prop
      <4>1. queue[d][i] \in Update
        BY <1>3 DEF IType
      <4> QED BY <4>1, UpdateIs
    <3> QED BY <3>1 DEF Names
  <2> QED BY <1>4, <2>1
<1> HIDE DEF others, mine
<1>7. queue[c] \in Seq(Update) /\ (stage[c] = "idle" <=> queue[c] = <<>>)
  BY <1>3, QueuesAre
<1>8. /\ \A d \in Component \ {c} : queue'[d] = queue[d] /\ stage'[d] = stage[d]
      /\ queue'[c] = Append(queue[c], u)
      /\ stage'[c] = IF stage[c] = "idle" THEN "sent" ELSE stage[c]
  BY <1>2, <1>3 DEF IType
<1>9. /\ Names(queue'[c]) = Names(queue[c]) \cup names
      /\ \A d \in Component \ {c} : Names(queue'[d]) = Names(queue[d])
  BY <1>1, <1>7, <1>8, NamesAppend
<1>10. queue[c] # <<>> =>
          /\ Head(queue'[c]) = Head(queue[c])
          /\ Names(Tail(queue'[c])) = Names(Tail(queue[c])) \cup names
  <2>1. SUFFICES ASSUME queue[c] # <<>>
                 PROVE  /\ Head(queue'[c]) = Head(queue[c])
                        /\ Names(Tail(queue'[c])) = Names(Tail(queue[c])) \cup names
    OBVIOUS
  <2>2. Head(queue'[c]) = Head(queue[c]) /\ Tail(queue'[c]) = Append(Tail(queue[c]), u)
    BY <1>1, <1>7, <1>8, <2>1, TailAppend
  <2>3. Tail(queue[c]) \in Seq(Update)
    BY <1>7, <2>1, TailIs
  <2>4. Names(Append(Tail(queue[c]), u)) = Names(Tail(queue[c])) \cup DOMAIN u
    BY <1>1, <2>3, NamesAppend
  <2> QED BY <1>1, <2>2, <2>4
<1>11. IType'
  <2>1. queue' \in [Component -> Seq(Update)] /\ stage' \in [Component -> Stage]
    BY <1>1, <1>2, <1>3 DEF IType, Stage
  <2>2. \A d \in Component : /\ stage'[d] = "idle" <=> queue'[d] = <<>>
                             /\ stage'[d] = "read" <=> read'[d] # None
    <3>1. queue'[c] # <<>>
      BY <1>7, <1>8
    <3> QED BY <1>2, <1>3, <1>8, <3>1 DEF IType
  <2>3. last' \in Share
    <3>1. \A p \in Prop : HasType(p, last'[p])
      BY <1>2, <1>3, ShareHas DEF IType
    <3> QED BY <1>2, <3>1, ShareFrom
  <2>4. clouded' \subseteq Prop
    BY <1>2, <1>3, <1>6 DEF IType, mine
  <2>5. shaky' \in BOOLEAN
    BY <1>2, <1>3 DEF IType
  <2> QED BY <1>2, <1>3, <2>1, <2>2, <2>3, <2>4, <2>5 DEF IType
<1>12. ASSUME NEW p, p \notin names, p \notin others, Alone(p) PROVE Alone(p)'
  <2>1. ASSUME NEW d \in Component, NEW e \in Component, p \in Names(queue'[d]), e # d
        PROVE  queue'[e] = <<>>
    <3>1. d = c /\ p \in Names(queue[c])
      BY <1>4, <1>9, <1>12, <2>1
    <3>2. queue[e] = <<>>
      BY <1>12, <2>1, <3>1 DEF Alone
    <3> QED BY <1>8, <2>1, <3>1, <3>2
  <2> QED BY <2>1 DEF Alone
<1>13. ASSUME NEW p, others = {} PROVE Alone(p)'
  <2>1. ASSUME NEW d \in Component, NEW e \in Component, p \in Names(queue'[d]), e # d
        PROVE  queue'[e] = <<>>
    <3>1. d = c
      BY <1>4, <1>9, <1>13, <2>1
    <3> QED BY <1>5, <1>8, <1>13, <2>1, <3>1
  <2> QED BY <2>1 DEF Alone
<1>14. ASSUME server # None, NEW p \in Prop \ clouded', p \in names PROVE Wins(p)'
  <2>1. others = {} /\ last'[p] = new[p]
    BY <1>2, <1>14
  <2>2. \A d \in Component : EndsWith(queue'[d], p, new[p])
    <3>1. EndsWith(queue'[c], p, new[p])
      BY <1>1, <1>7, <1>8, <1>14, EndsAppend
    <3> QED BY <1>5, <1>8, <2>1, <3>1, EndsEmpty
  <2>3. ASSUME NEW d \in Component, stage'[d] = "ok" PROVE p \in Names(Tail(queue'[d]))
    <3>1. d = c
      BY <1>3, <1>5, <1>8, <2>1, <2>3, QueuesAre
    <3>2. queue[c] # <<>>
      BY <1>7, <1>8, <2>3, <3>1
    <3> QED BY <1>10, <1>14, <3>1, <3>2
  <2>4. ~Nowhere(p)'
    BY <1>9, <1>14 DEF Nowhere
  <2> QED BY <1>13, <2>1, <2>2, <2>3, <2>4 DEF Wins
<1>15. ASSUME server # None, NEW p \in Prop \ clouded', p \notin names PROVE Wins(p)'
  <2>1. p \notin clouded /\ p \notin others /\ last'[p] = last[p]
    BY <1>2, <1>15
  <2>2. Wins(p)
    BY <1>15, <2>1 DEF IInv, UpdatesOK
  <2>3. \A d \in Component : EndsWith(queue'[d], p, last[p])
    <3>1. EndsWith(queue'[c], p, last[p])
      BY <1>1, <1>7, <1>8, <1>15, <2>2, EndsAppend DEF Wins
    <3> QED BY <1>8, <2>2, <3>1 DEF Wins
  <2>4. ASSUME NEW d \in Component, stage'[d] = "ok", p \in DOMAIN Head(queue'[d]),
               p \notin Names(Tail(queue'[d]))
        PROVE  server[p] = last[p]
    <3>1. CASE d = c
      <4>1. stage[c] = "ok" /\ queue[c] # <<>>
        BY <1>7, <1>8, <2>4, <3>1
      <4>2. p \in DOMAIN Head(queue[c]) /\ p \notin Names(Tail(queue[c]))
        BY <1>10, <2>4, <3>1, <4>1
      <4> QED BY <2>2, <4>1, <4>2 DEF Wins
    <3>2. CASE d # c
      BY <1>8, <2>2, <2>4, <3>2 DEF Wins
    <3> QED BY <3>1, <3>2
  <2>5. Nowhere(p)' => Nowhere(p)
    BY <1>9 DEF Nowhere
  <2>6. Alone(p)'
    BY <1>12, <1>15, <2>1, <2>2 DEF Wins
  <2> QED BY <1>2, <2>1, <2>2, <2>3, <2>4, <2>5, <2>6 DEF Wins
<1>16. ASSUME server # None, ~shaky', "talk" \notin names PROVE TalkOK'
  <2>1. ~shaky /\ "talk" \notin others /\ share'.talk = share.talk
    BY <1>2, <1>16
  <2>2. TalkOK
    BY <1>16, <2>1 DEF IInv, ToggleOK
  <2>3. ASSUME NEW d \in Component, "talk" \in Names(queue'[d]) PROVE Toggled(d)'
    <3>1. d = c /\ "talk" \in Names(queue[c])
      BY <1>4, <1>9, <1>16, <2>1, <2>3
    <3>2. Toggled(c) /\ queue[c] # <<>>
      BY <1>3, <2>2, <3>1, QueuesAre DEF TalkOK
    <3>3. stage'[c] = stage[c]
      BY <1>7, <1>8, <3>2
    <3>4. ASSUME NEW i \in 1..Len(queue'[c]), "talk" \in DOMAIN queue'[c][i]
          PROVE  queue'[c][i].talk = share.talk
      <4>1. \/ i \in 1..Len(queue[c]) /\ queue'[c][i] = queue[c][i]
            \/ queue'[c][i] = u
        BY <1>7, <1>8
      <4> QED BY <1>1, <1>16, <3>2, <3>4, <4>1 DEF Toggled
    <3>5. Once(queue'[c])
      BY <1>1, <1>7, <1>8, <1>16, <3>2, OnceAppend DEF Toggled
    <3> QED BY <1>2, <1>10, <2>1, <3>1, <3>2, <3>3, <3>4, <3>5 DEF Toggled
  <2>4. Nowhere("talk")' => Nowhere("talk")
    BY <1>9 DEF Nowhere
  <2>5. Alone("talk")'
    BY <1>12, <1>16, <2>1, <2>2 DEF TalkOK
  <2> QED BY <1>2, <2>1, <2>2, <2>3, <2>4, <2>5 DEF TalkOK
<1>17. ASSUME server # None, ~shaky', "talk" \in names PROVE TalkOK'
  <2>1. ~shaky /\ others = {} /\ "talk" \notin Names(queue[c]) /\ share'.talk # share.talk
    BY <1>2, <1>4, <1>17 DEF mine
  <2>2. TalkOK
    BY <1>17, <2>1 DEF IInv, ToggleOK
  <2>3. Nowhere("talk")
    BY <1>4, <2>1 DEF Nowhere
  <2>4. server.talk = share.talk /\ \A d \in Component : read[d] # None => read[d].talk = server.talk
    BY <2>2, <2>3 DEF TalkOK
  <2>5. ASSUME NEW d \in Component, "talk" \in Names(queue'[d]) PROVE Toggled(d)'
    <3>1. d = c
      BY <1>9, <2>3, <2>5 DEF Nowhere
    <3>2. ASSUME NEW i \in 1..Len(queue'[c]), "talk" \in DOMAIN queue'[c][i]
          PROVE  queue'[c][i].talk = share'.talk
      <4>1. \/ i \in 1..Len(queue[c]) /\ queue'[c][i] = queue[c][i]
            \/ queue'[c][i] = u
        BY <1>7, <1>8
      <4>2. queue'[c][i] = u
        BY <2>1, <3>2, <4>1 DEF Names
      <4> QED BY <1>1, <1>2, <1>17, <4>2
    <3>3. Once(queue'[c])
      <4>1. Once(queue[c])
        BY <2>1 DEF Once, Names
      <4> QED BY <1>1, <1>7, <1>8, <2>1, <4>1, OnceAppend
    <3>4. stage'[c] = "ok" => "talk" \notin DOMAIN Head(queue'[c])
      <4>1. SUFFICES ASSUME stage'[c] = "ok" PROVE "talk" \notin DOMAIN Head(queue'[c])
        OBVIOUS
      <4>2. queue[c] # <<>>
        BY <1>7, <1>8, <4>1
      <4>3. "talk" \notin DOMAIN Head(queue[c])
        BY <1>7, <2>1, <4>2, NamesTail
      <4> QED BY <1>10, <4>2, <4>3
    <3> QED BY <1>2, <2>1, <2>4, <3>1, <3>2, <3>3, <3>4 DEF Toggled
  <2>6. ~Nowhere("talk")'
    BY <1>9, <1>17 DEF Nowhere
  <2> QED BY <1>13, <2>1, <2>5, <2>6 DEF TalkOK
<1>18. UpdatesOK'
  BY <1>2, <1>14, <1>15 DEF UpdatesOK
<1>19. ToggleOK'
  BY <1>2, <1>16, <1>17 DEF ToggleOK
<1> QED BY <1>11, <1>18, <1>19 DEF IInv

\* What can be done on the page.
LEMMA TypedIs ==
    ASSUME IType
    PROVE  Typed \in Share /\ Typed.talk = share.talk
  BY DEF IType, Typed, Share

LEMMA QueuesSomething ==
    ASSUME IInv,
           \/ \E v \in Permission : SelectOption(v) \/ SaveShare(v)
           \/ OnMenuClose \/ ToggleTalk
    PROVE  IInv'
<1>1. IType /\ share \in Share /\ newPassword \in (Password \ {Empty}) \cup {None}
      /\ open \in Details \cup {None}
  BY DEF IInv, IType
<1>2. Typed \in Share /\ Typed.talk = share.talk
  BY <1>1, TypedIs
<1>3. {"quick", "entry"} \subseteq Component /\ Details \subseteq Component
  BY DEF Component
<1>4. /\ {"permissions"} \in (SUBSET Prop) \ {{}} /\ {"password"} \in (SUBSET Prop) \ {{}}
      /\ {"talk", "password"} \in (SUBSET Prop) \ {{}}
      /\ {"permissions", "password"} \in (SUBSET Prop) \ {{}}
  BY DEF Prop
<1>5. ASSUME NEW v \in Permission, SelectOption(v) PROVE IInv'
  <2> DEFINE new == [share EXCEPT !.permissions = v]
  <2>1. new \in Share /\ new.talk = share.talk
    BY <1>1 DEF Share
  <2>2. queueUpdate("quick", {"permissions"}, new) /\ UNCHANGED <<newPassword, open>>
    BY <1>5 DEF SelectOption
  <2> HIDE DEF new
  <2> QED BY <1>1, <1>3, <1>4, <2>1, <2>2, QueueKeeps
<1>6. ASSUME NEW v \in Permission, SaveShare(v) PROVE IInv'
  <2> DEFINE old == IF share.password = Empty THEN share ELSE Typed
             new == [old EXCEPT !.permissions = v]
  <2>1. old \in Share /\ old.talk = share.talk
    BY <1>1, <1>2
  <2> HIDE DEF old
  <2>2. new \in Share /\ new.talk = share.talk
    BY <2>1 DEF Share
  <2> USE DEF old
  <2>3. /\ open # None /\ queueUpdate(open, {"permissions", "password"}, new) /\ open' = open
        /\ newPassword' \in {newPassword, None}
    BY <1>6 DEF SaveShare
  <2> HIDE DEF new
  <2> QED BY <1>1, <1>3, <1>4, <2>2, <2>3, QueueKeeps
<1>7. CASE OnMenuClose
  <2>1. queueUpdate("entry", {"password"}, Typed) /\ UNCHANGED <<newPassword, open>>
    BY <1>7 DEF OnMenuClose
  <2> QED BY <1>1, <1>2, <1>3, <1>4, <2>1, QueueKeeps
<1>8. CASE ToggleTalk
  <2> DEFINE new == [Typed EXCEPT !.talk = ~share.talk]
  <2>1. new \in Share /\ new.talk # share.talk
    BY <1>1, <1>2 DEF Share
  <2>2. open # None /\ queueUpdate(open, {"talk", "password"}, new) /\ UNCHANGED <<newPassword, open>>
    BY <1>8 DEF ToggleTalk
  <2> HIDE DEF new
  <2> QED BY <1>1, <1>3, <1>4, <2>1, <2>2, QueueKeeps
<1> QED BY <1>5, <1>6, <1>7, <1>8

LEMMA QueuesNothing ==
    ASSUME IInv,
           \/ \E v \in Permission : UpdateAtomicPermissions(v)
           \/ \E v \in Password : OnPasswordChange(v) \/ TogglePassword(v)
           \/ CloseSharingDetails
           \/ \E c \in Component : OpenSharingDetails(c) \/ OnDelete(c)
           \/ \E done \in BOOLEAN : Delete(done)
           \/ Deleted
    PROVE  IInv'
<1>1. /\ share \in Share /\ newPassword \in (Password \ {Empty}) \cup {None}
      /\ open \in Details \cup {None} /\ shown \in BOOLEAN
      /\ deleting \in Component \cup {"none", "ok", "failed", "over"}
  BY DEF IInv, IType
<1>2. ASSUME NEW v \in Permission, UpdateAtomicPermissions(v) PROVE IInv'
  <2>1. share' \in Share /\ share'.talk = share.talk
    BY <1>1, <1>2 DEF UpdateAtomicPermissions, Share
  <2> QED BY <1>1, <1>2, <2>1, PageKeeps DEF UpdateAtomicPermissions
<1>3. ASSUME NEW v \in Password, OnPasswordChange(v) PROVE IInv'
  BY <1>1, <1>3, PageKeeps DEF OnPasswordChange
<1>4. ASSUME NEW v \in Password, TogglePassword(v) PROVE IInv'
  <2>1. share' \in Share /\ share'.talk = share.talk
    BY <1>1, <1>4 DEF TogglePassword, Share
  <2> QED BY <1>1, <1>4, <2>1, PageKeeps DEF TogglePassword
<1>5. CASE CloseSharingDetails
  BY <1>1, <1>5, PageKeeps DEF CloseSharingDetails
<1>6. ASSUME NEW c \in Component, OpenSharingDetails(c) PROVE IInv'
  BY <1>1, <1>6, PageKeeps DEF OpenSharingDetails
<1>7. ASSUME NEW c \in Component, OnDelete(c) PROVE IInv'
  BY <1>1, <1>7, PageKeeps DEF OnDelete, page
<1>8. ASSUME NEW done \in BOOLEAN, Delete(done) PROVE IInv'
  BY <1>1, <1>8, PageKeeps DEF Delete, page
<1>9. CASE Deleted
  BY <1>1, <1>9, PageKeeps DEF Deleted
<1> QED BY <1>2, <1>3, <1>4, <1>5, <1>6, <1>7, <1>8, <1>9

-----------------------------------------------------------------------------
(***************************************************************************)
(* The server.                                                             *)
(***************************************************************************)
\* Only the stage of queue c changes, and nobody knows whether the server has
\* written its head only if it did not answer.
LEMMA StageKeeps ==
    ASSUME IInv, NEW c \in Component, NEW a \in {"refused", "silent", "lost"},
           \/ stage[c] = "sent"
           \/ stage[c] = "ok" /\ a = "lost",
           Answer(c, a), UNCHANGED <<page, deleting, queue, read, server, history>>
    PROVE  IInv'
<1>1. /\ stage' = [stage EXCEPT ![c] = a]
      /\ UNCHANGED <<share, newPassword, shown, open, deleting, queue, read, server, last, clouded, shaky>>
  BY DEF Answer, page, history
<1>2. stage'[c] = a /\ \A d \in Component \ {c} : stage'[d] = stage[d]
  BY <1>1 DEF IInv, IType
<1>3. IType'
  BY <1>1, <1>2 DEF IInv, IType, Stage
<1>4. \A p \in Prop : Wins(p) => Wins(p)'
  BY <1>1, <1>2 DEF Wins, Alone, Nowhere
<1>5. \A d \in Component : Toggled(d) => Toggled(d)'
  BY <1>1, <1>2 DEF Toggled
<1>6. TalkOK => TalkOK'
  BY <1>1, <1>5 DEF TalkOK, Alone, Nowhere
<1> QED BY <1>1, <1>3, <1>4, <1>6 DEF IInv, UpdatesOK, ToggleOK

LEMMA ReadKeeps ==
    ASSUME IInv, NEW c \in Component, Read(c)
    PROVE  IInv'
<1>1. /\ stage[c] = "sent" /\ server # None
      /\ read' = [read EXCEPT ![c] = server]
      /\ stage' = [stage EXCEPT ![c] = "read"]
      /\ UNCHANGED <<share, newPassword, shown, open, deleting, queue, server, last, clouded, shaky>>
  BY DEF Read, Answer, page, history
<1>2. /\ stage'[c] = "read" /\ \A d \in Component \ {c} : stage'[d] = stage[d]
      /\ read'[c] = server /\ \A d \in Component \ {c} : read'[d] = read[d]
  BY <1>1 DEF IInv, IType
<1>3. IType'
  BY <1>1, <1>2 DEF IInv, IType, Stage
<1>4. \A p \in Prop : Wins(p) => Wins(p)'
  BY <1>1, <1>2 DEF Wins, Alone, Nowhere
<1>5. \A d \in Component : Toggled(d) => Toggled(d)'
  BY <1>1, <1>2 DEF Toggled
<1>6. TalkOK => TalkOK'
  BY <1>1, <1>2, <1>5 DEF TalkOK, Alone, Nowhere
<1> QED BY <1>1, <1>3, <1>4, <1>6 DEF IInv, UpdatesOK, ToggleOK

LEMMA WriteKeeps ==
    ASSUME IInv, NEW c \in Component, Write(c)
    PROVE  IInv'
<1> DEFINE update == Head(queue[c])
           new == [p \in Prop |-> IF p \in DOMAIN update THEN update[p] ELSE read[c][p]]
<1>1. /\ stage[c] = "read"
      /\ server' = (IF server = None THEN None ELSE new)
      /\ read' = [read EXCEPT ![c] = None]
      /\ stage' = [stage EXCEPT ![c] = "ok"]
      /\ UNCHANGED <<share, newPassword, shown, open, deleting, queue, last, clouded, shaky>>
  BY DEF Write, Answer, page, history
<1>2. /\ queue[c] \in Seq(Update) /\ queue[c] # <<>> /\ read[c] \in Share /\ read[c] # None
      /\ \A d \in Component : queue[d] = <<>> => stage[d] = "idle" /\ read[d] = None
  BY <1>1, QueuesAre DEF IInv, IType
<1>3. /\ stage'[c] = "ok" /\ \A d \in Component \ {c} : stage'[d] = stage[d]
      /\ read'[c] = None /\ \A d \in Component \ {c} : read'[d] = read[d]
  BY <1>1 DEF IInv, IType
<1>4. update \in Update /\ Names(queue[c]) = DOMAIN update \cup Names(Tail(queue[c]))
  BY <1>2, TailIs, NamesTail
<1>5. \A p \in Prop : new[p] = IF p \in DOMAIN update THEN update[p] ELSE read[c][p]
  OBVIOUS
<1>6. new \in Share
  <2>1. \A p \in Prop : HasType(p, new[p])
    BY <1>2, <1>4, <1>5, UpdateIs, ShareHas
  <2>2. new = [p \in Prop |-> new[p]]
    OBVIOUS
  <2> HIDE DEF new
  <2> QED BY <2>1, <2>2, ShareFrom
<1> HIDE DEF update, new
<1>7. IType'
  <2>1. server' \in Share \cup {None}
    BY <1>1, <1>6
  <2> QED BY <1>1, <1>2, <1>3, <2>1 DEF IInv, IType, Stage
<1>8. CASE server = None
  BY <1>1, <1>7, <1>8 DEF IInv, UpdatesOK, ToggleOK
<1>9. CASE server # None
  <2>1. server' = new
    BY <1>1, <1>9
  <2>2. ASSUME NEW p \in Prop, Wins(p) PROVE Wins(p)'
    <3>1. Alone(p)' /\ (Nowhere(p)' <=> Nowhere(p))
      BY <1>1, <2>2 DEF Wins, Alone, Nowhere
    <3>2. \A d \in Component \ {c} : p \notin Names(queue[d])
      BY <1>2, <2>2 DEF Wins, Alone
    <3>3. ASSUME p \in DOMAIN update, p \notin Names(Tail(queue[c])) PROVE new[p] = last[p]
      <4>1. EndsWith(queue[c], p, last[p])
        BY <2>2 DEF Wins
      <4>2. update[p] = last[p]
        BY <1>2, <3>3, <4>1, EndsTail DEF update
      <4> QED BY <1>5, <3>3, <4>2
    <3>4. ASSUME NEW d \in Component, stage'[d] = "ok", p \in DOMAIN Head(queue[d]),
                 p \notin Names(Tail(queue[d]))
          PROVE  new[p] = last[p]
      <4>1. CASE d = c
        BY <3>3, <3>4, <4>1 DEF update
      <4>2. CASE d # c
        <5>1. queue[d] \in Seq(Update) /\ queue[d] # <<>>
          BY <1>3, <3>4, <4>2, QueuesAre DEF IInv
        <5>2. p \in Names(queue[d])
          BY <3>4, <5>1, NamesTail
        <5> QED BY <3>2, <4>2, <5>2
      <4> QED BY <4>1, <4>2
    <3>5. ASSUME Nowhere(p)
          PROVE  new[p] = last[p] /\ \A d \in Component : read'[d] # None => read'[d][p] = last[p]
      <4>1. p \notin DOMAIN update
        BY <1>4, <3>5 DEF Nowhere
      <4>2. \A d \in Component : read[d] # None => read[d][p] = last[p]
        BY <2>2, <3>5 DEF Wins
      <4> QED BY <1>2, <1>3, <1>5, <4>1, <4>2
    <3>6. \A d \in Component : EndsWith(queue[d], p, last[p])
      BY <2>2 DEF Wins
    <3> QED BY <1>1, <2>1, <3>1, <3>4, <3>5, <3>6 DEF Wins
  <2>3. ASSUME TalkOK PROVE TalkOK'
    <3>1. Alone("talk")' /\ (Nowhere("talk")' <=> Nowhere("talk")) /\ "talk" \in Prop
      BY <1>1, <2>3 DEF TalkOK, Alone, Nowhere, Prop
    <3>2. ASSUME NEW d \in Component, "talk" \in Names(queue[d]) PROVE Toggled(d)'
      <4>1. Toggled(d)
        BY <2>3, <3>2 DEF TalkOK
      <4>2. d = c
        BY <1>2, <2>3, <3>2 DEF TalkOK, Alone
      <4>3. "talk" \in DOMAIN update => new.talk = share.talk
        <5>1. SUFFICES ASSUME "talk" \in DOMAIN update PROVE new["talk"] = share.talk
          OBVIOUS
        <5>2. 1 \in 1..Len(queue[c]) /\ update = queue[c][1]
          BY <1>2, TailIs DEF update
        <5>3. update["talk"] = share.talk
          BY <4>1, <4>2, <5>1, <5>2 DEF Toggled
        <5> QED BY <1>5, <3>1, <5>1, <5>3
      <4>4. "talk" \notin DOMAIN update => new.talk = server.talk
        <5>1. SUFFICES ASSUME "talk" \notin DOMAIN update PROVE new["talk"] = server.talk
          OBVIOUS
        <5>2. read[c].talk = server.talk
          BY <1>2, <4>1, <4>2 DEF Toggled
        <5> QED BY <1>5, <3>1, <5>1, <5>2
      <4>5. new.talk = share.talk <=> "talk" \in DOMAIN update
        BY <1>1, <4>1, <4>2, <4>3, <4>4 DEF Toggled, update
      <4> QED BY <1>1, <1>3, <2>1, <4>1, <4>2, <4>5 DEF Toggled, update
    <3>3. ASSUME Nowhere("talk")
          PROVE  /\ new.talk = share.talk
                 /\ \A d \in Component : read'[d] # None => read'[d].talk = new.talk
      <4>1. "talk" \notin DOMAIN update
        BY <1>4, <3>3 DEF Nowhere
      <4>2. /\ server.talk = share.talk
            /\ \A d \in Component : read[d] # None => read[d].talk = server.talk
        BY <2>3, <3>3 DEF TalkOK
      <4>3. new["talk"] = read[c]["talk"]
        BY <1>5, <3>1, <4>1
      <4> QED BY <1>2, <1>3, <4>2, <4>3
    <3> QED BY <1>1, <2>1, <3>1, <3>2, <3>3 DEF TalkOK
  <2> QED BY <1>1, <1>7, <1>9, <2>2, <2>3 DEF IInv, UpdatesOK, ToggleOK
<1> QED BY <1>8, <1>9

-----------------------------------------------------------------------------
(***************************************************************************)
(* The answers.                                                            *)
(***************************************************************************)
\* Queue c loses its head.
LEMMA DequeueIs ==
    ASSUME IInv, NEW c \in Component, stage[c] \notin {"idle", "read"}, Dequeue(c)
    PROVE  /\ queue[c] \in Seq(Update) /\ queue[c] # <<>> /\ read[c] = None
           /\ queue'[c] = Tail(queue[c]) /\ stage'[c] \in {"sent", "idle"}
           /\ \A d \in Component \ {c} : queue'[d] = queue[d] /\ stage'[d] = stage[d]
           /\ queue' \in [Component -> Seq(Update)] /\ stage' \in [Component -> Stage]
           /\ stage'[c] = "idle" <=> queue'[c] = <<>>
           /\ UNCHANGED <<read, shown, open, deleting, server, last>>
           /\ Head(queue[c]) \in Update
           /\ Names(queue[c]) = DOMAIN Head(queue[c]) \cup Names(queue'[c])
           /\ \A p : Alone(p) => Alone(p)'
<1>1. /\ queue' = [queue EXCEPT ![c] = Tail(@)]
      /\ stage' = [stage EXCEPT ![c] = IF Len(queue[c]) > 1 THEN "sent" ELSE "idle"]
      /\ UNCHANGED <<read, shown, open, deleting, server, last>>
  BY DEF Dequeue
<1>2. queue[c] \in Seq(Update) /\ queue[c] # <<>> /\ read[c] = None
  BY QueuesAre DEF IInv
<1>3. /\ Head(queue[c]) \in Update /\ Tail(queue[c]) \in Seq(Update)
      /\ Len(queue[c]) \in Nat \ {0} /\ (Tail(queue[c]) = <<>> <=> Len(queue[c]) = 1)
      /\ Names(queue[c]) = DOMAIN Head(queue[c]) \cup Names(Tail(queue[c]))
  BY <1>2, TailIs, NamesTail
<1>4. /\ queue'[c] = Tail(queue[c])
      /\ stage'[c] = IF Len(queue[c]) > 1 THEN "sent" ELSE "idle"
      /\ \A d \in Component \ {c} : queue'[d] = queue[d] /\ stage'[d] = stage[d]
      /\ queue' \in [Component -> Seq(Update)] /\ stage' \in [Component -> Stage]
  BY <1>1, <1>3 DEF IInv, IType, Stage
<1>5. stage'[c] = "idle" <=> queue'[c] = <<>>
  BY <1>3, <1>4
<1>6. ASSUME NEW p, Alone(p) PROVE Alone(p)'
  <2>1. ASSUME NEW d \in Component, NEW e \in Component, p \in Names(queue'[d]), e # d
        PROVE  queue'[e] = <<>>
    <3>1. p \in Names(queue[d])
      BY <1>3, <1>4, <2>1
    <3>2. queue[e] = <<>>
      BY <1>6, <2>1, <3>1 DEF Alone
    <3> QED BY <1>2, <1>4, <2>1, <3>2
  <2> QED BY <2>1 DEF Alone
<1> QED BY <1>1, <1>2, <1>3, <1>4, <1>5, <1>6

\* A property that still has its last value, if it was the head's, has it then.
LEMMA DequeueWins ==
    ASSUME IInv, NEW c \in Component, stage[c] \notin {"idle", "read"}, Dequeue(c),
           server # None, NEW p \in Prop, Wins(p),
           p \in DOMAIN Head(queue[c]) /\ p \notin Names(queue'[c]) => stage[c] = "ok"
    PROVE  Wins(p)'
<1>1. /\ queue[c] \in Seq(Update) /\ queue[c] # <<>> /\ read[c] = None
      /\ queue'[c] = Tail(queue[c]) /\ stage'[c] \in {"sent", "idle"}
      /\ \A d \in Component \ {c} : queue'[d] = queue[d] /\ stage'[d] = stage[d]
      /\ UNCHANGED <<read, server, last>>
      /\ Names(queue[c]) = DOMAIN Head(queue[c]) \cup Names(queue'[c])
      /\ Alone(p) => Alone(p)'
  BY DequeueIs
<1>2. \A d \in Component : EndsWith(queue'[d], p, last[p])
  <2>1. \A d \in Component : EndsWith(queue[d], p, last[p])
    BY DEF Wins
  <2>2. EndsWith(Tail(queue[c]), p, last[p])
    BY <1>1, <2>1, EndsTail
  <2> QED BY <1>1, <2>1, <2>2
<1>3. \A d \in Component : stage'[d] = "ok" =>
          d # c /\ stage[d] = "ok" /\ queue'[d] = queue[d]
  BY <1>1
<1>4. ASSUME Nowhere(p)'
      PROVE  /\ server[p] = last[p]
             /\ \A d \in Component : read[d] # None => read[d][p] = last[p]
  <2>1. \A d \in Component : p \notin Names(queue'[d])
    BY <1>4 DEF Nowhere
  <2>2. CASE p \notin DOMAIN Head(queue[c])
    <3>1. Nowhere(p)
      BY <1>1, <2>1, <2>2 DEF Nowhere
    <3> QED BY <3>1 DEF Wins
  <2>3. CASE p \in DOMAIN Head(queue[c])
    <3>1. server[p] = last[p]
      BY <1>1, <2>1, <2>3 DEF Wins
    <3>2. \A d \in Component \ {c} : queue[d] = <<>>
      BY <1>1, <2>3 DEF Wins, Alone
    <3>3. \A d \in Component : read[d] = None
      BY <1>1, <3>2, QueuesAre DEF IInv
    <3> QED BY <3>1, <3>3
  <2> QED BY <2>2, <2>3
<1> QED BY <1>1, <1>2, <1>3, <1>4 DEF Wins

\* What is left of a queue that has the toggle is right, if the head is gone.
LEMMA DequeueToggled ==
    ASSUME IInv, NEW c \in Component, stage[c] \notin {"idle", "read"}, Dequeue(c),
           server # None, TalkOK, share'.talk = share.talk,
           "talk" \in DOMAIN Head(queue[c]) => stage[c] = "ok"
    PROVE  TalkOK'
<1>1. /\ queue[c] \in Seq(Update) /\ queue[c] # <<>> /\ read[c] = None
      /\ queue'[c] = Tail(queue[c]) /\ stage'[c] \in {"sent", "idle"}
      /\ \A d \in Component \ {c} : queue'[d] = queue[d] /\ stage'[d] = stage[d]
      /\ stage'[c] = "idle" <=> queue'[c] = <<>>
      /\ UNCHANGED <<read, server, last>>
      /\ Names(queue[c]) = DOMAIN Head(queue[c]) \cup Names(queue'[c])
      /\ Alone("talk") => Alone("talk")'
  BY DequeueIs
<1>2. /\ Tail(queue[c]) \in Seq(Update) /\ Head(queue[c]) = queue[c][1]
      /\ Len(queue[c]) \in Nat \ {0} /\ Len(Tail(queue[c])) = Len(queue[c]) - 1
      /\ \A i \in 1..Len(Tail(queue[c])) : Tail(queue[c])[i] = queue[c][i + 1]
  BY <1>1, TailIs
<1>3. ASSUME NEW d \in Component, "talk" \in Names(queue'[d]) PROVE Toggled(d)'
  <2>1. "talk" \in Names(queue[d]) /\ Toggled(d)
    BY <1>1, <1>3 DEF TalkOK
  <2>2. CASE d # c
    BY <1>1, <2>1, <2>2 DEF Toggled
  <2>3. CASE d = c
    <3>1. "talk" \notin DOMAIN Head(queue[c])
      BY <1>1, <1>3, <2>1, <2>3, OnceTail DEF Toggled
    <3>2. server.talk # share.talk
      BY <2>1, <2>3, <3>1 DEF Toggled
    <3>3. \A i \in 1..Len(queue[c]) : "talk" \in DOMAIN queue[c][i] => queue[c][i].talk = share.talk
      BY <2>1, <2>3 DEF Toggled
    <3>4. ASSUME NEW i \in 1..Len(queue'[c]), "talk" \in DOMAIN queue'[c][i]
          PROVE  queue'[c][i].talk = share'.talk
      <4>1. i + 1 \in 1..Len(queue[c]) /\ queue'[c][i] = queue[c][i + 1]
        BY <1>1, <1>2
      <4> QED BY <3>3, <3>4, <4>1
    <3>5. Once(queue'[c])
      BY <1>1, <2>1, <2>3, OnceTail DEF Toggled
    <3> QED BY <1>1, <2>3, <3>2, <3>4, <3>5 DEF Toggled
  <2> QED BY <2>2, <2>3
<1>4. ASSUME Nowhere("talk")'
      PROVE  /\ server.talk = share.talk
             /\ \A d \in Component : read[d] # None => read[d].talk = server.talk
  <2>1. \A d \in Component : "talk" \notin Names(queue'[d])
    BY <1>4 DEF Nowhere
  <2>2. CASE "talk" \notin DOMAIN Head(queue[c])
    <3>1. Nowhere("talk")
      BY <1>1, <2>1, <2>2 DEF Nowhere
    <3> QED BY <3>1 DEF TalkOK
  <2>3. CASE "talk" \in DOMAIN Head(queue[c])
    <3>1. Toggled(c)
      BY <1>1, <2>3 DEF TalkOK
    <3>2. server.talk = share.talk
      BY <2>3, <3>1 DEF Toggled
    <3>3. \A d \in Component \ {c} : queue[d] = <<>>
      BY <1>1, <2>3 DEF TalkOK, Alone
    <3>4. \A d \in Component : read[d] = None
      BY <1>1, <3>3, QueuesAre DEF IInv
    <3> QED BY <3>2, <3>4
  <2> QED BY <2>2, <2>3
<1> QED BY <1>1, <1>3, <1>4 DEF TalkOK

LEMMA UpdatedKeeps ==
    ASSUME IInv, NEW c \in Component, Updated(c)
    PROVE  IInv'
<1>1. /\ stage[c] = "ok" /\ Dequeue(c)
      /\ newPassword' \in {newPassword, None}
      /\ UNCHANGED <<share, clouded, shaky>>
  BY DEF Updated
<1>2. /\ UNCHANGED <<read, shown, open, deleting, server, last>>
      /\ queue' \in [Component -> Seq(Update)] /\ stage' \in [Component -> Stage]
      /\ \A d \in Component \ {c} : queue'[d] = queue[d] /\ stage'[d] = stage[d]
      /\ read[c] = None /\ stage'[c] \in {"sent", "idle"}
      /\ stage'[c] = "idle" <=> queue'[c] = <<>>
  BY <1>1, DequeueIs
<1>3. IType'
  BY <1>1, <1>2 DEF IInv, IType
<1>4. UpdatesOK'
  <2>1. ASSUME server # None, NEW p \in Prop \ clouded PROVE Wins(p)'
    BY <1>1, <2>1, DequeueWins DEF IInv, UpdatesOK
  <2> QED BY <1>1, <1>2, <2>1 DEF UpdatesOK
<1>5. ToggleOK'
  <2>1. ASSUME server # None, ~shaky PROVE TalkOK'
    BY <1>1, <2>1, DequeueToggled DEF IInv, ToggleOK
  <2> QED BY <1>1, <1>2, <2>1 DEF ToggleOK
<1> QED BY <1>3, <1>4, <1>5 DEF IInv

LEMMA UpdateFailedKeeps ==
    ASSUME IInv, NEW c \in Component, UpdateFailed(c)
    PROVE  IInv'
<1> DEFINE names == DOMAIN Head(queue[c])
           later == UNION {DOMAIN queue[c][i] : i \in 2..Len(queue[c])}
<1>1. /\ stage[c] \in {"refused", "silent", "lost"} /\ Dequeue(c)
      /\ share' = IF stage[c] # "silent" /\ "talk" \in names
                  THEN [share EXCEPT !.talk = ~@] ELSE share
      /\ clouded' = clouded \cup (names \ later)
      /\ shaky' = (shaky \/ ("talk" \in names /\ stage[c] # "refused"))
      /\ newPassword' = newPassword
  BY DEF UpdateFailed, onSyncError
<1>2. /\ UNCHANGED <<read, shown, open, deleting, server, last>>
      /\ queue' \in [Component -> Seq(Update)] /\ stage' \in [Component -> Stage]
      /\ \A d \in Component \ {c} : queue'[d] = queue[d] /\ stage'[d] = stage[d]
      /\ read[c] = None /\ stage'[c] \in {"sent", "idle"}
      /\ stage'[c] = "idle" <=> queue'[c] = <<>>
      /\ queue[c] \in Seq(Update) /\ queue[c] # <<>> /\ queue'[c] = Tail(queue[c])
      /\ Head(queue[c]) \in Update
      /\ Names(queue[c]) = names \cup Names(queue'[c])
      /\ \A p : Alone(p) => Alone(p)'
  BY <1>1, DequeueIs
<1>3. later = Names(queue'[c]) /\ names \subseteq Prop
  BY <1>2, NamesTail, UpdateIs
<1> HIDE DEF names, later
<1>4. IType'
  <2>1. share' \in Share
    BY <1>1 DEF IInv, IType, Share
  <2>2. clouded' \subseteq Prop /\ shaky' \in BOOLEAN
    BY <1>1, <1>3 DEF IInv, IType
  <2> QED BY <1>1, <1>2, <2>1, <2>2 DEF IInv, IType
<1>5. UpdatesOK'
  <2>1. ASSUME server # None, NEW p \in Prop \ clouded' PROVE Wins(p)'
    <3>1. p \notin clouded /\ ~(p \in names /\ p \notin Names(queue'[c]))
      BY <1>1, <1>3, <2>1
    <3>2. Wins(p)
      BY <2>1, <3>1 DEF IInv, UpdatesOK
    <3> QED BY <1>1, <2>1, <3>1, <3>2, DequeueWins DEF names
  <2> QED BY <1>2, <2>1 DEF UpdatesOK
<1>6. ToggleOK'
  <2>1. SUFFICES ASSUME server # None, ~shaky' PROVE TalkOK'
    BY <1>2 DEF ToggleOK
  <2>2. TalkOK /\ ~("talk" \in names /\ stage[c] # "refused")
    BY <1>1, <2>1 DEF IInv, ToggleOK
  <2>3. CASE "talk" \notin names
    <3>1. share'.talk = share.talk
      BY <1>1, <2>3
    <3> QED BY <1>1, <2>1, <2>2, <2>3, <3>1, DequeueToggled DEF names
  <2>4. CASE "talk" \in names
    <3>1. stage[c] = "refused" /\ share' = [share EXCEPT !.talk = ~@]
      BY <1>1, <2>2, <2>4
    <3>2. Toggled(c) /\ \A d \in Component \ {c} : queue[d] = <<>>
      BY <1>2, <2>2, <2>4 DEF TalkOK, Alone
    <3>3. server.talk # share.talk
      BY <3>1, <3>2 DEF Toggled
    <3>4. share'.talk # share.talk /\ {share'.talk, share.talk, server.talk} \subseteq BOOLEAN
      BY <2>1, <3>1 DEF IInv, IType, Share
    <3>5. server.talk = share'.talk
      BY <3>3, <3>4, TwoValues
    <3>6. \A d \in Component : read[d] = None
      BY <1>2, <3>2, QueuesAre DEF IInv
    <3>7. "talk" \notin Names(queue'[c])
      BY <1>2, <2>4, <3>2, OnceTail DEF Toggled, names
    <3>8. \A d \in Component : "talk" \notin Names(queue'[d])
      <4>1. \A d \in Component \ {c} : Names(queue[d]) = {}
        BY <3>2, QueuesAre DEF IInv
      <4> QED BY <1>2, <3>7, <4>1
    <3> QED BY <1>2, <2>2, <3>5, <3>6, <3>8 DEF TalkOK
  <2> QED BY <2>3, <2>4
<1> QED BY <1>4, <1>5, <1>6 DEF IInv

-----------------------------------------------------------------------------
(***************************************************************************)
(* The theorems.                                                           *)
(***************************************************************************)
LEMMA NextKeeps ==
    ASSUME IInv, [Next]_vars
    PROVE  IInv'
<1>1. CASE Use
  BY <1>1, QueuesSomething, QueuesNothing DEF Use
<1>2. ASSUME NEW c \in Component, NEW a \in {"refused", "silent", "lost"}, Refuse(c, a) PROVE IInv'
  BY <1>2, StageKeeps DEF Refuse
<1>3. ASSUME NEW c \in Component, Lose(c) PROVE IInv'
  BY <1>3, StageKeeps DEF Lose
<1>4. CASE Network
  BY <1>2, <1>3, <1>4, QueuesNothing, ReadKeeps, WriteKeeps, UpdatedKeeps, UpdateFailedKeeps
     DEF Network
<1>5. CASE UNCHANGED vars
  <2>1. UNCHANGED <<share, newPassword, shown, open, deleting, sending, history, server>>
    BY <1>5 DEF vars, page
  <2> QED BY <2>1, PageKeeps DEF IInv, IType
<1> QED BY <1>1, <1>4, <1>5 DEF Next

LEMMA Invariant == Spec => []IInv
  BY InitOK, NextKeeps, PTL DEF Spec

\* Every variable keeps its shape, the properties in the queues have values of
\* their own kind, and a queue works on its head as long as it has one.
THEOREM TypeCorrect == Spec => []TypeOK
<1>1. ASSUME IType PROVE TypeOK
  <2>1. ASSUME NEW c \in Component, NEW i \in DOMAIN queue[c], NEW p \in DOMAIN queue[c][i]
        PROVE  HasType(p, queue[c][i][p])
    <3>1. queue[c] \in Seq(Update)
      BY <1>1, QueuesAre
    <3>2. queue[c][i] \in Update
      BY <3>1
    <3> QED BY <3>2, UpdateIs
  <2>2. \A c \in Component : /\ stage[c] \in Stage /\ (stage[c] = "idle" <=> queue[c] = <<>>)
                             /\ read[c] \in Share \cup {None}
                             /\ (stage[c] = "read" <=> read[c] # None)
    BY <1>1, QueuesAre
  <2> QED BY <1>1, <2>1, <2>2 DEF IType, TypeOK
<1>2. IInv => TypeOK
  BY <1>1 DEF IInv
<1> QED BY <1>2, Invariant, PTL

\* When nothing is pending the server has the value that was queued last for each
\* property (queueUpdate of SharesMixin.js), unless its update failed or was
\* pending together with one of another component.
THEOREM LastOneWins == Spec => []LastUpdateWins
<1>1. ASSUME IInv, server # None, Quiet, NEW p \in Prop \ clouded PROVE server[p] = last[p]
  <2>1. Wins(p)
    BY <1>1 DEF IInv, UpdatesOK
  <2>2. Nowhere(p)
    BY <1>1, QueuesAre DEF IInv, Quiet, Nowhere
  <2> QED BY <2>1, <2>2 DEF Wins
<1>2. IInv => LastUpdateWins
  BY <1>1 DEF LastUpdateWins
<1> QED BY <1>2, Invariant, PTL

\* When nothing is pending `talk' is shown as the server has it, also after updates
\* that were refused (onSyncError of SharesMixin.js), unless two toggles met or
\* nobody knows what the server did.
THEOREM TalkRestored == Spec => []TalkIsRestored
<1>1. ASSUME IInv, server # None, Quiet, ~shaky PROVE share.talk = server.talk
  <2>1. TalkOK
    BY <1>1 DEF IInv, ToggleOK
  <2>2. Nowhere("talk")
    BY <1>1, QueuesAre DEF IInv, Quiet, Nowhere
  <2> QED BY <2>1, <2>2 DEF TalkOK
<1>2. IInv => TalkIsRestored
  BY <1>1 DEF TalkIsRestored
<1> QED BY <1>2, Invariant, PTL

=============================================================================
