----------------------------- MODULE SharingTab -----------------------------
(***************************************************************************)
(* The public links of the file shown in the sharing sidebar:              *)
(* apps/files_sharing/src/views/SharingTab.vue, which loads the shares of  *)
(* a file, views/SharingLinkList.vue and components/SharingEntryLink.vue,  *)
(* which create and delete links, with createShare and deleteShare of the  *)
(* server.                                                                 *)
(*                                                                         *)
(* The tab stays while the user selects other files, and neither the       *)
(* loading nor the creation of a link is cancelled by that.  The entries   *)
(* do not stay: nothing hears what an entry emits after the list was taken *)
(* away.  A new link is created at once, or starts as a draft that has to  *)
(* be reviewed, depending on the configuration.                            *)
(*                                                                         *)
(* One draft is shown at a time: opening the menu of another entry closes  *)
(* the one of the draft.  A list that had an entry twice is not told from  *)
(* one that has it once, and the error message of the tab is left out.     *)
(*                                                                         *)
(* Two history variables: `stale' has the links about which the server and *)
(* the last thing the tab was told of them may disagree, and `made' the    *)
(* links that were created from the draft, or None if an answer was lost.  *)
(***************************************************************************)
EXTENDS Naturals, FiniteSets, FiniteSetsExt

CONSTANTS
    File,        \* the files whose shares the user looks at
    Shared,      \* the files that also have shares of other types
    MaxId,       \* bound: the links there ever are
    MaxRequest,  \* bound: the requests on their way at a time
    Default,     \* the entry that is there as long as there are no links
    Draft,       \* the entry of the draft
    Tab,         \* the tab itself
    Closed, Cancelled,  \* an entry that has gone, or whose draft was cancelled
    None

ASSUME FileAssumption == Shared \subseteq File
ASSUME BoundAssumption == {MaxId, MaxRequest} \subseteq Nat \ {0}
ASSUME EntryAssumption ==
    /\ {Default, Draft, Tab, Closed, Cancelled, None} \cap Nat = {}
    /\ Cardinality({Default, Draft, Tab, Closed, Cancelled, None}) = 6

Id == 1..MaxId

VARIABLES
    links,     \* the links of each file on the server
    lastId,    \* the last id it gave
    review,    \* does the configuration ask for a review of new links?
    file,      \* fileInfo
    loading,
    shares,    \* linkShares that have an id
    draft,     \* linkShares that have none: a new one, one that failed once, or none
    requests,
    stale, made

server == <<links, lastId>>
tab == <<file, loading>>
list == <<shares, draft>>
vars == <<server, review, tab, list, requests, stale, made>>

Entry == Id \cup {Default, Draft}
Gone == {Closed, Cancelled}

\* `by' is the component that waits for the answer; the tab waits for listings.
Request == [n: 1..MaxRequest, kind: {"list", "create", "delete"}, file: File,
            by: Entry \cup Gone \cup {Tab}, id: Id \cup {None},
            answer: {"none", "ok", "failed"}, content: SUBSET Id]

Waiting(by) == \E q \in requests : q.by = by
There == UNION {links[f] : f \in File}

Init ==
    /\ lastId \in 0..1
    /\ links \in [File -> SUBSET (1..lastId)]
    /\ \A i \in 1..lastId : \E f \in File : \A g \in File : i \in links[g] <=> f = g
    /\ review \in BOOLEAN
    /\ file \in File
    /\ loading = TRUE
    /\ shares = {} /\ draft = "none"
    /\ requests = {[n |-> 1, kind |-> "list", file |-> file, by |-> Tab, id |-> None,
                    answer |-> "none", content |-> {}]}
    /\ stale = {} /\ made = {}

Sent(rs, kind, f, by, id) ==
    LET used == {q.n : q \in {p \in rs : p.kind = kind}}
    IN  rs \cup {[n |-> Min(1..MaxRequest \ used), kind |-> kind, file |-> f, by |-> by,
                  id |-> id, answer |-> "none", content |-> {}]}

CanSend == Cardinality(requests) < MaxRequest

\* The entries of S go away.  The answers they wait for reach nobody, so those
\* that are on their way are forgotten; the server still gets the requests.
Without(S, why) ==
    {IF q.by \in S THEN [q EXCEPT !.by = why] ELSE q :
        q \in {p \in requests : p.by \in S => p.answer = "none"}}

Differences(shown) == {i \in Id : (i \in shown) # (i \in links[file])}

\* Mutant: the links of the file before are kept.
resetStateKeeps ==
    /\ loading' = TRUE
    /\ shares' = shares
    /\ draft' = "none"
    /\ made' = {}
    /\ stale' = {}

(***************************************************************************)
(* The tab: update is called for another file, or again for the same one.  *)
(***************************************************************************)
resetState ==
    /\ loading' = TRUE
    /\ shares' = {}
    /\ draft' = "none"
    /\ made' = {}
    /\ stale' = {}

Update(f) ==
    /\ CanSend
    /\ file' = f
    /\ resetState
    /\ requests' = Sent(Without(Entry, Closed), "list", f, Tab, None)
    /\ UNCHANGED <<server, review>>

\* processShares leaves the list alone if the file has no shares at all.
Ignored(q) == q.content = {} /\ q.file \notin Shared
Processed(q) == IF Ignored(q) THEN shares ELSE q.content
Kept(q) == IF Ignored(q) THEN draft ELSE "none"

\* An entry whose link is in the new list too stays.
GetSharesDone(q) ==
    LET new == Processed(q)
        gone == Entry \ (new \cup (IF Kept(q) # "none" THEN {Draft} ELSE {})
                             \cup (IF new = {} /\ Kept(q) = "none" THEN {Default} ELSE {}))
    IN  /\ q.kind = "list" /\ q.answer = "ok"
        /\ shares' = new
        /\ draft' = Kept(q)
        /\ made' = IF Kept(q) = "none" THEN {} ELSE made
        /\ requests' = Without(gone, Closed) \ {q}
        /\ loading' = FALSE
        /\ stale' = IF q.file # file THEN Differences(new)
                    ELSE {i \in Id : (i \in q.content) # (i \in links[file])} \cup
                         (IF Ignored(q) THEN stale ELSE {})
        /\ UNCHANGED <<server, review, file>>

\* Mutant: loading is not reset after an error.
GetSharesFailedLoading(q) ==
    /\ q.kind = "list" /\ q.answer = "failed"
    /\ stale' = Differences(shares)
    /\ requests' = requests \ {q}
    /\ UNCHANGED <<server, review, tab, list, made>>

GetSharesFailed(q) ==
    /\ q.kind = "list" /\ q.answer = "failed"
    /\ loading' = FALSE
    /\ stale' = Differences(shares)
    /\ requests' = requests \ {q}
    /\ UNCHANGED <<server, review, file, list, made>>

(***************************************************************************)
(* The entries.  A list that is loading has none, and an entry that waits  *)
(* for an answer shows no menu, except for a draft.                        *)
(***************************************************************************)
Shown(e) ==
    /\ ~loading
    /\ CASE e = Default -> shares = {} /\ draft = "none"
         [] e = Draft -> draft # "none"
         [] OTHER -> e \in shares

\* onNewLinkShare of an entry other than the draft.
NewLinkShare(e) ==
    /\ e # Draft /\ Shown(e) /\ ~Waiting(e)
    /\ IF review
       THEN /\ draft = "none"
            /\ draft' = "new"
            /\ made' = {}
            /\ requests' = requests
       ELSE /\ CanSend
            /\ requests' = Sent(requests, "create", file, e, None)
            /\ UNCHANGED <<draft, made>>
    /\ UNCHANGED <<server, review, tab, shares, stale>>

\* Mutant: the draft is pushed again while it is loading.
PushNewLinkShareAgain ==
    /\ Shown(Draft)
    /\ CanSend
    /\ requests' = Sent(requests, "create", file, Draft, None)
    /\ UNCHANGED <<server, review, tab, list, stale, made>>

\* onNewLinkShare(true) and pushNewLinkShare of the draft.
PushNewLinkShare ==
    /\ Shown(Draft) /\ ~Waiting(Draft)
    /\ CanSend
    /\ requests' = Sent(requests, "create", file, Draft, None)
    /\ UNCHANGED <<server, review, tab, list, stale, made>>

\* onCancel, also when the menu closes: shareCreationComplete is false until
\* the first answer.
OnCancel ==
    /\ Shown(Draft)
    /\ draft = "new"
    /\ draft' = "none"
    /\ made' = {}
    /\ requests' = Without({Draft}, Cancelled)
    /\ UNCHANGED <<server, review, tab, shares, stale>>

\* Mutant: the menu stays while the entry waits for an answer.
OnDeleteWaiting(i) ==
    /\ i \in Id /\ Shown(i)
    /\ CanSend
    /\ requests' = Sent(requests, "delete", file, i, i)
    /\ UNCHANGED <<server, review, tab, list, stale, made>>

OnDelete(i) ==
    /\ i \in Id /\ Shown(i) /\ ~Waiting(i)
    /\ CanSend
    /\ requests' = Sent(requests, "delete", file, i, i)
    /\ UNCHANGED <<server, review, tab, list, stale, made>>

(***************************************************************************)
(* The server, and what gets lost.                                         *)
(***************************************************************************)
Answered(q, a, id, content) ==
    requests' = (requests \ {q}) \cup
        (IF q.by \in Gone THEN {} ELSE {[q EXCEPT !.answer = a, !.id = id, !.content = content]})

ListShares(q) ==
    /\ q.kind = "list"
    /\ Answered(q, "ok", None, links[q.file])
    /\ UNCHANGED <<server, stale, made>>

CreateShare(q) ==
    /\ q.kind = "create"
    /\ lastId < MaxId
    /\ lastId' = lastId + 1
    /\ links' = [links EXCEPT ![q.file] = @ \cup {lastId + 1}]
    /\ Answered(q, "ok", lastId + 1, {})
    /\ stale' = IF q.file = file THEN stale \cup {lastId + 1} ELSE stale
    /\ made' = IF q.by = Draft /\ made # None THEN made \cup {lastId + 1} ELSE made

DeleteShare(q) ==
    /\ q.kind = "delete"
    /\ q.id \in There
    /\ links' = [f \in File |-> links[f] \ {q.id}]
    /\ Answered(q, "ok", q.id, {})
    /\ stale' = stale \cup {q.id}
    /\ UNCHANGED <<lastId, made>>

Serve(q) ==
    /\ q.answer = "none"
    /\ ListShares(q) \/ CreateShare(q) \/ DeleteShare(q)
    /\ UNCHANGED <<review, tab, list>>

\* A request is refused, or gets lost, or its answer does.
Fail(q) ==
    /\ q.answer = "none" \/ (q.answer = "ok" /\ q.kind # "list")
    /\ Answered(q, "failed", IF q.kind = "delete" THEN q.id ELSE None, {})
    /\ made' = IF q.by = Draft /\ q.answer = "ok" THEN None ELSE made
    /\ UNCHANGED <<server, review, tab, list, stale>>

(***************************************************************************)
(* The answers to an entry.                                                *)
(***************************************************************************)
\* update:share puts the new link in the place of the draft, add:share appends
\* it; the entry of the draft, or the default entry, goes away.
Created(q) ==
    /\ q.kind = "create" /\ q.answer = "ok"
    /\ shares' = shares \cup {q.id}
    /\ draft' = IF q.by = Draft THEN "none" ELSE draft
    /\ made' = IF q.by = Draft THEN {} ELSE made
    /\ stale' = IF q.id \in There THEN stale \ {q.id} ELSE stale \cup {q.id}
    /\ requests' = requests \ {q}

CreateFailed(q) ==
    /\ q.kind = "create" /\ q.answer = "failed"
    /\ draft' = IF q.by = Draft THEN "failed" ELSE draft
    /\ requests' = requests \ {q}
    /\ UNCHANGED <<shares, stale, made>>

removeShare(q) ==
    /\ q.kind = "delete" /\ q.answer = "ok"
    /\ shares' = shares \ {q.id}
    /\ stale' = stale \ {q.id}
    /\ requests' = requests \ {q}
    /\ UNCHANGED <<draft, made>>

DeleteFailed(q) ==
    /\ q.kind = "delete" /\ q.answer = "failed"
    /\ requests' = requests \ {q}
    /\ UNCHANGED <<list, stale, made>>

Deliver(q) ==
    /\ Created(q) \/ CreateFailed(q) \/ removeShare(q) \/ DeleteFailed(q)
    /\ UNCHANGED <<server, review, tab>>

-----------------------------------------------------------------------------
User ==
    \/ \E f \in File : Update(f)
    \/ \E e \in Entry : NewLinkShare(e) \/ OnDelete(e)
    \/ PushNewLinkShare \/ OnCancel

Answering(q) == Serve(q) \/ Fail(q) \/ GetSharesDone(q) \/ GetSharesFailed(q) \/ Deliver(q)

Next == User \/ \E q \in requests : Answering(q)

Spec == Init /\ [][Next]_vars

\* Every listing is answered, or fails, and the tab handles the answer.  Nothing
\* makes the user act, and nothing below depends on the other requests.
FairSpec ==
    /\ Spec
    /\ \A n \in 1..MaxRequest :
          WF_vars(\E q \in requests : q.kind = "list" /\ q.n = n /\ Answering(q))

-----------------------------------------------------------------------------
(***************************************************************************)
(* Properties.                                                             *)
(***************************************************************************)
\* Every variable keeps its shape; an entry that waits for an answer is shown,
\* and requests are told apart by their number.
TypeOK ==
    /\ lastId \in 0..MaxId
    /\ links \in [File -> SUBSET Id] /\ There \subseteq 1..lastId
    /\ file \in File /\ review \in BOOLEAN /\ loading \in BOOLEAN
    /\ shares \subseteq Id /\ draft \in {"none", "new", "failed"}
    /\ requests \subseteq Request
    /\ \A p, q \in requests : p.kind = q.kind /\ p.n = q.n => p = q
    /\ \A q \in requests : q.by \in Entry => Shown(q.by)
    /\ stale \subseteq Id
    /\ made \in (SUBSET Id) \cup {None}

\* The list shows a link if and only if it is one of the file that is selected,
\* except for the links that the listing of another file brought, and those that
\* were created or deleted on the server after the listing was made and the list
\* was not told: what was created and deleted for one file does not change the
\* list of another one, and none is left from the file before, in whatever
\* order files are selected and answers come.
ListIsCurrent ==
    ~loading => \A i \in Id \ stale : i \in shares <=> i \in links[file]

\* No more than one link is created from a draft, however often it is submitted,
\* unless the answer to an earlier submission was lost.
PushedOnce == made # None => Cardinality(made) <= 1

\* A draft that was cancelled has not been pushed to the server (the comment of
\* onCancel).  The code does not keep to this: see the README.
CancelledIsNotPushed ==
    \A q \in requests : q.by # Cancelled

\* The tab does not show the loading icon forever.
LoadingEnds == loading ~> ~loading

=============================================================================
