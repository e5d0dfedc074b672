--------------------------- MODULE FilesListProofs ---------------------------
(***************************************************************************)
(* Proofs about FilesList: with views whose getContents can be cancelled,  *)
(* what the file list shows as loading and as an error belongs to the view *)
(* and the directory that are open, for every number of views, nodes and   *)
(* listings.                                                               *)
(*                                                                         *)
(* LoadingIsOwn is inductive with the types: only the last listing is live,*)
(* so fetchContent, which cancels that one, leaves none but its own.       *)
(* ErrorIsOwn follows step by step, because only a live listing can fail.  *)
(* ListIsCurrent needs what the server never has (a file without its       *)
(* folder, a node the page has deleted) and that a listed root is known.   *)
(***************************************************************************)
EXTENDS FilesList, TLAPS

ServerOK ==
    /\ server \in [Node -> {"unborn", "there", "gone"}]
    /\ op \in [Node -> {"none", "deleting", "deleted", "creating", "created"}]

StoresOK ==
    /\ files \subseteq Node
    /\ roots \in [View -> (SUBSET Node) \cup {None}]
    /\ children \in [Folder -> SUBSET Node]
    /\ paths \in [View -> SUBSET Folder]

RouteOK == view \in View /\ directory \in Dir /\ fileid \in Node \cup {None}

PageOK ==
    /\ loading \in BOOLEAN /\ error \in BOOLEAN
    /\ promise \in 1..MaxFetch
    /\ requests \in [1..MaxFetch -> Request]
    /\ stale \subseteq Node

Own == LoadingIsOwn /\ ErrorIsOwn
IInv == ServerOK /\ StoresOK /\ RouteOK /\ PageOK /\ Own

\* The parts make up the type invariant.
LEMMA TypeParts == TypeOK <=> ServerOK /\ StoresOK /\ RouteOK /\ PageOK
BY DEF TypeOK, ServerOK, StoresOK, RouteOK, PageOK

\* Every node has a parent among the directories.
LEMMA ParentType == ASSUME NEW n \in Node PROVE ParentOf(n) \in Dir
BY TreeAssumption DEF ParentOf, Node, Dir

\* A listing contains nodes only.
LEMMA ContentType == ASSUME NEW v, NEW d PROVE Content(v, d) \subseteq Node
BY DEF Content, There

\* Steps that touch neither the route nor the page keep what is shown.
LEMMA PageKept ==
    ASSUME RouteOK, PageOK, Own, UNCHANGED <<view, directory, page>>
    PROVE  (PageOK' <=> stale' \subseteq Node) /\ Own'
BY DEF PageOK, Own, LoadingIsOwn, ErrorIsOwn, Live, page

\* fetchContent leaves no live listing but its own.
LEMMA FetchOwn ==
    ASSUME Cancelable = View, PageOK, Own,
           NEW times \in 1..2, NEW v \in View, NEW d \in Dir,
           Fetch(times, v, d), view' = v, directory' = d
    PROVE  PageOK' /\ Own'
<1> DEFINE last == promise + times
           sent == [view |-> v, dir |-> d, content |-> {}, state |-> "sent"]
<1>1. last \in 1..MaxFetch /\ promise' = last /\ loading' = TRUE /\ error' = FALSE /\ stale' = {}
  BY DEF Fetch
<1>2. requests' = [r \in 1..MaxFetch |->
                     CASE r = last -> sent
                       [] r \in promise + 1 .. last - 1 -> Cancel(sent)
                       [] r = promise -> Cancel(requests[r])
                       [] OTHER -> requests[r]]
  BY DEF Fetch
<1>3. sent \in Request
  BY DEF Request
<1>4. ASSUME NEW q \in Request
      PROVE  Cancel(q) \in Request /\ ~(Cancel(q).state \in {"sent", "answered"})
  <2>1. CASE q.state \in {"sent", "answered"}
    BY <2>1 DEF Cancel, Live, Request
  <2>2. CASE ~(q.state \in {"sent", "answered"})
    BY <2>2 DEF Cancel, Live, Request
  <2> QED BY <2>1, <2>2
<1>5. ASSUME NEW r \in 1..MaxFetch
      PROVE  /\ requests'[r] \in Request
             /\ r = last => requests'[r] = sent
             /\ r # last => ~(requests'[r].state \in {"sent", "answered"})
  <2>1. requests[r] \in Request
    BY DEF PageOK
  <2>2. r # promise => ~(requests[r].state \in {"sent", "answered"})
    BY DEF Own, LoadingIsOwn, Live
  <2>3. promise \in Nat /\ last \in Nat /\ promise # last
    BY DEF PageOK
  <2>4. CASE r = last
    BY <2>4, <1>2, <1>3
  <2>5. CASE r # last /\ r \in promise + 1 .. last - 1
    <3>1. requests'[r] = Cancel(sent)
      BY <2>5, <1>2
    <3> QED BY <3>1, <2>5, <1>3, <1>4
  <2>6. CASE r = promise
    <3>1. requests'[r] = Cancel(requests[r])
      BY <2>6, <2>3, <1>2
    <3> QED BY <3>1, <2>1, <2>3, <2>6, <1>4
  <2>7. CASE r # last /\ r # promise /\ ~(r \in promise + 1 .. last - 1)
    <3>1. requests'[r] = requests[r]
      BY <2>7, <1>2
    <3> QED BY <3>1, <2>1, <2>2, <2>7
  <2> QED BY <2>4, <2>5, <2>6, <2>7
<1>6. requests' \in [1..MaxFetch -> Request]
  BY <1>2, <1>5
<1>7. PageOK'
  BY <1>1, <1>6 DEF PageOK
<1>8. LoadingIsOwn'
  BY <1>1, <1>5 DEF LoadingIsOwn, Live
<1>9. ErrorIsOwn'
  BY <1>1, <1>5 DEF ErrorIsOwn
<1> QED BY <1>7, <1>8, <1>9 DEF Own

\* The watchers of the view and of the directory leave one live listing, for
\* both of them.
LEMMA GoToRouteOwn ==
    ASSUME Cancelable = View, RouteOK, PageOK, Own,
           NEW v \in View, NEW d \in Dir, NEW id \in Node \cup {None},
           goToRoute(v, d, id)
    PROVE  RouteOK' /\ PageOK' /\ Own'
<1>1. view' = v /\ directory' = d /\ fileid' = id
  BY DEF goToRoute
<1>2. RouteOK'
  BY <1>1 DEF RouteOK
<1>3. CASE v # view /\ d # directory
  <2>1. Fetch(2, v, d)
    BY <1>3 DEF goToRoute
  <2> QED BY <2>1, <1>1, <1>2, FetchOwn
<1>4. CASE v = view /\ d = directory
  <2>1. UNCHANGED <<page, stale>>
    BY <1>4 DEF goToRoute
  <2> QED BY <2>1, <1>1, <1>2, <1>4, PageKept DEF PageOK
<1>5. CASE ~(v # view /\ d # directory) /\ ~(v = view /\ d = directory)
  <2>1. Fetch(1, v, d)
    BY <1>5 DEF goToRoute
  <2> QED BY <2>1, <1>1, <1>2, FetchOwn
<1> QED BY <1>3, <1>4, <1>5

\* fetchContent for the view and the directory that are open.
LEMMA FetchContentOwn ==
    ASSUME Cancelable = View, RouteOK, PageOK, Own, fetchContent, UNCHANGED <<view, directory>>
    PROVE  PageOK' /\ Own'
<1>1. Fetch(1, view, directory)
  BY DEF fetchContent
<1> QED BY <1>1, FetchOwn DEF RouteOK

LEMMA InitInv == Init => IInv
<1> SUFFICES ASSUME Init PROVE IInv
  OBVIOUS
<1>1. ServerOK /\ StoresOK /\ RouteOK
  BY DEF Init, ServerOK, StoresOK, RouteOK
<1>2. requests \in [1..MaxFetch -> Request]
  BY DEF Init, Request
<1>3. PageOK
  <2>1. loading = TRUE /\ error = FALSE /\ promise = 1 /\ stale = {}
    BY DEF Init
  <2>2. 1 \in 1..MaxFetch
    BY FetchAssumption
  <2>3. promise \in 1..MaxFetch
    BY <2>1, <2>2
  <2>4. loading \in BOOLEAN /\ error \in BOOLEAN /\ stale \subseteq Node
    BY <2>1
  <2> QED BY <2>3, <2>4, <1>2 DEF PageOK
<1>4. Own
  BY FetchAssumption DEF Init, Own, LoadingIsOwn, ErrorIsOwn, Live
<1> QED BY <1>1, <1>3, <1>4 DEF IInv

\* Navigation.
LEMMA NavigationInv ==
    ASSUME Cancelable = View, IInv
    PROVE  /\ Reload => IInv'
           /\ \A v \in View : OpenView(v) => IInv'
           /\ \A f \in Folder : OpenFolder(f) => IInv'
           /\ \A f \in File : OpenFile(f) => IInv'
<1> USE DEF IInv
<1>1. ASSUME Reload PROVE IInv'
  <2>1. fetchContent /\ UNCHANGED <<server, op, stores, route>>
    BY <1>1 DEF Reload
  <2>2. PageOK' /\ Own'
    BY <2>1, FetchContentOwn DEF route
  <2> QED BY <2>1, <2>2 DEF ServerOK, StoresOK, RouteOK, stores, route
<1>2. ASSUME NEW v \in View, OpenView(v) PROVE IInv'
  <2>1. goToRoute(v, Root, None) /\ UNCHANGED <<server, op, stores>>
    BY <1>2 DEF OpenView
  <2>2. RouteOK' /\ PageOK' /\ Own'
    BY <2>1, GoToRouteOwn DEF Dir
  <2> QED BY <2>1, <2>2 DEF ServerOK, StoresOK, stores
<1>3. ASSUME NEW f \in Folder, OpenFolder(f) PROVE IInv'
  <2>1. goToRoute(view, f, f) /\ UNCHANGED <<server, op, stores>>
    BY <1>3 DEF OpenFolder
  <2>2. RouteOK' /\ PageOK' /\ Own'
    BY <2>1, GoToRouteOwn DEF Dir, Node, RouteOK
  <2> QED BY <2>1, <2>2 DEF ServerOK, StoresOK, stores
<1>4. ASSUME NEW f \in File, OpenFile(f) PROVE IInv'
  <2>1. fileid' = f /\ UNCHANGED <<server, op, stores, view, directory, page, stale>>
    BY <1>4 DEF OpenFile
  <2>2. RouteOK'
    BY <2>1 DEF RouteOK, Node
  <2>3. PageOK' /\ Own'
    BY <2>1, PageKept DEF PageOK
  <2> QED BY <2>1, <2>2, <2>3 DEF ServerOK, StoresOK, stores
<1> QED BY <1>1, <1>2, <1>3, <1>4

\* A listing that is answered stays live, and is still the last one.
LEMMA AnswerInv ==
    ASSUME IInv, NEW r \in 1..MaxFetch, Answer(r)
    PROVE  IInv'
<1> USE DEF IInv
<1> DEFINE q == [requests[r] EXCEPT !.state = "answered",
                                    !.content = Content(requests[r].view, requests[r].dir)]
<1>1. /\ requests[r].state = "sent"
      /\ requests' = [requests EXCEPT ![r] = q]
      /\ UNCHANGED <<server, op, stores, route, loading, error, promise, stale>>
  BY DEF Answer, PageOK
<1>2. requests[r] \in Request
  BY DEF PageOK
<1>3. q \in Request /\ q.state = "answered" /\ q.view = requests[r].view /\ q.dir = requests[r].dir
  BY <1>2, ContentType DEF Request
<1>4. PageOK'
  BY <1>1, <1>3 DEF PageOK
<1>5. LoadingIsOwn'
  BY <1>1, <1>3 DEF Own, LoadingIsOwn, Live, route, PageOK
<1>6. r = promise /\ ~error
  BY <1>1 DEF Own, LoadingIsOwn, Live
<1>7. ErrorIsOwn'
  BY <1>1, <1>3, <1>6 DEF ErrorIsOwn, PageOK
<1> QED BY <1>1, <1>4, <1>5, <1>7 DEF Own, ServerOK, StoresOK, RouteOK, stores, route

\* The live listing was the last one, so that none is live after it.
LEMMA EndedOwn ==
    ASSUME RouteOK, PageOK, Own, NEW r \in 1..MaxFetch, Live(requests[r]),
           NEW s \in {"done", "failed"},
           requests' = [requests EXCEPT ![r].state = s, ![r].content = {}],
           error' = (s = "failed"), loading' = FALSE, stale' \subseteq Node,
           UNCHANGED <<view, directory, promise>>
    PROVE  PageOK' /\ Own'
<1> DEFINE q == [requests[r] EXCEPT !.state = s, !.content = {}]
<1>1. requests[r] \in Request
  BY DEF PageOK
<1>2. q \in Request /\ q.state = s
  BY <1>1 DEF Request
<1>3. requests' = [requests EXCEPT ![r] = q]
  BY DEF PageOK
<1>4. requests' \in [1..MaxFetch -> Request]
  BY <1>2, <1>3 DEF PageOK
<1>5. PageOK'
  BY <1>4 DEF PageOK
<1>6. r = promise
  BY DEF Own, LoadingIsOwn
<1>7. ASSUME NEW p \in 1..MaxFetch PROVE ~Live(requests'[p])
  BY <1>2, <1>3, <1>6 DEF Own, LoadingIsOwn, Live, PageOK
<1>8. LoadingIsOwn'
  BY <1>7 DEF LoadingIsOwn, Live
<1>9. ErrorIsOwn'
  BY <1>2, <1>3, <1>6 DEF ErrorIsOwn, PageOK
<1> QED BY <1>5, <1>8, <1>9 DEF Own

LEMMA FetchDoneInv ==
    ASSUME IInv, NEW r \in 1..MaxFetch, FetchDone(r)
    PROVE  IInv'
<1> USE DEF IInv
<1> DEFINE q == requests[r]
           c == q.content
<1>1. q \in Request /\ q.state = "answered" /\ Live(q)
  BY DEF FetchDone, PageOK, Live
<1>2. c \subseteq Node /\ q.view \in View /\ q.dir \in Dir
  BY <1>1 DEF Request
<1>3. ~error
  BY <1>1 DEF Own, LoadingIsOwn
<1>4. stale' \subseteq Node
  BY DEF FetchDone, PageOK
<1>5. /\ requests' = [requests EXCEPT ![r].state = "done", ![r].content = {}]
      /\ loading' = FALSE
      /\ UNCHANGED <<server, op, route, error, promise>>
  BY DEF FetchDone
<1>6. PageOK' /\ Own'
  BY <1>1, <1>3, <1>4, <1>5, EndedOwn DEF route, PageOK
<1>7. StoresOK'
  <2>1. files' = files \cup c \cup (IF q.dir = Root THEN {} ELSE {q.dir})
    BY DEF FetchDone
  <2>2. files' \subseteq Node
    BY <1>2, <2>1 DEF StoresOK, Dir, Node
  <2>3. children' \in [Folder -> SUBSET Node]
    BY <1>2 DEF FetchDone, StoresOK
  <2>4. roots' \in [View -> (SUBSET Node) \cup {None}]
    BY <1>2 DEF FetchDone, StoresOK
  <2>5. paths' = [paths EXCEPT ![q.view] = @ \cup Folders(c) \cup ({q.dir} \ {Root})]
    BY DEF FetchDone
  <2>6. Folders(c) \cup ({q.dir} \ {Root}) \subseteq Folder
    BY <1>2 DEF Folders, Dir
  <2>7. paths' \in [View -> SUBSET Folder]
    BY <1>2, <2>5, <2>6 DEF StoresOK
  <2> QED BY <2>2, <2>3, <2>4, <2>7 DEF StoresOK
<1> QED BY <1>5, <1>6, <1>7 DEF ServerOK, RouteOK, route

LEMMA FetchFailedInv ==
    ASSUME IInv, NEW r \in 1..MaxFetch, FetchFailed(r)
    PROVE  IInv'
<1> USE DEF IInv
<1>1. /\ Live(requests[r])
      /\ requests' = [requests EXCEPT ![r].state = "failed", ![r].content = {}]
      /\ error' = TRUE /\ loading' = FALSE
      /\ UNCHANGED <<server, op, stores, route, promise, stale>>
  BY DEF FetchFailed
<1>2. PageOK' /\ Own'
  BY <1>1, EndedOwn DEF route, PageOK
<1> QED BY <1>1, <1>2 DEF ServerOK, StoresOK, RouteOK, stores, route

\* What the server does, for this page or for another client, and what the
\* page asks it for, leave the page as it is.
LEMMA ServerInv ==
    ASSUME IInv, NEW n \in Node
    PROVE  /\ OtherClient(n) => IInv'
           /\ Serve(n) => IInv'
           /\ OperationFailed(n) => IInv'
           /\ Delete(n) => IInv'
           /\ CreateOrUpload(n) => IInv'
<1> USE DEF IInv
<1>1. ASSUME ServerOK', stale' \subseteq Node, UNCHANGED <<stores, route, page>>
      PROVE  IInv'
  <2>1. PageOK' /\ Own'
    BY <1>1, PageKept DEF route
  <2> QED BY <1>1, <2>1 DEF StoresOK, RouteOK, stores, route
<1>2. ASSUME Create(n) \/ Remove(n)
      PROVE  /\ server' \in [Node -> {"unborn", "there", "gone"}]
             /\ stale' \subseteq Node
  BY <1>2 DEF Create, Remove, Subtree, ServerOK, PageOK
<1>3. ASSUME OtherClient(n) PROVE IInv'
  <2>1. (Create(n) \/ Remove(n)) /\ UNCHANGED <<op, stores, route, page>>
    BY <1>3 DEF OtherClient
  <2>2. ServerOK'
    BY <2>1, <1>2 DEF ServerOK
  <2> QED BY <2>1, <2>2, <1>1, <1>2
<1>4. ASSUME Serve(n) PROVE IInv'
  <2>1. /\ Create(n) \/ Remove(n)
        /\ op' = [op EXCEPT ![n] = "deleted"] \/ op' = [op EXCEPT ![n] = "created"]
        /\ UNCHANGED <<stores, route, page>>
    BY <1>4 DEF Serve
  <2>2. ServerOK'
    BY <2>1, <1>2 DEF ServerOK
  <2> QED BY <2>1, <2>2, <1>1, <1>2
<1>5. ASSUME OperationFailed(n) \/ Delete(n) \/ CreateOrUpload(n) PROVE IInv'
  <2>1. /\ \E s \in {"none", "deleting", "creating"} : op' = [op EXCEPT ![n] = s]
        /\ UNCHANGED <<server, stores, route, page, stale>>
    BY <1>5 DEF OperationFailed, Delete, CreateOrUpload
  <2>2. ServerOK' /\ stale' \subseteq Node
    BY <2>1 DEF ServerOK, PageOK
  <2> QED BY <2>1, <2>2, <1>1
<1> QED BY <1>3, <1>4, <1>5

\* The store lets a deleted node go, and the list stays where it is or goes to
\* the root of the view.
LEMMA NodeDeletedInv ==
    ASSUME Cancelable = View, IInv, NEW n \in Node, NodeDeleted(n)
    PROVE  IInv'
<1> USE DEF IInv
<1>1. ServerOK'
  BY DEF NodeDeleted, ServerOK
<1>2. StoresOK'
  <2>1. files' \subseteq Node /\ paths' \in [View -> SUBSET Folder]
    BY DEF NodeDeleted, onDeletedNode, StoresOK, RouteOK
  <2>2. children' \in [Folder -> SUBSET Node]
    <3>1. CASE ParentOf(n) \in files \ {n}
      <4>1. children' = [children EXCEPT ![ParentOf(n)] = @ \ {n}]
        BY <3>1 DEF NodeDeleted, onDeletedNode, deleteNodeFromParentChildren
      <4> QED BY <4>1 DEF StoresOK
    <3>2. CASE ~(ParentOf(n) \in files \ {n})
      BY <3>2 DEF NodeDeleted, onDeletedNode, deleteNodeFromParentChildren, StoresOK
    <3> QED BY <3>1, <3>2
  <2>3. roots' \in [View -> (SUBSET Node) \cup {None}]
    <3>1. CASE ParentOf(n) = Root /\ roots[view] # None
      <4>1. roots' = [roots EXCEPT ![view] = @ \ {n}]
        BY <3>1 DEF NodeDeleted, onDeletedNode, deleteNodeFromParentChildren
      <4>2. roots[view] \in SUBSET Node
        BY <3>1 DEF StoresOK, RouteOK
      <4> QED BY <4>1, <4>2 DEF StoresOK, RouteOK
    <3>2. CASE ~(ParentOf(n) = Root /\ roots[view] # None)
      BY <3>2 DEF NodeDeleted, onDeletedNode, deleteNodeFromParentChildren, StoresOK
    <3> QED BY <3>1, <3>2
  <2> QED BY <2>1, <2>2, <2>3 DEF StoresOK
<1>3. CASE fileid = n /\ StillCurrentFolder(n)
  <2>1. goToRoute(view, Root, None)
    BY <1>3 DEF NodeDeleted
  <2>2. view \in View /\ Root \in Dir
    BY DEF RouteOK, Dir
  <2> QED BY <2>1, <2>2, <1>1, <1>2, GoToRouteOwn
<1>4. CASE ~(fileid = n /\ StillCurrentFolder(n))
  <2>1. /\ fileid' \in {None, fileid}
        /\ stale' = stale \ {n}
        /\ UNCHANGED <<view, directory, page>>
    BY <1>4 DEF NodeDeleted
  <2>2. RouteOK' /\ stale' \subseteq Node
    BY <2>1 DEF RouteOK, PageOK
  <2>3. PageOK' /\ Own'
    BY <2>1, <2>2, PageKept
  <2> QED BY <2>2, <2>3, <1>1, <1>2
<1> QED BY <1>3, <1>4

\* A new folder enters the stores, and the list shows its parent.
LEMMA FolderCreatedInv ==
    ASSUME Cancelable = View, IInv, NEW n \in Node, FolderCreated(n)
    PROVE  IInv'
<1> USE DEF IInv
<1>1. n \in Folder /\ ServerOK'
  BY DEF FolderCreated, ServerOK
<1>2. StoresOK'
  <2>1. files' \subseteq Node /\ paths' \in [View -> SUBSET Folder]
    BY <1>1 DEF FolderCreated, onCreatedNode, StoresOK, RouteOK
  <2>2. children' \in [Folder -> SUBSET Node]
    BY <1>1 DEF FolderCreated, onCreatedNode, StoresOK
  <2>3. roots' \in [View -> (SUBSET Node) \cup {None}]
    <3>1. CASE roots[view] = None
      BY <3>1 DEF FolderCreated, onCreatedNode, StoresOK
    <3>2. CASE roots[view] # None
      <4>1. roots' = [roots EXCEPT ![view] = @ \cup {n}]
        BY <3>2 DEF FolderCreated, onCreatedNode
      <4>2. roots[view] \in SUBSET Node
        BY <3>2 DEF StoresOK, RouteOK
      <4> QED BY <4>1, <4>2 DEF StoresOK, RouteOK
    <3> QED BY <3>1, <3>2
  <2> QED BY <2>1, <2>2, <2>3 DEF StoresOK
<1>3. CASE <<view, directory>> = <<FilesView, Root>>
  <2>1. /\ fileid' = n
        /\ stale' \in {stale \ {n}, stale \cup {n}}
        /\ UNCHANGED <<view, directory, page>>
    BY <1>3 DEF FolderCreated
  <2>2. RouteOK' /\ stale' \subseteq Node
    BY <2>1 DEF RouteOK, PageOK
  <2>3. PageOK' /\ Own'
    BY <2>1, <2>2, PageKept
  <2> QED BY <2>2, <2>3, <1>1, <1>2
<1>4. CASE <<view, directory>> # <<FilesView, Root>>
  <2>1. goToRoute(FilesView, Root, n)
    BY <1>4 DEF FolderCreated
  <2>2. FilesView \in View /\ Root \in Dir
    BY ViewAssumption DEF Dir
  <2> QED BY <2>1, <2>2, <1>1, <1>2, GoToRouteOwn
<1> QED BY <1>3, <1>4

\* After an upload the list is fetched again, or stays.
LEMMA UploadedInv ==
    ASSUME Cancelable = View, IInv, NEW n \in Node, Uploaded(n)
    PROVE  IInv'
<1> USE DEF IInv
<1>1. ServerOK' /\ UNCHANGED <<stores, route>>
  BY DEF Uploaded, ServerOK
<1>2. StoresOK' /\ RouteOK'
  BY <1>1 DEF StoresOK, RouteOK, stores, route
<1>3. CASE fetchContent
  BY <1>1, <1>2, <1>3, FetchContentOwn DEF route
<1>4. CASE ~fetchContent
  <2>1. UNCHANGED <<page, stale>>
    BY <1>4 DEF Uploaded
  <2> QED BY <2>1, <1>1, <1>2, PageKept DEF route, PageOK
<1> QED BY <1>3, <1>4

\* A node that was updated replaces the one of the store.
LEMMA NodeUpdatedInv ==
    ASSUME Cancelable = View, IInv, NEW n \in Dir \cup File, NEW fetched \in BOOLEAN,
           NodeUpdated(n, fetched)
    PROVE  IInv'
<1> USE DEF IInv
<1>1. ServerOK' /\ RouteOK' /\ UNCHANGED route
  BY DEF NodeUpdated, ServerOK, RouteOK, route
<1>2. StoresOK'
  BY DEF NodeUpdated, StoresOK
<1>3. CASE fetchContent
  BY <1>1, <1>2, <1>3, FetchContentOwn DEF route
<1>4. CASE ~fetchContent
  <2>1. UNCHANGED <<page, stale>>
    BY <1>4 DEF NodeUpdated
  <2> QED BY <2>1, <1>1, <1>2, PageKept DEF route, PageOK
<1> QED BY <1>3, <1>4

LEMMA NextInv ==
    ASSUME Cancelable = View, IInv, [Next]_vars
    PROVE  IInv'
<1>1. CASE Network
  <2>1. PICK r \in 1..MaxFetch : Answer(r) \/ FetchDone(r) \/ FetchFailed(r)
    BY <1>1 DEF Network
  <2> QED BY <2>1, AnswerInv, FetchDoneInv, FetchFailedInv
<1>2. CASE Events
  <2>1. PICK n \in Node : \/ Serve(n) \/ OperationFailed(n) \/ OtherClient(n)
                         \/ NodeDeleted(n) \/ FolderCreated(n) \/ Uploaded(n)
    BY <1>2 DEF Events
  <2> QED BY <2>1, ServerInv, NodeDeletedInv, FolderCreatedInv, UploadedInv
<1>3. CASE User
  <2>1. CASE \E n \in Node : Delete(n) \/ CreateOrUpload(n)
    BY <2>1, ServerInv
  <2>2. CASE \E n \in Dir \cup File, fetched \in BOOLEAN : NodeUpdated(n, fetched)
    BY <2>2, NodeUpdatedInv
  <2>3. CASE \/ Reload
             \/ \E v \in View : OpenView(v)
             \/ \E f \in Folder : OpenFolder(f)
             \/ \E f \in File : OpenFile(f)
    BY <2>3, NavigationInv
  <2> QED BY <1>3, <2>1, <2>2, <2>3 DEF User
<1>4. CASE UNCHANGED vars
  <2>1. UNCHANGED <<server, op, stores, route, page, stale>>
    BY <1>4 DEF vars
  <2>2. ServerOK' /\ StoresOK' /\ RouteOK'
    BY <2>1 DEF IInv, ServerOK, StoresOK, RouteOK, stores, route
  <2>3. PageOK' /\ Own'
    BY <2>1, PageKept DEF IInv, route, PageOK
  <2> QED BY <2>2, <2>3 DEF IInv
<1> QED BY <1>1, <1>2, <1>3, <1>4 DEF Next

\* The invariant holds when the getContents of every view can be cancelled.
LEMMA Invariant ==
    ASSUME Cancelable = View
    PROVE  Spec => []IInv
<1>1. IInv /\ [Next]_vars => IInv'
  BY NextInv
<1> QED BY <1>1, InitInv, PTL DEF Spec

-----------------------------------------------------------------------------
(***************************************************************************)
(* What the list shows.                                                    *)
(***************************************************************************)
\* The server has no file without its folder.
TreeOK ==
    \A m \in File : Parent[m] \in Folder /\ server[m] = "there" => server[Parent[m]] = "there"

\* What this page has deleted does not come back.
DeletedOK == \A n \in Node : op[n] = "deleted" => server[n] = "gone"

\* A root that was listed is known.
RootOK == ~loading /\ ~error /\ directory = Root => roots[view] # None

Shows == RootOK /\ ListIsCurrent
Current == TreeOK /\ DeletedOK /\ Shows

\* A node the server has in a folder is a file whose folder is there.
LEMMA InFolder ==
    ASSUME TreeOK, NEW v, NEW f \in Folder, NEW m \in Content(v, f)
    PROVE  m \in File /\ Parent[m] = f /\ server[f] = "there"
<1>1. f # Root
  BY TreeAssumption
<1>2. m \in Node /\ server[m] = "there" /\ ParentOf(m) = f
  BY <1>1 DEF Content, There
<1> QED BY <1>1, <1>2 DEF ParentOf, TreeOK, Node

\* A client creates a node in a directory that is there, and removes a folder
\* with what is in it.
LEMMA ServerTree ==
    ASSUME ServerOK, TreeOK, DeletedOK, NEW n \in Node, Create(n) \/ Remove(n)
    PROVE  /\ TreeOK'
           /\ \A m \in Node : server[m] = "gone" => server'[m] = "gone"
           /\ Remove(n) => server'[n] = "gone"
<1>1. CASE Create(n)
  <2>1. /\ server[n] = "unborn" /\ ParentOf(n) \in There \cup {Root}
        /\ server' = [server EXCEPT ![n] = "there"]
    BY <1>1 DEF Create
  <2>2. ~Remove(n)
    BY <2>1 DEF Remove
  <2>3. ASSUME NEW m \in File, Parent[m] \in Folder, server'[m] = "there"
        PROVE  server'[Parent[m]] = "there"
    <3>1. m \in Node /\ Parent[m] \in Node /\ Parent[m] # Root
      BY <2>3, TreeAssumption DEF Node
    <3>2. CASE m = n
      <4>1. Parent[m] \in There
        BY <2>1, <2>3, <3>1, <3>2 DEF ParentOf
      <4> QED BY <2>1, <3>1, <4>1 DEF There, ServerOK
    <3>3. CASE m # n
      <4>1. server[m] = "there"
        BY <2>1, <2>3, <3>1, <3>3 DEF ServerOK
      <4>2. server[Parent[m]] = "there"
        BY <2>3, <4>1 DEF TreeOK
      <4> QED BY <2>1, <3>1, <4>2 DEF ServerOK
    <3> QED BY <3>2, <3>3
  <2> QED BY <2>1, <2>2, <2>3 DEF TreeOK, ServerOK
<1>2. CASE Remove(n)
  <2>1. server' = [m \in Node |-> IF m \in Subtree(n) THEN "gone" ELSE server[m]]
    BY <1>2 DEF Remove
  <2>2. n \in Subtree(n)
    BY DEF Subtree
  <2>3. ASSUME NEW m \in File, Parent[m] \in Folder, server'[m] = "there"
        PROVE  server'[Parent[m]] = "there"
    <3>1. m \in Node /\ Parent[m] \in Node /\ ParentOf(m) = Parent[m]
      BY <2>3 DEF Node, ParentOf
    <3>2. m \notin Subtree(n) /\ server[m] = "there"
      BY <2>1, <2>3, <3>1
    <3>3. Parent[m] # n
      BY <3>1, <3>2 DEF Subtree
    <3>4. ParentOf(Parent[m]) = Root /\ n # Root
      BY <2>3, TreeAssumption DEF ParentOf, Node
    <3>5. Parent[m] \notin Subtree(n)
      BY <3>3, <3>4 DEF Subtree
    <3>6. server[Parent[m]] = "there"
      BY <2>3, <3>2 DEF TreeOK
    <3> QED BY <2>1, <3>1, <3>5, <3>6
  <2> QED BY <2>1, <2>2, <2>3 DEF TreeOK
<1> QED BY <1>1, <1>2

\* Nothing of the tree or of what was deleted is lost in any step.
LEMMA TreeNext ==
    ASSUME ServerOK, TreeOK, DeletedOK, [Next]_vars
    PROVE  TreeOK' /\ DeletedOK'
<1>1. ASSUME UNCHANGED server, \A n \in Node : op'[n] = "deleted" => op[n] = "deleted"
      PROVE  TreeOK' /\ DeletedOK'
  BY <1>1 DEF TreeOK, DeletedOK
<1>2. ASSUME NEW n \in Node, OtherClient(n) PROVE TreeOK' /\ DeletedOK'
  <2>1. (Create(n) \/ Remove(n)) /\ op' = op
    BY <1>2 DEF OtherClient
  <2> QED BY <2>1, ServerTree DEF DeletedOK
<1>3. ASSUME NEW n \in Node, Serve(n) PROVE TreeOK' /\ DeletedOK'
  <2>1. CASE Remove(n) /\ op' = [op EXCEPT ![n] = "deleted"]
    BY <2>1, ServerTree DEF DeletedOK, ServerOK
  <2>2. CASE Create(n) /\ op' = [op EXCEPT ![n] = "created"]
    BY <2>2, ServerTree DEF DeletedOK, ServerOK
  <2> QED BY <1>3, <2>1, <2>2 DEF Serve
<1>4. ASSUME NEW n \in Node,
             \/ OperationFailed(n) \/ NodeDeleted(n) \/ FolderCreated(n) \/ Uploaded(n)
             \/ Delete(n) \/ CreateOrUpload(n)
      PROVE  TreeOK' /\ DeletedOK'
  <2>1. server' = server /\ \E s \in {"none", "deleting", "creating"} : op' = [op EXCEPT ![n] = s]
    BY <1>4 DEF OperationFailed, NodeDeleted, FolderCreated, Uploaded, Delete, CreateOrUpload
  <2> QED BY <2>1, <1>1 DEF ServerOK
<1>5. ASSUME UNCHANGED <<server, op>> PROVE TreeOK' /\ DeletedOK'
  BY <1>5, <1>1
<1>6. CASE Network
  BY <1>5, <1>6 DEF Network, Answer, FetchDone, FetchFailed
<1>7. CASE Events
  BY <1>2, <1>3, <1>4, <1>7 DEF Events
<1>8. CASE User
  BY <1>4, <1>5, <1>8 DEF User, Reload, OpenView, OpenFolder, OpenFile, NodeUpdated
<1>9. CASE UNCHANGED vars
  BY <1>5, <1>9 DEF vars
<1> QED BY <1>6, <1>7, <1>8, <1>9 DEF Next

\* Nothing is claimed of a list that loads.
LEMMA ShowsLoading == ASSUME loading' = TRUE PROVE Shows'
BY DEF Shows, RootOK, ListIsCurrent

\* A step that neither changes the list nor the server.
LEMMA ShowsSame ==
    ASSUME Shows, UNCHANGED <<server, stores, view, directory, page, stale>>
    PROVE  Shows'
BY DEF Shows, RootOK, ListIsCurrent, dirContents, HasCurrentFolder, Content, There, stores, page

LEMMA ShowsRoute ==
    ASSUME Shows, NEW v, NEW d, NEW id, goToRoute(v, d, id),
           <<v, d>> = <<view, directory>> => UNCHANGED <<server, stores>>
    PROVE  Shows'
<1>1. CASE v = view /\ d = directory
  BY <1>1, ShowsSame DEF goToRoute
<1>2. CASE ~(v = view /\ d = directory)
  BY <1>2, ShowsLoading DEF goToRoute, Fetch
<1> QED BY <1>1, <1>2

\* The server changes nodes of which the page is not told.
LEMMA ShowsServer ==
    ASSUME ServerOK, Shows, NEW S, stale' = stale \cup S,
           \A m \in Node \ S : server'[m] = server[m], UNCHANGED <<stores, route, page>>
    PROVE  Shows'
<1>1. dirContents' = dirContents /\ RootOK'
  BY DEF dirContents, HasCurrentFolder, Shows, RootOK, stores, route, page
<1>2. \A m \in Node \ S :
         m \in Content(view, directory)' <=> m \in Content(view, directory)
  BY DEF Content, There, route
<1> QED BY <1>1, <1>2 DEF Shows, ListIsCurrent, page

LEMMA ShowsCreateRemove ==
    ASSUME ServerOK, Shows, NEW n \in Node, Create(n) \/ Remove(n),
           UNCHANGED <<stores, route, page>>
    PROVE  Shows'
<1>1. CASE Create(n)
  <2>1. stale' = stale \cup {n} /\ \A m \in Node \ {n} : server'[m] = server[m]
    BY <1>1 DEF Create, ServerOK
  <2> QED BY <2>1, ShowsServer
<1>2. CASE Remove(n)
  <2>1. stale' = stale \cup Subtree(n) /\ \A m \in Node \ Subtree(n) : server'[m] = server[m]
    BY <1>2 DEF Remove
  <2> QED BY <2>1, ShowsServer
<1> QED BY <1>1, <1>2

\* The only listing that can arrive is the one of what is open; the list is
\* then what the server answered.
LEMMA ShowsFetched ==
    ASSUME IInv, NEW r \in 1..MaxFetch, FetchDone(r)
    PROVE  Shows'
<1> DEFINE q == requests[r]
           c == q.content
<1>1. /\ files' = files \cup c \cup (IF q.dir = Root THEN {} ELSE {q.dir})
      /\ children' = [f \in Folder |-> CASE f = q.dir -> c
                                         [] f # q.dir /\ f \in c -> {}
                                         [] OTHER -> children[f]]
      /\ roots' = IF q.dir = Root THEN [roots EXCEPT ![q.view] = c] ELSE roots
      /\ paths' = [paths EXCEPT ![q.view] = @ \cup Folders(c) \cup ({q.dir} \ {Root})]
      /\ stale' = IF <<q.view, q.dir>> # <<view, directory>> THEN stale
                  ELSE {n \in Node : (n \in c) # (n \in Content(view, directory))}
      /\ UNCHANGED <<server, view, directory>>
  BY DEF FetchDone, route
<1>2. q \in Request /\ q.view = view /\ q.dir = directory
  BY DEF FetchDone, IInv, PageOK, Own, LoadingIsOwn, Live
<1>3. c \subseteq Node /\ c # None /\ view \in View /\ directory \in Dir
  BY <1>2, NoneAssumption DEF Request
<1>4. c \subseteq files' /\ roots \in [View -> (SUBSET Node) \cup {None}]
      /\ paths \in [View -> SUBSET Folder]
  BY <1>1 DEF IInv, StoresOK
<1>5. dirContents' = c /\ (directory = Root => roots'[view] # None)
  <2>1. CASE directory = Root
    <3>1. roots'[view] = c
      BY <1>1, <1>2, <1>3, <1>4, <2>1
    <3>2. HasCurrentFolder'
      BY <1>1, <1>3, <2>1, <3>1 DEF HasCurrentFolder
    <3> QED BY <1>1, <1>3, <1>4, <2>1, <3>1, <3>2 DEF dirContents
  <2>2. CASE directory # Root
    <3>1. directory \in Folder
      BY <1>3, <2>2 DEF Dir
    <3>2. directory \in paths'[view] /\ directory \in files' /\ children'[directory] = c
      BY <1>1, <1>2, <1>3, <1>4, <2>2, <3>1
    <3>3. HasCurrentFolder'
      BY <1>1, <2>2, <3>2 DEF HasCurrentFolder
    <3> QED BY <1>1, <1>4, <2>2, <3>2, <3>3 DEF dirContents
  <2> QED BY <2>1, <2>2
<1>6. Content(view, directory)' = Content(view, directory)
  BY <1>1 DEF Content, There
<1>7. stale' = {n \in Node : (n \in c) # (n \in Content(view, directory))}
  BY <1>1, <1>2
<1>8. RootOK'
  BY <1>1, <1>5 DEF RootOK
<1>9. ASSUME NEW n \in Node \ stale'
      PROVE  n \in dirContents' <=> n \in Content(view, directory)'
  BY <1>5, <1>6, <1>7
<1> QED BY <1>8, <1>9 DEF Shows, ListIsCurrent

\* A deleted node leaves the list, and no other one does.  If it is the open
\* directory, nothing is left to show, and the server has nothing in it.
LEMMA ShowsDeleted ==
    ASSUME IInv, Current, NEW n \in Node, NodeDeleted(n)
    PROVE  Shows'
<1>1. /\ op[n] = "deleted"
      /\ files' = files \ {n} /\ paths' = [paths EXCEPT ![view] = @ \ {n}]
      /\ deleteNodeFromParentChildren(n) /\ UNCHANGED server
  BY DEF NodeDeleted, onDeletedNode
<1>2. ~StillCurrentFolder(n)
  BY <1>1 DEF StillCurrentFolder
<1>3. stale' = stale \ {n} /\ UNCHANGED <<view, directory, page>>
  BY <1>2 DEF NodeDeleted
<1>4. server[n] = "gone"
  BY <1>1 DEF Current, DeletedOK
<1>5. /\ view \in View /\ directory \in Dir /\ n # Root
      /\ roots \in [View -> (SUBSET Node) \cup {None}]
      /\ children \in [Folder -> SUBSET Node] /\ paths \in [View -> SUBSET Folder]
  BY TreeAssumption DEF IInv, RouteOK, StoresOK, Node
<1>6. Content(view, directory)' = Content(view, directory)
  BY <1>1, <1>3 DEF Content, There
<1>7. /\ roots'[view] = None <=> roots[view] = None
      /\ roots[view] # None =>
            \A m \in Node \ {n} : m \in roots'[view] <=> m \in roots[view]
  <2>1. CASE ParentOf(n) = Root /\ roots[view] # None
    <3>1. roots' = [roots EXCEPT ![view] = @ \ {n}]
      BY <1>1, <2>1 DEF deleteNodeFromParentChildren
    <3>2. roots'[view] = roots[view] \ {n} /\ roots[view] \in SUBSET Node
      BY <1>5, <2>1, <3>1
    <3>3. roots'[view] # None
      BY <3>2, NoneAssumption
    <3> QED BY <2>1, <3>2, <3>3
  <2>2. CASE ~(ParentOf(n) = Root /\ roots[view] # None)
    BY <1>1, <2>2 DEF deleteNodeFromParentChildren
  <2> QED BY <2>1, <2>2
<1>8. \A f \in Folder, m \in Node \ {n} : m \in children'[f] <=> m \in children[f]
  BY <1>1, <1>5 DEF deleteNodeFromParentChildren
<1>9. RootOK'
  BY <1>3, <1>7 DEF Current, Shows, RootOK, page
<1>10. n \notin dirContents' /\ n \notin Content(view, directory)
  BY <1>1, <1>4 DEF dirContents, Content, There
<1>11. ASSUME directory = n, NEW m \in Node
       PROVE  m \notin dirContents' /\ m \notin Content(view, directory)
  <2>1. n \in Folder /\ n \notin paths'[view]
    BY <1>1, <1>5, <1>11 DEF Dir
  <2>2. ~HasCurrentFolder'
    BY <1>3, <1>5, <1>11, <2>1 DEF HasCurrentFolder
  <2>3. m \notin Content(view, directory)
    BY <1>4, <1>11, <2>1, InFolder DEF Current
  <2> QED BY <2>2, <2>3 DEF dirContents
<1>12. ASSUME directory # n, NEW m \in Node \ {n}
       PROVE  m \in dirContents' <=> m \in dirContents
  <2>1. CASE directory = Root
    BY <1>1, <1>3, <1>7, <1>12, <2>1 DEF dirContents, HasCurrentFolder
  <2>2. CASE directory # Root
    <3>1. directory \in Folder
      BY <1>5, <2>2 DEF Dir
    <3>2. /\ directory \in paths'[view] <=> directory \in paths[view]
          /\ directory \in files' <=> directory \in files
      BY <1>1, <1>5, <1>12
    <3>3. m \in children'[directory] <=> m \in children[directory]
      BY <1>8, <1>12, <3>1
    <3> QED BY <1>1, <1>3, <1>12, <2>2, <3>2, <3>3 DEF dirContents, HasCurrentFolder
  <2> QED BY <2>1, <2>2
<1>13. ASSUME ~loading, ~error, NEW m \in Node \ (stale \ {n})
       PROVE  m \in dirContents' <=> m \in Content(view, directory)
  <2>1. CASE m = n
    BY <1>10, <2>1
  <2>2. CASE m # n /\ directory = n
    BY <1>11, <2>2
  <2>3. CASE m # n /\ directory # n
    <3>1. m \in dirContents <=> m \in Content(view, directory)
      BY <1>13, <2>3 DEF Current, Shows, ListIsCurrent
    <3> QED BY <1>12, <2>3, <3>1
  <2> QED BY <2>1, <2>2, <2>3
<1>14. ListIsCurrent'
  BY <1>3, <1>6, <1>13 DEF ListIsCurrent, page
<1> QED BY <1>9, <1>14 DEF Shows

\* A new folder is added to the list that is its parent, and any other list is
\* left for that one.
LEMMA ShowsFolder ==
    ASSUME IInv, Current, NEW n \in Node, FolderCreated(n)
    PROVE  Shows'
<1>1. n \in Folder /\ UNCHANGED server /\ onCreatedNode(n)
  BY DEF FolderCreated
<1>2. CASE <<view, directory>> # <<FilesView, Root>>
  BY <1>2, ShowsRoute DEF FolderCreated, Current
<1>3. CASE <<view, directory>> = <<FilesView, Root>>
  <2>1. /\ view = FilesView /\ directory = Root
        /\ stale' = (IF n \in There THEN stale \ {n} ELSE stale \cup {n})
        /\ UNCHANGED <<view, directory, page>>
    BY <1>3 DEF FolderCreated
  <2> SUFFICES ASSUME ~loading, ~error
               PROVE  /\ roots'[view] # None
                      /\ \A m \in Node \ stale' :
                            m \in dirContents' <=> m \in Content(view, directory)
    <3>1. Content(view, directory)' = Content(view, directory)
      BY <1>1, <2>1 DEF Content, There
    <3> QED BY <2>1, <3>1 DEF Shows, RootOK, ListIsCurrent, page
  <2>2. roots[view] # None
    BY <2>1 DEF Current, Shows, RootOK
  <2>3. view \in View /\ roots \in [View -> (SUBSET Node) \cup {None}]
    BY DEF IInv, RouteOK, StoresOK
  <2>4. files' = files \cup {n} /\ roots'[view] = roots[view] \cup {n}
    BY <1>1, <2>2, <2>3 DEF onCreatedNode
  <2>5. roots[view] \cup {n} \in SUBSET Node
    BY <2>2, <2>3
  <2>6. roots'[view] # None
    BY <2>4, <2>5, NoneAssumption
  <2>7. HasCurrentFolder /\ HasCurrentFolder'
    BY <2>1, <2>2, <2>6 DEF HasCurrentFolder
  <2>8. dirContents' = dirContents \cup {n}
    <3>1. dirContents = roots[view] \cap files
      BY <2>1, <2>7 DEF dirContents
    <3>2. dirContents' = roots'[view] \cap files'
      BY <2>1, <2>7 DEF dirContents
    <3> QED BY <2>4, <3>1, <3>2
  <2>9. n \in There => n \in Content(view, directory)
    BY <1>1, <2>1, ViewAssumption, TreeAssumption DEF Content, ParentOf
  <2>10. ASSUME NEW m \in Node \ stale'
         PROVE  m \in dirContents' <=> m \in Content(view, directory)
    <3>1. CASE m = n
      BY <2>1, <2>8, <2>9, <2>10, <3>1
    <3>2. CASE m # n
      <4>1. m \in dirContents <=> m \in Content(view, directory)
        BY <2>1, <2>10, <3>2 DEF Current, Shows, ListIsCurrent
      <4> QED BY <2>8, <3>2, <4>1
    <3> QED BY <3>1, <3>2
  <2> QED BY <2>6, <2>10
<1> QED BY <1>2, <1>3

\* A fetched folder object has lost its children; the list is fetched again if
\* it is the one that is shown.
LEMMA ShowsUpdated ==
    ASSUME IInv, Shows, NEW n \in Dir \cup File, NEW fetched \in BOOLEAN, NodeUpdated(n, fetched)
    PROVE  Shows'
<1>1. CASE HasCurrentFolder /\ n = directory
  BY <1>1, ShowsLoading DEF NodeUpdated, fetchContent, Fetch
<1>2. CASE ~(HasCurrentFolder /\ n = directory)
  <2>1. UNCHANGED <<page, stale, server, files, roots, paths, view, directory>>
    BY <1>2 DEF NodeUpdated, route
  <2>2. directory \in Folder /\ directory # n => children'[directory] = children[directory]
    BY DEF NodeUpdated, IInv, StoresOK
  <2>3. HasCurrentFolder' <=> HasCurrentFolder
    BY <2>1 DEF HasCurrentFolder
  <2>4. directory = Root \/ directory \in Folder
    BY DEF IInv, RouteOK, Dir
  <2>5. dirContents' = dirContents
    BY <1>2, <2>1, <2>2, <2>3, <2>4 DEF dirContents
  <2>6. Content(view, directory)' = Content(view, directory)
    BY <2>1 DEF Content, There
  <2> QED BY <2>1, <2>5, <2>6 DEF Shows, RootOK, ListIsCurrent, page
<1> QED BY <1>1, <1>2

LEMMA ShowsNext ==
    ASSUME IInv, Current, [Next]_vars
    PROVE  Shows'
<1> USE DEF Current
<1>1. ASSUME NEW r \in 1..MaxFetch, Answer(r) PROVE Shows'
  <2>1. loading' = TRUE
    BY <1>1 DEF Answer, IInv, Own, LoadingIsOwn, Live
  <2> QED BY <2>1, ShowsLoading
<1>2. ASSUME NEW r \in 1..MaxFetch, FetchFailed(r) PROVE Shows'
  BY <1>2 DEF FetchFailed, Shows, RootOK, ListIsCurrent
<1>3. CASE Network
  BY <1>1, <1>2, <1>3, ShowsFetched DEF Network
<1>4. ASSUME NEW n \in Node, Serve(n) \/ OtherClient(n) PROVE Shows'
  <2>1. (Create(n) \/ Remove(n)) /\ UNCHANGED <<stores, route, page>>
    BY <1>4 DEF Serve, OtherClient
  <2> QED BY <2>1, ShowsCreateRemove DEF IInv
<1>5. ASSUME NEW n \in Node, OperationFailed(n) \/ Delete(n) \/ CreateOrUpload(n) PROVE Shows'
  BY <1>5, ShowsSame DEF OperationFailed, Delete, CreateOrUpload, route
<1>6. ASSUME NEW n \in Node, Uploaded(n) PROVE Shows'
  <2>1. CASE HasCurrentFolder /\ Parent[n] = directory
    BY <1>6, <2>1, ShowsLoading DEF Uploaded, fetchContent, Fetch
  <2>2. CASE ~(HasCurrentFolder /\ Parent[n] = directory)
    BY <1>6, <2>2, ShowsSame DEF Uploaded, route
  <2> QED BY <2>1, <2>2
<1>7. CASE Events
  BY <1>4, <1>5, <1>6, <1>7, ShowsDeleted, ShowsFolder DEF Events
<1>8. CASE Reload
  BY <1>8, ShowsLoading DEF Reload, fetchContent, Fetch
<1>9. ASSUME NEW v \in View, OpenView(v) PROVE Shows'
  BY <1>9, ShowsRoute DEF OpenView
<1>10. ASSUME NEW f \in Folder, OpenFolder(f) PROVE Shows'
  BY <1>10, ShowsRoute DEF OpenFolder
<1>11. ASSUME NEW f \in File, OpenFile(f) PROVE Shows'
  BY <1>11, ShowsSame DEF OpenFile
<1>12. CASE User
  BY <1>5, <1>8, <1>9, <1>10, <1>11, <1>12, ShowsUpdated DEF User
<1>13. CASE UNCHANGED vars
  BY <1>13, ShowsSame DEF vars, route
<1> QED BY <1>3, <1>7, <1>12, <1>13 DEF Next

LEMMA InitCurrent == Init => Current
<1> SUFFICES ASSUME Init PROVE Current
  OBVIOUS
<1>1. loading = TRUE /\ op = [n \in Node |-> "none"] /\ server \in [Node -> {"unborn", "there"}]
      /\ \A f \in File : Parent[f] \in Folder /\ server[f] = "there" => server[Parent[f]] = "there"
  BY DEF Init
<1> QED BY <1>1 DEF Current, TreeOK, DeletedOK, Shows, RootOK, ListIsCurrent

-----------------------------------------------------------------------------
\* Every state of the file list is well formed: the stores hold nodes of the
\* tree only and the last listing is one that was sent, whatever the views, the
\* nodes and the number of listings.
THEOREM TypeCorrect ==
    ASSUME Cancelable = View
    PROVE  Spec => []TypeOK
<1>1. IInv => TypeOK
  BY TypeParts DEF IInv
<1> QED BY <1>1, Invariant, PTL

\* With cancellable views, the only listing whose answer can still arrive is the
\* last one fetchContent requested, for the view and the directory that are open,
\* and the list shows that it loads.
THEOREM LoadingOwn ==
    ASSUME Cancelable = View
    PROVE  Spec => []LoadingIsOwn
<1>1. IInv => LoadingIsOwn
  BY DEF IInv, Own
<1> QED BY <1>1, Invariant, PTL

\* With cancellable views, the list shows an error exactly when the listing that
\* fetchContent requested last has failed: an older one neither sets nor hides it.
THEOREM ErrorOwn ==
    ASSUME Cancelable = View
    PROVE  Spec => []ErrorIsOwn
<1>1. IInv => ErrorIsOwn
  BY DEF IInv, Own
<1> QED BY <1>1, Invariant, PTL

\* With cancellable views, the list that neither loads nor shows an error has
\* exactly the nodes the server has in the open directory, except for those the
\* server changed since it computed the listing and the page was not told about.
THEOREM ListCurrent ==
    ASSUME Cancelable = View
    PROVE  Spec => []ListIsCurrent
<1>1. IInv /\ Current /\ [Next]_vars => Current'
  BY TreeNext, ShowsNext DEF Current, IInv
<1>2. Current => ListIsCurrent
  BY DEF Current, Shows
<1> QED BY <1>1, <1>2, InitCurrent, Invariant, PTL DEF Spec

=============================================================================
