------------------------------ MODULE FilesList ------------------------------
(***************************************************************************)
(* The file list of the Files app: apps/files/src/views/FilesList.vue with *)
(* the stores it shares with the rest of the app, store/files.ts (the      *)
(* nodes the page knows, and the root folder of every view) and            *)
(* store/paths.ts (which path of a view is which folder).                  *)
(*                                                                         *)
(* The page is single threaded, but nearly every operation waits for the   *)
(* server in the middle: a listing is sent, computed by the server and     *)
(* delivered in three steps, and a deletion, a new folder or an upload is  *)
(* requested, done by the server and announced on the event bus in three   *)
(* steps.  Between any two of them the user navigates, other operations    *)
(* end and other clients change the folder.                                *)
(*                                                                         *)
(* A node is identified with its source (its url): nodes do not move, and  *)
(* a node that was deleted does not come back.  Folders are at the top     *)
(* level.  `stale' is a history variable: the nodes about which the server *)
(* and the last thing the list was told about them may disagree.           *)
(***************************************************************************)
EXTENDS Naturals, FiniteSets

CONSTANTS
    View,        \* the views of the navigation
    FilesView,   \* the view `files'
    Flat,        \* the views whose root is a search (recent, favorites)
    Cancelable,  \* the views whose getContents returns a CancelablePromise
    File, Folder,
    Parent,      \* the folder (or Root) of each file
    Root,        \* the directory '/'
    None,
    MaxFetch     \* bound: the listings one behaviour requests

ASSUME ViewAssumption ==
    FilesView \in View /\ Flat \subseteq View \ {FilesView} /\ Cancelable \subseteq View

ASSUME TreeAssumption ==
    /\ File \cap Folder = {} /\ Root \notin File \cup Folder
    /\ None \notin File \cup Folder /\ Parent \in [File -> Folder \cup {Root}]

ASSUME FetchAssumption == MaxFetch \in Nat \ {0}

Node == File \cup Folder

\* None is no list of children.
ASSUME NoneAssumption == \A S \in SUBSET Node : S # None

Dir == Folder \cup {Root}
ParentOf(n) == IF n \in File THEN Parent[n] ELSE Root

VARIABLES
    server,     \* is the node not created yet, there, or gone?
    op,         \* what this page is doing to the node
    files,      \* files.ts: the nodes of the store
    roots,      \* files.ts: the children of the root of each view, or None
    children,   \* the _children of the folder objects in the store
    paths,      \* paths.ts: the folders each view knows the path of
    view,       \* the active view
    directory,  \* the route: dir
    fileid,     \* the route: fileid
    loading, error,
    promise,    \* the number of the last listing requested
    requests,   \* all listings requested so far
    stale

stores == <<files, roots, children, paths>>
route == <<view, directory, fileid>>
page == <<loading, error, promise, requests>>
vars == <<server, op, stores, route, page, stale>>

Request == [view: View, dir: Dir, content: SUBSET Node,
            state: {"unused", "sent", "answered", "done", "failed", "cancelled"}]

(***************************************************************************)
(* What the server answers to a listing.                                   *)
(***************************************************************************)
There == {n \in Node : server[n] = "there"}

Content(v, d) ==
    IF d = Root /\ v \in Flat THEN There
    ELSE {n \in There : ParentOf(n) = d}

Subtree(n) == {n} \cup {m \in Node : ParentOf(m) = n}

(***************************************************************************)
(* What the list shows.                                                    *)
(***************************************************************************)
\* currentFolder is undefined unless the stores know it.
HasCurrentFolder ==
    IF directory = Root THEN roots[view] # None
    ELSE directory \in paths[view] /\ directory \in files

\* the children of currentFolder that are in the store
dirContents ==
    IF ~HasCurrentFolder THEN {}
    ELSE (IF directory = Root THEN roots[view] ELSE children[directory]) \cap files

(***************************************************************************)
(* Requests: fetchContent cancels the previous promise when it can.  What  *)
(* a cancelled promise waits for is never delivered.                       *)
(***************************************************************************)
Live(r) == r.state \in {"sent", "answered"}

\* Mutant: the previous promise goes on.
CancelNothing(r) == r

Cancel(r) == IF r.view \in Cancelable /\ Live(r)
             THEN [r EXCEPT !.state = "cancelled", !.content = {}] ELSE r

\* fetchContent is called `times' times for directory d of view v.
Fetch(times, v, d) ==
    LET last == promise + times
        sent == [view |-> v, dir |-> d, content |-> {}, state |-> "sent"]
    IN  /\ last \in 1..MaxFetch
        /\ requests' = [r \in 1..MaxFetch |->
                           CASE r = last -> sent
                             [] r \in promise + 1 .. last - 1 -> Cancel(sent)
                             [] r = promise -> Cancel(requests[r])
                             [] OTHER -> requests[r]]
        /\ promise' = last
        /\ loading' = TRUE
        /\ error' = FALSE
        /\ stale' = {}

fetchContent == Fetch(1, view, directory)

\* The watchers of currentView and of directory fetch, each of them.
goToRoute(v, d, id) ==
    /\ view' = v
    /\ directory' = d
    /\ fileid' = id
    /\ CASE v # view /\ d # directory -> Fetch(2, v, d)
         [] v = view /\ d = directory -> UNCHANGED <<page, stale>>
         [] OTHER -> Fetch(1, v, d)

(***************************************************************************)
(* The page is opened on any view and directory.                           *)
(***************************************************************************)
Init ==
    /\ server \in [Node -> {"unborn", "there"}]
    /\ \A f \in File : Parent[f] \in Folder /\ server[f] = "there" => server[Parent[f]] = "there"
    /\ op = [n \in Node |-> "none"]
    /\ files = {}
    /\ roots = [v \in View |-> None]
    /\ children = [f \in Folder |-> {}]
    /\ paths = [v \in View |-> {}]
    /\ view \in View
    /\ directory \in Dir
    /\ fileid = None
    /\ loading = TRUE
    /\ error = FALSE
    /\ promise = 1
    /\ requests = [r \in 1..MaxFetch |->
                      [view |-> view, dir |-> directory, content |-> {},
                       state |-> IF r = 1 THEN "sent" ELSE "unused"]]
    /\ stale = {}

(***************************************************************************)
(* Navigation: the views and breadcrumbs, a folder or a file of the list.  *)
(***************************************************************************)
Reload ==
    /\ fetchContent
    /\ UNCHANGED <<server, op, stores, route>>

OpenView(v) ==
    /\ <<v, Root>> # <<view, directory>>
    /\ goToRoute(v, Root, None)
    /\ UNCHANGED <<server, op, stores>>

OpenFolder(f) ==
    /\ f \in dirContents
    /\ goToRoute(view, f, f)
    /\ UNCHANGED <<server, op, stores>>

OpenFile(f) ==
    /\ f \in dirContents
    /\ fileid # f
    /\ fileid' = f
    /\ UNCHANGED <<server, op, stores, view, directory, page, stale>>

(***************************************************************************)
(* A listing: the server computes it, the page gets it, or it fails.       *)
(***************************************************************************)
Answer(r) ==
    /\ requests[r].state = "sent"
    /\ requests[r].dir \in There \cup {Root}
    /\ requests' = [requests EXCEPT
                        ![r].state = "answered",
                        ![r].content = Content(requests[r].view, requests[r].dir)]
    /\ UNCHANGED <<server, op, stores, route, loading, error, promise, stale>>

\* Mutant: files get a path too.
AllFolders(c) == c

Folders(c) == c \cap Folder

\* The nodes of an answer are new objects: the folders among them have no
\* _children yet.
FetchDone(r) ==
    LET q == requests[r]  c == q.content IN
    /\ q.state = "answered"
    /\ files' = files \cup c \cup (IF q.dir = Root THEN {} ELSE {q.dir})
    /\ children' = [f \in Folder |-> CASE f = q.dir -> c
                                       [] f # q.dir /\ f \in c -> {}
                                       [] OTHER -> children[f]]
    /\ roots' = IF q.dir = Root THEN [roots EXCEPT ![q.view] = c] ELSE roots
    /\ paths' = [paths EXCEPT ![q.view] = @ \cup Folders(c) \cup ({q.dir} \ {Root})]
    /\ loading' = FALSE
    /\ requests' = [requests EXCEPT ![r].state = "done", ![r].content = {}]
    /\ stale' = IF <<q.view, q.dir>> # <<view, directory>> THEN stale
                ELSE {n \in Node : (n \in c) # (n \in Content(view, directory))}
    /\ UNCHANGED <<server, op, route, error, promise>>

\* Mutant: the error is only logged.
FetchFailedSilently(r) ==
    /\ Live(requests[r])
    /\ requests' = [requests EXCEPT ![r].state = "failed", ![r].content = {}]
    /\ loading' = FALSE
    /\ UNCHANGED <<server, op, stores, route, error, promise, stale>>

\* Mutant: loading is only reset after success.
FetchFailedLoading(r) ==
    /\ Live(requests[r])
    /\ requests' = [requests EXCEPT ![r].state = "failed", ![r].content = {}]
    /\ error' = TRUE
    /\ UNCHANGED <<server, op, stores, route, loading, promise, stale>>

FetchFailed(r) ==
    /\ Live(requests[r])
    /\ requests' = [requests EXCEPT ![r].state = "failed", ![r].content = {}]
    /\ error' = TRUE
    /\ loading' = FALSE
    /\ UNCHANGED <<server, op, stores, route, promise, stale>>

(***************************************************************************)
(* The server: other clients, and the requests of this page.               *)
(***************************************************************************)
Create(n) ==
    /\ server[n] = "unborn"
    /\ ParentOf(n) \in There \cup {Root}
    /\ server' = [server EXCEPT ![n] = "there"]
    /\ stale' = stale \cup {n}

Remove(n) ==
    /\ server[n] = "there"
    /\ server' = [m \in Node |-> IF m \in Subtree(n) THEN "gone" ELSE server[m]]
    /\ stale' = stale \cup Subtree(n)

OtherClient(n) ==
    /\ Create(n) \/ Remove(n)
    /\ UNCHANGED <<op, stores, route, page>>

\* The server does what was asked, and the answer is on its way.
Serve(n) ==
    /\ \/ op[n] = "deleting" /\ Remove(n) /\ op' = [op EXCEPT ![n] = "deleted"]
       \/ op[n] = "creating" /\ Create(n) /\ op' = [op EXCEPT ![n] = "created"]
    /\ UNCHANGED <<stores, route, page>>

OperationFailed(n) ==
    /\ op[n] \in {"deleting", "creating"}
    /\ op' = [op EXCEPT ![n] = "none"]
    /\ UNCHANGED <<server, stores, route, page, stale>>

(***************************************************************************)
(* What the page does to nodes: deleteNode, the new folder entry and the   *)
(* uploader.                                                               *)
(***************************************************************************)
Delete(n) ==
    /\ n \in dirContents
    /\ op[n] = "none"
    /\ op' = [op EXCEPT ![n] = "deleting"]
    /\ UNCHANGED <<server, stores, route, page, stale>>

\* A search has no folder to create something in.
canUpload == HasCurrentFolder /\ (directory = Root => view \notin Flat)

CreateOrUpload(n) ==
    /\ canUpload
    /\ server[n] = "unborn"
    /\ op[n] = "none"
    /\ ParentOf(n) = directory
    /\ op' = [op EXCEPT ![n] = "creating"]
    /\ UNCHANGED <<server, stores, route, page, stale>>

(***************************************************************************)
(* files:node:deleted.  The stores subscribed first, the list comes last:  *)
(* its currentFolder is computed from stores that the node has left.       *)
(***************************************************************************)
deleteNodeFromParentChildren(n) ==
    LET parent == ParentOf(n) IN
    /\ roots' = IF parent = Root /\ roots[view] # None
                THEN [roots EXCEPT ![view] = @ \ {n}] ELSE roots
    /\ children' = IF parent \in files \ {n}
                   THEN [children EXCEPT ![parent] = @ \ {n}] ELSE children

\* Mutant: the node stays in the store.
onDeletedNodeKeeps(n) ==
    /\ files' = files
    /\ paths' = [paths EXCEPT ![view] = @ \ {n}]
    /\ deleteNodeFromParentChildren(n)

onDeletedNode(n) ==
    /\ files' = files \ {n}
    /\ paths' = [paths EXCEPT ![view] = @ \ {n}]
    /\ deleteNodeFromParentChildren(n)

StillCurrentFolder(n) == n = directory /\ n \in files'

NodeDeleted(n) ==
    /\ op[n] = "deleted"
    /\ op' = [op EXCEPT ![n] = "none"]
    /\ onDeletedNode(n)
    /\ IF fileid = n /\ StillCurrentFolder(n)
       THEN goToRoute(view, Root, None)
       ELSE /\ fileid' = IF fileid = n THEN None ELSE fileid
            /\ stale' = stale \ {n}
            /\ UNCHANGED <<view, directory, page>>
    /\ UNCHANGED server

(***************************************************************************)
(* files:node:created of a new folder, which is then shown in its parent.  *)
(***************************************************************************)
onCreatedNode(n) ==
    /\ files' = files \cup {n}
    /\ children' = [children EXCEPT ![n] = {}]
    /\ paths' = [paths EXCEPT ![view] = @ \cup {n}]
    /\ roots' = IF roots[view] = None THEN roots ELSE [roots EXCEPT ![view] = @ \cup {n}]

FolderCreated(n) ==
    /\ n \in Folder
    /\ op[n] = "created"
    /\ op' = [op EXCEPT ![n] = "none"]
    /\ onCreatedNode(n)
    /\ IF <<view, directory>> = <<FilesView, Root>>
       THEN /\ fileid' = n
            /\ stale' = IF n \in There THEN stale \ {n} ELSE stale \cup {n}
            /\ UNCHANGED <<view, directory, page>>
       ELSE goToRoute(FilesView, Root, n)
    /\ UNCHANGED server

(***************************************************************************)
(* onUpload: refresh if the upload went to the current folder.             *)
(***************************************************************************)
Uploaded(n) ==
    /\ n \in File
    /\ op[n] = "created"
    /\ op' = [op EXCEPT ![n] = "none"]
    /\ IF HasCurrentFolder /\ Parent[n] = directory THEN fetchContent
       ELSE UNCHANGED <<page, stale>>
    /\ UNCHANGED <<server, stores, route>>

(***************************************************************************)
(* files:node:updated, with a node that was fetched again or with the      *)
(* object of the store itself.                                             *)
(***************************************************************************)
NodeUpdated(n, fetched) ==
    /\ n = Root \/ n \in files
    /\ children' = IF fetched /\ n \in Folder THEN [children EXCEPT ![n] = {}] ELSE children
    /\ IF HasCurrentFolder /\ n = directory THEN fetchContent
       ELSE UNCHANGED <<page, stale>>
    /\ UNCHANGED <<server, op, files, roots, paths, route>>

-----------------------------------------------------------------------------
Network == \E r \in 1..MaxFetch : Answer(r) \/ FetchDone(r) \/ FetchFailed(r)

Events == \E n \in Node :
    \/ Serve(n) \/ OperationFailed(n) \/ OtherClient(n)
    \/ NodeDeleted(n) \/ FolderCreated(n) \/ Uploaded(n)

User ==
    \/ Reload
    \/ \E v \in View : OpenView(v)
    \/ \E f \in Folder : OpenFolder(f)
    \/ \E f \in File : OpenFile(f)
    \/ \E n \in Node : Delete(n) \/ CreateOrUpload(n)
    \/ \E n \in Dir \cup File, fetched \in BOOLEAN : NodeUpdated(n, fetched)

Next == Network \/ Events \/ User

Spec == Init /\ [][Next]_vars

\* The server answers a listing or the connection fails; the page handles
\* what arrives.  Nothing makes the user or another client act.
FairSpec == Spec /\ \A r \in 1..MaxFetch : WF_vars(Answer(r) \/ FetchDone(r) \/ FetchFailed(r))

-----------------------------------------------------------------------------
(***************************************************************************)
(* Properties.                                                             *)
(***************************************************************************)
\* Every variable keeps its shape: the stores only hold nodes of the tree, and
\* the last listing requested is one of those that were sent.
TypeOK ==
    /\ server \in [Node -> {"unborn", "there", "gone"}]
    /\ op \in [Node -> {"none", "deleting", "deleted", "creating", "created"}]
    /\ files \subseteq Node
    /\ roots \in [View -> (SUBSET Node) \cup {None}]
    /\ children \in [Folder -> SUBSET Node]
    /\ paths \in [View -> SUBSET Folder]
    /\ view \in View /\ directory \in Dir
    /\ fileid \in Node \cup {None}
    /\ loading \in BOOLEAN /\ error \in BOOLEAN
    /\ promise \in 1..MaxFetch
    /\ requests \in [1..MaxFetch -> Request]
    /\ stale \subseteq Node

\* While loading is shown an answer is awaited, and it is the answer of the
\* listing requested last, for the view and the directory that are open: no
\* other answer can end the loading, show its error or fill the list.
LoadingIsOwn ==
    \A r \in 1..MaxFetch :
        Live(requests[r]) =>
            /\ loading /\ ~error /\ r = promise
            /\ requests[r].view = view /\ requests[r].dir = directory

\* The error that is shown is the one of the listing requested last, and it is
\* shown as long as nothing else was requested.
ErrorIsOwn == error <=> requests[promise].state = "failed"

\* When the list neither loads nor shows an error, it shows a node if and only
\* if the server has it in the open directory, except for the nodes the server
\* changed after it computed the listing and the page was not told about:
\* answers, deletions, new folders and uploads, in any order and with any
\* navigation between them, leave no other difference.
ListIsCurrent ==
    ~loading /\ ~error =>
        \A n \in Node \ stale : n \in dirContents <=> n \in Content(view, directory)

\* Once the deletion of the open directory was announced, the page has left it
\* (the comment of onNodeDeleted).  The code does not keep to this: see the README.
LeavesDeletedDirectory ==
    [][\A f \in Folder : NodeDeleted(f) => directory' # f]_vars

\* The list does not load forever.
LoadingEnds == loading ~> ~loading

=============================================================================
