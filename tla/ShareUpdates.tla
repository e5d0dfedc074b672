---------------------------- MODULE ShareUpdates ----------------------------
(***************************************************************************)
(* Updating one share from the sharing sidebar: queueUpdate, onSyncError   *)
(* and onDelete of apps/files_sharing/src/mixins/SharesMixin.js, and the   *)
(* components that use them on the same Share object: the quick permission *)
(* select, the entry of the share, and the details tab, which is a new     *)
(* component each time it is opened.  The server is updateShare and        *)
(* deleteShare of ShareAPIController.                                      *)
(*                                                                         *)
(* Each component has an update queue of its own, which sends one update   *)
(* at a time.  An update is a function from the names of its properties to *)
(* the values they had when it was queued.  The server reads the share,    *)
(* changes those properties and writes the whole share back.               *)
(*                                                                         *)
(* Three history variables: `last' has what was queued last for each       *)
(* property, `clouded' the properties whose last update failed, lost its   *)
(* answer, or was pending together with an update of another component,    *)
(* and `shaky' says that a toggle of `talk' met such an update, or another *)
(* toggle, or failed without a message.                                    *)
(***************************************************************************)
EXTENDS Naturals, FiniteSets, Sequences, FiniteSetsExt, Functions

CONSTANTS
    Details,     \* the openings of the details tab whose updates may be pending
    Permission,  \* the permissions a share can have
    Password,
    Empty,       \* the password of a share without one
    None,
    MaxPending   \* bound: the updates pending at a time

ASSUME DetailsAssumption == Details \cap {"quick", "entry", None} = {}
ASSUME PasswordAssumption == Empty \in Password /\ None \notin Password
ASSUME PendingAssumption == MaxPending \in Nat \ {0}

Component == Details \cup {"quick", "entry"}

\* talk is sendPasswordByTalk.  The permissions stand for all the properties
\* that the details tab only saves with the others.
Prop == {"permissions", "password", "talk"}
Share == [permissions: Permission, password: Password, talk: BOOLEAN]
HasType(p, v) == CASE p = "permissions" -> v \in Permission
                   [] p = "password" -> v \in Password
                   [] p = "talk" -> v \in BOOLEAN

VARIABLES
    share,        \* the Share object of the page
    newPassword,  \* share.newPassword, or None
    shown,        \* is the share in the list?
    open,         \* the details tab that is open, or None
    deleting,     \* the DELETE request of onDelete
    queue,        \* updateQueue of each component; its head is being sent
    stage,        \* how far the head has got
    read,         \* the share as the server read it for the head
    server,       \* the share of the server, or None
    last, clouded, shaky

page == <<share, newPassword, shown, open>>
sending == <<queue, stage, read>>
history == <<last, clouded, shaky>>
vars == <<page, deleting, sending, server, history>>

Stage == {"idle", "sent", "read", "ok", "refused", "silent", "lost"}

Pending(S) == UNION {UNION {DOMAIN queue[c][i] : i \in DOMAIN queue[c]} : c \in S}
Quiet == \A c \in Component : queue[c] = <<>>

Init ==
    /\ server \in Share
    /\ share = server
    /\ newPassword = None
    /\ shown = TRUE
    /\ open = None
    /\ deleting = "none"
    /\ queue = [c \in Component |-> <<>>]
    /\ stage = [c \in Component |-> "idle"]
    /\ read = [c \in Component |-> None]
    /\ last = server
    /\ clouded = {}
    /\ shaky = FALSE

(***************************************************************************)
(* queueUpdate of component c, called when the Share object is `new'.      *)
(***************************************************************************)
Count == MapThenSumSet(LAMBDA c : Len(queue[c]), Component)

queueUpdate(c, names, new) ==
    LET others == Pending(Component \ {c})
        overlap == IF others = {} THEN {} ELSE others \cup Pending({c}) \cup names
    IN  /\ Count < MaxPending
        /\ share' = new
        /\ queue' = [queue EXCEPT ![c] = Append(@, Restrict(new, names))]
        /\ stage' = IF stage[c] = "idle" THEN [stage EXCEPT ![c] = "sent"] ELSE stage
        /\ last' = [p \in Prop |-> IF p \in names THEN new[p] ELSE last[p]]
        /\ clouded' = (clouded \ names) \cup overlap
        /\ shaky' = (shaky \/ "talk" \in overlap \cup (names \cap Pending({c})))
        /\ UNCHANGED <<read, shown, deleting, server>>

\* What the password becomes when a changed one is saved.
Typed == IF newPassword = None THEN share ELSE [share EXCEPT !.password = newPassword]

(***************************************************************************)
(* The list of shares is covered by the details tab while that is open.    *)
(***************************************************************************)
OnList == shown /\ open = None

\* SharingEntryQuickShareSelect.selectOption
SelectOption(v) ==
    /\ OnList
    /\ queueUpdate("quick", {"permissions"}, [share EXCEPT !.permissions = v])
    /\ UNCHANGED <<newPassword, open>>

\* SharingEntryLink.onMenuClose; the entry has no menu while it deletes.
OnMenuClose ==
    /\ OnList
    /\ deleting # "entry"
    /\ newPassword # None
    /\ queueUpdate("entry", {"password"}, Typed)
    /\ UNCHANGED <<newPassword, open>>

(***************************************************************************)
(* The details tab.  A component that was closed goes on with its queue.   *)
(***************************************************************************)
OpenSharingDetails(c) ==
    /\ OnList
    /\ c \in Details /\ queue[c] = <<>>
    /\ open' = c
    /\ UNCHANGED <<share, newPassword, shown, deleting, sending, server, history>>

\* cancel, and the end of saveShare and of removeShare.
CloseSharingDetails ==
    /\ open # None
    /\ open' = None
    /\ UNCHANGED <<share, newPassword, shown, deleting, sending, server, history>>

\* updateAtomicPermissions, by the check boxes of custom permissions.
UpdateAtomicPermissions(v) ==
    /\ open # None
    /\ share' = [share EXCEPT !.permissions = v]
    /\ UNCHANGED <<newPassword, shown, open, deleting, sending, server, history>>

\* Mutant: an emptied password field counts as a new password.
OnPasswordChangeEmpty(v) ==
    /\ open # None /\ share.password # Empty
    /\ newPassword' = v
    /\ UNCHANGED <<share, shown, open, deleting, sending, server, history>>

\* onPasswordChange of the password field.
OnPasswordChange(v) ==
    /\ open # None /\ share.password # Empty
    /\ newPassword' = IF v = Empty THEN None ELSE v
    /\ UNCHANGED <<share, shown, open, deleting, sending, server, history>>

\* The check box isPasswordProtected, which generates a password.
TogglePassword(v) ==
    /\ open # None
    /\ (v = Empty) # (share.password = Empty)
    /\ share' = [share EXCEPT !.password = v]
    /\ newPassword' = IF v = Empty THEN None ELSE v
    /\ UNCHANGED <<shown, open, deleting, sending, server, history>>

\* onPasswordProtectedByTalkChange
ToggleTalk ==
    /\ open # None /\ share.password # Empty
    /\ queueUpdate(open, {"talk", "password"}, [Typed EXCEPT !.talk = ~share.talk])
    /\ UNCHANGED <<newPassword, open>>

\* saveShare with the permissions v chosen, or kept.
SaveShare(v) ==
    /\ open # None
    /\ queueUpdate(open, {"permissions", "password"},
                   [IF share.password = Empty THEN share ELSE Typed EXCEPT !.permissions = v])
    /\ newPassword' = IF share.password = Empty THEN newPassword ELSE None
    /\ UNCHANGED open

(***************************************************************************)
(* onDelete, of the entry and of the details tab.  It does not look at the *)
(* updates that are pending; only the menu of the entry does.              *)
(***************************************************************************)
OnDelete(c) ==
    /\ deleting = "none"
    /\ \/ c = "entry" /\ OnList /\ stage[c] = "idle"
       \/ c \in Details /\ open = c
    /\ deleting' = c
    /\ UNCHANGED <<page, sending, server, history>>

Delete(done) ==
    /\ deleting \in Component
    /\ server' = IF done THEN None ELSE server
    /\ deleting' = IF done /\ server # None THEN "ok" ELSE "failed"
    /\ UNCHANGED <<page, sending, history>>

Deleted ==
    /\ deleting \in {"ok", "failed"}
    /\ shown' = (shown /\ deleting = "failed")
    /\ deleting' = IF deleting = "ok" THEN "over" ELSE "none"
    /\ UNCHANGED <<share, newPassword, open, sending, server, history>>

(***************************************************************************)
(* updateShare of the server: it reads the share, applies the update and   *)
(* writes every column.  There is no row left to write to if the share was *)
(* deleted in between.                                                     *)
(***************************************************************************)
Answer(c, a) == stage' = [stage EXCEPT ![c] = a]

Read(c) ==
    /\ stage[c] = "sent"
    /\ server # None
    /\ read' = [read EXCEPT ![c] = server]
    /\ Answer(c, "read")
    /\ UNCHANGED <<page, deleting, queue, server, history>>

Write(c) ==
    /\ stage[c] = "read"
    /\ LET update == Head(queue[c])
       IN  server' = IF server = None THEN None
                     ELSE [p \in Prop |-> IF p \in DOMAIN update THEN update[p] ELSE read[c][p]]
    /\ read' = [read EXCEPT ![c] = None]
    /\ Answer(c, "ok")
    /\ UNCHANGED <<page, deleting, queue, history>>

\* The update is refused, with a message or without, or does not arrive.
Refuse(c, a) ==
    /\ stage[c] = "sent"
    /\ Answer(c, a)
    /\ UNCHANGED <<page, deleting, queue, read, server, history>>

\* The answer gets lost.
Lose(c) ==
    /\ stage[c] = "ok"
    /\ Answer(c, "lost")
    /\ UNCHANGED <<page, deleting, queue, read, server, history>>

(***************************************************************************)
(* The page gets the answer, and the queue starts its next update.  A lost *)
(* answer has a message too: the one of the TypeError of updateShare.      *)
(***************************************************************************)
\* Mutant: an answer clears the queue.
DequeueAll(c) ==
    /\ queue' = [queue EXCEPT ![c] = <<>>]
    /\ stage' = [stage EXCEPT ![c] = "idle"]
    /\ UNCHANGED <<read, shown, open, deleting, server, last>>

Dequeue(c) ==
    /\ queue' = [queue EXCEPT ![c] = Tail(@)]
    /\ stage' = [stage EXCEPT ![c] = IF Len(queue[c]) > 1 THEN "sent" ELSE "idle"]
    /\ UNCHANGED <<read, shown, open, deleting, server, last>>

Updated(c) ==
    /\ stage[c] = "ok"
    /\ newPassword' = IF "password" \in DOMAIN Head(queue[c]) THEN None ELSE newPassword
    /\ Dequeue(c)
    /\ UNCHANGED <<share, clouded, shaky>>

\* Mutant: nothing is restored.
onSyncErrorKeeps(names) == share' = IF "talk" \in names THEN share ELSE share

\* onSyncError restores `talk', which is the first of its names.
onSyncError(names) ==
    share' = IF "talk" \in names THEN [share EXCEPT !.talk = ~@] ELSE share

UpdateFailed(c) ==
    LET names == DOMAIN Head(queue[c])
        later == UNION {DOMAIN queue[c][i] : i \in 2..Len(queue[c])}
    IN  /\ stage[c] \in {"refused", "silent", "lost"}
        /\ IF stage[c] = "silent" THEN UNCHANGED share ELSE onSyncError(names)
        /\ clouded' = clouded \cup (names \ later)
        /\ shaky' = (shaky \/ ("talk" \in names /\ stage[c] # "refused"))
        /\ Dequeue(c)
        /\ UNCHANGED newPassword

-----------------------------------------------------------------------------
Use ==
    \/ \E v \in Permission : SelectOption(v) \/ UpdateAtomicPermissions(v) \/ SaveShare(v)
    \/ \E v \in Password : OnPasswordChange(v) \/ TogglePassword(v)
    \/ OnMenuClose \/ ToggleTalk \/ CloseSharingDetails
    \/ \E c \in Component : OpenSharingDetails(c) \/ OnDelete(c)

Network ==
    \/ \E done \in BOOLEAN : Delete(done)
    \/ Deleted
    \/ \E c \in Component :
          \/ Read(c) \/ Write(c) \/ Lose(c) \/ Updated(c) \/ UpdateFailed(c)
          \/ \E a \in {"refused", "silent", "lost"} : Refuse(c, a)

Next == Use \/ Network

Spec == Init /\ [][Next]_vars

-----------------------------------------------------------------------------
(***************************************************************************)
(* Properties.                                                             *)
(***************************************************************************)
\* Every variable keeps its shape, and a queue works on its head as long as it
\* has one.
TypeOK ==
    /\ share \in Share /\ server \in Share \cup {None} /\ last \in Share
    /\ newPassword \in (Password \ {Empty}) \cup {None}
    /\ shown \in BOOLEAN /\ shaky \in BOOLEAN
    /\ open \in Details \cup {None}
    /\ deleting \in Component \cup {"none", "ok", "failed", "over"}
    /\ \A c \in Component :
          /\ stage[c] \in Stage /\ (stage[c] = "idle" <=> queue[c] = <<>>)
          /\ read[c] \in Share \cup {None} /\ (stage[c] = "read" <=> read[c] # None)
          /\ \A i \in DOMAIN queue[c] : \A p \in DOMAIN queue[c][i] : HasType(p, queue[c][i][p])
    /\ clouded \subseteq Prop

\* When nothing is pending the server has, for each property, the value that
\* was queued for it last, unless that update failed or was pending together
\* with one of another component: however the user mixes the components, edits
\* on after queueing and deletes, a queue neither reorders nor loses nor
\* changes what was queued.
LastUpdateWins ==
    server # None /\ Quiet => \A p \in Prop \ clouded : server[p] = last[p]

\* When nothing is pending the page shows `talk' as the server has it, also
\* after updates that failed, unless one was toggled while another one was
\* pending, or failed without a message or with its answer lost (the comment
\* "Restore previous state" of onSyncError).
TalkIsRestored == server # None /\ Quiet /\ ~shaky => share.talk = server.talk

\* There is one queue per share (the comment on updateQueue): no two updates of
\* the share are sent at the same time.  The code does not keep to this: see the
\* README.
OneQueuePerShare == \A c, d \in Component : stage[c] # "idle" /\ stage[d] # "idle" => c = d

=============================================================================
