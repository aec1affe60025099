-------------------------- MODULE HistorySnapshots --------------------------
(***************************************************************************)
(* The snapshot manager of History (snapshot_manager.go) under the HTTP    *)
(* handlers that use it (history_api.go) and the logout and termination    *)
(* handlers that clear it (server.go).                                     *)
(*                                                                         *)
(* The manager's mutex covers one method at a time; a handler calls        *)
(* several, with tmux commands in between, and other requests run there.   *)
(* A step of this module is one call of the manager or one tmux lookup.    *)
(* What a page holds is left to the pagination of pageLocked; here a page  *)
(* is the owner of the snapshot it was cut from.                           *)
(***************************************************************************)
EXTENDS Naturals, FiniteSets, Functions

CONSTANTS
    Requests,           \* goroutines that serve HTTP requests
    Users, Viewers,     \* login scopes and viewer identities
    Refs,               \* public references of managed sessions
    Sizes,              \* [memory, nodes] of the histories captured
    IdleTTL, PerViewer, PerUser, PerProcess,
    ProcessMaxBytes, ProcessMaxNodes,
    MaxTime, MaxSnapshots, MaxGenerations   \* bounds of the model

ASSUME SnapshotAssumption ==
    /\ Sizes \subseteq [memory: Nat, nodes: Nat]
    /\ {IdleTTL, PerViewer, PerUser, PerProcess, ProcessMaxBytes,
        ProcessMaxNodes, MaxTime, MaxSnapshots, MaxGenerations} \subseteq Nat
    /\ MaxGenerations # 0

VARIABLES
    now,
    snapshots,      \* the live snapshots by identity
    memoryUsed, nodesUsed,
    issued,         \* how many identities were drawn; identities are 1..issued
    pane,           \* pane generation of each session, 0 when it is gone
    loggedOut,      \* the scopes that logged out
    terminated,     \* the sessions whose termination has cleared the table
    pc, req,        \* where a request is, and what it carries
    answer          \* the answer of a request: status, and owner of its page

vars == <<now, snapshots, memoryUsed, nodesUsed, issued, pane, loggedOut,
          terminated, pc, req, answer>>

Owner == [user: Users, viewer: Viewers]
Ids == 1..MaxSnapshots
Snapshot == [owner: Owner, ref: Refs, gen: Nat, size: Sizes, last: Nat]

NoOwner == [user |-> "none", viewer |-> "none"]
NoRef == "none"
NoReq == [owner |-> NoOwner, ref |-> NoRef, gen |-> 0, id |-> 0,
          size |-> [memory |-> 0, nodes |-> 0], at |-> 0]

(* ref and gen are the binding a request resolved, id the snapshot it is   *)
(* for, at the time it read before the manager's mutex.                    *)
Req == [owner: Owner \cup {NoOwner}, ref: Refs \cup {NoRef}, gen: Nat, id: Nat,
        size: [memory: Nat, nodes: Nat], at: Nat]

Steps == {"idle", "capture", "stamp", "store", "bind", "bind activity",
          "resolve", "resolve activity", "page", "drop", "delete", "forget"}
Statuses == {"none", "created", "page", "activity", "deleted", "gone",
             "notfound", "refused", "failed", "terminated"}

TypeOK ==
    /\ now \in 0..MaxTime
    /\ DOMAIN snapshots \subseteq 1..issued
    /\ \A id \in DOMAIN snapshots : snapshots[id] \in Snapshot
    /\ memoryUsed \in Nat /\ nodesUsed \in Nat
    /\ issued \in 0..MaxSnapshots
    /\ pane \in [Refs -> 0..MaxGenerations]
    /\ loggedOut \subseteq Users /\ terminated \subseteq Refs
    /\ pc \in [Requests -> Steps]
    /\ req \in [Requests -> Req]
    /\ answer \in [Requests -> [status: Statuses, page: SUBSET Owner]]

Init ==
    /\ now = 0
    /\ snapshots = <<>>
    /\ memoryUsed = 0 /\ nodesUsed = 0
    /\ issued = 0
    /\ pane = [r \in Refs |-> 1]
    /\ loggedOut = {} /\ terminated = {}
    /\ pc = [p \in Requests |-> "idle"]
    /\ req = [p \in Requests |-> NoReq]
    /\ answer = [p \in Requests |-> [status |-> "none", page |-> {}]]

-----------------------------------------------------------------------------
(* The table                                                               *)

Memory(ids) == SumFunctionOnSet([id \in ids |-> snapshots[id].size.memory], ids)
Nodes(ids) == SumFunctionOnSet([id \in ids |-> snapshots[id].size.nodes], ids)

(* The edge of the idle limit counts as expired.                           *)
IdleEarly(t) == {id \in DOMAIN snapshots : snapshots[id].last + IdleTTL <= t}

(* pruneLocked: LastAccess lies before now - IdleTTL.                      *)
Idle(t) == {id \in DOMAIN snapshots : snapshots[id].last + IdleTTL < t}

(* deleteLocked gives the bytes back and not the nodes.                    *)
DeleteNodesKept(gone) ==
    /\ snapshots' = [id \in DOMAIN snapshots \ gone |-> snapshots[id]]
    /\ memoryUsed' = memoryUsed - Memory(gone)
    /\ nodesUsed' = nodesUsed

(* deleteLocked of every snapshot of the set.                              *)
Delete(gone) ==
    /\ snapshots' = [id \in DOMAIN snapshots \ gone |-> snapshots[id]]
    /\ memoryUsed' = memoryUsed - Memory(gone)
    /\ nodesUsed' = nodesUsed - Nodes(gone)

(* pruneLocked, then LastAccess of one snapshot.                           *)
Touch(id) ==
    /\ snapshots' = [s \in DOMAIN snapshots \ Idle(now) |->
          IF s = id THEN [snapshots[s] EXCEPT !.last = now] ELSE snapshots[s]]
    /\ memoryUsed' = memoryUsed - Memory(Idle(now))
    /\ nodesUsed' = nodesUsed - Nodes(Idle(now))

Present(p) == req[p].id \in DOMAIN snapshots \ Idle(now)

(* authorizedLocked: the caller is the login and the viewer that created   *)
(* the snapshot.                                                           *)
Authorized(p) == Present(p) /\ snapshots[req[p].id].owner = req[p].owner

Goto(p, step) == pc' = [pc EXCEPT ![p] = step] /\ UNCHANGED <<req, answer>>

Answers(p, status, page) ==
    /\ pc' = [pc EXCEPT ![p] = "idle"]
    /\ req' = [req EXCEPT ![p] = NoReq]
    /\ answer' = [answer EXCEPT ![p] = [status |-> status, page |-> page]]

(* writeSnapshotLookupError, after the prune of authorizedLocked.          *)
LookupError(p) ==
    /\ ~Authorized(p)
    /\ Delete(Idle(now))
    /\ Answers(p, IF Present(p) THEN "notfound" ELSE "gone", {})

Unstored == UNCHANGED <<snapshots, memoryUsed, nodesUsed, issued>>
World == <<now, pane, loggedOut, terminated>>

-----------------------------------------------------------------------------
(* POST .../history-snapshots                                              *)

Starts(p, step, r) ==
    /\ pc[p] = "idle"
    /\ pc' = [pc EXCEPT ![p] = step]
    /\ req' = [req EXCEPT ![p] = r]
    /\ answer' = [answer EXCEPT ![p] = [status |-> "none", page |-> {}]]
    /\ Unstored
    /\ UNCHANGED World

(* findHistoryPane: some listed session has the pane.                      *)
FindHistoryPane(r) == pane[r] # 0

StartCreate(p, o, r) ==
    /\ o.user \notin loggedOut
    /\ FindHistoryPane(r)
    /\ Starts(p, "capture",
              [NoReq EXCEPT !.owner = o, !.ref = r, !.gen = pane[r]])

(* The capture, under the session's lock, and the parse: refused, stale,   *)
(* over a limit, or done.                                                  *)
Capture(p) ==
    /\ pc[p] = "capture"
    /\ \/ Answers(p, "failed", {})
       \/ /\ pane[req[p].ref] = req[p].gen
          /\ \E size \in Sizes : req' = [req EXCEPT ![p].size = size]
          /\ pc' = [pc EXCEPT ![p] = "stamp"]
          /\ UNCHANGED answer
    /\ Unstored
    /\ UNCHANGED World

(* Create reads the clock before it takes the mutex.                       *)
ReadClock(p) ==
    /\ pc[p] = "stamp"
    /\ pc' = [pc EXCEPT ![p] = "store"]
    /\ req' = [req EXCEPT ![p].at = now]
    /\ Unstored
    /\ UNCHANGED <<now, pane, loggedOut, terminated, answer>>

OfUser(ids, u) == {id \in ids : snapshots[id].owner.user = u}
OfOwner(ids, o) == {id \in ids : snapshots[id].owner = o}

(* There is room for the history of p beside the snapshots ids, when the   *)
(* counters stand at memory and nodes.                                     *)
Room(p, ids, memory, nodes) ==
    /\ Cardinality(OfOwner(ids, req[p].owner)) < PerViewer
    /\ Cardinality(OfUser(ids, req[p].owner.user)) < PerUser
    /\ Cardinality(ids) < PerProcess
    /\ memory + req[p].size.memory <= ProcessMaxBytes
    /\ nodes + req[p].size.nodes <= ProcessMaxNodes

Insert(p, kept) ==
    [id \in kept \cup {issued + 1} |->
        IF id \in kept THEN snapshots[id]
        ELSE [owner |-> req[p].owner, ref |-> req[p].ref, gen |-> req[p].gen,
              size |-> req[p].size, last |-> req[p].at]]

(* The limits are tested before the prune.                                 *)
StoreUnpruned(p) ==
    LET idle == Idle(req[p].at)
        kept == DOMAIN snapshots \ idle
        memory == memoryUsed - Memory(idle)
        nodes == nodesUsed - Nodes(idle)
    IN
    /\ pc[p] = "store"
    /\ \/ /\ Room(p, DOMAIN snapshots, memoryUsed, nodesUsed)
          /\ issued < MaxSnapshots
          /\ issued' = issued + 1
          /\ snapshots' = Insert(p, kept)
          /\ memoryUsed' = memory + req[p].size.memory
          /\ nodesUsed' = nodes + req[p].size.nodes
          /\ Answers(p, "created", {req[p].owner})
       \/ /\ ~Room(p, DOMAIN snapshots, memoryUsed, nodesUsed)
          /\ Delete(idle)
          /\ Answers(p, "refused", {})
          /\ UNCHANGED issued
    /\ UNCHANGED World

(* Create under the mutex: prune, then insert or refuse.  The first page   *)
(* is part of the answer.                                                  *)
Store(p) ==
    LET idle == Idle(req[p].at)
        kept == DOMAIN snapshots \ idle
        memory == memoryUsed - Memory(idle)
        nodes == nodesUsed - Nodes(idle)
    IN
    /\ pc[p] = "store"
    /\ \/ /\ Room(p, kept, memory, nodes)
          /\ issued < MaxSnapshots
          /\ issued' = issued + 1
          /\ snapshots' = Insert(p, kept)
          /\ memoryUsed' = memory + req[p].size.memory
          /\ nodesUsed' = nodes + req[p].size.nodes
          /\ Answers(p, "created", {req[p].owner})
       \/ /\ ~Room(p, kept, memory, nodes)
          /\ Delete(idle)
          /\ Answers(p, "refused", {})
          /\ UNCHANGED issued
    /\ UNCHANGED World

-----------------------------------------------------------------------------
(* GET .../pages, GET and DELETE of a snapshot                             *)

(* A request for an identity somebody was given, with the login and the    *)
(* viewer it comes from.                                                   *)
StartAccess(p, step, o, id) ==
    /\ o.user \notin loggedOut
    /\ Starts(p, step, [NoReq EXCEPT !.owner = o, !.id = id])

(* Binding.                                                                *)
Bind(p, from, to) ==
    /\ pc[p] = from
    /\ \/ LookupError(p)
       \/ /\ Authorized(p)
          /\ Touch(req[p].id)
          /\ pc' = [pc EXCEPT ![p] = to]
          /\ req' = [req EXCEPT ![p].ref = snapshots[req[p].id].ref,
                               ![p].gen = snapshots[req[p].id].gen]
          /\ UNCHANGED answer
    /\ UNCHANGED issued
    /\ UNCHANGED World

PaneResolves(p) == pane[req[p].ref] = req[p].gen

(* resolveSnapshotPane; any error makes the handler delete the snapshot,   *)
(* a stale pane as well as a list of sessions that could not be read.      *)
Resolve(p) ==
    /\ pc[p] = "resolve"
    /\ \/ PaneResolves(p) /\ Goto(p, "page")
       \/ Goto(p, "drop")
    /\ Unstored
    /\ UNCHANGED World

(* The activity handler then reads tmux, which may fail, and answers.      *)
ResolveActivity(p) ==
    /\ pc[p] = "resolve activity"
    /\ \/ PaneResolves(p) /\ \E status \in {"activity", "failed"} : Answers(p, status, {})
       \/ Goto(p, "drop")
    /\ Unstored
    /\ UNCHANGED World

(* Page authorizes once more and cuts the page.                            *)
Page(p) ==
    /\ pc[p] = "page"
    /\ \/ LookupError(p)
       \/ /\ Authorized(p)
          /\ Touch(req[p].id)
          /\ Answers(p, "page", {snapshots[req[p].id].owner})
    /\ UNCHANGED issued
    /\ UNCHANGED World

(* The handlers' Delete of a snapshot whose pane is stale; its error is    *)
(* ignored.                                                                *)
Drop(p) ==
    /\ pc[p] = "drop"
    /\ Delete(Idle(now) \cup IF Authorized(p) THEN {req[p].id} ELSE {})
    /\ Answers(p, "gone", {})
    /\ UNCHANGED issued
    /\ UNCHANGED World

(* DELETE by the viewer that closes History.                               *)
Close(p) ==
    /\ pc[p] = "delete"
    /\ \/ LookupError(p)
       \/ /\ Authorized(p)
          /\ Delete(Idle(now) \cup {req[p].id})
          /\ Answers(p, "deleted", {})
    /\ UNCHANGED issued
    /\ UNCHANGED World

-----------------------------------------------------------------------------
(* Logout, termination, and the world                                      *)

(* handleLogout: DeleteUser; the browser drops the cookie.                 *)
Logout(u) ==
    /\ u \notin loggedOut
    /\ Delete(OfUser(DOMAIN snapshots, u))
    /\ loggedOut' = loggedOut \cup {u}
    /\ UNCHANGED <<now, pane, terminated, issued, pc, req, answer>>

(* handleTerminateSession: under the session's lock tmux is killed, and    *)
(* then the cleanup callback clears the table.                             *)
Terminate(p, r) ==
    /\ pc[p] = "idle"
    /\ pane[r] # 0
    /\ pane' = [pane EXCEPT ![r] = 0]
    /\ pc' = [pc EXCEPT ![p] = "forget"]
    /\ req' = [req EXCEPT ![p] = [NoReq EXCEPT !.ref = r]]
    /\ Unstored
    /\ UNCHANGED <<now, loggedOut, terminated, answer>>

(* The cleanup callback without DeleteSession.                             *)
ForgetNothing(p) ==
    /\ pc[p] = "forget"
    /\ terminated' = terminated \cup {req[p].ref}
    /\ Answers(p, "terminated", {})
    /\ Unstored
    /\ UNCHANGED <<now, pane, loggedOut>>

Forget(p) ==
    /\ pc[p] = "forget"
    /\ Delete({id \in DOMAIN snapshots : snapshots[id].ref = req[p].ref})
    /\ terminated' = terminated \cup {req[p].ref}
    /\ Answers(p, "terminated", {})
    /\ UNCHANGED <<now, pane, loggedOut, issued>>

(* The pane closes and another becomes the active one.                     *)
PaneReplaced(r) ==
    /\ pane[r] \in 1..(MaxGenerations - 1)
    /\ pane' = [pane EXCEPT ![r] = @ + 1]
    /\ Unstored
    /\ UNCHANGED <<now, loggedOut, terminated, pc, req, answer>>

(* The tmux session ends by itself; nobody clears the table.               *)
SessionExits(r) ==
    /\ pane[r] # 0
    /\ pane' = [pane EXCEPT ![r] = 0]
    /\ Unstored
    /\ UNCHANGED <<now, loggedOut, terminated, pc, req, answer>>

Tick ==
    /\ now < MaxTime
    /\ now' = now + 1
    /\ Unstored
    /\ UNCHANGED <<pane, loggedOut, terminated, pc, req, answer>>

Next ==
    \/ \E p \in Requests :
         \/ \E o \in Owner, r \in Refs : StartCreate(p, o, r)
         \/ Capture(p) \/ ReadClock(p) \/ Store(p)
         \/ \E o \in Owner, id \in 1..issued :
               \E step \in {"bind", "bind activity", "delete"} :
                 StartAccess(p, step, o, id)
         \/ Bind(p, "bind", "resolve")
         \/ Bind(p, "bind activity", "resolve activity")
         \/ Resolve(p) \/ ResolveActivity(p)
         \/ Page(p) \/ Drop(p) \/ Close(p)
         \/ \E r \in Refs : Terminate(p, r)
         \/ Forget(p)
    \/ \E u \in Users : Logout(u)
    \/ \E r \in Refs : PaneReplaced(r) \/ SessionExits(r)
    \/ Tick

Spec == Init /\ [][Next]_vars

-----------------------------------------------------------------------------
(* Properties                                                              *)

(* memoryUsed and nodesUsed are the sums over the snapshots in the table:  *)
(* no path of removal forgets to give its share back, or gives it twice.   *)
BudgetsAccounted ==
    /\ memoryUsed = Memory(DOMAIN snapshots)
    /\ nodesUsed = Nodes(DOMAIN snapshots)

(* The configured limits hold of the table at every moment.                *)
LimitsHold ==
    /\ \A o \in Owner : Cardinality(OfOwner(DOMAIN snapshots, o)) <= PerViewer
    /\ \A u \in Users : Cardinality(OfUser(DOMAIN snapshots, u)) <= PerUser
    /\ Cardinality(DOMAIN snapshots) <= PerProcess
    /\ Memory(DOMAIN snapshots) <= ProcessMaxBytes
    /\ Nodes(DOMAIN snapshots) <= ProcessMaxNodes

(* The budgets are exact and kept: what Create compares with the limits is *)
(* what the table takes (Create, deleteLocked).                            *)
BudgetsKept == TypeOK /\ BudgetsAccounted /\ LimitsHold

(* A page goes only to the login and viewer that created its snapshot,     *)
(* whatever identity the request names.                                    *)
OwnerOnly == \A p \in Requests :
    answer'[p].page # answer[p].page => answer'[p].page \subseteq {req[p].owner}

(* Once a logout or a termination has cleared the table, no page of that   *)
(* login or session is served, not even to a request that had passed all   *)
(* its checks before.                                                      *)
NoPageAfterRelease == \A p \in Requests :
    pc[p] = "page" /\ answer'[p].status = "page" =>
        req[p].owner.user \notin loggedOut /\ req[p].ref \notin terminated

(* The pages of a snapshot are its owner's, and nobody's once its login or *)
(* its session is gone (authorizedLocked, handleLogout,                    *)
(* handleTerminateSession).                                                *)
PagesGuarded == [][OwnerOnly /\ NoPageAfterRelease]_vars

(* A snapshot leaves the table only when it has been idle for longer than  *)
(* the limit, when its login logs out, when its session is terminated, or  *)
(* in a request of its own login and viewer that closes it or cannot find  *)
(* its pane: the limits never evict, and nobody else removes it.           *)
OnlyReleased == [][\A id \in DOMAIN snapshots \ DOMAIN snapshots' :
    LET s == snapshots[id] IN
    \/ s.last + IdleTTL < now
    \/ s.owner.user \in loggedOut'
    \/ s.ref \in terminated'
    \/ \E p \in Requests :
         /\ pc[p] \in {"delete", "drop"}
         /\ req[p].id = id /\ req[p].owner = s.owner]_vars

(* Snapshots that have expired never cost a create its place: a create is  *)
(* refused only by snapshots that were in use within the idle limit, and   *)
(* the table holds nothing else afterwards.                                *)
RefusedByActiveOnly == [][\A p \in Requests :
    pc[p] = "store" /\ answer'[p].status = "refused" =>
        /\ \A id \in DOMAIN snapshots' : snapshots[id].last + IdleTTL >= req[p].at
        /\ ~Room(p, DOMAIN snapshots', memoryUsed', nodesUsed')]_vars

(* README.md:732: "Snapshots expire after ten idle minutes, are deleted on *)
(* close/logout/session termination".  After a logout or termination the   *)
(* table holds no snapshot of that login or session.                       *)
ReleaseIsFinal == \A id \in DOMAIN snapshots :
    /\ snapshots[id].owner.user \notin loggedOut
    /\ snapshots[id].ref \notin terminated
=============================================================================
