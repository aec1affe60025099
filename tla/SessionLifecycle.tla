-------------------------- MODULE SessionLifecycle --------------------------
(***************************************************************************)
(* The lifecycle of managed tmux sessions: internal/session (lifecycle.go, *)
(* bridge.go, lock.go) on top of internal/registry.                        *)
(*                                                                         *)
(* Several processes (CLI clients, goroutines of the web server) work on   *)
(* one state directory.  Per session name there is a registry record, a    *)
(* tmux session, any number of ttyd bridge processes, the Unix socket path *)
(* of the bridge and a flock that serialises the operations of the name.   *)
(* An operation is a sequence of steps; between two of them the tmux       *)
(* session or a bridge may exit, somebody may start an unmanaged tmux      *)
(* session, the request's context may be cancelled, and the process may    *)
(* crash, in which case the kernel drops its flock.                        *)
(***************************************************************************)
EXTENDS Naturals, FiniteSets

CONSTANTS
    Proc,       \* processes and goroutines that run lifecycle operations
    Name,       \* canonical session names (registry.ValidID)
    Ref,        \* opaque public references (registry.NewPublicRef)
    Pid,        \* process ids the kernel may give to a ttyd bridge
    FaultSets,  \* what may go wrong together in one behaviour, sets of FaultKind
    None        \* "no process / name / reference / pid"

FaultKind ==
    { "exit",       \* tmux sessions and ttyd bridges exit on their own
      "unmanaged",  \* someone starts a tmux session outside Control Agents
      "cancel",     \* a request's context is cancelled
      "fail",       \* a command or file operation of a forward step fails
      "undo",       \* a command or file operation of a rollback fails
      "crash",      \* a process running an operation dies
      "inherited" } \* the state directory holds old or damaged records

ASSUME NoneAssumption   == None \notin Proc \cup Name \cup Ref \cup Pid
ASSUME FaultsAssumption == FaultSets \subseteq SUBSET FaultKind

VARIABLES
    record,     \* record[n]: sessions/<n>.json
    tmux,       \* tmux[n]: the tmux session called n
    bridge,     \* bridge[pid]: the ttyd process with that pid
    socket,     \* socket[n]: what sockets/<n>.sock is
    lock,       \* lock[n]: who holds the flock on locks/<n>.lock
    pc,         \* pc[p]: the next step of p's operation
    job,        \* job[p]: the operation p runs and its local variables
    faults      \* what may go wrong in this behaviour; it never changes

vars == <<record, tmux, bridge, socket, lock, pc, job, faults>>

-----------------------------------------------------------------------------
(* Registry records (registry.Session) as a read classifies them: no file, *)
(* a file that fails validateCompatible, or a usable record.  ref is None  *)
(* in a record of the earlier wrapper, named says that Name equals ID.     *)

Record == [kind: {"absent", "invalid", "ok"}, ref: Ref \cup {None},
           pid: Pid \cup {None}, named: BOOLEAN]

NoRecord == [kind |-> "absent", ref |-> None, pid |-> None, named |-> FALSE]
InvalidRecord == [kind |-> "invalid", ref |-> None, pid |-> None, named |-> FALSE]

\* validateCanonical: what ReadByPublicRef and a Write accept.
Canonical(rec) == rec.kind = "ok" /\ rec.named /\ rec.ref # None

(* ttyd processes by their command line: the session they attach to, the   *)
(* base path (None: /terminal/<name>), and the attach command: with -E     *)
(* ("safe"), without it ("plain"), or through a relative tmux ("relative").*)
(* bound says that the process has bound its socket path.                  *)

Bridge == [name: Name \cup {None}, base: Ref \cup {None},
           form: {"safe", "plain", "relative"}, bound: BOOLEAN]

NoBridge == [name |-> None, base |-> None, form |-> "safe", bound |-> FALSE]

Running(pid) == bridge[pid] # NoBridge

\* classifyBridgeCommand: bridgeCommandCurrent
Current(n, rec) ==
    {pid \in Pid : /\ bridge[pid].name = n
                   /\ bridge[pid].base = rec.ref
                   /\ bridge[pid].form = "safe"}

\* Mutant of Verified: only the registered process is recognised.
VerifiedRegistered(n, rec) == {pid \in Pid : pid = rec.pid /\ bridge[pid].name = n}

\* classifyBridgeCommand: bridgeCommandCurrent or bridgeCommandLegacy
Verified(n, rec) ==
    {pid \in Pid : /\ bridge[pid].name = n
                   /\ bridge[pid].base \in {rec.ref, None}
                   /\ bridge[pid].form = "relative" => pid = rec.pid}

\* socketReady: a process listens behind the socket path.
SocketReady(n) == socket[n] \in Pid /\ Running(socket[n])

-----------------------------------------------------------------------------
Label == { "idle", "next", "lock", "read", "check", "use", "act", "configure",
           "bridge", "secure", "start", "await", "abort", "environ", "write",
           "cleanup", "remove", "probe", "create", "rollback", "undo",
           "undokill", "stop", "killcheck", "kill" }

\* The steps a process takes while it holds the lifecycle lock of job.name.
Locked == Label \ {"idle", "next", "lock"}

Operation == {"none", "create", "ensure", "reconcile", "use", "terminate"}

Job == [op: Operation,              \* the Manager operation under way
        goal: {"none", "use", "terminate"}, \* what a request does after List
        name: Name \cup {None},     \* sessionID
        expected: Ref \cup {None},  \* the public reference of the request
        managed: Record,            \* the record the operation works on
        fresh: BOOLEAN,             \* managed was made by this create
        pid: Pid \cup {None},       \* the bridge kept or started
        todo: SUBSET Name,          \* List: records still to reconcile
        found: Name \cup {None},    \* List: the session expected refers to
        failed: BOOLEAN,            \* List: some record failed
        cancelled: BOOLEAN]         \* ctx.Done() is closed

NoJob == [op |-> "none", goal |-> "none", name |-> None, expected |-> None,
          managed |-> NoRecord, fresh |-> FALSE, pid |-> None, todo |-> {},
          found |-> None, failed |-> FALSE, cancelled |-> FALSE]

TypeOK ==
    /\ record \in [Name -> Record]
    /\ tmux \in [Name -> {"none", "managed", "unmanaged"}]
    /\ bridge \in [Pid -> Bridge]
    /\ socket \in [Name -> Pid \cup {None, "stale"}]
    /\ lock \in [Name -> Proc \cup {None}]
    /\ pc \in [Proc -> Label]
    /\ job \in [Proc -> Job]

\* A first start, or one on a state directory of an earlier release.
Init ==
    /\ faults \in FaultSets
    /\ record \in [Name -> IF "inherited" \in faults
                           THEN {NoRecord, InvalidRecord}
                                  \cup [kind: {"ok"}, ref: {None}, named: BOOLEAN,
                                        pid: Pid \cup {None}]
                           ELSE {NoRecord}]
    /\ bridge \in [Pid -> IF "inherited" \in faults
                          THEN {NoBridge}
                                 \cup [name: Name, base: {None}, bound: {TRUE},
                                       form: {"plain", "relative"}]
                          ELSE {NoBridge}]
    /\ \E pid \in Pid : bridge[pid] = NoBridge
    /\ tmux \in [Name -> IF "inherited" \in faults THEN {"none", "managed"}
                         ELSE {"none"}]
    /\ socket = [n \in Name |-> None]
    /\ lock = [n \in Name |-> None]
    /\ pc = [p \in Proc |-> "idle"]
    /\ job = [p \in Proc |-> NoJob]

\* NewPublicRef draws 24 random bytes: a reference nothing refers to.
InUse(r) ==
    \/ \E n \in Name : record[n].ref = r
    \/ \E pid \in Pid : bridge[pid].base = r
    \/ \E p \in Proc : r \in {job[p].managed.ref, job[p].expected}

-----------------------------------------------------------------------------
(* Steps of an operation.                                                  *)

Goto(p, label) == pc' = [pc EXCEPT ![p] = label]

\* The operation returns: the deferred lock.Close drops the flock.  Inside
\* List it returns to the loop over the records.
Return(p, failed, found) ==
    /\ lock' = [n \in Name |-> IF lock[n] = p THEN None ELSE lock[n]]
    /\ IF job[p].op = "reconcile"
       THEN /\ Goto(p, "next")
            /\ job' = [job EXCEPT ![p] =
                  [NoJob EXCEPT !.op = "reconcile", !.goal = job[p].goal,
                                !.expected = job[p].expected,
                                !.todo = job[p].todo \ {job[p].name},
                                !.found = found,
                                !.failed = job[p].failed \/ failed,
                                !.cancelled = job[p].cancelled]]
       ELSE /\ Goto(p, "idle")
            /\ job' = [job EXCEPT ![p] = NoJob]

Fail(p) == Return(p, TRUE, job[p].found)
Done(p) == Return(p, FALSE, job[p].found)

Fails == "fail" \in faults
UndoFails == "undo" \in faults

\* A tmux command that is given the request's context fails.
CommandFails(p) == job[p].cancelled \/ Fails

\* The context is cancelled while has-session runs: exec kills the command,
\* Wait reports an ExitError, and HasSession answers (false, nil).
KilledProbe(p) == "cancel" \in faults /\ ~job[p].cancelled

\* Processes in S stop.  A process that exits may leave its socket path
\* behind or unlink the path.
StopBridges(S) ==
    /\ bridge' = [pid \in Pid |-> IF pid \in S THEN NoBridge ELSE bridge[pid]]
    /\ \E unlink \in BOOLEAN :
          socket' = [n \in Name |->
              IF unlink /\ \E pid \in S : bridge[pid].name = n /\ bridge[pid].bound
              THEN None
              ELSE IF socket[n] \in S THEN "stale" ELSE socket[n]]

(* Starting an operation.  A web request on one session first lists the    *)
(* sessions (findPublicSession) and acts on the record that carries its    *)
(* public reference.                                                       *)

StartOn(p, op, n) ==
    /\ pc[p] = "idle"
    /\ op \in {"create", "ensure"}
    /\ job' = [job EXCEPT ![p] = [NoJob EXCEPT !.op = op, !.name = n]]
    /\ Goto(p, "lock")
    /\ UNCHANGED <<record, tmux, bridge, socket, lock>>

\* Reconcile reads the directory without a lock; damaged records are skipped.
StartList(p, goal, r) ==
    /\ pc[p] = "idle"
    /\ IF goal = "none" THEN r = None
       ELSE \E n \in Name : Canonical(record[n]) /\ record[n].ref = r
    /\ job' = [job EXCEPT ![p] =
                  [NoJob EXCEPT !.op = "reconcile", !.goal = goal, !.expected = r,
                                !.todo = {n \in Name : record[n].kind = "ok"}]]
    /\ Goto(p, "next")
    /\ UNCHANGED <<record, tmux, bridge, socket, lock>>

ListNext(p) ==
    /\ pc[p] = "next"
    /\ \E n \in job[p].todo : job' = [job EXCEPT ![p].name = n]
    /\ Goto(p, "lock")
    /\ UNCHANGED <<record, tmux, bridge, socket, lock>>

\* Mutant of ListDone: the public reference is passed on as the session ID.
ListDoneByRef(p) ==
    /\ pc[p] = "next"
    /\ job[p].todo = {}
    /\ IF job[p].found = None
       THEN Goto(p, "idle") /\ job' = [job EXCEPT ![p] = NoJob]
       ELSE /\ Goto(p, "lock")
            /\ job' = [job EXCEPT ![p] = [NoJob EXCEPT !.op = job[p].goal,
                                                      !.name = job[p].expected]]
    /\ UNCHANGED <<record, tmux, bridge, socket, lock>>

\* The list is complete; any failed record fails it, and with it the request.
ListDone(p) ==
    /\ pc[p] = "next"
    /\ job[p].todo = {}
    /\ IF job[p].goal = "none" \/ job[p].failed \/ job[p].found = None
       THEN /\ Goto(p, "idle")
            /\ job' = [job EXCEPT ![p] = NoJob]
       ELSE /\ Goto(p, "lock")
            /\ job' = [job EXCEPT ![p] =
                  [NoJob EXCEPT !.op = job[p].goal, !.name = job[p].found,
                                !.expected = job[p].expected,
                                !.cancelled = job[p].cancelled]]
    /\ UNCHANGED <<record, tmux, bridge, socket, lock>>

\* Mutant of AcquireLock: a shared flock, granted while another is held.
AcquireShared(p) ==
    /\ pc[p] = "lock"
    /\ lock' = [lock EXCEPT ![job[p].name] = p]
    /\ Goto(p, "read")
    /\ UNCHANGED <<record, tmux, bridge, socket, job>>

AcquireLock(p) ==
    /\ pc[p] = "lock"
    /\ lock[job[p].name] = None
    /\ lock' = [lock EXCEPT ![job[p].name] = p]
    /\ Goto(p, "read")
    /\ UNCHANGED <<record, tmux, bridge, socket, job>>

AbandonLock(p) ==
    /\ pc[p] = "lock"
    /\ CommandFails(p)
    /\ Fail(p)
    /\ UNCHANGED <<record, tmux, bridge, socket>>

(* readManaged, and what each operation does with the answer.              *)

\* Mutant of Proceed: the reference is not compared under the lock.
ProceedUnchecked(p, rec) ==
    /\ Goto(p, IF job[p].op = "terminate" THEN "stop" ELSE "check")
    /\ job' = [job EXCEPT ![p].managed = rec]
    /\ UNCHANGED lock

\* After a usable record rec has been read.
Proceed(p, rec) ==
    LET mismatch == job[p].op = "terminate" /\ rec.ref # job[p].expected
    IN  IF mismatch THEN Fail(p)
        ELSE /\ Goto(p, IF job[p].op = "terminate" THEN "stop" ELSE "check")
             /\ job' = [job EXCEPT ![p].managed = rec]
             /\ UNCHANGED lock

ReadManaged(p) ==
    LET n == job[p].name
        rec == record[n]
    IN  /\ pc[p] = "read"
        /\ UNCHANGED <<tmux, bridge, socket>>
        /\ \/ /\ rec.kind # "ok"
              /\ UNCHANGED record
              /\ CASE job[p].op = "create" -> Goto(p, "probe") /\ UNCHANGED <<lock, job>>
                   [] job[p].op = "reconcile" /\ rec.kind = "absent" -> Done(p)
                   [] OTHER -> Fail(p)
           \/ /\ Canonical(rec)
              /\ UNCHANGED record
              /\ Proceed(p, rec)
           \/ /\ rec.kind = "ok" /\ ~Canonical(rec)
              /\ \E r \in Ref :
                    /\ IF rec.ref = None THEN ~InUse(r) ELSE r = rec.ref
                    /\ record' = [record EXCEPT ![n].ref = r, ![n].named = TRUE]
                    /\ \/ Proceed(p, record'[n])
                       \/ Fails /\ Fail(p)
           \/ Fails /\ UNCHANGED record /\ Fail(p)

\* Mutant of CheckAlive: a dead session is reported but not cleaned up.
CheckAliveOnly(p) ==
    /\ pc[p] = "check"
    /\ IF tmux[job[p].name] # "none"
       THEN Goto(p, IF job[p].op = "use" THEN "use" ELSE "configure") /\ UNCHANGED <<lock, job>>
       ELSE Fail(p)
    /\ UNCHANGED <<record, tmux, bridge, socket>>

\* HasSession of the session a record names.
CheckAlive(p) ==
    LET n == job[p].name
    IN  /\ pc[p] = "check"
        /\ UNCHANGED <<record, tmux, bridge, socket>>
        /\ \/ /\ tmux[n] # "none"
              /\ ~job[p].cancelled
              /\ Goto(p, IF job[p].op = "use" THEN "use" ELSE "configure")
              /\ UNCHANGED <<lock, job>>
           \/ /\ tmux[n] = "none"
              /\ ~job[p].cancelled
              /\ Goto(p, "cleanup")
              /\ UNCHANGED <<lock, job>>
           \/ /\ KilledProbe(p)
              /\ job' = [job EXCEPT ![p].cancelled = TRUE]
              /\ Goto(p, "cleanup")
              /\ UNCHANGED lock
           \/ CommandFails(p) /\ Fail(p)

\* Mutant of UseSession: the callback does not compare the reference.
UseUnchecked(p) ==
    /\ pc[p] = "use"
    /\ Goto(p, "act")
    /\ UNCHANGED <<record, tmux, bridge, socket, lock, job>>

\* WithSession's callback (withPublicSession): it compares the reference, and
\* then works on the panes of the tmux session while the lock is held.
UseSession(p) ==
    /\ pc[p] = "use"
    /\ IF job[p].managed.ref = job[p].expected
       THEN Goto(p, "act") /\ UNCHANGED <<lock, job>>
       ELSE Fail(p)
    /\ UNCHANGED <<record, tmux, bridge, socket>>

UseReturns(p) ==
    /\ pc[p] = "act"
    /\ Done(p)
    /\ UNCHANGED <<record, tmux, bridge, socket>>

(* cleanupLocked: stop every verified bridge, then remove the artifacts.   *)

StopVerified(p, next) ==
    LET V == Verified(job[p].name, job[p].managed)
    IN  \/ /\ StopBridges(V)
           /\ Goto(p, next)
           /\ UNCHANGED <<lock, job>>
        \/ /\ V # {}
           /\ CommandFails(p)
           /\ \E S \in SUBSET V : StopBridges(S)
           /\ Fail(p)

Cleanup(p) ==
    /\ pc[p] = "cleanup"
    /\ StopVerified(p, "remove")
    /\ UNCHANGED <<record, tmux>>

\* removeArtifacts: the record goes last, and stays when a file cannot go.
RemoveArtifacts(p) ==
    LET n == job[p].name
    IN  /\ pc[p] = "remove"
        /\ UNCHANGED <<tmux, bridge>>
        /\ \/ /\ record' = [record EXCEPT ![n] = NoRecord]
              /\ socket' = [socket EXCEPT ![n] = None]
              /\ IF job[p].op = "create" /\ ~job[p].fresh
                 THEN /\ Goto(p, "probe")
                      /\ job' = [job EXCEPT ![p].managed = NoRecord]
                      /\ UNCHANGED lock
                 ELSE Done(p)
           \/ /\ IF job[p].fresh THEN UndoFails ELSE Fails
              /\ UNCHANGED record
              /\ \E s \in {None, socket[n]} : socket' = [socket EXCEPT ![n] = s]
              /\ Fail(p)

(* CreateOrSelect on a name without a usable record.                       *)

ProbeName(p) ==
    LET n == job[p].name
    IN  /\ pc[p] = "probe"
        /\ UNCHANGED <<record, tmux, bridge, socket>>
        /\ \/ /\ tmux[n] # "none"
              /\ ~job[p].cancelled
              /\ Fail(p)
           \/ /\ tmux[n] = "none"
              /\ ~job[p].cancelled
              /\ Goto(p, "create")
              /\ UNCHANGED <<lock, job>>
           \/ /\ KilledProbe(p)
              /\ job' = [job EXCEPT ![p].cancelled = TRUE]
              /\ Goto(p, "create")
              /\ UNCHANGED lock
           \/ CommandFails(p) /\ Fail(p)

\* new-session and the options, then NewPublicRef.  new-session fails when the
\* name has been taken since the probe; a later command fails when the
\* context is cancelled or the session exits in between.
CreateManagedSession(p) ==
    LET n == job[p].name
    IN  /\ pc[p] = "create"
        /\ UNCHANGED <<record, bridge, socket, lock>>
        /\ \/ /\ tmux[n] = "none"
              /\ ~job[p].cancelled
              /\ tmux' = [tmux EXCEPT ![n] = "managed"]
              /\ \E r \in Ref :
                    /\ ~InUse(r)
                    /\ job' = [job EXCEPT
                          ![p].managed = [kind |-> "ok", ref |-> r, pid |-> None,
                                          named |-> TRUE],
                          ![p].fresh = TRUE]
              /\ Goto(p, "bridge")
           \/ /\ \/ tmux[n] # "none"
                 \/ CommandFails(p)
                 \/ "exit" \in faults
              /\ UNCHANGED <<tmux, job>>
              /\ Goto(p, "undo")
           \/ /\ tmux[n] = "none"
              /\ ~job[p].cancelled
              /\ Fails \/ "cancel" \in faults
              /\ tmux' = [tmux EXCEPT ![n] = "managed"]
              /\ UNCHANGED job
              /\ Goto(p, "undo")

(* ensureBridgeLocked and processBridge.Ensure.                            *)

\* Mutant of EnsureFailed: a failed create returns without a rollback.
EnsureFailedPlain(p) == Fail(p)

\* bridge.Ensure failed: a create rolls back, any other operation returns.
EnsureFailed(p) ==
    IF job[p].fresh THEN Goto(p, "rollback") /\ UNCHANGED <<lock, job>> ELSE Fail(p)

ConfigureSession(p) ==
    /\ pc[p] = "configure"
    /\ UNCHANGED <<record, tmux, bridge, socket>>
    /\ \/ /\ tmux[job[p].name] # "none"
          /\ ~job[p].cancelled
          /\ Goto(p, "bridge")
          /\ UNCHANGED <<lock, job>>
       \/ /\ tmux[job[p].name] = "none" \/ CommandFails(p)
          /\ Fail(p)

\* Mutant of Keepers: a registered pid is trusted without looking at it.
KeepersTrusting(n, rec) ==
    IF rec.pid # None THEN {rec.pid}
    ELSE IF SocketReady(n) /\ Current(n, rec) # {} THEN Current(n, rec) ELSE {None}

\* reconcilePlan: the registered or else the lowest current process is kept
\* when the socket answers; every other verified process has to go.
Keepers(n, rec) ==
    IF ~SocketReady(n) \/ Current(n, rec) = {} THEN {None}
    ELSE IF rec.pid \in Current(n, rec) THEN {rec.pid} ELSE Current(n, rec)

ReconcileBridges(p) ==
    LET n == job[p].name
        rec == job[p].managed
    IN  /\ pc[p] = "bridge"
        /\ UNCHANGED <<record, tmux>>
        /\ \E keep \in Keepers(n, rec) :
              LET extra == Verified(n, rec) \ {keep}
              IN  \/ /\ StopBridges(extra)
                     /\ Goto(p, IF keep = None THEN "start" ELSE "secure")
                     /\ job' = [job EXCEPT ![p].pid = keep]
                     /\ UNCHANGED lock
                  \/ /\ extra # {}
                     /\ Fails \/ (keep = None /\ job[p].cancelled)
                     /\ \E S \in SUBSET extra : StopBridges(S)
                     /\ EnsureFailed(p)

\* Ensure has a bridge: a new session is recorded, an old one gets its
\* environment restored first.
BridgeReady(p) ==
    /\ Goto(p, IF job[p].fresh THEN "write" ELSE "environ")
    /\ UNCHANGED <<lock, job>>

SecureSocket(p) ==
    /\ pc[p] = "secure"
    /\ UNCHANGED <<record, tmux, bridge, socket>>
    /\ \/ socket[job[p].name] # None /\ BridgeReady(p)
       \/ (socket[job[p].name] = None \/ Fails) /\ EnsureFailed(p)

\* Remove the stale socket path and spawn ttyd; fork fails without a free pid.
StartBridge(p) ==
    LET n == job[p].name
    IN  /\ pc[p] = "start"
        /\ UNCHANGED <<record, tmux>>
        /\ \/ \E pid \in Pid :
                 /\ ~Running(pid)
                 /\ bridge' = [bridge EXCEPT ![pid] =
                       [name |-> n, base |-> job[p].managed.ref, form |-> "safe",
                        bound |-> FALSE]]
                 /\ socket' = [socket EXCEPT ![n] = None]
                 /\ job' = [job EXCEPT ![p].pid = pid]
                 /\ Goto(p, "await")
                 /\ UNCHANGED lock
           \/ /\ Fails \/ \A pid \in Pid : Running(pid)
              /\ UNCHANGED bridge
              /\ \E s \in {None, socket[n]} : socket' = [socket EXCEPT ![n] = s]
              /\ EnsureFailed(p)

\* Wait until the socket answers and the child is the verified bridge, the
\* child has been reaped, or the deadline or the context ends the wait.  A
\* child that is slow to bind is a failure; one whose path was taken from it
\* always meets the deadline.
AwaitBridge(p) ==
    LET n == job[p].name
        mine == job[p].pid \in Current(n, job[p].managed)
    IN  /\ pc[p] = "await"
        /\ UNCHANGED <<record, tmux, bridge, socket>>
        /\ \/ SocketReady(n) /\ mine /\ BridgeReady(p)
           \/ ~mine /\ EnsureFailed(p)
           \/ /\ mine
              /\ \/ CommandFails(p)
                 \/ bridge[job[p].pid].bound /\ ~SocketReady(n)
              /\ Goto(p, "abort")
              /\ UNCHANGED <<lock, job>>

\* stopVerifiedPID with a background context.
AbortBridge(p) ==
    /\ pc[p] = "abort"
    /\ UNCHANGED <<record, tmux>>
    /\ \/ StopBridges({job[p].pid} \cap Verified(job[p].name, job[p].managed))
       \/ UndoFails /\ UNCHANGED <<bridge, socket>>
    /\ EnsureFailed(p)

\* SetSessionEnvironment, and no write when the pid is the registered one.
RestoreEnvironment(p) ==
    /\ pc[p] = "environ"
    /\ UNCHANGED <<record, tmux, bridge, socket>>
    /\ \/ /\ tmux[job[p].name] # "none"
          /\ ~job[p].cancelled
          /\ job[p].pid # job[p].managed.pid
          /\ Goto(p, "write")
          /\ UNCHANGED <<lock, job>>
       \/ /\ tmux[job[p].name] # "none"
          /\ ~job[p].cancelled
          /\ job[p].pid = job[p].managed.pid
          /\ Return(p, FALSE, IF job[p].managed.ref = job[p].expected
                              THEN job[p].name ELSE job[p].found)
       \/ (tmux[job[p].name] = "none" \/ CommandFails(p)) /\ Fail(p)

\* Store.Write replaces the file by a rename; a failure may come before the
\* rename or, from the directory sync, after it.
WriteRecord(p) ==
    LET n == job[p].name
        written == [record EXCEPT ![n] = [job[p].managed EXCEPT !.pid = job[p].pid]]
    IN  /\ pc[p] = "write"
        /\ UNCHANGED <<tmux, bridge, socket>>
        /\ \/ /\ record' = written
              /\ Return(p, FALSE, IF job[p].managed.ref = job[p].expected
                                  THEN n ELSE job[p].found)
           \/ /\ Fails
              /\ record' \in {record, written}
              /\ EnsureFailed(p)

(* cleanupNewSession and killTmuxIfPresent, with a background context.     *)

\* bridge.Stop; its errors are ignored.
Rollback(p) ==
    LET V == Verified(job[p].name, job[p].managed)
    IN  /\ pc[p] = "rollback"
        /\ \E S \in SUBSET V : (S = V \/ UndoFails) /\ StopBridges(S)
        /\ Goto(p, "undo")
        /\ UNCHANGED <<record, tmux, lock, job>>

AfterUndo(p) ==
    IF job[p].fresh THEN Goto(p, "remove") /\ UNCHANGED <<lock, job>> ELSE Fail(p)

UndoCheck(p) ==
    /\ pc[p] = "undo"
    /\ UNCHANGED <<record, tmux, bridge, socket>>
    /\ \/ tmux[job[p].name] # "none" /\ Goto(p, "undokill") /\ UNCHANGED <<lock, job>>
       \/ (tmux[job[p].name] = "none" \/ UndoFails) /\ AfterUndo(p)

UndoKill(p) ==
    /\ pc[p] = "undokill"
    /\ UNCHANGED <<record, bridge, socket>>
    /\ \/ tmux' = [tmux EXCEPT ![job[p].name] = "none"]
       \/ UndoFails /\ UNCHANGED tmux
    /\ AfterUndo(p)

(* TerminateChecked after the reference matched.  verify may refuse.       *)

TerminateStop(p) ==
    /\ pc[p] = "stop"
    /\ UNCHANGED <<record, tmux>>
    /\ \/ StopVerified(p, "killcheck")
       \/ Fail(p) /\ UNCHANGED <<bridge, socket>>

TerminateCheck(p) ==
    LET n == job[p].name
    IN  /\ pc[p] = "killcheck"
        /\ UNCHANGED <<record, tmux, bridge, socket>>
        /\ \/ /\ ~job[p].cancelled
              /\ Goto(p, IF tmux[n] = "none" THEN "remove" ELSE "kill")
              /\ UNCHANGED <<lock, job>>
           \/ /\ KilledProbe(p)
              /\ job' = [job EXCEPT ![p].cancelled = TRUE]
              /\ Goto(p, "remove")
              /\ UNCHANGED lock
           \/ CommandFails(p) /\ Fail(p)

\* Mutant of TerminateKill: a failing kill-session is taken for a dead session.
TerminateKillLoose(p) ==
    /\ pc[p] = "kill"
    /\ \/ tmux' = [tmux EXCEPT ![job[p].name] = "none"]
       \/ Fails /\ UNCHANGED tmux
    /\ Goto(p, "remove")
    /\ UNCHANGED <<record, bridge, socket, lock, job>>

\* kill-session; a killed or failing command may still have reached tmux.
TerminateKill(p) ==
    LET n == job[p].name
    IN  /\ pc[p] = "kill"
        /\ UNCHANGED <<record, bridge, socket>>
        /\ \/ /\ tmux[n] # "none"
              /\ ~job[p].cancelled
              /\ tmux' = [tmux EXCEPT ![n] = "none"]
              /\ Goto(p, "remove")
              /\ UNCHANGED <<lock, job>>
           \/ /\ tmux[n] = "none" \/ CommandFails(p)
              /\ UNCHANGED tmux
              /\ Fail(p)
           \/ /\ "cancel" \in faults \/ Fails
              /\ ~job[p].cancelled
              /\ tmux' = [tmux EXCEPT ![n] = "none"]
              /\ Fail(p)

Step(p) ==
    \/ ListNext(p) \/ ListDone(p) \/ AcquireLock(p) \/ AbandonLock(p)
    \/ ReadManaged(p) \/ CheckAlive(p)
    \/ UseSession(p) \/ UseReturns(p)
    \/ Cleanup(p) \/ RemoveArtifacts(p)
    \/ ProbeName(p) \/ CreateManagedSession(p)
    \/ ConfigureSession(p) \/ ReconcileBridges(p) \/ SecureSocket(p)
    \/ StartBridge(p) \/ AwaitBridge(p) \/ AbortBridge(p)
    \/ RestoreEnvironment(p) \/ WriteRecord(p)
    \/ Rollback(p) \/ UndoCheck(p) \/ UndoKill(p)
    \/ TerminateStop(p) \/ TerminateCheck(p) \/ TerminateKill(p)

-----------------------------------------------------------------------------
(* The environment.                                                        *)

\* A started ttyd listens on its path, over whatever was there.
BridgeBinds(pid) ==
    /\ Running(pid)
    /\ ~bridge[pid].bound
    /\ bridge' = [bridge EXCEPT ![pid].bound = TRUE]
    /\ socket' = [socket EXCEPT ![bridge[pid].name] = pid]
    /\ UNCHANGED <<record, tmux, lock, pc, job>>

BridgeExits(pid) ==
    /\ "exit" \in faults
    /\ Running(pid)
    /\ StopBridges({pid})
    /\ UNCHANGED <<record, tmux, lock, pc, job>>

TmuxExits(n) ==
    /\ "exit" \in faults
    /\ tmux[n] # "none"
    /\ tmux' = [tmux EXCEPT ![n] = "none"]
    /\ UNCHANGED <<record, bridge, socket, lock, pc, job>>

UnmanagedStarts(n) ==
    /\ "unmanaged" \in faults
    /\ tmux[n] = "none"
    /\ tmux' = [tmux EXCEPT ![n] = "unmanaged"]
    /\ UNCHANGED <<record, bridge, socket, lock, pc, job>>

Cancel(p) ==
    /\ "cancel" \in faults
    /\ pc[p] # "idle"
    /\ ~job[p].cancelled
    /\ job' = [job EXCEPT ![p].cancelled = TRUE]
    /\ UNCHANGED <<record, tmux, bridge, socket, lock, pc>>

\* The process dies: its descriptors close, so the kernel drops its flock.
Crash(p) ==
    /\ "crash" \in faults
    /\ pc[p] # "idle"
    /\ lock' = [n \in Name |-> IF lock[n] = p THEN None ELSE lock[n]]
    /\ Goto(p, "idle")
    /\ job' = [job EXCEPT ![p] = NoJob]
    /\ UNCHANGED <<record, tmux, bridge, socket>>

Environment ==
    \/ \E pid \in Pid : BridgeBinds(pid) \/ BridgeExits(pid)
    \/ \E n \in Name : TmuxExits(n) \/ UnmanagedStarts(n)
    \/ \E p \in Proc : Cancel(p) \/ Crash(p)

Request(p) ==
    \/ \E n \in Name, op \in {"create", "ensure"} : StartOn(p, op, n)
    \/ StartList(p, "none", None)
    \/ \E goal \in {"use", "terminate"}, r \in Ref : StartList(p, goal, r)

Next ==
    /\ \/ \E p \in Proc : Request(p) \/ Step(p)
       \/ Environment
    /\ UNCHANGED faults

Spec == Init /\ [][Next]_vars

\* A running operation takes its steps, and a started ttyd binds its socket.
Fairness ==
    /\ \A p \in Proc : WF_vars(Step(p) /\ UNCHANGED faults)
    /\ \A pid \in Pid : WF_vars(BridgeBinds(pid) /\ UNCHANGED faults)

FairSpec == Spec /\ Fairness

-----------------------------------------------------------------------------
(* Correctness.                                                            *)

\* lock.go: whoever works on a name holds its flock, and a process that holds
\* a flock is inside an operation on that name: no return path leaks it.
LockHeld ==
    /\ \A p \in Proc : pc[p] \in Locked => /\ job[p].name \in Name
                                           /\ lock[job[p].name] = p
    /\ \A n \in Name : lock[n] # None => /\ pc[lock[n]] \in Locked
                                        /\ job[lock[n]].name = n

\* The steps after a usable record has been read ...
HoldsRecord(p) == /\ pc[p] \in Locked \ {"read", "probe", "create", "undo", "undokill"}
                  /\ ~job[p].fresh

\* ... and the steps of a create after it found no usable record.
Creating(p) == pc[p] \in {"probe", "create"} \/ (pc[p] \in Locked /\ job[p].fresh)
Undoing(p) == pc[p] \in {"rollback", "undo", "undokill", "remove"}

\* Lifecycle operations act on a copy of the record read after locking.  The
\* copy is the durable record at every later step, and a create meets no
\* usable record but the one its own failed write may have left.
CopyIsCurrent ==
    \A p \in Proc :
        /\ HoldsRecord(p) => record[job[p].name] = job[p].managed
        /\ Creating(p) => \/ record[job[p].name].kind # "ok"
                          \/ /\ job[p].fresh /\ Undoing(p)
                             /\ record[job[p].name].ref = job[p].managed.ref

\* bridge.go Ensure: one public reference never has two ttyd processes, so a
\* browser tab cannot end up behind either of two bridges of one session.
OneBridgePerRef ==
    \A p1, p2 \in Pid :
        /\ bridge[p1].base # None
        /\ bridge[p1].base = bridge[p2].base
        => p1 = p2

\* lifecycle.go WithSession, CreateOrSelect and TerminateChecked implement
\* SessionOwnership: a name passes from one public reference to another only
\* through a removed record, and while a request that withPublicSession let
\* through for a reference works on the session, no other process removes or
\* replaces it.
Ownership == INSTANCE SessionOwnership WITH
    Client <- Proc,
    owner <- [n \in Name |-> IF Canonical(record[n]) THEN record[n].ref ELSE None],
    acting <- [p \in Proc |-> IF pc[p] = "act" THEN job[p].expected ELSE None]

ImplementsOwnership == Ownership!Spec

\* lifecycle.go TerminateChecked: whenever a termination kills the tmux session
\* or removes the record of a name, that record carries the reference the
\* request was authorised for.
TerminateOnlyExpected ==
    [][\A p \in Proc :
         /\ job[p].op = "terminate"
         /\ pc[p] # pc'[p]
         /\ \/ tmux'[job[p].name] # tmux[job[p].name]
            \/ record'[job[p].name] # record[job[p].name]
         => record[job[p].name].ref = job[p].expected]_vars

\* lifecycle.go cleanupLocked and TerminateChecked: a record is only removed
\* once no bridge of its reference runs: nothing could find that bridge
\* again.  (A create that rolls back ignores a bridge that would not stop.)
RecordOutlivesBridge ==
    \A n \in Name :
        /\ record[n].kind = "ok"
        /\ record'[n].kind # "ok"
        => \/ \A pid \in Pid : bridge[pid].base # record[n].ref
           \/ \E p \in Proc : job[p].name = n /\ job[p].fresh

ForgetsLive(n) ==
    record[n].kind = "ok" /\ record'[n].kind # "ok" /\ tmux[n] = "managed"

\* lifecycle.go: a record is not removed while its tmux session runs, whatever
\* forward step fails and whoever crashes, as long as no context is cancelled
\* and the commands of a rollback work.
NeverForgetsLive ==
    faults \cap {"cancel", "undo"} = {} => \A n \in Name : ~ForgetsLive(n)

\* What a removal of a record may leave behind: no tmux session that runs and
\* no bridge that nothing could find again (cleanupLocked, TerminateChecked).
RemovalIsSafe == [][NeverForgetsLive /\ RecordOutlivesBridge]_vars

\* TASKS/done/0001: tmux checks that fail retain the record, a check that a
\* cancelled context cut short included.
FailedCheckRetains == [][\A n \in Name : ~ForgetsLive(n)]_vars

\* lifecycle.go CreateOrSelect, cleanupNewSession: without crashes, whatever
\* step of whatever operation fails and whatever exits meanwhile, once the lock
\* is free a managed tmux session has a record and every ttyd process belongs to
\* that record.
NoOrphans ==
    faults \subseteq {"exit", "fail", "unmanaged"} =>
    \A n \in Name : lock[n] = None =>
        /\ tmux[n] = "managed" => Canonical(record[n])
        /\ \A pid \in Pid : bridge[pid].name = n => pid \in Verified(n, record[n])

\* TASKS/done/0001: a create never modifies an unmanaged tmux session that uses
\* the requested name.
CreateSparesUnmanaged ==
    [][\A p \in Proc :
         /\ job[p].op = "create"
         /\ pc'[p] # pc[p]
         /\ tmux[job[p].name] = "unmanaged"
         => tmux'[job[p].name] = "unmanaged"]_vars

=============================================================================
