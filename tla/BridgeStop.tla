----------------------------- MODULE BridgeStop -----------------------------
(***************************************************************************)
(* Stopping a bridge process (bridge.go: stopVerifiedPID,                  *)
(* openVerifiedHandle, the owned children; pidfd_linux.go) while processes *)
(* exit, are reaped and their pids are used again.  The steps are the      *)
(* system calls, since the world may change between any two of them.       *)
(*                                                                         *)
(* A process has an identity that is never used again, a pid that is, and  *)
(* a kind: a bridge of this session, a ttyd that is not, or anything else. *)
(* The session's lifecycle lock is held while a stop runs, so nobody       *)
(* starts a bridge of this session meanwhile.                              *)
(***************************************************************************)
EXTENDS Naturals, FiniteSets

CONSTANTS Pids, MaxProcesses

ASSUME BridgeAssumption == MaxProcesses \in Nat

VARIABLES
    process,        \* pid -> its process, or NoProcess
    spawned,        \* how many processes there were; the identity of the last
    owned,          \* pid -> the child whose reaped channel it has, or 0
    waiting,        \* the goroutines that wait: [pid, id, at]
    reaped,         \* children whose channel is closed
    stop,           \* the stop under way
    signalled       \* kinds of the processes that were sent a signal

stopVars == <<process, spawned, owned, waiting, reaped, stop, signalled>>

NoProcess == [id |-> 0, kind |-> "none", state |-> "none", child |-> FALSE]
NoStop == [at |-> "idle", pid |-> 0, own |-> 0, handle |-> 0, killed |-> FALSE, target |-> NoProcess]

Exists(id) == \E pid \in Pids : process[pid].id = id
Running(id) == \E pid \in Pids : process[pid].id = id /\ process[pid].state = "running"

-----------------------------------------------------------------------------
(* Processes                                                               *)

Spawn(pid, kind, child) ==
    /\ process[pid] = NoProcess /\ spawned < MaxProcesses
    /\ spawned' = spawned + 1
    /\ process' = [process EXCEPT ![pid] =
                     [id |-> spawned + 1, kind |-> kind, state |-> "running", child |-> child]]

(* The rest of the machine, and bridges that another process started.      *)
SpawnStranger(pid, kind) ==
    /\ kind = "bridge" => stop.at = "idle"
    /\ Spawn(pid, kind, FALSE)
    /\ UNCHANGED <<owned, waiting, reaped, stop, signalled>>

(* start: the child, registerOwned, and the goroutine that waits for it.   *)
(* It may be the bridge of another session, which has its own lock.        *)
StartBridge(pid, kind) ==
    /\ kind = "bridge" => stop.at = "idle"
    /\ Spawn(pid, kind, TRUE)
    /\ owned' = [owned EXCEPT ![pid] = spawned + 1]
    /\ waiting' = waiting \cup {[pid |-> pid, id |-> spawned + 1, at |-> "wait"]}
    /\ UNCHANGED <<reaped, stop, signalled>>

ProcessExits(pid) ==
    /\ process[pid].state = "running"
    /\ process' = [process EXCEPT ![pid].state = "zombie"]
    /\ UNCHANGED <<spawned, owned, waiting, reaped, stop, signalled>>

(* init, or another parent                                                 *)
ReapStranger(pid) ==
    /\ process[pid].state = "zombie" /\ ~process[pid].child
    /\ process' = [process EXCEPT ![pid] = NoProcess]
    /\ UNCHANGED <<spawned, owned, waiting, reaped, stop, signalled>>

(* Wait returns: from here on the pid is free.                             *)
WaitChild(w) ==
    /\ w.at = "wait" /\ process[w.pid].id = w.id /\ process[w.pid].state = "zombie"
    /\ process' = [process EXCEPT ![w.pid] = NoProcess]
    /\ waiting' = (waiting \ {w}) \cup {[w EXCEPT !.at = "close"]}
    /\ UNCHANGED <<spawned, owned, reaped, stop, signalled>>

CloseReaped(w) ==
    /\ w.at = "close"
    /\ reaped' = reaped \cup {w.id}
    /\ waiting' = (waiting \ {w}) \cup {[w EXCEPT !.at = "unregister"]}
    /\ UNCHANGED <<process, spawned, owned, stop, signalled>>

Unregistered(w) == [owned EXCEPT ![w.pid] = IF @ = w.id THEN 0 ELSE @]

UnregisterOwned(w) ==
    /\ w.at = "unregister"
    /\ owned' = Unregistered(w)
    /\ waiting' = waiting \ {w}
    /\ UNCHANGED <<process, spawned, reaped, stop, signalled>>

-----------------------------------------------------------------------------
(* stopVerifiedPID                                                         *)

Go(next) == stop' = next /\ UNCHANGED <<process, spawned, owned, waiting, reaped, signalled>>
Done(result) == Go([stop EXCEPT !.at = result])

(* ownedProcess                                                            *)
BeginStop(pid) ==
    /\ stop.at = "idle"
    /\ Go([NoStop EXCEPT !.at = "open", !.pid = pid, !.own = owned[pid],
                         !.target = process[pid]])

(* A child that cannot be verified has exited: wait until it is reaped.    *)
Unverified == IF stop.own # 0 THEN Done("reap") ELSE Done("nil")

(* openVerifiedHandle: pidfd_open, the executable, the command line, and   *)
(* whether the process behind the handle was there all along.              *)
OpenHandle ==
    /\ stop.at = "open"
    /\ IF process[stop.pid] = NoProcess THEN Unverified
       ELSE Go([stop EXCEPT !.at = "executable", !.handle = process[stop.pid].id])

ReadExecutable ==
    /\ stop.at = "executable"
    /\ IF process[stop.pid].state = "running" /\ process[stop.pid].kind \in {"bridge", "ttyd"}
       THEN Done("command") ELSE Unverified

ReadCommand ==
    /\ stop.at = "command"
    /\ IF process[stop.pid].state = "running" /\ process[stop.pid].kind = "bridge"
       THEN Done("alive") ELSE Unverified

CheckHandle ==
    /\ stop.at = "alive"
    /\ IF Exists(stop.handle) THEN Done("term") ELSE Unverified

(* A signal goes to whoever has the pid.                                   *)
SignalTargetByPid == {pid \in {stop.pid} : process[pid] # NoProcess}

(* A signal goes to the process behind the handle, if there still is one.  *)
SignalTarget == {pid \in Pids : process[pid].id = stop.handle}

Signal(next) ==
    /\ stop' = next
    /\ signalled' = signalled \cup {process[pid].kind : pid \in SignalTarget}
    /\ UNCHANGED <<process, spawned, owned, waiting, reaped>>

SendTerm == stop.at = "term" /\ Signal([stop EXCEPT !.at = "poll"])

(* A zombie is as good as gone unless it is ours to reap.                  *)
ZombieSuffices == stop.own = 0

(* The loop: the reaped channel, the state of the pid, ...                 *)
PollState ==
    /\ stop.at = "poll"
    /\ \/ stop.own # 0 /\ stop.own \in reaped /\ Done("nil")
       \/ /\ stop.own = 0 \/ stop.own \notin reaped
          /\ IF process[stop.pid].state = "zombie"
             THEN \/ ZombieSuffices /\ Done("nil")
                  \/ ~ZombieSuffices /\ Done("error")
             ELSE Done("probe")

(* ... the handle, ...                                                     *)
PollHandle ==
    /\ stop.at = "probe"
    /\ \/ ~Exists(stop.handle) /\ Unverified
       \/ Exists(stop.handle) /\ (Done("poll") \/ Done("error"))

(* ... and SIGKILL at the deadline, once.                                  *)
SendKill ==
    /\ stop.at = "probe" /\ Exists(stop.handle) /\ ~stop.killed
    /\ Signal([stop EXCEPT !.at = "poll", !.killed = TRUE])

(* waitForOwnedReap, with a timeout.                                       *)
WaitReap ==
    /\ stop.at = "reap"
    /\ \/ stop.own \in reaped /\ Done("nil")
       \/ Done("error")

StopReturns ==
    /\ stop.at \in {"nil", "error"}
    /\ Go(NoStop)

StopInit ==
    /\ process = [pid \in Pids |-> NoProcess]
    /\ spawned = 0
    /\ owned = [pid \in Pids |-> 0]
    /\ waiting = {}
    /\ reaped = {}
    /\ stop = NoStop
    /\ signalled = {}

StopNext ==
    \/ \E pid \in Pids :
          \/ \E kind \in {"bridge", "ttyd", "other"} : SpawnStranger(pid, kind)
          \/ \E kind \in {"bridge", "ttyd"} : StartBridge(pid, kind)
          \/ ProcessExits(pid) \/ ReapStranger(pid) \/ BeginStop(pid)
    \/ \E w \in waiting : WaitChild(w) \/ CloseReaped(w) \/ UnregisterOwned(w)
    \/ OpenHandle \/ ReadExecutable \/ ReadCommand \/ CheckHandle \/ SendTerm
    \/ PollState \/ PollHandle \/ SendKill \/ WaitReap \/ StopReturns

StopSpec == StopInit /\ [][StopNext]_stopVars

-----------------------------------------------------------------------------
(* No stranger is ever signalled: not a process that got the pid after the *)
(* scan found a bridge there, and not one that got it between two of the   *)
(* checks.                                                                 *)
OnlyBridgesSignalled == signalled \subseteq {"bridge"}

(* A stop that succeeds leaves nothing behind: the bridge that had the pid *)
(* does not run, and if it was a child of this process it is reaped, so a  *)
(* successor may take its socket and its pid.  This is said of a pid whose *)
(* entry on the books, if it has one, is that bridge's own: between Wait   *)
(* and unregisterOwned the closed channel of an earlier child stands for   *)
(* whoever got its pid.                                                    *)
StopMeansGone ==
    /\ stop.at = "nil" /\ stop.target.kind = "bridge"
    /\ stop.own \in {0, stop.target.id}
    =>
        /\ ~Running(stop.target.id)
        /\ stop.target.child => ~Exists(stop.target.id)

(* Every child is on the books under its pid for as long as it holds it,   *)
(* also when the goroutine of an earlier child with the same pid is late.  *)
ChildrenAreOwned ==
    \A pid \in Pids : process[pid].child => owned[pid] = process[pid].id

(* A stop hits the bridge it was meant for, and it alone, and is over when *)
(* that bridge is (stopVerifiedPID, waitForOwnedReap).                     *)
StopIsExact == OnlyBridgesSignalled /\ StopMeansGone /\ ChildrenAreOwned
=============================================================================
