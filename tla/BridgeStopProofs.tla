--------------------------- MODULE BridgeStopProofs -------------------------
(***************************************************************************)
(* A stop hits the bridge it was meant for, and only it, for every set of  *)
(* pids and every number of processes.                                     *)
(*                                                                         *)
(* What a stop knows it has read from the pid, at several moments; what it *)
(* relies on is the handle.  The two are tied by the one thing that never  *)
(* comes back, the identity of a process: if the process behind the handle *)
(* still exists, it has had the pid all along, so everything that was read *)
(* of the pid in between was read of that process.                         *)
(***************************************************************************)
EXTENDS BridgeStop, TLAPS

Kinds == {"bridge", "ttyd", "other", "none"}
Process == [id : Nat, kind : Kinds, state : {"running", "zombie", "none"}, child : BOOLEAN]
Checking == {"executable", "command", "alive", "term", "poll", "probe"}
Steps == {"idle", "open", "reap", "nil", "error"} \cup Checking

Types ==
    /\ process \in [Pids -> Process]
    /\ spawned \in Nat
    /\ owned \in [Pids -> Nat]
    /\ waiting \subseteq [pid : Pids, id : Nat, at : {"wait", "close", "unregister"}]
    /\ stop \in [at : Steps, pid : Pids \cup {0}, own : Nat, handle : Nat,
                 killed : BOOLEAN, target : Process]
    /\ stop.at # "idle" => stop.pid \in Pids

(* An identity belongs to one process, and to none that is yet to come.    *)
Identities ==
    /\ \A pid \in Pids :
          /\ process[pid].id <= spawned
          /\ process[pid] = NoProcess <=> process[pid].id = 0
          /\ process[pid].id # 0 => process[pid].state # "none"
    /\ \A p, q \in Pids : process[p].id = process[q].id /\ process[p].id # 0 => p = q

(* Whoever is past Wait, or on the list of the reaped, is gone.            *)
GoneForGood ==
    /\ \A w \in waiting :
          /\ w.id \in 1 .. spawned
          /\ w.at # "wait" => ~Exists(w.id)
    /\ \A id \in reaped : id \in 1 .. spawned /\ ~Exists(id)

(* The process that had the pid when the stop began still has it, with its *)
(* kind, if it exists; a child was on the books when the stop began.       *)
TargetTraced ==
    stop.at # "idle" =>
        /\ stop.target.id <= spawned
        /\ stop.target.id # 0 =>
              \A pid \in Pids : process[pid].id = stop.target.id =>
                  /\ pid = stop.pid
                  /\ process[pid].kind = stop.target.kind
                  /\ process[pid].child = stop.target.child
        /\ stop.target.id = 0 <=> stop.target = NoProcess
        /\ stop.target.child => stop.own = stop.target.id

(* So has the process behind the handle.  If the target still exists, it   *)
(* is that process; once the command line is read, it is a bridge.         *)
HandleTraced ==
    /\ stop.at \in Checking =>
          /\ stop.handle \in 1 .. spawned
          /\ \A pid \in Pids : process[pid].id = stop.handle => pid = stop.pid
          /\ stop.target.id # 0 /\ Exists(stop.target.id) => stop.handle = stop.target.id
    /\ stop.at \in {"alive", "term", "poll", "probe"} =>
          \A pid \in Pids : process[pid].id = stop.handle => process[pid].kind = "bridge"
    /\ stop.at = "reap" => stop.own # 0

IndInv ==
    /\ Types /\ Identities /\ GoneForGood /\ TargetTraced /\ HandleTraced
    /\ StopIsExact

-----------------------------------------------------------------------------
(* The world                                                               *)

(* The stop has not begun and there is no process.                         *)
LEMMA InitOK == StopInit => IndInv
  <1> SUFFICES ASSUME StopInit PROVE IndInv
    OBVIOUS
  <1>1. Types
    BY DEF StopInit, Types, NoStop, NoProcess, Process, Kinds, Steps
  <1>2. Identities /\ GoneForGood
    BY DEF StopInit, Identities, GoneForGood, NoProcess
  <1>3. TargetTraced /\ HandleTraced
    BY DEF StopInit, TargetTraced, HandleTraced, NoStop, Checking
  <1>4. StopIsExact
    BY DEF StopInit, StopIsExact, OnlyBridgesSignalled, StopMeansGone, ChildrenAreOwned,
           NoProcess, NoStop
  <1> QED
    BY <1>1, <1>2, <1>3, <1>4 DEF IndInv

(* A process that still exists is the one it was, but may be a zombie now. *)
NobodyNew == \A pid \in Pids :
    \/ process'[pid] = NoProcess
    \/ /\ process'[pid].id = process[pid].id /\ process'[pid].id # 0
       /\ process'[pid].kind = process[pid].kind
       /\ process'[pid].child = process[pid].child
       /\ process'[pid].state \in {process[pid].state, "zombie"}

(* Processes that exit or are reaped disturb nothing a stop has read.      *)
LEMMA NobodyNewOK ==
    ASSUME IndInv, NobodyNew, process' \in [Pids -> Process],
           UNCHANGED <<spawned, stop, signalled>>
    PROVE  /\ Identities' /\ TargetTraced' /\ HandleTraced'
           /\ OnlyBridgesSignalled' /\ StopMeansGone'
           /\ \A id \in Nat \ {0} : ~Exists(id) => ~Exists(id)'
  <1>1. \A id \in Nat \ {0} : (Exists(id)' => Exists(id)) /\ (Running(id)' => Running(id))
    BY DEF NobodyNew, IndInv, Types, Process, Exists, Running, NoProcess
  <1>2. Identities'
    BY DEF NobodyNew, IndInv, Types, Process, Identities, NoProcess
  <1>3. TargetTraced'
    BY DEF NobodyNew, IndInv, Types, Process, TargetTraced, NoProcess
  <1>4. HandleTraced'
    <2>1. stop.handle \in Nat /\ stop.target.id \in Nat
      BY DEF IndInv, Types, Process
    <2>2. \A id \in Nat \ {0}, pid \in Pids : process'[pid].id = id =>
              process[pid].id = id /\ process'[pid].kind = process[pid].kind
      BY DEF NobodyNew, NoProcess
    <2>3. stop.at \in Checking => stop.handle \in Nat \ {0}
      BY DEF IndInv, HandleTraced, Types
    <2> QED
      BY <1>1, <2>1, <2>2, <2>3 DEF IndInv, HandleTraced, Checking
  <1>5. StopMeansGone'
    <2>1. stop.at = "nil" /\ stop.target.kind = "bridge" => stop.target.id \in Nat \ {0}
      BY DEF IndInv, Types, Process, TargetTraced, NoProcess
    <2> QED
      BY <1>1, <2>1 DEF IndInv, StopIsExact, StopMeansGone
  <1> QED
    BY <1>1, <1>2, <1>3, <1>4, <1>5 DEF IndInv, StopIsExact, OnlyBridgesSignalled

(* A new process has an identity nobody has heard of.                      *)
LEMMA SpawnOK ==
    ASSUME IndInv, NEW pid \in Pids, NEW kind \in {"bridge", "ttyd", "other"},
           NEW child \in BOOLEAN, Spawn(pid, kind, child),
           UNCHANGED <<stop, signalled>>
    PROVE  /\ process' \in [Pids -> Process] /\ spawned' \in Nat
           /\ Identities' /\ TargetTraced' /\ HandleTraced'
           /\ OnlyBridgesSignalled' /\ StopMeansGone'
           /\ \A id \in 1 .. spawned : ~Exists(id) => ~Exists(id)'
  <1> DEFINE new == [id |-> spawned + 1, kind |-> kind, state |-> "running", child |-> child]
  <1>1. /\ process[pid] = NoProcess /\ spawned' = spawned + 1 /\ spawned \in Nat
        /\ process' = [process EXCEPT ![pid] = new]
        /\ process \in [Pids -> Process] /\ process' \in [Pids -> Process]
    BY DEF Spawn, IndInv, Types, Process, Kinds
  <1>2. /\ process'[pid] = new
        /\ \A q \in Pids : q # pid => process'[q] = process[q]
    BY <1>1
  <1>3. \A id \in 1 .. spawned : /\ Exists(id)' <=> Exists(id)
                                 /\ Running(id)' <=> Running(id)
    BY <1>1, <1>2 DEF Exists, Running, NoProcess
  <1>4. Identities'
    <2>1. /\ new # NoProcess /\ new.id = spawned + 1 /\ new.id # 0
          /\ new.state # "none" /\ new.id <= spawned'
      BY <1>1 DEF NoProcess
    <2>2. \A q \in Pids : process[q].id \in Nat /\ process[q].id <= spawned
      BY <1>1 DEF IndInv, Identities, Process
    <2> HIDE DEF new
    <2>3. \A q \in Pids : q # pid => process'[q].id \in Nat /\ process'[q].id < new.id
      BY <1>1, <1>2, <2>1, <2>2
    <2>4. \A q \in Pids : /\ process'[q].id <= spawned'
                          /\ process'[q] = NoProcess <=> process'[q].id = 0
                          /\ process'[q].id # 0 => process'[q].state # "none"
      <3>1. spawned' = spawned + 1
        BY <1>1
      <3> QED
        BY <1>1, <1>2, <2>1, <2>2, <3>1 DEF IndInv, Identities
    <2>5. \A p, q \in Pids : process'[p].id = process'[q].id /\ process'[p].id # 0 => p = q
      BY <1>1, <1>2, <2>1, <2>3 DEF IndInv, Identities
    <2> QED
      BY <2>4, <2>5 DEF Identities
  <1>5. TargetTraced'
    BY <1>1, <1>2 DEF IndInv, Types, TargetTraced, Process
  <1>6. HandleTraced'
    <2>1. stop.at # "idle" => stop.target.id \in 0 .. spawned
      BY <1>1 DEF IndInv, Types, TargetTraced, Process
    <2>2. stop.handle \in Nat /\ new.id = spawned + 1 /\ stop' = stop
      BY <1>1 DEF IndInv, Types
    <2>3. \A id \in 1 .. spawned, q \in Pids : process'[q].id = id =>
              process[q].id = id /\ process'[q].kind = process[q].kind
      BY <1>1, <1>2, <2>2
    <2>4. \A id \in 1 .. spawned : Exists(id)' => Exists(id)
      BY <1>3
    <2> HIDE DEF new
    <2> QED
      BY <1>1, <2>1, <2>2, <2>3, <2>4 DEF IndInv, HandleTraced, Checking
  <1>7. StopMeansGone'
    <2>1. stop.at = "nil" /\ stop.target.kind = "bridge" => stop.target.id \in 1 .. spawned
      BY <1>1 DEF IndInv, Types, Process, TargetTraced, NoProcess
    <2> QED
      BY <1>3, <2>1 DEF IndInv, StopIsExact, StopMeansGone
  <1> QED
    BY <1>1, <1>3, <1>4, <1>5, <1>6, <1>7 DEF IndInv, StopIsExact, OnlyBridgesSignalled

(* A process that is none of ours starts.                                  *)
LEMMA SpawnStrangerOK ==
    ASSUME IndInv, NEW pid \in Pids, NEW kind \in {"bridge", "ttyd", "other"},
           SpawnStranger(pid, kind)
    PROVE  IndInv'
  <1>1. Spawn(pid, kind, FALSE) /\ UNCHANGED <<owned, waiting, reaped, stop, signalled>>
    BY DEF SpawnStranger
  <1>2. /\ process' \in [Pids -> Process] /\ spawned' \in Nat
        /\ Identities' /\ TargetTraced' /\ HandleTraced'
        /\ OnlyBridgesSignalled' /\ StopMeansGone'
        /\ \A id \in 1 .. spawned : ~Exists(id) => ~Exists(id)'
    BY <1>1, SpawnOK, Zenon
  <1>3. Types'
    BY <1>1, <1>2 DEF IndInv, Types
  <1>4. GoneForGood'
    BY <1>1, <1>2 DEF IndInv, GoneForGood, Spawn, Types
  <1>5. ChildrenAreOwned'
    BY <1>1 DEF IndInv, StopIsExact, ChildrenAreOwned, Spawn, Types
  <1> QED
    BY <1>2, <1>3, <1>4, <1>5 DEF IndInv, StopIsExact

(* A child starts and is on the books at once.                             *)
LEMMA StartBridgeOK ==
    ASSUME IndInv, NEW pid \in Pids, NEW kind \in {"bridge", "ttyd"}, StartBridge(pid, kind)
    PROVE  IndInv'
  <1>1. /\ Spawn(pid, kind, TRUE) /\ UNCHANGED <<reaped, stop, signalled>>
        /\ owned' = [owned EXCEPT ![pid] = spawned + 1]
        /\ waiting' = waiting \cup {[pid |-> pid, id |-> spawned + 1, at |-> "wait"]}
        /\ spawned \in Nat /\ kind \in {"bridge", "ttyd", "other"}
    BY DEF StartBridge, IndInv, Types
  <1>2. /\ process' \in [Pids -> Process] /\ spawned' \in Nat
        /\ Identities' /\ TargetTraced' /\ HandleTraced'
        /\ OnlyBridgesSignalled' /\ StopMeansGone'
        /\ \A id \in 1 .. spawned : ~Exists(id) => ~Exists(id)'
    BY <1>1, SpawnOK, Zenon
  <1>3. Types'
    <2>1. owned' \in [Pids -> Nat]
      BY <1>1 DEF IndInv, Types
    <2>2. waiting' \subseteq [pid : Pids, id : Nat, at : {"wait", "close", "unregister"}]
      BY <1>1 DEF IndInv, Types
    <2> QED
      BY <1>1, <1>2, <2>1, <2>2 DEF IndInv, Types
  <1>4. GoneForGood'
    BY <1>1, <1>2 DEF IndInv, GoneForGood, Spawn, Types
  <1>5. ChildrenAreOwned'
    BY <1>1 DEF IndInv, StopIsExact, ChildrenAreOwned, Spawn, Types
  <1> QED
    BY <1>2, <1>3, <1>4, <1>5 DEF IndInv, StopIsExact

(* A process exits, or a stranger is reaped.                               *)
LEMMA ExitOK ==
    ASSUME IndInv, NEW pid \in Pids, ProcessExits(pid) \/ ReapStranger(pid)
    PROVE  IndInv'
  <1>1. /\ \/ process[pid].state = "running" /\ process' = [process EXCEPT ![pid].state = "zombie"]
           \/ process' = [process EXCEPT ![pid] = NoProcess]
        /\ UNCHANGED <<spawned, owned, waiting, reaped, stop, signalled>>
    BY DEF ProcessExits, ReapStranger
  <1>2. process \in [Pids -> Process] /\ process' \in [Pids -> Process]
    <2>1. process \in [Pids -> Process]
      BY DEF IndInv, Types
    <2>2. NoProcess \in Process /\ [process[pid] EXCEPT !.state = "zombie"] \in Process
      BY <2>1 DEF Process, NoProcess, Kinds
    <2> QED
      BY <1>1, <2>1, <2>2
  <1>3. NobodyNew
    <2>1. \A q \in Pids : process[q] = NoProcess \/ process[q].id # 0
      BY DEF IndInv, Identities
    <2> QED
      BY <1>1, <1>2, <2>1 DEF NobodyNew, Process, NoProcess
  <1>4. /\ Identities' /\ TargetTraced' /\ HandleTraced'
        /\ OnlyBridgesSignalled' /\ StopMeansGone'
        /\ \A id \in Nat \ {0} : ~Exists(id) => ~Exists(id)'
    BY <1>1, <1>2, <1>3, NobodyNewOK
  <1>5. Types' /\ GoneForGood'
    BY <1>1, <1>2, <1>4 DEF IndInv, Types, GoneForGood
  <1>6. ChildrenAreOwned'
    BY <1>1, <1>3 DEF IndInv, StopIsExact, ChildrenAreOwned, NobodyNew, NoProcess
  <1> QED
    BY <1>4, <1>5, <1>6 DEF IndInv, StopIsExact

(* Wait returns for a child that exited: its pid is free.                  *)
LEMMA WaitChildOK ==
    ASSUME IndInv, NEW w \in waiting, WaitChild(w)
    PROVE  IndInv'
  <1> DEFINE v == [w EXCEPT !.at = "close"]
  <1>1. /\ w.at = "wait" /\ process[w.pid].id = w.id
        /\ process' = [process EXCEPT ![w.pid] = NoProcess]
        /\ waiting' = (waiting \ {w}) \cup {v}
        /\ UNCHANGED <<spawned, owned, reaped, stop, signalled>>
    BY DEF WaitChild
  <1>2. /\ w.pid \in Pids /\ w.id \in 1 .. spawned
        /\ v \in [pid : Pids, id : Nat, at : {"wait", "close", "unregister"}]
        /\ v.id = w.id
    BY DEF IndInv, Types, GoneForGood
  <1>3. process \in [Pids -> Process] /\ process' \in [Pids -> Process]
    BY <1>1 DEF IndInv, Types, Process, NoProcess, Kinds
  <1>4. NobodyNew
    <2>1. \A q \in Pids : process[q] = NoProcess \/ process[q].id # 0
      BY DEF IndInv, Identities
    <2> QED
      BY <1>1, <1>3, <2>1 DEF NobodyNew, Process, NoProcess
  <1>5. /\ Identities' /\ TargetTraced' /\ HandleTraced'
        /\ OnlyBridgesSignalled' /\ StopMeansGone'
        /\ \A id \in Nat \ {0} : ~Exists(id) => ~Exists(id)'
    BY <1>1, <1>3, <1>4, NobodyNewOK
  <1>6. Types'
    <2> HIDE DEF v
    <2> QED
      BY <1>1, <1>2, <1>3 DEF IndInv, Types
  <1>7. GoneForGood'
    <2>1. ~Exists(w.id)'
      BY <1>1, <1>2, <1>3 DEF Exists, IndInv, Identities, NoProcess
    <2> HIDE DEF v
    <2> QED
      BY <1>1, <1>2, <1>5, <2>1 DEF IndInv, GoneForGood, Types
  <1>8. ChildrenAreOwned'
    BY <1>1, <1>3, <1>4 DEF IndInv, StopIsExact, ChildrenAreOwned, NobodyNew, NoProcess
  <1> QED
    BY <1>5, <1>6, <1>7, <1>8 DEF IndInv, StopIsExact

(* The channel of a child that is gone is closed.                          *)
LEMMA CloseReapedOK ==
    ASSUME IndInv, NEW w \in waiting, CloseReaped(w)
    PROVE  IndInv'
  <1> DEFINE v == [w EXCEPT !.at = "unregister"]
  <1>1. /\ w.at = "close" /\ reaped' = reaped \cup {w.id}
        /\ waiting' = (waiting \ {w}) \cup {v}
        /\ UNCHANGED <<process, spawned, owned, stop, signalled>>
    BY DEF CloseReaped
  <1>2. /\ w.id \in 1 .. spawned /\ ~Exists(w.id) /\ v.id = w.id
        /\ v \in [pid : Pids, id : Nat, at : {"wait", "close", "unregister"}]
    BY <1>1 DEF IndInv, Types, GoneForGood
  <1> HIDE DEF v
  <1>3. \A id : Exists(id)' <=> Exists(id)
    BY <1>1 DEF Exists
  <1>4. Types' /\ GoneForGood'
    BY <1>1, <1>2, <1>3 DEF IndInv, Types, GoneForGood
  <1>5. Identities' /\ TargetTraced' /\ HandleTraced'
    BY <1>1, <1>3 DEF IndInv, Identities, TargetTraced, HandleTraced
  <1>6. StopIsExact'
    BY <1>1 DEF IndInv, StopIsExact, OnlyBridgesSignalled, StopMeansGone, ChildrenAreOwned,
                Exists, Running
  <1> QED
    BY <1>4, <1>5, <1>6 DEF IndInv

(* A late goroutine takes only its own child off the books.                *)
LEMMA UnregisterOwnedOK ==
    ASSUME IndInv, NEW w \in waiting, UnregisterOwned(w)
    PROVE  IndInv'
  <1>1. /\ w.at = "unregister" /\ waiting' = waiting \ {w}
        /\ owned' = [owned EXCEPT ![w.pid] = IF @ = w.id THEN 0 ELSE @]
        /\ UNCHANGED <<process, spawned, reaped, stop, signalled>>
    BY DEF UnregisterOwned, Unregistered
  <1>2. w.pid \in Pids /\ w.id \in 1 .. spawned /\ ~Exists(w.id)
    BY <1>1 DEF IndInv, Types, GoneForGood
  <1>3. \A id : Exists(id)' <=> Exists(id)
    BY <1>1 DEF Exists
  <1>4. Types' /\ GoneForGood'
    BY <1>1, <1>2, <1>3 DEF IndInv, Types, GoneForGood
  <1>5. Identities' /\ TargetTraced' /\ HandleTraced'
    BY <1>1, <1>3 DEF IndInv, Identities, TargetTraced, HandleTraced
  <1>6. ChildrenAreOwned'
    BY <1>1, <1>2 DEF IndInv, StopIsExact, ChildrenAreOwned, Exists, Types
  <1>7. OnlyBridgesSignalled' /\ StopMeansGone'
    BY <1>1 DEF IndInv, StopIsExact, OnlyBridgesSignalled, StopMeansGone, Exists, Running
  <1> QED
    BY <1>4, <1>5, <1>6, <1>7 DEF IndInv, StopIsExact

-----------------------------------------------------------------------------
(* The stop                                                                *)

(* The part of the invariant that says nothing of the stop.                *)
WorldOK ==
    /\ process \in [Pids -> Process] /\ spawned \in Nat /\ owned \in [Pids -> Nat]
    /\ waiting \subseteq [pid : Pids, id : Nat, at : {"wait", "close", "unregister"}]
    /\ Identities /\ GoneForGood /\ ChildrenAreOwned

(* A step of the stop leaves the world alone.                              *)
LEMMA WorldKept ==
    ASSUME IndInv, UNCHANGED <<process, spawned, owned, waiting, reaped>>
    PROVE  /\ WorldOK'
           /\ \A id : (Exists(id)' <=> Exists(id)) /\ (Running(id)' <=> Running(id))
  BY DEF IndInv, Types, WorldOK, Identities, GoneForGood, StopIsExact, ChildrenAreOwned,
         Exists, Running

(* If the target still runs it has the stop's pid; if it is gone it may    *)
(* not be mistaken for whoever has the pid now.                            *)
LEMMA TargetAtPid ==
    ASSUME IndInv, stop.at # "idle", stop.target.kind = "bridge"
    PROVE  /\ stop.target.id \in Nat \ {0} /\ stop.pid \in Pids
           /\ Exists(stop.target.id) => process[stop.pid].id = stop.target.id
           /\ Exists(stop.target.id) => process[stop.pid].kind = "bridge"
           /\ Running(stop.target.id) => process[stop.pid].state = "running"
           /\ stop.target.child => stop.own # 0
  BY DEF IndInv, Types, Process, TargetTraced, NoProcess, Exists, Running

(* The states a stop may be in once it has begun, by the step it is at.    *)
LEMMA GoOK ==
    ASSUME IndInv, stop.at # "idle", NEW at \in Steps \ {"idle"}, NEW killed \in BOOLEAN,
           stop' = [stop EXCEPT !.at = at, !.killed = killed],
           signalled' \subseteq {"bridge"},
           UNCHANGED <<process, spawned, owned, waiting, reaped>>,
           at \in Checking => stop.at \in Checking,
           at \in {"alive", "term", "poll", "probe"} =>
               \A pid \in Pids : process[pid].id = stop.handle => process[pid].kind = "bridge",
           at = "reap" => stop.own # 0,
           at = "nil" /\ stop.target.kind = "bridge" /\ stop.own \in {0, stop.target.id} =>
               /\ ~Running(stop.target.id)
               /\ stop.target.child => ~Exists(stop.target.id)
    PROVE  IndInv'
  <1>1. /\ WorldOK'
        /\ \A id : (Exists(id)' <=> Exists(id)) /\ (Running(id)' <=> Running(id))
    BY WorldKept
  <1>2. /\ stop'.at = at /\ stop'.pid = stop.pid /\ stop'.own = stop.own
        /\ stop'.handle = stop.handle /\ stop'.target = stop.target
        /\ stop' \in [at : Steps, pid : Pids \cup {0}, own : Nat, handle : Nat,
                      killed : BOOLEAN, target : Process]
    BY DEF IndInv, Types
  <1>3. Types'
    BY <1>1, <1>2 DEF IndInv, Types, WorldOK
  <1>4. TargetTraced'
    BY <1>2 DEF IndInv, TargetTraced
  <1>5. HandleTraced'
    BY <1>1, <1>2 DEF IndInv, HandleTraced
  <1>6. OnlyBridgesSignalled' /\ StopMeansGone'
    BY <1>1, <1>2 DEF OnlyBridgesSignalled, StopMeansGone
  <1> QED
    BY <1>1, <1>3, <1>4, <1>5, <1>6 DEF IndInv, WorldOK, StopIsExact

(* A stop begins: it looks up the pid on the books.                        *)
LEMMA BeginStopOK ==
    ASSUME IndInv, NEW pid \in Pids, BeginStop(pid)
    PROVE  IndInv'
  <1> DEFINE s == [NoStop EXCEPT !.at = "open", !.pid = pid, !.own = owned[pid],
                                 !.target = process[pid]]
  <1>1. stop' = s /\ UNCHANGED <<process, spawned, owned, waiting, reaped, signalled>>
    BY DEF BeginStop, Go
  <1>2. /\ s \in [at : Steps, pid : Pids \cup {0}, own : Nat, handle : Nat,
                  killed : BOOLEAN, target : Process]
        /\ s.at = "open" /\ s.pid = pid /\ s.own = owned[pid] /\ s.target = process[pid]
    BY DEF IndInv, Types, NoStop, Steps
  <1> HIDE DEF s
  <1>3. WorldOK'
    BY <1>1, WorldKept
  <1>4. Types'
    BY <1>1, <1>2, <1>3 DEF WorldOK, Types
  <1>5. TargetTraced'
    BY <1>1, <1>2 DEF IndInv, Types, Process, TargetTraced, Identities, StopIsExact,
                      ChildrenAreOwned
  <1>6. HandleTraced'
    BY <1>1, <1>2 DEF HandleTraced, Checking
  <1>7. OnlyBridgesSignalled' /\ StopMeansGone'
    BY <1>1, <1>2 DEF IndInv, StopIsExact, OnlyBridgesSignalled, StopMeansGone
  <1> QED
    BY <1>3, <1>4, <1>5, <1>6, <1>7 DEF IndInv, WorldOK, StopIsExact

(* The steps that only move on: which one, and what it needs.              *)
LEMMA DoneOK ==
    ASSUME IndInv, stop.at # "idle", NEW at \in Steps \ {"idle"}, Done(at),
           at \in Checking => stop.at \in Checking,
           at \in {"alive", "term", "poll", "probe"} =>
               \A pid \in Pids : process[pid].id = stop.handle => process[pid].kind = "bridge",
           at = "reap" => stop.own # 0,
           at = "nil" /\ stop.target.kind = "bridge" /\ stop.own \in {0, stop.target.id} =>
               /\ ~Running(stop.target.id)
               /\ stop.target.child => ~Exists(stop.target.id)
    PROVE  IndInv'
  <1>1. /\ stop' = [stop EXCEPT !.at = at, !.killed = stop.killed]
        /\ stop.killed \in BOOLEAN /\ signalled' \subseteq {"bridge"}
        /\ UNCHANGED <<process, spawned, owned, waiting, reaped>>
    BY DEF Done, Go, IndInv, Types, StopIsExact, OnlyBridgesSignalled
  <1> QED
    BY <1>1, GoOK

(* Giving up on a pid is right when the target does not run there.         *)
LEMMA UnverifiedOK ==
    ASSUME IndInv, stop.at # "idle", Unverified,
           stop.target.kind = "bridge" => ~Running(stop.target.id)
    PROVE  IndInv'
  <1>1. CASE stop.own # 0
    BY <1>1, DoneOK DEF Unverified, Steps, Checking
  <1>2. CASE stop.own = 0
    <2>1. stop.target.kind = "bridge" => ~stop.target.child
      BY <1>2, TargetAtPid
    <2> QED
      BY <1>2, <2>1, DoneOK DEF Unverified, Steps, Checking
  <1> QED
    BY <1>1, <1>2

(* pidfd_open ties the handle to whoever has the pid.                      *)
LEMMA OpenHandleOK == ASSUME IndInv, OpenHandle PROVE IndInv'
  <1>1. CASE process[stop.pid] = NoProcess
    <2>1. stop.target.kind = "bridge" => ~Running(stop.target.id)
      BY <1>1, TargetAtPid DEF OpenHandle, NoProcess
    <2> QED
      BY <1>1, <2>1, UnverifiedOK DEF OpenHandle
  <1>2. CASE process[stop.pid] # NoProcess
    <2> DEFINE s == [stop EXCEPT !.at = "executable", !.handle = process[stop.pid].id]
    <2>1. /\ stop.at = "open" /\ stop' = s
          /\ UNCHANGED <<process, spawned, owned, waiting, reaped, signalled>>
      BY <1>2 DEF OpenHandle, Go
    <2>2. process[stop.pid].id \in 1 .. spawned /\ stop.pid \in Pids
      BY <1>2, <2>1 DEF IndInv, Types, Process, Identities
    <2>3. /\ s \in [at : Steps, pid : Pids \cup {0}, own : Nat, handle : Nat,
                    killed : BOOLEAN, target : Process]
          /\ s.at = "executable" /\ s.pid = stop.pid /\ s.own = stop.own
          /\ s.target = stop.target /\ s.handle = process[stop.pid].id
      <3>1. /\ stop \in [at : Steps, pid : Pids \cup {0}, own : Nat, handle : Nat,
                         killed : BOOLEAN, target : Process]
            /\ process[stop.pid].id \in Nat /\ "executable" \in Steps
        BY <2>2 DEF IndInv, Types, Steps, Checking
      <3> QED
        BY <3>1
    <2> HIDE DEF s
    <2>4. /\ WorldOK'
          /\ \A id : (Exists(id)' <=> Exists(id)) /\ (Running(id)' <=> Running(id))
      BY <2>1, WorldKept
    <2>5. Types'
      BY <2>1, <2>2, <2>3, <2>4 DEF WorldOK, Types
    <2>6. TargetTraced'
      BY <2>1, <2>3 DEF IndInv, TargetTraced
    <2>7. HandleTraced'
      <3>1. \A pid \in Pids : process[pid].id = process[stop.pid].id => pid = stop.pid
        BY <2>2 DEF IndInv, Identities
      <3>2. stop.target.id # 0 /\ Exists(stop.target.id) =>
                process[stop.pid].id = stop.target.id
        BY <2>1 DEF IndInv, TargetTraced, Exists
      <3> QED
        BY <2>1, <2>2, <2>3, <2>4, <3>1, <3>2 DEF HandleTraced, Checking
    <2>8. OnlyBridgesSignalled' /\ StopMeansGone'
      BY <2>1, <2>3 DEF IndInv, StopIsExact, OnlyBridgesSignalled, StopMeansGone
    <2> QED
      BY <2>4, <2>5, <2>6, <2>7, <2>8 DEF IndInv, WorldOK, StopIsExact
  <1> QED
    BY <1>1, <1>2

(* The executable says nothing yet of whom the handle is.                  *)
LEMMA ReadExecutableOK == ASSUME IndInv, ReadExecutable PROVE IndInv'
  <1>1. stop.at = "executable" /\ stop.at \in Checking
    BY DEF ReadExecutable, Checking
  <1>2. CASE process[stop.pid].state = "running" /\ process[stop.pid].kind \in {"bridge", "ttyd"}
    BY <1>1, <1>2, DoneOK DEF ReadExecutable, Steps, Checking
  <1>3. CASE ~(process[stop.pid].state = "running" /\ process[stop.pid].kind \in {"bridge", "ttyd"})
    <2>1. stop.target.kind = "bridge" => ~Running(stop.target.id)
      BY <1>1, <1>3, TargetAtPid DEF Running, Exists
    <2> QED
      BY <1>1, <1>3, <2>1, UnverifiedOK DEF ReadExecutable
  <1> QED
    BY <1>2, <1>3

(* The command line is a bridge's: if the handle still exists, it is the   *)
(* process whose command line it was.                                      *)
LEMMA ReadCommandOK == ASSUME IndInv, ReadCommand PROVE IndInv'
  <1>1. stop.at = "command" /\ stop.at \in Checking
    BY DEF ReadCommand, Checking
  <1>2. CASE process[stop.pid].state = "running" /\ process[stop.pid].kind = "bridge"
    <2>1. \A pid \in Pids : process[pid].id = stop.handle => process[pid].kind = "bridge"
      BY <1>1, <1>2 DEF IndInv, HandleTraced
    <2> QED
      BY <1>1, <1>2, <2>1, DoneOK DEF ReadCommand, Steps, Checking
  <1>3. CASE ~(process[stop.pid].state = "running" /\ process[stop.pid].kind = "bridge")
    <2>1. stop.target.kind = "bridge" => ~Running(stop.target.id)
      BY <1>1, <1>3, TargetAtPid DEF Running, Exists
    <2> QED
      BY <1>1, <1>3, <2>1, UnverifiedOK DEF ReadCommand
  <1> QED
    BY <1>2, <1>3

(* A target that runs is the process behind the handle.                    *)
LEMMA HandleGone ==
    ASSUME IndInv, stop.at \in Checking, ~Exists(stop.handle), stop.target.kind = "bridge"
    PROVE  ~Running(stop.target.id)
  <1>1. stop.target.id # 0
    BY TargetAtPid DEF Checking
  <1>2. ~Exists(stop.target.id)
    BY <1>1 DEF IndInv, HandleTraced
  <1> QED
    BY <1>2 DEF Running, Exists

(* What the later steps know of the handle.                                *)
LEMMA HandleIsBridge ==
    ASSUME IndInv, stop.at \in {"alive", "term", "poll", "probe"}
    PROVE  /\ stop.at \in Checking
           /\ \A pid \in Pids : process[pid].id = stop.handle => process[pid].kind = "bridge"
  BY DEF IndInv, HandleTraced, Checking

(* The handle exists, or the stop gives up.                                *)
LEMMA CheckHandleOK == ASSUME IndInv, CheckHandle PROVE IndInv'
  <1>1. stop.at = "alive"
    BY DEF CheckHandle
  <1>2. CASE Exists(stop.handle)
    BY <1>1, <1>2, HandleIsBridge, DoneOK DEF CheckHandle, Steps, Checking
  <1>3. CASE ~Exists(stop.handle)
    BY <1>1, <1>3, HandleIsBridge, HandleGone, UnverifiedOK DEF CheckHandle
  <1> QED
    BY <1>2, <1>3

(* A signal through the handle reaches a bridge or nobody.                 *)
LEMMA SignalledOK ==
    ASSUME IndInv, stop.at \in {"term", "probe"},
           signalled' = signalled \cup {process[pid].kind : pid \in SignalTarget}
    PROVE  signalled' \subseteq {"bridge"}
  BY HandleIsBridge DEF SignalTarget, IndInv, StopIsExact, OnlyBridgesSignalled

(* SIGTERM and SIGKILL.                                                    *)
LEMMA SignalOK == ASSUME IndInv, SendTerm \/ SendKill PROVE IndInv'
  <1>1. /\ stop.at \in {"term", "probe"}
        /\ \E killed \in BOOLEAN : stop' = [stop EXCEPT !.at = "poll", !.killed = killed]
        /\ signalled' = signalled \cup {process[pid].kind : pid \in SignalTarget}
        /\ UNCHANGED <<process, spawned, owned, waiting, reaped>>
    <2>1. CASE SendTerm
      <3>1. stop.killed \in BOOLEAN /\ stop \in [at : Steps, pid : Pids \cup {0}, own : Nat,
                handle : Nat, killed : BOOLEAN, target : Process]
        BY DEF IndInv, Types
      <3>2. [stop EXCEPT !.at = "poll"] = [stop EXCEPT !.at = "poll", !.killed = stop.killed]
        BY <3>1
      <3> QED
        BY <2>1, <3>1, <3>2 DEF SendTerm, Signal
    <2>2. CASE SendKill
      BY <2>2 DEF SendKill, Signal
    <2> QED
      BY <2>1, <2>2
  <1>2. PICK killed \in BOOLEAN : stop' = [stop EXCEPT !.at = "poll", !.killed = killed]
    BY <1>1
  <1> QED
    BY <1>1, <1>2, SignalledOK, HandleIsBridge, GoOK DEF Steps, Checking

(* The end is seen by the channel of the child, or, for a process that is  *)
(* not ours, by the state of the pid.                                      *)
LEMMA PollStateOK == ASSUME IndInv, PollState PROVE IndInv'
  <1>1. stop.at = "poll"
    BY DEF PollState
  <1>2. CASE stop.own # 0 /\ stop.own \in reaped /\ Done("nil")
    <2>1. ~Exists(stop.own)
      BY <1>2 DEF IndInv, GoneForGood
    <2>2. ~Running(stop.own)
      BY <2>1 DEF Exists, Running
    <2> QED
      BY <1>1, <1>2, <2>1, <2>2, DoneOK DEF Steps, Checking
  <1>3. CASE /\ process[stop.pid].state = "zombie" /\ ZombieSuffices /\ Done("nil")
    <2>1. stop.target.kind = "bridge" => ~Running(stop.target.id) /\ ~stop.target.child
      BY <1>1, <1>3, TargetAtPid DEF ZombieSuffices
    <2> QED
      BY <1>1, <1>3, <2>1, DoneOK DEF Steps, Checking
  <1>4. CASE Done("error")
    BY <1>1, <1>4, DoneOK DEF Steps, Checking
  <1>5. CASE Done("probe")
    BY <1>1, <1>5, HandleIsBridge, DoneOK DEF Steps, Checking
  <1> QED
    BY <1>2, <1>3, <1>4, <1>5 DEF PollState

(* ... or by the handle.                                                   *)
LEMMA PollHandleOK == ASSUME IndInv, PollHandle PROVE IndInv'
  <1>1. stop.at = "probe"
    BY DEF PollHandle
  <1>2. CASE ~Exists(stop.handle) /\ Unverified
    BY <1>1, <1>2, HandleIsBridge, HandleGone, UnverifiedOK
  <1>3. CASE Done("poll") \/ Done("error")
    BY <1>1, <1>3, HandleIsBridge, DoneOK DEF Steps, Checking
  <1> QED
    BY <1>2, <1>3 DEF PollHandle

(* An unverified child is waited for, until its channel is closed.         *)
LEMMA WaitReapOK == ASSUME IndInv, WaitReap PROVE IndInv'
  <1>1. stop.at = "reap" /\ stop.own # 0
    BY DEF WaitReap, IndInv, HandleTraced
  <1>2. CASE stop.own \in reaped /\ Done("nil")
    <2>1. ~Exists(stop.own)
      BY <1>2 DEF IndInv, GoneForGood
    <2>2. ~Running(stop.own)
      BY <2>1 DEF Exists, Running
    <2> QED
      BY <1>1, <1>2, <2>1, <2>2, DoneOK DEF Steps, Checking
  <1>3. CASE Done("error")
    BY <1>1, <1>3, DoneOK DEF Steps, Checking
  <1> QED
    BY <1>2, <1>3 DEF WaitReap

(* The caller has the answer.                                              *)
LEMMA StopReturnsOK == ASSUME IndInv, StopReturns PROVE IndInv'
  <1>1. stop' = NoStop /\ UNCHANGED <<process, spawned, owned, waiting, reaped, signalled>>
    BY DEF StopReturns, Go
  <1>2. WorldOK'
    BY <1>1, WorldKept
  <1>3. NoStop.at = "idle" /\ NoStop \in [at : Steps, pid : Pids \cup {0}, own : Nat,
            handle : Nat, killed : BOOLEAN, target : Process]
    BY DEF NoStop, NoProcess, Process, Kinds, Steps
  <1>4. Types' /\ TargetTraced' /\ HandleTraced'
    BY <1>1, <1>2, <1>3 DEF WorldOK, Types, TargetTraced, HandleTraced, Checking
  <1>5. OnlyBridgesSignalled' /\ StopMeansGone'
    BY <1>1, <1>3 DEF IndInv, StopIsExact, OnlyBridgesSignalled, StopMeansGone
  <1> QED
    BY <1>2, <1>4, <1>5 DEF IndInv, WorldOK, StopIsExact

-----------------------------------------------------------------------------
(* The invariant is inductive.                                             *)
LEMMA NextOK == ASSUME IndInv, [StopNext]_stopVars PROVE IndInv'
  <1>1. CASE UNCHANGED stopVars
    BY <1>1 DEF stopVars, IndInv, Types, Identities, GoneForGood, TargetTraced, HandleTraced,
           StopIsExact, OnlyBridgesSignalled, StopMeansGone, ChildrenAreOwned, Exists, Running
  <1>2. ASSUME NEW pid \in Pids,
               \/ \E kind \in {"bridge", "ttyd", "other"} : SpawnStranger(pid, kind)
               \/ \E kind \in {"bridge", "ttyd"} : StartBridge(pid, kind)
               \/ ProcessExits(pid) \/ ReapStranger(pid) \/ BeginStop(pid)
        PROVE  IndInv'
    BY <1>2, SpawnStrangerOK, StartBridgeOK, ExitOK, BeginStopOK
  <1>3. ASSUME NEW w \in waiting, WaitChild(w) \/ CloseReaped(w) \/ UnregisterOwned(w)
        PROVE  IndInv'
    BY <1>3, WaitChildOK, CloseReapedOK, UnregisterOwnedOK
  <1>4. CASE \/ OpenHandle \/ ReadExecutable \/ ReadCommand \/ CheckHandle \/ SendTerm
             \/ PollState \/ PollHandle \/ SendKill \/ WaitReap \/ StopReturns
    BY <1>4, OpenHandleOK, ReadExecutableOK, ReadCommandOK, CheckHandleOK, SignalOK,
       PollStateOK, PollHandleOK, WaitReapOK, StopReturnsOK
  <1> QED
    BY <1>1, <1>2, <1>3, <1>4 DEF StopNext

(* Whatever the processes of the machine do between the system calls of    *)
(* stopVerifiedPID, only bridges are signalled, a stop that succeeds       *)
(* leaves no bridge behind, and every child stays on the books.            *)
THEOREM StopExact == StopSpec => []StopIsExact
  <1>1. IndInv => StopIsExact
    BY DEF IndInv
  <1> QED
    BY InitOK, NextOK, <1>1, PTL DEF StopSpec
=============================================================================
