----------------------- MODULE SessionLifecycleProofs -----------------------
(***************************************************************************)
(* Theorems about SessionLifecycle, for every set of processes, names,     *)
(* references and pids and every choice of faults.                         *)
(***************************************************************************)
EXTENDS SessionLifecycle, TLAPS

-----------------------------------------------------------------------------
(* The inductive invariant.                                                *)

\* What the label of an operation says about its local variables.
Unread == {"idle", "next", "lock", "read", "probe", "create"}

ShapeOK(l, j) ==
    /\ l \notin {"idle", "next"} => j.name \in Name
    /\ l \in {"idle", "next"} => j.op \in {"none", "reconcile"}
    /\ l \in Unread => j.managed = NoRecord /\ ~j.fresh
    /\ l \in {"probe", "create"} => j.op = "create"
    /\ l \in Locked \ (Unread \cup {"undo", "undokill"}) => Canonical(j.managed)
    /\ l \in {"undo", "undokill"} /\ ~j.fresh => j.managed = NoRecord
    /\ l = "rollback" => j.fresh
    /\ l \in {"check", "use", "act", "configure", "environ", "cleanup",
              "stop", "killcheck", "kill"} => ~j.fresh
    /\ j.fresh => l \in Locked /\ j.op = "create" /\ Canonical(j.managed)
    /\ j.op = "terminate" => l \in {"lock", "read", "stop", "killcheck", "kill", "remove"}
    /\ j.op = "terminate" /\ l \notin {"lock", "read"} => j.managed.ref = j.expected
    /\ l = "act" => j.managed.ref = j.expected

Shape == \A p \in Proc : ShapeOK(pc[p], job[p])

\* CopyIsCurrent, one process.
CopyOK(p) ==
    /\ HoldsRecord(p) => record[job[p].name] = job[p].managed
    /\ Creating(p) => \/ record[job[p].name].kind # "ok"
                      \/ /\ job[p].fresh /\ Undoing(p)
                         /\ record[job[p].name].ref = job[p].managed.ref

\* A public reference has one home: a record, or the create that drew it.
RefHome ==
    /\ \A m, n \in Name : record[m].ref # None /\ record[m].ref = record[n].ref => m = n
    /\ \A p \in Proc, n \in Name :
          job[p].fresh /\ record[n].ref = job[p].managed.ref => n = job[p].name
    /\ \A p, q \in Proc :
          job[p].fresh /\ job[q].fresh /\ job[p].managed.ref = job[q].managed.ref => p = q

\* The ttyd processes of a reference attach to the session at its home.
BridgeHome ==
    \A pid \in Pid : bridge[pid].base # None =>
        /\ bridge[pid].form = "safe"
        /\ \A n \in Name : record[n].ref = bridge[pid].base => bridge[pid].name = n
        /\ \A p \in Proc : job[p].fresh /\ job[p].managed.ref = bridge[pid].base
                              => bridge[pid].name = job[p].name

\* ttyd is only started when no process of the reference runs.
StartClear ==
    \A p \in Proc, pid \in Pid :
        pc[p] = "start" => bridge[pid].base # job[p].managed.ref

\* A record that a request has seen under its reference is not migrated again.
Settled(n) == record[n].kind = "ok" => Canonical(record[n])
SettledOK(j) == /\ j.found # None => Settled(j.found)
                /\ j.op \in {"use", "terminate"} => Settled(j.name)
SettledInv == \A p \in Proc : SettledOK(job[p])

IndInv == /\ TypeOK /\ Shape /\ LockHeld
          /\ CopyIsCurrent /\ RefHome
          /\ BridgeHome /\ StartClear /\ OneBridgePerRef
          /\ SettledInv

-----------------------------------------------------------------------------
(* How a step of p changes the state, as far as IndInv is concerned.       *)

\* Control: p moves, and takes, keeps or drops its lock accordingly.
LockStep(p) ==
    \/ /\ pc[p] \in Locked /\ pc'[p] \in Locked
       /\ job'[p].name = job[p].name
       /\ lock' = lock
    \/ /\ pc'[p] \notin Locked
       /\ lock' = [n \in Name |-> IF lock[n] = p THEN None ELSE lock[n]]
    \/ /\ pc[p] \notin Locked /\ pc'[p] \notin Locked
       /\ lock' = lock
    \/ /\ pc[p] \notin Locked /\ pc'[p] \in Locked
       /\ lock[job[p].name] = None
       /\ job'[p].name = job[p].name
       /\ lock' = [lock EXCEPT ![job[p].name] = p]

Control(p) ==
    /\ lock' \in [Name -> Proc \cup {None}]
    /\ pc' \in [Proc -> Label] /\ pc' = [pc EXCEPT ![p] = pc'[p]]
    /\ job' \in [Proc -> Job] /\ job' = [job EXCEPT ![p] = job'[p]]
    /\ ShapeOK(pc'[p], job'[p])
    /\ LockStep(p)

\* The empty record, process and job have their types.
LEMMA ConstantTypes ==
    /\ NoRecord \in Record /\ InvalidRecord \in Record
    /\ NoBridge \in Bridge
    /\ NoJob \in Job
  BY DEF NoRecord, InvalidRecord, Record, NoBridge, Bridge, NoJob, Job, Operation

\* Replacing a field of a job gives a job.
LEMMA JobUpdates ==
    ASSUME NEW j \in Job
    PROVE  /\ \A x \in Record : [j EXCEPT !.managed = x] \in Job
           /\ \A x \in Pid \cup {None} : [j EXCEPT !.pid = x] \in Job
           /\ \A x \in Name \cup {None} : [j EXCEPT !.name = x] \in Job
           /\ [j EXCEPT !.cancelled = TRUE] \in Job
           /\ \A x \in Record : [j EXCEPT !.managed = x, !.fresh = TRUE] \in Job
  BY DEF Job

\* Migrating a record, or storing a bridge pid in it, gives a record.
LEMMA RecordUpdates ==
    ASSUME NEW rec \in Record
    PROVE  /\ \A r \in Ref : [rec EXCEPT !.ref = r, !.named = TRUE] \in Record
           /\ \A x \in Pid \cup {None} : [rec EXCEPT !.pid = x] \in Record
  BY DEF Record

\* A step that replaces the local variables of p.
LEMMA Rejob ==
    ASSUME TypeOK, NEW p \in Proc, NEW l \in Label, NEW j \in Job,
           Goto(p, l), job' = [job EXCEPT ![p] = j], ShapeOK(l, j), 
           \/ pc[p] \in Locked /\ l \in Locked /\ j.name = job[p].name /\ lock' = lock
           \/ pc[p] \notin Locked /\ l \notin Locked /\ lock' = lock
           \/ /\ l \notin Locked
              /\ lock' = [n \in Name |-> IF lock[n] = p THEN None ELSE lock[n]]
    PROVE  Control(p) /\ pc'[p] = l /\ job'[p] = j
  <1>1. pc' = [pc EXCEPT ![p] = l] /\ pc'[p] = l /\ pc' \in [Proc -> Label]
    BY DEF Goto, TypeOK
  <1>2. job'[p] = j /\ job' \in [Proc -> Job]
    BY DEF TypeOK
  <1>3. lock' \in [Name -> Proc \cup {None}]
    BY DEF TypeOK
  <1>4. LockStep(p)
    BY <1>1, <1>2 DEF LockStep
  <1> QED BY <1>1, <1>2, <1>3, <1>4 DEF Control

\* A step that only moves p.
LEMMA Stay ==
    ASSUME TypeOK, NEW p \in Proc, NEW l \in Locked, pc[p] \in Locked,
           Goto(p, l), lock' = lock, job' = job, ShapeOK(l, job[p])
    PROVE  Control(p) /\ pc'[p] = l /\ job'[p] = job[p]
  <1>1. job' = [job EXCEPT ![p] = job[p]] /\ job[p] \in Job /\ l \in Label
    BY DEF TypeOK, Locked
  <1> QED BY <1>1, Rejob

\* lifecycle.go: an operation that returns leaves the lock and its variables behind.
LEMMA Leave ==
    ASSUME TypeOK, NEW p \in Proc, NEW failed \in BOOLEAN,
           NEW found \in Name \cup {None}, Return(p, failed, found)
    PROVE  /\ Control(p) /\ pc'[p] \in {"idle", "next"} /\ ~job'[p].fresh
           /\ job'[p].found \in {found, None} /\ job'[p].op \in {"none", "reconcile"}
  <1> DEFINE back(f) == [NoJob EXCEPT !.op = "reconcile", !.goal = job[p].goal,
                                !.expected = job[p].expected,
                                !.todo = job[p].todo \ {job[p].name},
                                !.found = found, !.failed = f,
                                !.cancelled = job[p].cancelled]
  <1>1. job[p] \in Job
    BY DEF TypeOK
  <1>2. ASSUME NEW f \in BOOLEAN
        PROVE  /\ back(f) \in Job /\ ShapeOK("next", back(f)) /\ ~back(f).fresh
               /\ back(f).found = found /\ back(f).op = "reconcile"
    <2>1. back(f) \in Job
      BY <1>1, ConstantTypes DEF Job, Operation
    <2>2. /\ ~back(f).fresh /\ back(f).found = found /\ back(f).op = "reconcile"
          /\ back(f).managed = NoRecord
      BY DEF NoJob
    <2> HIDE DEF back
    <2>3. ShapeOK("next", back(f))
      BY <2>2 DEF ShapeOK, Unread, Locked
    <2> QED BY <2>1, <2>2, <2>3
  <1>3. /\ ShapeOK("idle", NoJob) /\ ~NoJob.fresh /\ NoJob.found = None /\ NoJob.op = "none"
    BY DEF ShapeOK, NoJob, Unread, Locked
  <1>4. (job[p].failed \/ failed) \in BOOLEAN
    OBVIOUS
  <1>5. \/ \E f \in BOOLEAN : job' = [job EXCEPT ![p] = back(f)] /\ Goto(p, "next")
        \/ job' = [job EXCEPT ![p] = NoJob] /\ Goto(p, "idle")
    BY <1>4 DEF Return
  <1>6. /\ lock' = [n \in Name |-> IF lock[n] = p THEN None ELSE lock[n]]
        /\ {"next", "idle"} \subseteq Label /\ "next" \notin Locked /\ "idle" \notin Locked
    BY DEF Return, Label, Locked
  <1>7. CASE \E f \in BOOLEAN : job' = [job EXCEPT ![p] = back(f)] /\ Goto(p, "next")
    <2>1. PICK f \in BOOLEAN : job' = [job EXCEPT ![p] = back(f)] /\ Goto(p, "next")
      BY <1>7
    <2> HIDE DEF back
    <2>2. Control(p) /\ pc'[p] = "next" /\ job'[p] = back(f)
      BY <2>1, <1>2, <1>6, Rejob
    <2> QED BY <2>2, <1>2
  <1>8. CASE job' = [job EXCEPT ![p] = NoJob] /\ Goto(p, "idle")
    <2>2. Control(p) /\ pc'[p] = "idle" /\ job'[p] = NoJob
      BY <1>8, <1>3, <1>6, Rejob, ConstantTypes
    <2> QED BY <2>2, <1>3
  <1> QED BY <1>5, <1>7, <1>8

\* Leave, for the returns that found no session.
LEMMA LeaveEarly ==
    ASSUME TypeOK, NEW p \in Proc, Fail(p) \/ Done(p)
    PROVE  /\ Control(p) /\ pc'[p] \in {"idle", "next"} /\ ~job'[p].fresh
           /\ job'[p].found \in {job[p].found, None} /\ job'[p].op \in {"none", "reconcile"}
  <1>1. job[p].found \in Name \cup {None}
    BY DEF TypeOK, Job
  <1>2. CASE Fail(p)
    <2>1. Return(p, TRUE, job[p].found)
      BY <1>2 DEF Fail
    <2> QED BY ONLY <1>1, <2>1, TypeOK, p \in Proc, Leave
  <1>3. CASE Done(p)
    <2>1. Return(p, FALSE, job[p].found)
      BY <1>3 DEF Done
    <2> QED BY ONLY <1>1, <2>1, TypeOK, p \in Proc, Leave
  <1> QED BY <1>2, <1>3

\* bridge.go Stop: the processes in S are gone, all others run on.
LEMMA StopTypes ==
    ASSUME TypeOK, NEW S \in SUBSET Pid, StopBridges(S)
    PROVE  /\ bridge' \in [Pid -> Bridge]
           /\ socket' \in [Name -> Pid \cup {None, "stale"}]
           /\ \A pid \in Pid : bridge'[pid] = IF pid \in S THEN NoBridge ELSE bridge[pid]
  BY ConstantTypes DEF TypeOK, StopBridges

-----------------------------------------------------------------------------
(* The data: only the holder of a name's lock changes its record, a record *)
(* or a create gets a reference that nothing uses, and a ttyd process is   *)
(* started under the reference of the record at hand.                      *)

RecordStep(p) ==
    \/ record' = record
    \/ /\ pc[p] \in Locked \ {"act"} /\ pc'[p] # "act"
       /\ \E x \in Record :
            /\ record' = [record EXCEPT ![job[p].name] = x]
            /\ x.kind = "ok" => Canonical(x)
            /\ Canonical(record[job[p].name]) /\ x.kind = "ok"
                  => x.ref = record[job[p].name].ref
            /\ \/ x.ref \in {None, record[job[p].name].ref}
               \/ ~InUse(x.ref)
               \/ job[p].fresh /\ x.ref = job[p].managed.ref

BridgeStep(p) ==
    \/ \A pid \in Pid : bridge'[pid] \in {NoBridge, bridge[pid]}
    \/ /\ pc[p] = "start" /\ pc'[p] # "start" /\ record' = record
       /\ \E pid \in Pid : bridge' = [bridge EXCEPT ![pid] =
             [name |-> job[p].name, base |-> job[p].managed.ref, form |-> "safe",
              bound |-> FALSE]]

FreshStep(p) ==
    job'[p].fresh =>
        \/ /\ job[p].fresh
           /\ job'[p].managed = job[p].managed
           /\ job'[p].name = job[p].name
        \/ /\ ~InUse(job'[p].managed.ref)
           /\ record' = record /\ bridge' = bridge

ClearStep(p) ==
    pc'[p] = "start" => \A pid \in Pid : bridge'[pid].base # job'[p].managed.ref

StepOK(p) ==
    /\ TypeOK' /\ Control(p) /\ CopyOK(p)'
    /\ RecordStep(p) /\ BridgeStep(p) /\ FreshStep(p) /\ ClearStep(p)
    /\ SettledOK(job[p])'

\* Two processes that work on records of one reference are the same.
LEMMA OneWorker ==
    ASSUME IndInv, NEW p \in Proc, NEW q \in Proc,
           HoldsRecord(p) \/ job[p].fresh, HoldsRecord(q) \/ job[q].fresh,
           job[p].managed.ref = job[q].managed.ref
    PROVE  p = q
  <1>1. /\ pc[p] \in Locked /\ pc[q] \in Locked
        /\ job[p].managed.ref # None
        /\ job[p].name \in Name /\ job[q].name \in Name
    BY DEF IndInv, Shape, ShapeOK, HoldsRecord, Canonical, Unread, Locked
  <1>2. /\ HoldsRecord(p) => record[job[p].name].ref = job[p].managed.ref
        /\ HoldsRecord(q) => record[job[q].name].ref = job[q].managed.ref
    BY DEF IndInv, CopyIsCurrent
  <1>3. job[p].name = job[q].name \/ p = q
    BY <1>1, <1>2 DEF IndInv, RefHome
  <1>4. lock[job[p].name] = p /\ lock[job[q].name] = q
    BY <1>1 DEF IndInv, LockHeld
  <1> QED BY <1>3, <1>4

\* A step of one process that has the shape above keeps the invariant.
LEMMA StepPreserves ==
    ASSUME IndInv, NEW p \in Proc, StepOK(p)
    PROVE  IndInv'
  <1>1. /\ \A q \in Proc \ {p} : pc'[q] = pc[q] /\ job'[q] = job[q]
        /\ pc \in [Proc -> Label] /\ lock \in [Name -> Proc \cup {None}]
        /\ p # None /\ None \notin Ref
    BY NoneAssumption DEF StepOK, Control, IndInv, TypeOK
  <1>2. Shape'
    BY <1>1 DEF StepOK, Control, Shape, IndInv
  <1>3. LockHeld'
    <2>1. pc[p] \notin {"idle", "next"} => job[p].name \in Name
      BY DEF IndInv, Shape, ShapeOK
    <2>2. LockStep(p) /\ LockHeld /\ ShapeOK(pc'[p], job'[p])
      BY DEF StepOK, Control, IndInv
    <2>3. pc'[p] \in Locked => job'[p].name \in Name
      BY <2>2 DEF ShapeOK, Locked
    <2>4. \A n \in Name : lock[n] # None => lock[n] \in Proc
      BY <1>1
    <2>5. "lock" \notin Locked /\ "idle" \notin Locked /\ "next" \notin Locked
      BY DEF Locked
    <2>6. CASE /\ pc[p] \in Locked /\ pc'[p] \in Locked
               /\ job'[p].name = job[p].name
               /\ lock' = lock
      BY <1>1, <2>2, <2>3, <2>4, <2>6 DEF LockHeld
    <2>7. CASE /\ pc'[p] \notin Locked
               /\ lock' = [n \in Name |-> IF lock[n] = p THEN None ELSE lock[n]]
      BY <1>1, <2>2, <2>3, <2>4, <2>7 DEF LockHeld
    <2>8. CASE pc[p] \notin Locked /\ pc'[p] \notin Locked /\ lock' = lock
      BY <1>1, <2>2, <2>3, <2>4, <2>8 DEF LockHeld
    <2>9. CASE /\ pc[p] \notin Locked /\ pc'[p] \in Locked
               /\ lock[job[p].name] = None
               /\ job'[p].name = job[p].name
               /\ lock' = [lock EXCEPT ![job[p].name] = p]
      <3>1. \A n \in Name : lock'[n] = IF n = job'[p].name THEN p ELSE lock[n]
        BY <1>1, <2>3, <2>9
      <3>2. \A q \in Proc \ {p} : pc[q] \in Locked => job[q].name # job'[p].name
        BY <2>2, <2>9, NoneAssumption DEF LockHeld
      <3>3. \A q \in Proc : pc'[q] \in Locked => job'[q].name \in Name /\ lock'[job'[q].name] = q
        BY <1>1, <2>2, <2>3, <3>1, <3>2 DEF LockHeld
      <3>4. \A n \in Name : lock'[n] # None =>
               pc'[lock'[n]] \in Locked /\ job'[lock'[n]].name = n
        BY <1>1, <2>2, <2>4, <2>9, <3>1 DEF LockHeld
      <3> QED BY <3>3, <3>4 DEF LockHeld
    <2> QED BY <2>2, <2>6, <2>7, <2>8, <2>9 DEF LockStep
  <1>4. \A q \in Proc \ {p} : pc[q] \in Locked => record'[job[q].name] = record[job[q].name]
    <2> SUFFICES ASSUME NEW q \in Proc \ {p}, pc[q] \in Locked
                 PROVE  record'[job[q].name] = record[job[q].name]
      OBVIOUS
    <2>1. CASE pc[p] \in Locked
      <3>1. job[q].name # job[p].name /\ job[q].name \in Name
        BY <2>1 DEF IndInv, LockHeld
      <3>2. \/ record' = record
            \/ \E x \in Record : record' = [record EXCEPT ![job[p].name] = x]
        BY DEF StepOK, RecordStep
      <3>3. record \in [Name -> Record]
        BY DEF IndInv, TypeOK
      <3> QED BY <3>1, <3>2, <3>3
    <2>2. CASE pc[p] \notin Locked
      BY <2>2 DEF StepOK, RecordStep
    <2> QED BY <2>1, <2>2
  <1>5. CopyIsCurrent'
    <2> SUFFICES ASSUME NEW q \in Proc PROVE CopyOK(q)'
      BY DEF CopyIsCurrent, CopyOK
    <2>1. CASE q = p
      BY <2>1 DEF StepOK
    <2>2. CASE q # p
      <3>1. CopyOK(q)
        BY DEF IndInv, CopyIsCurrent, CopyOK
      <3>2. Creating(q) => pc[q] \in Locked
        BY DEF Creating, Locked, Label
      <3> QED BY <1>1, <1>4, <2>2, <3>1, <3>2
               DEF CopyOK, HoldsRecord, Creating, Undoing
    <2> QED BY <2>1, <2>2
  <1>6. RefHome'
    <2>1. FreshStep(p) /\ RecordStep(p) /\ RefHome
      BY DEF StepOK, IndInv
    <2>2. \A q \in Proc : job'[q].fresh => job'[q].managed.ref # None
      BY <1>2 DEF Shape, ShapeOK, Canonical
    <2>3. /\ record \in [Name -> Record]
          /\ pc[p] \in Locked => job[p].name \in Name
      BY DEF IndInv, TypeOK, LockHeld
    <2>4. CASE record' = record
      BY <1>1, <2>1, <2>4 DEF FreshStep, RefHome, InUse
    <2>5. CASE record' # record
      <3>1. PICK x \in Record :
              /\ record' = [record EXCEPT ![job[p].name] = x]
              /\ \/ x.ref \in {None, record[job[p].name].ref}
                 \/ ~InUse(x.ref)
                 \/ job[p].fresh /\ x.ref = job[p].managed.ref
        BY <2>1, <2>5 DEF RecordStep
      <3>2. job[p].name \in Name
        BY <2>1, <2>3, <2>5 DEF RecordStep
      <3>3. \A n \in Name : record'[n] = IF n = job[p].name THEN x ELSE record[n]
        BY <3>1, <2>3
      <3>4. job'[p].fresh => /\ job[p].fresh
                             /\ job'[p].managed = job[p].managed
                             /\ job'[p].name = job[p].name
        BY <2>1, <2>5 DEF FreshStep
      <3>5. CASE x.ref \in {None, record[job[p].name].ref}
        BY <1>1, <2>1, <2>2, <3>2, <3>3, <3>4, <3>5, SMTT(60) DEF RefHome
      <3>6. CASE ~InUse(x.ref)
        BY <1>1, <2>1, <2>2, <3>2, <3>3, <3>4, <3>6 DEF RefHome, InUse
      <3>7. CASE job[p].fresh /\ x.ref = job[p].managed.ref
        BY <1>1, <2>1, <2>2, <3>2, <3>3, <3>4, <3>7 DEF RefHome
      <3> QED BY <3>1, <3>5, <3>6, <3>7
    <2> QED BY <2>4, <2>5
  <1>7. StartClear' /\ BridgeHome' /\ OneBridgePerRef'
    <2>1. CASE \A pid \in Pid : bridge'[pid] \in {NoBridge, bridge[pid]}
      <3>1. \A pid \in Pid : bridge'[pid].base # None => bridge'[pid] = bridge[pid]
        BY <2>1 DEF NoBridge
      <3>2. OneBridgePerRef'
        BY <3>1 DEF OneBridgePerRef, IndInv
      <3>3. StartClear'
        <4> SUFFICES ASSUME NEW q \in Proc, NEW pid \in Pid, pc'[q] = "start"
                     PROVE  bridge'[pid].base # job'[q].managed.ref
          BY DEF StartClear
        <4>1. CASE q = p
          BY <4>1 DEF StepOK, ClearStep
        <4>2. CASE q # p
          <5>1. pc[q] = "start" /\ job'[q] = job[q]
            BY <1>1, <4>2
          <5>2. job'[q].managed.ref # None
            BY <1>2 DEF Shape, ShapeOK, Canonical, Unread, Locked, Label
          <5> QED BY <3>1, <5>1, <5>2 DEF IndInv, StartClear
        <4> QED BY <4>1, <4>2
      <3>4. BridgeHome'
        <4> SUFFICES ASSUME NEW pid \in Pid, bridge'[pid].base # None
                     PROVE  /\ bridge'[pid].form = "safe"
                            /\ \A n \in Name : record'[n].ref = bridge'[pid].base
                                  => bridge'[pid].name = n
                            /\ \A q \in Proc :
                                  job'[q].fresh /\ job'[q].managed.ref = bridge'[pid].base
                                     => bridge'[pid].name = job'[q].name
          BY DEF BridgeHome
        <4>1. bridge'[pid] = bridge[pid] /\ BridgeHome /\ RecordStep(p) /\ FreshStep(p)
          BY <3>1 DEF StepOK, IndInv
        <4>2. \A n \in Name : record'[n].ref = bridge'[pid].base => bridge'[pid].name = n
          <5>1. CASE record' = record
            BY <4>1, <5>1 DEF BridgeHome
          <5>2. CASE record' # record
            <6>1. PICK x \in Record :
                    /\ record' = [record EXCEPT ![job[p].name] = x]
                    /\ \/ x.ref \in {None, record[job[p].name].ref}
                       \/ ~InUse(x.ref)
                       \/ job[p].fresh /\ x.ref = job[p].managed.ref
              BY <4>1, <5>2 DEF RecordStep
            <6>2. record \in [Name -> Record] /\ job[p].name \in Name
              BY <4>1, <5>2 DEF IndInv, TypeOK, LockHeld, RecordStep
            <6>3. \A n \in Name : record'[n] = IF n = job[p].name THEN x ELSE record[n]
              BY <6>1, <6>2
            <6> QED BY <4>1, <6>1, <6>2, <6>3 DEF BridgeHome, InUse
          <5> QED BY <5>1, <5>2
        <4>3. ASSUME NEW q \in Proc, job'[q].fresh, job'[q].managed.ref = bridge'[pid].base
              PROVE  bridge'[pid].name = job'[q].name
          BY <1>1, <4>1, <4>3 DEF FreshStep, BridgeHome, InUse
        <4> QED BY <4>1, <4>2, <4>3 DEF BridgeHome
      <3> QED BY <3>2, <3>3, <3>4
    <2>2. CASE /\ pc[p] = "start" /\ pc'[p] # "start" /\ record' = record
               /\ \E pid \in Pid : bridge' = [bridge EXCEPT ![pid] =
                     [name |-> job[p].name, base |-> job[p].managed.ref,
                      form |-> "safe", bound |-> FALSE]]
      <3> DEFINE new == [name |-> job[p].name, base |-> job[p].managed.ref,
                         form |-> "safe", bound |-> FALSE]
      <3>1. PICK pid \in Pid : bridge' = [bridge EXCEPT ![pid] = new]
        BY <2>2
      <3>2. \A b \in Pid : bridge'[b] = IF b = pid THEN new ELSE bridge[b]
        BY <3>1 DEF IndInv, TypeOK
      <3>3. /\ new.base = job[p].managed.ref /\ new.form = "safe"
            /\ new.name = job[p].name
            /\ pc[p] = "start" /\ pc'[p] # "start" /\ record' = record
        BY <2>2
      <3> HIDE DEF new
      <3>4. (HoldsRecord(p) \/ job[p].fresh) /\ job[p].managed.ref # None
        BY <3>3 DEF HoldsRecord, Locked, Label, IndInv, Shape, ShapeOK, Unread, Canonical
      <3>5. \A b \in Pid : bridge[b].base # job[p].managed.ref
        BY <3>3 DEF IndInv, StartClear
      <3>6. OneBridgePerRef'
        BY <3>2, <3>3, <3>5 DEF IndInv, OneBridgePerRef
      <3>7. StartClear'
        <4> SUFFICES ASSUME NEW q \in Proc, NEW b \in Pid, pc'[q] = "start"
                     PROVE  bridge'[b].base # job'[q].managed.ref
          BY DEF StartClear
        <4>1. q # p /\ pc[q] = "start" /\ job'[q] = job[q]
          BY <1>1, <3>3
        <4>2. HoldsRecord(q) \/ job[q].fresh
          BY <4>1 DEF HoldsRecord, Locked, Label
        <4>3. job[q].managed.ref # job[p].managed.ref
          BY <3>4, <4>1, <4>2, OneWorker
        <4> QED BY <3>2, <3>3, <4>1, <4>3 DEF IndInv, StartClear
      <3>8. \A q \in Proc : job'[q].fresh => /\ job[q].fresh
                                             /\ job'[q].managed = job[q].managed
                                             /\ job'[q].name = job[q].name
        <4>1. job'[p].fresh => ~ (bridge' = bridge)
          BY <3>2, <3>3, <3>5
        <4> QED BY <1>1, <4>1 DEF StepOK, FreshStep
      <3>9. \A n \in Name : record[n].ref = job[p].managed.ref => n = job[p].name
        <4>1. HoldsRecord(p) => record[job[p].name].ref = job[p].managed.ref
          BY DEF IndInv, CopyIsCurrent
        <4>2. job[p].name \in Name
          BY <3>3 DEF IndInv, Shape, ShapeOK
        <4> QED BY <3>4, <4>1, <4>2 DEF IndInv, RefHome
      <3>10. \A q \in Proc : job[q].fresh /\ job[q].managed.ref = job[p].managed.ref
                => q = p
        BY <3>4, OneWorker
      <3>11. BridgeHome'
        BY <3>2, <3>3, <3>8, <3>9, <3>10 DEF IndInv, BridgeHome
      <3> QED BY <3>6, <3>7, <3>11
    <2> QED BY <2>1, <2>2 DEF StepOK, BridgeStep
  <1>8. SettledInv'
    <2>1. \A n \in Name : Settled(n) => Settled(n)'
      <3>1. record \in [Name -> Record]
        BY DEF IndInv, TypeOK
      <3>2. \/ record' = record
            \/ \E x \in Record : /\ record' = [record EXCEPT ![job[p].name] = x]
                                 /\ x.kind = "ok" => Canonical(x)
        BY DEF StepOK, RecordStep
      <3> QED BY <3>1, <3>2 DEF Settled, Canonical
    <2>2. ASSUME NEW q \in Proc PROVE SettledOK(job[q])'
      <3>1. CASE q = p
        BY <3>1 DEF StepOK
      <3>2. CASE q # p
        <4>1. job'[q] = job[q] /\ job[q] \in Job /\ SettledOK(job[q])
          BY <1>1, <3>2 DEF IndInv, TypeOK, SettledInv
        <4>2. job[q].op \in {"use", "terminate"} => job[q].name \in Name
          BY DEF IndInv, Shape, ShapeOK
        <4>3. job[q].found # None => job[q].found \in Name
          BY <4>1 DEF Job
        <4> QED BY <2>1, <4>1, <4>2, <4>3 DEF SettledOK
      <3> QED BY <3>1, <3>2
    <2> QED BY <2>2 DEF SettledInv
  <1> QED BY <1>2, <1>3, <1>5, <1>6, <1>7, <1>8 DEF IndInv, StepOK
-----------------------------------------------------------------------------
(* The steps of an operation.                                              *)

\* A step that touches no record has the shape above.
LEMMA Assemble ==
    ASSUME IndInv, NEW p \in Proc, Control(p),
           record' = record,
           tmux' \in [Name -> {"none", "managed", "unmanaged"}],
           bridge' \in [Pid -> Bridge],
           socket' \in [Name -> Pid \cup {None, "stale"}],
           \A pid \in Pid : bridge'[pid] \in {NoBridge, bridge[pid]},
           pc'[p] = "start" => \A pid \in Pid : bridge'[pid].base # job'[p].managed.ref,
           \/ /\ pc'[p] \in {"idle", "next"} /\ ~job'[p].fresh
              /\ job'[p].found \in {job[p].found, None}
              /\ job'[p].op \in {"none", "reconcile"}
           \/ /\ job'[p].managed = job[p].managed /\ job'[p].fresh = job[p].fresh
              /\ job'[p].name = job[p].name /\ job'[p].found = job[p].found
              /\ job'[p].op = job[p].op
              /\ CopyOK(p)'
    PROVE  StepOK(p)
  <1>1. TypeOK'
    BY DEF Control, IndInv, TypeOK
  <1>2. CopyOK(p)'
    BY DEF CopyOK, HoldsRecord, Creating, Locked
  <1>3. RecordStep(p) /\ BridgeStep(p) /\ FreshStep(p) /\ ClearStep(p)
    BY DEF RecordStep, BridgeStep, FreshStep, ClearStep
  <1>4. SettledOK(job[p])'
    BY DEF IndInv, SettledInv, SettledOK, Settled, Canonical
  <1> QED BY <1>1, <1>2, <1>3, <1>4 DEF StepOK

\* An operation returns without having touched a record.
LEMMA FailOK ==
    ASSUME IndInv, NEW p \in Proc, Fail(p) \/ Done(p), record' = record,
           tmux' \in [Name -> {"none", "managed", "unmanaged"}],
           bridge' \in [Pid -> Bridge],
           socket' \in [Name -> Pid \cup {None, "stale"}],
           \A pid \in Pid : bridge'[pid] \in {NoBridge, bridge[pid]}
    PROVE  StepOK(p)
  BY LeaveEarly, Assemble DEF IndInv

\* The local part of the invariant.
LEMMA Local ==
    ASSUME IndInv, NEW p \in Proc
    PROVE  /\ ShapeOK(pc[p], job[p]) /\ CopyOK(p) /\ job[p] \in Job
           /\ record \in [Name -> Record] /\ SettledOK(job[p])
           /\ tmux \in [Name -> {"none", "managed", "unmanaged"}]
           /\ bridge \in [Pid -> Bridge]
           /\ socket \in [Name -> Pid \cup {None, "stale"}]
           /\ TypeOK
  BY DEF IndInv, Shape, CopyIsCurrent, CopyOK, TypeOK, SettledInv

\* The moves inside an operation that keep CopyIsCurrent.
Held == Locked \ {"read", "probe", "create", "undo", "undokill"}
Follows(l, m, fresh) ==
    /\ l \in Locked /\ m \in Locked
    /\ m \in Held /\ ~fresh => l \in Held
    /\ m \in {"probe", "create"} /\ ~fresh => l \in {"probe", "create"}
    /\ l \in {"rollback", "undo", "undokill", "remove"} /\ fresh
          => m \in {"rollback", "undo", "undokill", "remove"}

\* Jobs that IndInv does not tell apart.
Similar(i, j) ==
    /\ i.op = j.op /\ i.name = j.name /\ i.expected = j.expected
    /\ i.managed = j.managed /\ i.fresh = j.fresh /\ i.found = j.found

\* An operation moves on without having touched a record.
LEMMA MoveOK ==
    ASSUME IndInv, NEW p \in Proc, NEW l, NEW j \in Job,
           Goto(p, l), lock' = lock, job' = [job EXCEPT ![p] = j], record' = record,
           Similar(j, job[p]), ShapeOK(l, job[p]), Follows(pc[p], l, job[p].fresh),
           tmux' \in [Name -> {"none", "managed", "unmanaged"}],
           bridge' \in [Pid -> Bridge],
           socket' \in [Name -> Pid \cup {None, "stale"}],
           \A pid \in Pid : bridge'[pid] \in {NoBridge, bridge[pid]},
           l = "start" => \A pid \in Pid : bridge'[pid].base # job[p].managed.ref
    PROVE  StepOK(p)
  <1>1. ShapeOK(l, j) /\ l \in Label
    BY DEF ShapeOK, Similar, Follows, Locked
  <1>2. Control(p) /\ pc'[p] = l /\ job'[p] = j
    <2>1. pc[p] \in Locked /\ l \in Locked /\ j.name = job[p].name /\ TypeOK
      BY Local DEF Follows, Similar
    <2> QED BY <1>1, <2>1, Rejob, ZenonT(60)
  <1>3. CopyOK(p)'
    <2>1. CopyOK(p)
      BY Local
    <2> QED BY <1>2, <2>1 DEF CopyOK, HoldsRecord, Creating, Undoing, Follows, Held, Similar
  <1> QED BY <1>2, <1>3, Assemble DEF Similar

\* MoveOK, for a step that leaves the local variables alone.
LEMMA StayOK ==
    ASSUME IndInv, NEW p \in Proc, NEW l \in Label \ {"start"},
           Goto(p, l), lock' = lock, job' = job, record' = record,
           ShapeOK(l, job[p]), Follows(pc[p], l, job[p].fresh),
           tmux' \in [Name -> {"none", "managed", "unmanaged"}],
           bridge' \in [Pid -> Bridge],
           socket' \in [Name -> Pid \cup {None, "stale"}],
           \A pid \in Pid : bridge'[pid] \in {NoBridge, bridge[pid]}
    PROVE  StepOK(p)
  <1>1. job' = [job EXCEPT ![p] = job[p]] /\ job[p] \in Job /\ Similar(job[p], job[p])
    BY Local DEF TypeOK, Similar
  <1> QED BY <1>1, MoveOK

\* The context of the operation ends during a step.
LEMMA CancelOK ==
    ASSUME IndInv, NEW p \in Proc, NEW l \in Label \ {"start"},
           Goto(p, l), lock' = lock, job' = [job EXCEPT ![p].cancelled = TRUE],
           ShapeOK(l, job[p]), Follows(pc[p], l, job[p].fresh),
           UNCHANGED <<record, tmux, bridge, socket>>
    PROVE  StepOK(p)
  <1> DEFINE j == [job[p] EXCEPT !.cancelled = TRUE]
  <1>1. job' = [job EXCEPT ![p] = j]
    OBVIOUS
  <1>2. j \in Job /\ Similar(j, job[p])
    <2>1. job[p] \in Job
      BY Local
    <2>2. j \in Job
      BY <2>1, JobUpdates
    <2>3. Similar(j, job[p])
      BY <2>1 DEF Similar, Job
    <2> QED BY <2>2, <2>3
  <1> HIDE DEF j
  <1> QED BY <1>1, <1>2, MoveOK, Local

\* lock.go: giving up on the flock keeps the shape.
LEMMA AbandonLockOK ==
    ASSUME IndInv, NEW p \in Proc, AbandonLock(p)
    PROVE  StepOK(p)
  BY Local, FailOK DEF AbandonLock

\* HasSession of a recorded session, whatever it answers, keeps the shape.
LEMMA CheckAliveOK ==
    ASSUME IndInv, NEW p \in Proc, CheckAlive(p)
    PROVE  StepOK(p)
  <1>1. UNCHANGED <<record, tmux, bridge, socket>> /\ pc[p] = "check"
    BY DEF CheckAlive
  <1>2. CASE Fail(p)
    BY <1>1, <1>2, Local, FailOK
  <1>3. ASSUME NEW l \in {"use", "configure", "cleanup"}
        PROVE  /\ l \in Label \ {"start"}
               /\ ShapeOK(l, job[p]) /\ Follows(pc[p], l, job[p].fresh)
    BY <1>1, Local DEF ShapeOK, Locked, Label, Unread, Follows, Held
  <1>4. ASSUME NEW l \in {"use", "configure", "cleanup"},
               Goto(p, l), lock' = lock, job' = job
        PROVE  StepOK(p)
    BY <1>1, <1>3, <1>4, Local, StayOK
  <1>5. CASE job' = [job EXCEPT ![p].cancelled = TRUE] /\ Goto(p, "cleanup") /\ lock' = lock
    BY <1>1, <1>3, <1>5, CancelOK
  <1> QED BY <1>2, <1>4, <1>5 DEF CheckAlive

\* withPublicSession lets a request act only on its own reference.
LEMMA UseSessionOK ==
    ASSUME IndInv, NEW p \in Proc, UseSession(p)
    PROVE  StepOK(p)
  <1>1. UNCHANGED <<record, tmux, bridge, socket>> /\ pc[p] = "use"
    BY DEF UseSession
  <1>2. CASE Fail(p)
    BY <1>1, <1>2, Local, FailOK
  <1>3. CASE job[p].managed.ref = job[p].expected /\ Goto(p, "act") /\ UNCHANGED <<lock, job>>
    <2>1. /\ "act" \in Label \ {"start"}
          /\ ShapeOK("act", job[p]) /\ Follows(pc[p], "act", job[p].fresh)
      BY <1>1, <1>3, Local DEF ShapeOK, Locked, Label, Unread, Follows, Held
    <2> QED BY <1>1, <1>3, <2>1, Local, StayOK
  <1> QED BY <1>2, <1>3 DEF UseSession

\* The return of a WithSession callback keeps the shape.
LEMMA UseReturnsOK ==
    ASSUME IndInv, NEW p \in Proc, UseReturns(p)
    PROVE  StepOK(p)
  BY Local, FailOK DEF UseReturns
\* Verified bridges stop, and the operation moves on or fails.
LEMMA StopVerifiedOK ==
    ASSUME IndInv, NEW p \in Proc, NEW l \in Label \ {"start"}, StopVerified(p, l),
           UNCHANGED <<record, tmux>>,
           ShapeOK(l, job[p]), Follows(pc[p], l, job[p].fresh)
    PROVE  StepOK(p)
  <1>1. PICK S \in SUBSET Pid :
          StopBridges(S) /\ (Fail(p) \/ (Goto(p, l) /\ UNCHANGED <<lock, job>>))
    <2>1. Verified(job[p].name, job[p].managed) \in SUBSET Pid
      BY DEF Verified
    <2> QED BY <2>1 DEF StopVerified
  <1>2. /\ bridge' \in [Pid -> Bridge] /\ socket' \in [Name -> Pid \cup {None, "stale"}]
        /\ \A pid \in Pid : bridge'[pid] \in {NoBridge, bridge[pid]}
    BY <1>1, Local, StopTypes
  <1>3. tmux' \in [Name -> {"none", "managed", "unmanaged"}]
    BY Local
  <1>4. CASE Fail(p)
    BY <1>2, <1>3, <1>4, FailOK
  <1>5. CASE Goto(p, l) /\ UNCHANGED <<lock, job>>
    BY <1>2, <1>3, <1>5, StayOK
  <1> QED BY <1>1, <1>4, <1>5

\* cleanupLocked before the artifacts are removed keeps the shape.
LEMMA CleanupOK ==
    ASSUME IndInv, NEW p \in Proc, Cleanup(p)
    PROVE  StepOK(p)
  <1>1. /\ ShapeOK("remove", job[p]) /\ Follows(pc[p], "remove", job[p].fresh)
        /\ "remove" \in Label \ {"start"}
    BY Local DEF Cleanup, ShapeOK, Locked, Label, Unread, Follows, Held
  <1> QED BY <1>1, StopVerifiedOK DEF Cleanup

\* The probe of a create keeps the shape.
LEMMA ProbeNameOK ==
    ASSUME IndInv, NEW p \in Proc, ProbeName(p)
    PROVE  StepOK(p)
  <1>1. UNCHANGED <<record, tmux, bridge, socket>> /\ pc[p] = "probe"
    BY DEF ProbeName
  <1>2. CASE Fail(p)
    BY <1>1, <1>2, Local, FailOK
  <1>3. /\ "create" \in Label \ {"start"}
        /\ ShapeOK("create", job[p]) /\ Follows(pc[p], "create", job[p].fresh)
    BY <1>1, Local DEF ShapeOK, Locked, Label, Unread, Follows, Held
  <1>4. CASE Goto(p, "create") /\ UNCHANGED <<lock, job>>
    BY <1>1, <1>3, <1>4, Local, StayOK
  <1>5. CASE job' = [job EXCEPT ![p].cancelled = TRUE] /\ Goto(p, "create") /\ lock' = lock
    BY <1>1, <1>3, <1>5, CancelOK
  <1> QED BY <1>2, <1>4, <1>5 DEF ProbeName

\* bridge.Ensure failed.
LEMMA EnsureFailedOK ==
    ASSUME IndInv, NEW p \in Proc, EnsureFailed(p), record' = record,
           pc[p] \in {"bridge", "secure", "start", "await", "abort", "write"},
           tmux' \in [Name -> {"none", "managed", "unmanaged"}],
           bridge' \in [Pid -> Bridge],
           socket' \in [Name -> Pid \cup {None, "stale"}],
           \A pid \in Pid : bridge'[pid] \in {NoBridge, bridge[pid]}
    PROVE  StepOK(p)
  <1>1. CASE job[p].fresh
    <2>1. /\ "rollback" \in Label \ {"start"}
          /\ ShapeOK("rollback", job[p]) /\ Follows(pc[p], "rollback", job[p].fresh)
      BY <1>1, Local DEF ShapeOK, Locked, Label, Unread, Follows, Held
    <2> QED BY <1>1, <2>1, StayOK DEF EnsureFailed
  <1>2. CASE ~job[p].fresh
    BY <1>2, FailOK DEF EnsureFailed
  <1> QED BY <1>1, <1>2

\* The tmux options of ensureBridgeLocked keep the shape.
LEMMA ConfigureSessionOK ==
    ASSUME IndInv, NEW p \in Proc, ConfigureSession(p)
    PROVE  StepOK(p)
  <1>1. UNCHANGED <<record, tmux, bridge, socket>> /\ pc[p] = "configure"
    BY DEF ConfigureSession
  <1>2. CASE Fail(p)
    BY <1>1, <1>2, Local, FailOK
  <1>3. /\ "bridge" \in Label \ {"start"}
        /\ ShapeOK("bridge", job[p]) /\ Follows(pc[p], "bridge", job[p].fresh)
    BY <1>1, Local DEF ShapeOK, Locked, Label, Unread, Follows, Held
  <1>4. CASE Goto(p, "bridge") /\ UNCHANGED <<lock, job>>
    BY <1>1, <1>3, <1>4, Local, StayOK
  <1> QED BY <1>2, <1>4 DEF ConfigureSession

\* The end of bridge.Ensure keeps the shape.
LEMMA BridgeReadyOK ==
    ASSUME IndInv, NEW p \in Proc, BridgeReady(p), pc[p] \in {"secure", "await"},
           UNCHANGED <<record, tmux, bridge, socket>>
    PROVE  StepOK(p)
  <1>1. PICK l \in {"write", "environ"} :
          /\ Goto(p, l) /\ UNCHANGED <<lock, job>>
          /\ l = "environ" => ~job[p].fresh
    BY DEF BridgeReady
  <1>2. /\ l \in Label \ {"start"}
        /\ ShapeOK(l, job[p]) /\ Follows(pc[p], l, job[p].fresh)
    BY <1>1, Local DEF ShapeOK, Locked, Label, Unread, Follows, Held
  <1> QED BY <1>1, <1>2, Local, StayOK

\* The chmod of the socket keeps the shape.
LEMMA SecureSocketOK ==
    ASSUME IndInv, NEW p \in Proc, SecureSocket(p)
    PROVE  StepOK(p)
  BY BridgeReadyOK, EnsureFailedOK, Local DEF SecureSocket

\* The wait for a started ttyd keeps the shape.
LEMMA AwaitBridgeOK ==
    ASSUME IndInv, NEW p \in Proc, AwaitBridge(p)
    PROVE  StepOK(p)
  <1>1. UNCHANGED <<record, tmux, bridge, socket>> /\ pc[p] = "await"
    BY DEF AwaitBridge
  <1>2. CASE BridgeReady(p)
    BY <1>1, <1>2, BridgeReadyOK
  <1>3. CASE EnsureFailed(p)
    BY <1>1, <1>3, Local, EnsureFailedOK
  <1>4. CASE Goto(p, "abort") /\ UNCHANGED <<lock, job>>
    <2>1. /\ "abort" \in Label \ {"start"}
          /\ ShapeOK("abort", job[p]) /\ Follows(pc[p], "abort", job[p].fresh)
      BY <1>1, Local DEF ShapeOK, Locked, Label, Unread, Follows, Held
    <2> QED BY <1>1, <1>4, <2>1, Local, StayOK
  <1> QED BY <1>2, <1>3, <1>4 DEF AwaitBridge

\* Stopping a ttyd that did not come up keeps the shape.
LEMMA AbortBridgeOK ==
    ASSUME IndInv, NEW p \in Proc, AbortBridge(p)
    PROVE  StepOK(p)
  <1>1. EnsureFailed(p) /\ pc[p] = "abort" /\ record' = record /\ tmux' = tmux
    BY DEF AbortBridge
  <1>2. \/ UNCHANGED <<bridge, socket>>
        \/ \E S \in SUBSET Pid : StopBridges(S)
    <2>1. ({job[p].pid} \cap Verified(job[p].name, job[p].managed)) \in SUBSET Pid
      BY DEF Verified
    <2> QED BY <2>1 DEF AbortBridge
  <1>3. /\ bridge' \in [Pid -> Bridge] /\ socket' \in [Name -> Pid \cup {None, "stale"}]
        /\ \A pid \in Pid : bridge'[pid] \in {NoBridge, bridge[pid]}
    BY <1>2, Local, StopTypes
  <1> QED BY <1>1, <1>3, Local, EnsureFailedOK

\* cleanupNewSession: stopping the bridges keeps the shape.
LEMMA RollbackOK ==
    ASSUME IndInv, NEW p \in Proc, Rollback(p)
    PROVE  StepOK(p)
  <1>1. /\ Goto(p, "undo") /\ UNCHANGED <<record, tmux, lock, job>>
        /\ pc[p] = "rollback" /\ \E S \in SUBSET Pid : StopBridges(S)
    <2>1. Verified(job[p].name, job[p].managed) \in SUBSET Pid
      BY DEF Verified
    <2> QED BY <2>1 DEF Rollback
  <1>2. /\ bridge' \in [Pid -> Bridge] /\ socket' \in [Name -> Pid \cup {None, "stale"}]
        /\ \A pid \in Pid : bridge'[pid] \in {NoBridge, bridge[pid]}
    BY <1>1, Local, StopTypes
  <1>3. /\ "undo" \in Label \ {"start"}
        /\ ShapeOK("undo", job[p]) /\ Follows(pc[p], "undo", job[p].fresh)
    BY <1>1, Local DEF ShapeOK, Locked, Label, Unread, Follows, Held
  <1> QED BY <1>1, <1>2, <1>3, Local, StayOK

\* The end of killTmuxIfPresent keeps the shape.
LEMMA AfterUndoOK ==
    ASSUME IndInv, NEW p \in Proc, AfterUndo(p), pc[p] \in {"undo", "undokill"},
           UNCHANGED <<record, bridge, socket>>,
           tmux' \in [Name -> {"none", "managed", "unmanaged"}]
    PROVE  StepOK(p)
  <1>1. CASE job[p].fresh
    <2>1. /\ "remove" \in Label \ {"start"}
          /\ ShapeOK("remove", job[p]) /\ Follows(pc[p], "remove", job[p].fresh)
      BY <1>1, Local DEF ShapeOK, Locked, Label, Unread, Follows, Held
    <2> QED BY <1>1, <2>1, StayOK, Local DEF AfterUndo
  <1>2. CASE ~job[p].fresh
    BY <1>2, FailOK, Local DEF AfterUndo
  <1> QED BY <1>1, <1>2

\* killTmuxIfPresent: the check keeps the shape.
LEMMA UndoCheckOK ==
    ASSUME IndInv, NEW p \in Proc, UndoCheck(p)
    PROVE  StepOK(p)
  <1>1. UNCHANGED <<record, tmux, bridge, socket>> /\ pc[p] = "undo"
    BY DEF UndoCheck
  <1>2. CASE AfterUndo(p)
    BY <1>1, <1>2, Local, AfterUndoOK
  <1>3. CASE Goto(p, "undokill") /\ UNCHANGED <<lock, job>>
    <2>1. /\ "undokill" \in Label \ {"start"}
          /\ ShapeOK("undokill", job[p]) /\ Follows(pc[p], "undokill", job[p].fresh)
      BY <1>1, Local DEF ShapeOK, Locked, Label, Unread, Follows, Held
    <2> QED BY <1>1, <1>3, <2>1, Local, StayOK
  <1> QED BY <1>2, <1>3 DEF UndoCheck

\* killTmuxIfPresent: the kill keeps the shape.
LEMMA UndoKillOK ==
    ASSUME IndInv, NEW p \in Proc, UndoKill(p)
    PROVE  StepOK(p)
  <1>1. tmux' \in [Name -> {"none", "managed", "unmanaged"}]
    BY Local DEF UndoKill
  <1> QED BY <1>1, AfterUndoOK DEF UndoKill

\* TerminateChecked: verify and bridge.Stop keep the shape.
LEMMA TerminateStopOK ==
    ASSUME IndInv, NEW p \in Proc, TerminateStop(p)
    PROVE  StepOK(p)
  <1>1. /\ ShapeOK("killcheck", job[p]) /\ Follows(pc[p], "killcheck", job[p].fresh)
        /\ "killcheck" \in Label \ {"start"}
    BY Local DEF TerminateStop, ShapeOK, Locked, Label, Unread, Follows, Held
  <1>2. CASE StopVerified(p, "killcheck")
    BY <1>1, <1>2, StopVerifiedOK DEF TerminateStop
  <1>3. CASE Fail(p) /\ UNCHANGED <<bridge, socket>>
    BY <1>3, Local, FailOK DEF TerminateStop
  <1> QED BY <1>2, <1>3 DEF TerminateStop

\* TerminateChecked: HasSession keeps the shape.
LEMMA TerminateCheckOK ==
    ASSUME IndInv, NEW p \in Proc, TerminateCheck(p)
    PROVE  StepOK(p)
  <1>1. UNCHANGED <<record, tmux, bridge, socket>> /\ pc[p] = "killcheck"
    BY DEF TerminateCheck
  <1>2. CASE Fail(p)
    BY <1>1, <1>2, Local, FailOK
  <1>3. ASSUME NEW l \in {"remove", "kill"}
        PROVE  /\ l \in Label \ {"start"}
               /\ ShapeOK(l, job[p]) /\ Follows(pc[p], l, job[p].fresh)
    BY <1>1, Local DEF ShapeOK, Locked, Label, Unread, Follows, Held
  <1>4. ASSUME NEW l \in {"remove", "kill"}, Goto(p, l), UNCHANGED <<lock, job>>
        PROVE  StepOK(p)
    BY <1>1, <1>3, <1>4, Local, StayOK
  <1>5. CASE job' = [job EXCEPT ![p].cancelled = TRUE] /\ Goto(p, "remove") /\ lock' = lock
    BY <1>1, <1>3, <1>5, CancelOK
  <1> QED BY <1>2, <1>4, <1>5 DEF TerminateCheck

\* TerminateChecked: kill-session keeps the shape.
LEMMA TerminateKillOK ==
    ASSUME IndInv, NEW p \in Proc, TerminateKill(p)
    PROVE  StepOK(p)
  <1>1. UNCHANGED <<record, bridge, socket>> /\ pc[p] = "kill"
    BY DEF TerminateKill
  <1>2. tmux' \in [Name -> {"none", "managed", "unmanaged"}]
    BY Local DEF TerminateKill
  <1>3. CASE Fail(p)
    BY <1>1, <1>2, <1>3, Local, FailOK
  <1>4. CASE Goto(p, "remove") /\ UNCHANGED <<lock, job>>
    <2>1. /\ "remove" \in Label \ {"start"}
          /\ ShapeOK("remove", job[p]) /\ Follows(pc[p], "remove", job[p].fresh)
      BY <1>1, Local DEF ShapeOK, Locked, Label, Unread, Follows, Held
    <2> QED BY <1>1, <1>2, <1>4, <2>1, Local, StayOK
  <1> QED BY <1>3, <1>4 DEF TerminateKill

\* reconcilePlan leaves at most the kept process of the reference.
LEMMA ReconcileBridgesOK ==
    ASSUME IndInv, NEW p \in Proc, ReconcileBridges(p)
    PROVE  StepOK(p)
  <1> DEFINE n == job[p].name
             rec == job[p].managed
  <1>1. UNCHANGED <<record, tmux>> /\ pc[p] = "bridge"
    BY DEF ReconcileBridges
  <1>2. PICK keep \in Keepers(n, rec) :
          \/ /\ StopBridges(Verified(n, rec) \ {keep})
             /\ Goto(p, IF keep = None THEN "start" ELSE "secure")
             /\ job' = [job EXCEPT ![p].pid = keep]
             /\ UNCHANGED lock
          \/ /\ \E S \in SUBSET (Verified(n, rec) \ {keep}) : StopBridges(S)
             /\ EnsureFailed(p)
    BY DEF ReconcileBridges
  <1>3. keep \in Pid \cup {None} /\ Verified(n, rec) \in SUBSET Pid
    BY DEF Keepers, Current, Verified
  <1>4. CASE /\ \E S \in SUBSET (Verified(n, rec) \ {keep}) : StopBridges(S)
             /\ EnsureFailed(p)
    <2>1. PICK S \in SUBSET Pid : StopBridges(S)
      BY <1>3, <1>4
    <2> QED BY <1>1, <1>4, <2>1, Local, StopTypes, EnsureFailedOK
  <1>5. CASE /\ StopBridges(Verified(n, rec) \ {keep})
             /\ Goto(p, IF keep = None THEN "start" ELSE "secure")
             /\ job' = [job EXCEPT ![p].pid = keep]
             /\ UNCHANGED lock
    <2> DEFINE l == IF keep = None THEN "start" ELSE "secure"
               j == [job[p] EXCEPT !.pid = keep]
    <2>1. job[p] \in Job
      BY Local
    <2>2. j \in Job /\ Similar(j, job[p])
      <3>1. j \in Job
        BY <1>3, <2>1, JobUpdates
      <3>2. Similar(j, job[p])
        BY <2>1 DEF Similar, Job
      <3> QED BY <3>1, <3>2
    <2>3. job' = [job EXCEPT ![p] = j]
      BY <1>5
    <2>4. ShapeOK(l, job[p]) /\ Follows(pc[p], l, job[p].fresh)
      BY <1>1, Local DEF ShapeOK, Locked, Label, Unread, Follows, Held
    <2>5. /\ bridge' \in [Pid -> Bridge] /\ socket' \in [Name -> Pid \cup {None, "stale"}]
          /\ \A pid \in Pid : bridge'[pid] = IF pid \in Verified(n, rec) \ {keep}
                                             THEN NoBridge ELSE bridge[pid]
      BY <1>3, <1>5, Local, StopTypes
    <2>6. ASSUME l = "start", NEW pid \in Pid
          PROVE  bridge'[pid].base # rec.ref
      <3>1. keep = None /\ keep \notin Pid
        BY <2>6, NoneAssumption
      <3>2. /\ pc[p] \in Locked /\ rec.ref # None /\ job[p].name \in Name
            /\ HoldsRecord(p) \/ job[p].fresh
        BY <1>1, Local DEF ShapeOK, Canonical, HoldsRecord, Locked, Label, Unread
      <3>3. CASE bridge[pid].base = rec.ref
        <4>1. bridge[pid].form = "safe" /\ bridge[pid].name = n
          <5>1. HoldsRecord(p) => record[n].ref = rec.ref
            BY Local DEF CopyOK
          <5> QED BY <3>2, <3>3, <5>1 DEF IndInv, BridgeHome
        <4>2. pid \in Verified(n, rec) \ {keep}
          BY <3>1, <3>3, <4>1 DEF Verified
        <4> QED BY <2>5, <3>2, <4>2 DEF NoBridge
      <3>4. CASE bridge[pid].base # rec.ref
        BY <2>5, <3>2, <3>4 DEF NoBridge
      <3> QED BY <3>3, <3>4
    <2>7. Goto(p, l)
      BY <1>5
    <2>8. \A pid \in Pid : bridge'[pid] \in {NoBridge, bridge[pid]}
      BY <2>5
    <2> HIDE DEF l, j
    <2> QED BY <1>1, <1>5, <2>2, <2>3, <2>4, <2>5, <2>6, <2>7, <2>8, Local, MoveOK
  <1> QED BY <1>2, <1>4, <1>5

\* new-session gives the operation a record with a reference nothing uses.
LEMMA CreateManagedSessionOK ==
    ASSUME IndInv, NEW p \in Proc, CreateManagedSession(p)
    PROVE  StepOK(p)
  <1>1. UNCHANGED <<record, bridge, socket, lock>> /\ pc[p] = "create"
    BY DEF CreateManagedSession
  <1>2. tmux' \in [Name -> {"none", "managed", "unmanaged"}]
    BY Local DEF CreateManagedSession
  <1>3. CASE Goto(p, "undo") /\ UNCHANGED job
    <2>1. /\ "undo" \in Label \ {"start"}
          /\ ShapeOK("undo", job[p]) /\ Follows(pc[p], "undo", job[p].fresh)
      BY <1>1, Local DEF ShapeOK, Locked, Label, Unread, Follows, Held
    <2> QED BY <1>1, <1>2, <1>3, <2>1, Local, StayOK
  <1>4. ASSUME NEW r \in Ref, ~InUse(r), Goto(p, "bridge"),
               job' = [job EXCEPT ![p].managed = [kind |-> "ok", ref |-> r, pid |-> None,
                                                  named |-> TRUE],
                                  ![p].fresh = TRUE]
        PROVE  StepOK(p)
    <2> DEFINE x == [kind |-> "ok", ref |-> r, pid |-> None, named |-> TRUE]
               j == [job[p] EXCEPT !.managed = x, !.fresh = TRUE]
    <2>1. x \in Record /\ Canonical(x) /\ x.ref = r
      BY NoneAssumption DEF Record, Canonical
    <2>2. job[p] \in Job /\ job[p].op = "create" /\ job[p].name \in Name
      BY <1>1, Local DEF ShapeOK
    <2>3. j \in Job
      <3> HIDE DEF x
      <3> QED BY <2>1, <2>2, JobUpdates
    <2>4. /\ j.managed = x /\ j.fresh /\ j.op = "create" /\ j.name = job[p].name
          /\ j.found = job[p].found
      <3> HIDE DEF x
      <3> QED BY <2>2 DEF Job
    <2>5. job' = [job EXCEPT ![p] = j]
      BY <1>4
    <2> HIDE DEF x, j
    <2>6. ShapeOK("bridge", j)
      BY <2>1, <2>2, <2>4 DEF ShapeOK, Locked, Label, Unread
    <2>7. "bridge" \in Label /\ "bridge" \in Locked /\ pc[p] \in Locked
      BY <1>1 DEF Label, Locked
    <2>8. Control(p) /\ pc'[p] = "bridge" /\ job'[p] = j
      BY <1>1, <1>4, <2>3, <2>4, <2>5, <2>6, <2>7, Local, Rejob
    <2>9. CopyOK(p)'
      <3>1. record[job[p].name].kind # "ok"
        BY <1>1, Local DEF CopyOK, Creating, Undoing
      <3> QED BY <1>1, <2>4, <2>8, <3>1 DEF CopyOK, HoldsRecord, Creating
    <2>10. TypeOK'
      BY <1>1, <1>2, <2>8, Local DEF TypeOK, Control
    <2>11. RecordStep(p) /\ BridgeStep(p) /\ FreshStep(p) /\ ClearStep(p)
      BY <1>1, <1>4, <2>1, <2>4, <2>8 DEF RecordStep, BridgeStep, FreshStep, ClearStep
    <2>12. SettledOK(job[p])'
      BY <1>1, <2>4, <2>8, Local DEF SettledOK, Settled, Canonical
    <2> QED BY <2>8, <2>9, <2>10, <2>11, <2>12 DEF StepOK
  <1> QED BY <1>3, <1>4 DEF CreateManagedSession

\* bridge.go start: the new ttyd carries the reference of the record at hand.
LEMMA StartBridgeOK ==
    ASSUME IndInv, NEW p \in Proc, StartBridge(p)
    PROVE  StepOK(p)
  <1> DEFINE n == job[p].name
             new == [name |-> n, base |-> job[p].managed.ref, form |-> "safe",
                     bound |-> FALSE]
  <1>1. UNCHANGED <<record, tmux>> /\ pc[p] = "start"
    BY DEF StartBridge
  <1>2. socket' \in [Name -> Pid \cup {None, "stale"}]
    BY <1>1, Local DEF StartBridge, ShapeOK
  <1>3. CASE UNCHANGED bridge /\ EnsureFailed(p)
    BY <1>1, <1>2, <1>3, Local, EnsureFailedOK
  <1>4. ASSUME NEW pid \in Pid, bridge' = [bridge EXCEPT ![pid] = new],
               job' = [job EXCEPT ![p].pid = pid], Goto(p, "await"), UNCHANGED lock
        PROVE  StepOK(p)
    <2> DEFINE j == [job[p] EXCEPT !.pid = pid]
    <2>1. job[p] \in Job
      BY Local
    <2>2. j \in Job /\ Similar(j, job[p])
      <3>1. j \in Job
        BY <2>1, JobUpdates
      <3>2. Similar(j, job[p])
        BY <2>1 DEF Similar, Job
      <3> QED BY <3>1, <3>2
    <2>3. new \in Bridge
      <3>1. job[p].managed.ref \in Ref \cup {None} /\ n \in Name \cup {None}
        BY <2>1 DEF Job, Record
      <3> QED BY <3>1 DEF Bridge
    <2>4. bridge' \in [Pid -> Bridge]
      <3> HIDE DEF new
      <3> QED BY <1>4, <2>3, Local
    <2>5. job' = [job EXCEPT ![p] = j]
      BY <1>4
    <2> HIDE DEF j
    <2>6. /\ ShapeOK("await", j)
          /\ "await" \in Label /\ "await" \in Locked /\ pc[p] \in Locked
          /\ j.name = job[p].name
      BY <1>1, <2>2, Local DEF ShapeOK, Similar, Locked, Label, Unread
    <2>7. Control(p) /\ pc'[p] = "await" /\ job'[p] = j
      BY <1>4, <2>2, <2>5, <2>6, Local, Rejob
    <2>8. CopyOK(p)'
      <3>1. CopyOK(p)
        BY Local
      <3> QED BY <1>1, <2>2, <2>7, <3>1
               DEF CopyOK, HoldsRecord, Creating, Undoing, Locked, Label, Similar
    <2>9. TypeOK'
      BY <1>1, <1>2, <2>4, <2>7, Local DEF TypeOK, Control
    <2>10. RecordStep(p) /\ BridgeStep(p) /\ FreshStep(p) /\ ClearStep(p)
      BY <1>1, <1>4, <2>2, <2>7
         DEF RecordStep, BridgeStep, FreshStep, ClearStep, Similar
    <2>11. SettledOK(job[p])'
      BY <1>1, <2>2, <2>7, Local DEF SettledOK, Settled, Canonical, Similar
    <2> QED BY <2>7, <2>8, <2>9, <2>10, <2>11 DEF StepOK
  <1> QED BY <1>3, <1>4 DEF StartBridge

\* ensureBridgeLocked returns a session that is recorded under its reference.
LEMMA ReturnFoundOK ==
    ASSUME IndInv, NEW p \in Proc,
           pc[p] \in {"environ", "write"}, UNCHANGED <<tmux, bridge, socket>>,
           Return(p, FALSE, IF job[p].managed.ref = job[p].expected
                            THEN job[p].name ELSE job[p].found),
           RecordStep(p), record' \in [Name -> Record],
           Canonical(record'[job[p].name])
    PROVE  StepOK(p)
  <1> DEFINE found == IF job[p].managed.ref = job[p].expected
                      THEN job[p].name ELSE job[p].found
  <1>1. found \in Name \cup {None} /\ job[p].name \in Name
    BY Local DEF Job, ShapeOK
  <1>2. Return(p, FALSE, found)
    OBVIOUS
  <1>3. found \in {job[p].name, job[p].found}
    OBVIOUS
  <1> HIDE DEF found
  <1>4. /\ Control(p) /\ pc'[p] \in {"idle", "next"} /\ ~job'[p].fresh
        /\ job'[p].found \in {found, None} /\ job'[p].op \in {"none", "reconcile"}
    <2>1. TypeOK
      BY Local
    <2> QED BY ONLY <1>1, <1>2, <2>1, p \in Proc, Leave
  <1>5. TypeOK'
    BY <1>4, Local DEF Control, TypeOK
  <1>6. CopyOK(p)'
    BY <1>4 DEF CopyOK, HoldsRecord, Creating, Locked
  <1>7. BridgeStep(p) /\ FreshStep(p) /\ ClearStep(p)
    BY <1>4 DEF BridgeStep, FreshStep, ClearStep
  <1>8. \A n \in Name : Settled(n) \/ n = job[p].name =>
              (record'[n].kind = "ok" => Canonical(record'[n]))
    <2>1. record \in [Name -> Record]
      BY Local
    <2> QED BY <2>1 DEF Settled, Canonical, RecordStep
  <1>9. SettledOK(job[p])'
    <2>1. job[p].found # None => job[p].found \in Name /\ Settled(job[p].found)
      BY Local DEF SettledOK, Job
    <2>2. job'[p].found # None =>
            (record'[job'[p].found].kind = "ok" => Canonical(record'[job'[p].found]))
      BY <1>1, <1>3, <1>4, <1>8, <2>1
    <2> QED BY <1>4, <2>2 DEF SettledOK, Settled, Canonical
  <1> QED BY <1>4, <1>5, <1>6, <1>7, <1>9 DEF StepOK

\* SetSessionEnvironment keeps the shape.
LEMMA RestoreEnvironmentOK ==
    ASSUME IndInv, NEW p \in Proc, RestoreEnvironment(p)
    PROVE  StepOK(p)
  <1>1. UNCHANGED <<record, tmux, bridge, socket>> /\ pc[p] = "environ"
    BY DEF RestoreEnvironment
  <1>2. CASE Fail(p)
    BY <1>1, <1>2, Local, FailOK
  <1>3. CASE Goto(p, "write") /\ UNCHANGED <<lock, job>>
    <2>1. /\ "write" \in Label \ {"start"}
          /\ ShapeOK("write", job[p]) /\ Follows(pc[p], "write", job[p].fresh)
      BY <1>1, Local DEF ShapeOK, Locked, Label, Unread, Follows, Held
    <2> QED BY <1>1, <1>3, <2>1, Local, StayOK
  <1>4. CASE Return(p, FALSE, IF job[p].managed.ref = job[p].expected
                              THEN job[p].name ELSE job[p].found)
    <2>1. record[job[p].name] = job[p].managed /\ Canonical(job[p].managed)
      BY <1>1, Local DEF CopyOK, HoldsRecord, ShapeOK, Locked, Label, Unread
    <2> QED BY <1>1, <1>4, <2>1, Local, ReturnFoundOK DEF RecordStep
  <1> QED BY <1>2, <1>3, <1>4 DEF RestoreEnvironment

\* Where a step that fails, returns or moves on leads.
LEMMA NextLabel ==
    ASSUME TypeOK, NEW p \in Proc
    PROVE  /\ \A l : Goto(p, l) => pc'[p] = l
           /\ \A f, g : Return(p, f, g) => pc'[p] \in {"idle", "next"}
           /\ Fail(p) \/ Done(p) => pc'[p] \in {"idle", "next"}
           /\ EnsureFailed(p) => pc'[p] \in {"idle", "next", "rollback"}
  <1>1. ASSUME NEW l, Goto(p, l) PROVE pc'[p] = l
    BY <1>1 DEF Goto, TypeOK
  <1>2. ASSUME NEW f, NEW g, Return(p, f, g) PROVE pc'[p] \in {"idle", "next"}
    BY <1>1, <1>2 DEF Return
  <1>3. Fail(p) \/ Done(p) => pc'[p] \in {"idle", "next"}
    BY <1>2 DEF Fail, Done
  <1> QED BY <1>1, <1>2, <1>3 DEF EnsureFailed

\* A step that may touch the record of its name.
LEMMA AssembleRecord ==
    ASSUME IndInv, NEW p \in Proc, Control(p), CopyOK(p)', RecordStep(p), FreshStep(p),
           record' \in [Name -> Record],
           tmux' = tmux, bridge' = bridge,
           socket' \in [Name -> Pid \cup {None, "stale"}],
           pc'[p] # "start",
           job'[p].found \in {job[p].found, None},
           job'[p].op \in {"use", "terminate"}
              => /\ job'[p].name \in Name
                 /\ Settled(job'[p].name)
    PROVE  StepOK(p)
  <1>1. TypeOK'
    BY Local DEF Control, TypeOK
  <1>2. BridgeStep(p) /\ ClearStep(p)
    BY DEF BridgeStep, ClearStep
  <1>3. \A n \in Name : Settled(n) => (record'[n].kind = "ok" => Canonical(record'[n]))
    BY Local DEF RecordStep, Settled, Canonical
  <1>4. SettledOK(job[p])'
    <2>1. job[p].found # None => job[p].found \in Name /\ Settled(job[p].found)
      BY Local DEF SettledOK, Job
    <2> QED BY <1>3, <2>1 DEF SettledOK, Settled, Canonical
  <1> QED BY <1>1, <1>2, <1>4 DEF StepOK

\* An operation returns after it has touched the record.
LEMMA FailRecordOK ==
    ASSUME IndInv, NEW p \in Proc, Fail(p) \/ Done(p), RecordStep(p),
           record' \in [Name -> Record], tmux' = tmux, bridge' = bridge,
           socket' \in [Name -> Pid \cup {None, "stale"}]
    PROVE  StepOK(p)
  <1>1. /\ Control(p) /\ pc'[p] \in {"idle", "next"} /\ ~job'[p].fresh
        /\ job'[p].found \in {job[p].found, None} /\ job'[p].op \in {"none", "reconcile"}
    BY Local, LeaveEarly
  <1>2. CopyOK(p)' /\ FreshStep(p)
    BY <1>1 DEF CopyOK, HoldsRecord, Creating, Locked, FreshStep
  <1> QED BY <1>1, <1>2, AssembleRecord

\* Store.Write, complete or failing before or after its rename, keeps the shape.
LEMMA WriteRecordOK ==
    ASSUME IndInv, NEW p \in Proc, WriteRecord(p)
    PROVE  StepOK(p)
  <1> DEFINE n == job[p].name
             x == [job[p].managed EXCEPT !.pid = job[p].pid]
  <1>1. /\ UNCHANGED <<tmux, bridge, socket>> /\ pc[p] = "write" /\ pc[p] \in Locked
    BY DEF WriteRecord, Locked, Label
  <1>2. n \in Name /\ Canonical(job[p].managed) /\ job[p] \in Job
    BY <1>1, Local DEF ShapeOK, Locked, Label, Unread
  <1>3. x \in Record /\ Canonical(x) /\ x.ref = job[p].managed.ref
    <2>1. job[p].managed \in Record /\ job[p].pid \in Pid \cup {None}
      BY <1>2 DEF Job
    <2> QED BY <1>2, <2>1 DEF Record, Canonical
  <1>4. HoldsRecord(p) \/ job[p].fresh
    BY <1>1 DEF HoldsRecord
  <1>5. HoldsRecord(p) => record[n].ref = x.ref
    BY <1>3, Local DEF CopyOK
  <1>6. CASE record' = [record EXCEPT ![n] = x]
    <2> HIDE DEF x
    <2>6. \/ Return(p, FALSE, IF job[p].managed.ref = job[p].expected
                             THEN n ELSE job[p].found)
          \/ EnsureFailed(p)
      BY DEF WriteRecord
    <2>1. RecordStep(p)
      <3>1. pc'[p] # "act"
        BY <2>6, NextLabel, Local
      <3>2. Canonical(record[n]) => x.ref = record[n].ref
        BY <1>1, <1>4, <1>5, Local DEF CopyOK, Creating, Undoing, Canonical
      <3> QED BY <1>1, <1>3, <1>4, <1>5, <1>6, <3>1, <3>2 DEF RecordStep
    <2>2. record' \in [Name -> Record] /\ record'[n] = x
      BY <1>2, <1>3, <1>6, Local
    <2>3. CASE Return(p, FALSE, IF job[p].managed.ref = job[p].expected
                                THEN n ELSE job[p].found)
      BY <1>1, <1>3, <2>1, <2>2, <2>3, ReturnFoundOK
    <2>4. CASE EnsureFailed(p) /\ ~job[p].fresh
      <3>1. Fail(p)
        BY <2>4 DEF EnsureFailed
      <3> QED BY <1>1, <2>1, <2>2, <3>1, Local, FailRecordOK
    <2>5. CASE EnsureFailed(p) /\ job[p].fresh
      <3>1. /\ Goto(p, "rollback") /\ lock' = lock /\ job' = job
            /\ "rollback" \in Locked
            /\ ShapeOK("rollback", job[p])
        BY <1>1, <2>5, Local DEF EnsureFailed, ShapeOK, Locked, Label, Unread
      <3>2. Control(p) /\ pc'[p] = "rollback" /\ job'[p] = job[p]
        BY <1>1, <3>1, Local, Stay
      <3>3. CopyOK(p)'
        BY <1>3, <2>2, <2>5, <3>2 DEF CopyOK, HoldsRecord, Undoing, Locked
      <3>4. FreshStep(p)
        BY <2>5, <3>2 DEF FreshStep
      <3>5. job[p].op = "create"
        BY <2>5, Local DEF ShapeOK
      <3> QED BY <1>1, <2>1, <2>2, <3>2, <3>3, <3>4, <3>5, Local, AssembleRecord
    <2> QED BY <2>3, <2>4, <2>5, <2>6
  <1>7. CASE record' = record /\ EnsureFailed(p)
    BY <1>1, <1>7, Local, EnsureFailedOK
  <1> QED BY <1>6, <1>7 DEF WriteRecord

\* removeArtifacts, complete or not, keeps the shape.
LEMMA RemoveArtifactsOK ==
    ASSUME IndInv, NEW p \in Proc, RemoveArtifacts(p)
    PROVE  StepOK(p)
  <1> DEFINE n == job[p].name
  <1>1. UNCHANGED <<tmux, bridge>> /\ pc[p] = "remove" /\ pc[p] \in Locked
    BY DEF RemoveArtifacts, Locked, Label
  <1>2. n \in Name /\ job[p] \in Job
    BY <1>1, Local DEF ShapeOK
  <1>3. socket' \in [Name -> Pid \cup {None, "stale"}]
    BY <1>2, Local DEF RemoveArtifacts
  <1>4. CASE UNCHANGED record /\ Fail(p)
    BY <1>1, <1>3, <1>4, Local, FailOK
  <1>5. CASE record' = [record EXCEPT ![n] = NoRecord]
    <2>1. /\ RecordStep(p) /\ record' \in [Name -> Record] /\ record'[n] = NoRecord
      <3>1. pc'[p] # "act"
        BY NextLabel, Local DEF RemoveArtifacts
      <3> QED BY <1>1, <1>2, <1>5, <3>1, Local, ConstantTypes DEF RecordStep, NoRecord
    <2>2. CASE Done(p)
      BY <1>1, <1>3, <2>1, <2>2, FailRecordOK
    <2>3. CASE /\ job[p].op = "create" /\ ~job[p].fresh
               /\ Goto(p, "probe")
               /\ job' = [job EXCEPT ![p].managed = NoRecord]
               /\ UNCHANGED lock
      <3> DEFINE j == [job[p] EXCEPT !.managed = NoRecord]
      <3>1. j \in Job
        BY <1>2, ConstantTypes, JobUpdates
      <3>2. /\ j.managed = NoRecord /\ j.fresh = job[p].fresh /\ j.op = job[p].op
            /\ j.name = n /\ j.found = job[p].found
        BY <1>2 DEF Job
      <3>3. job' = [job EXCEPT ![p] = j]
        BY <2>3
      <3> HIDE DEF j
      <3>4. ShapeOK("probe", j) /\ "probe" \in Label /\ "probe" \in Locked
        BY <1>2, <2>3, <3>2 DEF ShapeOK, Locked, Label, Unread
      <3>5. Control(p) /\ pc'[p] = "probe" /\ job'[p] = j
        BY <1>1, <2>3, <3>1, <3>2, <3>3, <3>4, Local, Rejob
      <3>6. CopyOK(p)' /\ FreshStep(p)
        BY <2>1, <2>3, <3>2, <3>5 DEF CopyOK, HoldsRecord, FreshStep, NoRecord
      <3> QED BY <1>1, <1>3, <2>1, <2>3, <3>2, <3>5, <3>6, AssembleRecord
    <2> QED BY <1>4, <2>2, <2>3 DEF RemoveArtifacts
  <1> QED BY <1>4, <1>5 DEF RemoveArtifacts

\* The record an operation goes on with is the durable one.
LEMMA ProceedOK ==
    ASSUME IndInv, NEW p \in Proc, pc[p] = "read",
           UNCHANGED <<tmux, bridge, socket>>, RecordStep(p), record' \in [Name -> Record],
           Canonical(record'[job[p].name]), Proceed(p, record'[job[p].name])
    PROVE  StepOK(p)
  <1> DEFINE rec == record'[job[p].name]
  <1>1. job[p].name \in Name /\ job[p] \in Job /\ ~job[p].fresh /\ pc[p] \in Locked
    BY Local DEF ShapeOK, Unread, Locked, Label
  <1>2. rec \in Record
    BY <1>1
  <1>3. CASE Fail(p)
    BY <1>3, Local, FailRecordOK
  <1>4. CASE /\ ~(job[p].op = "terminate" /\ rec.ref # job[p].expected)
             /\ Goto(p, IF job[p].op = "terminate" THEN "stop" ELSE "check")
             /\ job' = [job EXCEPT ![p].managed = rec]
             /\ UNCHANGED lock
    <2> DEFINE j == [job[p] EXCEPT !.managed = rec]
               l == IF job[p].op = "terminate" THEN "stop" ELSE "check"
    <2>1. j \in Job
      BY <1>1, <1>2, JobUpdates
    <2>2. /\ j.managed = rec /\ j.fresh = job[p].fresh /\ j.op = job[p].op
          /\ j.name = job[p].name /\ j.found = job[p].found /\ j.expected = job[p].expected
      BY <1>1 DEF Job
    <2>3. job' = [job EXCEPT ![p] = j] /\ Goto(p, l)
      BY <1>4
    <2>4. l \in {"stop", "check"} /\ (j.op = "terminate" => l = "stop")
      BY <2>2
    <2> HIDE DEF j, l
    <2>5. ShapeOK(l, j) /\ l \in Label /\ l \in Locked
      BY <1>1, <1>4, <2>2, <2>4 DEF ShapeOK, Locked, Label, Unread
    <2>6. Control(p) /\ pc'[p] = l /\ job'[p] = j
      <3>1. pc[p] \in Locked /\ l \in Locked /\ j.name = job[p].name /\ lock' = lock
        BY <1>1, <1>4, <2>2, <2>5
      <3>2. TypeOK
        BY Local
      <3> QED BY ONLY p \in Proc, <2>1, <2>3, <2>5, <3>1, <3>2, Rejob
    <2>7. CopyOK(p)' /\ FreshStep(p)
      BY <1>1, <2>2, <2>4, <2>6 DEF CopyOK, Creating, FreshStep
    <2>8. job'[p].op \in {"use", "terminate"} => Settled(job'[p].name)
      BY <2>2, <2>6, Local DEF SettledOK
    <2> QED BY <1>1, <2>2, <2>4, <2>6, <2>7, <2>8, Local, AssembleRecord
  <1> QED BY <1>3, <1>4 DEF Proceed

\* readManaged, with or without a migration of the record, keeps the shape.
LEMMA ReadManagedOK ==
    ASSUME IndInv, NEW p \in Proc, ReadManaged(p)
    PROVE  StepOK(p)
  <1> DEFINE n == job[p].name
  <1>1. UNCHANGED <<tmux, bridge, socket>> /\ pc[p] = "read" /\ pc[p] \in Locked
    BY DEF ReadManaged, Locked, Label
  <1>2. n \in Name /\ record[n] \in Record
    BY <1>1, Local DEF ShapeOK
  <1>3. CASE UNCHANGED record /\ (Fail(p) \/ Done(p))
    BY <1>1, <1>3, Local, FailOK
  <1>4. CASE /\ record[n].kind # "ok" /\ UNCHANGED record
             /\ job[p].op = "create" /\ Goto(p, "probe") /\ UNCHANGED <<lock, job>>
    <2>1. /\ "probe" \in Locked /\ ShapeOK("probe", job[p]) /\ ~job[p].fresh
      BY <1>1, <1>4, Local DEF ShapeOK, Locked, Label, Unread
    <2>2. Control(p) /\ pc'[p] = "probe" /\ job'[p] = job[p]
      BY <1>1, <1>4, <2>1, Local, Stay
    <2>3. CopyOK(p)' /\ FreshStep(p) /\ RecordStep(p)
      BY <1>4, <2>1, <2>2 DEF CopyOK, HoldsRecord, FreshStep, RecordStep
    <2> QED BY <1>1, <1>4, <2>2, <2>3, Local, AssembleRecord
  <1>5. CASE Canonical(record[n]) /\ UNCHANGED record /\ Proceed(p, record[n])
    <2>1. RecordStep(p)
      BY <1>5 DEF RecordStep
    <2> QED BY <1>1, <1>5, <2>1, Local, ProceedOK
  <1>6. ASSUME NEW r \in Ref, record[n].kind = "ok", ~Canonical(record[n]),
               IF record[n].ref = None THEN ~InUse(r) ELSE r = record[n].ref,
               record' = [record EXCEPT ![n].ref = r, ![n].named = TRUE],
               Proceed(p, record'[n]) \/ Fail(p)
        PROVE  StepOK(p)
    <2> DEFINE x == [record[n] EXCEPT !.ref = r, !.named = TRUE]
    <2>1. x \in Record
      BY <1>2, RecordUpdates
    <2>2. x.kind = "ok" /\ x.ref = r /\ Canonical(x)
      BY <1>2, <1>6, NoneAssumption DEF Record, Canonical
    <2>3. record' = [record EXCEPT ![n] = x]
      BY <1>6
    <2> HIDE DEF x
    <2>4. record' \in [Name -> Record] /\ record'[n] = x
      BY <1>2, <2>1, <2>3, Local
    <2>5. RecordStep(p)
      <3>1. pc'[p] # "act"
        BY <1>6, NextLabel, Local DEF Proceed
      <3> QED BY <1>1, <1>6, <2>1, <2>2, <2>3, <3>1 DEF RecordStep
    <2>6. CASE Fail(p)
      BY <1>1, <2>4, <2>5, <2>6, Local, FailRecordOK
    <2>7. CASE Proceed(p, record'[n])
      BY <1>1, <2>2, <2>4, <2>5, <2>7, ProceedOK
    <2> QED BY <1>6, <2>6, <2>7
  <1> QED BY <1>3, <1>4, <1>5, <1>6 DEF ReadManaged

\* Steps outside the lock: the local variables are replaced.
LEMMA OutsideOK ==
    ASSUME IndInv, NEW p \in Proc, NEW l \in Label, NEW j \in Job,
           pc[p] \notin Locked, l \notin Locked,
           Goto(p, l), job' = [job EXCEPT ![p] = j],
           UNCHANGED <<record, tmux, bridge, socket, lock>>,
           ShapeOK(l, j), SettledOK(j)
    PROVE  StepOK(p)
  <1>1. Control(p) /\ pc'[p] = l /\ job'[p] = j
    BY Local, Rejob
  <1>2. ~j.fresh /\ l # "start"
    BY DEF ShapeOK, Locked, Label
  <1>3. CopyOK(p)' /\ RecordStep(p) /\ BridgeStep(p) /\ FreshStep(p) /\ ClearStep(p)
    BY <1>1, <1>2 DEF CopyOK, HoldsRecord, Creating, RecordStep, BridgeStep,
                      FreshStep, ClearStep, Locked, Label
  <1>4. TypeOK'
    BY <1>1, Local DEF Control, TypeOK
  <1>5. SettledOK(job[p])'
    BY <1>1 DEF SettledOK, Settled, Canonical
  <1> QED BY <1>1, <1>3, <1>4, <1>5 DEF StepOK

\* The start of a create or of EnsureBridge keeps the shape.
LEMMA StartOnOK ==
    ASSUME IndInv, NEW p \in Proc, NEW n \in Name, NEW op \in {"create", "ensure"},
           StartOn(p, op, n)
    PROVE  StepOK(p)
  <1> DEFINE j == [NoJob EXCEPT !.op = op, !.name = n]
  <1>1. j \in Job
    BY ConstantTypes DEF Job, Operation
  <1>2. /\ j.op = op /\ j.name = n /\ j.managed = NoRecord /\ ~j.fresh /\ j.found = None
    BY DEF NoJob
  <1>3. /\ job' = [job EXCEPT ![p] = j] /\ Goto(p, "lock") /\ pc[p] = "idle"
        /\ UNCHANGED <<record, tmux, bridge, socket, lock>>
    BY DEF StartOn
  <1> HIDE DEF j
  <1>4. /\ ShapeOK("lock", j) /\ SettledOK(j) /\ "lock" \in Label
        /\ "lock" \notin Locked /\ pc[p] \notin Locked
    BY <1>2, <1>3 DEF ShapeOK, SettledOK, Locked, Label, Unread
  <1> QED BY <1>1, <1>3, <1>4, OutsideOK

\* The start of List keeps the shape.
LEMMA StartListOK ==
    ASSUME IndInv, NEW p \in Proc, NEW goal \in {"none", "use", "terminate"},
           NEW r \in Ref \cup {None}, StartList(p, goal, r)
    PROVE  StepOK(p)
  <1> DEFINE j == [NoJob EXCEPT !.op = "reconcile", !.goal = goal, !.expected = r,
                                !.todo = {n \in Name : record[n].kind = "ok"}]
  <1>1. j \in Job
    BY ConstantTypes DEF Job, Operation
  <1>2. /\ j.op = "reconcile" /\ j.managed = NoRecord /\ ~j.fresh /\ j.found = None
    BY DEF NoJob
  <1>3. /\ job' = [job EXCEPT ![p] = j] /\ Goto(p, "next") /\ pc[p] = "idle"
        /\ UNCHANGED <<record, tmux, bridge, socket, lock>>
    BY DEF StartList
  <1> HIDE DEF j
  <1>4. /\ ShapeOK("next", j) /\ SettledOK(j) /\ "next" \in Label
        /\ "next" \notin Locked /\ pc[p] \notin Locked
    BY <1>2, <1>3 DEF ShapeOK, SettledOK, Locked, Label, Unread
  <1> QED BY <1>1, <1>3, <1>4, OutsideOK

\* List turns to its next record.
LEMMA ListNextOK ==
    ASSUME IndInv, NEW p \in Proc, ListNext(p)
    PROVE  StepOK(p)
  <1>1. PICK n \in job[p].todo : job' = [job EXCEPT ![p].name = n]
    BY DEF ListNext
  <1> DEFINE j == [job[p] EXCEPT !.name = n]
  <1>2. job[p] \in Job /\ n \in Name
    <2>1. job[p] \in Job
      BY Local
    <2> QED BY <2>1 DEF Job
  <1>3. j \in Job
    BY <1>2, JobUpdates
  <1>4. /\ j.op = job[p].op /\ j.name = n /\ j.managed = job[p].managed
        /\ j.fresh = job[p].fresh /\ j.found = job[p].found
    BY <1>2 DEF Job
  <1>5. /\ job' = [job EXCEPT ![p] = j] /\ Goto(p, "lock") /\ pc[p] = "next"
        /\ UNCHANGED <<record, tmux, bridge, socket, lock>>
    BY <1>1 DEF ListNext
  <1> HIDE DEF j
  <1>6. /\ ShapeOK("lock", j) /\ SettledOK(j) /\ "lock" \in Label
        /\ "lock" \notin Locked /\ pc[p] \notin Locked
    BY <1>2, <1>4, <1>5, Local DEF ShapeOK, SettledOK, Locked, Label, Unread
  <1> QED BY <1>3, <1>5, <1>6, OutsideOK

\* List ends, and a request goes on with the session it found.
LEMMA ListDoneOK ==
    ASSUME IndInv, NEW p \in Proc, ListDone(p)
    PROVE  StepOK(p)
  <1>1. pc[p] = "next" /\ UNCHANGED <<record, tmux, bridge, socket, lock>>
    BY DEF ListDone
  <1>2. CASE Goto(p, "idle") /\ job' = [job EXCEPT ![p] = NoJob]
    <2>1. /\ ShapeOK("idle", NoJob) /\ SettledOK(NoJob) /\ "idle" \in Label
          /\ "idle" \notin Locked /\ pc[p] \notin Locked
      BY <1>1 DEF ShapeOK, SettledOK, Locked, Label, Unread, NoJob
    <2> QED BY <1>1, <1>2, <2>1, ConstantTypes, OutsideOK
  <1>3. CASE /\ job[p].found # None /\ job[p].goal # "none" /\ Goto(p, "lock")
             /\ job' = [job EXCEPT ![p] =
                  [NoJob EXCEPT !.op = job[p].goal, !.name = job[p].found,
                                !.expected = job[p].expected,
                                !.cancelled = job[p].cancelled]]
    <2> DEFINE j == [NoJob EXCEPT !.op = job[p].goal, !.name = job[p].found,
                                  !.expected = job[p].expected,
                                  !.cancelled = job[p].cancelled]
    <2>1. /\ job[p] \in Job /\ job[p].found \in Name
          /\ job[p].goal \in {"use", "terminate"} /\ Settled(job[p].found)
      <3>1. job[p] \in Job /\ SettledOK(job[p])
        BY Local
      <3> QED BY <1>3, <3>1 DEF Job, SettledOK
    <2>2. j \in Job
      BY <2>1, ConstantTypes DEF Job, Operation
    <2>3. /\ j.op = job[p].goal /\ j.name = job[p].found
          /\ j.managed = NoRecord /\ ~j.fresh /\ j.found = None
      BY DEF NoJob
    <2>4. job' = [job EXCEPT ![p] = j]
      BY <1>3
    <2> HIDE DEF j
    <2>5. /\ ShapeOK("lock", j) /\ SettledOK(j) /\ "lock" \in Label
          /\ "lock" \notin Locked /\ pc[p] \notin Locked
      BY <1>1, <2>1, <2>3 DEF ShapeOK, SettledOK, Locked, Label, Unread
    <2> QED BY <1>1, <1>3, <2>2, <2>4, <2>5, OutsideOK
  <1> QED BY <1>2, <1>3 DEF ListDone

\* lock.go: flock is granted when nobody holds it.
LEMMA AcquireLockOK ==
    ASSUME IndInv, NEW p \in Proc, AcquireLock(p)
    PROVE  StepOK(p)
  <1>1. /\ pc[p] = "lock" /\ lock[job[p].name] = None /\ Goto(p, "read")
        /\ lock' = [lock EXCEPT ![job[p].name] = p]
        /\ UNCHANGED <<record, tmux, bridge, socket, job>>
        /\ "read" \in Label /\ "read" \in Locked /\ pc[p] \notin Locked
    BY DEF AcquireLock, Label, Locked
  <1>2. pc'[p] = "read" /\ pc' \in [Proc -> Label] /\ pc' = [pc EXCEPT ![p] = pc'[p]]
    BY <1>1, Local DEF Goto, TypeOK
  <1>3. ShapeOK("read", job[p])
    BY <1>1, Local DEF ShapeOK, Locked, Label, Unread
  <1>4. LockStep(p)
    BY <1>1, <1>2 DEF LockStep
  <1>5. lock' \in [Name -> Proc \cup {None}]
    BY <1>1, Local DEF TypeOK
  <1>6. Control(p)
    BY <1>1, <1>2, <1>3, <1>4, <1>5, Local DEF Control, TypeOK
  <1>7. CopyOK(p)'
    BY <1>1, <1>2, <1>3 DEF CopyOK, HoldsRecord, Creating, ShapeOK, Unread
  <1> QED BY <1>1, <1>2, <1>6, <1>7, Local, Assemble

\* A cancelled context changes nothing the invariant depends on.
LEMMA CancelStepOK ==
    ASSUME IndInv, NEW p \in Proc, Cancel(p)
    PROVE  StepOK(p)
  <1> DEFINE j == [job[p] EXCEPT !.cancelled = TRUE]
  <1>1. /\ job' = [job EXCEPT ![p] = j] /\ pc' = pc
        /\ UNCHANGED <<record, tmux, bridge, socket, lock>>
    BY DEF Cancel
  <1>2. job[p] \in Job /\ pc[p] \in Label /\ ShapeOK(pc[p], job[p]) /\ CopyOK(p)
    BY Local DEF TypeOK
  <1>3. j \in Job /\ Similar(j, job[p])
    <2>1. j \in Job
      BY <1>2, JobUpdates
    <2>2. Similar(j, job[p])
      BY <1>2 DEF Similar, Job
    <2> QED BY <2>1, <2>2
  <1> HIDE DEF j
  <1>4. Goto(p, pc[p])
    BY <1>1, Local DEF Goto, TypeOK
  <1>5. ShapeOK(pc[p], j)
    BY <1>2, <1>3 DEF ShapeOK, Similar
  <1>6. Control(p) /\ pc'[p] = pc[p] /\ job'[p] = j
    <2>1. j.name = job[p].name /\ TypeOK
      BY <1>3, Local DEF Similar
    <2> QED BY <1>1, <1>2, <1>3, <1>4, <1>5, <2>1, Rejob
  <1>7. CopyOK(p)'
    BY <1>1, <1>2, <1>3, <1>6 DEF CopyOK, HoldsRecord, Creating, Undoing, Similar
  <1>8. pc'[p] = "start" => \A pid \in Pid : bridge'[pid].base # job'[p].managed.ref
    BY <1>1, <1>3, <1>6 DEF IndInv, StartClear, Similar
  <1> QED BY <1>1, <1>3, <1>6, <1>7, <1>8, Local, Assemble DEF Similar

\* A crash drops the flock and every local variable.
LEMMA CrashOK ==
    ASSUME IndInv, NEW p \in Proc, Crash(p)
    PROVE  StepOK(p)
  <1>1. /\ UNCHANGED <<record, tmux, bridge, socket>>
        /\ Goto(p, "idle") /\ job' = [job EXCEPT ![p] = NoJob]
        /\ lock' = [n \in Name |-> IF lock[n] = p THEN None ELSE lock[n]]
    BY DEF Crash
  <1>2. /\ ShapeOK("idle", NoJob) /\ "idle" \in Label /\ "idle" \notin Locked
        /\ ~NoJob.fresh /\ NoJob.found = None /\ NoJob.op = "none"
    BY DEF ShapeOK, Locked, Label, Unread, NoJob
  <1>3. Control(p) /\ pc'[p] = "idle" /\ job'[p] = NoJob
    BY <1>1, <1>2, Local, ConstantTypes, Rejob
  <1> QED BY <1>1, <1>2, <1>3, Local, Assemble

\* Every step of a process has the shape above.
LEMMA ProcessStep ==
    ASSUME IndInv, NEW p \in Proc, Request(p) \/ Step(p) \/ Cancel(p) \/ Crash(p)
    PROVE  StepOK(p)
  <1>1. CASE Request(p)
    BY <1>1, StartOnOK, StartListOK DEF Request
  <1>2. CASE Step(p)
    BY <1>2, ListNextOK, ListDoneOK, AcquireLockOK, AbandonLockOK, ReadManagedOK,
       CheckAliveOK, UseSessionOK, UseReturnsOK, CleanupOK, RemoveArtifactsOK,
       ProbeNameOK, CreateManagedSessionOK, ConfigureSessionOK, ReconcileBridgesOK,
       SecureSocketOK, StartBridgeOK, AwaitBridgeOK, AbortBridgeOK,
       RestoreEnvironmentOK, WriteRecordOK, RollbackOK, UndoCheckOK, UndoKillOK,
       TerminateStopOK, TerminateCheckOK, TerminateKillOK
       DEF Step
  <1> QED BY <1>1, <1>2, CancelStepOK, CrashOK

-----------------------------------------------------------------------------
(* The environment.                                                        *)

\* Bridges and tmux sessions that come and go leave the invariant alone.
LEMMA EnvironmentPreserves ==
    ASSUME IndInv, UNCHANGED <<record, lock, pc, job>>,
           tmux' \in [Name -> {"none", "managed", "unmanaged"}],
           bridge' \in [Pid -> Bridge],
           socket' \in [Name -> Pid \cup {None, "stale"}],
           \A pid \in Pid : \/ bridge'[pid] = NoBridge
                            \/ /\ bridge'[pid].name = bridge[pid].name
                               /\ bridge'[pid].base = bridge[pid].base
                               /\ bridge'[pid].form = bridge[pid].form
    PROVE  IndInv'
  <1>1. TypeOK'
    BY DEF IndInv, TypeOK
  <1>2. Shape' /\ LockHeld' /\ CopyIsCurrent' /\ RefHome' /\ SettledInv'
    BY DEF IndInv, Shape, ShapeOK, Canonical, LockHeld, CopyIsCurrent, HoldsRecord,
           Creating, Undoing, RefHome, SettledInv, SettledOK, Settled
  <1>3. \A pid \in Pid : bridge'[pid].base # None =>
            /\ bridge'[pid].name = bridge[pid].name
            /\ bridge'[pid].base = bridge[pid].base
            /\ bridge'[pid].form = bridge[pid].form
    BY DEF NoBridge
  <1>4. BridgeHome' /\ OneBridgePerRef'
    BY <1>3 DEF IndInv, BridgeHome, OneBridgePerRef
  <1>5. StartClear'
    <2>1. \A p \in Proc : pc[p] = "start" => job[p].managed.ref # None
      BY DEF IndInv, Shape, ShapeOK, Canonical, Locked, Label, Unread
    <2> QED BY <1>3, <2>1 DEF IndInv, StartClear
  <1> QED BY <1>1, <1>2, <1>4, <1>5 DEF IndInv

\* A ttyd that binds its socket keeps the invariant.
LEMMA BridgeBindsOK ==
    ASSUME IndInv, NEW pid \in Pid, BridgeBinds(pid)
    PROVE  IndInv'
  <1> DEFINE b == [bridge[pid] EXCEPT !.bound = TRUE]
  <1>1. /\ bridge \in [Pid -> Bridge] /\ tmux \in [Name -> {"none", "managed", "unmanaged"}]
        /\ socket \in [Name -> Pid \cup {None, "stale"}]
    BY DEF IndInv, TypeOK
  <1>2. /\ b \in Bridge /\ b.name = bridge[pid].name /\ b.base = bridge[pid].base
        /\ b.form = bridge[pid].form
    <2>1. bridge[pid] \in Bridge
      BY <1>1
    <2> QED BY <2>1 DEF Bridge
  <1>3. bridge' = [bridge EXCEPT ![pid] = b]
    BY DEF BridgeBinds
  <1> HIDE DEF b
  <1>4. bridge' \in [Pid -> Bridge] /\ socket' \in [Name -> Pid \cup {None, "stale"}]
    BY <1>1, <1>2, <1>3 DEF BridgeBinds
  <1>5. \A c \in Pid : /\ bridge'[c].name = bridge[c].name
                       /\ bridge'[c].base = bridge[c].base
                       /\ bridge'[c].form = bridge[c].form
    BY <1>1, <1>2, <1>3
  <1> QED BY <1>1, <1>4, <1>5, EnvironmentPreserves DEF BridgeBinds

\* A ttyd that exits keeps the invariant.
LEMMA BridgeExitsOK ==
    ASSUME IndInv, NEW pid \in Pid, BridgeExits(pid)
    PROVE  IndInv'
  <1>1. TypeOK /\ tmux' \in [Name -> {"none", "managed", "unmanaged"}]
    BY DEF IndInv, TypeOK, BridgeExits
  <1>2. {pid} \in SUBSET Pid /\ StopBridges({pid})
    BY DEF BridgeExits
  <1>3. /\ bridge' \in [Pid -> Bridge] /\ socket' \in [Name -> Pid \cup {None, "stale"}]
        /\ \A c \in Pid : bridge'[c] \in {NoBridge, bridge[c]}
    BY <1>1, <1>2, StopTypes
  <1> QED BY <1>1, <1>3, EnvironmentPreserves DEF BridgeExits

\* A tmux session that exits or is started elsewhere keeps the invariant.
LEMMA TmuxChangesOK ==
    ASSUME IndInv, NEW n \in Name, TmuxExits(n) \/ UnmanagedStarts(n)
    PROVE  IndInv'
  <1>1. /\ tmux' \in [Name -> {"none", "managed", "unmanaged"}]
        /\ UNCHANGED <<record, lock, pc, job, bridge, socket>>
        /\ bridge \in [Pid -> Bridge] /\ socket \in [Name -> Pid \cup {None, "stale"}]
    BY DEF IndInv, TypeOK, TmuxExits, UnmanagedStarts
  <1> QED BY <1>1, EnvironmentPreserves

-----------------------------------------------------------------------------
(* Theorems.                                                               *)

\* A first start, or one on the state of an earlier release, satisfies the invariant.
LEMMA InitIndInv == Init => IndInv
  <1> SUFFICES ASSUME Init PROVE IndInv
    OBVIOUS
  <1> USE DEF Init
  <1>1. TypeOK
    <2>1. \A n \in Name : record[n] \in Record
      BY ConstantTypes DEF Record
    <2>2. \A pid \in Pid : bridge[pid] \in Bridge
      BY ConstantTypes, ZenonT(60) DEF Bridge
    <2> QED BY <2>1, <2>2, ConstantTypes DEF TypeOK, Label
  <1>2. Shape /\ LockHeld /\ SettledInv
    BY DEF Shape, ShapeOK, NoJob, Unread, Locked, LockHeld, SettledInv, SettledOK
  <1>3. CopyIsCurrent
    BY DEF CopyIsCurrent, HoldsRecord, Creating, Locked
  <1>4. \A n \in Name : record[n].ref = None
    BY DEF NoRecord, InvalidRecord
  <1>5. \A pid \in Pid : bridge[pid].base = None
    <2>1. \A pid \in Pid :
            \/ bridge[pid] = NoBridge
            \/ bridge[pid] \in [name: Name, base: {None}, bound: {TRUE},
                              form: {"plain", "relative"}]
      OBVIOUS
    <2>2. ASSUME NEW b \in [name: Name, base: {None}, bound: {TRUE},
                             form: {"plain", "relative"}]
          PROVE  b.base = None
      BY Zenon
    <2>3. NoBridge.base = None
      BY DEF NoBridge
    <2> HIDE DEF Init
    <2> QED BY <2>1, <2>2, <2>3, Zenon
  <1>6. RefHome /\ BridgeHome /\ StartClear /\ OneBridgePerRef
    BY <1>4, <1>5 DEF RefHome, BridgeHome, StartClear, OneBridgePerRef, NoJob
  <1> QED BY <1>1, <1>2, <1>3, <1>6 DEF IndInv

\* Every step keeps the invariant.
LEMMA NextIndInv == IndInv /\ [Next]_vars => IndInv'
  <1> SUFFICES ASSUME IndInv, [Next]_vars PROVE IndInv'
    OBVIOUS
  <1>1. CASE UNCHANGED vars
    BY <1>1 DEF vars, IndInv, TypeOK, Shape, ShapeOK, Canonical, LockHeld, CopyIsCurrent,
                HoldsRecord, Creating, Undoing, RefHome, BridgeHome, StartClear,
                OneBridgePerRef, SettledInv, SettledOK, Settled
  <1>2. ASSUME NEW p \in Proc, Request(p) \/ Step(p) \/ Cancel(p) \/ Crash(p)
        PROVE  IndInv'
    BY <1>2, ProcessStep, StepPreserves
  <1> QED BY <1>1, <1>2, BridgeBindsOK, BridgeExitsOK, TmuxChangesOK DEF Next, Environment

\* The inductive invariant holds in every reachable state of every instance.
THEOREM Inductive == Spec => []IndInv
  BY InitIndInv, NextIndInv, PTL DEF Spec

\* Every variable keeps its type under every lifecycle operation.
THEOREM TypeCorrect == Spec => []TypeOK
  BY Inductive, PTL DEF IndInv

\* lock.go: mutual exclusion per name, and no path leaks the flock.
THEOREM LockSafety == Spec => []LockHeld
  BY Inductive, PTL DEF IndInv

\* lifecycle.go: every later step of an operation works on the durable record.
THEOREM CopySafety == Spec => []CopyIsCurrent
  BY Inductive, PTL DEF IndInv

\* bridge.go: no public reference ever has two ttyd processes.
THEOREM BridgeSafety == Spec => []OneBridgePerRef
  BY Inductive, PTL DEF IndInv

-----------------------------------------------------------------------------
(* Termination acts on the session the request was authorised for.         *)

\* Only a create, its rollback and a termination change a tmux session.
LEMMA TmuxStep ==
    ASSUME NEW p \in Proc, Request(p) \/ Step(p) \/ Cancel(p) \/ Crash(p)
    PROVE  tmux' = tmux \/ pc[p] \in {"create", "undokill", "kill"}
  <1>1. Request(p) \/ Cancel(p) \/ Crash(p) => tmux' = tmux
    BY DEF Request, StartOn, StartList, Cancel, Crash
  <1>2. Step(p) => tmux' = tmux \/ pc[p] \in {"create", "undokill", "kill"}
    BY DEF Step, ListNext, ListDone, AcquireLock, AbandonLock, ReadManaged, CheckAlive,
           UseSession, UseReturns, Cleanup, RemoveArtifacts, ProbeName,
           CreateManagedSession, ConfigureSession, ReconcileBridges, SecureSocket,
           StartBridge, AwaitBridge, AbortBridge, RestoreEnvironment, WriteRecord,
           Rollback, UndoCheck, UndoKill, TerminateStop, TerminateCheck, TerminateKill
  <1> QED BY <1>1, <1>2

\* Only a removal, a write and the migration of an old record change a record.
LEMMA RecordStepLabel ==
    ASSUME NEW p \in Proc, Request(p) \/ Step(p) \/ Cancel(p) \/ Crash(p)
    PROVE  \/ record' = record \/ pc[p] \in {"remove", "write"}
           \/ /\ pc[p] = "read" /\ record[job[p].name].kind = "ok"
              /\ ~Canonical(record[job[p].name])
  <1>1. Request(p) \/ Cancel(p) \/ Crash(p) => record' = record
    BY DEF Request, StartOn, StartList, Cancel, Crash
  <1>2. ReadManaged(p) => \/ record' = record
                          \/ /\ pc[p] = "read" /\ record[job[p].name].kind = "ok"
                             /\ ~Canonical(record[job[p].name])
    BY DEF ReadManaged
  <1>3. Step(p) => record' = record \/ pc[p] \in {"remove", "write"} \/ ReadManaged(p)
    BY DEF Step, ListNext, ListDone, AcquireLock, AbandonLock, CheckAlive,
           UseSession, UseReturns, Cleanup, RemoveArtifacts, ProbeName,
           CreateManagedSession, ConfigureSession, ReconcileBridges, SecureSocket,
           StartBridge, AwaitBridge, AbortBridge, RestoreEnvironment, WriteRecord,
           Rollback, UndoCheck, UndoKill, TerminateStop, TerminateCheck, TerminateKill
  <1> QED BY <1>1, <1>2, <1>3

\* lifecycle.go TerminateChecked: a termination kills a tmux session or removes
\* a record only while that record carries the reference of the request.
THEOREM TerminationSafety == Spec => TerminateOnlyExpected
  <1> DEFINE Touches(p) ==
        /\ job[p].op = "terminate"
        /\ pc[p] # pc'[p]
        /\ \/ tmux'[job[p].name] # tmux[job[p].name]
           \/ record'[job[p].name] # record[job[p].name]
  <1>1. ASSUME IndInv, [Next]_vars, NEW p \in Proc, Touches(p)
        PROVE  record[job[p].name].ref = job[p].expected
    <2>1. PICK q \in Proc : Request(q) \/ Step(q) \/ Cancel(q) \/ Crash(q)
      BY <1>1 DEF Next, Environment, BridgeBinds, BridgeExits, TmuxExits,
                  UnmanagedStarts, vars
    <2>2. StepOK(q)
      BY <1>1, <2>1, ProcessStep
    <2>3. q = p
      BY <1>1, <2>2 DEF StepOK, Control, IndInv, TypeOK
    <2>4. /\ ShapeOK(pc[p], job[p]) /\ CopyOK(p) /\ SettledOK(job[p])
      BY <1>1, Local
    <2>5. pc[p] \in {"stop", "killcheck", "kill", "remove"}
      BY <1>1, <2>1, <2>3, <2>4, TmuxStep, RecordStepLabel
         DEF ShapeOK, SettledOK, Settled
    <2> QED BY <1>1, <2>4, <2>5 DEF ShapeOK, CopyOK, HoldsRecord, Locked, Label
  <1>2. IndInv /\ [Next]_vars => [\A p \in Proc : Touches(p)
                                    => record[job[p].name].ref = job[p].expected]_vars
    BY <1>1
  <1> QED BY <1>2, Inductive, PTL DEF Spec, TerminateOnlyExpected

-----------------------------------------------------------------------------
(* Removals.  Whoever is about to remove a record has stopped the bridges  *)
(* of its reference, and has seen its tmux session gone.                   *)

\* The steps after every bridge of the reference has been stopped: for sure in
\* a termination and a cleanup, and in a rollback whose commands work.
Stopped(p) ==
    \/ pc[p] \in {"killcheck", "kill", "remove"} /\ ~job[p].fresh
    \/ /\ pc[p] \in {"undo", "undokill", "remove"} /\ job[p].fresh
       /\ "undo" \notin faults

RemoveClear ==
    \A p \in Proc, pid \in Pid : Stopped(p) => bridge[pid].base # job[p].managed.ref

\* Nothing cuts a check short, and the commands of a rollback work.
Sure == faults \cap {"cancel", "undo"} = {}

SeenGone ==
    Sure => \A p \in Proc :
              pc[p] \in {"cleanup", "remove"} => tmux[job[p].name] # "managed"

\* Where the last part of an operation starts.
Ending == {"cleanup", "killcheck", "kill", "remove", "undo", "undokill"}

Acts(p) == Request(p) \/ Step(p) \/ Cancel(p) \/ Crash(p)

\* Which steps lead to the last part of an operation.
LEMMA LeadsToEnding ==
    ASSUME TypeOK, NEW p \in Proc, Acts(p), pc'[p] \in Ending
    PROVE  \/ CheckAlive(p) \/ Cleanup(p) \/ TerminateStop(p) \/ TerminateCheck(p)
           \/ TerminateKill(p) \/ Rollback(p) \/ UndoCheck(p) \/ UndoKill(p)
           \/ CreateManagedSession(p) \/ Cancel(p)
  <1> USE NextLabel
  <1>1. ~Request(p) /\ ~Crash(p)
    BY DEF Request, StartOn, StartList, Crash, Ending
  <1>2. ~ListNext(p) /\ ~ListDone(p) /\ ~AcquireLock(p) /\ ~AbandonLock(p)
    BY DEF ListNext, ListDone, AcquireLock, AbandonLock, Ending
  <1>3. ~ReadManaged(p)
    BY DEF ReadManaged, Proceed, Ending
  <1>4. ~UseSession(p) /\ ~UseReturns(p) /\ ~RemoveArtifacts(p) /\ ~ProbeName(p)
    BY DEF UseSession, UseReturns, RemoveArtifacts, ProbeName, Ending
  <1>5. ~ConfigureSession(p) /\ ~SecureSocket(p) /\ ~AwaitBridge(p)
    BY DEF ConfigureSession, SecureSocket, AwaitBridge, BridgeReady, Ending
  <1>6. ~ReconcileBridges(p) /\ ~StartBridge(p) /\ ~AbortBridge(p)
    BY DEF ReconcileBridges, StartBridge, AbortBridge, Ending
  <1>7. ~RestoreEnvironment(p) /\ ~WriteRecord(p)
    BY DEF RestoreEnvironment, WriteRecord, Ending
  <1> QED BY <1>1, <1>2, <1>3, <1>4, <1>5, <1>6, <1>7 DEF Acts, Step

\* bridge.go: every ttyd process of the reference at hand is a verified one.
LEMMA VerifiesAll ==
    ASSUME IndInv, NEW p \in Proc, HoldsRecord(p) \/ job[p].fresh, NEW pid \in Pid,
           bridge[pid].base = job[p].managed.ref
    PROVE  /\ pid \in Verified(job[p].name, job[p].managed)
           /\ job[p].managed.ref # None
  <1>1. job[p].managed.ref # None /\ job[p].name \in Name
    BY Local DEF ShapeOK, Canonical, HoldsRecord, Unread, Locked
  <1>2. HoldsRecord(p) => record[job[p].name].ref = job[p].managed.ref
    BY Local DEF CopyOK
  <1>3. bridge[pid].form = "safe" /\ bridge[pid].name = job[p].name
    BY <1>1, <1>2 DEF IndInv, BridgeHome
  <1> QED BY <1>1, <1>3 DEF Verified

\* An operation that moves on leaves its record and its name alone.
LEMMA MovesOn ==
    ASSUME IndInv, NEW p \in Proc,
           CheckAlive(p) \/ Cleanup(p) \/ TerminateStop(p) \/ TerminateCheck(p)
              \/ TerminateKill(p) \/ Rollback(p) \/ UndoCheck(p) \/ UndoKill(p) \/ Cancel(p),
           pc'[p] \notin {"idle", "next"} \/ Cancel(p)
    PROVE  /\ job'[p].managed = job[p].managed /\ job'[p].fresh = job[p].fresh
           /\ job'[p].name = job[p].name
           /\ Cancel(p) => pc'[p] = pc[p]
  <1> USE NextLabel
  <1>1. job[p] \in Job /\ TypeOK /\ job \in [Proc -> Job]
    BY Local DEF TypeOK
  <1>2. \/ job' = job
        \/ job' = [job EXCEPT ![p].cancelled = TRUE]
    BY <1>1 DEF CheckAlive, Cleanup, TerminateStop, StopVerified, TerminateCheck,
       TerminateKill, Rollback, UndoCheck, UndoKill, AfterUndo, Cancel
  <1>3. CASE job' = [job EXCEPT ![p].cancelled = TRUE]
    BY <1>1, <1>3 DEF Job, Cancel
  <1> QED BY <1>2, <1>3 DEF Cancel

\* Stop, complete, leaves no bridge of the reference.
LEMMA StopsEach ==
    ASSUME IndInv, NEW p \in Proc, HoldsRecord(p) \/ job[p].fresh,
           StopBridges(Verified(job[p].name, job[p].managed)), NEW pid \in Pid
    PROVE  bridge'[pid].base # job[p].managed.ref
  <1> DEFINE V == Verified(job[p].name, job[p].managed)
  <1>1. V \in SUBSET Pid
    BY DEF Verified
  <1>2. bridge'[pid] = IF pid \in V THEN NoBridge ELSE bridge[pid]
    <2> HIDE DEF V
    <2> QED BY <1>1, Local, StopTypes DEF V
  <1>3. job[p].managed.ref # None
    BY Local DEF ShapeOK, Canonical, HoldsRecord, Unread, Locked
  <1> QED BY <1>2, <1>3, VerifiesAll DEF NoBridge

\* lifecycle.go: an operation reaches its last part with the bridges stopped.
LEMMA StopsAll ==
    ASSUME IndInv, RemoveClear, UNCHANGED faults, NEW p \in Proc, Acts(p), Stopped(p)',
           NEW pid \in Pid
    PROVE  bridge'[pid].base # job'[p].managed.ref
  <1>1. pc'[p] \in Ending /\ pc'[p] \notin {"idle", "next"} /\ TypeOK
    BY Local DEF Stopped, Ending
  <1>2. CASE Cleanup(p) \/ TerminateStop(p)
    <2>1. job'[p].managed = job[p].managed
      BY <1>1, <1>2, MovesOn
    <2>2. StopBridges(Verified(job[p].name, job[p].managed))
      BY <1>1, <1>2, NextLabel DEF Cleanup, TerminateStop, StopVerified
    <2>3. HoldsRecord(p)
      BY <1>2, Local DEF HoldsRecord, ShapeOK, Cleanup, TerminateStop, Locked, Label
    <2> QED BY <2>1, <2>2, <2>3, StopsEach
  <1>3. CASE Rollback(p)
    <2>1. job'[p].managed = job[p].managed /\ job'[p].fresh = job[p].fresh
      BY <1>1, <1>3, MovesOn
    <2>2. pc[p] = "rollback" /\ job[p].fresh /\ pc'[p] = "undo"
      BY <1>3, Local, NextLabel DEF Rollback, ShapeOK
    <2>3. "undo" \notin faults
      BY <2>1, <2>2 DEF Stopped
    <2>4. StopBridges(Verified(job[p].name, job[p].managed))
      BY <1>3, <2>3 DEF Rollback, UndoFails
    <2> QED BY <2>1, <2>2, <2>4, StopsEach
  <1>4. CASE TerminateCheck(p) \/ TerminateKill(p) \/ UndoCheck(p) \/ UndoKill(p) \/ Cancel(p)
    <2>1. /\ job'[p].managed = job[p].managed /\ job'[p].fresh = job[p].fresh
          /\ Cancel(p) => pc'[p] = pc[p]
      BY <1>1, <1>4, MovesOn
    <2>2. bridge' = bridge
      BY <1>4 DEF TerminateCheck, TerminateKill, UndoCheck, UndoKill, Cancel
    <2>3. Stopped(p)
      <3>1. /\ ShapeOK(pc[p], job[p])
            /\ \/ pc'[p] \in {"killcheck", "kill", "remove"} /\ ~job'[p].fresh
               \/ /\ pc'[p] \in {"undo", "undokill", "remove"} /\ job'[p].fresh
                  /\ "undo" \notin faults
        BY Local DEF Stopped
      <3>2. CASE TerminateCheck(p) \/ TerminateKill(p)
        BY <2>1, <3>1, <3>2 DEF TerminateCheck, TerminateKill, Stopped, ShapeOK
      <3>3. CASE UndoCheck(p) \/ UndoKill(p)
        <4>1. /\ pc[p] \in {"undo", "undokill"} /\ pc'[p] \in {"undokill", "remove"}
              /\ pc'[p] = "remove" => job[p].fresh
          BY <1>1, <3>3, NextLabel DEF UndoCheck, UndoKill, AfterUndo
        <4> QED BY <1>1, <2>1, <3>1, <4>1 DEF Stopped
      <3>4. CASE Cancel(p)
        BY <2>1, <3>1, <3>4 DEF Stopped
      <3> QED BY <1>4, <3>2, <3>3, <3>4
    <2> QED BY <2>1, <2>2, <2>3 DEF RemoveClear
  <1>5. ~CreateManagedSession(p) /\ ~CheckAlive(p)
    <2>1. ~CheckAlive(p)
      BY <1>1, NextLabel DEF CheckAlive, Stopped
    <2>2. CreateManagedSession(p) => pc'[p] = "undo" /\ ~job'[p].fresh
      BY <1>1, Local, NextLabel DEF CreateManagedSession, Ending, ShapeOK, Unread
    <2> QED BY <2>1, <2>2 DEF Stopped
  <1> QED BY <1>1, <1>2, <1>3, <1>4, <1>5, LeadsToEnding

\* No bridge of a reference is started once its bridges have been stopped for good.
LEMMA RemoveClearStep ==
    ASSUME IndInv, RemoveClear, UNCHANGED faults, NEW p \in Proc, Acts(p)
    PROVE  RemoveClear'
  <1> SUFFICES ASSUME NEW q \in Proc, NEW pid \in Pid, Stopped(q)'
               PROVE  bridge'[pid].base # job'[q].managed.ref
    BY DEF RemoveClear
  <1>1. CASE q = p
    BY <1>1, StopsAll
  <1>2. CASE q # p
    <2>1. StepOK(p)
      BY ProcessStep DEF Acts
    <2>2. pc'[q] = pc[q] /\ job'[q] = job[q] /\ Stopped(q)
      <3>1. pc'[q] = pc[q] /\ job'[q] = job[q]
        BY <1>2, <2>1 DEF StepOK, Control, IndInv, TypeOK
      <3> QED BY <3>1 DEF Stopped
    <2>3. /\ HoldsRecord(q) \/ job[q].fresh
          /\ job[q].managed.ref # None
      BY <2>2, Local DEF Stopped, HoldsRecord, Locked, Label, ShapeOK, Canonical, Unread
    <2>4. bridge[pid].base # job[q].managed.ref
      BY <2>2 DEF RemoveClear
    <2>5. CASE \A b \in Pid : bridge'[b] \in {NoBridge, bridge[b]}
      BY <2>2, <2>3, <2>4, <2>5 DEF NoBridge
    <2>6. CASE /\ pc[p] = "start"
               /\ \E b \in Pid : bridge' = [bridge EXCEPT ![b] =
                     [name |-> job[p].name, base |-> job[p].managed.ref, form |-> "safe",
                      bound |-> FALSE]]
      <3>1. HoldsRecord(p) \/ job[p].fresh
        BY <2>6 DEF HoldsRecord, Locked, Label
      <3>2. job[p].managed.ref # job[q].managed.ref
        BY <1>2, <2>3, <3>1, OneWorker
      <3>3. bridge \in [Pid -> Bridge]
        BY Local
      <3>4. bridge'[pid].base \in {bridge[pid].base, job[p].managed.ref}
        BY <2>6, <3>3
      <3> QED BY <2>2, <2>4, <3>2, <3>4
    <2> QED BY <2>1, <2>5, <2>6 DEF StepOK, BridgeStep
  <1> QED BY <1>1, <1>2

\* A step of p changes no tmux session but the one it holds the lock of.
LEMMA TmuxOwn ==
    ASSUME IndInv, NEW p \in Proc, Acts(p), NEW n \in Name, tmux'[n] # tmux[n]
    PROVE  n = job[p].name /\ pc[p] \in {"create", "undokill", "kill"} /\ pc[p] \in Locked
  <1>1. pc[p] \in {"create", "undokill", "kill"} /\ pc[p] \in Locked
    BY TmuxStep DEF Acts, Locked, Label
  <1>2. tmux \in [Name -> {"none", "managed", "unmanaged"}] /\ TypeOK
    BY Local
  <1>3. CreateManagedSession(p) \/ UndoKill(p) \/ TerminateKill(p)
    <2>1. ~Request(p) /\ ~Cancel(p) /\ ~Crash(p)
      BY DEF Request, StartOn, StartList, Cancel, Crash
    <2> QED BY <1>1, <2>1
         DEF Acts, Step, ListNext, ListDone, AcquireLock, AbandonLock, ReadManaged, CheckAlive,
             UseSession, UseReturns, Cleanup, RemoveArtifacts, ProbeName, ConfigureSession,
             ReconcileBridges, SecureSocket, StartBridge, AwaitBridge, AbortBridge,
             RestoreEnvironment, WriteRecord, Rollback, UndoCheck, TerminateStop, TerminateCheck
  <1>4. n = job[p].name
    BY <1>2, <1>3 DEF CreateManagedSession, UndoKill, TerminateKill
  <1> QED BY <1>1, <1>4

\* Two processes inside operations work on different names.
LEMMA OneHolder ==
    ASSUME IndInv, NEW p \in Proc, NEW q \in Proc, p # q,
           pc[p] \in Locked, pc[q] \in Locked
    PROVE  job[p].name # job[q].name
  BY DEF IndInv, LockHeld

\* lifecycle.go: an operation comes to remove the record of a name only after its
\* own check, or its own kill-session, has found the tmux session gone.
LEMMA SeenGoneStep ==
    ASSUME IndInv, SeenGone, UNCHANGED faults, NEW p \in Proc, Acts(p)
    PROVE  SeenGone'
  <1> SUFFICES ASSUME Sure, NEW q \in Proc, pc'[q] \in {"cleanup", "remove"}
               PROVE  tmux'[job'[q].name] # "managed"
    BY DEF SeenGone, Sure
  <1>0. "cancel" \notin faults /\ ~UndoFails
    BY DEF Sure, UndoFails
  <1>1. CASE q = p
    <2>1. pc'[p] \in Ending /\ pc'[p] \notin {"idle", "next"} /\ TypeOK
      BY <1>1, Local DEF Ending
    <2>2. ~Cancel(p) /\ ~TerminateStop(p) /\ ~Rollback(p) /\ ~CreateManagedSession(p)
      BY <1>0, <1>1, <2>1, NextLabel
         DEF Cancel, TerminateStop, StopVerified, Rollback, CreateManagedSession
    <2>3. job'[p].name = job[p].name /\ job[p].name \in Name
      <3>1. job'[p].name = job[p].name
        BY <2>1, <2>2, LeadsToEnding, MovesOn
      <3>2. ShapeOK(pc'[p], job'[p])
        BY ProcessStep DEF Acts, StepOK, Control
      <3> QED BY <2>1, <3>1, <3>2 DEF ShapeOK
    <2>4. CASE CheckAlive(p)
      BY <1>0, <1>1, <2>1, <2>3, <2>4, NextLabel DEF CheckAlive, KilledProbe
    <2>5. CASE Cleanup(p)
      <3>1. pc[p] = "cleanup" /\ tmux' = tmux
        BY <2>5 DEF Cleanup
      <3> QED BY <1>1, <2>3, <3>1 DEF SeenGone
    <2>6. CASE TerminateCheck(p)
      BY <1>0, <1>1, <2>1, <2>3, <2>6, NextLabel DEF TerminateCheck, KilledProbe
    <2>7. CASE TerminateKill(p) \/ UndoKill(p)
      <3>1. tmux' = [tmux EXCEPT ![job[p].name] = "none"]
        BY <1>0, <2>1, <2>7, NextLabel DEF TerminateKill, UndoKill
      <3>2. tmux \in [Name -> {"none", "managed", "unmanaged"}]
        BY Local
      <3> QED BY <1>1, <2>3, <3>1, <3>2
    <2>8. CASE UndoCheck(p)
      BY <1>0, <1>1, <2>1, <2>3, <2>8, NextLabel DEF UndoCheck
    <2> QED BY <2>1, <2>2, <2>4, <2>5, <2>6, <2>7, <2>8, LeadsToEnding
  <1>2. CASE q # p
    <2>1. StepOK(p)
      BY ProcessStep DEF Acts
    <2>2. pc'[q] = pc[q] /\ job'[q] = job[q]
      BY <1>2, <2>1 DEF StepOK, Control, IndInv, TypeOK
    <2>3. pc[q] \in Locked /\ job[q].name \in Name
      BY <2>2, Local DEF Locked, Label, ShapeOK
    <2>4. tmux'[job[q].name] = tmux[job[q].name]
      BY <1>2, <2>3, TmuxOwn, OneHolder
    <2> QED BY <2>2, <2>4 DEF SeenGone
  <1> QED BY <1>1, <1>2

\* What the environment does, as far as these invariants are concerned.
LEMMA EnvironmentEffect ==
    ASSUME IndInv, \/ \E pid \in Pid : BridgeBinds(pid) \/ BridgeExits(pid)
                   \/ \E n \in Name : TmuxExits(n) \/ UnmanagedStarts(n)
                   \/ UNCHANGED vars
    PROVE  /\ UNCHANGED <<record, lock, pc, job>>
           /\ \A n \in Name : tmux'[n] = "managed" => tmux[n] = "managed"
           /\ \A pid \in Pid : \/ bridge'[pid] = NoBridge
                               \/ /\ bridge'[pid].name = bridge[pid].name
                                  /\ bridge'[pid].base = bridge[pid].base
  <1>1. /\ bridge \in [Pid -> Bridge] /\ tmux \in [Name -> {"none", "managed", "unmanaged"}]
        /\ TypeOK
    BY DEF IndInv, TypeOK
  <1>2. CASE UNCHANGED vars
    BY <1>2 DEF vars
  <1>3. ASSUME NEW b \in Pid, BridgeBinds(b)
        PROVE  /\ UNCHANGED <<record, tmux, lock, pc, job>>
               /\ \A pid \in Pid : /\ bridge'[pid].name = bridge[pid].name
                                   /\ bridge'[pid].base = bridge[pid].base
    <2>1. \A pid \in Pid : bridge[pid] \in Bridge
      BY <1>1
    <2>2. [bridge[b] EXCEPT !.bound = TRUE].name = bridge[b].name
          /\ [bridge[b] EXCEPT !.bound = TRUE].base = bridge[b].base
      BY <2>1 DEF Bridge
    <2> QED BY <1>1, <1>3, <2>2 DEF BridgeBinds
  <1>4. ASSUME NEW b \in Pid, BridgeExits(b)
        PROVE  /\ UNCHANGED <<record, tmux, lock, pc, job>>
               /\ \A pid \in Pid : bridge'[pid] \in {NoBridge, bridge[pid]}
    <2>1. {b} \in SUBSET Pid
      OBVIOUS
    <2> QED BY <1>1, <1>4, <2>1, StopTypes DEF BridgeExits
  <1>5. ASSUME NEW n \in Name, TmuxExits(n) \/ UnmanagedStarts(n)
        PROVE  /\ UNCHANGED <<record, bridge, lock, pc, job>>
               /\ \A m \in Name : tmux'[m] = "managed" => tmux[m] = "managed"
    BY <1>1, <1>5 DEF TmuxExits, UnmanagedStarts
  <1> QED BY <1>2, <1>3, <1>4, <1>5

\* A step of Next is one of a process or one of the environment.
LEMMA WhoSteps ==
    ASSUME [Next]_vars
    PROVE  /\ UNCHANGED faults
           /\ \/ \E p \in Proc : Acts(p)
              \/ \E pid \in Pid : BridgeBinds(pid) \/ BridgeExits(pid)
              \/ \E n \in Name : TmuxExits(n) \/ UnmanagedStarts(n)
              \/ UNCHANGED vars
  BY DEF Next, Environment, Acts, vars

RemovalInv == IndInv /\ RemoveClear /\ SeenGone

\* Bridges that exit or bind, and sessions that exit, do not disturb a removal.
LEMMA RemovalEnvironment ==
    ASSUME RemovalInv, UNCHANGED faults,
           \/ \E pid \in Pid : BridgeBinds(pid) \/ BridgeExits(pid)
           \/ \E n \in Name : TmuxExits(n) \/ UnmanagedStarts(n)
           \/ UNCHANGED vars
    PROVE  RemoveClear' /\ SeenGone'
  <1>1. /\ UNCHANGED <<record, lock, pc, job>>
        /\ \A n \in Name : tmux'[n] = "managed" => tmux[n] = "managed"
        /\ \A pid \in Pid : \/ bridge'[pid] = NoBridge
                            \/ bridge'[pid].base = bridge[pid].base
    BY EnvironmentEffect DEF RemovalInv
  <1>2. \A p \in Proc : /\ Stopped(p) => job[p].managed.ref # None
                        /\ pc[p] \in {"cleanup", "remove"} => job[p].name \in Name
    BY Local DEF RemovalInv, Stopped, ShapeOK, Canonical, Locked, Label, Unread
  <1>3. \A p \in Proc : Stopped(p)' => Stopped(p)
    BY <1>1 DEF Stopped
  <1>4. RemoveClear'
    BY <1>1, <1>2, <1>3 DEF RemovalInv, RemoveClear, NoBridge
  <1>5. SeenGone'
    BY <1>1, <1>2 DEF RemovalInv, SeenGone, Sure
  <1> QED BY <1>4, <1>5

\* Whoever removes has stopped the bridges and seen the session gone, always.
LEMMA RemovalAlways == Spec => []RemovalInv
  <1>1. Init => RemovalInv
    <2> SUFFICES ASSUME Init PROVE RemoveClear /\ SeenGone
      BY InitIndInv DEF RemovalInv
    <2>1. \A p \in Proc : pc[p] = "idle"
      BY DEF Init
    <2> QED BY <2>1 DEF RemoveClear, Stopped, SeenGone
  <1>2. RemovalInv /\ [Next]_vars => RemovalInv'
    <2> SUFFICES ASSUME RemovalInv, [Next]_vars PROVE RemovalInv'
      OBVIOUS
    <2>1. IndInv'
      BY NextIndInv DEF RemovalInv
    <2>2. CASE \E p \in Proc : Acts(p)
      BY <2>1, <2>2, WhoSteps, RemoveClearStep, SeenGoneStep DEF RemovalInv
    <2> QED BY <2>1, <2>2, WhoSteps, RemovalEnvironment DEF RemovalInv
  <1> QED BY <1>1, <1>2, PTL DEF Spec

\* A usable record goes only at the end of an operation that removes it.
LEMMA RecordGoes ==
    ASSUME IndInv, NEW p \in Proc, Acts(p), NEW n \in Name,
           record[n].kind = "ok", record'[n].kind # "ok"
    PROVE  pc[p] = "remove" /\ n = job[p].name
  <1>1. StepOK(p) /\ record \in [Name -> Record] /\ TypeOK
    BY Local, ProcessStep DEF Acts
  <1>2. n = job[p].name
    BY <1>1 DEF StepOK, RecordStep
  <1>3. CASE pc[p] = "write"
    <2>1. WriteRecord(p)
      <3>1. ~Request(p) /\ ~Cancel(p) /\ ~Crash(p)
        BY DEF Request, StartOn, StartList, Cancel, Crash
      <3> QED BY <1>3, <3>1
           DEF Acts, Step, ListNext, ListDone, AcquireLock, AbandonLock, ReadManaged,
               CheckAlive, UseSession, UseReturns, Cleanup, RemoveArtifacts, ProbeName,
               CreateManagedSession, ConfigureSession, ReconcileBridges, SecureSocket,
               StartBridge, AwaitBridge, AbortBridge, RestoreEnvironment, Rollback,
               UndoCheck, UndoKill, TerminateStop, TerminateCheck, TerminateKill
    <2>2. Canonical(job[p].managed) /\ job[p].managed \in Record
      BY <1>3, Local DEF ShapeOK, Locked, Label, Unread, Job
    <2>3. [job[p].managed EXCEPT !.pid = job[p].pid].kind = "ok"
      BY <2>2 DEF Canonical, Record
    <2>4. record' \in {record, [record EXCEPT ![job[p].name] =
                                  [job[p].managed EXCEPT !.pid = job[p].pid]]}
      BY <2>1 DEF WriteRecord
    <2> QED BY <1>1, <1>2, <2>3, <2>4
  <1>4. CASE pc[p] = "read"
    <2>1. ReadManaged(p)
      <3>1. ~Request(p) /\ ~Cancel(p) /\ ~Crash(p)
        BY DEF Request, StartOn, StartList, Cancel, Crash
      <3> QED BY <1>4, <3>1
           DEF Acts, Step, ListNext, ListDone, AcquireLock, AbandonLock, WriteRecord,
               CheckAlive, UseSession, UseReturns, Cleanup, RemoveArtifacts, ProbeName,
               CreateManagedSession, ConfigureSession, ReconcileBridges, SecureSocket,
               StartBridge, AwaitBridge, AbortBridge, RestoreEnvironment, Rollback,
               UndoCheck, UndoKill, TerminateStop, TerminateCheck, TerminateKill
    <2>2. record[n] \in Record
      BY <1>1
    <2>3. \A r \in Ref : [record[n] EXCEPT !.ref = r, !.named = TRUE].kind = record[n].kind
      BY <2>2 DEF Record
    <2>4. \/ record' = record
          \/ \E r \in Ref : record' = [record EXCEPT ![n] =
                                         [record[n] EXCEPT !.ref = r, !.named = TRUE]]
      BY <1>2, <2>1 DEF ReadManaged
    <2> QED BY <1>1, <2>3, <2>4
  <1> QED BY <1>2, <1>3, <1>4, RecordStepLabel DEF Acts

\* lifecycle.go cleanupLocked, TerminateChecked: for any number of sessions and
\* processes, a record goes only when no bridge of its reference runs any more,
\* and, unless a check is cut short or a rollback's command fails, only when its
\* tmux session does not run.
THEOREM RemovalSafety == Spec => RemovalIsSafe
  <1>1. ASSUME RemovalInv, [Next]_vars, NEW n \in Name,
               record[n].kind = "ok", record'[n].kind # "ok"
        PROVE  /\ \/ \A pid \in Pid : bridge[pid].base # record[n].ref
                  \/ \E p \in Proc : job[p].name = n /\ job[p].fresh
               /\ faults \cap {"cancel", "undo"} = {} => tmux[n] # "managed"
    <2>1. IndInv /\ RemoveClear /\ SeenGone
      BY <1>1 DEF RemovalInv
    <2>2. PICK p \in Proc : Acts(p)
      BY <1>1, <2>1, WhoSteps, EnvironmentEffect
    <2>3. pc[p] = "remove" /\ n = job[p].name
      BY <1>1, <2>1, <2>2, RecordGoes
    <2>4. CASE ~job[p].fresh
      <3>1. record[n] = job[p].managed /\ Stopped(p)
        BY <2>1, <2>3, <2>4, Local DEF CopyOK, HoldsRecord, Locked, Label, Stopped
      <3> QED BY <2>1, <2>3, <3>1 DEF RemoveClear, SeenGone, Sure
    <2>5. CASE job[p].fresh
      BY <2>1, <2>3, <2>5 DEF SeenGone, Sure
    <2> QED BY <2>4, <2>5
  <1>2. RemovalInv /\ [Next]_vars => [NeverForgetsLive /\ RecordOutlivesBridge]_vars
    BY <1>1 DEF NeverForgetsLive, ForgetsLive, RecordOutlivesBridge
  <1> QED BY <1>2, RemovalAlways, PTL DEF Spec, RemovalIsSafe

-----------------------------------------------------------------------------
(* Orphans.  When nothing crashes, is cancelled or fails to be undone, what *)
(* a create has started is either in the record or still in its hands.     *)

Ordinary == faults \subseteq {"exit", "fail", "unmanaged"}

\* A create between new-session and the record, or between it and the rollback.
Building(p) == pc[p] \in Locked /\ (job[p].fresh \/ pc[p] \in {"undo", "undokill"})

\* Somebody knows of every managed tmux session ...
Attended ==
    Ordinary => \A n \in Name :
        tmux[n] = "managed" => \/ Canonical(record[n])
                               \/ \E p \in Proc : Building(p) /\ job[p].name = n

\* ... and of the reference of every ttyd process.
ClaimedBy(n, r) ==
    \/ Canonical(record[n]) /\ record[n].ref = r
    \/ \E p \in Proc : job[p].fresh /\ job[p].name = n /\ job[p].managed.ref = r

Claimed ==
    Ordinary => \A pid \in Pid, n \in Name :
        bridge[pid].name = n => bridge[pid].base # None /\ ClaimedBy(n, bridge[pid].base)

\* What Ordinary rules out.
LEMMA OrdinaryRules ==
    ASSUME Ordinary
    PROVE  /\ Sure /\ ~UndoFails /\ "undo" \notin faults /\ "inherited" \notin faults
           /\ \A p \in Proc : ~Cancel(p) /\ ~Crash(p) /\ ~KilledProbe(p)
  BY DEF Ordinary, Sure, UndoFails, Cancel, Crash, KilledProbe

\* The steps of a create that has something to lose.
LEMMA BuildingSteps ==
    ASSUME IndInv, Ordinary, NEW p \in Proc, Building(p), Acts(p)
    PROVE  \/ ReconcileBridges(p) \/ SecureSocket(p) \/ StartBridge(p) \/ AwaitBridge(p)
           \/ AbortBridge(p) \/ WriteRecord(p) \/ Rollback(p) \/ UndoCheck(p)
           \/ UndoKill(p) \/ RemoveArtifacts(p)
  <1>1. Step(p)
    BY OrdinaryRules DEF Acts, Request, StartOn, StartList, Building, Locked
  <1>2. pc[p] \notin {"idle", "next", "lock", "read", "probe", "create", "check", "use",
                      "act", "configure", "environ", "cleanup", "stop", "killcheck", "kill"}
    BY Local DEF ShapeOK, Building, Unread, Locked
  <1> QED BY <1>1, <1>2
       DEF Step, ListNext, ListDone, AcquireLock, AbandonLock, ReadManaged, CheckAlive,
           UseSession, UseReturns, Cleanup, ProbeName, CreateManagedSession,
           ConfigureSession, RestoreEnvironment, TerminateStop, TerminateCheck, TerminateKill

\* A step keeps the create that p runs, and what it has drawn.
KeepsFresh(p) ==
    /\ pc'[p] \in Locked /\ job'[p].fresh
    /\ job'[p].managed = job[p].managed /\ job'[p].name = job[p].name

\* lifecycle.go CreateOrSelect: whatever fails after new-session, a create ends by
\* writing its record or through the whole rollback.
LEMMA FreshGoes ==
    ASSUME IndInv, Ordinary, NEW p \in Proc, job[p].fresh, Acts(p)
    PROVE  \/ KeepsFresh(p)
           \/ /\ Canonical(record'[job[p].name])
              /\ record'[job[p].name].ref = job[p].managed.ref
           \/ pc[p] = "remove"
  <1>1. /\ ShapeOK(pc[p], job[p]) /\ job[p] \in Job /\ job \in [Proc -> Job] /\ TypeOK
        /\ record \in [Name -> Record]
    BY Local DEF TypeOK
  <1>2. Building(p) /\ job[p].name \in Name /\ Canonical(job[p].managed)
    BY <1>1 DEF ShapeOK, Building, Locked
  <1>3. \A x : \/ job' = job
               \/ job' = [job EXCEPT ![p].pid = x]
               => /\ job'[p].fresh /\ job'[p].managed = job[p].managed
                  /\ job'[p].name = job[p].name
    BY <1>1 DEF Job
  <1>4. EnsureFailed(p) => KeepsFresh(p)
    BY <1>1, <1>3, NextLabel DEF EnsureFailed, KeepsFresh, Locked, Label
  <1>5. BridgeReady(p) => KeepsFresh(p)
    BY <1>1, <1>3, NextLabel DEF BridgeReady, KeepsFresh, Locked, Label
  <1>6. AfterUndo(p) => KeepsFresh(p)
    BY <1>1, <1>3, NextLabel DEF AfterUndo, KeepsFresh, Locked, Label
  <1>7. CASE ReconcileBridges(p)
    <2>1. \/ EnsureFailed(p)
          \/ \E keep : /\ Goto(p, IF keep = None THEN "start" ELSE "secure")
                       /\ job' = [job EXCEPT ![p].pid = keep]
      BY <1>7 DEF ReconcileBridges
    <2> QED BY <1>1, <1>3, <1>4, <2>1, NextLabel DEF KeepsFresh, Locked, Label
  <1>8. CASE StartBridge(p)
    <2>1. \/ EnsureFailed(p)
          \/ \E pid : Goto(p, "await") /\ job' = [job EXCEPT ![p].pid = pid]
      BY <1>8 DEF StartBridge
    <2> QED BY <1>1, <1>3, <1>4, <2>1, NextLabel DEF KeepsFresh, Locked, Label
  <1>9. CASE SecureSocket(p) \/ AbortBridge(p)
    BY <1>4, <1>5, <1>9 DEF SecureSocket, AbortBridge
  <1>10. CASE AwaitBridge(p)
    <2>1. \/ EnsureFailed(p) \/ BridgeReady(p)
          \/ Goto(p, "abort") /\ job' = job
      BY <1>10 DEF AwaitBridge
    <2> QED BY <1>1, <1>3, <1>4, <1>5, <2>1, NextLabel DEF KeepsFresh, Locked, Label
  <1>11. CASE WriteRecord(p)
    <2> DEFINE w == [job[p].managed EXCEPT !.pid = job[p].pid]
    <2>1. \/ EnsureFailed(p)
          \/ record' = [record EXCEPT ![job[p].name] = w]
      BY <1>11 DEF WriteRecord
    <2>2. Canonical(w) /\ w.ref = job[p].managed.ref
      <3>1. job[p].managed \in Record
        BY <1>1 DEF Job
      <3> QED BY <1>2, <3>1 DEF Canonical, Record
    <2> HIDE DEF w
    <2> QED BY <1>1, <1>2, <1>4, <2>1, <2>2
  <1>12. CASE Rollback(p)
    BY <1>1, <1>3, <1>12, NextLabel DEF Rollback, KeepsFresh, Locked, Label
  <1>13. CASE UndoCheck(p)
    <2>1. \/ AfterUndo(p)
          \/ Goto(p, "undokill") /\ job' = job
      BY <1>13 DEF UndoCheck
    <2> QED BY <1>1, <1>3, <1>6, <2>1, NextLabel DEF KeepsFresh, Locked, Label
  <1>14. CASE UndoKill(p)
    BY <1>6, <1>14 DEF UndoKill
  <1>15. CASE RemoveArtifacts(p)
    BY <1>15 DEF RemoveArtifacts
  <1> QED BY <1>2, <1>7, <1>8, <1>9, <1>10, <1>11, <1>12, <1>13, <1>14, <1>15, BuildingSteps

\* A canonical record stays what it is until an operation removes it.
LEMMA CanonicalStays ==
    ASSUME IndInv, NEW p \in Proc, Acts(p), NEW n \in Name, Canonical(record[n])
    PROVE  \/ Canonical(record'[n]) /\ record'[n].ref = record[n].ref
           \/ pc[p] = "remove" /\ n = job[p].name
  <1>1. StepOK(p) /\ record \in [Name -> Record]
    BY Local, ProcessStep DEF Acts
  <1>2. record'[n].kind # "ok" => pc[p] = "remove" /\ n = job[p].name
    BY RecordGoes DEF Canonical
  <1>3. ASSUME record'[n].kind = "ok"
        PROVE  Canonical(record'[n]) /\ record'[n].ref = record[n].ref
    <2>1. CASE record' = record
      BY <2>1
    <2>2. CASE \E x \in Record :
                 /\ record' = [record EXCEPT ![job[p].name] = x]
                 /\ x.kind = "ok" => Canonical(x)
                 /\ Canonical(record[job[p].name]) /\ x.kind = "ok"
                       => x.ref = record[job[p].name].ref
      <3>1. PICK x \in Record :
                 /\ record' = [record EXCEPT ![job[p].name] = x]
                 /\ x.kind = "ok" => Canonical(x)
                 /\ Canonical(record[job[p].name]) /\ x.kind = "ok"
                       => x.ref = record[job[p].name].ref
        BY <2>2
      <3>2. record'[n] = record[n] \/ (n = job[p].name /\ record'[n] = x)
        BY <1>1, <3>1
      <3> QED BY <1>3, <3>1, <3>2
    <2> QED BY <1>1, <2>1, <2>2 DEF StepOK, RecordStep
  <1> QED BY <1>2, <1>3

\* lifecycle.go: every step leaves a managed session in a record or in hands.
LEMMA AttendedStep ==
    ASSUME RemovalInv, Attended, UNCHANGED faults, NEW p \in Proc, Acts(p)
    PROVE  Attended'
  <1> SUFFICES ASSUME Ordinary, NEW n \in Name, tmux'[n] = "managed"
               PROVE  \/ Canonical(record'[n])
                      \/ \E q \in Proc : Building(q)' /\ job'[q].name = n
    BY DEF Attended, Ordinary, Canonical
  <1>1. /\ IndInv /\ SeenGone /\ Sure /\ ~UndoFails /\ StepOK(p)
        /\ TypeOK /\ tmux \in [Name -> {"none", "managed", "unmanaged"}]
        /\ job \in [Proc -> Job] /\ ShapeOK(pc[p], job[p])
    BY OrdinaryRules, ProcessStep, Local DEF RemovalInv, Acts, TypeOK
  <1>2. CASE tmux[n] # "managed"
    <2>1. n = job[p].name /\ pc[p] \in {"create", "undokill", "kill"}
      BY <1>1, <1>2, TmuxOwn
    <2>2. ~Request(p) /\ ~Cancel(p) /\ ~Crash(p)
      BY OrdinaryRules, <2>1 DEF Request, StartOn, StartList
    <2>3. CreateManagedSession(p) \/ UndoKill(p) \/ TerminateKill(p)
      BY <2>1, <2>2
         DEF Acts, Step, ListNext, ListDone, AcquireLock, AbandonLock, ReadManaged, CheckAlive,
             UseSession, UseReturns, Cleanup, RemoveArtifacts, ProbeName, ConfigureSession,
             ReconcileBridges, SecureSocket, StartBridge, AwaitBridge, AbortBridge,
             RestoreEnvironment, WriteRecord, Rollback, UndoCheck, TerminateStop, TerminateCheck
    <2>4. CreateManagedSession(p)
      BY <1>1, <1>2, <2>1, <2>3 DEF UndoKill, TerminateKill
    <2>5. /\ pc'[p] \in {"bridge", "undo"} /\ job'[p].name = n
          /\ pc'[p] = "bridge" => job'[p].fresh
      <3>1. \A x : [job[p] EXCEPT !.managed = x, !.fresh = TRUE].fresh
                   /\ [job[p] EXCEPT !.managed = x, !.fresh = TRUE].name = job[p].name
        BY <1>1 DEF Job
      <3>2. \/ /\ Goto(p, "bridge")
               /\ \E x : job' = [job EXCEPT ![p] = [job[p] EXCEPT !.managed = x, !.fresh = TRUE]]
            \/ Goto(p, "undo") /\ job' = job
        BY <2>4 DEF CreateManagedSession
      <3>3. ASSUME NEW x, Goto(p, "bridge"),
                   job' = [job EXCEPT ![p] = [job[p] EXCEPT !.managed = x, !.fresh = TRUE]]
            PROVE  pc'[p] = "bridge" /\ job'[p].fresh /\ job'[p].name = job[p].name
        <4>1. job'[p] = [job[p] EXCEPT !.managed = x, !.fresh = TRUE]
          BY <1>1, <3>3
        <4> QED BY <1>1, <3>1, <3>3, <4>1, NextLabel
      <3>4. Goto(p, "undo") => pc'[p] = "undo"
        BY <1>1, NextLabel
      <3> QED BY <2>1, <3>2, <3>3, <3>4
    <2> QED BY <2>5 DEF Building, Locked, Label
  <1>3. CASE tmux[n] = "managed" /\ Canonical(record[n])
    BY <1>1, <1>3, CanonicalStays DEF SeenGone
  <1>4. ASSUME tmux[n] = "managed", NEW q \in Proc, Building(q), job[q].name = n, q # p
        PROVE  Building(q)' /\ job'[q].name = n
    BY <1>1, <1>4 DEF StepOK, Control, TypeOK, Building
  <1>5. ASSUME tmux[n] = "managed", Building(p), job[p].name = n, ~Canonical(record'[n])
        PROVE  Building(p)' /\ job'[p].name = n
    <2>1. pc[p] # "remove"
      BY <1>1, <1>5 DEF SeenGone
    <2>2. CASE job[p].fresh
      BY <1>1, <1>5, <2>1, <2>2, FreshGoes DEF KeepsFresh, Building
    <2>3. CASE ~job[p].fresh
      <3>1. pc[p] \in {"undo", "undokill"}
        BY <1>5, <2>3 DEF Building
      <3>2. UndoCheck(p) \/ UndoKill(p)
        BY <1>1, <1>5, <3>1, BuildingSteps
           DEF ReconcileBridges, SecureSocket, StartBridge, AwaitBridge, AbortBridge,
               WriteRecord, Rollback, RemoveArtifacts
      <3>3. Goto(p, "undokill") /\ job' = job
        BY <1>1, <1>5, <3>2 DEF UndoCheck, UndoKill
      <3> QED BY <1>1, <1>5, <3>3, NextLabel DEF Building, Locked, Label
    <2> QED BY <2>2, <2>3
  <1> QED BY <1>2, <1>3, <1>4, <1>5 DEF Attended

\* lifecycle.go: whoever is about to remove a record leaves no bridge of its name.
LEMMA RemovesUnclaimed ==
    ASSUME RemovalInv, Ordinary, NEW p \in Proc, pc[p] = "remove",
           NEW pid \in Pid
    PROVE  ~ClaimedBy(job[p].name, bridge[pid].base)
  <1>1. IndInv /\ RemoveClear /\ Stopped(p) /\ pc[p] \in Locked
    BY OrdinaryRules DEF RemovalInv, Stopped, Locked, Label
  <1>2. bridge[pid].base # job[p].managed.ref
    BY <1>1 DEF RemoveClear
  <1>3. Canonical(record[job[p].name]) => record[job[p].name].ref = job[p].managed.ref
    BY <1>1, Local DEF CopyOK, HoldsRecord, Creating, Canonical
  <1>4. \A q \in Proc : job[q].fresh /\ job[q].name = job[p].name => q = p
    BY <1>1, Local, OneHolder DEF ShapeOK
  <1> QED BY <1>2, <1>3, <1>4 DEF ClaimedBy

\* lifecycle.go: a claim outlives every step that leaves its bridges running.
LEMMA ClaimStays ==
    ASSUME RemovalInv, Ordinary, NEW p \in Proc, Acts(p), NEW pid \in Pid, NEW n \in Name,
           ClaimedBy(n, bridge[pid].base)
    PROVE  ClaimedBy(n, bridge[pid].base)'  \/ bridge'[pid] # bridge[pid]
  <1>1. IndInv /\ StepOK(p)
    BY ProcessStep DEF RemovalInv, Acts
  <1>2. pc[p] = "remove" => job[p].name # n
    BY RemovesUnclaimed
  <1>3. CASE Canonical(record[n]) /\ record[n].ref = bridge[pid].base
    BY <1>1, <1>2, <1>3, CanonicalStays DEF ClaimedBy, Canonical
  <1>4. ASSUME NEW q \in Proc, job[q].fresh, job[q].name = n,
               job[q].managed.ref = bridge[pid].base, q # p
        PROVE  job'[q] = job[q]
    BY <1>1, <1>4 DEF StepOK, Control, IndInv, TypeOK
  <1>5. CASE job[p].fresh /\ job[p].name = n /\ job[p].managed.ref = bridge[pid].base
    BY <1>1, <1>2, <1>5, FreshGoes DEF ClaimedBy, Canonical, KeepsFresh
  <1> QED BY <1>3, <1>4, <1>5 DEF ClaimedBy

\* bridge.go startLocked: a ttyd process is started for a reference somebody holds.
LEMMA ClaimedStep ==
    ASSUME RemovalInv, Claimed, UNCHANGED faults, NEW p \in Proc, Acts(p)
    PROVE  Claimed'
  <1> SUFFICES ASSUME Ordinary, NEW pid \in Pid, NEW n \in Name, bridge'[pid].name = n
               PROVE  bridge'[pid].base # None /\ ClaimedBy(n, bridge[pid].base)'
    BY DEF Claimed, Ordinary
  <1>1. /\ IndInv /\ StepOK(p) /\ bridge \in [Pid -> Bridge] /\ ShapeOK(pc[p], job[p])
        /\ CopyOK(p) /\ n # None
    BY ProcessStep, Local, NoneAssumption DEF RemovalInv, Acts
  <1>2. CASE bridge'[pid] = bridge[pid]
    BY <1>2, ClaimStays DEF Claimed
  <1>3. CASE /\ pc[p] = "start" /\ record' = record
             /\ bridge'[pid] = [name |-> job[p].name, base |-> job[p].managed.ref,
                                form |-> "safe", bound |-> FALSE]
    <2>1. n = job[p].name /\ bridge'[pid].base = job[p].managed.ref
      BY <1>3
    <2>2. Canonical(job[p].managed)
      BY <1>1, <1>3 DEF ShapeOK, Locked, Label, Unread
    <2>3. CASE ~job[p].fresh
      <3>1. record'[n] = job[p].managed
        BY <1>1, <1>3, <2>1, <2>3 DEF CopyOK, HoldsRecord, Locked, Label
      <3> QED BY <2>1, <2>2, <3>1 DEF ClaimedBy, Canonical
    <2>4. CASE job[p].fresh
      BY <1>1, <1>3, <2>1, <2>2, <2>4, FreshGoes DEF ClaimedBy, Canonical, KeepsFresh
    <2> QED BY <2>3, <2>4
  <1>4. \/ bridge'[pid] \in {NoBridge, bridge[pid]}
        \/ /\ pc[p] = "start" /\ record' = record
           /\ bridge'[pid] = [name |-> job[p].name, base |-> job[p].managed.ref,
                              form |-> "safe", bound |-> FALSE]
    BY <1>1 DEF StepOK, BridgeStep
  <1>5. bridge'[pid] # NoBridge
    BY <1>1 DEF NoBridge
  <1> QED BY <1>2, <1>3, <1>4, <1>5

OrphanInv == RemovalInv /\ Attended /\ Claimed

\* Sessions and bridges that exit, or bind, orphan nothing.
LEMMA OrphanEnvironment ==
    ASSUME OrphanInv, UNCHANGED faults,
           \/ \E pid \in Pid : BridgeBinds(pid) \/ BridgeExits(pid)
           \/ \E n \in Name : TmuxExits(n) \/ UnmanagedStarts(n)
           \/ UNCHANGED vars
    PROVE  Attended' /\ Claimed'
  <1>1. /\ UNCHANGED <<record, lock, pc, job>>
        /\ \A n \in Name : tmux'[n] = "managed" => tmux[n] = "managed"
        /\ \A pid \in Pid : \/ bridge'[pid] = NoBridge
                            \/ /\ bridge'[pid].name = bridge[pid].name
                               /\ bridge'[pid].base = bridge[pid].base
    BY EnvironmentEffect DEF OrphanInv, RemovalInv
  <1>2. Attended'
    BY <1>1 DEF OrphanInv, Attended, Ordinary, Building, Canonical
  <1>3. NoBridge.name \notin Name
    BY NoneAssumption DEF NoBridge
  <1>4. Claimed'
    BY <1>1, <1>3 DEF OrphanInv, Claimed, ClaimedBy, Ordinary, Canonical
  <1> QED BY <1>2, <1>4

\* Every session and bridge is somebody's, always.
LEMMA OrphanAlways == Spec => []OrphanInv
  <1>1. Init => Attended /\ Claimed
    <2> SUFFICES ASSUME Init, Ordinary
                 PROVE  /\ \A n \in Name : tmux[n] # "managed"
                        /\ \A pid \in Pid, n \in Name : bridge[pid].name # n
      BY DEF Attended, Claimed
    <2>1. "inherited" \notin faults
      BY OrdinaryRules
    <2>2. \A n \in Name : tmux[n] # "managed"
      BY <2>1 DEF Init
    <2>3. \A pid \in Pid : bridge[pid] = NoBridge
      BY <2>1 DEF Init
    <2> QED BY <2>2, <2>3, NoneAssumption DEF NoBridge
  <1>2. OrphanInv /\ [Next]_vars => Attended' /\ Claimed'
    <2> SUFFICES ASSUME OrphanInv, [Next]_vars PROVE Attended' /\ Claimed'
      OBVIOUS
    <2>1. CASE \E p \in Proc : Acts(p)
      BY <2>1, WhoSteps, AttendedStep, ClaimedStep DEF OrphanInv
    <2> QED BY <2>1, WhoSteps, OrphanEnvironment
  <1> QED BY <1>1, <1>2, RemovalAlways, PTL DEF Spec, OrphanInv

\* lifecycle.go CreateOrSelect, cleanupNewSession: for any number of sessions and
\* processes, and whatever fails or exits meanwhile, once the lock of a name is
\* free its managed tmux session has a record and its ttyd processes are those
\* of that record.
THEOREM OrphanFreedom == Spec => []NoOrphans
  <1>1. OrphanInv => NoOrphans
    <2> SUFFICES ASSUME OrphanInv, Ordinary, NEW n \in Name, lock[n] = None
                 PROVE  /\ tmux[n] = "managed" => Canonical(record[n])
                        /\ \A pid \in Pid : bridge[pid].name = n
                                              => pid \in Verified(n, record[n])
      BY DEF NoOrphans, Ordinary
    <2>1. IndInv /\ Attended /\ Claimed
      BY DEF OrphanInv, RemovalInv
    <2>2. \A p \in Proc : pc[p] \in Locked => job[p].name # n
      BY <2>1, NoneAssumption DEF IndInv, LockHeld
    <2>3. \A p \in Proc : ~(job[p].fresh /\ job[p].name = n)
      BY <2>1, <2>2, Local DEF ShapeOK
    <2>4. tmux[n] = "managed" => Canonical(record[n])
      BY <2>1, <2>2 DEF Attended, Building
    <2>5. ASSUME NEW pid \in Pid, bridge[pid].name = n
          PROVE  pid \in Verified(n, record[n])
      <3>1. bridge[pid].base # None /\ bridge[pid].base = record[n].ref
        BY <2>1, <2>3, <2>5 DEF Claimed, ClaimedBy
      <3>2. bridge[pid].form = "safe"
        BY <2>1, <3>1 DEF IndInv, BridgeHome
      <3> QED BY <2>5, <3>1, <3>2 DEF Verified
    <2> QED BY <2>4, <2>5
  <1> QED BY <1>1, OrphanAlways, PTL

-----------------------------------------------------------------------------
(* The refinement.                                                         *)

owner == [n \in Name |-> IF Canonical(record[n]) THEN record[n].ref ELSE None]
acting == [p \in Proc |-> IF pc[p] = "act" THEN job[p].expected ELSE None]

\* Whoever acts on a reference holds the record of that reference.
LEMMA ActingHolds ==
    ASSUME IndInv, NEW p \in Proc, pc[p] = "act"
    PROVE  /\ HoldsRecord(p)
           /\ record[job[p].name] = job[p].managed
           /\ job[p].managed.ref = job[p].expected
           /\ job[p].expected # None
           /\ job[p].name \in Name /\ lock[job[p].name] = p
           /\ Canonical(job[p].managed)
  <1>1. ShapeOK(pc[p], job[p]) /\ CopyOK(p) /\ LockHeld
    BY Local DEF IndInv
  <1>2. pc[p] \in Locked
    BY DEF Locked, Label
  <1> QED BY <1>1, <1>2 DEF ShapeOK, CopyOK, HoldsRecord, LockHeld, Locked, Label, Unread,
                           Canonical

\* Whoever acts on the owner of a name holds the lock of that name.
LEMMA ActingLocks ==
    ASSUME IndInv, NEW n \in Name, Canonical(record[n]),
           NEW q \in Proc, acting[q] = owner[n]
    PROVE  lock[n] = q /\ pc[q] = "act"
  <1>1. owner[n] = record[n].ref /\ record[n].ref # None
    BY DEF owner, Canonical
  <1>2. pc[q] = "act" /\ acting[q] = job[q].expected
    BY <1>1 DEF acting
  <1>3. record[job[q].name].ref = record[n].ref /\ job[q].name \in Name
    BY <1>1, <1>2, ActingHolds
  <1>4. job[q].name = n
    BY <1>1, <1>3 DEF IndInv, RefHome
  <1> QED BY <1>2, <1>4, ActingHolds

\* Every step of a process is a step of SessionOwnership, or leaves it unchanged.
LEMMA OwnershipStep ==
    ASSUME IndInv, NEW p \in Proc, StepOK(p), IndInv'
    PROVE  [Ownership!Next]_(Ownership!vars)
  <1>1. /\ \A q \in Proc \ {p} : pc'[q] = pc[q] /\ job'[q] = job[q]
        /\ RecordStep(p) /\ LockStep(p)
    BY DEF StepOK, Control, IndInv, TypeOK
  <1>2. \A q \in Proc \ {p} : acting'[q] = acting[q]
    BY <1>1 DEF acting
  <1>3. CASE pc[p] = "act" /\ pc'[p] # "act"
    <2>1. record' = record
      BY <1>1, <1>3 DEF RecordStep
    <2>2. acting[p] # None /\ acting'[p] = None
      BY <1>3, ActingHolds DEF acting
    <2>3. acting' = [acting EXCEPT ![p] = None] /\ owner' = owner
      BY <1>2, <2>1, <2>2 DEF acting, owner, Canonical
    <2>4. Ownership!End(p)
      BY <2>2, <2>3 DEF Ownership!End, owner, acting
    <2> QED BY <2>4 DEF Ownership!Next
  <1>4. CASE pc[p] = "act" /\ pc'[p] = "act"
    <2>1. record' = record /\ job'[p].name = job[p].name
      BY <1>1, <1>4 DEF RecordStep, LockStep, Locked, Label
    <2>2. job'[p].expected = record'[job'[p].name].ref
      <3>1. ShapeOK(pc'[p], job'[p]) /\ CopyOK(p)'
        BY DEF StepOK, Control
      <3> QED BY <1>4, <3>1 DEF ShapeOK, CopyOK, HoldsRecord, Locked, Label
    <2>3. job[p].expected = record[job[p].name].ref
      BY <1>4, ActingHolds
    <2>4. acting' = acting /\ owner' = owner
      BY <1>1, <1>4, <2>1, <2>2, <2>3 DEF acting, owner, Canonical
    <2> QED BY <2>4 DEF Ownership!vars, owner, acting
  <1>5. CASE pc[p] # "act" /\ pc'[p] = "act"
    <2> DEFINE n == job[p].name
    <2>1. /\ record' = record /\ job'[p].name = n
          /\ lock[n] = None \/ (pc[p] \in Locked /\ lock[n] = p)
      BY <1>1, <1>5 DEF RecordStep, LockStep, Locked, Label, IndInv, LockHeld
    <2>2. /\ job'[p].expected = record[n].ref /\ Canonical(record[n]) /\ n \in Name
      <3>1. ShapeOK(pc'[p], job'[p]) /\ CopyOK(p)'
        BY DEF StepOK, Control
      <3>2. /\ record'[job'[p].name] = job'[p].managed /\ Canonical(job'[p].managed)
            /\ job'[p].managed.ref = job'[p].expected /\ job'[p].name \in Name
        BY <1>5, <3>1 DEF ShapeOK, CopyOK, HoldsRecord, Locked, Label, Unread
      <3> QED BY <2>1, <3>2
    <2>3. owner[n] = record[n].ref /\ owner[n] # None
      BY <2>2 DEF owner, Canonical
    <2>4. \A q \in Proc : acting[q] # owner[n]
      BY <1>5, <2>1, <2>2, ActingLocks, NoneAssumption
    <2>5. acting[p] = None /\ acting'[p] = owner[n]
      BY <1>5, <2>2, <2>3 DEF acting
    <2>6. acting' = [acting EXCEPT ![p] = owner[n]] /\ owner' = owner
      BY <1>2, <2>1, <2>5 DEF acting, owner, Canonical
    <2>7. PICK m \in Name : m = n
      BY <2>2
    <2>8. Ownership!Begin(p, m)
      BY <2>3, <2>4, <2>5, <2>6, <2>7 DEF Ownership!Begin, Ownership!Idle, owner, acting
    <2> QED BY <2>8 DEF Ownership!Next
  <1>6. CASE pc[p] # "act" /\ pc'[p] # "act"
    <2> DEFINE n == job[p].name
    <2>1. acting' = acting
      BY <1>1, <1>6 DEF acting
    <2>2. CASE record' = record
      BY <2>1, <2>2 DEF Ownership!vars, owner, acting, Canonical
    <2>3. CASE record' # record
      <3>1. PICK x \in Record :
              /\ record' = [record EXCEPT ![n] = x]
              /\ x.kind = "ok" => Canonical(x)
              /\ Canonical(record[n]) /\ x.kind = "ok" => x.ref = record[n].ref
        BY <1>1, <2>3 DEF RecordStep
      <3>2. pc[p] \in Locked /\ n \in Name /\ lock[n] = p
        BY <1>1, <2>3 DEF RecordStep, IndInv, LockHeld
      <3>3. \A m \in Name : record'[m] = IF m = n THEN x ELSE record[m]
        BY <3>1 DEF IndInv, TypeOK
      <3>4. owner' = [owner EXCEPT ![n] = IF Canonical(x) THEN x.ref ELSE None]
        BY <3>2, <3>3, ZenonT(60) DEF owner, Canonical
      <3>5. CASE Canonical(record[n]) /\ Canonical(x)
        <4>1. owner' = owner
          BY <3>1, <3>2, <3>4, <3>5 DEF owner, Canonical
        <4> QED BY <2>1, <4>1 DEF Ownership!vars, owner, acting
      <3>6. CASE Canonical(record[n]) /\ ~Canonical(x)
        <4>1. owner[n] # None /\ owner' = [owner EXCEPT ![n] = None]
          BY <3>2, <3>4, <3>6 DEF owner, Canonical
        <4>2. \A q \in Proc : acting[q] # owner[n]
          BY <1>6, <3>2, <3>6, ActingLocks
        <4>3. PICK m \in Name : m = n
          BY <3>2
        <4>4. Ownership!Free(m)
          BY <2>1, <4>1, <4>2, <4>3 DEF Ownership!Free, Ownership!Idle, owner, acting
        <4> QED BY <4>4 DEF Ownership!Next
      <3>7. CASE ~Canonical(record[n]) /\ Canonical(x)
        <4>1. x.ref \in Ref /\ x.ref # None
          BY <3>7 DEF Record, Canonical
        <4>2. owner[n] = None /\ owner' = [owner EXCEPT ![n] = x.ref]
          BY <3>2, <3>4, <3>7 DEF owner
        <4>3. \A m \in Name : owner[m] # x.ref
          <5>1. \A m \in Name : m # n => record'[m].ref # record'[n].ref
            BY <3>2, <3>3, <4>1 DEF IndInv, RefHome
          <5> QED BY <3>2, <3>3, <4>1, <4>2, <5>1 DEF owner
        <4>4. PICK m \in Name, r \in Ref : m = n /\ r = x.ref
          BY <3>2, <4>1
        <4>5. Ownership!Claim(m, r)
          BY <2>1, <4>2, <4>3, <4>4 DEF Ownership!Claim, owner, acting
        <4> QED BY <4>5 DEF Ownership!Next
      <3>8. CASE ~Canonical(record[n]) /\ ~Canonical(x)
        <4>1. owner' = owner
          BY <3>2, <3>4, <3>8 DEF owner
        <4> QED BY <2>1, <4>1 DEF Ownership!vars, owner, acting
      <3> QED BY <3>5, <3>6, <3>7, <3>8
    <2> QED BY <2>2, <2>3
  <1> QED BY <1>3, <1>4, <1>5, <1>6

\* lifecycle.go: the lifecycle implements SessionOwnership: names change hands
\* only through a removed record, and authorised actions run undisturbed.
THEOREM Refinement == Spec => ImplementsOwnership
  <1>1. Init => Ownership!Init
    <2> SUFFICES ASSUME Init PROVE Ownership!Init
      OBVIOUS
    <2>1. \A n \in Name : ~Canonical(record[n])
      <3>1. IndInv
        BY InitIndInv
      <3> QED BY DEF Init, Canonical, NoRecord, InvalidRecord
    <2> QED BY <2>1 DEF Init, Ownership!Init
  <1>2. ASSUME IndInv, [Next]_vars, IndInv' PROVE [Ownership!Next]_(Ownership!vars)
    <2>1. CASE \E p \in Proc : Request(p) \/ Step(p) \/ Cancel(p) \/ Crash(p)
      BY <1>2, <2>1, ProcessStep, OwnershipStep
    <2>2. CASE UNCHANGED <<record, pc, job>>
      BY <2>2 DEF Ownership!vars, Canonical
    <2> QED BY <1>2, <2>1, <2>2 DEF Next, Environment, BridgeBinds, BridgeExits,
                  TmuxExits, UnmanagedStarts, vars
  <1> QED BY <1>1, <1>2, Inductive, PTL DEF Spec, ImplementsOwnership, Ownership!Spec
=============================================================================
