----------------------- MODULE HistorySnapshotsProofs -----------------------
(***************************************************************************)
(* The budgets of the snapshot manager are exact and its pages guarded,    *)
(* for any number of requests, logins, sessions and snapshots and for      *)
(* every size and limit.                                                   *)
(*                                                                         *)
(* A request makes several calls of the manager, and between them anybody  *)
(* may log out, terminate a session or remove the snapshot. What a request *)
(* relies on in spite of that is that identities are not used again: the   *)
(* snapshot it names existed when the request came, so if it is still in   *)
(* the table it is the same, and no logout or termination has cleared the  *)
(* table of it since.                                                      *)
(***************************************************************************)
EXTENDS HistorySnapshots, SumTheorems

-----------------------------------------------------------------------------
(* The inductive invariant.                                                *)

(* The steps of a request for a snapshot, and those that know its pane.    *)
Accessing == {"bind", "bind activity", "resolve", "resolve activity", "page",
              "drop", "delete"}
Bound == {"resolve", "resolve activity", "page"}

(* The table is a table, and its snapshots are of panes that existed.      *)
TableOK ==
    /\ snapshots = [id \in DOMAIN snapshots |-> snapshots[id]]
    /\ \A id \in DOMAIN snapshots : snapshots[id].gen # 0

(* A session whose table has been cleared has no pane any more.            *)
GoneOK == \A r \in terminated : pane[r] = 0

(* A request that is under way has not been answered.  It names a snapshot *)
(* that existed when it came, so a snapshot stored later, even one of its  *)
(* own login after the logout, is not the one it is for.                   *)
ReqOK(p) ==
    /\ pc[p] \notin {"idle", "forget"} => answer[p].status = "none"
    /\ pc[p] \notin {"idle", "forget"} => req[p].owner \in Owner
    /\ pc[p] \in {"capture", "stamp", "store"} \cup Bound => req[p].gen # 0
    /\ pc[p] \in {"capture", "stamp", "store", "forget"} \cup Bound
         => req[p].ref \in Refs
    /\ pc[p] \in {"stamp", "store"} => req[p].size \in Sizes
    /\ pc[p] \in Accessing => req[p].id \in 1..issued
    /\ pc[p] \in Accessing /\ req[p].owner.user \in loggedOut
         /\ req[p].id \in DOMAIN snapshots
         => snapshots[req[p].id].owner # req[p].owner
    /\ pc[p] \in Bound /\ req[p].id \in DOMAIN snapshots
         => snapshots[req[p].id].ref = req[p].ref
    /\ pc[p] = "page" /\ req[p].id \in DOMAIN snapshots
         => req[p].ref \notin terminated
    /\ pc[p] = "forget" => pane[req[p].ref] = 0
    /\ req[p].at <= now

IndInv == BudgetsKept /\ TableOK /\ GoneOK /\ \A p \in Requests : ReqOK(p)

-----------------------------------------------------------------------------
(* The table.                                                              *)

(* The snapshots gone leave the table with their share of the budgets; of  *)
(* the others only the time of access may change.                          *)
Shrinks(gone) ==
    /\ gone \subseteq DOMAIN snapshots
    /\ DOMAIN snapshots' = DOMAIN snapshots \ gone
    /\ snapshots' = [id \in DOMAIN snapshots' |-> snapshots'[id]]
    /\ \A id \in DOMAIN snapshots' :
         /\ snapshots'[id] \in Snapshot
         /\ snapshots'[id].owner = snapshots[id].owner
         /\ snapshots'[id].ref = snapshots[id].ref
         /\ snapshots'[id].gen = snapshots[id].gen
         /\ snapshots'[id].size = snapshots[id].size
    /\ memoryUsed' = memoryUsed - Memory(gone)
    /\ nodesUsed' = nodesUsed - Nodes(gone)
    /\ issued' = issued

(* The fields of a snapshot.                                               *)
LEMMA SnapshotFields ==
  ASSUME NEW s \in Snapshot
  PROVE  /\ s.owner \in Owner /\ s.ref \in Refs /\ s.gen \in Nat /\ s.last \in Nat
         /\ s.size \in Sizes /\ s.size.memory \in Nat /\ s.size.nodes \in Nat
         /\ s.owner.user \in Users
BY SnapshotAssumption DEF Snapshot, Owner

(* Identities are numbers up to the last one issued.                       *)
LEMMA TableFinite ==
  ASSUME TypeOK
  PROVE  IsFiniteSet(DOMAIN snapshots) /\ issued \in Nat
<1>1. issued \in Nat /\ DOMAIN snapshots \subseteq 1..issued
  BY SnapshotAssumption DEF TypeOK
<1>2. PICK n \in Nat : n = issued
  BY <1>1
<1>3. IsFiniteSet(1..n)
  BY FS_Interval
<1> QED
  BY <1>1, <1>2, <1>3, FS_Subset

(* deleteLocked gives back what the snapshots took.                        *)
LEMMA DeleteShrinks ==
  ASSUME TypeOK, NEW gone, gone \subseteq DOMAIN snapshots,
         Delete(gone), issued' = issued
  PROVE  Shrinks(gone)
<1>1. /\ snapshots' = [id \in DOMAIN snapshots \ gone |-> snapshots[id]]
      /\ memoryUsed' = memoryUsed - Memory(gone)
      /\ nodesUsed' = nodesUsed - Nodes(gone)
  BY DEF Delete
<1>2. DOMAIN snapshots' = DOMAIN snapshots \ gone
  BY <1>1
<1>3. \A id \in DOMAIN snapshots' : snapshots'[id] = snapshots[id]
  BY <1>1
<1>4. \A id \in DOMAIN snapshots' : snapshots[id] \in Snapshot
  BY <1>2 DEF TypeOK
<1>5. snapshots' = [id \in DOMAIN snapshots' |-> snapshots'[id]]
  BY <1>1
<1> QED
  BY <1>1, <1>2, <1>3, <1>4, <1>5 DEF Shrinks

(* A step that leaves the table alone.                                     *)
LEMMA UnstoredShrinks ==
  ASSUME IndInv, Unstored
  PROVE  Shrinks({})
<1>1. Memory({}) = 0 /\ Nodes({}) = 0
  BY SumEmpty DEF Memory, Nodes
<1>2. memoryUsed \in Nat /\ nodesUsed \in Nat
  BY DEF IndInv, BudgetsKept, TypeOK
<1>3. memoryUsed' = memoryUsed - 0 /\ nodesUsed' = nodesUsed - 0
  BY <1>2 DEF Unstored
<1>4. snapshots' = snapshots /\ issued' = issued
  BY DEF Unstored
<1>5. DOMAIN snapshots' = DOMAIN snapshots \ {}
  BY <1>4
<1>6. \A id \in DOMAIN snapshots' : snapshots'[id] \in Snapshot
  BY <1>4 DEF IndInv, BudgetsKept, TypeOK
<1>7. snapshots' = [id \in DOMAIN snapshots' |-> snapshots'[id]]
  BY <1>4 DEF IndInv, TableOK
<1> QED
  BY <1>1, <1>3, <1>4, <1>5, <1>6, <1>7 DEF Shrinks

(* An access prunes first and then sets one time of access.                *)
LEMMA TouchShrinks ==
  ASSUME TypeOK, NEW id, Touch(id), issued' = issued
  PROVE  Shrinks(Idle(now))
<1>1. Idle(now) \subseteq DOMAIN snapshots
  BY DEF Idle
<1>2. PICK gone : gone = Idle(now)
  OBVIOUS
<1>3. /\ snapshots' = [s \in DOMAIN snapshots \ gone |->
           IF s = id THEN [snapshots[s] EXCEPT !.last = now] ELSE snapshots[s]]
      /\ memoryUsed' = memoryUsed - Memory(gone)
      /\ nodesUsed' = nodesUsed - Nodes(gone)
  BY <1>2 DEF Touch
<1>4. DOMAIN snapshots' = DOMAIN snapshots \ gone
  BY <1>3
<1>5. snapshots' = [s \in DOMAIN snapshots' |-> snapshots'[s]]
  BY <1>3
<1>6. now \in Nat
  BY SnapshotAssumption DEF TypeOK
<1>7. ASSUME NEW s \in DOMAIN snapshots'
      PROVE  /\ snapshots'[s] \in Snapshot
             /\ snapshots'[s].owner = snapshots[s].owner
             /\ snapshots'[s].ref = snapshots[s].ref
             /\ snapshots'[s].gen = snapshots[s].gen
             /\ snapshots'[s].size = snapshots[s].size
  <2>1. PICK v : v = snapshots[s]
    OBVIOUS
  <2>2. v \in Snapshot
    BY <1>4, <2>1 DEF TypeOK
  <2>3. snapshots'[s] = IF s = id THEN [v EXCEPT !.last = now] ELSE v
    BY <1>3, <2>1
  <2>4. PICK n : n = now
    OBVIOUS
  <2>5. [v EXCEPT !.last = n] \in Snapshot /\ [v EXCEPT !.last = n].owner = v.owner
        /\ [v EXCEPT !.last = n].ref = v.ref /\ [v EXCEPT !.last = n].gen = v.gen
        /\ [v EXCEPT !.last = n].size = v.size
    BY <1>6, <2>2, <2>4 DEF Snapshot
  <2> QED
    BY <2>1, <2>2, <2>3, <2>4, <2>5
<1>8. Shrinks(gone)
  BY <1>1, <1>2, <1>3, <1>4, <1>5, <1>7 DEF Shrinks
<1> QED
  BY <1>2, <1>8

(* The sums over the table follow a step that shrinks it.                  *)
LEMMA ShrinkBudgets ==
  ASSUME IndInv, NEW gone, Shrinks(gone)
  PROVE  /\ memoryUsed' \in Nat /\ nodesUsed' \in Nat /\ BudgetsAccounted'
         /\ memoryUsed' <= memoryUsed /\ nodesUsed' <= nodesUsed
<1>1. TypeOK /\ BudgetsAccounted
  BY DEF IndInv, BudgetsKept
<1>2. PICK D, E, t, u : D = DOMAIN snapshots /\ E = DOMAIN snapshots' /\ t = snapshots /\ u = snapshots'
  OBVIOUS
<1>3. /\ gone \subseteq D /\ E = D \ gone /\ IsFiniteSet(D)
      /\ \A id \in E : u[id].size = t[id].size
      /\ \A id \in D : t[id].size.memory \in Nat /\ t[id].size.nodes \in Nat
  BY <1>1, <1>2, TableFinite, SnapshotFields DEF Shrinks, TypeOK
<1>4. /\ SumFunctionOnSet([id \in E |-> u[id].size.memory], E)
           = SumFunctionOnSet([id \in D |-> t[id].size.memory], D)
             - SumFunctionOnSet([id \in gone |-> t[id].size.memory], gone)
      /\ SumFunctionOnSet([id \in E |-> u[id].size.memory], E) \in Nat
      /\ SumFunctionOnSet([id \in D |-> t[id].size.memory], D) \in Nat
      /\ SumFunctionOnSet([id \in gone |-> t[id].size.memory], gone) \in Nat
  <2>1. PICK f, g, h : f = [id \in D |-> t[id].size.memory]
          /\ g = [id \in gone |-> t[id].size.memory] /\ h = [id \in E |-> u[id].size.memory]
    OBVIOUS
  <2>2. /\ \A id \in D : f[id] \in Nat
        /\ \A id \in gone : g[id] = f[id]
        /\ \A id \in D \ gone : h[id] = f[id]
    BY <1>3, <2>1
  <2>3. /\ SumFunctionOnSet(h, D \ gone) = SumFunctionOnSet(f, D) - SumFunctionOnSet(g, gone)
        /\ SumFunctionOnSet(h, D \ gone) \in Nat /\ SumFunctionOnSet(f, D) \in Nat
        /\ SumFunctionOnSet(g, gone) \in Nat
    <3>1. IsFiniteSet(D) /\ gone \subseteq D
      BY <1>3
    <3> QED
      BY ONLY <2>2, <3>1, SumRest, SMTT(60)
  <2> QED
    BY <1>3, <2>1, <2>3
<1>5. /\ SumFunctionOnSet([id \in E |-> u[id].size.nodes], E)
           = SumFunctionOnSet([id \in D |-> t[id].size.nodes], D)
             - SumFunctionOnSet([id \in gone |-> t[id].size.nodes], gone)
      /\ SumFunctionOnSet([id \in E |-> u[id].size.nodes], E) \in Nat
      /\ SumFunctionOnSet([id \in D |-> t[id].size.nodes], D) \in Nat
      /\ SumFunctionOnSet([id \in gone |-> t[id].size.nodes], gone) \in Nat
  <2>1. PICK f, g, h : f = [id \in D |-> t[id].size.nodes]
          /\ g = [id \in gone |-> t[id].size.nodes] /\ h = [id \in E |-> u[id].size.nodes]
    OBVIOUS
  <2>2. /\ \A id \in D : f[id] \in Nat
        /\ \A id \in gone : g[id] = f[id]
        /\ \A id \in D \ gone : h[id] = f[id]
    BY <1>3, <2>1
  <2>3. /\ SumFunctionOnSet(h, D \ gone) = SumFunctionOnSet(f, D) - SumFunctionOnSet(g, gone)
        /\ SumFunctionOnSet(h, D \ gone) \in Nat /\ SumFunctionOnSet(f, D) \in Nat
        /\ SumFunctionOnSet(g, gone) \in Nat
    <3>1. IsFiniteSet(D) /\ gone \subseteq D
      BY <1>3
    <3> QED
      BY ONLY <2>2, <3>1, SumRest, SMTT(60)
  <2> QED
    BY <1>3, <2>1, <2>3
<1>6. /\ memoryUsed = SumFunctionOnSet([id \in D |-> t[id].size.memory], D)
      /\ nodesUsed = SumFunctionOnSet([id \in D |-> t[id].size.nodes], D)
  BY <1>1, <1>2 DEF BudgetsAccounted, Memory, Nodes
<1>7. /\ memoryUsed' = memoryUsed - SumFunctionOnSet([id \in gone |-> t[id].size.memory], gone)
      /\ nodesUsed' = nodesUsed - SumFunctionOnSet([id \in gone |-> t[id].size.nodes], gone)
  BY <1>2 DEF Shrinks, Memory, Nodes
<1>8. /\ memoryUsed' = SumFunctionOnSet([id \in E |-> u[id].size.memory], E)
      /\ nodesUsed' = SumFunctionOnSet([id \in E |-> u[id].size.nodes], E)
  BY <1>4, <1>5, <1>6, <1>7
<1>9. BudgetsAccounted'
  BY <1>2, <1>8 DEF BudgetsAccounted, Memory, Nodes
<1>10. memoryUsed' \in Nat /\ nodesUsed' \in Nat
  BY <1>4, <1>5, <1>8
<1>11. memoryUsed' <= memoryUsed
  <2>1. PICK a \in Nat, b \in Nat, c \in Nat : a = memoryUsed /\ b = memoryUsed'
          /\ c = SumFunctionOnSet([id \in gone |-> t[id].size.memory], gone)
    BY <1>4, <1>6, <1>10
  <2>2. b = a - c
    BY <1>7, <2>1
  <2>3. b <= a
    BY <2>2
  <2> QED
    BY <2>1, <2>3
<1>12. nodesUsed' <= nodesUsed
  <2>1. PICK a \in Nat, b \in Nat, c \in Nat : a = nodesUsed /\ b = nodesUsed'
          /\ c = SumFunctionOnSet([id \in gone |-> t[id].size.nodes], gone)
    BY <1>5, <1>6, <1>10
  <2>2. b = a - c
    BY <1>7, <2>1
  <2>3. b <= a
    BY <2>2
  <2> QED
    BY <2>1, <2>3
<1> QED
  BY <1>9, <1>10, <1>11, <1>12

(* A table that shrinks keeps within the limits.                           *)
LEMMA ShrinkLimits ==
  ASSUME IndInv, NEW gone, Shrinks(gone)
  PROVE  LimitsHold'
<1>1. TypeOK /\ BudgetsAccounted /\ LimitsHold /\ BudgetsAccounted'
      /\ IsFiniteSet(DOMAIN snapshots)
  BY ShrinkBudgets, TableFinite DEF IndInv, BudgetsKept
<1>2. Memory(DOMAIN snapshots)' <= ProcessMaxBytes /\ Nodes(DOMAIN snapshots)' <= ProcessMaxNodes
  <2>1. memoryUsed <= ProcessMaxBytes /\ nodesUsed <= ProcessMaxNodes
    BY <1>1 DEF BudgetsAccounted, LimitsHold
  <2>2. /\ memoryUsed \in Nat /\ nodesUsed \in Nat /\ memoryUsed' \in Nat /\ nodesUsed' \in Nat
        /\ memoryUsed' <= memoryUsed /\ nodesUsed' <= nodesUsed
        /\ ProcessMaxBytes \in Nat /\ ProcessMaxNodes \in Nat
    BY <1>1, ShrinkBudgets, SnapshotAssumption DEF TypeOK
  <2>3. memoryUsed' <= ProcessMaxBytes /\ nodesUsed' <= ProcessMaxNodes
    BY <2>1, <2>2
  <2> QED
    BY <1>1, <2>3 DEF BudgetsAccounted
<1>3. PICK D, E, t, u : D = DOMAIN snapshots /\ E = DOMAIN snapshots' /\ t = snapshots /\ u = snapshots'
  OBVIOUS
<1>4. E \subseteq D /\ IsFiniteSet(D) /\ \A id \in E : u[id].owner = t[id].owner
  BY <1>1, <1>3 DEF Shrinks
<1>5. \A S, n : S \subseteq D /\ n \in Nat /\ Cardinality(S) <= n
        => \A T \in SUBSET S : Cardinality(T) <= n
  <2> SUFFICES ASSUME NEW S, NEW n \in Nat, S \subseteq D, Cardinality(S) <= n, NEW T \in SUBSET S
               PROVE  Cardinality(T) <= n
    OBVIOUS
  <2>1. IsFiniteSet(S)
    BY <1>4, FS_Subset
  <2>2. Cardinality(T) <= Cardinality(S) /\ IsFiniteSet(T)
    BY <2>1, FS_Subset
  <2>3. Cardinality(T) \in Nat /\ Cardinality(S) \in Nat
    BY <2>1, <2>2, FS_CardinalityType
  <2> QED
    BY <2>2, <2>3
<1>6. Cardinality(E) <= PerProcess
  BY <1>1, <1>3, <1>4, <1>5, SnapshotAssumption DEF LimitsHold
<1>7. ASSUME NEW o \in Owner PROVE Cardinality({id \in E : u[id].owner = o}) <= PerViewer
  <2>1. Cardinality({id \in D : t[id].owner = o}) <= PerViewer /\ PerViewer \in Nat
    BY <1>1, <1>3, SnapshotAssumption DEF LimitsHold, OfOwner
  <2>2. {id \in E : u[id].owner = o} \in SUBSET {id \in D : t[id].owner = o}
    BY <1>4
  <2>3. {id \in D : t[id].owner = o} \subseteq D
    OBVIOUS
  <2> QED
    BY ONLY <1>5, <2>1, <2>2, <2>3
<1>8. ASSUME NEW o \in Users PROVE Cardinality({id \in E : u[id].owner.user = o}) <= PerUser
  <2>1. Cardinality({id \in D : t[id].owner.user = o}) <= PerUser /\ PerUser \in Nat
    BY <1>1, <1>3, SnapshotAssumption DEF LimitsHold, OfUser
  <2>2. {id \in E : u[id].owner.user = o} \in SUBSET {id \in D : t[id].owner.user = o}
    BY <1>4
  <2>3. {id \in D : t[id].owner.user = o} \subseteq D
    OBVIOUS
  <2> QED
    BY ONLY <1>5, <2>1, <2>2, <2>3
<1> QED
  BY <1>2, <1>3, <1>6, <1>7, <1>8 DEF LimitsHold, OfOwner, OfUser

-----------------------------------------------------------------------------
(* What a step does to the requests that do not take it.                   *)

(* No snapshot that existed comes back, changes its owner or its session,  *)
(* or survives a logout of its login or a termination of its session that  *)
(* happens in this step; a pane that is gone stays gone.                   *)
Settles ==
    /\ issued' \in Nat /\ issued <= issued' /\ now \in Nat /\ now' \in Nat /\ now <= now'
    /\ \A r \in Refs : pane[r] = 0 => pane'[r] = 0
    /\ \A id \in DOMAIN snapshots' \cap (1..issued) :
         /\ id \in DOMAIN snapshots
         /\ snapshots'[id].owner = snapshots[id].owner
         /\ snapshots'[id].ref = snapshots[id].ref
         /\ snapshots[id].owner.user \in loggedOut' => snapshots[id].owner.user \in loggedOut
         /\ snapshots[id].ref \in terminated' => snapshots[id].ref \in terminated

Untouched(q) == pc'[q] = pc[q] /\ req'[q] = req[q] /\ answer'[q] = answer[q]

(* What holds of a request that waits goes on to hold.                     *)
LEMMA OthersKeep ==
  ASSUME IndInv, Settles, NEW q \in Requests, Untouched(q)
  PROVE  ReqOK(q)'
<1>1. ReqOK(q)
  BY DEF IndInv
<1>2. PICK v : v = req[q]
  OBVIOUS
<1>3. v \in Req /\ issued \in Nat
  BY <1>2, TableFinite DEF IndInv, BudgetsKept, TypeOK
<1>4. req'[q] = v /\ pc'[q] = pc[q] /\ answer'[q] = answer[q]
  BY <1>2 DEF Untouched
<1>5. v.id \in Nat /\ v.at \in Nat
  BY <1>3 DEF Req
<1>6. v.at <= now'
  BY <1>1, <1>2, <1>5 DEF ReqOK, Settles
<1>7. pc[q] \in Accessing => v.id \in 1..issued /\ v.id \in 1..issued'
  BY <1>1, <1>2, <1>3, <1>5 DEF ReqOK, Settles
<1>8. ASSUME pc[q] \in Accessing, v.id \in DOMAIN snapshots'
      PROVE  /\ v.id \in DOMAIN snapshots
             /\ snapshots'[v.id].owner = snapshots[v.id].owner
             /\ snapshots'[v.id].ref = snapshots[v.id].ref
             /\ snapshots[v.id].owner.user \in loggedOut' => snapshots[v.id].owner.user \in loggedOut
             /\ snapshots[v.id].ref \in terminated' => snapshots[v.id].ref \in terminated
  <2>1. v.id \in DOMAIN snapshots' \cap (1..issued)
    BY <1>7, <1>8
  <2> QED
    BY <2>1 DEF Settles
<1>9. pc[q] \in Accessing /\ v.owner.user \in loggedOut' /\ v.id \in DOMAIN snapshots'
        => snapshots'[v.id].owner # v.owner
  <2> SUFFICES ASSUME pc[q] \in Accessing, v.owner.user \in loggedOut', v.id \in DOMAIN snapshots',
                      snapshots'[v.id].owner = v.owner
               PROVE  FALSE
    OBVIOUS
  <2>1. v.id \in DOMAIN snapshots /\ snapshots[v.id].owner = v.owner
    BY <1>8
  <2>2. v.owner.user \in loggedOut
    BY <1>8, <2>1
  <2> QED
    BY <1>1, <1>2, <2>1, <2>2 DEF ReqOK
<1>10. Bound \subseteq Accessing /\ "page" \in Bound
  BY DEF Bound, Accessing
<1>11. pc[q] \in Bound /\ v.id \in DOMAIN snapshots' => snapshots'[v.id].ref = v.ref
  BY <1>1, <1>2, <1>8, <1>10 DEF ReqOK
<1>12. pc[q] = "page" /\ v.id \in DOMAIN snapshots' => v.ref \notin terminated'
  <2> SUFFICES ASSUME pc[q] = "page", v.id \in DOMAIN snapshots', v.ref \in terminated'
               PROVE  FALSE
    OBVIOUS
  <2>1. v.id \in DOMAIN snapshots /\ snapshots[v.id].ref = v.ref
    BY <1>1, <1>2, <1>8, <1>10 DEF ReqOK
  <2>2. v.ref \in terminated
    BY <1>8, <1>10, <2>1
  <2> QED
    BY <1>1, <1>2, <2>1, <2>2 DEF ReqOK
<1>13. pc[q] = "forget" => pane'[v.ref] = 0
  BY <1>1, <1>2 DEF ReqOK, Settles
<1> QED
  BY <1>1, <1>2, <1>4, <1>6, <1>7, <1>9, <1>11, <1>12, <1>13 DEF ReqOK

(* The part of the type invariant that is not the table.                   *)
RestTyped ==
    /\ now \in 0..MaxTime
    /\ pane \in [Refs -> 0..MaxGenerations]
    /\ loggedOut \subseteq Users /\ terminated \subseteq Refs
    /\ pc \in [Requests -> Steps]
    /\ req \in [Requests -> Req]
    /\ answer \in [Requests -> [status: Statuses, page: SUBSET Owner]]

(* A step that at most removes keeps the invariant, if it does for the     *)
(* request that takes it.                                                  *)
LEMMA ShrinkKeeps ==
  ASSUME IndInv, NEW gone, Shrinks(gone), RestTyped', GoneOK', Settles,
         \A q \in Requests : Untouched(q) \/ ReqOK(q)'
  PROVE  IndInv'
<1>1. TypeOK /\ TableOK
  BY DEF IndInv, BudgetsKept
<1>2. /\ memoryUsed' \in Nat /\ nodesUsed' \in Nat /\ BudgetsAccounted' /\ LimitsHold'
  BY ShrinkBudgets, ShrinkLimits
<1>3. TypeOK'
  <2>1. DOMAIN snapshots' \subseteq 1..issued' /\ issued' \in 0..MaxSnapshots
    BY <1>1 DEF TypeOK, Shrinks
  <2>2. \A id \in DOMAIN snapshots' : snapshots'[id] \in Snapshot
    BY DEF Shrinks
  <2> QED
    BY <1>2, <2>1, <2>2 DEF TypeOK, RestTyped
<1>4. TableOK'
  BY <1>1 DEF TableOK, Shrinks
<1>5. \A q \in Requests : ReqOK(q)'
  BY OthersKeep
<1> QED
  BY <1>2, <1>3, <1>4, <1>5 DEF IndInv, BudgetsKept

(* Most steps leave the world alone.                                       *)
LEMMA ShrinkSettles ==
  ASSUME IndInv, NEW gone, Shrinks(gone), UNCHANGED World
  PROVE  Settles
<1>1. issued \in Nat /\ now \in Nat
  BY TableFinite, SnapshotAssumption DEF IndInv, BudgetsKept, TypeOK
<1>2. issued' = issued /\ now' = now /\ pane' = pane /\ loggedOut' = loggedOut /\ terminated' = terminated
  BY DEF Shrinks, World
<1>3. \A id \in DOMAIN snapshots' : id \in DOMAIN snapshots
        /\ snapshots'[id].owner = snapshots[id].owner /\ snapshots'[id].ref = snapshots[id].ref
  BY DEF Shrinks
<1> QED
  BY <1>1, <1>2, <1>3 DEF Settles

(* A step of one request that shrinks the table and leaves the world.      *)
LEMMA HandlerKeeps ==
  ASSUME IndInv, NEW p \in Requests, NEW gone, Shrinks(gone), UNCHANGED World,
         NEW step \in Steps, pc' = [pc EXCEPT ![p] = step],
         NEW r \in Req, req' = [req EXCEPT ![p] = r],
         NEW a \in [status: Statuses, page: SUBSET Owner], answer' = [answer EXCEPT ![p] = a],
         pc'[p] = step /\ req'[p] = r /\ answer'[p] = a => ReqOK(p)'
  PROVE  IndInv'
<1>1. TypeOK
  BY DEF IndInv, BudgetsKept
<1>2. RestTyped'
  BY <1>1 DEF RestTyped, TypeOK, World
<1>3. GoneOK'
  BY DEF IndInv, GoneOK, World
<1>4. pc'[p] = step /\ req'[p] = r /\ answer'[p] = a
  BY <1>1 DEF TypeOK
<1>5. \A q \in Requests : q # p => Untouched(q)
  BY <1>1 DEF TypeOK, Untouched
<1> QED
  BY <1>2, <1>3, <1>4, <1>5, ShrinkSettles, ShrinkKeeps

-----------------------------------------------------------------------------
(* The steps.                                                              *)

(* The request and the answer of an idle one.                              *)
LEMMA NoReqTyped ==
  /\ NoReq \in Req
  /\ NoReq.gen = 0 /\ NoReq.id = 0 /\ NoReq.at = 0
BY DEF NoReq, Req

(* The types of the requests.                                              *)
LEMMA Typed ==
  ASSUME IndInv
  PROVE  /\ TypeOK /\ now \in Nat /\ issued \in Nat
         /\ pc \in [Requests -> Steps] /\ req \in [Requests -> Req]
         /\ answer \in [Requests -> [status: Statuses, page: SUBSET Owner]]
BY TableFinite, SnapshotAssumption DEF IndInv, BudgetsKept, TypeOK

(* A request is answered and ends.                                         *)
LEMMA AnswersKeeps ==
  ASSUME IndInv, NEW p \in Requests, NEW gone, Shrinks(gone), UNCHANGED World,
         NEW status \in Statuses, NEW page \in SUBSET Owner, Answers(p, status, page)
  PROVE  IndInv'
<1>1. PICK a : a = [status |-> status, page |-> page]
  OBVIOUS
<1>2. a \in [status: Statuses, page: SUBSET Owner]
  BY <1>1
<1>3. pc' = [pc EXCEPT ![p] = "idle"] /\ req' = [req EXCEPT ![p] = NoReq] /\ answer' = [answer EXCEPT ![p] = a]
  BY <1>1 DEF Answers
<1>4. "idle" \in Steps
  BY DEF Steps
<1>5. now' \in Nat
  BY Typed DEF World
<1>6. pc'[p] = "idle" /\ req'[p] = NoReq => ReqOK(p)'
  BY <1>5, NoReqTyped DEF ReqOK, Accessing, Bound
<1> QED
  BY <1>2, <1>3, <1>4, <1>6, NoReqTyped, HandlerKeeps

(* What is pruned was there.                                               *)
LEMMA IdleSubset ==
  \A t : Idle(t) \subseteq DOMAIN snapshots
BY DEF Idle

(* A lookup that fails has pruned all the same.                            *)
LEMMA LookupErrorKeeps ==
  ASSUME IndInv, NEW p \in Requests, LookupError(p), UNCHANGED issued, UNCHANGED World
  PROVE  IndInv'
<1>1. Shrinks(Idle(now))
  BY Typed, IdleSubset, DeleteShrinks DEF LookupError
<1>2. PICK status : status = IF Present(p) THEN "notfound" ELSE "gone"
  OBVIOUS
<1>3. status \in Statuses /\ Answers(p, status, {})
  BY <1>2 DEF LookupError, Statuses
<1>4. {} \in SUBSET Owner
  OBVIOUS
<1> QED
  BY <1>1, <1>3, <1>4, AnswersKeeps

(* A request comes.                                                        *)
LEMMA StartsKeeps ==
  ASSUME IndInv, NEW p \in Requests, NEW step \in Steps, NEW r \in Req, Starts(p, step, r),
         pc'[p] = step /\ req'[p] = r /\ answer'[p].status = "none" => ReqOK(p)'
  PROVE  IndInv'
<1>1. PICK a : a = [status |-> "none", page |-> {}]
  OBVIOUS
<1>2. a \in [status: Statuses, page: SUBSET Owner] /\ a.status = "none"
  BY <1>1 DEF Statuses
<1>3. /\ pc' = [pc EXCEPT ![p] = step] /\ req' = [req EXCEPT ![p] = r]
      /\ answer' = [answer EXCEPT ![p] = a] /\ UNCHANGED World
  BY <1>1 DEF Starts
<1>4. Shrinks({})
  BY UnstoredShrinks DEF Starts
<1> QED
  BY <1>2, <1>3, <1>4, HandlerKeeps

LEMMA StartCreateKeeps ==
  ASSUME IndInv, NEW p \in Requests, NEW o \in Owner, NEW r \in Refs, StartCreate(p, o, r)
  PROVE  IndInv'
<1>1. PICK g : g = pane[r]
  OBVIOUS
<1>2. g \in Nat /\ g # 0
  BY <1>1, Typed, SnapshotAssumption DEF StartCreate, FindHistoryPane, TypeOK
<1>3. PICK v : v = [NoReq EXCEPT !.owner = o, !.ref = r, !.gen = g]
  OBVIOUS
<1>4. v \in Req /\ v.owner = o /\ v.ref = r /\ v.gen = g /\ v.at = 0
  BY <1>2, <1>3 DEF Req, NoReq
<1>5. Starts(p, "capture", v)
  BY <1>1, <1>3 DEF StartCreate
<1>6. now' \in Nat
  BY <1>5, Typed DEF Starts, World
<1>7. pc'[p] = "capture" /\ req'[p] = v /\ answer'[p].status = "none" => ReqOK(p)'
  BY <1>2, <1>4, <1>6 DEF ReqOK, Accessing, Bound
<1>8. "capture" \in Steps
  BY DEF Steps
<1> QED
  BY <1>4, <1>5, <1>7, <1>8, StartsKeeps

LEMMA StartAccessKeeps ==
  ASSUME IndInv, NEW p \in Requests, NEW o \in Owner, NEW i, i \in 1..issued,
         NEW step, step \in {"bind", "bind activity", "delete"}, StartAccess(p, step, o, i)
  PROVE  IndInv'
<1>1. PICK v : v = [NoReq EXCEPT !.owner = o, !.id = i]
  OBVIOUS
<1>2. i \in Nat
  <2>1. PICK n : n = issued
    OBVIOUS
  <2>2. n \in Nat /\ i \in 1..n
    BY <2>1, Typed
  <2> QED
    BY ONLY <2>2
<1>3. v \in Req /\ v.owner = o /\ v.id = i /\ v.at = 0
  BY <1>1, <1>2 DEF Req, NoReq
<1>4. Starts(p, step, v) /\ o.user \notin loggedOut
  BY <1>1 DEF StartAccess
<1>5. now' \in Nat /\ issued' = issued /\ loggedOut' = loggedOut
  BY <1>4, Typed DEF Starts, World, Unstored
<1>6. step \in Steps
  BY DEF Steps
<1>7. ASSUME pc'[p] = step, req'[p] = v, answer'[p].status = "none" PROVE ReqOK(p)'
  <2>1. step \notin {"capture", "stamp", "store", "forget", "idle", "page"} \cup Bound
    BY DEF Bound
  <2>2. req'[p].at <= now' /\ req'[p].id \in 1..issued' /\ req'[p].owner \in Owner
        /\ req'[p].owner.user \notin loggedOut'
    <3>1. v.at <= now'
      <4>1. PICK n \in Nat : n = now'
        BY <1>5
      <4>2. v.at <= n
        BY ONLY <1>3
      <4> QED
        BY <4>1, <4>2
    <3>2. v.id \in 1..issued'
      BY <1>3, <1>5
    <3>3. v.owner \in Owner /\ v.owner.user \notin loggedOut'
      BY <1>3, <1>4, <1>5
    <3> QED
      BY <1>7, <3>1, <3>2, <3>3
  <2>3. /\ pc'[p] \notin {"capture", "stamp", "store"} \cup Bound
        /\ pc'[p] \notin {"capture", "stamp", "store", "forget"} \cup Bound
        /\ pc'[p] \notin {"stamp", "store"} /\ pc'[p] \notin Bound
        /\ pc'[p] # "page" /\ pc'[p] # "forget"
    BY <1>7, <2>1
  <2> QED
    BY <1>7, <2>2, <2>3 DEF ReqOK
<1> QED
  BY <1>3, <1>4, <1>6, <1>7, StartsKeeps

LEMMA CaptureKeeps ==
  ASSUME IndInv, NEW p \in Requests, Capture(p)
  PROVE  IndInv'
<1>1. Shrinks({}) /\ UNCHANGED World
  BY UnstoredShrinks DEF Capture
<1>2. CASE Answers(p, "failed", {})
  <2>1. "failed" \in Statuses /\ {} \in SUBSET Owner
    BY DEF Statuses
  <2> QED
    BY <1>1, <1>2, <2>1, AnswersKeeps
<1>3. CASE /\ \E size \in Sizes : req' = [req EXCEPT ![p].size = size]
           /\ pc' = [pc EXCEPT ![p] = "stamp"]
           /\ UNCHANGED answer
  <2>1. PICK size \in Sizes : req' = [req EXCEPT ![p].size = size]
    BY <1>3
  <2>2. PICK u, a : u = req[p] /\ a = answer[p]
    OBVIOUS
  <2>3. PICK v : v = [u EXCEPT !.size = size]
    OBVIOUS
  <2>4. u \in Req /\ a \in [status: Statuses, page: SUBSET Owner]
    BY <2>2, Typed
  <2>5. /\ v \in Req /\ v.owner = u.owner /\ v.ref = u.ref /\ v.gen = u.gen /\ v.at = u.at
        /\ v.size = size
    BY <2>3, <2>4, SnapshotAssumption DEF Req
  <2>6. req' = [req EXCEPT ![p] = v] /\ answer' = [answer EXCEPT ![p] = a]
    BY <1>3, <2>1, <2>2, <2>3, Typed
  <2>7. pc[p] = "capture" /\ ReqOK(p) /\ now' = now
    BY DEF IndInv, Capture, World
  <2>8. pc'[p] = "stamp" /\ req'[p] = v /\ answer'[p] = a => ReqOK(p)'
    BY <2>2, <2>5, <2>7 DEF ReqOK, Accessing, Bound
  <2>9. "stamp" \in Steps
    BY DEF Steps
  <2> QED
    BY <1>1, <1>3, <2>4, <2>5, <2>6, <2>8, <2>9, HandlerKeeps
<1> QED
  BY <1>2, <1>3 DEF Capture

LEMMA ReadClockKeeps ==
  ASSUME IndInv, NEW p \in Requests, ReadClock(p)
  PROVE  IndInv'
<1>1. Shrinks({}) /\ UNCHANGED World
  BY UnstoredShrinks DEF ReadClock, World
<1>2. PICK u, a, n : u = req[p] /\ a = answer[p] /\ n = now
  OBVIOUS
<1>3. PICK v : v = [u EXCEPT !.at = n]
  OBVIOUS
<1>4. u \in Req /\ a \in [status: Statuses, page: SUBSET Owner] /\ n \in Nat
  BY <1>2, Typed
<1>5. /\ v \in Req /\ v.owner = u.owner /\ v.ref = u.ref /\ v.gen = u.gen /\ v.at = n
      /\ v.size = u.size
  BY <1>3, <1>4 DEF Req
<1>6. req' = [req EXCEPT ![p] = v] /\ answer' = [answer EXCEPT ![p] = a]
      /\ pc' = [pc EXCEPT ![p] = "store"]
  BY <1>2, <1>3, Typed DEF ReadClock
<1>7. pc[p] = "stamp" /\ ReqOK(p) /\ now' = n
  BY <1>2 DEF IndInv, ReadClock
<1>8. pc'[p] = "store" /\ req'[p] = v /\ answer'[p] = a => ReqOK(p)'
  BY <1>2, <1>4, <1>5, <1>7 DEF ReqOK, Accessing, Bound
<1>9. "store" \in Steps
  BY DEF Steps
<1> QED
  BY <1>1, <1>4, <1>5, <1>6, <1>8, <1>9, HandlerKeeps

(* A request goes on.                                                      *)
LEMMA GotoKeeps ==
  ASSUME IndInv, NEW p \in Requests, Unstored, UNCHANGED World,
         NEW step \in Steps, Goto(p, step),
         pc'[p] = step /\ req'[p] = req[p] /\ answer'[p] = answer[p] => ReqOK(p)'
  PROVE  IndInv'
<1>1. PICK u, a : u = req[p] /\ a = answer[p]
  OBVIOUS
<1>2. u \in Req /\ a \in [status: Statuses, page: SUBSET Owner]
  BY <1>1, Typed
<1>3. req' = [req EXCEPT ![p] = u] /\ answer' = [answer EXCEPT ![p] = a]
      /\ pc' = [pc EXCEPT ![p] = step]
  BY <1>1, Typed DEF Goto
<1>4. pc'[p] = step /\ req'[p] = u /\ answer'[p] = a => ReqOK(p)'
  BY <1>1
<1> QED
  BY <1>2, <1>3, <1>4, UnstoredShrinks, HandlerKeeps

LEMMA ResolveKeeps ==
  ASSUME IndInv, NEW p \in Requests, Resolve(p) \/ ResolveActivity(p)
  PROVE  IndInv'
<1>1. Unstored /\ UNCHANGED World /\ ReqOK(p) /\ pc[p] \in {"resolve", "resolve activity"}
  BY DEF Resolve, ResolveActivity, IndInv
<1>2. /\ snapshots' = snapshots /\ loggedOut' = loggedOut /\ terminated' = terminated
      /\ now' = now /\ issued' = issued /\ pane' = pane
  BY <1>1 DEF Unstored, World
<1>3. CASE Goto(p, "drop")
  <2>1. "drop" \in Steps
    BY DEF Steps
  <2>2. pc'[p] = "drop" /\ req'[p] = req[p] /\ answer'[p] = answer[p] => ReqOK(p)'
    BY <1>1, <1>2 DEF ReqOK, Accessing, Bound
  <2> QED
    BY <1>1, <1>3, <2>1, <2>2, GotoKeeps
<1>4. CASE PaneResolves(p) /\ Goto(p, "page")
  <2>1. "page" \in Steps
    BY DEF Steps
  <2>2. req[p].ref \notin terminated
    BY <1>1, <1>4 DEF PaneResolves, IndInv, GoneOK, ReqOK, Bound
  <2>3. pc'[p] = "page" /\ req'[p] = req[p] /\ answer'[p] = answer[p] => ReqOK(p)'
    BY <1>1, <1>2, <2>2 DEF ReqOK, Accessing, Bound
  <2> QED
    BY <1>1, <1>4, <2>1, <2>3, GotoKeeps
<1>5. CASE \E status \in {"activity", "failed"} : Answers(p, status, {})
  <2>1. PICK status \in {"activity", "failed"} : Answers(p, status, {})
    BY <1>5
  <2>2. status \in Statuses /\ {} \in SUBSET Owner
    BY DEF Statuses
  <2> QED
    BY <1>1, <2>1, <2>2, UnstoredShrinks, AnswersKeeps
<1> QED
  BY <1>3, <1>4, <1>5 DEF Resolve, ResolveActivity

LEMMA BindKeeps ==
  ASSUME IndInv, NEW p \in Requests, NEW from, NEW to,
         \/ from = "bind" /\ to = "resolve"
         \/ from = "bind activity" /\ to = "resolve activity",
         Bind(p, from, to)
  PROVE  IndInv'
<1>1. UNCHANGED issued /\ UNCHANGED World /\ pc[p] = from
  BY DEF Bind
<1>2. CASE LookupError(p)
  BY <1>1, <1>2, LookupErrorKeeps
<1>3. CASE /\ Authorized(p)
           /\ Touch(req[p].id)
           /\ pc' = [pc EXCEPT ![p] = to]
           /\ req' = [req EXCEPT ![p].ref = snapshots[req[p].id].ref,
                                ![p].gen = snapshots[req[p].id].gen]
           /\ UNCHANGED answer
  <2>1. PICK u, a, s : u = req[p] /\ a = answer[p] /\ s = snapshots[u.id]
    OBVIOUS
  <2>2. u \in Req /\ a \in [status: Statuses, page: SUBSET Owner]
    BY <2>1, Typed
  <2>3. u.id \in DOMAIN snapshots /\ u.id \notin Idle(now) /\ s.owner = u.owner
    BY <1>3, <2>1 DEF Authorized, Present
  <2>4. s \in Snapshot /\ s.gen # 0
    BY <2>1, <2>3, Typed DEF TypeOK, IndInv, TableOK
  <2>5. s.ref \in Refs /\ s.gen \in Nat
    BY <2>4, SnapshotFields
  <2>6. PICK v : v = [u EXCEPT !.ref = s.ref, !.gen = s.gen]
    OBVIOUS
  <2>7. /\ v \in Req /\ v.owner = u.owner /\ v.ref = s.ref /\ v.gen = s.gen /\ v.at = u.at
        /\ v.id = u.id
    BY <2>2, <2>5, <2>6 DEF Req
  <2>8. req' = [req EXCEPT ![p] = v] /\ answer' = [answer EXCEPT ![p] = a]
    BY <1>3, <2>1, <2>6, Typed
  <2>9. Shrinks(Idle(now))
    BY <1>1, <1>3, Typed, TouchShrinks
  <2>10. to \in Steps /\ to \in {"resolve", "resolve activity"} /\ pc[p] \in {"bind", "bind activity"}
    BY <1>1 DEF Steps
  <2>11. ReqOK(p) /\ now' = now /\ issued' = issued /\ loggedOut' = loggedOut
    BY <1>1 DEF IndInv, World
  <2>12. /\ u.id \in DOMAIN snapshots'
         /\ snapshots'[u.id].owner = s.owner /\ snapshots'[u.id].ref = s.ref
    BY <2>1, <2>3, <2>9 DEF Shrinks
  <2>13. /\ a.status = "none" /\ u.owner \in Owner /\ u.id \in 1..issued'
         /\ u.owner.user \notin loggedOut' /\ u.at <= now'
    <3>1. pc[p] \notin {"idle", "forget"} /\ pc[p] \in Accessing
      BY <2>10 DEF Accessing
    <3> QED
      BY <2>1, <2>3, <2>11, <3>1 DEF ReqOK
  <2>14. ASSUME pc'[p] = to, req'[p] = v, answer'[p] = a PROVE ReqOK(p)'
    <3>1. to \notin {"idle", "stamp", "store", "forget", "page"}
      BY <2>10
    <3>2. v.id = u.id /\ v.owner = u.owner /\ v.ref = s.ref /\ v.gen # 0 /\ v.at = u.at /\ v.ref \in Refs
      BY <2>4, <2>5, <2>7
    <3> QED
      BY <2>12, <2>13, <2>14, <3>1, <3>2 DEF ReqOK
  <2>15. PICK gone : Shrinks(gone)
    BY <2>9
  <2>16. pc' = [pc EXCEPT ![p] = to] /\ v \in Req /\ to \in Steps
    BY <1>3, <2>7, <2>10
  <2> QED
    BY <1>1, <2>2, <2>8, <2>14, <2>15, <2>16, HandlerKeeps
<1> QED
  BY <1>2, <1>3 DEF Bind

LEMMA PageKeeps ==
  ASSUME IndInv, NEW p \in Requests, Page(p)
  PROVE  IndInv'
<1>1. UNCHANGED issued /\ UNCHANGED World
  BY DEF Page
<1>2. CASE LookupError(p)
  BY <1>1, <1>2, LookupErrorKeeps
<1>3. CASE /\ Authorized(p)
           /\ Touch(req[p].id)
           /\ Answers(p, "page", {snapshots[req[p].id].owner})
  <2>1. PICK page : page = {snapshots[req[p].id].owner}
    OBVIOUS
  <2>2. snapshots[req[p].id] \in Snapshot
    BY <1>3, Typed DEF Authorized, Present, TypeOK
  <2>3. page \in SUBSET Owner
    BY <2>1, <2>2, SnapshotFields
  <2>4. Shrinks(Idle(now))
    BY <1>1, <1>3, Typed, TouchShrinks
  <2>5. "page" \in Statuses
    BY DEF Statuses
  <2> QED
    BY <1>1, <1>3, <2>1, <2>3, <2>4, <2>5, AnswersKeeps
<1> QED
  BY <1>2, <1>3 DEF Page

LEMMA DropKeeps ==
  ASSUME IndInv, NEW p \in Requests, Drop(p)
  PROVE  IndInv'
<1>1. UNCHANGED issued /\ UNCHANGED World
  BY DEF Drop
<1>2. PICK gone : gone = Idle(now) \cup IF Authorized(p) THEN {req[p].id} ELSE {}
  OBVIOUS
<1>3. gone \subseteq DOMAIN snapshots
  BY <1>2, IdleSubset DEF Authorized, Present
<1>4. Shrinks(gone)
  BY <1>1, <1>2, <1>3, Typed, DeleteShrinks DEF Drop
<1>5. "gone" \in Statuses /\ {} \in SUBSET Owner
  BY DEF Statuses
<1> QED
  BY <1>1, <1>4, <1>5, AnswersKeeps DEF Drop

LEMMA CloseKeeps ==
  ASSUME IndInv, NEW p \in Requests, Close(p)
  PROVE  IndInv'
<1>1. UNCHANGED issued /\ UNCHANGED World
  BY DEF Close
<1>2. CASE LookupError(p)
  BY <1>1, <1>2, LookupErrorKeeps
<1>3. CASE /\ Authorized(p)
           /\ Delete(Idle(now) \cup {req[p].id})
           /\ Answers(p, "deleted", {})
  <2>1. PICK gone : gone = Idle(now) \cup {req[p].id}
    OBVIOUS
  <2>2. gone \subseteq DOMAIN snapshots
    BY <1>3, <2>1, IdleSubset DEF Authorized, Present
  <2>3. Shrinks(gone)
    BY <1>1, <1>3, <2>1, <2>2, Typed, DeleteShrinks
  <2>4. "deleted" \in Statuses /\ {} \in SUBSET Owner
    BY DEF Statuses
  <2> QED
    BY <1>1, <1>3, <2>3, <2>4, AnswersKeeps
<1> QED
  BY <1>2, <1>3 DEF Close

LEMMA TerminateKeeps ==
  ASSUME IndInv, NEW p \in Requests, NEW r \in Refs, Terminate(p, r)
  PROVE  IndInv'
<1>1. Shrinks({})
  BY UnstoredShrinks DEF Terminate
<1>2. /\ pane' = [pane EXCEPT ![r] = 0] /\ pane \in [Refs -> 0..MaxGenerations]
      /\ pc' = [pc EXCEPT ![p] = "forget"]
      /\ now' = now /\ loggedOut' = loggedOut /\ terminated' = terminated /\ answer' = answer
      /\ snapshots' = snapshots /\ issued' = issued
  BY Typed DEF Terminate, TypeOK, Unstored
<1>3. PICK v : v = [NoReq EXCEPT !.ref = r]
  OBVIOUS
<1>4. v \in Req /\ v.ref = r /\ v.at = 0
  BY <1>3 DEF NoReq, Req
<1>5. req' = [req EXCEPT ![p] = v]
  BY <1>3 DEF Terminate
<1>6. pane' \in [Refs -> 0..MaxGenerations] /\ pane'[r] = 0 /\ \A s \in Refs : pane[s] = 0 => pane'[s] = 0
  BY <1>2, SnapshotAssumption
<1>7. RestTyped'
  <2>1. "forget" \in Steps
    BY DEF Steps
  <2> QED
    BY <1>2, <1>4, <1>5, <1>6, <2>1, Typed DEF RestTyped, TypeOK
<1>8. GoneOK'
  BY <1>2, <1>6, Typed DEF IndInv, GoneOK, TypeOK
<1>9. Settles
  BY <1>2, <1>6, Typed DEF Settles
<1>10. \A q \in Requests : q # p => Untouched(q)
  BY <1>2, <1>5, Typed DEF Untouched
<1>11. ReqOK(p)'
  <2>1. pc'[p] = "forget" /\ req'[p] = v /\ now' \in Nat
    BY <1>2, <1>5, Typed
  <2>2. v.at <= now' /\ v.ref \in Refs /\ pane'[v.ref] = 0
    BY <1>4, <1>6, <2>1
  <2> QED
    BY <2>1, <2>2 DEF ReqOK, Accessing, Bound
<1> QED
  BY <1>1, <1>7, <1>8, <1>9, <1>10, <1>11, ShrinkKeeps

LEMMA ForgetKeeps ==
  ASSUME IndInv, NEW p \in Requests, Forget(p)
  PROVE  IndInv'
<1>1. PICK u : u = req[p]
  OBVIOUS
<1>2. PICK gone : gone = {id \in DOMAIN snapshots : snapshots[id].ref = u.ref}
  OBVIOUS
<1>3. /\ Delete(gone) /\ pc[p] = "forget" /\ terminated' = terminated \cup {u.ref}
      /\ now' = now /\ pane' = pane /\ loggedOut' = loggedOut /\ issued' = issued
      /\ Answers(p, "terminated", {})
  BY <1>1, <1>2 DEF Forget
<1>4. gone \subseteq DOMAIN snapshots
  BY <1>2
<1>5. Shrinks(gone)
  BY <1>3, <1>4, Typed, DeleteShrinks
<1>6. u.ref \in Refs /\ pane[u.ref] = 0
  <2>1. ReqOK(p)
    BY DEF IndInv
  <2> QED
    BY <1>1, <1>3, <2>1 DEF ReqOK
<1>7. PICK a : a = [status |-> "terminated", page |-> {}]
  OBVIOUS
<1>8. a \in [status: Statuses, page: SUBSET Owner]
  BY <1>7 DEF Statuses
<1>9. /\ pc' = [pc EXCEPT ![p] = "idle"] /\ req' = [req EXCEPT ![p] = NoReq]
      /\ answer' = [answer EXCEPT ![p] = a]
  BY <1>3, <1>7 DEF Answers
<1>10. RestTyped'
  <2>1. "idle" \in Steps
    BY DEF Steps
  <2> QED
    BY <1>3, <1>6, <1>8, <1>9, <2>1, NoReqTyped, Typed DEF RestTyped, TypeOK
<1>11. GoneOK'
  BY <1>3, <1>6 DEF IndInv, GoneOK
<1>12. Settles
  <2>1. \A id \in DOMAIN snapshots' : id \in DOMAIN snapshots /\ id \notin gone
          /\ snapshots'[id].owner = snapshots[id].owner /\ snapshots'[id].ref = snapshots[id].ref
    BY <1>5 DEF Shrinks
  <2>2. \A id \in DOMAIN snapshots' : snapshots[id].ref # u.ref
    BY <1>2, <2>1
  <2> QED
    BY <1>3, <2>1, <2>2, Typed DEF Settles
<1>13. \A q \in Requests : q # p => Untouched(q)
  BY <1>9, Typed DEF Untouched
<1>14. ReqOK(p)'
  <2>1. pc'[p] = "idle" /\ req'[p] = NoReq /\ now' \in Nat
    BY <1>3, <1>9, Typed
  <2> QED
    BY <2>1, NoReqTyped DEF ReqOK, Accessing, Bound
<1> QED
  BY <1>5, <1>10, <1>11, <1>12, <1>13, <1>14, ShrinkKeeps

LEMMA LogoutKeeps ==
  ASSUME IndInv, NEW u \in Users, Logout(u)
  PROVE  IndInv'
<1>1. PICK gone : gone = {id \in DOMAIN snapshots : snapshots[id].owner.user = u}
  OBVIOUS
<1>2. /\ Delete(gone) /\ loggedOut' = loggedOut \cup {u}
      /\ now' = now /\ pane' = pane /\ terminated' = terminated /\ issued' = issued
      /\ pc' = pc /\ req' = req /\ answer' = answer
  BY <1>1 DEF Logout, OfUser
<1>3. gone \subseteq DOMAIN snapshots
  BY <1>1
<1>4. Shrinks(gone)
  BY <1>2, <1>3, Typed, DeleteShrinks
<1>5. RestTyped'
  BY <1>2, Typed DEF RestTyped, TypeOK
<1>6. GoneOK'
  BY <1>2 DEF IndInv, GoneOK
<1>7. Settles
  <2>1. \A id \in DOMAIN snapshots' : id \in DOMAIN snapshots /\ id \notin gone
          /\ snapshots'[id].owner = snapshots[id].owner /\ snapshots'[id].ref = snapshots[id].ref
    BY <1>4 DEF Shrinks
  <2>2. \A id \in DOMAIN snapshots' : snapshots[id].owner.user # u
    BY <1>1, <2>1
  <2> QED
    BY <1>2, <2>1, <2>2, Typed DEF Settles
<1>8. \A q \in Requests : Untouched(q)
  BY <1>2 DEF Untouched
<1> QED
  BY <1>4, <1>5, <1>6, <1>7, <1>8, ShrinkKeeps

LEMMA WorldKeeps ==
  ASSUME IndInv, Tick \/ \E r \in Refs : PaneReplaced(r) \/ SessionExits(r)
  PROVE  IndInv'
<1>1. /\ Unstored /\ loggedOut' = loggedOut /\ terminated' = terminated
      /\ pc' = pc /\ req' = req /\ answer' = answer
  BY DEF Tick, PaneReplaced, SessionExits
<1>2. Shrinks({})
  BY <1>1, UnstoredShrinks
<1>3. /\ now' \in 0..MaxTime /\ now <= now'
      /\ pane' \in [Refs -> 0..MaxGenerations] /\ \A r \in Refs : pane[r] = 0 => pane'[r] = 0
  <2>1. /\ now \in 0..MaxTime /\ MaxTime \in Nat /\ MaxGenerations \in Nat
        /\ pane \in [Refs -> 0..MaxGenerations]
    BY Typed, SnapshotAssumption DEF TypeOK
  <2>2. CASE Tick
    BY <2>1, <2>2 DEF Tick
  <2>3. CASE \E r \in Refs : PaneReplaced(r)
    BY <2>1, <2>3 DEF PaneReplaced
  <2>4. CASE \E r \in Refs : SessionExits(r)
    BY <2>1, <2>4 DEF SessionExits
  <2> QED
    BY <2>2, <2>3, <2>4
<1>4. RestTyped'
  BY <1>1, <1>3, Typed DEF RestTyped, TypeOK
<1>5. GoneOK'
  BY <1>1, <1>3, Typed DEF IndInv, GoneOK, TypeOK
<1>6. Settles
  BY <1>1, <1>3, Typed, SnapshotAssumption DEF Settles, Unstored
<1>7. \A q \in Requests : Untouched(q)
  BY <1>1 DEF Untouched
<1> QED
  BY <1>2, <1>4, <1>5, <1>6, <1>7, ShrinkKeeps

(* The sums over a table from which some snapshots left and one came.      *)
LEMMA SumReplace ==
  ASSUME NEW f, NEW D, IsFiniteSet(D), \A id \in D : f[id] \in Nat,
         NEW gone, gone \subseteq D, NEW g, \A id \in gone : g[id] = f[id],
         NEW n, n \notin D, NEW h, h[n] \in Nat, \A id \in D \ gone : h[id] = f[id]
  PROVE  /\ SumFunctionOnSet(h, (D \ gone) \cup {n})
              = (SumFunctionOnSet(f, D) - SumFunctionOnSet(g, gone)) + h[n]
         /\ SumFunctionOnSet(f, D) - SumFunctionOnSet(g, gone) \in Nat
<1>1. PICK K : K = D \ gone
  OBVIOUS
<1>2. IsFiniteSet(K) /\ n \notin K /\ \A id \in K : f[id] \in Nat /\ h[id] = f[id]
  BY <1>1, FS_Subset
<1>3. SumFunctionOnSet(h, K \cup {n}) = SumFunctionOnSet(f, K) + h[n]
  <2>1. h[n] \in Nat /\ n \notin K /\ IsFiniteSet(K)
    BY <1>2
  <2>2. \A id \in K : f[id] \in Nat
    BY <1>2
  <2>3. \A id \in K : h[id] = f[id]
    BY <1>2
  <2> QED
    BY ONLY <2>1, <2>2, <2>3, SumInsert
<1>4. \A id \in D \ gone : f[id] = f[id]
  OBVIOUS
<1>5. /\ SumFunctionOnSet(f, D \ gone) = SumFunctionOnSet(f, D) - SumFunctionOnSet(g, gone)
      /\ SumFunctionOnSet(f, D \ gone) \in Nat
  BY ONLY <1>4, IsFiniteSet(D), \A id \in D : f[id] \in Nat, gone \subseteq D,
          \A id \in gone : g[id] = f[id], SumRest
<1> QED
  BY <1>1, <1>3, <1>5

(* A snapshot is stored where there is room for it: the one step that      *)
(* adds.                                                                   *)
LEMMA InsertKeeps ==
  ASSUME IndInv, NEW p \in Requests, pc[p] = "store",
         NEW idle, idle \subseteq DOMAIN snapshots,
         Room(p, DOMAIN snapshots \ idle, memoryUsed - Memory(idle), nodesUsed - Nodes(idle)),
         issued < MaxSnapshots, issued' = issued + 1,
         snapshots' = Insert(p, DOMAIN snapshots \ idle),
         memoryUsed' = (memoryUsed - Memory(idle)) + req[p].size.memory,
         nodesUsed' = (nodesUsed - Nodes(idle)) + req[p].size.nodes,
         Answers(p, "created", {req[p].owner}),
         UNCHANGED World
  PROVE  IndInv'
<1>1. PICK D, K, t, v, n : D = DOMAIN snapshots /\ K = D \ idle /\ t = snapshots /\ v = req[p] /\ n = issued + 1
  OBVIOUS
<1>2. /\ v \in Req /\ v.owner \in Owner /\ v.ref \in Refs /\ v.gen # 0 /\ v.size \in Sizes
  BY <1>1, Typed DEF IndInv, ReqOK
<1>3. /\ v.gen \in Nat /\ v.at \in Nat /\ v.size.memory \in Nat /\ v.size.nodes \in Nat
      /\ v.owner.user \in Users
  BY <1>2, SnapshotAssumption DEF Req, Owner
<1>4. /\ IsFiniteSet(D) /\ IsFiniteSet(K) /\ K \subseteq D /\ idle \subseteq D
      /\ n \in Nat /\ n \notin D /\ D \subseteq 1..issued
      /\ \A id \in D : t[id] \in Snapshot /\ t[id].gen # 0
  BY <1>1, Typed, TableFinite, FS_Subset DEF TypeOK, IndInv, TableOK
<1>5. PICK new : new = [owner |-> v.owner, ref |-> v.ref, gen |-> v.gen, size |-> v.size, last |-> v.at]
  OBVIOUS
<1>6. /\ new \in Snapshot /\ new.owner = v.owner /\ new.ref = v.ref /\ new.gen = v.gen
      /\ new.size = v.size
  BY <1>2, <1>3, <1>5 DEF Snapshot
<1>7. PICK u : u = [id \in K \cup {n} |-> IF id \in K THEN t[id] ELSE new]
  OBVIOUS
<1>8. snapshots' = u
  BY <1>1, <1>5, <1>7 DEF Insert
<1>9. /\ DOMAIN u = K \cup {n} /\ u = [id \in DOMAIN u |-> u[id]] /\ u[n] = new
      /\ \A id \in K : u[id] = t[id]
  BY <1>4, <1>7
<1>10. \A id \in DOMAIN u : u[id] \in Snapshot /\ u[id].gen # 0
  BY <1>2, <1>4, <1>6, <1>9
<1>11. /\ memoryUsed' = SumFunctionOnSet([id \in DOMAIN u |-> u[id].size.memory], DOMAIN u)
       /\ memoryUsed' \in Nat /\ memoryUsed' <= ProcessMaxBytes
  <2>1. PICK f, g, h : f = [id \in D |-> t[id].size.memory] /\ g = [id \in idle |-> t[id].size.memory]
          /\ h = [id \in DOMAIN u |-> u[id].size.memory]
    OBVIOUS
  <2>2. /\ \A id \in D : f[id] \in Nat
        /\ \A id \in idle : g[id] = f[id]
        /\ \A id \in D \ idle : h[id] = f[id]
        /\ h[n] = v.size.memory
    BY <1>1, <1>4, <1>6, <1>9, <2>1, SnapshotFields
  <2>3. IsFiniteSet(D) /\ idle \subseteq D /\ n \notin D /\ h[n] \in Nat
    BY <1>3, <1>4, <2>2
  <2>4. /\ SumFunctionOnSet(h, (D \ idle) \cup {n})
             = (SumFunctionOnSet(f, D) - SumFunctionOnSet(g, idle)) + h[n]
        /\ SumFunctionOnSet(f, D) - SumFunctionOnSet(g, idle) \in Nat
    <3>1. \A id \in D : f[id] \in Nat
      BY <2>2
    <3>2. \A id \in idle : g[id] = f[id]
      BY <2>2
    <3>3. \A id \in D \ idle : h[id] = f[id]
      BY <2>2
    <3> QED
      BY ONLY <2>3, <3>1, <3>2, <3>3, SumReplace
  <2>5. memoryUsed - Memory(idle) = SumFunctionOnSet(f, D) - SumFunctionOnSet(g, idle)
    BY <1>1, <2>1 DEF IndInv, BudgetsKept, BudgetsAccounted, Memory
  <2>6. (memoryUsed - Memory(idle)) + v.size.memory <= ProcessMaxBytes
    BY <1>1 DEF Room
  <2> QED
    BY <1>1, <1>3, <1>9, <2>1, <2>2, <2>4, <2>5, <2>6
<1>12. /\ nodesUsed' = SumFunctionOnSet([id \in DOMAIN u |-> u[id].size.nodes], DOMAIN u)
       /\ nodesUsed' \in Nat /\ nodesUsed' <= ProcessMaxNodes
  <2>1. PICK f, g, h : f = [id \in D |-> t[id].size.nodes] /\ g = [id \in idle |-> t[id].size.nodes]
          /\ h = [id \in DOMAIN u |-> u[id].size.nodes]
    OBVIOUS
  <2>2. /\ \A id \in D : f[id] \in Nat
        /\ \A id \in idle : g[id] = f[id]
        /\ \A id \in D \ idle : h[id] = f[id]
        /\ h[n] = v.size.nodes
    BY <1>1, <1>4, <1>6, <1>9, <2>1, SnapshotFields
  <2>3. IsFiniteSet(D) /\ idle \subseteq D /\ n \notin D /\ h[n] \in Nat
    BY <1>3, <1>4, <2>2
  <2>4. /\ SumFunctionOnSet(h, (D \ idle) \cup {n})
             = (SumFunctionOnSet(f, D) - SumFunctionOnSet(g, idle)) + h[n]
        /\ SumFunctionOnSet(f, D) - SumFunctionOnSet(g, idle) \in Nat
    <3>1. \A id \in D : f[id] \in Nat
      BY <2>2
    <3>2. \A id \in idle : g[id] = f[id]
      BY <2>2
    <3>3. \A id \in D \ idle : h[id] = f[id]
      BY <2>2
    <3> QED
      BY ONLY <2>3, <3>1, <3>2, <3>3, SumReplace
  <2>5. nodesUsed - Nodes(idle) = SumFunctionOnSet(f, D) - SumFunctionOnSet(g, idle)
    BY <1>1, <2>1 DEF IndInv, BudgetsKept, BudgetsAccounted, Nodes
  <2>6. (nodesUsed - Nodes(idle)) + v.size.nodes <= ProcessMaxNodes
    BY <1>1 DEF Room
  <2> QED
    BY <1>1, <1>3, <1>9, <2>1, <2>2, <2>4, <2>5, <2>6
<1>13. BudgetsAccounted'
  BY <1>8, <1>11, <1>12 DEF BudgetsAccounted, Memory, Nodes
<1>14. \A S, T, k : S \subseteq D /\ k \in Nat /\ Cardinality(S) < k /\ T \subseteq S \cup {n}
         => Cardinality(T) <= k
  <2> SUFFICES ASSUME NEW S, NEW T, NEW k \in Nat, S \subseteq D, Cardinality(S) < k, T \subseteq S \cup {n}
               PROVE  Cardinality(T) <= k
    OBVIOUS
  <2>1. IsFiniteSet(S) /\ n \notin S
    BY <1>4, FS_Subset
  <2>2. IsFiniteSet(S \cup {n}) /\ Cardinality(S \cup {n}) = Cardinality(S) + 1
    BY <2>1, FS_AddElement
  <2>3. Cardinality(T) <= Cardinality(S \cup {n}) /\ IsFiniteSet(T)
    BY <2>2, FS_Subset
  <2>4. Cardinality(T) \in Nat /\ Cardinality(S) \in Nat
    BY <2>1, <2>3, FS_CardinalityType
  <2> QED
    BY <2>2, <2>3, <2>4
<1>15. PerViewer \in Nat /\ PerUser \in Nat /\ PerProcess \in Nat
  BY SnapshotAssumption
<1>16. Cardinality(DOMAIN u) <= PerProcess
  <2>1. Cardinality(K) < PerProcess
    BY <1>1 DEF Room
  <2> QED
    BY <1>4, <1>9, <1>14, <1>15, <2>1
<1>17. ASSUME NEW o \in Owner PROVE Cardinality({id \in DOMAIN u : u[id].owner = o}) <= PerViewer
  <2>1. PICK S, T : S = {id \in K : t[id].owner = o} /\ T = {id \in DOMAIN u : u[id].owner = o}
    OBVIOUS
  <2>2. S \subseteq D
    BY <1>4, <2>1
  <2>3. CASE o = v.owner
    <3>1. Cardinality(S) < PerViewer
      BY <1>1, <2>1, <2>3 DEF Room, OfOwner
    <3>2. T \subseteq S \cup {n}
      BY <1>9, <2>1
    <3> QED
      BY <1>14, <1>15, <2>1, <2>2, <3>1, <3>2
  <2>4. CASE o # v.owner
    <3>1. T \subseteq {id \in D : t[id].owner = o}
      BY <1>4, <1>6, <1>9, <2>1, <2>4
    <3>2. PICK U : U = {id \in D : t[id].owner = o}
      OBVIOUS
    <3>3. Cardinality(U) <= PerViewer /\ IsFiniteSet(U)
      BY <1>1, <1>4, <3>2, FS_Subset DEF IndInv, BudgetsKept, LimitsHold, OfOwner
    <3>4. Cardinality(T) <= Cardinality(U) /\ IsFiniteSet(T)
      BY <3>1, <3>2, <3>3, FS_Subset
    <3>5. Cardinality(T) \in Nat /\ Cardinality(U) \in Nat
      BY <3>3, <3>4, FS_CardinalityType
    <3> QED
      BY <1>15, <2>1, <3>3, <3>4, <3>5
  <2> QED
    BY <2>3, <2>4
<1>18. ASSUME NEW o \in Users PROVE Cardinality({id \in DOMAIN u : u[id].owner.user = o}) <= PerUser
  <2>1. PICK S, T : S = {id \in K : t[id].owner.user = o} /\ T = {id \in DOMAIN u : u[id].owner.user = o}
    OBVIOUS
  <2>2. S \subseteq D
    BY <1>4, <2>1
  <2>3. CASE o = v.owner.user
    <3>1. Cardinality(S) < PerUser
      BY <1>1, <2>1, <2>3 DEF Room, OfUser
    <3>2. T \subseteq S \cup {n}
      BY <1>9, <2>1
    <3> QED
      BY <1>14, <1>15, <2>1, <2>2, <3>1, <3>2
  <2>4. CASE o # v.owner.user
    <3>1. T \subseteq {id \in D : t[id].owner.user = o}
      BY <1>4, <1>6, <1>9, <2>1, <2>4
    <3>2. PICK U : U = {id \in D : t[id].owner.user = o}
      OBVIOUS
    <3>3. Cardinality(U) <= PerUser /\ IsFiniteSet(U)
      BY <1>1, <1>4, <3>2, FS_Subset DEF IndInv, BudgetsKept, LimitsHold, OfUser
    <3>4. Cardinality(T) <= Cardinality(U) /\ IsFiniteSet(T)
      BY <3>1, <3>2, <3>3, FS_Subset
    <3>5. Cardinality(T) \in Nat /\ Cardinality(U) \in Nat
      BY <3>3, <3>4, FS_CardinalityType
    <3> QED
      BY <1>15, <2>1, <3>3, <3>4, <3>5
  <2> QED
    BY <2>3, <2>4
<1>19. LimitsHold'
  BY <1>8, <1>11, <1>12, <1>13, <1>16, <1>17, <1>18 DEF LimitsHold, OfOwner, OfUser, BudgetsAccounted
<1>20. PICK a : a = [status |-> "created", page |-> {v.owner}]
  OBVIOUS
<1>21. a \in [status: Statuses, page: SUBSET Owner]
  BY <1>2, <1>20 DEF Statuses
<1>22. /\ pc' = [pc EXCEPT ![p] = "idle"] /\ req' = [req EXCEPT ![p] = NoReq]
       /\ answer' = [answer EXCEPT ![p] = a]
       /\ now' = now /\ pane' = pane /\ loggedOut' = loggedOut /\ terminated' = terminated
  BY <1>1, <1>20 DEF Answers, World
<1>23. TypeOK'
  <2>1. "idle" \in Steps
    BY DEF Steps
  <2>2. issued' \in 0..MaxSnapshots
    BY Typed, SnapshotAssumption DEF TypeOK
  <2>3. DOMAIN snapshots' \subseteq 1..issued'
    BY <1>1, <1>4, <1>8, <1>9, Typed
  <2> QED
    BY <1>8, <1>10, <1>11, <1>12, <1>21, <1>22, <2>1, <2>2, <2>3, NoReqTyped, Typed DEF TypeOK
<1>24. TableOK'
  BY <1>8, <1>9, <1>10 DEF TableOK
<1>25. GoneOK'
  BY <1>22 DEF IndInv, GoneOK
<1>26. Settles
  <2>1. \A id \in DOMAIN snapshots' \cap (1..issued) : id \in DOMAIN snapshots /\ snapshots'[id] = snapshots[id]
    BY <1>1, <1>4, <1>8, <1>9, Typed
  <2>2. issued' \in Nat /\ issued <= issued' /\ now' \in Nat /\ now <= now' /\ now \in Nat
    BY <1>22, Typed
  <2>3. pane' = pane /\ loggedOut' = loggedOut /\ terminated' = terminated
    BY <1>22
  <2> QED
    BY <2>1, <2>2, <2>3 DEF Settles
<1>27. \A q \in Requests : q # p => Untouched(q)
  BY <1>22, Typed DEF Untouched
<1>28. ReqOK(p)'
  <2>1. pc'[p] = "idle" /\ req'[p] = NoReq /\ now' \in Nat
    BY <1>22, Typed
  <2> QED
    BY <2>1, NoReqTyped DEF ReqOK, Accessing, Bound
<1> QED
  BY <1>13, <1>19, <1>23, <1>24, <1>25, <1>26, <1>27, <1>28, OthersKeep DEF IndInv, BudgetsKept

LEMMA StoreKeeps ==
  ASSUME IndInv, NEW p \in Requests, Store(p)
  PROVE  IndInv'
<1>1. PICK idle : idle = Idle(req[p].at)
  OBVIOUS
<1>2. idle \subseteq DOMAIN snapshots /\ pc[p] = "store" /\ UNCHANGED World
  BY <1>1, IdleSubset DEF Store
<1>3. CASE /\ Room(p, DOMAIN snapshots \ idle, memoryUsed - Memory(idle), nodesUsed - Nodes(idle))
           /\ issued < MaxSnapshots
           /\ issued' = issued + 1
           /\ snapshots' = Insert(p, DOMAIN snapshots \ idle)
           /\ memoryUsed' = (memoryUsed - Memory(idle)) + req[p].size.memory
           /\ nodesUsed' = (nodesUsed - Nodes(idle)) + req[p].size.nodes
           /\ Answers(p, "created", {req[p].owner})
  BY <1>2, <1>3, InsertKeeps
<1>4. CASE Delete(idle) /\ Answers(p, "refused", {}) /\ UNCHANGED issued
  <2>1. Shrinks(idle)
    BY <1>2, <1>4, Typed, DeleteShrinks
  <2>2. "refused" \in Statuses /\ {} \in SUBSET Owner
    BY DEF Statuses
  <2> QED
    BY <1>2, <1>4, <2>1, <2>2, AnswersKeeps
<1> QED
  BY <1>1, <1>3, <1>4 DEF Store

-----------------------------------------------------------------------------
(* The invariant.                                                          *)

LEMMA InitKeeps ==
  ASSUME Init
  PROVE  IndInv
<1>1. snapshots = <<>> /\ DOMAIN snapshots = {}
  BY DEF Init
<1>2. Memory({}) = 0 /\ Nodes({}) = 0
  BY SumEmpty DEF Memory, Nodes
<1>3. BudgetsAccounted
  BY <1>1, <1>2 DEF Init, BudgetsAccounted
<1>4. LimitsHold
  <2>1. \A o : OfOwner({}, o) = {} /\ OfUser({}, o) = {}
    BY DEF OfOwner, OfUser
  <2>2. Cardinality({}) = 0
    BY FS_EmptySet
  <2>3. /\ 0 <= PerViewer /\ 0 <= PerUser /\ 0 <= PerProcess
        /\ 0 <= ProcessMaxBytes /\ 0 <= ProcessMaxNodes
    BY SnapshotAssumption
  <2>4. /\ \A o \in Owner : Cardinality(OfOwner({}, o)) <= PerViewer
        /\ \A u \in Users : Cardinality(OfUser({}, u)) <= PerUser
        /\ Cardinality({}) <= PerProcess
    BY <2>1, <2>2, <2>3
  <2> QED
    BY <1>1, <1>2, <2>3, <2>4 DEF LimitsHold
<1>5. TypeOK
  <2>1. [status |-> "none", page |-> {}] \in [status: Statuses, page: SUBSET Owner]
    BY DEF Statuses
  <2>2. MaxTime \in Nat /\ MaxSnapshots \in Nat /\ 1 \in 0..MaxGenerations
    BY SnapshotAssumption
  <2>3. "idle" \in Steps
    BY DEF Steps
  <2> QED
    BY <1>1, <2>1, <2>2, <2>3, NoReqTyped DEF Init, TypeOK
<1>6. TableOK
  BY <1>1 DEF TableOK
<1>7. GoneOK
  BY DEF Init, GoneOK
<1>8. ASSUME NEW p \in Requests PROVE ReqOK(p)
  <2>1. pc[p] = "idle" /\ req[p] = NoReq /\ now = 0
    BY DEF Init
  <2> QED
    BY <2>1, NoReqTyped DEF ReqOK, Accessing, Bound
<1> QED
  BY <1>3, <1>4, <1>5, <1>6, <1>7, <1>8 DEF IndInv, BudgetsKept

LEMMA NextKeeps ==
  ASSUME IndInv, [Next]_vars
  PROVE  IndInv'
<1>1. CASE UNCHANGED vars
  <2>1. Unstored /\ UNCHANGED World /\ pc' = pc /\ req' = req /\ answer' = answer
    BY <1>1 DEF vars, Unstored, World
  <2>2. Shrinks({}) /\ Settles
    BY <2>1, UnstoredShrinks, ShrinkSettles
  <2>3. RestTyped' /\ GoneOK' /\ \A q \in Requests : Untouched(q)
    BY <2>1, Typed DEF RestTyped, TypeOK, World, GoneOK, IndInv, Untouched
  <2> QED
    BY <2>2, <2>3, ShrinkKeeps
<1>2. ASSUME NEW p \in Requests, \E o \in Owner, r \in Refs : StartCreate(p, o, r) PROVE IndInv'
  BY <1>2, StartCreateKeeps
<1>3. ASSUME NEW p \in Requests, Capture(p) \/ ReadClock(p) \/ Store(p) PROVE IndInv'
  BY <1>3, CaptureKeeps, ReadClockKeeps, StoreKeeps
<1>4. ASSUME NEW p \in Requests,
             \E o \in Owner, id \in 1..issued : \E step \in {"bind", "bind activity", "delete"} :
               StartAccess(p, step, o, id)
      PROVE  IndInv'
  <2>1. PICK o \in Owner, id \in 1..issued : \E step \in {"bind", "bind activity", "delete"} :
          StartAccess(p, step, o, id)
    BY <1>4
  <2>2. PICK step \in {"bind", "bind activity", "delete"} : StartAccess(p, step, o, id)
    BY <2>1
  <2>3. id \in 1..issued /\ step \in {"bind", "bind activity", "delete"}
    BY <2>1, <2>2
  <2> QED
    BY ONLY IndInv, p \in Requests, o \in Owner, <2>2, <2>3, StartAccessKeeps
<1>5. ASSUME NEW p \in Requests,
             Bind(p, "bind", "resolve") \/ Bind(p, "bind activity", "resolve activity")
      PROVE  IndInv'
  BY <1>5, BindKeeps
<1>6. ASSUME NEW p \in Requests, Resolve(p) \/ ResolveActivity(p) PROVE IndInv'
  BY <1>6, ResolveKeeps
<1>7. ASSUME NEW p \in Requests, Page(p) \/ Drop(p) \/ Close(p) PROVE IndInv'
  BY <1>7, PageKeeps, DropKeeps, CloseKeeps
<1>8. ASSUME NEW p \in Requests, (\E r \in Refs : Terminate(p, r)) \/ Forget(p) PROVE IndInv'
  BY <1>8, TerminateKeeps, ForgetKeeps
<1>9. ASSUME NEW u \in Users, Logout(u) PROVE IndInv'
  BY <1>9, LogoutKeeps
<1>10. CASE Tick \/ \E r \in Refs : PaneReplaced(r) \/ SessionExits(r)
  BY <1>10, WorldKeeps
<1>11. CASE Next
  BY <1>2, <1>3, <1>4, <1>5, <1>6, <1>7, <1>8, <1>9, <1>10, <1>11 DEF Next
<1> QED
  BY <1>1, <1>11

(* The table, the sessions and the requests keep IndInv, whatever logins,  *)
(* captures, pages, logouts and terminations interleave.                   *)
THEOREM Always == Spec => []IndInv
<1>1. Init => IndInv
  BY InitKeeps
<1>2. IndInv /\ [Next]_vars => IndInv'
  BY NextKeeps
<1> QED
  BY <1>1, <1>2, PTL DEF Spec

(* memoryUsed and nodesUsed are the sums over the table, and the limits by *)
(* viewer, login and process and both budgets hold of it, on every path of *)
(* Create, pruneLocked and deleteLocked (snapshot_manager.go).             *)
THEOREM Budgets == Spec => []BudgetsKept
<1>1. IndInv => BudgetsKept
  BY DEF IndInv
<1> QED
  BY <1>1, Always, PTL

-----------------------------------------------------------------------------
(* What a step shows, removes and refuses.                                 *)

(* A step that answers one request: the answers of the others stay.        *)
LEMMA AnswersOf ==
  ASSUME IndInv, NEW p \in Requests, NEW status, NEW page, Answers(p, status, page)
  PROVE  /\ answer'[p].status = status /\ answer'[p].page = page
         /\ \A q \in Requests : q # p => answer'[q] = answer[q]
<1>1. answer' = [answer EXCEPT ![p] = [status |-> status, page |-> page]]
  BY DEF Answers
<1> QED
  BY <1>1, Typed

(* Who answers whom, and with what.                                        *)
Answered(p) ==
    \/ UNCHANGED answer
    \/ /\ \A q \in Requests : q # p => answer'[q] = answer[q]
       /\ \/ answer'[p].page = {} /\ answer'[p].status \notin {"page", "refused"}
          \/ Store(p) /\ answer'[p].page = {req[p].owner} /\ answer'[p].status = "created"
          \/ Store(p) /\ answer'[p].page = {} /\ answer'[p].status = "refused"
          \/ Page(p) /\ Authorized(p) /\ answer'[p].page = {req[p].owner}

(* A step answers at most one request.                                     *)
LEMMA StepAnswers ==
  ASSUME IndInv, [Next]_vars
  PROVE  UNCHANGED answer \/ \E p \in Requests : Answered(p)
<1>1. ASSUME NEW p \in Requests, NEW step, NEW r, Starts(p, step, r) PROVE Answered(p)
  <2>1. answer' = [answer EXCEPT ![p] = [status |-> "none", page |-> {}]]
    BY <1>1 DEF Starts
  <2>2. answer'[p].status = "none" /\ answer'[p].page = {} /\ \A q \in Requests : q # p => answer'[q] = answer[q]
    BY <2>1, Typed
  <2> QED
    BY <2>2 DEF Answered
<1>2. ASSUME NEW p \in Requests, NEW status, Answers(p, status, {}), status \notin {"page", "refused"}
      PROVE  Answered(p)
  BY <1>2, AnswersOf DEF Answered
<1>3. ASSUME NEW p \in Requests, LookupError(p) PROVE Answered(p)
  <2>1. PICK status : status \in {"notfound", "gone"} /\ Answers(p, status, {})
    BY <1>3 DEF LookupError
  <2>2. status \notin {"page", "refused"}
    BY <2>1
  <2> QED
    BY <1>2, <2>1, <2>2
<1>4. ASSUME NEW p \in Requests, Store(p) PROVE Answered(p)
  <2>1. CASE Answers(p, "created", {req[p].owner})
    BY <1>4, <2>1, AnswersOf DEF Answered
  <2>2. CASE Answers(p, "refused", {})
    BY <1>4, <2>2, AnswersOf DEF Answered
  <2> QED
    BY <1>4, <2>1, <2>2 DEF Store
<1>5. ASSUME NEW p \in Requests, Page(p) PROVE Answered(p)
  <2>1. CASE LookupError(p)
    BY <1>3, <2>1
  <2>2. CASE Authorized(p) /\ Answers(p, "page", {snapshots[req[p].id].owner})
    <3>1. snapshots[req[p].id].owner = req[p].owner
      BY <2>2 DEF Authorized
    <3> QED
      BY <1>5, <2>2, <3>1, AnswersOf DEF Answered
  <2> QED
    BY <1>5, <2>1, <2>2 DEF Page
<1>6. ASSUME NEW p \in Requests, Capture(p) \/ ReadClock(p) \/ Resolve(p) \/ ResolveActivity(p)
      PROVE  Answered(p)
  <2>1. CASE UNCHANGED answer
    BY <2>1 DEF Answered
  <2>2. CASE \E status \in {"failed", "activity"} : Answers(p, status, {})
    <3>1. PICK status : status \in {"failed", "activity"} /\ Answers(p, status, {})
      BY <2>2
    <3>2. status \notin {"page", "refused"}
      BY <3>1
    <3> QED
      BY <1>2, <3>1, <3>2
  <2> QED
    BY <1>6, <2>1, <2>2 DEF Capture, ReadClock, Resolve, ResolveActivity, Goto
<1>7. ASSUME NEW p \in Requests, Drop(p) \/ Close(p) \/ Forget(p) PROVE Answered(p)
  <2>1. CASE LookupError(p)
    BY <1>3, <2>1
  <2>2. CASE Answers(p, "gone", {})
    BY <1>2, <2>2
  <2>3. CASE Answers(p, "deleted", {})
    BY <1>2, <2>3
  <2>4. CASE Answers(p, "terminated", {})
    BY <1>2, <2>4
  <2> QED
    BY <1>7, <2>1, <2>2, <2>3, <2>4 DEF Drop, Close, Forget
<1>8. ASSUME NEW p \in Requests,
             Bind(p, "bind", "resolve") \/ Bind(p, "bind activity", "resolve activity")
      PROVE  Answered(p)
  <2>1. LookupError(p) \/ UNCHANGED answer
    BY <1>8 DEF Bind
  <2> QED
    BY <1>3, <2>1 DEF Answered
<1>9. CASE UNCHANGED vars
  BY <1>9 DEF vars
<1>10. CASE Next
  <2>1. ASSUME NEW p \in Requests, \E o \in Owner, r \in Refs : StartCreate(p, o, r) PROVE Answered(p)
    BY <1>1, <2>1 DEF StartCreate
  <2>2. ASSUME NEW p \in Requests, \E o \in Owner, id \in 1..issued :
                 \E step \in {"bind", "bind activity", "delete"} : StartAccess(p, step, o, id)
        PROVE  Answered(p)
    BY <1>1, <2>2 DEF StartAccess
  <2>3. ASSUME NEW p \in Requests, \E r \in Refs : Terminate(p, r) PROVE UNCHANGED answer
    BY <2>3 DEF Terminate
  <2>4. ASSUME \E u \in Users : Logout(u) PROVE UNCHANGED answer
    BY <2>4 DEF Logout
  <2>5. ASSUME Tick \/ \E r \in Refs : PaneReplaced(r) \/ SessionExits(r) PROVE UNCHANGED answer
    BY <2>5 DEF Tick, PaneReplaced, SessionExits
  <2> QED
    BY <1>4, <1>5, <1>6, <1>7, <1>8, <1>10, <2>1, <2>2, <2>3, <2>4, <2>5 DEF Next
<1> QED
  BY <1>9, <1>10

(* Whoever gets a page is its owner, and nothing has released it.          *)
LEMMA GuardsHold ==
  ASSUME IndInv, [Next]_vars
  PROVE  OwnerOnly /\ NoPageAfterRelease
<1>1. \A q \in Requests : pc[q] = "page" => answer[q].status = "none"
  BY DEF IndInv, ReqOK
<1>2. CASE UNCHANGED answer
  BY <1>1, <1>2 DEF OwnerOnly, NoPageAfterRelease
<1>3. CASE \E p \in Requests : Answered(p)
  <2>1. PICK p \in Requests : Answered(p)
    BY <1>3
  <2>2. CASE UNCHANGED answer
    BY <1>1, <2>2 DEF OwnerOnly, NoPageAfterRelease
  <2>3. CASE /\ \A q \in Requests : q # p => answer'[q] = answer[q]
             /\ answer'[p].page \in {{}, {req[p].owner}}
             /\ answer'[p].status = "page" => Page(p) /\ Authorized(p)
    <3>1. OwnerOnly
      BY <2>3 DEF OwnerOnly
    <3>2. NoPageAfterRelease
      <4> SUFFICES ASSUME NEW q \in Requests, pc[q] = "page", answer'[q].status = "page"
                   PROVE  req[q].owner.user \notin loggedOut /\ req[q].ref \notin terminated
        BY DEF NoPageAfterRelease
      <4>1. q = p
        BY <1>1, <2>3
      <4>2. Authorized(q)
        BY <2>3, <4>1
      <4>3. req[q].id \in DOMAIN snapshots /\ snapshots[req[q].id].owner = req[q].owner
        BY <4>2 DEF Authorized, Present
      <4>4. ReqOK(q) /\ "page" \in Accessing
        BY DEF IndInv, Accessing
      <4> QED
        BY <4>3, <4>4 DEF ReqOK
    <3> QED
      BY <3>1, <3>2
  <2> QED
    BY <2>1, <2>2, <2>3 DEF Answered
<1> QED
  BY <1>2, <1>3, StepAnswers

(* A page goes only to the login and viewer that created its snapshot, and *)
(* to nobody once the logout or the termination has cleared the table,     *)
(* although a create that was under way may store a snapshot afterwards    *)
(* (authorizedLocked, handleLogout, handleTerminateSession).               *)
THEOREM Guarded == Spec => PagesGuarded
<1>1. IndInv /\ [Next]_vars => [OwnerOnly /\ NoPageAfterRelease]_vars
  BY GuardsHold
<1> QED
  BY <1>1, Always, PTL DEF Spec, PagesGuarded

(* Why a snapshot may leave the table.                                     *)
Released(id) ==
    \/ snapshots[id].last + IdleTTL < now
    \/ snapshots[id].owner.user \in loggedOut'
    \/ snapshots[id].ref \in terminated'
    \/ \E p \in Requests :
         /\ pc[p] \in {"delete", "drop"}
         /\ req[p].id = id /\ req[p].owner = snapshots[id].owner

(* Whatever leaves the table has a reason to.                              *)
LEMMA StepReleases ==
  ASSUME IndInv, [Next]_vars
  PROVE  \A id \in DOMAIN snapshots \ DOMAIN snapshots' : Released(id)
<1>1. ASSUME Unstored \/ UNCHANGED snapshots
      PROVE  DOMAIN snapshots \ DOMAIN snapshots' = {}
  BY <1>1 DEF Unstored
<1>2. ASSUME NEW gone, Delete(gone) PROVE DOMAIN snapshots \ DOMAIN snapshots' \subseteq gone
  <2>1. DOMAIN snapshots' = DOMAIN snapshots \ gone
    BY <1>2 DEF Delete
  <2> QED
    BY <2>1
<1>3. ASSUME NEW id, Touch(id) PROVE DOMAIN snapshots \ DOMAIN snapshots' \subseteq Idle(now)
  <2>1. DOMAIN snapshots' = DOMAIN snapshots \ Idle(now)
    BY <1>3 DEF Touch
  <2> QED
    BY <2>1
<1>4. \A id \in Idle(now) : Released(id)
  BY DEF Idle, Released
<1>5. ASSUME NEW p \in Requests, LookupError(p)
      PROVE  \A id \in DOMAIN snapshots \ DOMAIN snapshots' : Released(id)
  BY <1>2, <1>4, <1>5 DEF LookupError
<1>6. ASSUME NEW p \in Requests, Store(p)
      PROVE  \A id \in DOMAIN snapshots \ DOMAIN snapshots' : Released(id)
  <2>1. PICK idle : idle = Idle(req[p].at)
    OBVIOUS
  <2>2. DOMAIN snapshots \ DOMAIN snapshots' \subseteq idle
    <3>1. CASE Delete(idle)
      BY <1>2, <3>1
    <3>2. CASE snapshots' = Insert(p, DOMAIN snapshots \ idle)
      <4>1. DOMAIN snapshots' = (DOMAIN snapshots \ idle) \cup {issued + 1}
        BY <3>2 DEF Insert
      <4> QED
        BY <4>1
    <3> QED
      BY <1>6, <2>1, <3>1, <3>2 DEF Store
  <2>3. ASSUME NEW id \in DOMAIN snapshots, id \in idle PROVE Released(id)
    <3>1. PICK v, s : v = req[p] /\ s = snapshots[id]
      OBVIOUS
    <3>2. v \in Req /\ s \in Snapshot /\ now \in Nat /\ IdleTTL \in Nat
      BY <3>1, Typed, SnapshotAssumption DEF TypeOK
    <3>3. v.at \in Nat /\ s.last \in Nat
      BY <3>2, SnapshotFields DEF Req
    <3>4. v.at <= now /\ s.last + IdleTTL < v.at
      BY <2>1, <2>3, <3>1 DEF IndInv, ReqOK, Idle
    <3>5. PICK a \in Nat, b \in Nat, c \in Nat, d \in Nat : a = v.at /\ b = s.last /\ c = now /\ d = IdleTTL
      BY <3>2, <3>3
    <3>6. b + d < c
      BY <3>4, <3>5
    <3> QED
      BY <3>1, <3>5, <3>6 DEF Released
  <2> QED
    BY <2>2, <2>3
<1>7. ASSUME NEW p \in Requests, Drop(p) \/ Close(p)
      PROVE  \A id \in DOMAIN snapshots \ DOMAIN snapshots' : Released(id)
  <2>1. CASE LookupError(p)
    BY <1>5, <2>1
  <2>2. CASE pc[p] = "drop" /\ Delete(Idle(now) \cup IF Authorized(p) THEN {req[p].id} ELSE {})
    <3>1. Authorized(p) => pc[p] \in {"delete", "drop"} /\ snapshots[req[p].id].owner = req[p].owner
      BY <2>2 DEF Authorized
    <3>2. DOMAIN snapshots \ DOMAIN snapshots' \subseteq
            Idle(now) \cup IF Authorized(p) THEN {req[p].id} ELSE {}
      BY <1>2, <2>2
    <3> QED
      BY <1>4, <3>1, <3>2 DEF Released
  <2>3. CASE pc[p] = "delete" /\ Authorized(p) /\ Delete(Idle(now) \cup {req[p].id})
    <3>1. pc[p] \in {"delete", "drop"} /\ snapshots[req[p].id].owner = req[p].owner
      BY <2>3 DEF Authorized
    <3>2. DOMAIN snapshots \ DOMAIN snapshots' \subseteq Idle(now) \cup {req[p].id}
      BY <1>2, <2>3
    <3> QED
      BY <1>4, <3>1, <3>2 DEF Released
  <2> QED
    BY <1>7, <2>1, <2>2, <2>3 DEF Drop, Close
<1>8. ASSUME NEW p \in Requests, Forget(p)
      PROVE  \A id \in DOMAIN snapshots \ DOMAIN snapshots' : Released(id)
  <2>1. PICK gone : gone = {id \in DOMAIN snapshots : snapshots[id].ref = req[p].ref}
    OBVIOUS
  <2>2. DOMAIN snapshots \ DOMAIN snapshots' \subseteq gone /\ req[p].ref \in terminated'
    BY <1>2, <1>8, <2>1 DEF Forget
  <2> QED
    BY <2>1, <2>2 DEF Released
<1>9. ASSUME NEW u \in Users, Logout(u)
      PROVE  \A id \in DOMAIN snapshots \ DOMAIN snapshots' : Released(id)
  <2>1. PICK gone : gone = {id \in DOMAIN snapshots : snapshots[id].owner.user = u}
    OBVIOUS
  <2>2. DOMAIN snapshots \ DOMAIN snapshots' \subseteq gone /\ u \in loggedOut'
    BY <1>2, <1>9, <2>1 DEF Logout, OfUser
  <2> QED
    BY <2>1, <2>2 DEF Released
<1>10. ASSUME NEW p \in Requests,
              Page(p) \/ Bind(p, "bind", "resolve") \/ Bind(p, "bind activity", "resolve activity")
       PROVE  \A id \in DOMAIN snapshots \ DOMAIN snapshots' : Released(id)
  <2>1. LookupError(p) \/ Touch(req[p].id)
    BY <1>10 DEF Page, Bind
  <2>2. CASE LookupError(p)
    BY <1>5, <2>2
  <2>3. CASE Touch(req[p].id)
    BY <1>3, <1>4, <2>3
  <2> QED
    BY <2>1, <2>2, <2>3
<1>11. CASE UNCHANGED vars
  BY <1>1, <1>11 DEF vars
<1>12. CASE Next
  <2>1. ASSUME NEW p \in Requests,
               \/ \E o \in Owner, r \in Refs : StartCreate(p, o, r)
               \/ \E o \in Owner, id \in 1..issued :
                    \E step \in {"bind", "bind activity", "delete"} : StartAccess(p, step, o, id)
               \/ Capture(p) \/ ReadClock(p) \/ Resolve(p) \/ ResolveActivity(p)
               \/ \E r \in Refs : Terminate(p, r)
        PROVE  Unstored
    BY <2>1 DEF StartCreate, StartAccess, Starts, Capture, ReadClock, Resolve, ResolveActivity, Terminate
  <2>2. ASSUME Tick \/ \E r \in Refs : PaneReplaced(r) \/ SessionExits(r) PROVE Unstored
    BY <2>2 DEF Tick, PaneReplaced, SessionExits
  <2> QED
    BY <1>1, <1>6, <1>7, <1>8, <1>9, <1>10, <1>12, <2>1, <2>2 DEF Next
<1> QED
  BY <1>11, <1>12

(* A snapshot leaves the table because it was idle for too long, because   *)
(* its login or its session ended, or at the request of its own viewer: no *)
(* limit evicts it and nobody else removes it (pruneLocked, deleteLocked   *)
(* and their callers).                                                     *)
THEOREM Kept == Spec => OnlyReleased
<1>1. IndInv /\ [Next]_vars =>
        [\A id \in DOMAIN snapshots \ DOMAIN snapshots' :
           LET s == snapshots[id] IN
           \/ s.last + IdleTTL < now
           \/ s.owner.user \in loggedOut'
           \/ s.ref \in terminated'
           \/ \E p \in Requests :
                /\ pc[p] \in {"delete", "drop"}
                /\ req[p].id = id /\ req[p].owner = s.owner]_vars
  BY StepReleases DEF Released
<1> QED
  BY <1>1, Always, PTL DEF Spec, OnlyReleased

(* A create is refused by what pruning left, and by nothing else.          *)
LEMMA StepRefuses ==
  ASSUME IndInv, [Next]_vars, NEW p \in Requests, pc[p] = "store", answer'[p].status = "refused"
  PROVE  /\ \A id \in DOMAIN snapshots' : snapshots[id].last + IdleTTL >= req[p].at
         /\ ~Room(p, DOMAIN snapshots', memoryUsed', nodesUsed')
<1>1. answer[p].status = "none"
  BY DEF IndInv, ReqOK
<1>2. \E q \in Requests : Answered(q) /\ answer'[p] # answer[p]
  BY <1>1, StepAnswers
<1>3. PICK q \in Requests : Answered(q)
  BY <1>2
<1>4. q = p /\ Store(p)
  <2>1. ~Page(p) /\ answer'[p] # answer[p]
    BY <1>2 DEF Page
  <2> QED
    BY <1>3, <2>1 DEF Answered
<1>5. PICK idle : idle = Idle(req[p].at)
  OBVIOUS
<1>6. ~Answers(p, "created", {req[p].owner})
  <2> SUFFICES ASSUME Answers(p, "created", {req[p].owner}) PROVE FALSE
    OBVIOUS
  <2>1. PICK page : Answers(p, "created", page)
    OBVIOUS
  <2>2. answer'[p].status = "created"
    BY <2>1, AnswersOf
  <2> QED
    BY <2>2
<1>7. /\ ~Room(p, DOMAIN snapshots \ idle, memoryUsed - Memory(idle), nodesUsed - Nodes(idle))
      /\ Delete(idle)
  BY <1>4, <1>5, <1>6 DEF Store
<1>8. /\ DOMAIN snapshots' = DOMAIN snapshots \ idle
      /\ memoryUsed' = memoryUsed - Memory(idle) /\ nodesUsed' = nodesUsed - Nodes(idle)
  BY <1>7 DEF Delete
<1>9. ASSUME NEW id \in DOMAIN snapshots, id \notin idle
      PROVE  snapshots[id].last + IdleTTL >= req[p].at
  <2>1. PICK v, s : v = req[p] /\ s = snapshots[id]
    OBVIOUS
  <2>2. v \in Req /\ s \in Snapshot /\ IdleTTL \in Nat
    BY <2>1, Typed, SnapshotAssumption DEF TypeOK
  <2>3. v.at \in Nat /\ s.last \in Nat
    BY <2>2, SnapshotFields DEF Req
  <2>4. ~(s.last + IdleTTL < v.at)
    BY <1>5, <1>9, <2>1 DEF Idle
  <2>5. s.last + IdleTTL >= v.at
    BY <2>2, <2>3, <2>4
  <2> QED
    BY <2>1, <2>5
<1> QED
  BY <1>7, <1>8, <1>9

(* A create is refused only beside snapshots that were in use within the   *)
(* idle limit, and only when the limits leave no room beside these: the    *)
(* prune comes before the limits are compared (Create).                    *)
THEOREM Refused == Spec => RefusedByActiveOnly
<1>1. IndInv /\ [Next]_vars =>
        [\A p \in Requests :
           pc[p] = "store" /\ answer'[p].status = "refused" =>
             /\ \A id \in DOMAIN snapshots' : snapshots[id].last + IdleTTL >= req[p].at
             /\ ~Room(p, DOMAIN snapshots', memoryUsed', nodesUsed')]_vars
  BY StepRefuses
<1> QED
  BY <1>1, Always, PTL DEF Spec, RefusedByActiveOnly
=============================================================================
