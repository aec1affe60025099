----------------------- MODULE TerminalIdentityProofs -----------------------
(***************************************************************************)
(* The identity store is sound, a mutation reaches the pane its handle was *)
(* issued for, and a paste token works once, for any number of requests,   *)
(* names, panes, tokens and tmux servers.                                  *)
(*                                                                         *)
(* A handle is resolved from what was read of the name at several moments, *)
(* some of them without the session lock.  The fact that survives all of   *)
(* them is BelongsTo: a pane that was listed for a session either is still *)
(* that session's under the incarnation that listed it, or the session is  *)
(* gone and its reference never comes back.                                *)
(***************************************************************************)
EXTENDS TerminalIdentity, FiniteSetTheorems, SequenceTheorems, TLAPS

Terminal == [ref : Refs \cup {None}, panes : SUBSET RawPanes, active : Nat]
Issue == [ref : Refs, gen : Nat, raw : Nat]
Mint == [user : Users, ref : Refs, handle : Nat, gen : Nat, action : Actions]
Request == [kind : Kinds, name : Names \cup {None}, ref : Refs \cup {None},
            rest : SUBSET (Names \X Refs), final : BOOLEAN, gen : Nat,
            panes : SUBSET RawPanes, active : Nat, handle : Nat, raw : Nat, token : Nat]

WorldTypes ==
    /\ server \in 1 .. MaxServers /\ used \in SUBSET RawPanes
    /\ tmux \in [Names -> Terminal]
    /\ record \in [Names -> Refs \cup {None}] /\ born \in SUBSET Refs

Types ==
    /\ WorldTypes
    /\ lock \in [Names -> Requests \cup {None}] /\ mu \in Requests \cup {None}
    /\ issued \in Seq(Issue) /\ minted \in Seq(Mint)
    /\ pc \in [Requests -> Steps] /\ req \in [Requests -> Request]

(* A running session is the recorded one of its name; references and pane  *)
(* ids belong to one name.                                                 *)
WorldOK ==
    /\ \A n \in Names :
          /\ record[n] # None => record[n] \in born
          /\ Live(n) => tmux[n].ref = record[n] /\ record[n] # None
          /\ tmux[n].panes \subseteq used
          /\ IsFiniteSet(tmux[n].panes)
    /\ \A n, m \in Names : n # m =>
          /\ record[n] # None => record[n] # record[m]
          /\ tmux[n].panes \cap tmux[m].panes = {}

(* The session is gone for good: its reference was used and is in no record. *)
Dead(s) == s \in born /\ \A n \in Names : record[n] # s

(* The reference is recorded under this name or nowhere.                   *)
Named(n, s) == n \in Names /\ s \in born /\ \A m \in Names : record[m] = s => m = n

(* The pane was listed for session s under incarnation g.                  *)
BelongsTo(s, g, raw) ==
    /\ g <= server
    /\ Dead(s) \/ (g = server => /\ raw \in used
                                 /\ \A n \in Names : raw \in tmux[n].panes => tmux[n].ref = s)

(* Every handle stands for what it was issued for, and that is a pane of   *)
(* its session.                                                            *)
StoreOK ==
    /\ DOMAIN identity \subseteq born
    /\ \A s \in DOMAIN identity : \A raw \in DOMAIN identity[s] :
          /\ identity[s][raw] \in Binding
          /\ identity[s][raw].handle \in 1 .. Len(issued)
          /\ issued[identity[s][raw].handle] =
                [ref |-> s, raw |-> raw, gen |-> identity[s][raw].gen]
          /\ BelongsTo(s, identity[s][raw].gen, raw)

TokenOK ==
    /\ tokens \subseteq 1 .. Len(minted) /\ presented \subseteq 1 .. Len(minted)
    /\ tokens \cap presented = {}

ClearedOK ==
    /\ cleared \subseteq born
    /\ \A n \in Names : tmux[n].ref \notin cleared
    /\ ClearedStaysCleared

LockedSteps == {"enter", "act", "paste", "kill", "forget tokens", "forget identity", "remove"}

(* The request is inside the critical section of its session.              *)
Inside(q) == req[q].kind = "locked" /\ pc[q] \notin {"idle", "enter"}

(* It holds the lock, its session is the recorded one and was not cleared. *)
HoldsLock(q) ==
    Inside(q) => /\ lock[req[q].name] = q
                 /\ record[req[q].name] = req[q].ref
                 /\ pc[q] # "remove" => req[q].ref \notin cleared

(* What it has read so far.                                                *)
HasRead(q) ==
    /\ pc[q] = "panes" => req[q].gen <= server
    /\ pc[q] = "apply" => \A raw \in req[q].panes : BelongsTo(req[q].ref, req[q].gen, raw)
    /\ pc[q] = "apply" => req[q].gen <= server
    /\ pc[q] = "lookup" /\ req[q].kind = "locked" => req[q].ref \in DOMAIN identity
    /\ pc[q] \in {"verify", "act"} =>
          /\ req[q].handle \in 1 .. Len(issued)
          /\ issued[req[q].handle] =
                [ref |-> req[q].ref, raw |-> req[q].raw, gen |-> req[q].gen]
    /\ pc[q] = "verify" => BelongsTo(req[q].ref, req[q].gen, req[q].raw)

(* What a termination has done so far.                                     *)
HasKilled(q) ==
    /\ pc[q] \in {"forget tokens", "forget identity", "remove"} =>
          tmux[req[q].name] = NoSession
    /\ pc[q] = "forget identity" => \A t \in tokens : minted[t].ref # req[q].ref

ReqOK(q) ==
    /\ IsFiniteSet(req[q].panes)
    /\ pc[q] = "idle" => req[q] = NoReq
    /\ pc[q] # "idle" => Named(req[q].name, req[q].ref)
    /\ \A x \in req[q].rest : Named(x[1], x[2])
    /\ pc[q] \in LockedSteps => req[q].kind = "locked"
    /\ HoldsLock(q) /\ HasRead(q) /\ HasKilled(q)

IndInv ==
    /\ Types /\ WorldOK /\ StoreOK /\ TokenOK /\ ClearedOK
    /\ \A q \in Requests : ReqOK(q)

-----------------------------------------------------------------------------
(* What a step may do to tmux and the records: the reference of a name     *)
(* goes away or is one nobody has heard of, and the same holds for the id  *)
(* of a pane while the server is the same.                                 *)
WorldStep ==
    /\ born \subseteq born' /\ server <= server'
    /\ server' = server =>
          /\ used \subseteq used'
          /\ \A n \in Names : \A raw \in tmux'[n].panes \cap used :
                raw \in tmux[n].panes /\ tmux'[n].ref = tmux[n].ref
    /\ \A n \in Names :
          /\ record'[n] # record[n] => record'[n] \notin born
          /\ tmux'[n].ref # tmux[n].ref => tmux'[n].ref \notin born
          /\ lock[n] # None /\ tmux[n] = NoSession => tmux'[n] = NoSession

Own(r, s) == r \in Requests /\ Inside(r) /\ s = req[r].ref

(* What a step of r may do to the others: nothing moves them, what they    *)
(* hold is theirs, and what r removes or adds is of its own session.       *)
Calm(r) ==
    /\ WorldStep
    /\ \A q \in Requests \ {r} : pc'[q] = pc[q] /\ req'[q] = req[q]
    /\ \A n \in Names : lock[n] \notin {r, None} => lock'[n] = lock[n] /\ record'[n] = record[n]
    /\ Len(issued) <= Len(issued') /\ \A i \in 1 .. Len(issued) : issued'[i] = issued[i]
    /\ \A s \in DOMAIN identity \ DOMAIN identity' : Own(r, s)
    /\ \A s \in cleared' \ cleared : Own(r, s)
    /\ \A t \in tokens' : Own(r, minted'[t].ref) \/ (t \in tokens /\ minted'[t] = minted[t])

(* None is no reference.                                                   *)
LEMMA NoneIsNone == None \notin Refs /\ None \notin Names /\ None \notin Requests
  BY IdentityAssumption

(* Whatever names a session or was listed for it stays so.                 *)
LEMMA NamedStays ==
    ASSUME Types, WorldTypes', WorldStep, NEW n, NEW s, Named(n, s)
    PROVE  Named(n, s)'
  BY DEF WorldStep, Named, Types, WorldTypes

LEMMA BelongsStays ==
    ASSUME Types, WorldTypes', WorldStep, NEW s \in born, NEW g \in Nat, NEW raw,
           BelongsTo(s, g, raw)
    PROVE  BelongsTo(s, g, raw)'
  <1>1. server \in Nat /\ server' \in Nat
    BY IdentityAssumption DEF Types, WorldTypes
  <1>2. g <= server'
    BY <1>1 DEF WorldStep, BelongsTo
  <1>3. Dead(s) => Dead(s)'
    BY DEF Dead, WorldStep, Types, WorldTypes
  <1>4. g = server' => server' = server
    BY <1>1 DEF WorldStep, BelongsTo
  <1> QED
    BY <1>2, <1>3, <1>4 DEF WorldStep, BelongsTo

(* Two requests inside are inside different sessions.                      *)
LEMMA InsideAlone ==
    ASSUME IndInv, NEW q \in Requests, NEW r \in Requests, q # r, Inside(q), Inside(r)
    PROVE  req[q].name # req[r].name /\ req[q].ref # req[r].ref
  <1>1. HoldsLock(q) /\ HoldsLock(r) /\ req[q].name \in Names /\ req[r].name \in Names
        /\ req[q].ref \in born
    BY DEF IndInv, ReqOK, Inside, Named
  <1>2. req[q].ref # None
    BY <1>1, NoneIsNone DEF IndInv, Types, WorldTypes
  <1> QED
    BY <1>1, <1>2 DEF HoldsLock, IndInv, WorldOK

(* A request that does not move is not disturbed.                          *)
LEMMA OtherOK ==
    ASSUME IndInv, WorldTypes', NEW r \in Requests \cup {None}, Calm(r),
           NEW q \in Requests, q # r
    PROVE  ReqOK(q)'
  <1>0. PICK v : v = req[q]
    OBVIOUS
  <1> DEFINE n == v.name
             s == v.ref
  <1>1. pc'[q] = pc[q] /\ req'[q] = v /\ req[q] = v
    BY <1>0 DEF Calm
  <1>2. ReqOK(q) /\ Types /\ WorldStep
    BY DEF IndInv, Calm
  <1>3. v \in Request /\ v.gen \in Nat /\ v.rest \subseteq Names \X Refs
    BY <1>1, <1>2 DEF Types, Request
  <1>4. Inside(q) => ~Own(r, s)
    BY <1>1, InsideAlone DEF Own
  <1>5. Inside(q) => /\ lock[n] = q /\ lock'[n] = q /\ record'[n] = record[n]
                     /\ n \in Names /\ s \in born /\ record[n] = s
    <2>1. Inside(q) => lock[n] = q /\ n \in Names /\ s \in born /\ record[n] = s
      BY <1>1, <1>2 DEF ReqOK, HoldsLock, Inside, Named
    <2> QED
      BY <2>1, NoneIsNone DEF Calm
  <1>6. pc[q] # "idle" => Named(n, s)'
    BY <1>1, <1>2, NamedStays DEF ReqOK
  <1>7. \A x \in v.rest : Named(x[1], x[2])'
    BY <1>1, <1>2, NamedStays DEF ReqOK
  <1>8. HoldsLock(q)'
    <2>1. Inside(q)' <=> Inside(q)
      BY <1>1 DEF Inside
    <2>2. Inside(q) /\ pc[q] # "remove" => s \notin cleared'
      BY <1>1, <1>2, <1>4 DEF ReqOK, HoldsLock, Calm
    <2> QED
      BY <1>1, <1>5, <2>1, <2>2 DEF HoldsLock
  <1>9. HasRead(q)'
    <2>1. \A i \in 1 .. Len(issued) : i \in 1 .. Len(issued') /\ issued'[i] = issued[i]
      BY <1>2, LenProperties DEF Types, Calm
    <2>2. pc[q] \in {"panes", "apply"} => v.gen <= server'
      <3>1. server \in Nat /\ server' \in Nat
        BY <1>2, IdentityAssumption DEF Types, WorldTypes
      <3> QED
        BY <1>1, <1>2, <1>3, <3>1 DEF ReqOK, HasRead, WorldStep
    <2>3. pc[q] = "apply" => \A raw \in v.panes : BelongsTo(s, v.gen, raw)'
      BY <1>1, <1>2, <1>3, BelongsStays DEF ReqOK, HasRead, Named
    <2>4. pc[q] = "lookup" /\ v.kind = "locked" => s \in DOMAIN identity'
      BY <1>1, <1>2, <1>4 DEF ReqOK, HasRead, Calm, Inside
    <2>5. pc[q] = "verify" => BelongsTo(s, v.gen, v.raw)'
      BY <1>1, <1>2, <1>3, BelongsStays DEF ReqOK, HasRead, Named
    <2> QED
      BY <1>1, <1>2, <2>1, <2>2, <2>3, <2>4, <2>5 DEF ReqOK, HasRead, BelongsTo, Dead
  <1>10. HasKilled(q)'
    <2>1. pc[q] \in {"forget tokens", "forget identity", "remove"} => Inside(q)
      BY <1>1, <1>2 DEF ReqOK, LockedSteps, Inside
    <2>2. pc[q] \in {"forget tokens", "forget identity", "remove"} => tmux'[n] = NoSession
      BY <1>1, <1>2, <1>5, <2>1, NoneIsNone DEF ReqOK, HasKilled, WorldStep
    <2>3. pc[q] = "forget identity" => \A t \in tokens' : minted'[t].ref # s
      BY <1>1, <1>2, <1>4, <2>1 DEF ReqOK, HasKilled, Calm, Own
    <2> QED
      BY <1>1, <2>2, <2>3 DEF HasKilled
  <1> QED
    BY <1>1, <1>2, <1>6, <1>7, <1>8, <1>9, <1>10 DEF ReqOK, Named

-----------------------------------------------------------------------------
(* Moving from step to step                                                *)

(* Only r moves, and no other request loses its lock.                      *)
Moved(r) ==
    /\ pc' \in [Requests -> Steps] /\ req' \in [Requests -> Request]
    /\ lock' \in [Names -> Requests \cup {None}]
    /\ \A q \in Requests \ {r} : pc'[q] = pc[q] /\ req'[q] = req[q]
    /\ \A n \in Names : lock[n] \notin {r, None} => lock'[n] = lock[n]

LEMMA NoReqType == NoReq \in Request
  BY DEF NoReq, Request, Kinds

LEMMA GotoMoves ==
    ASSUME Types, NEW r \in Requests, NEW step \in Steps, NEW v \in Request,
           Goto(r, step), req' = [req EXCEPT ![r] = v], lock' = lock
    PROVE  Moved(r) /\ pc'[r] = step /\ req'[r] = v
  BY DEF Types, Goto, Moved

(* A request that has answered is nobody.                                  *)
LEMMA LeaveOK ==
    ASSUME Types, NEW r \in Requests, Leave(r)
    PROVE  Moved(r) /\ ReqOK(r)' /\ pc'[r] = "idle"
  <1>1. pc'[r] = "idle" /\ req'[r] = NoReq
    BY DEF Types, Leave, Goto
  <1>2. Moved(r)
    BY NoReqType DEF Types, Leave, Goto, Unlock, Moved, Steps
  <1>3. IsFiniteSet(NoReq.panes) /\ NoReq.rest = {} /\ NoReq.kind = "list"
    BY FS_EmptySet DEF NoReq
  <1>4. HoldsLock(r)' /\ HasRead(r)' /\ HasKilled(r)'
    BY <1>1, <1>3 DEF HoldsLock, Inside, HasRead, HasKilled
  <1> QED
    BY <1>1, <1>2, <1>3, <1>4 DEF ReqOK, LockedSteps

(* A list goes on with a session whose name and reference it has read.     *)
LEMMA NextListedOK ==
    ASSUME Types, NEW r \in Requests, NEW rest \in SUBSET (Names \X Refs),
           \A x \in rest : Named(x[1], x[2]), NextListed(r, rest), UNCHANGED lifeVars
    PROVE  Moved(r) /\ ReqOK(r)' /\ pc'[r] \in {"idle", "server"}
  <1>1. CASE rest = {}
    BY <1>1, LeaveOK DEF NextListed
  <1>2. CASE rest # {}
    <2>1. PICK x \in rest :
            /\ Goto(r, "server") /\ lock' = lock
            /\ req' = [req EXCEPT ![r] = [NoReq EXCEPT
                         !.name = x[1], !.ref = x[2], !.rest = rest \ {x}]]
      BY <1>2 DEF NextListed
    <2> DEFINE v == [NoReq EXCEPT !.name = x[1], !.ref = x[2], !.rest = rest \ {x}]
    <2>2. v \in Request /\ v.kind = "list" /\ v.name = x[1] /\ v.ref = x[2]
          /\ v.rest = rest \ {x} /\ v.panes = {}
      BY DEF NoReq, Request, Kinds
    <2> HIDE DEF v
    <2>3. Moved(r) /\ pc'[r] = "server" /\ req'[r] = v
      <3>1. req' = [req EXCEPT ![r] = v]
        BY <2>1 DEF v
      <3> QED
        BY <2>1, <2>2, <3>1, GotoMoves DEF Steps
    <2>4. \A n, s : Named(n, s) => Named(n, s)'
      BY DEF Named, lifeVars
    <2>5. Named(v.name, v.ref) /\ \A y \in v.rest : Named(y[1], y[2])
      BY <2>2
    <2>6. HoldsLock(r)' /\ HasRead(r)' /\ HasKilled(r)'
      BY <2>2, <2>3 DEF HoldsLock, Inside, HasRead, HasKilled
    <2>7. Named(v.name, v.ref)' /\ \A y \in v.rest : Named(y[1], y[2])'
      BY <2>4, <2>5
    <2>8. IsFiniteSet(v.panes)
      BY <2>2, FS_EmptySet
    <2> QED
      BY <2>2, <2>3, <2>6, <2>7, <2>8 DEF ReqOK, LockedSteps, Named
  <1> QED
    BY <1>1, <1>2

-----------------------------------------------------------------------------
(* What a step leaves alone                                                *)

LEMMA WorldQuiet ==
    ASSUME IndInv, UNCHANGED <<tmuxVars, lifeVars>>
    PROVE  WorldStep /\ WorldTypes' /\ WorldOK'
  <1>1. /\ server' = server /\ used' = used /\ tmux' = tmux
        /\ record' = record /\ born' = born
    BY DEF tmuxVars, lifeVars
  <1>2. server \in Nat
    BY IdentityAssumption DEF IndInv, Types, WorldTypes
  <1> QED
    BY <1>1, <1>2 DEF IndInv, Types, WorldTypes, WorldOK, WorldStep, Live

LEMMA StoreKept ==
    ASSUME IndInv, WorldStep, WorldTypes', issued' = issued,
           DOMAIN identity' \subseteq DOMAIN identity,
           \A s \in DOMAIN identity' : identity'[s] = identity[s]
    PROVE  StoreOK'
  <1> SUFFICES ASSUME NEW s \in DOMAIN identity', NEW raw \in DOMAIN identity'[s]
               PROVE  /\ identity'[s][raw] \in Binding
                      /\ identity'[s][raw].handle \in 1 .. Len(issued')
                      /\ issued'[identity'[s][raw].handle] =
                            [ref |-> s, raw |-> raw, gen |-> identity'[s][raw].gen]
                      /\ BelongsTo(s, identity[s][raw].gen, raw)'
    BY DEF StoreOK, IndInv, WorldStep, BelongsTo, Dead
  <1>1. PICK b : b = identity[s][raw]
    OBVIOUS
  <1>2. b \in Binding /\ b.gen \in Nat /\ s \in born /\ BelongsTo(s, b.gen, raw)
    BY <1>1 DEF IndInv, StoreOK, Binding
  <1>3. BelongsTo(s, b.gen, raw)'
    BY <1>2, BelongsStays DEF IndInv
  <1> QED
    BY <1>1, <1>3 DEF IndInv, StoreOK, BelongsTo, Dead

LEMMA ClearedKept ==
    ASSUME IndInv, WorldStep, cleared' = cleared, minted' = minted, tokens' \subseteq tokens
    PROVE  ClearedOK'
  BY DEF IndInv, ClearedOK, ClearedStaysCleared, WorldStep

LEMMA Numbers ==
    ASSUME IndInv
    PROVE  server \in Nat /\ Len(issued) \in Nat /\ Len(minted) \in Nat
  <1>1. server \in Nat
    BY IdentityAssumption DEF IndInv, Types, WorldTypes
  <1>2. Len(issued) \in Nat /\ Len(minted) \in Nat
    BY LenProperties DEF IndInv, Types
  <1> QED
    BY <1>1, <1>2

(* The record of a session that does not run may go.                       *)
LEMMA RecordDropped ==
    ASSUME IndInv, NEW m, tmux[m] = NoSession, record' = [record EXCEPT ![m] = None],
           UNCHANGED <<tmuxVars, born>>
    PROVE  /\ WorldTypes' /\ WorldStep /\ WorldOK'
           /\ \A n \in Names : record'[n] = record[n] \/ n = m
  <1>1. UNCHANGED <<server, used, tmux, born>> /\ server <= server'
    BY Numbers DEF tmuxVars
  <1>2. /\ record' \in [Names -> Refs \cup {None}]
        /\ \A n \in Names : record'[n] = record[n] \/ (n = m /\ record'[n] = None)
    BY DEF IndInv, Types, WorldTypes
  <1>3. WorldTypes'
    BY <1>1, <1>2 DEF IndInv, Types, WorldTypes
  <1>4. WorldStep
    BY <1>1, <1>2, NoneIsNone DEF WorldStep, IndInv, Types, WorldTypes
  <1>5. WorldOK'
    BY <1>1, <1>2 DEF IndInv, WorldOK, Live
  <1> QED
    BY <1>2, <1>3, <1>4, <1>5

(* A step of r that keeps the shared state sound keeps everything sound.   *)
LEMMA StepOK ==
    ASSUME IndInv, NEW r \in Requests \cup {None}, Calm(r), Types',
           WorldOK', StoreOK', TokenOK', ClearedOK', r \in Requests => ReqOK(r)'
    PROVE  IndInv'
  BY OtherOK DEF IndInv, Types

(* A step that only moves r.                                               *)
LEMMA MoveOK ==
    ASSUME IndInv, NEW r \in Requests, Moved(r), ReqOK(r)', mu' \in Requests \cup {None},
           UNCHANGED <<tmuxVars, lifeVars, identity, issued, tokenVars, cleared>>
    PROVE  IndInv'
  <1>1. WorldStep /\ WorldTypes' /\ WorldOK'
    BY WorldQuiet
  <1>2. UNCHANGED <<identity, issued, minted, tokens, presented, cleared, record>>
    BY DEF tokenVars, lifeVars
  <1>3. Types'
    BY <1>1, <1>2 DEF IndInv, Types, Moved
  <1>5. Calm(r)
    BY <1>1, <1>2, Numbers DEF Calm, Moved
  <1>6. StoreOK' /\ ClearedOK' /\ TokenOK'
    BY <1>1, <1>2, StoreKept, ClearedKept DEF IndInv, TokenOK
  <1> QED
    BY <1>1, <1>3, <1>5, <1>6, StepOK

(* The mutex is as it was.                                                 *)
LEMMA QuietMoveOK ==
    ASSUME IndInv, NEW r \in Requests, Moved(r), ReqOK(r)',
           UNCHANGED <<tmuxVars, lifeVars, storeVars, tokenVars, cleared>>
    PROVE  IndInv'
  <1>1. mu' \in Requests \cup {None} /\ UNCHANGED <<identity, issued>>
    BY DEF IndInv, Types, storeVars
  <1> QED
    BY <1>1, MoveOK

(* The handler answers and nothing else happens.                           *)
LEMMA JustLeaveOK ==
    ASSUME IndInv, NEW r \in Requests, Leave(r),
           UNCHANGED <<tmuxVars, lifeVars, storeVars, tokenVars, cleared>>
    PROVE  IndInv'
  BY LeaveOK, QuietMoveOK DEF IndInv

-----------------------------------------------------------------------------
(* The way in                                                              *)

LEMMA FindOK ==
    ASSUME IndInv, NEW r \in Requests, NEW kind \in Kinds, NEW n \in Names, Find(r, kind, n)
    PROVE  IndInv'
  <1> DEFINE v == [NoReq EXCEPT !.kind = kind, !.name = n, !.ref = record[n]]
             step == IF kind = "locked" THEN "enter" ELSE "server"
  <1>1. record[n] # None /\ record[n] \in Refs /\ Named(n, record[n])
    BY DEF Find, IndInv, Types, WorldTypes, WorldOK, Named
  <1>2. /\ v \in Request /\ v.kind = kind /\ v.name = n /\ v.ref = record[n]
        /\ v.rest = {} /\ v.panes = {}
    BY <1>1 DEF NoReq, Request
  <1>3. Goto(r, step) /\ req' = [req EXCEPT ![r] = v] /\ lock' = lock /\ step \in Steps
    BY DEF Find, Steps
  <1>4. UNCHANGED <<tmuxVars, lifeVars, storeVars, tokenVars, cleared>> /\ kind # "list"
    BY DEF Find
  <1>5. PICK w : w = v
    OBVIOUS
  <1> HIDE DEF v
  <1>6. Moved(r) /\ pc'[r] = step /\ req'[r] = w
    BY <1>2, <1>3, <1>5, GotoMoves DEF IndInv
  <1>7. Named(w.name, w.ref)'
    BY <1>1, <1>2, <1>4, <1>5 DEF Named, lifeVars
  <1>8. HoldsLock(r)' /\ HasRead(r)' /\ HasKilled(r)'
    BY <1>2, <1>5, <1>6 DEF HoldsLock, Inside, HasRead, HasKilled
  <1>9. ReqOK(r)'
    BY <1>2, <1>5, <1>6, <1>7, <1>8, FS_EmptySet DEF ReqOK, LockedSteps, Named
  <1> QED
    BY <1>4, <1>6, <1>9, QuietMoveOK

LEMMA StartListOK ==
    ASSUME IndInv, NEW r \in Requests, StartList(r)
    PROVE  IndInv'
  <1> DEFINE rest == {<<n, record[n]>> : n \in {m \in Recorded : Live(m)}}
  <1>1. PICK c : c = rest
    OBVIOUS
  <1>2. c \in SUBSET (Names \X Refs) /\ \A x \in c : Named(x[1], x[2])
    BY <1>1 DEF Recorded, IndInv, Types, WorldTypes, WorldOK, Named
  <1>3. NextListed(r, c) /\ UNCHANGED <<tmuxVars, lifeVars, storeVars, tokenVars, cleared>>
    BY <1>1 DEF StartList
  <1>4. Moved(r) /\ ReqOK(r)'
    BY <1>2, <1>3, NextListedOK DEF IndInv
  <1> QED
    BY <1>3, <1>4, QuietMoveOK

(* The lock is free, the record is still its own and the session runs: it  *)
(* was not cleared.                                                        *)
LEMMA EnterOK ==
    ASSUME IndInv, NEW r \in Requests, Enter(r)
    PROVE  IndInv'
  <1>1. PICK v : v = req[r]
    OBVIOUS
  <1>2. /\ pc[r] = "enter" /\ lock[v.name] = None /\ record[v.name] = v.ref
        /\ tmux[v.name] # NoSession /\ Goto(r, "server")
        /\ lock' = [lock EXCEPT ![v.name] = r]
        /\ UNCHANGED <<tmuxVars, lifeVars, storeVars, tokenVars, cleared>>
        /\ req' = req /\ record' = record /\ born' = born /\ tmux' = tmux /\ cleared' = cleared
    BY <1>1 DEF Enter, Session, lifeVars, tmuxVars
  <1>3. ReqOK(r) /\ v.name \in Names /\ v.ref \in born /\ v.kind = "locked"
    BY <1>1, <1>2 DEF IndInv, ReqOK, Named, LockedSteps
  <1>4. Moved(r) /\ pc'[r] = "server" /\ req'[r] = v /\ lock'[v.name] = r
    <2>1. pc' \in [Requests -> Steps] /\ pc'[r] = "server"
          /\ \A q \in Requests \ {r} : pc'[q] = pc[q]
      BY <1>2 DEF IndInv, Types, Goto, Steps
    <2>2. lock' \in [Names -> Requests \cup {None}] /\ lock'[v.name] = r
          /\ \A n \in Names : lock[n] \notin {r, None} => lock'[n] = lock[n]
      BY <1>2, <1>3 DEF IndInv, Types
    <2> QED
      BY <1>1, <1>2, <2>1, <2>2 DEF IndInv, Types, Moved
  <1>5. v.ref \notin cleared
    BY <1>2, <1>3 DEF IndInv, WorldOK, ClearedOK, Live
  <1>6. HoldsLock(r)' /\ HasRead(r)' /\ HasKilled(r)'
    BY <1>2, <1>4, <1>5 DEF HoldsLock, Inside, HasRead, HasKilled
  <1>7. ReqOK(r)'
    BY <1>1, <1>2, <1>3, <1>4, <1>6 DEF ReqOK, LockedSteps, Named
  <1> QED
    BY <1>2, <1>4, <1>7, QuietMoveOK

(* The record of a session that has exited is removed on the way out; only *)
(* who holds the lock could rely on it.                                    *)
LEMMA EnterRefusedOK ==
    ASSUME IndInv, NEW r \in Requests, EnterRefused(r)
    PROVE  IndInv'
  <1>1. PICK m : m = req[r].name
    OBVIOUS
  <1>2. /\ lock[m] = None /\ Leave(r) /\ UNCHANGED <<tmuxVars, born, storeVars, tokenVars, cleared>>
        /\ record' = IF tmux[m] = NoSession THEN [record EXCEPT ![m] = None] ELSE record
    BY <1>1 DEF EnterRefused, Session
  <1>3. Moved(r) /\ ReqOK(r)'
    BY <1>2, LeaveOK DEF IndInv
  <1>4. CASE tmux[m] # NoSession
    BY <1>2, <1>4, JustLeaveOK DEF lifeVars
  <1>5. CASE tmux[m] = NoSession
    <2>1. UNCHANGED <<tmuxVars, born, mu, identity, issued, minted, tokens, presented, cleared>>
      BY <1>2 DEF storeVars, tokenVars
    <2>2. /\ WorldTypes' /\ WorldStep /\ WorldOK'
          /\ \A n \in Names : record'[n] = record[n] \/ n = m
      BY <1>2, <1>5, <2>1, RecordDropped
    <2>3. Types'
      BY <1>3, <2>1, <2>2 DEF IndInv, Types, Moved
    <2>4. Calm(r)
      BY <1>2, <1>3, <2>1, <2>2, Numbers DEF Calm, Moved
    <2>5. StoreOK' /\ ClearedOK' /\ TokenOK'
      BY <2>1, <2>2, StoreKept, ClearedKept DEF IndInv, TokenOK
    <2> QED
      BY <1>3, <2>2, <2>3, <2>4, <2>5, StepOK
  <1> QED
    BY <1>4, <1>5

LEMMA FailOK ==
    ASSUME IndInv, NEW r \in Requests, Fail(r)
    PROVE  IndInv'
  <1>1. UNCHANGED <<tmuxVars, lifeVars, storeVars, tokenVars, cleared>>
    BY DEF Fail
  <1>2. CASE Leave(r)
    BY <1>1, <1>2, JustLeaveOK
  <1>3. CASE NextListed(r, req[r].rest)
    <2>1. PICK c : c = req[r].rest
      OBVIOUS
    <2>2. c \in SUBSET (Names \X Refs) /\ \A x \in c : Named(x[1], x[2])
      BY <2>1 DEF IndInv, Types, Request, ReqOK
    <2>3. Moved(r) /\ ReqOK(r)'
      BY <1>1, <1>3, <2>1, <2>2, NextListedOK DEF IndInv
    <2> QED
      BY <1>1, <2>3, QuietMoveOK
  <1> QED
    BY <1>2, <1>3 DEF Fail

-----------------------------------------------------------------------------
(* A handle is resolved                                                    *)

(* A request that goes on in its session.                                  *)
LEMMA OnwardOK ==
    ASSUME IndInv, NEW r \in Requests, pc[r] \notin {"idle", "enter", "remove"},
           NEW v, v = req[r], NEW w, req'[r] = w,
           w.kind = v.kind, w.name = v.name, w.ref = v.ref, w.rest = v.rest,
           IsFiniteSet(w.panes), pc'[r] # "idle",
           pc'[r] \in LockedSteps => w.kind = "locked",
           UNCHANGED <<lifeVars, lock>>, cleared' = cleared \/ pc'[r] = "remove",
           HasRead(r)', HasKilled(r)'
    PROVE  ReqOK(r)'
  <1>1. ReqOK(r) /\ UNCHANGED <<record, born, lock>>
    BY DEF IndInv, lifeVars
  <1>2. Named(w.name, w.ref)'
    BY <1>1 DEF ReqOK, Named
  <1>3. \A x \in w.rest : Named(x[1], x[2])'
    BY <1>1 DEF ReqOK, Named
  <1>4. HoldsLock(r)'
    BY <1>1 DEF ReqOK, HoldsLock, Inside
  <1> QED
    BY <1>2, <1>3, <1>4 DEF ReqOK, Named

LEMMA ReadServerOK ==
    ASSUME IndInv, NEW r \in Requests, ReadServer(r)
    PROVE  IndInv'
  <1>1. PICK v : v = req[r]
    OBVIOUS
  <1>2. PICK w : w = [v EXCEPT !.gen = server]
    OBVIOUS
  <1>3. /\ pc[r] = "server" /\ Goto(r, "panes") /\ lock' = lock
        /\ UNCHANGED <<tmuxVars, lifeVars, storeVars, tokenVars, cleared>>
        /\ req' = [req EXCEPT ![r] = w]
    BY <1>1, <1>2 DEF ReadServer
  <1>4. v \in Request /\ IsFiniteSet(v.panes)
    BY <1>1 DEF IndInv, Types, ReqOK
  <1>5. /\ w \in Request /\ w.kind = v.kind /\ w.name = v.name /\ w.ref = v.ref
        /\ w.rest = v.rest /\ w.panes = v.panes /\ w.gen = server
    BY <1>2, <1>4, Numbers DEF Request
  <1>6. Moved(r) /\ pc'[r] = "panes" /\ req'[r] = w
    BY <1>3, <1>5, GotoMoves DEF IndInv, Steps
  <1>7. HasRead(r)' /\ HasKilled(r)'
    BY <1>3, <1>5, <1>6, Numbers DEF HasRead, HasKilled, tmuxVars
  <1>8. ReqOK(r)'
    BY <1>1, <1>3, <1>4, <1>5, <1>6, <1>7, OnwardOK DEF LockedSteps
  <1> QED
    BY <1>3, <1>6, <1>8, QuietMoveOK

(* The panes of whatever bears the name belong to the session of the       *)
(* request, or that one is gone and its reference is in no record.         *)
LEMMA ListPanesOK ==
    ASSUME IndInv, NEW r \in Requests, ListPanes(r)
    PROVE  IndInv'
  <1>1. PICK v : v = req[r]
    OBVIOUS
  <1>2. PICK w : w = [v EXCEPT !.panes = tmux[v.name].panes, !.active = tmux[v.name].active]
    OBVIOUS
  <1>3. v \in Request /\ Named(v.name, v.ref) /\ v.gen <= server
    BY <1>1 DEF IndInv, Types, ReqOK, ListPanes, HasRead
  <1>4. tmux[v.name] \in Terminal /\ v.name \in Names /\ v.ref \in born
    BY <1>3 DEF IndInv, Types, WorldTypes, Named
  <1>5. /\ pc[r] = "panes" /\ tmux[v.name] # NoSession /\ Goto(r, "apply") /\ lock' = lock
        /\ UNCHANGED <<tmuxVars, lifeVars, storeVars, tokenVars, cleared>>
        /\ req' = [req EXCEPT ![r] = w]
    BY <1>1, <1>2, <1>3 DEF ListPanes, Session, Request
  <1>6. /\ w \in Request /\ w.kind = v.kind /\ w.name = v.name /\ w.ref = v.ref
        /\ w.rest = v.rest /\ w.panes = tmux[v.name].panes /\ w.gen = v.gen
    BY <1>2, <1>3, <1>4 DEF Request, Terminal
  <1>7. Moved(r) /\ pc'[r] = "apply" /\ req'[r] = w
    BY <1>5, <1>6, GotoMoves DEF IndInv, Steps
  <1>8. \A raw \in w.panes : BelongsTo(w.ref, w.gen, raw)
    <2>1. Dead(v.ref) \/ tmux[v.name].ref = v.ref
      BY <1>3, <1>4, <1>5 DEF IndInv, WorldOK, Live, Named, Dead
    <2>2. \A raw \in tmux[v.name].panes : raw \in used /\
            \A n \in Names : raw \in tmux[n].panes => n = v.name
      BY <1>4 DEF IndInv, WorldOK
    <2> QED
      BY <1>3, <1>6, <2>1, <2>2 DEF BelongsTo
  <1>9. HasRead(r)' /\ HasKilled(r)'
    <2>1. \A raw \in w.panes : BelongsTo(w.ref, w.gen, raw)'
      BY <1>5, <1>8 DEF BelongsTo, Dead, tmuxVars, lifeVars
    <2>2. w.gen <= server'
      BY <1>3, <1>5, <1>6 DEF tmuxVars
    <2> QED
      BY <1>7, <2>1, <2>2 DEF HasRead, HasKilled, BelongsTo, Dead
  <1>10. ReqOK(r)'
    <2>1. IsFiniteSet(w.panes)
      BY <1>4, <1>6 DEF IndInv, WorldOK
    <2> QED
      BY <1>1, <1>5, <1>6, <1>7, <1>9, <2>1, OnwardOK DEF LockedSteps
  <1> QED
    BY <1>5, <1>7, <1>10, QuietMoveOK

(* The handle the request finds is bound as it was issued.                 *)
LEMMA LookupOK ==
    ASSUME IndInv, NEW r \in Requests, Lookup(r)
    PROVE  IndInv'
  <1>1. UNCHANGED <<tmuxVars, lifeVars, storeVars, tokenVars, cleared>>
    BY DEF Lookup
  <1>2. CASE Leave(r)
    BY <1>1, <1>2, JustLeaveOK
  <1>3. CASE ~Leave(r)
    <2>1. PICK v : v = req[r]
      OBVIOUS
    <2>2. PICK raw \in DOMAIN identity[v.ref] :
            /\ pc[r] = "lookup" /\ v.ref \in DOMAIN identity /\ Goto(r, "verify")
            /\ req' = [req EXCEPT ![r] = [v EXCEPT !.handle = identity[v.ref][raw].handle,
                         !.raw = raw, !.gen = identity[v.ref][raw].gen]]
            /\ lock' = lock
      BY <1>3, <2>1 DEF Lookup
    <2>3. PICK b : b = identity[v.ref][raw]
      OBVIOUS
    <2>4. PICK w : w = [v EXCEPT !.handle = b.handle, !.raw = raw, !.gen = b.gen]
      OBVIOUS
    <2>5. /\ b \in Binding /\ b.handle \in 1 .. Len(issued) /\ BelongsTo(v.ref, b.gen, raw)
          /\ issued[b.handle] = [ref |-> v.ref, raw |-> raw, gen |-> b.gen]
      BY <2>2, <2>3 DEF IndInv, StoreOK
    <2>6. raw \in Nat
      <3>1. issued[b.handle] \in Issue
        BY <2>5, ElementOfSeq DEF IndInv, Types
      <3> QED
        BY <2>5, <3>1 DEF Issue
    <2>7. v \in Request /\ IsFiniteSet(v.panes)
      BY <2>1 DEF IndInv, Types, ReqOK
    <2>8. /\ w \in Request /\ w.kind = v.kind /\ w.name = v.name /\ w.ref = v.ref
          /\ w.rest = v.rest /\ w.panes = v.panes
          /\ w.handle = b.handle /\ w.raw = raw /\ w.gen = b.gen
      BY <2>4, <2>5, <2>6, <2>7 DEF Request, Binding
    <2>9. Moved(r) /\ pc'[r] = "verify" /\ req'[r] = w
      <3>1. req' = [req EXCEPT ![r] = w]
        BY <2>2, <2>3, <2>4
      <3> QED
        BY <2>2, <2>8, <3>1, GotoMoves DEF IndInv, Steps
    <2>10. BelongsTo(v.ref, b.gen, raw)' /\ issued' = issued
      BY <1>1, <2>5 DEF BelongsTo, Dead, tmuxVars, lifeVars, storeVars
    <2>11. HasRead(r)' /\ HasKilled(r)'
      BY <2>5, <2>8, <2>9, <2>10 DEF HasRead, HasKilled, BelongsTo, Dead
    <2>12. ReqOK(r)'
      BY <1>1, <2>1, <2>2, <2>7, <2>8, <2>9, <2>11, OnwardOK DEF LockedSteps
    <2> QED
      BY <1>1, <2>9, <2>12, QuietMoveOK
  <1> QED
    BY <1>2, <1>3

LEMMA LookupPanicsOK ==
    ASSUME IndInv, NEW r \in Requests, LookupPanics(r)
    PROVE  IndInv'
  BY LeaveOK, MoveOK DEF IndInv, LookupPanics

LEMMA VerifyPaneOK ==
    ASSUME IndInv, NEW r \in Requests, VerifyPane(r)
    PROVE  IndInv'
  <1>1. UNCHANGED <<tmuxVars, lifeVars, storeVars, tokenVars, cleared>> /\ pc[r] = "verify"
    BY DEF VerifyPane
  <1>2. CASE Leave(r)
    BY <1>1, <1>2, JustLeaveOK
  <1>3. CASE ~Leave(r)
    <2>1. PICK step \in {"act", "kill"} :
            /\ Goto(r, step) /\ req' = req /\ lock' = lock /\ req[r].kind = "locked"
      BY <1>3 DEF VerifyPane
    <2>2. PICK v : v = req[r]
      OBVIOUS
    <2>3. v \in Request /\ IsFiniteSet(v.panes)
      BY <2>2 DEF IndInv, Types, ReqOK
    <2>4. Moved(r) /\ pc'[r] = step /\ req'[r] = v
      BY <2>1, <2>2 DEF IndInv, Types, Goto, Moved, Steps
    <2>5. HasRead(r)' /\ HasKilled(r)'
      BY <1>1, <2>1, <2>2, <2>4 DEF IndInv, ReqOK, HasRead, HasKilled, storeVars
    <2>6. ReqOK(r)'
      BY <1>1, <2>1, <2>2, <2>3, <2>4, <2>5, OnwardOK
    <2> QED
      BY <1>1, <2>4, <2>6, QuietMoveOK
  <1> QED
    BY <1>2, <1>3

-----------------------------------------------------------------------------
(* The topology becomes the entry                                          *)

Rank(F, raw) == Cardinality({x \in F : x <= raw})

(* The panes that need a handle are numbered without gaps or repetitions.  *)
LEMMA RankOK ==
    ASSUME NEW F \in SUBSET Nat, IsFiniteSet(F)
    PROVE  /\ Cardinality(F) \in Nat
           /\ \A raw \in F : Rank(F, raw) \in 1 .. Cardinality(F)
           /\ \A a, b \in F : Rank(F, a) = Rank(F, b) => a = b
           /\ \A i \in 1 .. Cardinality(F) : \E raw \in F : Rank(F, raw) = i
  <1>1. Cardinality(F) \in Nat
    BY FS_CardinalityType
  <1> DEFINE Below(raw) == {x \in F : x <= raw}
  <1>2. \A raw \in F : /\ IsFiniteSet(Below(raw)) /\ Cardinality(Below(raw)) \in Nat
                       /\ Cardinality(Below(raw)) <= Cardinality(F)
                       /\ Cardinality(Below(raw)) # 0
    <2> SUFFICES ASSUME NEW raw \in F
                 PROVE  /\ IsFiniteSet(Below(raw)) /\ Cardinality(Below(raw)) \in Nat
                        /\ Cardinality(Below(raw)) <= Cardinality(F)
                        /\ Cardinality(Below(raw)) # 0
      OBVIOUS
    <2>1. Below(raw) \in SUBSET F /\ raw \in Below(raw)
      OBVIOUS
    <2> HIDE DEF Below
    <2>2. IsFiniteSet(Below(raw)) /\ Cardinality(Below(raw)) <= Cardinality(F)
      BY <2>1, FS_Subset
    <2> QED
      BY <2>1, <2>2, FS_CardinalityType, FS_EmptySet
  <1>3. \A a, b \in F : Cardinality(Below(a)) = Cardinality(Below(b)) => a = b
    <2>1. ASSUME NEW a \in F, NEW b \in F, a < b
          PROVE  Cardinality(Below(a)) # Cardinality(Below(b))
      <3>0. a \in Nat /\ b \in Nat /\ b <= b /\ ~(b <= a) /\ \A x \in F : x <= a => x <= b
        BY <2>1
      <3>1. Below(a) \in SUBSET Below(b) /\ b \in Below(b) /\ b \notin Below(a)
        BY <3>0
      <3>2. IsFiniteSet(Below(b))
        BY <1>2
      <3> HIDE DEF Below
      <3>3. Cardinality(Below(b)) = Cardinality(Below(a)) => Below(b) = Below(a)
        BY <3>1, <3>2, FS_Subset
      <3> QED
        BY <3>1, <3>3
    <2> HIDE DEF Below
    <2>2. \A a, b \in F : a < b \/ b < a \/ a = b
      OBVIOUS
    <2> QED
      BY <2>1, <2>2
  <1>4. \A i \in 1 .. Cardinality(F) : \E raw \in F : Cardinality(Below(raw)) = i
    <2> DEFINE f == [raw \in F |-> Cardinality(Below(raw))]
               T == 1 .. Cardinality(F)
    <2>1. f \in [F -> T]
      BY <1>1, <1>2
    <2>2. f \in Injection(F, T)
      BY <1>3, <2>1 DEF Injection, IsInjective
    <2>3. IsFiniteSet(T) /\ Cardinality(T) = Cardinality(F)
      BY <1>1, FS_Interval
    <2>4. f \in Surjection(F, T)
      <3> HIDE DEF f, T
      <3> QED
        BY <2>2, <2>3, FS_Injection
    <2> QED
      BY <2>4 DEF Surjection
  <1> QED
    BY <1>1, <1>2, <1>3, <1>4 DEF Rank

(* What refresh writes: the entry of the session, handles that were not    *)
(* given out before, and nothing else.                                     *)
LEMMA UpdateOK ==
    ASSUME IndInv, NEW r \in Requests, pc[r] = "apply", Update(r),
           UNCHANGED <<tmuxVars, lifeVars>>
    PROVE  /\ StoreOK' /\ issued' \in Seq(Issue)
           /\ Len(issued) <= Len(issued') /\ \A i \in 1 .. Len(issued) : issued'[i] = issued[i]
           /\ DOMAIN identity' = DOMAIN identity \cup {req[r].ref}
  <1>1. PICK v : v = req[r]
    OBVIOUS
  <1>2. PICK old : old = Bindings(v.ref)
    OBVIOUS
  <1>3. PICK F : F = {raw \in v.panes : ~Keeps(old, raw, v.gen)}
    OBVIOUS
  <1>4. PICK L : L = Len(issued)
    OBVIOUS
  <1> DEFINE new == [i \in 1 .. Cardinality(F) |->
                       [ref |-> v.ref, gen |-> v.gen, raw |-> CHOOSE raw \in F : Rank(F, raw) = i]]
             HandleOf(raw) == IF raw \in F THEN L + Rank(F, raw) ELSE old[raw].handle
             Bound(raw) == [handle |-> HandleOf(raw), gen |-> v.gen, active |-> raw = v.active]
  <1>5. /\ issued' = issued \o new
        /\ identity' = [s \in DOMAIN identity \cup {v.ref} |->
               IF s # v.ref THEN identity[s] ELSE [raw \in v.panes |-> Bound(raw)]]
    BY <1>1, <1>2, <1>3, <1>4 DEF Update, NewHandle, Rank
  <1>6. /\ v \in Request /\ IsFiniteSet(v.panes) /\ v.ref \in born /\ v.ref \in Refs
        /\ \A raw \in v.panes : BelongsTo(v.ref, v.gen, raw)
    BY <1>1 DEF IndInv, Types, WorldTypes, ReqOK, Named, HasRead
  <1>7. F \in SUBSET Nat /\ IsFiniteSet(F) /\ F \subseteq v.panes /\ v.gen \in Nat
        /\ v.panes \subseteq Nat
    <2>1. F \in SUBSET v.panes /\ v.panes \subseteq Nat /\ v.gen \in Nat
      BY <1>3, <1>6, IdentityAssumption DEF Request
    <2> QED
      BY <1>6, <2>1, FS_Subset
  <1>8. /\ Cardinality(F) \in Nat
        /\ \A raw \in F : Rank(F, raw) \in 1 .. Cardinality(F)
        /\ \A a, b \in F : Rank(F, a) = Rank(F, b) => a = b
        /\ \A i \in 1 .. Cardinality(F) : \E raw \in F : Rank(F, raw) = i
    BY <1>7, RankOK
  <1>9. new \in Seq(Issue) /\ Len(new) = Cardinality(F)
    <2>1. \A i \in 1 .. Cardinality(F) : new[i] \in Issue
      <3> SUFFICES ASSUME NEW i \in 1 .. Cardinality(F) PROVE new[i] \in Issue
        OBVIOUS
      <3>1. (CHOOSE raw \in F : Rank(F, raw) = i) \in F
        BY <1>8
      <3> QED
        BY <1>6, <1>7, <3>1 DEF Issue
    <2> QED
      BY <1>8, <2>1, IsASeq, LenProperties
  <1>10. L \in Nat /\ issued \in Seq(Issue)
    BY <1>4, Numbers DEF IndInv, Types
  <1>11. /\ issued' \in Seq(Issue) /\ Len(issued') = L + Cardinality(F)
         /\ \A i \in 1 .. L : issued'[i] = issued[i]
         /\ \A i \in 1 .. Cardinality(F) : issued'[L + i] = new[i]
    <2>1. \A i \in 1 .. L + Cardinality(F) :
            issued'[i] = IF i <= L THEN issued[i] ELSE new[i - L]
      <3> HIDE DEF new
      <3> QED
        BY <1>4, <1>5, <1>9, <1>10, ConcatProperties
    <2>2. issued' \in Seq(Issue) /\ Len(issued') = L + Cardinality(F)
      <3> HIDE DEF new
      <3> QED
        BY <1>4, <1>5, <1>9, <1>10, ConcatProperties
    <2>3. ASSUME NEW i \in 1 .. L PROVE issued'[i] = issued[i]
      <3>1. i \in 1 .. L + Cardinality(F) /\ i <= L
        BY <1>8, <1>10
      <3> QED
        BY <2>1, <3>1
    <2>4. ASSUME NEW i \in 1 .. Cardinality(F) PROVE issued'[L + i] = new[i]
      <3>1. L + i \in 1 .. L + Cardinality(F) /\ ~(L + i <= L) /\ (L + i) - L = i
        BY <1>8, <1>10
      <3> HIDE DEF new
      <3> QED
        BY <2>1, <3>1
    <2> QED
      BY <2>2, <2>3, <2>4
  <1>12. ASSUME NEW raw \in F PROVE issued'[L + Rank(F, raw)] = [ref |-> v.ref, raw |-> raw, gen |-> v.gen]
    <2>1. (CHOOSE x \in F : Rank(F, x) = Rank(F, raw)) = raw
      BY <1>8
    <2> QED
      BY <1>8, <1>11, <2>1
  <1>13. DOMAIN identity' = DOMAIN identity \cup {v.ref}
         /\ (\A s \in DOMAIN identity : s # v.ref => identity'[s] = identity[s])
         /\ identity'[v.ref] = [raw \in v.panes |-> Bound(raw)]
    BY <1>5
  <1>14. ASSUME NEW raw \in v.panes
         PROVE  /\ HandleOf(raw) \in 1 .. Len(issued') /\ HandleOf(raw) \in Nat
                /\ issued'[HandleOf(raw)] = [ref |-> v.ref, raw |-> raw, gen |-> v.gen]
    <2>1. CASE raw \in F
      BY <1>8, <1>10, <1>11, <1>12, <2>1
    <2>2. CASE raw \notin F
      <3>1. raw \in DOMAIN old /\ old[raw].gen = v.gen
        BY <1>3, <2>2 DEF Keeps
      <3>2. v.ref \in DOMAIN identity /\ old = identity[v.ref]
        BY <1>2, <3>1 DEF Bindings
      <3>3. /\ old[raw].handle \in 1 .. L
            /\ issued[old[raw].handle] = [ref |-> v.ref, raw |-> raw, gen |-> v.gen]
        BY <1>4, <3>1, <3>2 DEF IndInv, StoreOK
      <3> QED
        BY <1>8, <1>10, <1>11, <2>2, <3>3
    <2> QED
      BY <2>1, <2>2
  <1>15. StoreOK'
    <2>1. UNCHANGED <<server, used, tmux, record, born>>
      BY DEF tmuxVars, lifeVars
    <2>2. DOMAIN identity' \subseteq born'
      BY <1>6, <1>13, <2>1 DEF IndInv, StoreOK
    <2>3. \A s, g, raw : BelongsTo(s, g, raw) => BelongsTo(s, g, raw)'
      BY <2>1 DEF BelongsTo, Dead
    <2>4. ASSUME NEW s \in DOMAIN identity', NEW raw \in DOMAIN identity'[s], NEW b, b = identity'[s][raw]
          PROVE  /\ b \in Binding /\ b.handle \in 1 .. Len(issued')
                 /\ issued'[b.handle] = [ref |-> s, raw |-> raw, gen |-> b.gen]
                 /\ BelongsTo(s, b.gen, raw)
      <3>1. CASE s = v.ref
        <4>1. raw \in v.panes /\ b = Bound(raw)
          BY <1>13, <2>4, <3>1
        <4>2. b.handle = HandleOf(raw) /\ b.gen = v.gen /\ b \in Binding
          BY <1>7, <1>14, <4>1 DEF Binding
        <4> HIDE DEF HandleOf
        <4> QED
          BY <1>6, <1>14, <3>1, <4>1, <4>2
      <3>2. CASE s # v.ref
        <4>1. s \in DOMAIN identity /\ raw \in DOMAIN identity[s] /\ b = identity[s][raw]
          BY <1>13, <2>4, <3>2
        <4>2. /\ b \in Binding /\ b.handle \in 1 .. L
              /\ issued[b.handle] = [ref |-> s, raw |-> raw, gen |-> b.gen]
              /\ BelongsTo(s, b.gen, raw)
          BY <1>4, <4>1 DEF IndInv, StoreOK
        <4> QED
          BY <1>8, <1>10, <1>11, <4>2
      <3> QED
        BY <3>1, <3>2
    <2>5. ASSUME NEW s \in DOMAIN identity', NEW raw \in DOMAIN identity'[s], NEW b, b = identity'[s][raw]
          PROVE  BelongsTo(s, b.gen, raw)'
      BY <2>3, <2>4, <2>5
    <2> HIDE DEF Bound, HandleOf
    <2> QED
      BY <2>2, <2>4, <2>5 DEF StoreOK, BelongsTo, Dead
  <1> QED
    BY <1>1, <1>4, <1>8, <1>10, <1>11, <1>13, <1>15

(* Handles are only added, so nobody's is touched.                         *)
LEMMA ApplyOK ==
    ASSUME IndInv, NEW r \in Requests, Apply(r)
    PROVE  IndInv'
  <1>1. /\ pc[r] = "apply" /\ Update(r)
        /\ UNCHANGED <<tmuxVars, lifeVars, mu, tokenVars, cleared>>
        /\ UNCHANGED <<minted, tokens, presented, record, born>>
    BY DEF Apply, tokenVars, lifeVars
  <1>2. /\ StoreOK' /\ issued' \in Seq(Issue)
        /\ Len(issued) <= Len(issued') /\ \A i \in 1 .. Len(issued) : issued'[i] = issued[i]
        /\ DOMAIN identity' = DOMAIN identity \cup {req[r].ref}
    BY <1>1, UpdateOK
  <1>3. WorldStep /\ WorldTypes' /\ WorldOK'
    BY <1>1, WorldQuiet
  <1>4. Moved(r) /\ ReqOK(r)'
    <2>1. CASE Leave(r)
      BY <2>1, LeaveOK DEF IndInv
    <2>2. CASE NextListed(r, req[r].rest)
      <3>1. PICK c : c = req[r].rest
        OBVIOUS
      <3>2. c \in SUBSET (Names \X Refs) /\ \A x \in c : Named(x[1], x[2])
        BY <3>1 DEF IndInv, Types, Request, ReqOK
      <3> QED
        BY <1>1, <2>2, <3>1, <3>2, NextListedOK DEF IndInv
    <2>3. CASE /\ Goto(r, "lookup") /\ UNCHANGED lock
               /\ req' = [req EXCEPT ![r] = [@ EXCEPT !.gen = 0, !.panes = {}, !.active = 0]]
      <3>1. PICK v : v = req[r]
        OBVIOUS
      <3>2. PICK w : w = [v EXCEPT !.gen = 0, !.panes = {}, !.active = 0]
        OBVIOUS
      <3>3. v \in Request
        BY <3>1 DEF IndInv, Types
      <3>4. /\ w \in Request /\ w.kind = v.kind /\ w.name = v.name /\ w.ref = v.ref
            /\ w.rest = v.rest /\ w.panes = {}
        BY <3>2, <3>3 DEF Request
      <3>5. Moved(r) /\ pc'[r] = "lookup" /\ req'[r] = w
        <4>1. req' = [req EXCEPT ![r] = w]
          BY <2>3, <3>1, <3>2
        <4> QED
          BY <2>3, <3>4, <4>1, GotoMoves DEF IndInv, Steps
      <3>6. HasRead(r)' /\ HasKilled(r)'
        BY <1>2, <3>1, <3>4, <3>5 DEF HasRead, HasKilled
      <3>7. IsFiniteSet(w.panes)
        BY <3>4, FS_EmptySet
      <3>8. ReqOK(r)'
        BY <1>1, <2>3, <3>1, <3>4, <3>5, <3>6, <3>7, OnwardOK DEF LockedSteps
      <3> QED
        BY <3>5, <3>8
    <2> QED
      BY <2>1, <2>2, <2>3 DEF Apply
  <1>5. Types'
    BY <1>1, <1>2, <1>3, <1>4 DEF IndInv, Types, Moved
  <1>6. Calm(r)
    BY <1>1, <1>2, <1>3, <1>4 DEF Calm, Moved
  <1>7. ClearedOK' /\ TokenOK'
    BY <1>1, <1>3, ClearedKept DEF IndInv, TokenOK
  <1> QED
    BY <1>2, <1>3, <1>4, <1>5, <1>6, <1>7, StepOK

-----------------------------------------------------------------------------
(* What happens to tmux                                                    *)

(* A session keeps its reference and takes no pane that is another's, or   *)
(* it ends.                                                                *)
LEMMA TmuxChanged ==
    ASSUME IndInv, NEW m \in Names, NEW t \in Terminal, tmux' = [tmux EXCEPT ![m] = t],
           UNCHANGED <<server, lifeVars>>, used' \in SUBSET RawPanes, used \subseteq used',
           IsFiniteSet(t.panes), t.panes \subseteq used', t.panes \cap used \subseteq tmux[m].panes,
           t = NoSession \/ (tmux[m] # NoSession /\ t.ref = tmux[m].ref)
    PROVE  WorldTypes' /\ WorldStep /\ WorldOK'
  <1>1. UNCHANGED <<server, record, born>> /\ server <= server'
    BY Numbers DEF lifeVars
  <1>2. tmux' \in [Names -> Terminal] /\ \A n \in Names : tmux'[n] = IF n = m THEN t ELSE tmux[n]
    BY DEF IndInv, Types, WorldTypes
  <1>3. WorldTypes'
    BY <1>1, <1>2 DEF IndInv, Types, WorldTypes
  <1>4. NoSession.panes = {} /\ NoSession.ref = None /\ None \notin born
    BY NoneIsNone DEF NoSession, IndInv, Types, WorldTypes
  <1>5. WorldStep
    <2>1. \A n \in Names : \A raw \in tmux'[n].panes \cap used :
            raw \in tmux[n].panes /\ tmux'[n].ref = tmux[n].ref
      BY <1>2, <1>4
    <2>2. \A n \in Names : tmux'[n].ref # tmux[n].ref => tmux'[n].ref \notin born
      BY <1>2, <1>4
    <2>3. \A n \in Names : tmux[n] = NoSession => tmux'[n] = NoSession
      BY <1>2
    <2> QED
      BY <1>1, <2>1, <2>2, <2>3 DEF WorldStep
  <1>6. WorldOK'
    <2>1. \A n \in Names :
          /\ record'[n] # None => record'[n] \in born'
          /\ Live(n)' => tmux'[n].ref = record'[n] /\ record'[n] # None
          /\ tmux'[n].panes \subseteq used' /\ IsFiniteSet(tmux'[n].panes)
      BY <1>1, <1>2 DEF IndInv, WorldOK, Live
    <2>2. \A n, k \in Names : n # k => tmux'[n].panes \cap tmux'[k].panes = {}
      BY <1>2 DEF IndInv, WorldOK
    <2> QED
      BY <1>1, <2>1, <2>2 DEF IndInv, WorldOK
  <1> QED
    BY <1>3, <1>5, <1>6

LEMMA EndedOK ==
    ASSUME IndInv, NEW m \in Names, tmux' = [tmux EXCEPT ![m] = NoSession],
           UNCHANGED <<server, used, lifeVars>>
    PROVE  WorldTypes' /\ WorldStep /\ WorldOK'
  <1>1. NoSession \in Terminal /\ NoSession.panes = {} /\ IsFiniteSet({})
    BY FS_EmptySet DEF NoSession, Terminal
  <1>2. used' \in SUBSET RawPanes
    BY DEF IndInv, Types, WorldTypes
  <1> QED
    BY <1>1, <1>2, TmuxChanged

LEMMA TopologyOK ==
    ASSUME IndInv, NEW m \in Names, TopologyChanges(m), UNCHANGED <<server, lifeVars>>
    PROVE  WorldTypes' /\ WorldStep /\ WorldOK'
  <1>1. /\ tmux[m] \in Terminal /\ IsFiniteSet(tmux[m].panes) /\ tmux[m].panes \subseteq used
        /\ used \in SUBSET RawPanes /\ RawPanes \subseteq Nat /\ tmux \in [Names -> Terminal]
    BY IdentityAssumption DEF IndInv, Types, WorldTypes, WorldOK
  <1>2. CASE OpenPane(m)
    <2>1. PICK p \in RawPanes :
            /\ tmux' = [tmux EXCEPT ![m].panes = @ \cup {p}, ![m].active = p]
            /\ used' = used \cup {p} /\ p \notin used /\ tmux[m] # NoSession
      BY <1>2 DEF OpenPane, FreshPane, Live
    <2>2. PICK t : t = [tmux[m] EXCEPT !.panes = @ \cup {p}, !.active = p]
      OBVIOUS
    <2>3. t \in Terminal /\ t.panes = tmux[m].panes \cup {p} /\ t.ref = tmux[m].ref
      BY <1>1, <2>2 DEF Terminal
    <2>4. tmux' = [tmux EXCEPT ![m] = t]
      BY <1>1, <2>1, <2>2
    <2>5. IsFiniteSet(t.panes)
      BY <1>1, <2>3, FS_AddElement
    <2> QED
      BY <1>1, <2>1, <2>3, <2>4, <2>5, TmuxChanged, ZenonT(60)
  <1>3. CASE SelectPane(m)
    <2>1. PICK p \in tmux[m].panes : tmux' = [tmux EXCEPT ![m].active = p] /\ used' = used
      BY <1>3 DEF SelectPane
    <2>2. PICK t : t = [tmux[m] EXCEPT !.active = p]
      OBVIOUS
    <2>3. t \in Terminal /\ t.panes = tmux[m].panes /\ t.ref = tmux[m].ref /\ tmux[m] # NoSession
      BY <1>1, <2>2 DEF Terminal, NoSession
    <2>4. tmux' = [tmux EXCEPT ![m] = t]
      BY <1>1, <2>1, <2>2
    <2> QED
      BY <1>1, <2>1, <2>3, <2>4, TmuxChanged
  <1>4. CASE ClosePane(m)
    <2>1. PICK p \in tmux[m].panes :
            /\ used' = used
            /\ \/ tmux' = [tmux EXCEPT ![m] = NoSession]
               \/ \E q \in tmux[m].panes \ {p} :
                    tmux' = [tmux EXCEPT ![m].panes = @ \ {p}, ![m].active = q]
      BY <1>4 DEF ClosePane
    <2>2. CASE tmux' = [tmux EXCEPT ![m] = NoSession]
      BY <1>1, <2>1, <2>2, EndedOK
    <2>3. CASE tmux' # [tmux EXCEPT ![m] = NoSession]
      <3>1. PICK q \in tmux[m].panes : tmux' = [tmux EXCEPT ![m].panes = @ \ {p}, ![m].active = q]
        BY <2>1, <2>3
      <3>2. PICK t : t = [tmux[m] EXCEPT !.panes = @ \ {p}, !.active = q]
        OBVIOUS
      <3>3. /\ t \in Terminal /\ t.panes = tmux[m].panes \ {p} /\ t.ref = tmux[m].ref
            /\ tmux[m] # NoSession
        <4>1. q \in Nat /\ tmux[m].panes \ {p} \in SUBSET RawPanes
          BY <1>1
        <4>2. tmux[m] # NoSession
          BY DEF NoSession
        <4> QED
          BY <1>1, <3>2, <4>1, <4>2 DEF Terminal
      <3>4. tmux' = [tmux EXCEPT ![m] = t]
        BY <1>1, <3>1, <3>2
      <3>5. IsFiniteSet(t.panes)
        BY <1>1, <3>3, FS_RemoveElement
      <3> QED
        BY <1>1, <2>1, <3>3, <3>4, <3>5, TmuxChanged
    <2> QED
      BY <2>2, <2>3
  <1> QED
    BY <1>2, <1>3, <1>4 DEF TopologyChanges

(* A step that changes only tmux and the records, beside the requests.     *)
LEMMA WorldMoveOK ==
    ASSUME IndInv, WorldTypes', WorldStep, WorldOK',
           \A n \in Names : lock[n] # None => record'[n] = record[n],
           UNCHANGED <<lock, storeVars, tokenVars, cleared, pc, req>>
    PROVE  IndInv'
  <1>1. UNCHANGED <<mu, identity, issued, minted, tokens, presented, cleared, lock, pc, req>>
    BY DEF storeVars, tokenVars
  <1>2. Types'
    BY <1>1 DEF IndInv, Types
  <1>3. Calm(None)
    BY <1>1, Numbers DEF Calm
  <1>4. StoreOK' /\ ClearedOK' /\ TokenOK'
    BY <1>1, StoreKept, ClearedKept DEF IndInv, TokenOK
  <1> QED
    BY <1>2, <1>3, <1>4, StepOK, NoneIsNone

LEMMA TerminalUseOK ==
    ASSUME IndInv, NEW n \in Names, TerminalUse(n)
    PROVE  IndInv'
  <1>1. WorldTypes' /\ WorldStep /\ WorldOK'
    BY TopologyOK DEF TerminalUse
  <1> QED
    BY <1>1, WorldMoveOK DEF TerminalUse, lifeVars

LEMMA ReconcileOK ==
    ASSUME IndInv, NEW n \in Names, Reconcile(n)
    PROVE  IndInv'
  <1>1. /\ WorldTypes' /\ WorldStep /\ WorldOK'
        /\ \A m \in Names : record'[m] = record[m] \/ m = n
    BY RecordDropped DEF Reconcile, Live
  <1> QED
    BY <1>1, WorldMoveOK DEF Reconcile

(* A new session has a reference and a pane nobody has heard of.           *)
LEMMA CreateSessionOK ==
    ASSUME IndInv, NEW n \in Names, CreateSession(n)
    PROVE  IndInv'
  <1>1. PICK p \in RawPanes, ref \in Refs :
          /\ lock[n] = None /\ record[n] = None /\ tmux[n] = NoSession
          /\ p \notin used /\ ref \notin born
          /\ record' = [record EXCEPT ![n] = ref] /\ born' = born \cup {ref}
          /\ tmux' = [tmux EXCEPT ![n] = [ref |-> ref, panes |-> {p}, active |-> p]]
          /\ used' = used \cup {p} /\ server' = server
    BY DEF CreateSession, FreshPane, Live
  <1> DEFINE t == [ref |-> ref, panes |-> {p}, active |-> p]
  <1>2. t \in Terminal /\ t.ref = ref /\ t.panes = {p} /\ IsFiniteSet(t.panes)
    BY IdentityAssumption, FS_Singleton DEF Terminal
  <1> HIDE DEF t
  <1>3. tmux' \in [Names -> Terminal] /\ \A m \in Names : tmux'[m] = IF m = n THEN t ELSE tmux[m]
    BY <1>1, <1>2 DEF IndInv, Types, WorldTypes, t
  <1>4. /\ record' \in [Names -> Refs \cup {None}]
        /\ \A m \in Names : record'[m] = IF m = n THEN ref ELSE record[m]
    BY <1>1 DEF IndInv, Types, WorldTypes
  <1>5. WorldTypes'
    BY <1>1, <1>3, <1>4 DEF IndInv, Types, WorldTypes
  <1>6. \A m \in Names : m # n => record[m] # ref /\ p \notin tmux[m].panes
    BY <1>1, NoneIsNone DEF IndInv, WorldOK
  <1>7. WorldStep
    <2>1. \A m \in Names : \A raw \in tmux'[m].panes \cap used :
            raw \in tmux[m].panes /\ tmux'[m].ref = tmux[m].ref
      BY <1>1, <1>2, <1>3
    <2> QED
      BY <1>1, <1>2, <1>3, <1>4, <2>1, Numbers DEF WorldStep
  <1>8. WorldOK'
    <2>1. \A m \in Names :
          /\ record'[m] # None => record'[m] \in born'
          /\ Live(m)' => tmux'[m].ref = record'[m] /\ record'[m] # None
          /\ tmux'[m].panes \subseteq used' /\ IsFiniteSet(tmux'[m].panes)
      BY <1>1, <1>2, <1>3, <1>4, NoneIsNone DEF IndInv, WorldOK, Live
    <2>2. \A m, k \in Names : m # k => tmux'[m].panes \cap tmux'[k].panes = {}
      BY <1>2, <1>3, <1>6 DEF IndInv, WorldOK
    <2>3. \A m, k \in Names : m # k /\ record'[m] # None => record'[m] # record'[k]
      BY <1>4, <1>6 DEF IndInv, WorldOK
    <2> QED
      BY <2>1, <2>2, <2>3 DEF WorldOK
  <1> QED
    BY <1>1, <1>4, <1>5, <1>7, <1>8, WorldMoveOK DEF CreateSession

(* The ids start again, under another incarnation.                         *)
LEMMA ServerReplacedOK ==
    ASSUME IndInv, ServerReplaced
    PROVE  IndInv'
  <1>1. /\ server' = server + 1 /\ server' \in 1 .. MaxServers /\ used' = {}
        /\ tmux' = [n \in Names |-> NoSession] /\ UNCHANGED <<record, born>>
    BY Numbers, IdentityAssumption DEF ServerReplaced, lifeVars
  <1>2. /\ NoSession \in Terminal /\ NoSession.panes = {} /\ IsFiniteSet({})
        /\ NoSession.ref = None /\ None \notin born
    BY FS_EmptySet, NoneIsNone DEF NoSession, Terminal, IndInv, Types, WorldTypes
  <1>3. \A n \in Names : tmux'[n] = NoSession
    BY <1>1
  <1>4. WorldTypes'
    BY <1>1, <1>2 DEF IndInv, Types, WorldTypes
  <1>5. WorldStep
    BY <1>1, <1>2, <1>3, Numbers DEF WorldStep
  <1>6. WorldOK'
    BY <1>1, <1>2, <1>3 DEF IndInv, WorldOK, Live
  <1> QED
    BY <1>1, <1>4, <1>5, <1>6, WorldMoveOK DEF ServerReplaced

(* Tokens go away by themselves or with a login.                           *)
LEMMA TokensGoOK ==
    ASSUME IndInv, tokens' \subseteq tokens,
           UNCHANGED <<tmuxVars, lifeVars, lock, storeVars, minted, presented, cleared, pc, req>>
    PROVE  IndInv'
  <1>1. UNCHANGED <<mu, identity, issued, minted, presented, cleared, lock, pc, req, record>>
    BY DEF storeVars, lifeVars
  <1>2. WorldStep /\ WorldTypes' /\ WorldOK'
    BY WorldQuiet
  <1>3. Types'
    BY <1>1, <1>2 DEF IndInv, Types
  <1>4. Calm(None)
    BY <1>1, <1>2, Numbers DEF Calm
  <1>5. StoreOK' /\ ClearedOK' /\ TokenOK'
    BY <1>1, <1>2, StoreKept, ClearedKept DEF IndInv, TokenOK
  <1> QED
    BY <1>2, <1>3, <1>4, <1>5, StepOK, NoneIsNone

-----------------------------------------------------------------------------
(* What a handler does with the pane                                       *)

LEMMA TmuxControlOK ==
    ASSUME IndInv, NEW r \in Requests, TmuxControlAPI(r)
    PROVE  IndInv'
  <1>1. PICK v : v = req[r]
    OBVIOUS
  <1>2. PICK w : w = [v EXCEPT !.final = TRUE, !.gen = 0, !.handle = 0, !.raw = 0]
    OBVIOUS
  <1>3. /\ pc[r] = "act" /\ Goto(r, "server") /\ req' = [req EXCEPT ![r] = w]
        /\ UNCHANGED <<server, lifeVars, lock, storeVars, tokenVars, cleared>>
        /\ UNCHANGED <<record, mu, identity, issued, minted, tokens, presented>>
        /\ lock' = lock
    BY <1>1, <1>2 DEF TmuxControlAPI, storeVars, tokenVars, lifeVars
  <1>4. WorldTypes' /\ WorldStep /\ WorldOK'
    <2>1. CASE UNCHANGED <<used, tmux>>
      BY <1>3, <2>1, WorldQuiet DEF tmuxVars
    <2>2. CASE \E n \in Names : TopologyChanges(n)
      BY <1>3, <2>2, TopologyOK
    <2> QED
      BY <2>1, <2>2 DEF TmuxControlAPI
  <1>5. v \in Request /\ IsFiniteSet(v.panes)
    BY <1>1 DEF IndInv, Types, ReqOK
  <1>6. /\ w \in Request /\ w.kind = v.kind /\ w.name = v.name /\ w.ref = v.ref
        /\ w.rest = v.rest /\ w.panes = v.panes
    BY <1>2, <1>5 DEF Request
  <1>7. Moved(r) /\ pc'[r] = "server" /\ req'[r] = w
    BY <1>3, <1>6, GotoMoves DEF IndInv, Steps
  <1>8. HasRead(r)' /\ HasKilled(r)'
    BY <1>7 DEF HasRead, HasKilled
  <1>9. ReqOK(r)'
    BY <1>1, <1>3, <1>5, <1>6, <1>7, <1>8, OnwardOK DEF LockedSteps
  <1>10. Types'
    BY <1>3, <1>4, <1>7 DEF IndInv, Types, Moved
  <1>11. Calm(r)
    BY <1>3, <1>4, <1>7, Numbers DEF Calm, Moved
  <1>12. StoreOK' /\ ClearedOK' /\ TokenOK'
    BY <1>3, <1>4, StoreKept, ClearedKept DEF IndInv, TokenOK
  <1> QED
    BY <1>4, <1>9, <1>10, <1>11, <1>12, StepOK

(* A token is created for a session that was not cleared: its creator      *)
(* holds the lock.                                                         *)
LEMMA PasteTokenOK ==
    ASSUME IndInv, NEW r \in Requests, NEW u \in Users, NEW a \in Actions, PasteTokenAPI(r, u, a)
    PROVE  IndInv'
  <1>1. /\ pc[r] = "act" /\ Leave(r) /\ UNCHANGED <<tmuxVars, lifeVars, storeVars, presented, cleared>>
        /\ UNCHANGED <<mu, identity, issued, record>>
    BY DEF PasteTokenAPI, storeVars, lifeVars
  <1>2. CASE UNCHANGED <<minted, tokens>>
    BY <1>1, <1>2, JustLeaveOK DEF tokenVars
  <1>3. CASE CreateToken(r, u, a)
    <2>1. PICK v : v = req[r]
      OBVIOUS
    <2>2. PICK k : k = [user |-> u, ref |-> v.ref, handle |-> v.handle, gen |-> v.gen, action |-> a]
      OBVIOUS
    <2>3. minted' = Append(minted, k) /\ tokens' = tokens \cup {Len(minted) + 1}
      BY <1>3, <2>1, <2>2 DEF CreateToken
    <2>4. /\ v \in Request /\ v.ref \in born /\ v.ref \notin cleared /\ Own(r, v.ref)
      BY <1>1, <2>1 DEF IndInv, Types, ReqOK, HoldsLock, Inside, LockedSteps, Named, Own
    <2>5. k \in Mint /\ k.ref = v.ref
      BY <2>2, <2>4 DEF Mint, Request, IndInv, Types, WorldTypes
    <2>6. /\ minted' \in Seq(Mint) /\ Len(minted') = Len(minted) + 1
          /\ minted'[Len(minted) + 1] = k /\ \A i \in 1 .. Len(minted) : minted'[i] = minted[i]
      BY <2>3, <2>5, AppendProperties DEF IndInv, Types
    <2>7. WorldStep /\ WorldTypes' /\ WorldOK'
      BY <1>1, WorldQuiet
    <2>8. Moved(r) /\ ReqOK(r)'
      BY <1>1, LeaveOK DEF IndInv
    <2>9. Types'
      BY <1>1, <2>6, <2>7, <2>8 DEF IndInv, Types, Moved
    <2>10. \A t \in tokens' : t = Len(minted) + 1 \/ (t \in tokens /\ minted'[t] = minted[t])
      BY <2>3, <2>6 DEF IndInv, TokenOK
    <2>11. Calm(r)
      BY <1>1, <2>4, <2>5, <2>6, <2>7, <2>8, <2>10, Numbers DEF Calm, Moved
    <2>12. TokenOK'
      <3>1. Len(minted) + 1 \notin 1 .. Len(minted)
            /\ 1 .. Len(minted') = (1 .. Len(minted)) \cup {Len(minted) + 1}
        BY <2>6, Numbers
      <3> QED
        BY <1>1, <2>3, <3>1 DEF IndInv, TokenOK
    <2>13. ClearedOK'
      BY <1>1, <2>4, <2>5, <2>6, <2>7, <2>10 DEF IndInv, ClearedOK, ClearedStaysCleared, WorldStep
    <2>14. StoreOK'
      BY <1>1, <2>7, StoreKept
    <2> QED
      BY <2>7, <2>8, <2>9, <2>11, <2>12, <2>13, <2>14, StepOK
  <1> QED
    BY <1>2, <1>3 DEF PasteTokenAPI

(* A presented token is gone, whatever it was for.                         *)
LEMMA PasteOK ==
    ASSUME IndInv, NEW r \in Requests, NEW k \in DOMAIN minted, NEW u, NEW a, PasteAPI(r, k, u, a)
    PROVE  IndInv'
  <1>1. /\ pc[r] = "act" /\ UNCHANGED <<tmuxVars, lifeVars, storeVars, minted, cleared>>
        /\ UNCHANGED <<mu, identity, issued, record>>
        /\ tokens' = tokens \ {k} /\ presented' = presented \cup {k}
    BY DEF PasteAPI, Consume, storeVars, lifeVars
  <1>2. WorldStep /\ WorldTypes' /\ WorldOK'
    BY <1>1, WorldQuiet
  <1>3. k \in 1 .. Len(minted) /\ k \in Nat
    BY LenProperties DEF IndInv, Types
  <1>4. Moved(r) /\ ReqOK(r)'
    <2>1. CASE Leave(r)
      BY <2>1, LeaveOK DEF IndInv
    <2>2. CASE Goto(r, "paste") /\ req' = [req EXCEPT ![r].token = k] /\ UNCHANGED lock
      <3>1. PICK v : v = req[r]
        OBVIOUS
      <3>2. PICK w : w = [v EXCEPT !.token = k]
        OBVIOUS
      <3>3. v \in Request /\ IsFiniteSet(v.panes) /\ v.kind = "locked"
        BY <1>1, <3>1 DEF IndInv, Types, ReqOK, LockedSteps
      <3>4. /\ w \in Request /\ w.kind = v.kind /\ w.name = v.name /\ w.ref = v.ref
            /\ w.rest = v.rest /\ w.panes = v.panes
        BY <1>3, <3>2, <3>3 DEF Request
      <3>5. Moved(r) /\ pc'[r] = "paste" /\ req'[r] = w
        <4>1. req' = [req EXCEPT ![r] = w]
          BY <2>2, <3>1, <3>2
        <4> QED
          BY <2>2, <3>4, <4>1, GotoMoves DEF IndInv, Steps
      <3>6. HasRead(r)' /\ HasKilled(r)'
        BY <3>5 DEF HasRead, HasKilled
      <3>7. ReqOK(r)'
        BY <1>1, <2>2, <3>1, <3>3, <3>4, <3>5, <3>6, OnwardOK
      <3> QED
        BY <3>5, <3>7
    <2> QED
      BY <2>1, <2>2 DEF PasteAPI, Consume
  <1>5. Types'
    BY <1>1, <1>2, <1>4 DEF IndInv, Types, Moved
  <1>6. Calm(r)
    BY <1>1, <1>2, <1>4, Numbers DEF Calm, Moved
  <1>7. StoreOK' /\ ClearedOK' /\ TokenOK'
    BY <1>1, <1>2, <1>3, StoreKept, ClearedKept DEF IndInv, TokenOK
  <1> QED
    BY <1>2, <1>4, <1>5, <1>6, <1>7, StepOK

-----------------------------------------------------------------------------
(* Termination                                                             *)

(* A termination goes on: the request is as it was.                        *)
LEMMA TerminationMoves ==
    ASSUME IndInv, NEW r \in Requests, NEW step \in Steps, Goto(r, step),
           UNCHANGED <<lock, req>>
    PROVE  Moved(r) /\ pc'[r] = step /\ req'[r] = req[r]
  BY DEF IndInv, Types, Goto, Moved

LEMMA TerminationCalm ==
    ASSUME IndInv, NEW r \in Requests, Moved(r), WorldStep, UNCHANGED <<record, issued, minted>>,
           \A s \in DOMAIN identity \ DOMAIN identity' : Own(r, s),
           \A s \in cleared' \ cleared : Own(r, s), tokens' \subseteq tokens
    PROVE  Calm(r)
  <1>1. /\ \A q \in Requests \ {r} : pc'[q] = pc[q] /\ req'[q] = req[q]
        /\ \A n \in Names : lock[n] \notin {r, None} => lock'[n] = lock[n] /\ record'[n] = record[n]
    BY DEF Moved
  <1>2. Len(issued) <= Len(issued') /\ \A i \in 1 .. Len(issued) : issued'[i] = issued[i]
    BY Numbers
  <1> QED
    BY <1>1, <1>2 DEF Calm

LEMMA KillSessionOK ==
    ASSUME IndInv, NEW r \in Requests, KillSession(r)
    PROVE  IndInv'
  <1>1. PICK v : v = req[r]
    OBVIOUS
  <1>2. /\ pc[r] = "kill" /\ tmux' = [tmux EXCEPT ![v.name] = NoSession] /\ Goto(r, "forget tokens")
        /\ UNCHANGED <<server, used, lifeVars>> /\ UNCHANGED <<lock, req, cleared>>
        /\ UNCHANGED <<mu, identity, issued, minted, tokens, presented, record>>
        /\ lock' = lock
    BY <1>1 DEF KillSession, storeVars, tokenVars, lifeVars
  <1>3. v.name \in Names /\ v.kind = "locked" /\ IsFiniteSet(v.panes)
    BY <1>1, <1>2 DEF IndInv, ReqOK, Named, LockedSteps
  <1>4. WorldTypes' /\ WorldStep /\ WorldOK'
    BY <1>2, <1>3, EndedOK
  <1>5. Moved(r) /\ pc'[r] = "forget tokens" /\ req'[r] = v
    BY <1>1, <1>2, TerminationMoves DEF Steps
  <1>6. tmux'[v.name] = NoSession
    BY <1>2, <1>3 DEF IndInv, Types, WorldTypes
  <1>7. HasRead(r)' /\ HasKilled(r)'
    BY <1>5, <1>6 DEF HasRead, HasKilled
  <1>8. ReqOK(r)'
    BY <1>1, <1>2, <1>3, <1>5, <1>7, OnwardOK
  <1>9. Types'
    BY <1>2, <1>4, <1>5 DEF IndInv, Types, Moved
  <1>10. Calm(r)
    BY <1>2, <1>4, <1>5, TerminationCalm
  <1>11. StoreOK' /\ ClearedOK' /\ TokenOK'
    BY <1>2, <1>4, StoreKept, ClearedKept DEF IndInv, TokenOK
  <1> QED
    BY <1>4, <1>8, <1>9, <1>10, <1>11, StepOK

LEMMA ForgetTokensOK ==
    ASSUME IndInv, NEW r \in Requests, ForgetTokens(r)
    PROVE  IndInv'
  <1>1. PICK v : v = req[r]
    OBVIOUS
  <1>2. /\ pc[r] = "forget tokens" /\ Goto(r, "forget identity")
        /\ tokens' = {t \in tokens : minted[t].ref # v.ref}
        /\ UNCHANGED <<tmuxVars, lifeVars>> /\ UNCHANGED <<lock, req, cleared>>
        /\ UNCHANGED <<mu, identity, issued, minted, presented, record, tmux>>
        /\ lock' = lock
    BY <1>1 DEF ForgetTokens, storeVars, lifeVars, tmuxVars
  <1>3. v.kind = "locked" /\ IsFiniteSet(v.panes) /\ tmux[v.name] = NoSession
    BY <1>1, <1>2 DEF IndInv, ReqOK, LockedSteps, HasKilled
  <1>4. WorldTypes' /\ WorldStep /\ WorldOK'
    BY <1>2, WorldQuiet
  <1>5. Moved(r) /\ pc'[r] = "forget identity" /\ req'[r] = v
    BY <1>1, <1>2, TerminationMoves DEF Steps
  <1>6. HasRead(r)' /\ HasKilled(r)'
    BY <1>2, <1>3, <1>5 DEF HasRead, HasKilled
  <1>7. ReqOK(r)'
    BY <1>1, <1>2, <1>3, <1>5, <1>6, OnwardOK
  <1>8. Types'
    BY <1>2, <1>4, <1>5 DEF IndInv, Types, Moved
  <1>9. Calm(r)
    BY <1>2, <1>4, <1>5, TerminationCalm
  <1>10. StoreOK' /\ ClearedOK' /\ TokenOK'
    BY <1>2, <1>4, StoreKept, ClearedKept DEF IndInv, TokenOK
  <1> QED
    BY <1>4, <1>7, <1>8, <1>9, <1>10, StepOK

(* Everyone else who looks for an entry looks for another one.             *)
LEMMA ForgetIdentityOK ==
    ASSUME IndInv, NEW r \in Requests, ForgetIdentity(r)
    PROVE  IndInv'
  <1>1. PICK v : v = req[r]
    OBVIOUS
  <1>2. /\ pc[r] = "forget identity" /\ Goto(r, "remove")
        /\ identity' = [s \in DOMAIN identity \ {v.ref} |-> identity[s]]
        /\ cleared' = cleared \cup {v.ref}
        /\ UNCHANGED <<tmuxVars, lifeVars>> /\ UNCHANGED <<lock, req>>
        /\ UNCHANGED <<mu, issued, minted, tokens, presented, record, born, tmux>>
        /\ lock' = lock
    BY <1>1 DEF ForgetIdentity, tokenVars, lifeVars, tmuxVars
  <1>3. /\ v.kind = "locked" /\ IsFiniteSet(v.panes) /\ tmux[v.name] = NoSession
        /\ v.name \in Names /\ v.ref \in born /\ record[v.name] = v.ref /\ Own(r, v.ref)
        /\ \A t \in tokens : minted[t].ref # v.ref
    <2>1. ReqOK(r)
      BY DEF IndInv
    <2>2. v.kind = "locked" /\ Inside(r) /\ Own(r, v.ref)
      BY <1>1, <1>2, <2>1 DEF ReqOK, LockedSteps, Inside, Own
    <2> QED
      BY <1>1, <1>2, <2>1, <2>2 DEF ReqOK, HasKilled, Named, HoldsLock
  <1>4. WorldTypes' /\ WorldStep /\ WorldOK'
    BY <1>2, WorldQuiet
  <1>5. Moved(r) /\ pc'[r] = "remove" /\ req'[r] = v
    BY <1>1, <1>2, TerminationMoves DEF Steps
  <1>6. HasRead(r)' /\ HasKilled(r)'
    BY <1>2, <1>3, <1>5 DEF HasRead, HasKilled
  <1>7. ReqOK(r)'
    BY <1>1, <1>2, <1>3, <1>5, <1>6, OnwardOK
  <1>8. Types'
    BY <1>2, <1>4, <1>5 DEF IndInv, Types, Moved
  <1>9. Calm(r)
    <2>1. DOMAIN identity' = DOMAIN identity \ {v.ref}
      BY <1>2
    <2>2. cleared' \ cleared \subseteq {v.ref}
      BY <1>2
    <2> QED
      BY <1>2, <1>3, <1>4, <1>5, <2>1, <2>2, TerminationCalm
  <1>10. \A n \in Names : tmux[n].ref # v.ref
    <2>1. v.ref # None
      BY <1>3, NoneIsNone DEF IndInv, Types, WorldTypes
    <2> QED
      BY <1>3, <2>1 DEF IndInv, WorldOK, Live, NoSession
  <1>11. ClearedOK' /\ TokenOK'
    BY <1>2, <1>3, <1>10 DEF IndInv, ClearedOK, ClearedStaysCleared, TokenOK
  <1>12. StoreOK'
    BY <1>2, <1>4, StoreKept
  <1> QED
    BY <1>4, <1>7, <1>8, <1>9, <1>11, <1>12, StepOK

LEMMA RemoveRecordOK ==
    ASSUME IndInv, NEW r \in Requests, RemoveRecord(r)
    PROVE  IndInv'
  <1>1. PICK m : m = req[r].name
    OBVIOUS
  <1>2. /\ pc[r] = "remove" /\ Leave(r) /\ record' = [record EXCEPT ![m] = None]
        /\ UNCHANGED <<tmuxVars, born>>
        /\ UNCHANGED <<mu, identity, issued, minted, tokens, presented, cleared>>
    BY <1>1 DEF RemoveRecord, storeVars, tokenVars
  <1>3. tmux[m] = NoSession /\ lock[m] = r
    BY <1>1, <1>2 DEF IndInv, ReqOK, HasKilled, HoldsLock, Inside, LockedSteps
  <1>4. Moved(r) /\ ReqOK(r)'
    BY <1>2, LeaveOK DEF IndInv
  <1>5. /\ WorldTypes' /\ WorldStep /\ WorldOK'
        /\ \A n \in Names : record'[n] = record[n] \/ n = m
    BY <1>2, <1>3, RecordDropped
  <1>6. Types'
    BY <1>2, <1>4, <1>5 DEF IndInv, Types, Moved
  <1>7. Calm(r)
    BY <1>2, <1>3, <1>4, <1>5, Numbers DEF Calm, Moved
  <1>8. StoreOK' /\ ClearedOK' /\ TokenOK'
    BY <1>2, <1>5, StoreKept, ClearedKept DEF IndInv, TokenOK
  <1> QED
    BY <1>4, <1>5, <1>6, <1>7, <1>8, StepOK

-----------------------------------------------------------------------------
(* The invariant and what it says                                          *)

LEMMA InitOK == Init => IndInv
  <1> SUFFICES ASSUME Init PROVE IndInv
    OBVIOUS
  <1>1. NoSession \in Terminal /\ NoSession.panes = {} /\ NoSession.ref = None
    BY DEF NoSession, Terminal
  <1>2. Types
    BY <1>1, NoReqType, IdentityAssumption, EmptySeq DEF Init, Types, WorldTypes, Steps
  <1>3. WorldOK
    BY <1>1, FS_EmptySet DEF Init, WorldOK, Live
  <1>4. StoreOK /\ TokenOK /\ ClearedOK
    BY DEF Init, StoreOK, TokenOK, ClearedOK, ClearedStaysCleared
  <1>5. ASSUME NEW q \in Requests PROVE ReqOK(q)
    <2>1. pc[q] = "idle" /\ req[q] = NoReq
      BY DEF Init
    <2>2. IsFiniteSet(NoReq.panes) /\ NoReq.rest = {} /\ NoReq.kind = "list"
      BY FS_EmptySet DEF NoReq
    <2> QED
      BY <2>1, <2>2 DEF ReqOK, HoldsLock, Inside, HasRead, HasKilled, LockedSteps
  <1> QED
    BY <1>2, <1>3, <1>4, <1>5 DEF IndInv

LEMMA StepsOK ==
    ASSUME IndInv, NEW r \in Requests, Step(r)
    PROVE  IndInv'
  <1>1. CASE Enter(r)
    BY <1>1, EnterOK
  <1>2. CASE EnterRefused(r)
    BY <1>2, EnterRefusedOK
  <1>3. CASE CommandFails(r)
    BY <1>3, FailOK DEF CommandFails
  <1>4. CASE ReadServer(r)
    BY <1>4, ReadServerOK
  <1>5. CASE ListPanes(r)
    BY <1>5, ListPanesOK
  <1>6. CASE Apply(r)
    BY <1>6, ApplyOK
  <1>7. CASE Lookup(r)
    BY <1>7, LookupOK
  <1>8. CASE LookupPanics(r)
    BY <1>8, LookupPanicsOK
  <1>9. CASE VerifyPane(r)
    BY <1>9, VerifyPaneOK
  <1>10. CASE KeysAPI(r)
    BY <1>10, JustLeaveOK DEF KeysAPI
  <1>11. CASE TmuxControlAPI(r)
    BY <1>11, TmuxControlOK
  <1>12. CASE \E u \in Users, a \in Actions : PasteTokenAPI(r, u, a)
    BY <1>12, PasteTokenOK
  <1>13. CASE \E u \in Users, a \in Actions : \E t \in DOMAIN minted : PasteAPI(r, t, u, a)
    BY <1>13, PasteOK
  <1>14. CASE Paste(r)
    BY <1>14, JustLeaveOK DEF Paste
  <1>15. CASE KillSession(r)
    BY <1>15, KillSessionOK
  <1>16. CASE ForgetTokens(r)
    BY <1>16, ForgetTokensOK
  <1>17. CASE ForgetIdentity(r)
    BY <1>17, ForgetIdentityOK
  <1>18. CASE RemoveRecord(r)
    BY <1>18, RemoveRecordOK
  <1> QED
    BY <1>1, <1>2, <1>3, <1>4, <1>5, <1>6, <1>7, <1>8, <1>9, <1>10, <1>11, <1>12, <1>13,
       <1>14, <1>15, <1>16, <1>17, <1>18 DEF Step

LEMMA EnvironmentOK ==
    ASSUME IndInv, Environment
    PROVE  IndInv'
  <1>1. CASE \E n \in Names : CreateSession(n)
    BY <1>1, CreateSessionOK
  <1>2. CASE \E n \in Names : Reconcile(n)
    BY <1>2, ReconcileOK
  <1>3. CASE \E n \in Names : TerminalUse(n)
    BY <1>3, TerminalUseOK
  <1>4. CASE ServerReplaced
    BY <1>4, ServerReplacedOK
  <1>5. CASE \E t \in tokens : TokenExpires(t)
    BY <1>5, TokensGoOK DEF TokenExpires
  <1>6. CASE \E u \in Users : Logout(u)
    BY <1>6, TokensGoOK DEF Logout
  <1> QED
    BY <1>1, <1>2, <1>3, <1>4, <1>5, <1>6 DEF Environment

LEMMA NextOK == IndInv /\ [Next]_vars => IndInv'
  <1> SUFFICES ASSUME IndInv, [Next]_vars PROVE IndInv'
    OBVIOUS
  <1>1. CASE \E r \in Requests : \E kind \in Kinds, n \in Names : Find(r, kind, n)
    BY <1>1, FindOK
  <1>2. CASE \E r \in Requests : StartList(r)
    BY <1>2, StartListOK
  <1>3. CASE \E r \in Requests : EnterFails(r)
    BY <1>3, JustLeaveOK DEF EnterFails
  <1>4. CASE \E r \in Requests : Step(r)
    BY <1>4, StepsOK
  <1>5. CASE Environment
    BY <1>5, EnvironmentOK
  <1>6. CASE UNCHANGED vars
    BY <1>6, TokensGoOK DEF vars, tokenVars
  <1> QED
    BY <1>1, <1>2, <1>3, <1>4, <1>5, <1>6 DEF Next

(* The invariant holds in every state of every behaviour: what update,     *)
(* resolvePane, the token manager and the session lock rely on.            *)
THEOREM Always == Spec => []IndInv
  BY InitOK, NextOK, PTL DEF Spec

(* A handle means one pane for ever, and who holds the session lock finds  *)
(* the entry its refresh left (identity.go, update and resolvePane).       *)
THEOREM StoreSound == Spec => []StoreIsSound
  <1>1. IndInv => StoreIsSound
    <2> SUFFICES ASSUME IndInv PROVE StoreIsSound
      OBVIOUS
    <2>1. TypeOK
      <3>1. \A n \in Names : tmux[n].ref \in Refs \cup {None} /\ tmux[n].panes \subseteq used
        BY DEF IndInv, Types, WorldTypes, WorldOK, Terminal
      <3>2. \A r \in Requests : req[r].kind \in Kinds /\ req[r].ref \in born \cup {None}
        <4> SUFFICES ASSUME NEW r \in Requests
                     PROVE  req[r].kind \in Kinds /\ req[r].ref \in born \cup {None}
          OBVIOUS
        <4>1. req[r] \in Request /\ ReqOK(r)
          BY DEF IndInv, Types
        <4> QED
          BY <4>1 DEF Request, ReqOK, Named, NoReq
      <3> QED
        BY <3>1, <3>2 DEF TypeOK, IndInv, Types, WorldTypes, StoreOK, TokenOK, ClearedOK
    <2>2. HandleMeansOnePane
      BY DEF IndInv, StoreOK, HandleMeansOnePane
    <2>3. LockedLookupFinds
      BY DEF IndInv, ReqOK, HasRead, LockedLookupFinds
    <2> QED
      BY <2>1, <2>2, <2>3 DEF StoreIsSound
  <1> QED
    BY <1>1, Always, PTL

(* The pane that passes the generation check is the one the handle was     *)
(* issued for, and it runs in the session the request has locked.          *)
LEMMA VerifiedIsIssued ==
    ASSUME IndInv, NEW r \in Requests, GenerationHolds(r), req[r].kind = "locked", pc[r] = "verify"
    PROVE  /\ issued[req[r].handle].ref = req[r].ref /\ issued[req[r].handle].gen = server
           /\ tmux[req[r].name].ref = req[r].ref
           /\ issued[req[r].handle].raw \in tmux[req[r].name].panes
  <1>1. ReqOK(r) /\ Inside(r)
    BY DEF IndInv, Inside
  <1>2. /\ issued[req[r].handle] = [ref |-> req[r].ref, raw |-> req[r].raw, gen |-> req[r].gen]
        /\ BelongsTo(req[r].ref, req[r].gen, req[r].raw)
        /\ record[req[r].name] = req[r].ref /\ req[r].name \in Names /\ req[r].ref \in born
    BY <1>1 DEF ReqOK, HasRead, HoldsLock, Named
  <1>3. ~Dead(req[r].ref) /\ server = req[r].gen
    BY <1>2 DEF Dead, GenerationHolds
  <1>4. PICK n \in Names : req[r].raw \in tmux[n].panes
    BY DEF GenerationHolds
  <1>5. tmux[n].ref = req[r].ref /\ tmux[n] # NoSession
    BY <1>2, <1>3, <1>4 DEF BelongsTo, NoSession
  <1>6. n = req[r].name
    BY <1>2, <1>5, <1>1 DEF IndInv, WorldOK, Live, ReqOK, Named
  <1> QED
    BY <1>2, <1>3, <1>4, <1>5, <1>6

-----------------------------------------------------------------------------
(* Who goes where: the only ways to a mutation and to a paste              *)

GoesTo(q, S) == \E step \in S : pc' = [pc EXCEPT ![q] = step]

LEMMA ListGoes ==
    ASSUME NEW q, NEW rest, NextListed(q, rest)
    PROVE  GoesTo(q, {"idle", "server"})
  BY DEF NextListed, Leave, Goto, GoesTo

Harmless == Steps \ {"act", "kill", "paste"}

LEMMA RequestGoes ==
    ASSUME NEW q \in Requests,
           \/ \E kind \in Kinds, n \in Names : Find(q, kind, n)
           \/ StartList(q) \/ EnterFails(q) \/ Step(q)
    PROVE  \/ GoesTo(q, Harmless)
           \/ VerifyPane(q) /\ GenerationHolds(q) /\ req[q].kind = "locked" /\ GoesTo(q, {"act", "kill"})
           \/ /\ GoesTo(q, {"paste"})
              /\ \E u \in Users, a \in Actions, t \in DOMAIN minted :
                   /\ PasteAPI(q, t, u, a) /\ t \in tokens /\ Matches(q, t, u, a)
                   /\ req' = [req EXCEPT ![q].token = t]
  <1> USE DEF GoesTo, Harmless, Steps
  <1>1. CASE \E kind \in Kinds, n \in Names : Find(q, kind, n)
    BY <1>1 DEF Find, Goto
  <1>2. CASE StartList(q)
    BY <1>2, ListGoes DEF StartList
  <1>3. CASE EnterFails(q) \/ EnterRefused(q) \/ LookupPanics(q) \/ KeysAPI(q) \/ Paste(q)
             \/ RemoveRecord(q)
    BY <1>3 DEF EnterFails, EnterRefused, LookupPanics, KeysAPI, Paste, RemoveRecord, Leave, Goto
  <1>4. CASE Enter(q) \/ ReadServer(q) \/ ListPanes(q) \/ TmuxControlAPI(q) \/ KillSession(q)
             \/ ForgetTokens(q) \/ ForgetIdentity(q)
    BY <1>4 DEF Enter, ReadServer, ListPanes, TmuxControlAPI, KillSession, ForgetTokens,
                ForgetIdentity, Goto
  <1>5. CASE CommandFails(q)
    BY <1>5, ListGoes DEF CommandFails, Fail, Leave, Goto
  <1>6. CASE Apply(q)
    BY <1>6, ListGoes DEF Apply, Leave, Goto
  <1>7. CASE Lookup(q)
    BY <1>7 DEF Lookup, Leave, Goto
  <1>8. CASE VerifyPane(q)
    BY <1>8 DEF VerifyPane, Leave, Goto
  <1>9. CASE \E u \in Users, a \in Actions : PasteTokenAPI(q, u, a)
    BY <1>9 DEF PasteTokenAPI, Leave, Goto
  <1>10. CASE \E u \in Users, a \in Actions, t \in DOMAIN minted : PasteAPI(q, t, u, a)
    BY <1>10 DEF PasteAPI, Consume, Leave, Goto
  <1> QED
    BY <1>1, <1>2, <1>3, <1>4, <1>5, <1>6, <1>7, <1>8, <1>9, <1>10 DEF Step

LEMMA EnvironmentGoes ==
    ASSUME Environment PROVE pc' = pc
  BY DEF Environment, CreateSession, Reconcile, TerminalUse, ServerReplaced, TokenExpires, Logout

LEMMA ToTheMutation ==
    ASSUME IndInv, [Next]_vars, NEW r \in Requests, pc[r] = "verify", pc'[r] \in {"act", "kill"}
    PROVE  GenerationHolds(r) /\ req[r].kind = "locked"
  <1>1. pc \in [Requests -> Steps]
    BY DEF IndInv, Types
  <1>2. pc' # pc
    BY <1>1
  <1>3. ~Environment /\ ~UNCHANGED vars
    BY <1>2, EnvironmentGoes DEF vars
  <1>4. PICK q \in Requests : \/ \E kind \in Kinds, n \in Names : Find(q, kind, n)
                              \/ StartList(q) \/ EnterFails(q) \/ Step(q)
    BY <1>3 DEF Next
  <1> QED
    BY <1>1, <1>4, RequestGoes DEF GoesTo, Harmless

LEMMA ToThePaste ==
    ASSUME IndInv, [Next]_vars, NEW r \in Requests, pc[r] # "paste", pc'[r] = "paste"
    PROVE  \E u \in Users, a \in Actions, t \in DOMAIN minted :
             /\ PasteAPI(r, t, u, a) /\ t \in tokens /\ Matches(r, t, u, a)
             /\ req' = [req EXCEPT ![r].token = t]
  <1>1. pc \in [Requests -> Steps]
    BY DEF IndInv, Types
  <1>2. pc' # pc
    BY <1>1
  <1>3. ~Environment /\ ~UNCHANGED vars
    BY <1>2, EnvironmentGoes DEF vars
  <1>4. PICK q \in Requests : \/ \E kind \in Kinds, n \in Names : Find(q, kind, n)
                              \/ StartList(q) \/ EnterFails(q) \/ Step(q)
    BY <1>3 DEF Next
  <1> QED
    BY <1>1, <1>4, RequestGoes DEF GoesTo, Harmless

(* VerifyPaneGeneration lets a mutation or termination through only to the *)
(* pane its handle was issued for, in the session it has locked.           *)
THEOREM MutatesIssued == Spec => MutatesIssuedPane
  <1>1. IndInv /\ [Next]_vars => [\A r \in Requests :
          pc[r] = "verify" /\ pc'[r] \in {"act", "kill"} =>
            LET i == issued[req[r].handle] IN
            /\ i.ref = req[r].ref /\ i.gen = server
            /\ tmux[req[r].name].ref = req[r].ref
            /\ i.raw \in tmux[req[r].name].panes]_vars
    BY ToTheMutation, VerifiedIsIssued
  <1> QED
    BY <1>1, Always, PTL DEF Spec, MutatesIssuedPane

(* A paste token is used once and never after its session was cleared      *)
(* (paste_tokens.go, Consume and DeleteSession).                           *)
THEOREM TokensSafe == Spec => TokensAreSafe
  <1>1. IndInv' => ClearedStaysCleared'
    BY DEF IndInv, ClearedOK
  <1>2. ASSUME IndInv, [Next]_vars PROVE PasteOnce
    <2> SUFFICES ASSUME NEW r \in Requests, pc[r] # "paste", pc'[r] = "paste"
                 PROVE  LET t == req'[r].token IN
                        /\ t \notin presented /\ t \in tokens
                        /\ [ref |-> minted[t].ref, raw |-> req[r].raw, gen |-> minted[t].gen] =
                              issued[req[r].handle]
      BY DEF PasteOnce
    <2>1. PICK u \in Users, a \in Actions, t \in DOMAIN minted :
            /\ PasteAPI(r, t, u, a) /\ t \in tokens /\ Matches(r, t, u, a)
            /\ req' = [req EXCEPT ![r].token = t]
      BY <1>2, ToThePaste
    <2>2. pc[r] = "act" /\ req[r] \in Request
      BY <1>2, <2>1 DEF PasteAPI, IndInv, Types
    <2>3. req'[r].token = t
      BY <1>2, <2>1, <2>2 DEF IndInv, Types, Request
    <2>4. issued[req[r].handle] = [ref |-> req[r].ref, raw |-> req[r].raw, gen |-> req[r].gen]
      BY <1>2, <2>2 DEF IndInv, ReqOK, HasRead
    <2>5. t \notin presented
      BY <1>2, <2>1 DEF IndInv, TokenOK
    <2> QED
      BY <2>1, <2>3, <2>4, <2>5 DEF Matches
  <1>3. IndInv /\ IndInv' /\ [Next]_vars => [ClearedStaysCleared' /\ PasteOnce]_vars
    BY <1>1, <1>2
  <1> QED
    BY <1>3, Always, PTL DEF Spec, TokensAreSafe
=============================================================================
