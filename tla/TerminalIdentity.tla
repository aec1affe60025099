-------------------------- MODULE TerminalIdentity --------------------------
(***************************************************************************)
(* The opaque pane handles of the web API (identity.go) and the paste      *)
(* tokens bound to them (paste_tokens.go), under the handlers of server.go *)
(* that resolve a handle before they touch a terminal, and the unlocked    *)
(* readers (session list, History pages) that share the table.             *)
(*                                                                         *)
(* A step is one tmux command, one critical section of the store's mutex,  *)
(* or one table call.  tmux runs beside the server: panes open, close and  *)
(* change, sessions exit, and its server may be replaced by one that       *)
(* counts pane ids from the start again.  The lifecycle operations that    *)
(* SessionLifecycle models in detail are one step each here.  Windows have *)
(* handles of the same kind, without a generation; they are left out.      *)
(***************************************************************************)
EXTENDS Naturals, Sequences, FiniteSets

CONSTANTS
    Requests,           \* goroutines that serve HTTP requests
    Names, Refs,        \* canonical names, public session references
    RawPanes,           \* raw tmux pane numbers, drawn in ascending order
    Users, Actions,     \* login scopes; staged texts with their metadata
    None,
    PerUser,            \* paste tokens a login may hold
    MaxServers, MaxHandles, MaxTokens   \* bounds of the model

ASSUME IdentityAssumption ==
    /\ RawPanes \subseteq Nat
    /\ None \notin Requests \cup Refs \cup Names
    /\ {PerUser, MaxServers, MaxHandles, MaxTokens} \subseteq Nat /\ MaxServers # 0

VARIABLES
    server,     \* incarnation of the tmux server: its start time and pid
    used,       \* pane ids the incarnation has given out
    tmux,       \* the running session of each name
    record,     \* the registry: public reference of each name, or None
    born,       \* public references given out
    lock,       \* holder of the lifecycle lock of each name
    mu,         \* the request that left identityStore.mu locked, or None
    identity,   \* the store: reference -> raw pane -> binding
    issued,     \* what each handle was issued for; handles are its indices
    minted,     \* what each paste token was created for
    tokens,     \* the tokens in the table
    presented,  \* the tokens some paste request has presented
    cleared,    \* references whose termination ran the cleanup
    pc, req

tmuxVars == <<server, used, tmux>>
lifeVars == <<record, born>>
storeVars == <<mu, identity, issued>>
tokenVars == <<minted, tokens, presented>>
vars == <<tmuxVars, lifeVars, lock, storeVars, tokenVars, cleared, pc, req>>

NoSession == [ref |-> None, panes |-> {}, active |-> 0]
Binding == [handle: Nat, gen: Nat, active: BOOLEAN]

(* The kinds of request.  The handlers that mutate a terminal or terminate *)
(* its session run under the session lock ("locked") and differ only in    *)
(* what they do once the pane is resolved.                                 *)
Kinds == {"locked", "page", "list"}

Steps == {"idle", "enter", "server", "panes", "apply", "lookup", "verify",
          "act", "paste", "kill", "forget tokens", "forget identity", "remove"}

NoReq == [kind |-> "list", name |-> None, ref |-> None,
          rest |-> {}, final |-> FALSE, gen |-> 0, panes |-> {}, active |-> 0,
          handle |-> 0, raw |-> 0, token |-> 0]

TypeOK ==
    /\ server \in 1..MaxServers /\ used \subseteq RawPanes
    /\ \A n \in Names : tmux[n].ref \in Refs \cup {None} /\ tmux[n].panes \subseteq used
    /\ record \in [Names -> Refs \cup {None}] /\ born \subseteq Refs
    /\ lock \in [Names -> Requests \cup {None}] /\ mu \in Requests \cup {None}
    /\ DOMAIN identity \subseteq born /\ cleared \subseteq born
    /\ \A s \in DOMAIN identity : \A raw \in DOMAIN identity[s] :
         /\ identity[s][raw] \in Binding
         /\ identity[s][raw].handle \in 1..Len(issued)
    /\ tokens \subseteq 1..Len(minted) /\ presented \subseteq 1..Len(minted)
    /\ pc \in [Requests -> Steps]
    /\ \A r \in Requests : req[r].kind \in Kinds /\ req[r].ref \in born \cup {None}

Init ==
    /\ server = 1 /\ used = {} /\ tmux = [n \in Names |-> NoSession]
    /\ record = [n \in Names |-> None] /\ born = {}
    /\ lock = [n \in Names |-> None]
    /\ mu = None /\ identity = <<>> /\ issued = <<>>
    /\ minted = <<>> /\ tokens = {} /\ presented = {}
    /\ cleared = {}
    /\ pc = [r \in Requests |-> "idle"]
    /\ req = [r \in Requests |-> NoReq]

Live(n) == tmux[n] # NoSession
Session(r) == tmux[req[r].name]

Goto(r, step) == pc' = [pc EXCEPT ![r] = step]

Unlock(r) == lock' = [n \in Names |-> IF lock[n] = r THEN None ELSE lock[n]]

(* The handler returns; the deferred Close of the session lock runs.       *)
Leave(r) == Goto(r, "idle") /\ req' = [req EXCEPT ![r] = NoReq] /\ Unlock(r)

-----------------------------------------------------------------------------
(* tmux and the lifecycle around the server                                *)

Recorded == {n \in Names : record[n] # None}

(* tmux numbers panes upwards: p is the next id of the incarnation.        *)
FreshPane(p) == p \in RawPanes \ used /\ \A q \in RawPanes \ used : p <= q

(* CreateOrSelect of a name that has no record and no session.             *)
CreateSession(n) ==
    /\ lock[n] = None /\ record[n] = None /\ ~Live(n)
    /\ Refs \ born # {}
    /\ \E p \in RawPanes :
         LET ref == CHOOSE s \in Refs : s \notin born IN
         /\ FreshPane(p)
         /\ record' = [record EXCEPT ![n] = ref]
         /\ born' = born \cup {ref}
         /\ tmux' = [tmux EXCEPT ![n] = [ref |-> ref, panes |-> {p}, active |-> p]]
         /\ used' = used \cup {p}
    /\ UNCHANGED <<server, lock, storeVars, tokenVars, cleared, pc, req>>

(* Reconciliation drops the record of a session that has exited; it knows  *)
(* nothing of the tables of the web server.                                *)
Reconcile(n) ==
    /\ lock[n] = None /\ record[n] # None /\ ~Live(n)
    /\ record' = [record EXCEPT ![n] = None]
    /\ UNCHANGED <<tmuxVars, born, lock, storeVars, tokenVars, cleared, pc, req>>

(* What a tmux command or the user in the terminal does to a session: a    *)
(* new pane, another active pane, a closed pane; the last one ends it.     *)
OpenPane(n) ==
    /\ Live(n)
    /\ \E p \in RawPanes :
         /\ FreshPane(p)
         /\ tmux' = [tmux EXCEPT ![n].panes = @ \cup {p}, ![n].active = p]
         /\ used' = used \cup {p}

SelectPane(n) ==
    /\ \E p \in tmux[n].panes \ {tmux[n].active} :
         tmux' = [tmux EXCEPT ![n].active = p]
    /\ UNCHANGED used

ClosePane(n) ==
    /\ \E p \in tmux[n].panes :
         \/ /\ tmux[n].panes = {p}
            /\ tmux' = [tmux EXCEPT ![n] = NoSession]
         \/ \E q \in tmux[n].panes \ {p} :
              /\ tmux[n].active \in {p, q}
              /\ tmux' = [tmux EXCEPT ![n].panes = @ \ {p}, ![n].active = q]
    /\ UNCHANGED used

TopologyChanges(n) == OpenPane(n) \/ SelectPane(n) \/ ClosePane(n)

TerminalUse(n) ==
    /\ TopologyChanges(n)
    /\ UNCHANGED <<server, lifeVars, lock, storeVars, tokenVars, cleared, pc, req>>

(* The tmux server goes down and a later command starts another.           *)
ServerReplaced ==
    /\ server < MaxServers
    /\ server' = server + 1 /\ used' = {}
    /\ tmux' = [n \in Names |-> NoSession]
    /\ UNCHANGED <<lifeVars, lock, storeVars, tokenVars, cleared, pc, req>>

(* Every method of the token manager first removes what has expired, so a  *)
(* token is gone from the moment its time is over.                         *)
TokenExpires(t) ==
    /\ tokens' = tokens \ {t}
    /\ UNCHANGED <<tmuxVars, lifeVars, lock, storeVars, minted, presented, cleared, pc, req>>

-----------------------------------------------------------------------------
(* A request finds its session and takes its lock                          *)

(* findPublicSession: List takes and releases the lock of every name.      *)
Find(r, kind, n) ==
    /\ pc[r] = "idle" /\ kind # "list"
    /\ lock[n] = None /\ record[n] # None /\ Live(n)
    /\ Goto(r, IF kind = "locked" THEN "enter" ELSE "server")
    /\ req' = [req EXCEPT ![r] = [NoReq EXCEPT !.kind = kind, !.name = n, !.ref = record[n]]]
    /\ UNCHANGED <<tmuxVars, lifeVars, lock, storeVars, tokenVars, cleared>>

(* The next session of a list, or the answer.                              *)
NextListed(r, rest) ==
    IF rest = {} THEN Leave(r)
    ELSE \E x \in rest :
           /\ Goto(r, "server")
           /\ req' = [req EXCEPT ![r] = [NoReq EXCEPT
                        !.name = x[1], !.ref = x[2], !.rest = rest \ {x}]]
           /\ UNCHANGED lock

(* handleListSessions works on the records List returned.                  *)
StartList(r) ==
    /\ pc[r] = "idle" /\ Recorded # {}
    /\ \A n \in Recorded : lock[n] = None
    /\ NextListed(r, {<<n, record[n]>> : n \in {m \in Recorded : Live(m)}})
    /\ UNCHANGED <<tmuxVars, lifeVars, storeVars, tokenVars, cleared>>

(* WithSession and TerminateChecked: the lock, then the record again.      *)
Enter(r) ==
    /\ pc[r] = "enter" /\ lock[req[r].name] = None
    /\ record[req[r].name] = req[r].ref
    /\ Session(r) # NoSession
    /\ lock' = [lock EXCEPT ![req[r].name] = r]
    /\ Goto(r, "server")
    /\ UNCHANGED <<tmuxVars, lifeVars, storeVars, tokenVars, cleared, req>>

(* The record is gone or belongs to a replacement; WithSession also cleans *)
(* up a session that has exited.                                           *)
EnterRefused(r) ==
    /\ pc[r] = "enter" /\ lock[req[r].name] = None
    /\ record[req[r].name] # req[r].ref \/ Session(r) = NoSession
    /\ Leave(r)
    /\ record' = IF Session(r) = NoSession
                 THEN [record EXCEPT ![req[r].name] = None] ELSE record
    /\ UNCHANGED <<tmuxVars, born, storeVars, tokenVars, cleared>>

(* The request is cancelled while it waits, or the read or probe fails, or *)
(* a termination finds the session gone when it reads the topology.        *)
EnterFails(r) ==
    /\ pc[r] = "enter"
    /\ Leave(r)
    /\ UNCHANGED <<tmuxVars, lifeVars, storeVars, tokenVars, cleared>>

-----------------------------------------------------------------------------
(* The handle is resolved                                                  *)

(* A list skips a session whose topology cannot be read.                   *)
Fail(r) ==
    /\ IF req[r].kind = "list" THEN NextListed(r, req[r].rest) ELSE Leave(r)
    /\ UNCHANGED <<tmuxVars, lifeVars, storeVars, tokenVars, cleared>>

(* A tmux command may fail, or its request be cancelled, at any time.      *)
CommandFails(r) ==
    /\ pc[r] \in {"server", "panes", "verify", "act", "paste", "kill", "remove"}
    /\ Fail(r)

(* Topology, first command: the incarnation of the server.                 *)
ReadServer(r) ==
    /\ pc[r] = "server" /\ Session(r) # NoSession
    /\ Goto(r, "panes")
    /\ req' = [req EXCEPT ![r].gen = server]
    /\ UNCHANGED <<tmuxVars, lifeVars, lock, storeVars, tokenVars, cleared>>

(* Topology, second command: the panes of whatever bears the name now.     *)
ListPanes(r) ==
    /\ pc[r] = "panes" /\ Session(r) # NoSession
    /\ Goto(r, "apply")
    /\ req' = [req EXCEPT ![r].panes = Session(r).panes, ![r].active = Session(r).active]
    /\ UNCHANGED <<tmuxVars, lifeVars, lock, storeVars, tokenVars, cleared>>

Bindings(s) == IF s \in DOMAIN identity THEN identity[s] ELSE <<>>

(* A pane id that is bound keeps its handle, whatever the generation.      *)
KeepsById(old, raw, gen) == raw \in DOMAIN old

(* A bound pane keeps its handle while its generation is the same.         *)
Keeps(old, raw, gen) == raw \in DOMAIN old /\ old[raw].gen = gen

(* newOpaqueRuntimeRef: a handle nobody was given before.                  *)
NewHandle(fresh, raw) == Len(issued) + Cardinality({x \in fresh : x <= raw})

(* refresh under the mutex: the topology read before becomes the entry,    *)
(* panes it does not name lose their handles, new ones get fresh handles.  *)
Update(r) ==
    LET old == Bindings(req[r].ref)
        fresh == {raw \in req[r].panes : ~Keeps(old, raw, req[r].gen)}
        HandleOf(raw) == IF raw \in fresh THEN NewHandle(fresh, raw) ELSE old[raw].handle
    IN  /\ Len(issued) + Cardinality(fresh) <= MaxHandles
        /\ issued' = issued \o [i \in 1..Cardinality(fresh) |->
               [ref |-> req[r].ref, gen |-> req[r].gen,
                raw |-> CHOOSE raw \in fresh : Cardinality({x \in fresh : x <= raw}) = i]]
        /\ identity' = [s \in DOMAIN identity \cup {req[r].ref} |->
               IF s # req[r].ref THEN identity[s]
               ELSE [raw \in req[r].panes |->
                       [handle |-> HandleOf(raw), gen |-> req[r].gen,
                        active |-> raw = req[r].active]]]

(* A list goes on with its next session; a locked request that only reads  *)
(* the topology (GET of tmux-control and resize), or has acted, answers.   *)
Apply(r) ==
    /\ pc[r] = "apply" /\ mu = None
    /\ Update(r)
    /\ \/ req[r].kind = "list" /\ NextListed(r, req[r].rest)
       \/ req[r].kind = "locked" /\ Leave(r)
       \/ /\ req[r].kind # "list" /\ ~req[r].final
          /\ Goto(r, "lookup") /\ UNCHANGED lock
          /\ req' = [req EXCEPT ![r] = [@ EXCEPT !.gen = 0, !.panes = {}, !.active = 0]]
    /\ UNCHANGED <<tmuxVars, lifeVars, mu, tokenVars, cleared>>

(* resolvePane reads the entry in a second critical section.  A handle     *)
(* that is not there, or not active where a mutation needs it, is stale.   *)
Lookup(r) ==
    /\ pc[r] = "lookup" /\ mu = None
    /\ req[r].ref \in DOMAIN identity
    /\ \/ Leave(r)
       \/ \E raw \in DOMAIN identity[req[r].ref] :
            LET b == identity[req[r].ref][raw] IN
            /\ b.active \/ req[r].kind = "page"
            /\ Goto(r, "verify")
            /\ req' = [req EXCEPT ![r] = [@ EXCEPT !.handle = b.handle, !.raw = raw,
                         !.gen = b.gen]]
            /\ UNCHANGED lock
    /\ UNCHANGED <<tmuxVars, lifeVars, storeVars, tokenVars, cleared>>

(* The entry is gone: the nil entry is dereferenced between Lock and       *)
(* Unlock, ServeHTTP recovers and answers 500, and the mutex stays locked. *)
LookupPanics(r) ==
    /\ pc[r] = "lookup" /\ mu = None
    /\ req[r].ref \notin DOMAIN identity
    /\ mu' = r
    /\ Leave(r)
    /\ UNCHANGED <<tmuxVars, lifeVars, identity, issued, tokenVars, cleared>>

(* Only the pane id is compared.                                           *)
GenerationById(r) == \E n \in Names : req[r].raw \in tmux[n].panes

(* VerifyPaneGeneration: the server that has this pane id is the one the   *)
(* binding was made under.                                                 *)
GenerationHolds(r) ==
    /\ \E n \in Names : req[r].raw \in tmux[n].panes
    /\ server = req[r].gen

VerifyPane(r) ==
    /\ pc[r] = "verify"
    /\ IF GenerationHolds(r) /\ req[r].kind = "locked"
       THEN (Goto(r, "act") \/ Goto(r, "kill")) /\ UNCHANGED <<req, lock>>
       ELSE Leave(r)
    /\ UNCHANGED <<tmuxVars, lifeVars, storeVars, tokenVars, cleared>>

-----------------------------------------------------------------------------
(* What the handlers do with the pane                                      *)

(* send-keys, a window option or a capture: nothing of this module changes. *)
KeysAPI(r) ==
    /\ pc[r] = "act"
    /\ Leave(r)
    /\ UNCHANGED <<tmuxVars, lifeVars, storeVars, tokenVars, cleared>>

(* The action runs on the raw pane id; the handler then refreshes the      *)
(* topology for its answer.                                                *)
TmuxControlAPI(r) ==
    /\ pc[r] = "act"
    /\ \/ \E n \in Names : req[r].raw \in tmux[n].panes /\ TopologyChanges(n)
       \/ UNCHANGED <<used, tmux>>
    /\ Goto(r, "server")
    /\ req' = [req EXCEPT ![r] = [@ EXCEPT !.final = TRUE, !.gen = 0, !.handle = 0, !.raw = 0]]
    /\ UNCHANGED <<server, lifeVars, lock, storeVars, tokenVars, cleared>>

(* Create counts what the login holds and stores the binding.              *)
CreateToken(r, u, a) ==
    /\ Cardinality({t \in tokens : minted[t].user = u}) < PerUser
    /\ Len(minted) < MaxTokens
    /\ minted' = Append(minted, [user |-> u, ref |-> req[r].ref,
         handle |-> req[r].handle, gen |-> req[r].gen, action |-> a])
    /\ tokens' = tokens \cup {Len(minted) + 1}

(* The token is refused when the login holds its share or the metadata of  *)
(* the text is not valid.                                                  *)
PasteTokenAPI(r, u, a) ==
    /\ pc[r] = "act"
    /\ CreateToken(r, u, a) \/ UNCHANGED <<minted, tokens>>
    /\ Leave(r)
    /\ UNCHANGED <<tmuxVars, lifeVars, storeVars, presented, cleared>>

(* The binding stored with the token is the one of the request: its login, *)
(* session, handle, generation and text.                                   *)
Matches(r, t, u, a) ==
    /\ minted[t].user = u /\ minted[t].ref = req[r].ref
    /\ minted[t].handle = req[r].handle /\ minted[t].gen = req[r].gen
    /\ minted[t].action = a

(* A token that does not match stays in the table.                         *)
ConsumeMatching(r, t, u, a) ==
    /\ tokens' = IF Matches(r, t, u, a) THEN tokens \ {t} ELSE tokens
    /\ presented' = presented \cup {t}
    /\ IF t \in tokens /\ Matches(r, t, u, a)
       THEN Goto(r, "paste") /\ req' = [req EXCEPT ![r].token = t] /\ UNCHANGED lock
       ELSE Leave(r)

(* Consume removes the token before it looks at the binding.               *)
Consume(r, t, u, a) ==
    /\ tokens' = tokens \ {t}
    /\ presented' = presented \cup {t}
    /\ IF t \in tokens /\ Matches(r, t, u, a)
       THEN Goto(r, "paste") /\ req' = [req EXCEPT ![r].token = t] /\ UNCHANGED lock
       ELSE Leave(r)

PasteAPI(r, t, u, a) ==
    /\ pc[r] = "act"
    /\ Consume(r, t, u, a)
    /\ UNCHANGED <<tmuxVars, lifeVars, storeVars, minted, cleared>>

(* load-buffer, paste-buffer and delete-buffer.                            *)
Paste(r) ==
    /\ pc[r] = "paste"
    /\ Leave(r)
    /\ UNCHANGED <<tmuxVars, lifeVars, storeVars, tokenVars, cleared>>

-----------------------------------------------------------------------------
(* Termination and logout                                                  *)

(* The bridge stops, the session is killed if it still runs.               *)
KillSession(r) ==
    /\ pc[r] = "kill"
    /\ tmux' = [tmux EXCEPT ![req[r].name] = NoSession]
    /\ Goto(r, "forget tokens")
    /\ UNCHANGED <<server, used, lifeVars, lock, storeVars, tokenVars, cleared, req>>

(* The cleanup runs under the lifecycle lock: DeleteSession of the paste   *)
(* tokens, later forget of the handles.                                    *)
ForgetTokens(r) ==
    /\ pc[r] = "forget tokens"
    /\ tokens' = {t \in tokens : minted[t].ref # req[r].ref}
    /\ Goto(r, "forget identity")
    /\ UNCHANGED <<tmuxVars, lifeVars, lock, storeVars, minted, presented, cleared, req>>

ForgetIdentity(r) ==
    /\ pc[r] = "forget identity" /\ mu = None
    /\ identity' = [s \in DOMAIN identity \ {req[r].ref} |-> identity[s]]
    /\ cleared' = cleared \cup {req[r].ref}
    /\ Goto(r, "remove")
    /\ UNCHANGED <<tmuxVars, lifeVars, lock, mu, issued, tokenVars, req>>

(* removeArtifacts drops the record, and the handler answers 204.          *)
RemoveRecord(r) ==
    /\ pc[r] = "remove"
    /\ record' = [record EXCEPT ![req[r].name] = None]
    /\ Leave(r)
    /\ UNCHANGED <<tmuxVars, born, storeVars, tokenVars, cleared>>

(* handleLogout; DeleteUser of the snapshots is in HistorySnapshots.       *)
Logout(u) ==
    /\ tokens' = {t \in tokens : minted[t].user # u}
    /\ UNCHANGED <<tmuxVars, lifeVars, lock, storeVars, minted, presented, cleared, pc, req>>

-----------------------------------------------------------------------------

Step(r) ==
    \/ Enter(r) \/ EnterRefused(r)
    \/ CommandFails(r) \/ ReadServer(r) \/ ListPanes(r) \/ Apply(r)
    \/ Lookup(r) \/ LookupPanics(r) \/ VerifyPane(r)
    \/ KeysAPI(r) \/ TmuxControlAPI(r)
    \/ \E u \in Users, a \in Actions :
         PasteTokenAPI(r, u, a) \/ \E t \in DOMAIN minted : PasteAPI(r, t, u, a)
    \/ Paste(r)
    \/ KillSession(r) \/ ForgetTokens(r) \/ ForgetIdentity(r) \/ RemoveRecord(r)

Environment ==
    \/ \E n \in Names : CreateSession(n) \/ Reconcile(n) \/ TerminalUse(n)
    \/ ServerReplaced
    \/ \E t \in tokens : TokenExpires(t)
    \/ \E u \in Users : Logout(u)

Next ==
    \/ \E r \in Requests :
         \/ \E kind \in Kinds, n \in Names : Find(r, kind, n)
         \/ StartList(r) \/ EnterFails(r)
         \/ Step(r)
    \/ Environment

Spec == Init /\ [][Next]_vars

(* Goroutines run, tmux commands return, and the kernel grants a lock that *)
(* is free again and again.                                                *)
FairSpec == Spec /\ \A r \in Requests :
    WF_vars(Step(r)) /\ SF_vars(Enter(r) \/ EnterRefused(r))

-----------------------------------------------------------------------------
(* Properties                                                              *)

(* A handle means one pane for ever: every binding of the store is to the  *)
(* session, pane id and server incarnation its handle was issued for, so a *)
(* handle a browser kept is never bound to another pane.                   *)
HandleMeansOnePane == \A s \in DOMAIN identity : \A raw \in DOMAIN identity[s] :
    issued[identity[s][raw].handle] =
        [ref |-> s, raw |-> raw, gen |-> identity[s][raw].gen]

(* A mutation or termination passes the generation check only when the     *)
(* pane its handle was issued for runs at that moment, in the session      *)
(* whose reference the request carries: not in a replacement of the same   *)
(* name, and not under a new tmux server that gave the pane id again.      *)
MutatesIssuedPane == [][\A r \in Requests :
    pc[r] = "verify" /\ pc'[r] \in {"act", "kill"} =>
        LET i == issued[req[r].handle] IN
        /\ i.ref = req[r].ref /\ i.gen = server
        /\ tmux[req[r].name].ref = req[r].ref
        /\ i.raw \in tmux[req[r].name].panes]_vars

(* A request that holds the session lock finds the entry its refresh left, *)
(* which is why resolvePane may use it without a test.                     *)
LockedLookupFinds == \A r \in Requests :
    pc[r] = "lookup" /\ req[r].kind = "locked" => req[r].ref \in DOMAIN identity

(* The identity store is sound: its handles keep their meaning, and its    *)
(* entries are there for whoever relies on them (update, resolvePane).     *)
StoreIsSound == TypeOK /\ HandleMeansOnePane /\ LockedLookupFinds

(* After a termination has run its cleanup no paste token of the session   *)
(* is left or appears again, whatever requests were on their way.          *)
ClearedStaysCleared == \A t \in tokens : minted[t].ref \notin cleared

(* A paste reaches tmux only with a token that no request had presented    *)
(* before, right or wrong, that no expiry, logout or termination removed,  *)
(* and that was created for the session, pane and incarnation the pasted   *)
(* handle was issued for.                                                  *)
PasteOnce == \A r \in Requests :
    pc'[r] = "paste" /\ pc[r] # "paste" =>
        LET t == req'[r].token IN
        /\ t \notin presented /\ t \in tokens
        /\ [ref |-> minted[t].ref, raw |-> req[r].raw, gen |-> minted[t].gen] =
              issued[req[r].handle]

(* A paste token works once, and not at all after its session is gone      *)
(* (Consume, DeleteSession).                                               *)
TokensAreSafe == [][ClearedStaysCleared' /\ PasteOnce]_vars

(* README.md:749: "reusing a ref after its pane disappears, returns an     *)
(* error": every request is answered.                                      *)
TerminalRequestAnswered == \A r \in Requests : pc[r] # "idle" ~> pc[r] = "idle"
=============================================================================
