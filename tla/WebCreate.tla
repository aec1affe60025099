------------------------------ MODULE WebCreate -----------------------------
(***************************************************************************)
(* handleCreateSession (server.go): a web create counts the managed        *)
(* sessions and creates one under webCreateMu, while the CLI, which has no *)
(* limit, creates, sessions exit and sessions are terminated.              *)
(*                                                                         *)
(* The lifecycle manager is taken at the size of its lock: what it does to *)
(* one name is one step (SessionLifecycle has the steps inside).  List is  *)
(* not: it reads the records once and reconciles them one after another.   *)
(***************************************************************************)
EXTENDS Naturals, FiniteSets

CONSTANTS
    SessionNames,
    Creates,            \* web requests that create
    MaxSessions,        \* cfg.MaxSessions
    MaxCLI              \* bound on the creations by the CLI

NoCreate == "no request"

ASSUME WebCreateAssumption ==
    /\ IsFiniteSet(SessionNames)
    /\ NoCreate \notin Creates
    /\ MaxSessions \in Nat \ {0} /\ MaxCLI \in Nat

VARIABLES
    managed,        \* name -> "none", "live", or "exited": a record without tmux
    webCreateMu,    \* who holds it
    create,         \* request -> where it is, its name, the records List has
                    \* yet to reconcile and those it has kept
    cliCreated      \* how many sessions the CLI has created

createVars == <<managed, webCreateMu, create, cliCreated>>

IdleCreate == [at |-> "idle", name |-> NoCreate, todo |-> {}, kept |-> {}]
LiveSessions == {n \in SessionNames : managed[n] = "live"}

(* The count and the create are not serialised.                            *)
LockCreateFree(r) == UNCHANGED webCreateMu

LockCreate(r) == webCreateMu = NoCreate /\ webCreateMu' = r

UnlockCreate(r) == webCreateMu' = IF webCreateMu = r THEN NoCreate ELSE webCreateMu

(* The lock, and ListCompatible.                                           *)
WebCreateBegin(r, n) ==
    /\ create[r].at = "idle"
    /\ LockCreate(r)
    /\ create' = [create EXCEPT ![r] =
                    [at |-> "list", name |-> n,
                     todo |-> {m \in SessionNames : managed[m] # "none"}, kept |-> {}]]
    /\ UNCHANGED <<managed, cliCreated>>

(* reconcileOne of the next record; one that cannot be reconciled fails    *)
(* the list, but only after the others have had their turn.                *)
WebCreateReconcile(r, m) ==
    /\ create[r].at \in {"list", "failing"} /\ m \in create[r].todo
    /\ \/ /\ create' = [create EXCEPT
                ![r].todo = @ \ {m},
                ![r].kept = IF managed[m] = "live" THEN @ \cup {m} ELSE @]
          /\ managed' = [managed EXCEPT ![m] = IF @ = "exited" THEN "none" ELSE @]
       \/ /\ create' = [create EXCEPT ![r].at = "failing", ![r].todo = @ \ {m}]
          /\ UNCHANGED managed
    /\ UNCHANGED <<webCreateMu, cliCreated>>

(* List or CreateOrSelect returns an error.                                *)
WebCreateFails(r) ==
    /\ create[r].at = "create" \/ (create[r].at = "failing" /\ create[r].todo = {})
    /\ create' = [create EXCEPT ![r] = IdleCreate]
    /\ UnlockCreate(r)
    /\ UNCHANGED <<managed, cliCreated>>

OverLimit(r) ==
    create[r].name \notin create[r].kept /\ Cardinality(create[r].kept) >= MaxSessions

WebCreateDecide(r) ==
    /\ create[r].at = "list" /\ create[r].todo = {}
    /\ IF OverLimit(r)
       THEN create' = [create EXCEPT ![r] = IdleCreate] /\ UnlockCreate(r)
       ELSE create' = [create EXCEPT ![r].at = "create"] /\ UNCHANGED webCreateMu
    /\ UNCHANGED <<managed, cliCreated>>

(* CreateOrSelect                                                          *)
WebCreateOrSelect(r) ==
    /\ create[r].at = "create"
    /\ managed' = [managed EXCEPT ![create[r].name] = "live"]
    /\ create' = [create EXCEPT ![r] = IdleCreate]
    /\ UnlockCreate(r)
    /\ UNCHANGED cliCreated

(* The CLI is not limited.                                                 *)
CLICreate(n) ==
    /\ managed[n] # "live" /\ cliCreated < MaxCLI
    /\ managed' = [managed EXCEPT ![n] = "live"]
    /\ cliCreated' = cliCreated + 1
    /\ UNCHANGED <<webCreateMu, create>>

(* The program in the session exits.                                       *)
SessionExits(n) ==
    /\ managed[n] = "live"
    /\ managed' = [managed EXCEPT ![n] = "exited"]
    /\ UNCHANGED <<webCreateMu, create, cliCreated>>

(* TerminateChecked, or somebody else's reconciliation of an exited one.   *)
SessionEnds(n) ==
    /\ managed[n] # "none"
    /\ managed' = [managed EXCEPT ![n] = "none"]
    /\ UNCHANGED <<webCreateMu, create, cliCreated>>

CreateInit ==
    /\ managed = [n \in SessionNames |-> "none"]
    /\ webCreateMu = NoCreate
    /\ create = [r \in Creates |-> IdleCreate]
    /\ cliCreated = 0

CreateNext ==
    \/ \E r \in Creates :
          \/ \E n \in SessionNames : WebCreateBegin(r, n) \/ WebCreateReconcile(r, n)
          \/ WebCreateFails(r) \/ WebCreateDecide(r) \/ WebCreateOrSelect(r)
    \/ \E n \in SessionNames : CLICreate(n) \/ SessionExits(n) \/ SessionEnds(n)

CreateSpec == CreateInit /\ [][CreateNext]_createVars

-----------------------------------------------------------------------------
(* "Serialize the count and create decision so concurrent web requests     *)
(* cannot oversubscribe it": web creates never bring the sessions over the *)
(* limit.  Every session above MaxSessions goes back to a creation by the  *)
(* CLI, however old the list is by the time a request acts on it, and also *)
(* when a name that was listed has gone before it is selected.             *)
WebLimitHolds == Cardinality(LiveSessions) <= MaxSessions + cliCreated
=============================================================================
