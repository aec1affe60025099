--------------------------- MODULE ClientSelector ---------------------------
(***************************************************************************)
(* The command line client (cmd/client/main.go): the selector, which lists *)
(* sessions, attaches one and lists again, and the direct forms, which     *)
(* create or reuse one session and end.  SIGINT and SIGTERM go to a        *)
(* buffered channel that only a prompt reads; the client's context is      *)
(* never cancelled.                                                        *)
(*                                                                         *)
(* What the lifecycle manager does to one name is one step, and List takes *)
(* one name after another (SessionLifecycle has the steps inside).  The    *)
(* agent link that every invocation refreshes first is ForwardedAgent's.   *)
(***************************************************************************)
EXTENDS Naturals, Sequences

CONSTANTS
    SelectorNames,
    SignalCapacity      \* size of the channel given to signal.Notify

ASSUME SelectorAssumption == SignalCapacity \in Nat \ {0}

VARIABLES
    running,        \* managed sessions that run
    mode,           \* "selector", "attach" or "no-attach"
    client,         \* where the client is, what it offers, what List has yet
                    \* to look at and has kept, and what it attaches
    signals         \* in the channel: "attached" if given during an attach

selectorVars == <<running, mode, client, signals>>

NoName == "no name"
Listing == [at |-> "list", choices |-> {}, todo |-> running, kept |-> {}, target |-> NoName]
Prompting == client.at \in {"prompt", "name"}

(* Where the client goes when an operation on a session is over.           *)
AfterSession ==
    client' = IF mode = "selector" THEN [Listing EXCEPT !.choices = client.choices]
              ELSE [client EXCEPT !.at = "exited"]

GoTo(at) == client' = [client EXCEPT !.at = at]

-----------------------------------------------------------------------------
(* runSelector: reconcileOne of the next record, ...                       *)
SelectorReconcile(n) ==
    /\ client.at = "list" /\ n \in client.todo
    /\ client' = [client EXCEPT !.todo = @ \ {n},
                                !.kept = IF n \in running THEN @ \cup {n} ELSE @]
    /\ UNCHANGED <<running, mode, signals>>

RenderSelector ==
    /\ client.at = "list" /\ client.todo = {}
    /\ client' = [client EXCEPT !.at = "prompt", !.choices = client.kept, !.kept = {}]
    /\ UNCHANGED <<running, mode, signals>>

(* ... or the whole list fails, and nothing is offered.                    *)
SelectorListFails ==
    /\ client.at = "list"
    /\ client' = [client EXCEPT !.at = "prompt", !.choices = {},
                                !.todo = {}, !.kept = {}]
    /\ UNCHANGED <<running, mode, signals>>

(* readLine at either prompt: a signal, the end of the input, an error.    *)
ReadInterrupt ==
    /\ Prompting /\ signals # <<>>
    /\ signals' = Tail(signals)
    /\ GoTo("exited")
    /\ UNCHANGED <<running, mode>>

ReadEnd ==
    /\ Prompting
    /\ GoTo("exited")
    /\ UNCHANGED <<running, mode, signals>>

(* A line at the selector: a number, n, q, or none of these.               *)
SelectSession(n) ==
    /\ client.at = "prompt" /\ n \in client.choices
    /\ client' = [client EXCEPT !.at = "attach", !.target = n]
    /\ UNCHANGED <<running, mode, signals>>

SelectNew ==
    /\ client.at = "prompt"
    /\ GoTo("name")
    /\ UNCHANGED <<running, mode, signals>>

SelectQuit ==
    /\ client.at = "prompt"
    /\ GoTo("exited")
    /\ UNCHANGED <<running, mode, signals>>

SelectInvalid ==
    /\ client.at = "prompt"
    /\ AfterSession
    /\ UNCHANGED <<running, mode, signals>>

-----------------------------------------------------------------------------
(* createFromPrompt, and run with a name: Create.                          *)
SelectorCreate(n) ==
    /\ client.at \in {"name", "create"}
    /\ running' = running \cup {n}
    /\ client' = [client EXCEPT !.at = IF mode = "no-attach" THEN "exited" ELSE "attach",
                                !.target = n]
    /\ UNCHANGED <<mode, signals>>

(* An empty name, or an error.                                             *)
SelectorCreateFails ==
    /\ client.at \in {"name", "create"}
    /\ AfterSession
    /\ UNCHANGED <<running, mode, signals>>

(* attachManaged: tmux attach-session returns, with or without an error,   *)
(* also when there is no session of that name any more.                    *)
AttachReturns ==
    /\ client.at = "attach"
    /\ \/ client.target \in running /\ GoTo("detached")
       \/ GoTo("failed")
    /\ UNCHANGED <<running, mode, signals>>

(* One signal is taken from the channel.                                   *)
DrainedOnce == IF signals = <<>> THEN <<>> ELSE Tail(signals)

(* drainInterrupts                                                         *)
Drained == <<>>

DrainInterrupts ==
    /\ client.at \in {"detached", "failed"}
    /\ signals' = Drained
    /\ IF client.at = "detached" THEN GoTo("ensure") ELSE AfterSession
    /\ UNCHANGED <<running, mode>>

(* EnsureBridge, whatever it returns.                                      *)
EnsureAfterAttach ==
    /\ client.at = "ensure"
    /\ AfterSession
    /\ UNCHANGED <<running, mode, signals>>

-----------------------------------------------------------------------------
(* signal.Notify: what does not fit the channel is dropped.                *)
SignalClient ==
    /\ client.at # "exited"
    /\ Len(signals) < SignalCapacity
    /\ signals' = Append(signals, IF client.at = "attach" THEN "attached" ELSE "outside")
    /\ UNCHANGED <<running, mode, client>>

(* The web, other clients, and the programs in the sessions.               *)
OthersStart(n) ==
    /\ client.at # "exited" /\ n \notin running
    /\ running' = running \cup {n}
    /\ UNCHANGED <<mode, client, signals>>

OthersStop(n) ==
    /\ client.at # "exited" /\ n \in running
    /\ running' = running \ {n}
    /\ UNCHANGED <<mode, client, signals>>

SelectorInit ==
    /\ running = {}
    /\ mode \in {"selector", "attach", "no-attach"}
    /\ client = IF mode = "selector" THEN Listing ELSE [Listing EXCEPT !.at = "create"]
    /\ signals = <<>>

SelectorNext ==
    \/ \E n \in SelectorNames :
          \/ SelectorReconcile(n) \/ SelectSession(n) \/ SelectorCreate(n)
          \/ OthersStart(n) \/ OthersStop(n)
    \/ RenderSelector \/ SelectorListFails \/ ReadInterrupt \/ ReadEnd
    \/ SelectNew \/ SelectQuit \/ SelectInvalid
    \/ SelectorCreateFails \/ AttachReturns \/ DrainInterrupts \/ EnsureAfterAttach
    \/ SignalClient

SelectorSpec == SelectorInit /\ [][SelectorNext]_selectorVars

-----------------------------------------------------------------------------
(* "Detach returns to the selector loop": a signal given while a session   *)
(* was attached, however many there were, never ends the selector when the *)
(* session is detached, has ended or could not be attached; only one given *)
(* at the client itself does (drainInterrupts, readLine).                  *)
DetachReturns ==
    [][mode = "selector" /\ client'.at = "exited" /\ signals' # signals
         => Head(signals) = "outside"]_selectorVars
=============================================================================
