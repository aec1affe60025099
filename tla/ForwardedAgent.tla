---------------------------- MODULE ForwardedAgent --------------------------
(***************************************************************************)
(* The stable link to the forwarded SSH agent (agent.go): every invocation *)
(* of the client over SSH points it to the agent socket of its own         *)
(* connection.  Clients run at the same time; sockets come and go with     *)
(* their connections.                                                      *)
(*                                                                         *)
(* SSH_AUTH_SOCK names a socket, the link itself, or a symlink of the user *)
(* that leads to either; the user's symlinks stay as they are.  Paths are  *)
(* taken after their directories have been resolved.  The temporary name   *)
(* of a client is its own.                                                 *)
(***************************************************************************)

CONSTANTS
    AgentClients,       \* client processes
    AgentSockets,       \* paths of sockets
    UserLinks,          \* paths of the user's symlinks
    StableLink          \* agent/forwarded.sock

AgentPaths == AgentSockets \cup UserLinks \cup {StableLink}

ASSUME AgentAssumption == StableLink \notin AgentSockets \cup UserLinks

VARIABLES
    userLink,       \* where the user's symlinks lead
    sockets,        \* sockets that exist
    stableLink,     \* where the stable link leads, or NoTarget
    temporary,      \* client -> its temporary symlink, or NoTarget
    refresh         \* client -> where it is, and its target

agentVars == <<userLink, sockets, stableLink, temporary, refresh>>

NoTarget == "absent"
IdleRefresh == [at |-> "idle", target |-> NoTarget]

(* Where a path leads: its own place if it is no symlink.                  *)
Target(path) ==
    CASE path \in UserLinks -> userLink[path]
      [] path = StableLink -> stableLink
      [] OTHER -> path

(* The paths one passes from a path: the least set that has it and every   *)
(* path that a path of it leads to.                                        *)
Followed(S) == \A p \in S : Target(p) \in S \cup {NoTarget}

Chain(path) ==
    LET closed == {S \in SUBSET AgentPaths : path \in S /\ Followed(S)}
    IN  {q \in AgentPaths : \A S \in closed : q \in S}

(* The path or what it leads to is not looked at beyond the first hop.     *)
ReferencesDirectly(path) == path = StableLink \/ Target(path) = StableLink

(* symlinkChainReferences: the chain passes through the stable link.       *)
References(path) == StableLink \in Chain(path)

(* os.Stat finds a socket at the end of the chain.                         *)
LeadsToSocket(path) == Chain(path) \cap sockets # {}

(* RefreshFromEnvironment: the checks of the target.                       *)
BeginRefresh(c, path) ==
    /\ refresh[c].at = "idle"
    /\ ~References(path) /\ LeadsToSocket(path)
    /\ refresh' = [refresh EXCEPT ![c] = [at |-> "link", target |-> path]]
    /\ UNCHANGED <<userLink, sockets, stableLink, temporary>>

(* replaceSymlink: a temporary symlink, ...                                *)
MakeTemporary(c) ==
    /\ refresh[c].at = "link"
    /\ temporary' = [temporary EXCEPT ![c] = refresh[c].target]
    /\ refresh' = [refresh EXCEPT ![c].at = "rename"]
    /\ UNCHANGED <<userLink, sockets, stableLink>>

(* ... renamed over the link.                                              *)
RenameTemporary(c) ==
    /\ refresh[c].at = "rename"
    /\ stableLink' = temporary[c]
    /\ temporary' = [temporary EXCEPT ![c] = NoTarget]
    /\ refresh' = [refresh EXCEPT ![c] = IdleRefresh]
    /\ UNCHANGED <<userLink, sockets>>

(* A step fails: the temporary name is removed.                            *)
RefreshFails(c) ==
    /\ refresh[c].at # "idle"
    /\ temporary' = [temporary EXCEPT ![c] = NoTarget]
    /\ refresh' = [refresh EXCEPT ![c] = IdleRefresh]
    /\ UNCHANGED <<userLink, sockets, stableLink>>

(* The client is killed: it is not.                                        *)
RefreshKilled(c) ==
    /\ refresh[c].at # "idle"
    /\ refresh' = [refresh EXCEPT ![c] = IdleRefresh]
    /\ UNCHANGED <<userLink, sockets, stableLink, temporary>>

(* SSH connections begin and end.                                          *)
SocketChanges(s) ==
    /\ sockets' = IF s \in sockets THEN sockets \ {s} ELSE sockets \cup {s}
    /\ UNCHANGED <<userLink, stableLink, temporary, refresh>>

AgentInit ==
    /\ userLink \in [UserLinks -> AgentPaths]
    /\ sockets = {}
    /\ stableLink = NoTarget
    /\ temporary = [c \in AgentClients |-> NoTarget]
    /\ refresh = [c \in AgentClients |-> IdleRefresh]

AgentNext ==
    \/ \E c \in AgentClients :
          \/ \E path \in AgentPaths : BeginRefresh(c, path)
          \/ MakeTemporary(c) \/ RenameTemporary(c) \/ RefreshFails(c) \/ RefreshKilled(c)
    \/ \E s \in AgentSockets : SocketChanges(s)

AgentSpec == AgentInit /\ [][AgentNext]_agentVars

-----------------------------------------------------------------------------
(* The stable link never leads back to itself, through whatever chain of   *)
(* symlinks: it leads to a socket path, so that the link works again as    *)
(* soon as that connection does.  Two refreshes at once do not build a     *)
(* loop that neither of them would have built alone.                       *)
NoAgentLoop ==
    stableLink # NoTarget =>
        LET chain == Chain(stableLink)
        IN  chain \cap AgentSockets # {} /\ StableLink \notin chain

(* "atomically retargets": once there is a link, managed sessions always   *)
(* find one; a refresh that fails or is killed leaves the previous one,    *)
(* and a new one leads to a target some client has checked.                *)
LinkNeverVanishes ==
    \E c \in AgentClients : refresh[c].at = "rename" /\ stableLink' = refresh[c].target

(* The stable link is there from the first refresh on and leads somewhere  *)
(* (RefreshFromEnvironment, replaceSymlink).                               *)
LinkAlwaysGood ==
    [][stableLink' # stableLink => NoAgentLoop' /\ LinkNeverVanishes]_agentVars
=============================================================================
