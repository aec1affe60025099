---------------------------- MODULE MCServerState ---------------------------
(***************************************************************************)
(* What the server and the client keep beside the sessions: the limit of   *)
(* web creates, the resize state, the login limiter, the cookie secret,    *)
(* the forwarded agent, the stop of a bridge and the selector, side by     *)
(* side.  They share no state, so a behaviour moves one of them, its part, *)
(* and the others stay in one initial state: the state spaces add up.      *)
(***************************************************************************)
EXTENDS WebCreate, ResizeState, LoginLimiter, CookieSecret, ForwardedAgent, BridgeStop,
        ClientSelector, TLC

VARIABLE part

Symmetry == Permutations(ResizeRefs) \cup Permutations(Handlers)

Others(p) ==
    /\ p # "create" => CreateInit
    /\ p # "resize" => ResizeInit
    /\ p # "limiter" => LimiterInit
    /\ p # "secret" => SecretInit
    /\ p # "agent" => (userLink = [l \in UserLinks |-> StableLink]) /\ AgentInit
    /\ p # "stop" => StopInit
    /\ p # "client" => mode = "selector" /\ SelectorInit

Init ==
    \/ part = "create" /\ CreateInit /\ Others("create")
    \/ part = "resize" /\ ResizeInit /\ Others("resize")
    \/ part = "limiter" /\ LimiterInit /\ Others("limiter")
    \/ part = "secret" /\ SecretInit /\ Others("secret")
    \/ part = "agent" /\ AgentInit /\ Others("agent")
    \/ part = "stop" /\ StopInit /\ Others("stop")
    \/ part = "client" /\ SelectorInit /\ Others("client")

Next ==
    /\ \/ /\ part = "create" /\ CreateNext
          /\ UNCHANGED <<resizeVars, limiterVars, secretVars, agentVars, stopVars, selectorVars>>
       \/ /\ part = "resize" /\ ResizeNext
          /\ UNCHANGED <<createVars, limiterVars, secretVars, agentVars, stopVars, selectorVars>>
       \/ /\ part = "limiter" /\ LimiterNext
          /\ UNCHANGED <<createVars, resizeVars, secretVars, agentVars, stopVars, selectorVars>>
       \/ /\ part = "secret" /\ SecretNext
          /\ UNCHANGED <<createVars, resizeVars, limiterVars, agentVars, stopVars, selectorVars>>
       \/ /\ part = "agent" /\ AgentNext
          /\ UNCHANGED <<createVars, resizeVars, limiterVars, secretVars, stopVars, selectorVars>>
       \/ /\ part = "stop" /\ StopNext
          /\ UNCHANGED <<createVars, resizeVars, limiterVars, secretVars, agentVars, selectorVars>>
       \/ /\ part = "client" /\ SelectorNext
          /\ UNCHANGED <<createVars, resizeVars, limiterVars, secretVars, agentVars, stopVars>>
    /\ UNCHANGED part

vars == <<part, createVars, resizeVars, limiterVars, secretVars, agentVars, stopVars, selectorVars>>

Spec == Init /\ [][Next]_vars
=============================================================================
