-------------------------- MODULE SessionOwnership --------------------------
(***************************************************************************)
(* What the session lifecycle promises to its callers: every name is free  *)
(* or owned by the session behind one public reference; a name changes     *)
(* hands only by becoming free in between; and an action that was          *)
(* authorised for a reference runs alone on the session behind it, which   *)
(* stays the owner of its name until the action has ended.                 *)
(***************************************************************************)
CONSTANTS Client, Name, Ref, None

VARIABLES
    owner,      \* owner[n]: the public reference of the session called n
    acting      \* acting[c]: the reference client c is acting on

vars == <<owner, acting>>

Init ==
    /\ owner = [n \in Name |-> None]
    /\ acting = [c \in Client |-> None]

Idle(r) == \A c \in Client : acting[c] # r

Claim(n, r) ==
    /\ owner[n] = None
    /\ \A m \in Name : owner[m] # r
    /\ owner' = [owner EXCEPT ![n] = r]
    /\ UNCHANGED acting

Free(n) ==
    /\ owner[n] # None
    /\ Idle(owner[n])
    /\ owner' = [owner EXCEPT ![n] = None]
    /\ UNCHANGED acting

Begin(c, n) ==
    /\ acting[c] = None
    /\ owner[n] # None
    /\ Idle(owner[n])
    /\ acting' = [acting EXCEPT ![c] = owner[n]]
    /\ UNCHANGED owner

End(c) ==
    /\ acting[c] # None
    /\ acting' = [acting EXCEPT ![c] = None]
    /\ UNCHANGED owner

Next ==
    \/ \E n \in Name : (\E r \in Ref : Claim(n, r)) \/ Free(n)
    \/ \E c \in Client : (\E n \in Name : Begin(c, n)) \/ End(c)

Spec == Init /\ [][Next]_vars
=============================================================================
