------------------------- MODULE MCSessionLifecycle -------------------------
(* Small instances of SessionLifecycle for TLC.                            *)
EXTENDS SessionLifecycle, TLC

\* What goes wrong together.  Each set holds fewer than all faults, to keep the
\* instance small; between them every pair that meets in the code is there.
FaultScenarios ==
    {{"exit", "crash", "fail", "undo"},
     {"exit", "cancel", "fail"},
     {"crash", "cancel", "fail", "undo"},
     {"exit", "crash", "fail", "inherited"},
     {"exit", "fail", "unmanaged"}}
Polled == {{"exit", "inherited"}}
OthersOnly == {{"unmanaged"}}
CancelOnly == {{"cancel"}}

Symmetry == Permutations(Proc) \cup Permutations(Ref) \cup Permutations(Pid)

-----------------------------------------------------------------------------
(* The web page asks for the list of sessions again and again, so one      *)
(* process keeps starting List and nothing else; the others are requests   *)
(* that may come at any time or never.                                     *)

Poller == CHOOSE p \in Proc : TRUE

Poll == StartList(Poller, "none", None)

PollNext ==
    /\ \/ Poll
       \/ \E p \in Proc \ {Poller} : Request(p)
       \/ \E p \in Proc : Step(p)
       \/ Environment
    /\ UNCHANGED faults

PollSpec == Init /\ [][PollNext]_vars /\ Fairness /\ WF_vars(Poll /\ UNCHANGED faults)

\* lifecycle.go Reconcile: the record of a session whose tmux has exited does
\* not stay, although each step of its removal may race with a create, a
\* terminate or a new tmux session of that name.
StaleRecordGoes ==
    \A n \in Name :
        record[n].kind = "ok" /\ tmux[n] = "none"
            ~> record[n].kind # "ok" \/ tmux[n] # "none"

\* lifecycle.go ensureBridgeLocked: a recorded session that runs without a
\* bridge on its socket gets one back, whatever bridges it inherited or lost,
\* provided its bridges do not go on exiting of themselves for ever.
BridgeComesBack ==
    <>[][\A pid \in Pid : ~BridgeExits(pid)]_vars =>
        \A n \in Name :
            record[n].kind = "ok" /\ tmux[n] # "none"
                ~> \/ record[n].kind # "ok" \/ tmux[n] = "none"
                   \/ Current(n, record[n]) # {} /\ socket[n] \in Current(n, record[n])
=============================================================================
