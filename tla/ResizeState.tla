----------------------------- MODULE ResizeState ----------------------------
(***************************************************************************)
(* The resize state of sessions (resize_store.go and the resize handlers   *)
(* of server.go): settings in a file per session, viewers in the memory of *)
(* the server process, which expire.  The handlers run under the lifecycle *)
(* lock of their session; handlers of different sessions meet in the       *)
(* store, whose operations read the clock before they take its mutex.      *)
(*                                                                         *)
(* A session is removed by the web (TerminateChecked with the server's     *)
(* cleanup), by the CLI, or by whoever finds that it exited; the last two  *)
(* leave the server's memory alone.                                        *)
(***************************************************************************)
EXTENDS Naturals, FiniteSets

CONSTANTS
    ResizeRefs,         \* public references of sessions
    ViewerIDs,
    Handlers,           \* requests of the server process
    CLI,                \* the other process
    ViewerTTL,
    PerSession, PerProcess,     \* maxViewersPerSession, maxViewersPerProcess
    MaxTime             \* bound on the clock

Nobody == "nobody"
Actors == Handlers \cup {CLI}

ASSUME ResizeAssumption ==
    /\ {ViewerTTL, PerSession, PerProcess, MaxTime} \subseteq Nat
    /\ ViewerTTL > 0
    /\ CLI \notin Handlers
    /\ Nobody \notin Actors

VARIABLES
    record,         \* ref -> "live", "exited" or "gone"
    settings,       \* ref -> the file: "none", "fixed", or the selected viewer
    viewers,        \* ref -> viewer -> LastSeen, for the viewers it has
    holder,         \* ref -> who holds the session's lifecycle lock
    step,           \* actor -> where it is, and its ref, viewer and `now`
    time,
    forgotten       \* sessions that the web terminated

resizeVars == <<record, settings, viewers, holder, step, time, forgotten>>

NoViewer == "none"
NoStep == [at |-> "idle", ref |-> Nobody, viewer |-> NoViewer, now |-> 0]

LockSession(a, ref) == holder[ref] = Nobody /\ holder' = [holder EXCEPT ![ref] = a]

Begin(a, ref, at, viewer) ==
    /\ step[a].at = "idle"
    /\ LockSession(a, ref)
    /\ step' = [step EXCEPT ![a] = [at |-> at, ref |-> ref, viewer |-> viewer,
                                    now |-> IF viewer = NoViewer THEN 0 ELSE time]]

Continue(a, at) == step' = [step EXCEPT ![a].at = at] /\ UNCHANGED holder

Respond(h) ==
    /\ step' = [step EXCEPT ![h].at = "respond", ![h].viewer = NoViewer, ![h].now = 0]
    /\ UNCHANGED holder

Finish(a) ==
    /\ step' = [step EXCEPT ![a] = NoStep]
    /\ holder' = [holder EXCEPT ![step[a].ref] = IF @ = a THEN Nobody ELSE @]

(* pruneLocked: the viewers of a session that have not expired.            *)
Unexpired(of, now) ==
    LET kept == {v \in DOMAIN of : of[v] + ViewerTTL >= now}
    IN  [v \in kept |-> of[v]]

Prune(ref, now) == [viewers EXCEPT ![ref] = Unexpired(@, now)]

(* Only the session that gains a viewer is pruned.                         *)
PruneAllOwn(ref, now) == Prune(ref, now)

(* pruneAllLocked                                                          *)
PruneAll(ref, now) == [r \in ResizeRefs |-> Unexpired(viewers[r], now)]

ViewerCount(of) == Cardinality({rv \in ResizeRefs \X ViewerIDs : rv[2] \in DOMAIN of[rv[1]]})

Full(of, ref, viewer) ==
    /\ viewer \notin DOMAIN of[ref]
    /\ Cardinality(DOMAIN of[ref]) >= PerSession \/ ViewerCount(of) >= PerProcess

(* handleResizeViewerAPI: a viewer reports its size.                       *)
ReportViewer(h, ref, viewer) ==
    /\ record[ref] = "live"
    /\ Begin(h, ref, "record", viewer)
    /\ UNCHANGED <<record, settings, viewers, time, forgotten>>

(* RecordViewer under the mutex.                                           *)
RecordViewer(h) ==
    LET ref == step[h].ref
        viewer == step[h].viewer
        pruned == PruneAll(ref, step[h].now)
    IN  /\ step[h].at = "record"
        /\ IF Full(pruned, ref, viewer)
           THEN viewers' = pruned /\ Finish(h)
           ELSE /\ viewers' = [pruned EXCEPT ![ref] =
                      [v \in DOMAIN @ \cup {viewer} |->
                          IF v = viewer THEN step[h].now ELSE @[v]]]
                /\ Respond(h)
        /\ UNCHANGED <<record, settings, time, forgotten>>

(* handleResizeAPI: POST fixed, POST fit-once, GET.                        *)
ResizeFixed(h, ref) ==
    /\ record[ref] = "live"
    /\ Begin(h, ref, "apply", NoViewer)
    /\ UNCHANGED <<record, settings, viewers, time, forgotten>>

ResizeFitOnce(h, ref, viewer) ==
    /\ record[ref] = "live"
    /\ Begin(h, ref, "lookup", viewer)
    /\ UNCHANGED <<record, settings, viewers, time, forgotten>>

GetResize(h, ref) ==
    /\ record[ref] = "live"
    /\ Begin(h, ref, "respond", NoViewer)
    /\ UNCHANGED <<record, settings, viewers, time, forgotten>>

(* Viewer: the selected viewer must still be active.                       *)
LookupViewer(h) ==
    LET ref == step[h].ref
        pruned == Prune(ref, step[h].now)
    IN  /\ step[h].at = "lookup"
        /\ viewers' = pruned
        /\ IF step[h].viewer \in DOMAIN pruned[ref] THEN Continue(h, "apply") ELSE Finish(h)
        /\ UNCHANGED <<record, settings, time, forgotten>>

(* tmux resizes the window, then Save writes a temporary file and renames  *)
(* it; either may fail.                                                    *)
ApplyResize(h) ==
    /\ step[h].at = "apply"
    /\ \/ /\ settings' = [settings EXCEPT ![step[h].ref] =
                IF step[h].viewer = NoViewer THEN "fixed" ELSE step[h].viewer]
          /\ Respond(h)
       \/ UNCHANGED settings /\ Finish(h)
    /\ UNCHANGED <<record, viewers, time, forgotten>>

(* resizeResponse: the settings; Viewers reads the clock, ...              *)
RespondNow(h) ==
    /\ step[h].at = "respond"
    /\ step' = [step EXCEPT ![h].at = "list", ![h].now = time]
    /\ UNCHANGED <<record, settings, viewers, holder, time, forgotten>>

(* ... then prunes and lists the viewers.                                  *)
RespondViewers(h) ==
    /\ step[h].at = "list"
    /\ viewers' = Prune(step[h].ref, step[h].now)
    /\ Finish(h)
    /\ UNCHANGED <<record, settings, time, forgotten>>

(* TerminateChecked; only the web gives it a cleanup.                      *)
BeginTerminate(a, ref) ==
    /\ record[ref] # "gone"
    /\ Begin(a, ref, IF a = CLI THEN "files" ELSE "forget", NoViewer)
    /\ UNCHANGED <<record, settings, viewers, time, forgotten>>

(* Any use of the session that finds it dead: cleanupLocked.               *)
BeginCleanup(a, ref) ==
    /\ record[ref] = "exited"
    /\ Begin(a, ref, "files", NoViewer)
    /\ UNCHANGED <<record, settings, viewers, time, forgotten>>

(* The cleanup of handleTerminateSession: ForgetSession.                   *)
ForgetSession(h) ==
    /\ step[h].at = "forget"
    /\ viewers' = [viewers EXCEPT ![step[h].ref] = <<>>]
    /\ forgotten' = forgotten \cup {step[h].ref}
    /\ record' = [record EXCEPT ![step[h].ref] = "exited"]
    /\ Continue(h, "files")
    /\ UNCHANGED <<settings, time>>

(* The record goes before the files that belong to it.                     *)
ArtifactOrderSwapped == [first |-> "record", second |-> "files"]

(* removeArtifacts: the files, and the record only when they are gone.     *)
ArtifactOrder == [first |-> "files", second |-> "record"]

RemoveArtifact(a, what) ==
    IF what = "files"
    THEN settings' = [settings EXCEPT ![step[a].ref] = "none"] /\ UNCHANGED record
    ELSE record' = [record EXCEPT ![step[a].ref] = "gone"] /\ UNCHANGED settings

RemoveFirst(a) ==
    /\ step[a].at = "files"
    /\ \/ RemoveArtifact(a, ArtifactOrder.first) /\ Continue(a, "last")
       \/ UNCHANGED <<record, settings>> /\ Finish(a)
    /\ UNCHANGED <<viewers, time, forgotten>>

RemoveLast(a) ==
    /\ step[a].at = "last"
    /\ \/ RemoveArtifact(a, ArtifactOrder.second)
       \/ UNCHANGED <<record, settings>>
    /\ Finish(a)
    /\ UNCHANGED <<viewers, time, forgotten>>

(* The program in the session exits.                                       *)
ExitSession(ref) ==
    /\ record[ref] = "live"
    /\ record' = [record EXCEPT ![ref] = "exited"]
    /\ UNCHANGED <<settings, viewers, holder, step, time, forgotten>>

(* A process dies: its locks are released; the server's memory is lost.    *)
Dies(process) ==
    /\ \E a \in process : step[a].at # "idle"
    /\ step' = [a \in Actors |-> IF a \in process THEN NoStep ELSE step[a]]
    /\ holder' = [r \in ResizeRefs |-> IF holder[r] \in process THEN Nobody ELSE holder[r]]
    /\ viewers' = IF CLI \in process THEN viewers ELSE [r \in ResizeRefs |-> <<>>]
    /\ UNCHANGED <<record, settings, time, forgotten>>

TimePasses ==
    /\ time < MaxTime
    /\ time' = time + 1
    /\ UNCHANGED <<record, settings, viewers, holder, step, forgotten>>

ResizeInit ==
    /\ record = [r \in ResizeRefs |-> "live"]
    /\ settings = [r \in ResizeRefs |-> "none"]
    /\ viewers = [r \in ResizeRefs |-> <<>>]
    /\ holder = [r \in ResizeRefs |-> Nobody]
    /\ step = [a \in Actors |-> NoStep]
    /\ time = 0
    /\ forgotten = {}

ResizeNext ==
    \/ \E h \in Handlers, ref \in ResizeRefs :
          \/ \E viewer \in ViewerIDs : ReportViewer(h, ref, viewer) \/ ResizeFitOnce(h, ref, viewer)
          \/ ResizeFixed(h, ref) \/ GetResize(h, ref)
    \/ \E h \in Handlers :
          \/ RecordViewer(h) \/ LookupViewer(h) \/ ApplyResize(h) \/ RespondNow(h)
          \/ RespondViewers(h) \/ ForgetSession(h)
    \/ \E a \in Actors :
          \/ \E ref \in ResizeRefs : BeginTerminate(a, ref) \/ BeginCleanup(a, ref)
          \/ RemoveFirst(a) \/ RemoveLast(a)
    \/ \E ref \in ResizeRefs : ExitSession(ref)
    \/ Dies(Handlers) \/ Dies({CLI})
    \/ TimePasses

ResizeSpec == ResizeInit /\ [][ResizeNext]_resizeVars

-----------------------------------------------------------------------------
(* Settings never outlive the record that would remove them: a process may *)
(* die, or a file resist removal, at any point of a termination.           *)
NoOrphanSettings ==
    \A r \in ResizeRefs : record[r] = "gone" => settings[r] = "none"

(* A session that the web terminated has no viewers again, whatever was    *)
(* under way when its memory was cleared: viewers of dead sessions would   *)
(* count against the limit of the process.                                 *)
ForgottenHasNoViewers ==
    \A r \in forgotten : viewers[r] = <<>>

(* A session that is gone leaves neither settings on disk nor viewers in   *)
(* memory, whoever was in the middle of what (removeArtifacts,             *)
(* ForgetSession).                                                         *)
NothingLeftBehind == NoOrphanSettings /\ ForgottenHasNoViewers

(* A viewer is refused only for viewers that are still active: expired     *)
(* ones, also those of other sessions and of sessions that are gone, never *)
(* hold a place.                                                           *)
RefusedOnlyIfFull ==
    [][\A h \in Handlers :
          step[h].at = "record" /\ step'[h].at = "idle" /\ ~Dies(Handlers) =>
              Full([r \in ResizeRefs |-> Unexpired(viewers[r], step[h].now)],
                   step[h].ref, step[h].viewer)]_resizeVars
=============================================================================
