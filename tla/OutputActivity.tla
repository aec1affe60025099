--------------------------- MODULE OutputActivity ---------------------------
(***************************************************************************)
(* How a History view learns that the terminal went on: the output epochs  *)
(* (output_activity.go) that the proxy advances, the capture of a history  *)
(* between two readings of them (CaptureHistory of tmux.go), the page that *)
(* says whether output followed, and the activity request that says        *)
(* whether there is new output (history_api.go, snapshot_manager.go).      *)
(*                                                                         *)
(* tmux draws output first; the bytes reach the proxy later, once for      *)
(* every browser that shows the session (OutputObserver counts them).  A   *)
(* step is one tmux command, one reading of an epoch, or one Record.       *)
(***************************************************************************)
EXTENDS Naturals, Sequences, FiniteSets

CONSTANTS
    Sessions,       \* public references
    Browsers,       \* WebSocket connections through the proxy
    Shows,          \* the session each connection shows
    Chunks,         \* byte counts of one Record
    MaxEpoch,       \* math.MaxInt64
    MaxOutput       \* bound of the model: outputs of each session

ASSUME ActivityAssumption ==
    /\ Sessions # {} /\ Shows \in [Browsers -> Sessions]
    /\ Chunks \subseteq Nat \ {0}
    /\ MaxEpoch \in Nat /\ MaxOutput \in [Sessions -> Nat]

VARIABLES
    drawn,          \* outputs tmux has drawn in the pane of a session
    historyBytes,   \* what tmux reports as history_bytes
    onTheWay,       \* outputs sent to a browser that the proxy has not read
    epochs,         \* outputActivityStore.epochs, 0 when absent
    running,        \* the session has not been terminated
    view,           \* the one History view
    recorded,       \* latest output of which the proxy has recorded a part
    disturbed       \* output was drawn or recorded since the capture began

activityVars == <<drawn, historyBytes, onTheWay, epochs, running, view,
                  recorded, disturbed>>

ViewSteps == {"none", "before", "before epoch", "capture", "after epoch",
              "after", "open", "activity", "activity epoch"}
Reading == [epoch: 0..MaxEpoch, bytes: 0..1]

NoView == [step |-> "none", ref |-> CHOOSE s \in Sessions : TRUE, text |-> 0,
           before |-> [epoch |-> 0, bytes |-> 0],
           after |-> [epoch |-> 0, bytes |-> 0],
           seen |-> 0, answer |-> "none"]

ActivityTypeOK ==
    /\ \A s \in Sessions : drawn[s] \in 0..MaxOutput[s] /\ recorded[s] \in 0..drawn[s]
    /\ historyBytes \in [Sessions -> 0..1]
    /\ \A b \in Browsers : onTheWay[b] \in Seq(1..drawn[Shows[b]])
    /\ epochs \in [Sessions -> 0..MaxEpoch]
    /\ running \in [Sessions -> BOOLEAN]
    /\ view \in [step: ViewSteps, ref: Sessions, text: 0..drawn[view.ref],
                 before: Reading, after: Reading, seen: 0..1,
                 answer: {"none", "quiet", "new"}]
    /\ disturbed \in BOOLEAN

ActivityInit ==
    /\ drawn = [s \in Sessions |-> 0]
    /\ historyBytes = [s \in Sessions |-> 0]
    /\ onTheWay = [b \in Browsers |-> <<>>]
    /\ epochs = [s \in Sessions |-> 0]
    /\ running = [s \in Sessions |-> TRUE]
    /\ view = NoView
    /\ recorded = [s \in Sessions |-> 0]
    /\ disturbed = FALSE

Disturbs(s) == disturbed' = (disturbed \/ (view.step # "none" /\ view.ref = s))

-----------------------------------------------------------------------------
(* The terminal and the proxy                                              *)

(* tmux draws output; lines that scroll out, or a cleared history, change  *)
(* history_bytes.                                                          *)
Draw(s) ==
    /\ running[s] /\ drawn[s] < MaxOutput[s]
    /\ drawn' = [drawn EXCEPT ![s] = @ + 1]
    /\ \E n \in 0..1 : historyBytes' = [historyBytes EXCEPT ![s] = n]
    /\ onTheWay' = [b \in Browsers |->
          IF Shows[b] = s THEN Append(onTheWay[b], drawn[s] + 1) ELSE onTheWay[b]]
    /\ Disturbs(s)
    /\ UNCHANGED <<epochs, running, view, recorded>>

(* outputActivityStore.Record                                              *)
Record(s, n) ==
    [epochs EXCEPT ![s] = IF n > MaxEpoch - @ THEN MaxEpoch ELSE @ + n]

(* The proxy reads a part, or the rest, of the next output of a browser.   *)
Observe(b) ==
    /\ onTheWay[b] # <<>>
    /\ \E n \in Chunks : epochs' = Record(Shows[b], n)
    /\ recorded' = [recorded EXCEPT ![Shows[b]] =
                      IF onTheWay[b][1] > @ THEN onTheWay[b][1] ELSE @]
    /\ \/ onTheWay' = [onTheWay EXCEPT ![b] = Tail(@)]
       \/ UNCHANGED onTheWay
    /\ Disturbs(Shows[b])
    /\ UNCHANGED <<drawn, historyBytes, running, view>>

-----------------------------------------------------------------------------
(* The view                                                                *)

(* The capture starts under the session lock: a termination waits for it.  *)
StartCapture(s) ==
    /\ view.step = "none" /\ running[s]
    /\ view' = [NoView EXCEPT !.step = "before", !.ref = s]
    /\ disturbed' = FALSE
    /\ UNCHANGED <<drawn, historyBytes, onTheWay, epochs, running, recorded>>

Advance(to) == view' = to /\ UNCHANGED <<drawn, historyBytes, onTheWay, epochs,
                                         running, recorded, disturbed>>

Ref == view.ref

(* CaptureHistory: display-message, the epoch, capture-pane, the epoch,    *)
(* display-message.  Binding and FollowedByOutput are made of the result.  *)
ReadBefore ==
    /\ view.step = "before"
    /\ Advance([view EXCEPT !.step = "before epoch",
                            !.before.bytes = historyBytes[Ref]])

ReadBeforeEpoch ==
    /\ view.step = "before epoch"
    /\ Advance([view EXCEPT !.step = "capture", !.before.epoch = epochs[Ref]])

CapturePane ==
    /\ view.step = "capture"
    /\ Advance([view EXCEPT !.step = "after epoch", !.text = drawn[Ref]])

(* The first epoch is read together with the second, after capture-pane.   *)
ReadAfterEpochTwice ==
    /\ view.step = "after epoch"
    /\ Advance([view EXCEPT !.step = "after", !.before.epoch = epochs[Ref],
                            !.after.epoch = epochs[Ref]])

ReadAfterEpoch ==
    /\ view.step = "after epoch"
    /\ Advance([view EXCEPT !.step = "after", !.after.epoch = epochs[Ref]])

ReadAfter ==
    /\ view.step = "after"
    /\ Advance([view EXCEPT !.step = "open", !.after.bytes = historyBytes[Ref]])

(* A tmux command of the capture fails, or the snapshot is refused.        *)
CaptureFails ==
    /\ view.step \in {"before", "capture", "after"}
    /\ Advance(NoView)

FollowedByOutput == view.before # view.after

(* GET of the snapshot: Binding and the pane are found, and tmux is asked. *)
Activity ==
    /\ view.step = "open" /\ running[Ref]
    /\ Advance([view EXCEPT !.step = "activity", !.answer = "none"])

ReadActivity ==
    /\ view.step = "activity" /\ running[Ref]
    /\ Advance([view EXCEPT !.step = "activity epoch",
                            !.seen = historyBytes[Ref]])

AnswerActivity ==
    /\ view.step = "activity epoch"
    /\ Advance([view EXCEPT !.step = "open", !.seen = 0,
          !.answer = IF epochs[Ref] # view.after.epoch
                        \/ view.seen # view.after.bytes
                     THEN "new" ELSE "quiet"])

ActivityFails ==
    /\ view.step = "activity"
    /\ Advance([view EXCEPT !.step = "open"])

(* The view is closed, expires, or its login ends.                         *)
CloseView == view.step = "open" /\ Advance(NoView)

(* A termination deletes the snapshots of the session and then Forgets its *)
(* epoch.  A capture holds the session lock; an activity request does not, *)
(* and goes on with the binding it has read.                               *)
TerminateSession(s) ==
    /\ running[s]
    /\ view.ref = s => view.step \in {"none", "open", "activity", "activity epoch"}
    /\ running' = [running EXCEPT ![s] = FALSE]
    /\ epochs' = [epochs EXCEPT ![s] = 0]
    /\ view' = IF view.ref = s /\ view.step = "open" THEN NoView ELSE view
    /\ UNCHANGED <<drawn, historyBytes, onTheWay, recorded, disturbed>>

ActivityNext ==
    \/ \E s \in Sessions : Draw(s) \/ StartCapture(s) \/ TerminateSession(s)
    \/ \E b \in Browsers : Observe(b)
    \/ ReadBefore \/ ReadBeforeEpoch \/ CapturePane \/ ReadAfterEpoch
    \/ ReadAfter \/ CaptureFails
    \/ Activity \/ ReadActivity \/ AnswerActivity \/ ActivityFails \/ CloseView

ActivitySpec == ActivityInit /\ [][ActivityNext]_activityVars

-----------------------------------------------------------------------------
(* Properties                                                              *)

(* When the page did not say that output followed, and an activity request *)
(* then answers that there is nothing new, the proxy had recorded no part  *)
(* of any output drawn after the captured text: reading the epoch before   *)
(* capture-pane and again before the second metadata leaves no gap, and an *)
(* epoch that has reached the largest integer still differs from the one   *)
(* a view holds, unless the view was captured there (CaptureHistory,       *)
(* Record, handleHistorySnapshot).                                         *)
NoMissedOutput ==
    AnswerActivity /\ view'.answer = "quiet" /\ ~FollowedByOutput
      /\ running[Ref] /\ view.after.epoch < MaxEpoch
    => recorded[Ref] <= view.text

(* A terminal that drew nothing, and of which nothing was on the way,      *)
(* since the capture began is never reported as changed, whatever the      *)
(* other sessions print: the epochs are kept apart by reference.           *)
QuietIsQuiet ==
    view.step = "open" /\ ~disturbed /\ running[Ref]
      => ~FollowedByOutput /\ view.answer # "new"

(* A view is told of output exactly when there was some: none is missed,   *)
(* none is invented, and the epochs stay in the range of integers a        *)
(* browser can compare (Record, CaptureHistory).                           *)
ActivityExact ==
    [][ActivityTypeOK' /\ QuietIsQuiet' /\ NoMissedOutput]_activityVars
=============================================================================
