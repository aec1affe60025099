----------------------------- MODULE SessionTabs ----------------------------
(***************************************************************************)
(* The session tabs of the web page (static/app.js): a list request every  *)
(* three seconds and after every create or terminate, whose answers arrive *)
(* in any order, and the two modal dialogs that change the sessions.       *)
(*                                                                         *)
(* An event of the page runs to its end with the continuations of the      *)
(* promises it settles, so it is one step.  A page that gets a 401 leaves  *)
(* and its behaviour ends.  References are random and never used twice.    *)
(***************************************************************************)
EXTENDS Naturals, FiniteSets, Functions

CONSTANTS
    TabIDs,             \* public references
    MaxRefresh          \* bound on the list requests

ASSUME TabsAssumption == IsFiniteSet(TabIDs) /\ MaxRefresh \in Nat \ {0}

VARIABLES
    served,     \* reference -> "new", "live" or "gone", at the server
    changes,    \* how often that has changed: the server's time
    tabs,       \* renderedSessions
    page,       \* sessionRefreshEpoch, latestSessionRefresh, the requests by
                \* requestID, and the latestSessionRefreshRecord's (0: null)
    dialog,     \* the create or terminate under way
    shown,      \* server time of what the page shows
    buried      \* sessions the page took away after they were gone

tabsVars == <<served, changes, tabs, page, dialog, shown, buried>>

Live == {s \in TabIDs : served[s] = "live"}
Gone == {s \in TabIDs : served[s] = "gone"}
NoTab == "none"
Closed == [at |-> "closed", target |-> NoTab, time |-> 0, created |-> FALSE,
           epoch |-> 0, wait |-> 0]
Unconfirmed == [Closed EXCEPT !.at = "unconfirmed"]
Later(a, b) == IF a > b THEN a ELSE b

-----------------------------------------------------------------------------
(* The list requests.                                                      *)

ListRequest(epoch, at, list, time) ==
    [epoch |-> epoch, at |-> at, list |-> list, time |-> time]

(* A request that is settled and not the latest record is of no use.       *)
Pending(q) == q.at \in {"sent", "answered"}
Tidy(p) ==
    [p EXCEPT !.requests =
       Restrict(@, {i \in DOMAIN @ : i = p.record \/ Pending(p.requests[i])})]

(* refresh                                                                 *)
Refreshed(p) ==
    LET sent == ListRequest(p.epoch, "sent", {}, 0)
        id == p.latest + 1
    IN  Tidy([epoch |-> p.epoch, latest |-> id, record |-> id,
              requests |-> [i \in DOMAIN p.requests \cup {id} |->
                              IF i = id THEN sent ELSE p.requests[i]]])

(* How many list requests there were.                                      *)
Refreshes == page.latest - page.epoch

(* invalidateSessionRefreshes                                              *)
Invalidated(p) ==
    [epoch |-> p.epoch + 1, latest |-> p.latest + 1, record |-> 0,
     requests |-> p.requests]

(* Any request of the present epoch.                                       *)
IsLatestEpoch(i) == page.requests[i].epoch = page.epoch

(* sessionRefreshIsLatest                                                  *)
IsLatest(i) == page.requests[i].epoch = page.epoch /\ i = page.latest

(* handleListSessions: List reads the records; a session that ends before  *)
(* its turn, or whose topology cannot be read, is left out.                *)
ServeList(i, list) ==
    /\ page.requests[i].at = "sent" /\ list \subseteq Live
    /\ page' = [page EXCEPT !.requests[i] =
                  ListRequest(@.epoch, "answered", list, changes)]
    /\ UNCHANGED <<served, changes, tabs, dialog, shown, buried>>

(* setInterval(refresh, 3000)                                              *)
Poll ==
    /\ Refreshes < MaxRefresh
    /\ page' = Refreshed(page)
    /\ UNCHANGED <<served, changes, tabs, dialog, shown, buried>>

(* A request that was overtaken counts as good news.                       *)
FollowSupersededPlain(i) == Closed

(* waitForCreatedSessionReconciliation, after "superseded": wait for the   *)
(* latest request, which may have its outcome already.                     *)
FollowSuperseded(i) ==
    LET j == page.record
        q == page.requests[j]
    IN  IF j = 0 \/ j <= i THEN Unconfirmed
        ELSE IF q.epoch # dialog.epoch THEN Unconfirmed
        ELSE IF Pending(q) THEN [dialog EXCEPT !.wait = j]
        ELSE IF q.at = "applied" THEN Closed ELSE Unconfirmed

(* The continuation of the create that waits for request i, if one does.   *)
Continued(i, outcome) ==
    IF dialog.at # "wait" \/ dialog.wait # i THEN dialog
    ELSE IF page.requests[i].epoch # dialog.epoch THEN Unconfirmed
    ELSE CASE outcome = "applied" -> Closed
           [] outcome = "failed" -> Unconfirmed
           [] outcome = "superseded" -> FollowSuperseded(i)

Settled(i, outcome) ==
    Tidy([page EXCEPT !.requests[i] = ListRequest(@.epoch, outcome, {}, @.time)])

(* performSessionRefresh, when the answer arrives.                         *)
ListArrives(i) ==
    LET q == page.requests[i]
        outcome == IF IsLatest(i) THEN "applied" ELSE "superseded"
    IN  /\ q.at = "answered"
        /\ page' = Settled(i, outcome)
        /\ dialog' = Continued(i, outcome)
        /\ IF outcome = "applied"
           THEN /\ tabs' = q.list
                /\ shown' = q.time
                /\ buried' = buried \cup ((tabs \ q.list) \cap Gone)
           ELSE UNCHANGED <<tabs, shown, buried>>
        /\ UNCHANGED <<served, changes>>

(* ... and when it fails; whether the server had read the list is all one. *)
ListFails(i) ==
    LET q == page.requests[i]
        outcome == IF IsLatest(i) THEN "failed" ELSE "superseded"
    IN  /\ q.at = "sent"
        /\ page' = Settled(i, outcome)
        /\ dialog' = Continued(i, outcome)
        /\ UNCHANGED <<served, changes, tabs, shown, buried>>

-----------------------------------------------------------------------------
(* The dialogs.  They are modal and cannot be left while a request is      *)
(* under way: the user may submit when none is.                            *)

MaySubmit == dialog.at \in {"closed", "unconfirmed"} /\ Refreshes < MaxRefresh

SubmitCreate ==
    /\ MaySubmit
    /\ dialog' = [Closed EXCEPT !.at = "create"]
    /\ UNCHANGED <<served, changes, tabs, page, shown, buried>>

SubmitTerminate(s) ==
    /\ MaySubmit /\ s \in tabs
    /\ dialog' = [Closed EXCEPT !.at = "terminate", !.target = s]
    /\ UNCHANGED <<served, changes, tabs, page, shown, buried>>

(* The server creates a session or selects one that runs.                  *)
ServeCreate(s) ==
    /\ dialog.at = "create" /\ served[s] # "gone"
    /\ served' = [served EXCEPT ![s] = "live"]
    /\ changes' = IF served[s] = "new" THEN changes + 1 ELSE changes
    /\ dialog' = [dialog EXCEPT !.at = "created", !.target = s,
                                !.created = (served[s] = "new"), !.time = changes']
    /\ UNCHANGED <<tabs, page, shown, buried>>

(* The server terminates: 204.                                             *)
ServeTerminate ==
    /\ dialog.at = "terminate" /\ served[dialog.target] = "live"
    /\ served' = [served EXCEPT ![dialog.target] = "gone"]
    /\ changes' = changes + 1
    /\ dialog' = [dialog EXCEPT !.at = "terminated", !.time = changes']
    /\ UNCHANGED <<tabs, page, shown, buried>>

(* 404: findPublicSession failed, for whatever reason.                     *)
ServeNotFound ==
    /\ dialog.at = "terminate"
    /\ dialog' = [dialog EXCEPT !.at = "terminated", !.time = changes]
    /\ UNCHANGED <<served, changes, tabs, page, shown, buried>>

(* Any other answer to a DELETE.                                           *)
TerminateRefused ==
    /\ dialog.at = "terminate"
    /\ dialog' = Unconfirmed
    /\ page' = Refreshed(Invalidated(page))
    /\ UNCHANGED <<served, changes, tabs, shown, buried>>

(* No answer, or the refusal of a create: the server may have done it.     *)
SubmitFails ==
    /\ dialog.at \in {"create", "created", "terminate", "terminated"}
    /\ dialog' = Unconfirmed
    /\ UNCHANGED <<served, changes, tabs, page, shown, buried>>

(* createManagedSession, when the answer arrives.  The answer itself may   *)
(* be older than a list that was applied meanwhile; the refresh that       *)
(* follows it corrects the tab.                                            *)
CreateArrives ==
    /\ dialog.at = "created"
    /\ page' = Refreshed(Invalidated(page))
    /\ tabs' = tabs \cup {dialog.target}
    /\ shown' = Later(shown, dialog.time)
    /\ dialog' = IF dialog.created
                 THEN [dialog EXCEPT !.at = "wait", !.epoch = page'.epoch, !.wait = page'.record]
                 ELSE Closed
    /\ buried' = buried \ {dialog.target}
    /\ UNCHANGED <<served, changes>>

(* waitForSessionRefreshBefore: eight seconds have passed.                 *)
WaitExpires ==
    /\ dialog.at = "wait"
    /\ dialog' = Unconfirmed
    /\ UNCHANGED <<served, changes, tabs, page, shown, buried>>

(* terminateManagedSession, when 204 or 404 arrives.                       *)
TerminateArrives ==
    /\ dialog.at = "terminated"
    /\ page' = Refreshed(Invalidated(page))
    /\ tabs' = tabs \ {dialog.target}
    /\ shown' = Later(shown, dialog.time)
    /\ buried' = buried \cup ({dialog.target} \cap Gone)
    /\ dialog' = Closed
    /\ UNCHANGED <<served, changes>>

(* The CLI, another browser, or the program in the session.                *)
OthersCreate(s) ==
    /\ served[s] = "new"
    /\ served' = [served EXCEPT ![s] = "live"]
    /\ changes' = changes + 1
    /\ UNCHANGED <<tabs, page, dialog, shown, buried>>

OthersEnd(s) ==
    /\ served[s] = "live"
    /\ served' = [served EXCEPT ![s] = "gone"]
    /\ changes' = changes + 1
    /\ UNCHANGED <<tabs, page, dialog, shown, buried>>

TabsInit ==
    /\ served = [s \in TabIDs |-> "new"]
    /\ changes = 0 /\ tabs = {} /\ shown = 0 /\ buried = {}
    /\ page = Refreshed([epoch |-> 0, latest |-> 0, record |-> 0, requests |-> <<>>])
    /\ dialog = Closed

TabsNext ==
    \/ Poll \/ SubmitCreate \/ CreateArrives \/ WaitExpires
    \/ ServeTerminate \/ ServeNotFound \/ TerminateRefused \/ TerminateArrives \/ SubmitFails
    \/ \E i \in DOMAIN page.requests :
          \/ ListArrives(i) \/ ListFails(i)
          \/ \E list \in SUBSET Live : ServeList(i, list)
    \/ \E s \in TabIDs :
          SubmitTerminate(s) \/ ServeCreate(s) \/ OthersCreate(s) \/ OthersEnd(s)

TabsSpec == TabsInit /\ [][TabsNext]_tabsVars

-----------------------------------------------------------------------------
(* A tab that disappeared because its session was gone, by a list or by    *)
(* the answer to the page's own terminate, never comes back with a list    *)
(* that was read before; only the page's own create may bring it back.     *)
NoGhostTabs == buried \cap tabs = {}

(* What the page shows never goes back in the server's time: a list is     *)
(* applied only if the server read it after whatever the page has applied  *)
(* already, be it a list, a create or a terminate.                         *)
ShownNeverGoesBack == shown' >= shown

(* The tabs keep up with the server: no late answer undoes a newer one     *)
(* (performSessionRefresh, invalidateSessionRefreshes).                    *)
TabsKeepUp == [][NoGhostTabs' /\ ShownNeverGoesBack]_tabsVars

(* "Keep this dialog as the lifecycle owner until the latest list refresh  *)
(* is applied": a create dialog that waits for its new session closes only *)
(* after the page has applied a list read since the session was created.   *)
ClosedMeansListed ==
    [][dialog.at = "wait" /\ dialog'.at = "closed"
         => \E i \in DOMAIN page'.requests :
               /\ page'.requests[i].at = "applied"
               /\ page'.requests[i].time >= dialog.time]_tabsVars
=============================================================================
