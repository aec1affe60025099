------------------------- MODULE CaptureCoordinator -------------------------
(***************************************************************************)
(* The capture coordinator of History (history_capture_coordinator.go).    *)
(* Concurrent HTTP requests ask for the terminal history of a scope.  The  *)
(* first request of a scope leads: it runs tmux capture-pane and the ANSI  *)
(* parser outside the mutex.  Requests of the same scope that arrive       *)
(* meanwhile wait for its result, up to MaxWaiters of them.  Leading is    *)
(* limited per process, per login and, in a sliding window, per scope.     *)
(*                                                                         *)
(* A step of this module is one critical section of Do or removeWaiter, or *)
(* one of the unlocked pieces between them.                                *)
(***************************************************************************)
EXTENDS Naturals, Sequences, FiniteSets

CONSTANTS
    Requests,            \* the goroutines that serve create requests
    Users, Scopes,       \* a historyCaptureKey is a login and the rest of it
    Calls,               \* the heap addresses of historyCaptureCall objects
    NoCall,              \* the nil *historyCaptureCall
    MaxProcessCaptures, MaxLoginCaptures, MaxWaiters,
    Limit, Window, MaxScopes,
    MaxTime              \* a bound on the clock

ASSUME CoordinatorAssumption ==
    /\ NoCall \notin Calls
    /\ IsFiniteSet(Users) /\ IsFiniteSet(Scopes) /\ IsFiniteSet(Requests)
    /\ MaxProcessCaptures \in Nat /\ MaxLoginCaptures \in Nat
    /\ MaxWaiters \in Nat /\ Limit \in Nat /\ Window \in Nat
    /\ MaxScopes \in Nat /\ MaxTime \in Nat

VARIABLES
    now,            \* time.Now
    inFlight,       \* the call of each key, NoCall when there is none
    heap,           \* the historyCaptureCall objects
    activeCaptures, activeByLogin,
    rates,          \* historyRateState of the keys the table knows
    pc, key, call,  \* where a request is in Do, its key and its call
    answer,         \* what the last Do of a request returned
    started         \* history variable: when captures of a key started

vars == <<now, inFlight, heap, activeCaptures, activeByLogin, rates,
          pc, key, call, answer, started>>

Key == [user: Users, scope: Scopes]

(* A product is {k} for the history captured for key k, {} for an error.   *)
Product == {{}} \cup {{k} : k \in Key}

Call == [done: BOOLEAN, product: Product, waiters: Nat]
RateState == [requests: Seq(Nat), lastSeen: Nat]

(* The five refusals of Do reach the client as one: 429 with Retry-After.   *)
Answer == [status: {"none", "done", "refused", "cancelled"}, product: Product]
NoAnswer == [status |-> "none", product |-> {}]

Blank == [done |-> TRUE, product |-> {}, waiters |-> 0]

TypeOK ==
    /\ now \in Nat
    /\ inFlight \in [Key -> Calls \cup {NoCall}]
    /\ heap \in [Calls -> Call]
    /\ activeCaptures \in Nat
    /\ activeByLogin \in [Users -> Nat]
    /\ DOMAIN rates \subseteq Key
    /\ \A k \in DOMAIN rates : rates[k] \in RateState
    /\ pc \in [Requests -> {"idle", "wait", "leaving", "capture", "finish"}]
    /\ key \in [Requests -> Key]
    /\ call \in [Requests -> Calls \cup {NoCall}]
    /\ answer \in [Requests -> Answer]
    /\ started \in [Key -> Seq(Nat)]

Init ==
    /\ now = 0
    /\ inFlight = [k \in Key |-> NoCall]
    /\ heap = [c \in Calls |-> Blank]
    /\ activeCaptures = 0
    /\ activeByLogin = [u \in Users |-> 0]
    /\ rates = <<>>
    /\ pc = [p \in Requests |-> "idle"]
    /\ key \in [Requests -> Key]
    /\ call = [p \in Requests |-> NoCall]
    /\ answer = [p \in Requests |-> NoAnswer]
    /\ started = [k \in Key |-> <<>>]

-----------------------------------------------------------------------------
(* The rate limit: allowLocked                                             *)

InWindow(t, at) == t + Window > at

(* Of a list of times, those in the window, in their order.                *)
Recent(times, at) ==
    LET kept[i \in 0..Len(times)] ==
          IF i = 0 THEN <<>>
          ELSE IF InWindow(times[i], at) THEN Append(kept[i - 1], times[i])
          ELSE kept[i - 1]
    IN  kept[Len(times)]

(* A sweep that judges a scope by its oldest request.                      *)
RetainedByOldest ==
    {k \in DOMAIN rates : rates[k].requests[1] + Window >= now}

(* The scopes the sweep of allowLocked keeps.                              *)
Retained == {k \in DOMAIN rates : rates[k].lastSeen + Window >= now}

(* The requests of k that still count.                                     *)
Kept(k) ==
    IF k \in Retained THEN Recent(rates[k].requests, now) ELSE <<>>

TableFull(k) == k \notin Retained /\ Cardinality(Retained) >= MaxScopes
OverLimit(k) == Len(Kept(k)) >= Limit

(* The table after the sweep, with the state of k replaced by requests.    *)
Swept == [j \in Retained |-> rates[j]]
Seen(k, requests) ==
    [j \in Retained \cup {k} |->
        IF j = k THEN [requests |-> requests, lastSeen |-> now] ELSE rates[j]]

-----------------------------------------------------------------------------
(* Do, its first critical section                                          *)

Returns(p, status, product) ==
    /\ pc' = [pc EXCEPT ![p] = "idle"]
    /\ call' = [call EXCEPT ![p] = NoCall]
    /\ answer' = [answer EXCEPT ![p] = [status |-> status, product |-> product]]

(* The call of p once p drops it: the last reference frees it.             *)
Dropped(p, object) ==
    IF \E q \in Requests \ {p} : call[q] = call[p] THEN object ELSE Blank

(* A lookup that leaves the login out of the key.                          *)
JoinsAnyScope(k) ==
    IF \E j \in Key : j.scope = k.scope /\ inFlight[j] # NoCall
    THEN inFlight[CHOOSE j \in Key : j.scope = k.scope /\ inFlight[j] # NoCall]
    ELSE NoCall

(* c.inFlight[key]: the call a request of k joins, if there is one.        *)
Joinable(k) == inFlight[k]

(* The capacity test off by one.                                           *)
JoinLate(p, k) ==
    LET c == Joinable(k) IN
    /\ c # NoCall
    /\ heap[c].waiters <= MaxWaiters
    /\ heap' = [heap EXCEPT ![c].waiters = @ + 1]
    /\ pc' = [pc EXCEPT ![p] = "wait"]
    /\ call' = [call EXCEPT ![p] = c]
    /\ answer' = [answer EXCEPT ![p] = NoAnswer]
    /\ UNCHANGED <<inFlight, activeCaptures, activeByLogin, rates, started>>

Join(p, k) ==
    LET c == Joinable(k) IN
    /\ c # NoCall
    /\ heap[c].waiters < MaxWaiters
    /\ heap' = [heap EXCEPT ![c].waiters = @ + 1]
    /\ pc' = [pc EXCEPT ![p] = "wait"]
    /\ call' = [call EXCEPT ![p] = c]
    /\ answer' = [answer EXCEPT ![p] = NoAnswer]
    /\ UNCHANGED <<inFlight, activeCaptures, activeByLogin, rates, started>>

(* The request is refused before the rate limit is consulted.              *)
RefuseBusy(p, k) ==
    /\ \/ /\ Joinable(k) # NoCall
          /\ heap[Joinable(k)].waiters >= MaxWaiters
          /\ Returns(p, "refused", {})
       \/ /\ Joinable(k) = NoCall
          /\ activeCaptures >= MaxProcessCaptures
          /\ Returns(p, "refused", {})
       \/ /\ Joinable(k) = NoCall
          /\ activeCaptures < MaxProcessCaptures
          /\ activeByLogin[k.user] >= MaxLoginCaptures
          /\ Returns(p, "refused", {})
    /\ UNCHANGED <<inFlight, heap, activeCaptures, activeByLogin, rates, started>>

Admitted(k) ==
    /\ Joinable(k) = NoCall
    /\ activeCaptures < MaxProcessCaptures
    /\ activeByLogin[k.user] < MaxLoginCaptures

(* allowLocked refuses; its sweep and its update of lastSeen remain.       *)
RefuseRate(p, k) ==
    /\ Admitted(k)
    /\ \/ /\ TableFull(k)
          /\ rates' = Swept
          /\ Returns(p, "refused", {})
       \/ /\ ~TableFull(k)
          /\ OverLimit(k)
          /\ rates' = Seen(k, Kept(k))
          /\ Returns(p, "refused", {})
    /\ UNCHANGED <<inFlight, heap, activeCaptures, activeByLogin, started>>

(* An address no request and no map entry refers to.                       *)
Unused(c) ==
    /\ \A k \in Key : inFlight[k] # c
    /\ \A p \in Requests : call[p] # c

Lead(p, k) ==
    /\ Admitted(k)
    /\ ~TableFull(k)
    /\ ~OverLimit(k)
    /\ rates' = Seen(k, Append(Kept(k), now))
    /\ \E c \in Calls :
         /\ Unused(c)
         /\ heap' = [heap EXCEPT ![c] =
                       [done |-> FALSE, product |-> {}, waiters |-> 0]]
         /\ inFlight' = [inFlight EXCEPT ![k] = c]
         /\ call' = [call EXCEPT ![p] = c]
    /\ activeCaptures' = activeCaptures + 1
    /\ activeByLogin' = [activeByLogin EXCEPT ![k.user] = @ + 1]
    /\ pc' = [pc EXCEPT ![p] = "capture"]
    /\ started' = [started EXCEPT ![k] = Append(Recent(@, now), now)]
    /\ answer' = [answer EXCEPT ![p] = NoAnswer]

Do(p, k) ==
    /\ pc[p] = "idle"
    /\ key' = [key EXCEPT ![p] = k]
    /\ Join(p, k) \/ RefuseBusy(p, k) \/ RefuseRate(p, k) \/ Lead(p, k)
    /\ UNCHANGED now

-----------------------------------------------------------------------------
(* The leader                                                              *)

(* capture returns: with the parsed history, or with an error, which it    *)
(* may do at any time (tmux fails, the timeout, the client went away).     *)
(* call.product and call.err are assigned outside the mutex.               *)
CaptureReturns(p) ==
    /\ pc[p] = "capture"
    /\ \E product \in {{}, {key[p]}} :
         heap' = [heap EXCEPT ![call[p]].product = product]
    /\ pc' = [pc EXCEPT ![p] = "finish"]
    /\ UNCHANGED <<now, inFlight, activeCaptures, activeByLogin, rates,
                   key, call, answer, started>>

(* The slots are released only when the capture succeeded.                 *)
FinishOnSuccess(p) ==
    /\ pc[p] = "finish"
    /\ inFlight' = [inFlight EXCEPT ![key[p]] = NoCall]
    /\ IF heap[call[p]].product # {}
       THEN /\ activeCaptures' = activeCaptures - 1
            /\ activeByLogin' = [activeByLogin EXCEPT ![key[p].user] = @ - 1]
       ELSE UNCHANGED <<activeCaptures, activeByLogin>>
    /\ heap' = [heap EXCEPT ![call[p]] = Dropped(p, [@ EXCEPT !.done = TRUE])]
    /\ Returns(p, "done", heap[call[p]].product)
    /\ UNCHANGED <<now, rates, key, started>>

(* An error path that forgets close(call.done).                            *)
FinishUnsignalled(p) ==
    /\ pc[p] = "finish"
    /\ inFlight' = [inFlight EXCEPT ![key[p]] = NoCall]
    /\ activeCaptures' = activeCaptures - 1
    /\ activeByLogin' = [activeByLogin EXCEPT ![key[p].user] = @ - 1]
    /\ heap' = [heap EXCEPT ![call[p]] =
                 Dropped(p, [@ EXCEPT !.done = heap[call[p]].product # {}])]
    /\ Returns(p, "done", heap[call[p]].product)
    /\ UNCHANGED <<now, rates, key, started>>

Finish(p) ==
    /\ pc[p] = "finish"
    /\ inFlight' = [inFlight EXCEPT ![key[p]] = NoCall]
    /\ activeCaptures' = activeCaptures - 1
    /\ activeByLogin' = [activeByLogin EXCEPT ![key[p].user] = @ - 1]
    /\ heap' = [heap EXCEPT ![call[p]] = Dropped(p, [@ EXCEPT !.done = TRUE])]
    /\ Returns(p, "done", heap[call[p]].product)
    /\ UNCHANGED <<now, rates, key, started>>

-----------------------------------------------------------------------------
(* A waiter                                                                *)

WaiterServed(p) ==
    /\ pc[p] = "wait"
    /\ heap[call[p]].done
    /\ heap' = [heap EXCEPT ![call[p]] = Dropped(p, @)]
    /\ Returns(p, "done", heap[call[p]].product)
    /\ UNCHANGED <<now, inFlight, activeCaptures, activeByLogin, rates,
                   key, started>>

(* The client of a waiting request goes away: ctx.Done is chosen.          *)
WaiterCancelled(p) ==
    /\ pc[p] = "wait"
    /\ pc' = [pc EXCEPT ![p] = "leaving"]
    /\ UNCHANGED <<now, inFlight, heap, activeCaptures, activeByLogin, rates,
                   key, call, answer, started>>

(* The call is found by key again, not by the pointer the waiter joined.   *)
RemoveWaiterByKey(p) ==
    /\ pc[p] = "leaving"
    /\ heap' = IF inFlight[key[p]] # NoCall /\ heap[inFlight[key[p]]].waiters > 0
               THEN [heap EXCEPT ![inFlight[key[p]]].waiters = @ - 1]
               ELSE heap
    /\ Returns(p, "cancelled", {})
    /\ UNCHANGED <<now, inFlight, activeCaptures, activeByLogin, rates, key, started>>

(* By key, and without the test that there is a waiter to take off.        *)
RemoveWaiterUnguarded(p) ==
    /\ pc[p] = "leaving"
    /\ heap' = IF inFlight[key[p]] # NoCall
               THEN [heap EXCEPT ![inFlight[key[p]]].waiters = @ - 1]
               ELSE heap
    /\ Returns(p, "cancelled", {})
    /\ UNCHANGED <<now, inFlight, activeCaptures, activeByLogin, rates, key, started>>

(* The last waiter that leaves takes the call out of the map.              *)
RemoveLastWaiter(p) ==
    /\ pc[p] = "leaving"
    /\ heap' = [heap EXCEPT ![call[p]] = Dropped(p, @)]
    /\ inFlight' = IF inFlight[key[p]] = call[p] /\ heap[call[p]].waiters = 1
                   THEN [inFlight EXCEPT ![key[p]] = NoCall]
                   ELSE inFlight
    /\ Returns(p, "cancelled", {})
    /\ UNCHANGED <<now, activeCaptures, activeByLogin, rates, key, started>>

RemoveWaiter(p) ==
    /\ pc[p] = "leaving"
    /\ heap' = IF inFlight[key[p]] = call[p] /\ heap[call[p]].waiters > 0
               THEN [heap EXCEPT ![call[p]].waiters = @ - 1]
               ELSE [heap EXCEPT ![call[p]] = Dropped(p, @)]
    /\ Returns(p, "cancelled", {})
    /\ UNCHANGED <<now, inFlight, activeCaptures, activeByLogin, rates, key, started>>

-----------------------------------------------------------------------------
Tick ==
    /\ now < MaxTime
    /\ now' = now + 1
    /\ UNCHANGED <<inFlight, heap, activeCaptures, activeByLogin, rates,
                   pc, key, call, answer, started>>

Progress(p) ==
    CaptureReturns(p) \/ Finish(p) \/ WaiterServed(p) \/ RemoveWaiter(p)

Next ==
    \/ \E p \in Requests, k \in Key : Do(p, k)
    \/ \E p \in Requests : Progress(p) \/ WaiterCancelled(p)
    \/ Tick

Spec == Init /\ [][Next]_vars

(* The capture context has a timeout, so capture returns; a runnable       *)
(* goroutine runs.  Clients need not arrive, go away, or stay.             *)
FairSpec == Spec /\ \A p \in Requests : WF_vars(Progress(p))

-----------------------------------------------------------------------------
(* Properties                                                              *)

Capturing == {p \in Requests : pc[p] \in {"capture", "finish"}}
WaitingOn(c) == {p \in Requests : pc[p] \in {"wait", "leaving"} /\ call[p] = c}
InFlight == {k \in Key : inFlight[k] # NoCall}
InFlightOf(u) == {k \in InFlight : k.user = u}

(* The counters and the map of Do agree at every moment, whatever the      *)
(* outcome of the captures: a slot is neither leaked nor released twice.   *)
Accounting ==
    /\ activeCaptures = Cardinality(InFlight)
    /\ \A u \in Users : activeByLogin[u] = Cardinality(InFlightOf(u))

(* Every scope in flight has exactly one request capturing it, and every   *)
(* capturing request is the one its map entry points to: no second         *)
(* capture-pane of a scope runs beside the first.                          *)
OneCapturePerScope ==
    /\ \A p \in Capturing : call[p] # NoCall /\ inFlight[key[p]] = call[p]
    /\ \A p, q \in Capturing : key[p] = key[q] => p = q
    /\ \A k \in InFlight : \E p \in Capturing : key[p] = k

(* What the limits of newHistoryCaptureCoordinator are for: the work that  *)
(* really goes on at once, and the requests that really wait for a capture *)
(* in flight, stay within them.                                            *)
Budgets ==
    /\ Cardinality(Capturing) <= MaxProcessCaptures
    /\ \A u \in Users :
         Cardinality({p \in Capturing : key[p].user = u}) <= MaxLoginCaptures
    /\ \A k \in InFlight : Cardinality(WaitingOn(inFlight[k])) <= MaxWaiters
    /\ Cardinality(DOMAIN rates) <= MaxScopes

(* call.waiters of a capture in flight counts the requests that joined it  *)
(* and have not left; a late cancellation touches no other call.           *)
WaitersCounted ==
    \A k \in InFlight :
        heap[inFlight[k]].waiters = Cardinality(WaitingOn(inFlight[k]))

(* However the table is swept, no scope starts more than Limit captures in *)
(* any window.                                                             *)
RateBound == \A k \in Key : Len(Recent(started[k], now)) <= Limit

(* A request that is answered with history is answered with the history    *)
(* captured for its own login and scope.                                   *)
ScopedAnswer == \A p \in Requests :
    pc[p] = "idle" => answer[p].product \subseteq {key[p]}

(* Every request is answered: a leader that fails still releases those who *)
(* wait for it.                                                            *)
EveryRequestAnswered == \A p \in Requests : pc[p] # "idle" ~> pc[p] = "idle"
=============================================================================
