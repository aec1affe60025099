---------------------- MODULE CaptureCoordinatorProofs ----------------------
(***************************************************************************)
(* The counters, budgets and answers of CaptureCoordinator are right for   *)
(* every number of requests, logins and scopes and for every limit.        *)
(*                                                                         *)
(* The accounting is not inductive by itself.  Finish subtracts, so it     *)
(* must be known that the finishing request's own entry is in the map; for *)
(* that, that no two requests capture one scope; for that, that Lead finds *)
(* an address nobody holds.  RemoveWaiter subtracts exactly when the call  *)
(* is still in flight, so a waiter's key and the key its call is filed     *)
(* under have to agree.                                                    *)
(*                                                                         *)
(* The rate limit uses nothing of this and has an invariant of its own.    *)
(***************************************************************************)
EXTENDS CaptureCoordinator, SumTheorems, SequenceTheorems, FiniteSetTheorems, TLAPS

(* The variables the argument uses; the rate table only by its domain.     *)
Types ==
    /\ inFlight \in [Key -> Calls \cup {NoCall}]
    /\ heap \in [Calls -> Call]
    /\ activeCaptures \in Nat
    /\ activeByLogin \in [Users -> Nat]
    /\ pc \in [Requests -> {"idle", "wait", "leaving", "capture", "finish"}]
    /\ key \in [Requests -> Key]
    /\ call \in [Requests -> Calls \cup {NoCall}]
    /\ answer \in [Requests -> Answer]

(* A request has a call exactly while it is inside Do.                     *)
Holding == \A p \in Requests : pc[p] = "idle" <=> call[p] = NoCall

(* A call is filed under one key and is not done while it is filed.        *)
Filed ==
    /\ \A j, k \in Key : inFlight[j] = inFlight[k] /\ inFlight[j] # NoCall => j = k
    /\ \A k \in Key : inFlight[k] # NoCall => heap[inFlight[k]].done = FALSE

(* A request whose call is filed has the key it is filed under.            *)
OwnKey == \A p \in Requests, k \in Key :
    inFlight[k] = call[p] /\ inFlight[k] # NoCall => k = key[p]

CapturingOf(u) == {p \in Capturing : key[p].user = u}

(* Accounting, and the same counters in terms of the requests.             *)
Counted ==
    /\ IsFiniteSet(InFlight)
    /\ Accounting
    /\ activeCaptures = Cardinality(Capturing)
    /\ \A u \in Users : activeByLogin[u] = Cardinality(CapturingOf(u))

Bounded ==
    /\ activeCaptures <= MaxProcessCaptures
    /\ \A u \in Users : activeByLogin[u] <= MaxLoginCaptures
    /\ \A k \in InFlight : heap[inFlight[k]].waiters <= MaxWaiters

TableBounded == IsFiniteSet(DOMAIN rates) /\ Cardinality(DOMAIN rates) <= MaxScopes

(* What a call holds was captured for the key of everyone who holds it.    *)
Scoped == \A p \in Requests :
    pc[p] # "idle" => heap[call[p]].product \subseteq {key[p]}

IndInv ==
    /\ Types /\ Holding /\ Filed /\ OwnKey /\ OneCapturePerScope
    /\ Counted /\ WaitersCounted /\ Bounded /\ TableBounded
    /\ Scoped /\ ScopedAnswer

-----------------------------------------------------------------------------
(* Steps                                                                   *)

(* Requests, and with it every set of requests, is finite.                 *)
LEMMA RequestsFinite ==
    ASSUME NEW S \in SUBSET Requests
    PROVE  IsFiniteSet(S) /\ Cardinality(S) \in Nat
  <1>1. IsFiniteSet(S)
    BY CoordinatorAssumption, FS_Subset
  <1> QED
    BY <1>1, FS_CardinalityType

(* The answer a request has while it is served is an answer.               *)
LEMMA NoAnswerType == NoAnswer \in Answer
  BY DEF NoAnswer, Answer, Product

(* The coordinator starts with the invariant.                              *)
LEMMA InitOK == Init => IndInv
  <1> SUFFICES ASSUME Init PROVE IndInv
    OBVIOUS
  <1> USE CoordinatorAssumption
  <1>1. Types
    BY DEF Init, Types, Blank, Call, Product, Answer, NoAnswer
  <1>2. Holding /\ Filed /\ OwnKey
    BY DEF Init, Holding, Filed, OwnKey
  <1>3. Capturing = {} /\ InFlight = {} /\ \A u \in Users : InFlightOf(u) = {} /\ CapturingOf(u) = {}
    BY DEF Init, Capturing, InFlight, InFlightOf, CapturingOf
  <1>4. OneCapturePerScope
    BY <1>3 DEF OneCapturePerScope
  <1>5. Counted
    BY <1>3, FS_EmptySet DEF Counted, Accounting, Init
  <1>6. WaitersCounted /\ Bounded
    BY <1>3 DEF WaitersCounted, Bounded, Init
  <1>7. TableBounded
    <2>1. DOMAIN rates = {}
      BY DEF Init
    <2> QED
      BY <2>1, FS_EmptySet DEF TableBounded
  <1>8. Scoped /\ ScopedAnswer
    BY DEF Scoped, ScopedAnswer, Init, NoAnswer
  <1> QED
    BY <1>1, <1>2, <1>4, <1>5, <1>6, <1>7, <1>8 DEF IndInv

(* A step that leaves the map, the counters and the capturing requests     *)
(* alone keeps the accounts.                                               *)
LEMMA CountedKept ==
    ASSUME Counted, UNCHANGED <<inFlight, activeCaptures, activeByLogin>>,
           Capturing' = Capturing,
           \A p \in Capturing : key'[p] = key[p]
    PROVE  Counted'
  <1>1. InFlight' = InFlight /\ \A u \in Users : InFlightOf(u)' = InFlightOf(u)
    BY DEF InFlight, InFlightOf
  <1>2. \A u \in Users : CapturingOf(u)' = CapturingOf(u)
    BY DEF CapturingOf
  <1> QED
    BY <1>1, <1>2 DEF Counted, Accounting

(* The calls in flight keep their objects and their waiters.               *)
LEMMA WaitersKept ==
    ASSUME WaitersCounted, UNCHANGED inFlight,
           \A k \in InFlight : /\ heap'[inFlight[k]].waiters = heap[inFlight[k]].waiters
                               /\ WaitingOn(inFlight[k])' = WaitingOn(inFlight[k])
    PROVE  WaitersCounted'
  BY DEF WaitersCounted, InFlight

(* A request that finds its scope in flight and joins it.                  *)
LEMMA JoinOK ==
    ASSUME IndInv, NEW p \in Requests, NEW k \in Key, pc[p] = "idle",
           key' = [key EXCEPT ![p] = k], Join(p, k)
    PROVE  IndInv'
  <1> DEFINE c == inFlight[k]
  <1>0. /\ c \in Calls /\ heap[c].waiters < MaxWaiters
        /\ heap' = [heap EXCEPT ![c].waiters = @ + 1]
        /\ pc' = [pc EXCEPT ![p] = "wait"]
        /\ call' = [call EXCEPT ![p] = c]
        /\ answer' = [answer EXCEPT ![p] = NoAnswer]
        /\ UNCHANGED <<inFlight, activeCaptures, activeByLogin, rates>>
    BY DEF Join, Joinable, IndInv, Types
  <1>1. Types'
    <2>1. heap' \in [Calls -> Call]
      BY <1>0 DEF IndInv, Types, Call
    <2>2. answer' \in [Requests -> Answer]
      BY <1>0, NoAnswerType DEF IndInv, Types
    <2> QED
      BY <1>0, <2>1, <2>2 DEF IndInv, Types
  <1>2. Holding' /\ Filed' /\ OwnKey'
    <2>1. Holding'
      BY <1>0, CoordinatorAssumption DEF IndInv, Types, Holding
    <2>2. Filed'
      BY <1>0 DEF IndInv, Types, Filed, Call
    <2>3. OwnKey'
      BY <1>0 DEF IndInv, Types, OwnKey, Filed
    <2> QED
      BY <2>1, <2>2, <2>3
  <1>3. /\ Capturing' = Capturing
        /\ p \notin Capturing
        /\ \A q \in Capturing : key'[q] = key[q] /\ call'[q] = call[q]
    BY <1>0 DEF IndInv, Types, Capturing
  <1>4. OneCapturePerScope'
    BY <1>0, <1>3 DEF IndInv, OneCapturePerScope, InFlight
  <1>5. Counted'
    BY <1>0, <1>3, CountedKept DEF IndInv
  <1>6. WaitersCounted' /\ Bounded'
    <2> SUFFICES ASSUME NEW j \in InFlight
                 PROVE  /\ heap'[inFlight[j]].waiters = Cardinality(WaitingOn(inFlight[j])')
                        /\ heap'[inFlight[j]].waiters <= MaxWaiters
      BY <1>0 DEF WaitersCounted, Bounded, InFlight, IndInv
    <2>1. CASE j = k
      <3>1. WaitingOn(c)' = WaitingOn(c) \cup {p} /\ p \notin WaitingOn(c)
        BY <1>0 DEF WaitingOn, IndInv, Types, Holding
      <3>2. WaitingOn(c) \in SUBSET Requests
        BY DEF WaitingOn
      <3>3. Cardinality(WaitingOn(c)') = Cardinality(WaitingOn(c)) + 1
        BY <3>1, <3>2, RequestsFinite, FS_AddElement
      <3>4. heap[c].waiters = Cardinality(WaitingOn(c)) /\ heap[c].waiters \in Nat
        BY <1>0, <2>1 DEF IndInv, WaitersCounted, Types, Call
      <3>5. heap'[c].waiters = heap[c].waiters + 1
        BY <1>0 DEF IndInv, Types, Call
      <3> QED
        BY <1>0, <2>1, <3>3, <3>4, <3>5, CoordinatorAssumption
    <2>2. CASE j # k
      <3>1. inFlight[j] # c
        BY <1>0, <2>2 DEF IndInv, Filed, InFlight
      <3>2. WaitingOn(inFlight[j])' = WaitingOn(inFlight[j])
        BY <1>0, <3>1 DEF WaitingOn, IndInv, Types, Holding, InFlight
      <3>3. heap'[inFlight[j]] = heap[inFlight[j]]
        BY <1>0, <3>1 DEF IndInv, Types, InFlight
      <3> QED
        BY <3>2, <3>3 DEF IndInv, WaitersCounted, Bounded
    <2> QED
      BY <2>1, <2>2
  <1>7. TableBounded'
    BY <1>0 DEF IndInv, TableBounded
  <1>8. \A d \in Calls : heap'[d].product = heap[d].product
    BY <1>0 DEF IndInv, Types, Call
  <1>9. Scoped'
    <2>1. heap[c].product \subseteq {k}
      <3>1. PICK q \in Capturing : key[q] = k
        BY <1>0, CoordinatorAssumption DEF IndInv, OneCapturePerScope, InFlight
      <3>2. call[q] = c /\ pc[q] # "idle" /\ q \in Requests
        BY <3>1 DEF IndInv, OneCapturePerScope, Capturing
      <3> QED
        BY <3>1, <3>2 DEF IndInv, Scoped
    <2>2. \A q \in Requests : pc[q] # "idle" => call[q] \in Calls
      BY DEF IndInv, Types, Holding
    <2> QED
      BY <1>0, <1>8, <2>1, <2>2 DEF IndInv, Types, Scoped
  <1>10. ScopedAnswer'
    BY <1>0 DEF IndInv, Types, ScopedAnswer
  <1> QED
    BY <1>1, <1>2, <1>4, <1>5, <1>6, <1>7, <1>9, <1>10 DEF IndInv

(* A request that is refused changes the rate table at most.               *)
LEMMA RefusedOK ==
    ASSUME IndInv, NEW p \in Requests, NEW k \in Key, pc[p] = "idle",
           key' = [key EXCEPT ![p] = k], Returns(p, "refused", {}),
           UNCHANGED <<inFlight, heap, activeCaptures, activeByLogin>>,
           TableBounded'
    PROVE  IndInv'
  <1>0. pc' = pc /\ call' = call
    BY DEF Returns, IndInv, Types, Holding
  <1>1. Types'
    BY <1>0 DEF Returns, IndInv, Types, Answer, Product
  <1>2. Holding' /\ Filed' /\ OwnKey'
    BY <1>0 DEF IndInv, Types, Holding, Filed, OwnKey
  <1>3. Capturing' = Capturing /\ \A q \in Capturing : key'[q] = key[q]
    BY <1>0 DEF IndInv, Types, Capturing
  <1>4. OneCapturePerScope'
    BY <1>0, <1>3 DEF IndInv, OneCapturePerScope, InFlight
  <1>5. Counted'
    BY <1>3, CountedKept DEF IndInv
  <1>6. WaitersCounted' /\ Bounded'
    BY <1>0 DEF IndInv, WaitersCounted, Bounded, InFlight, WaitingOn
  <1>7. Scoped' /\ ScopedAnswer'
    BY <1>0 DEF IndInv, Types, Scoped, ScopedAnswer, Returns
  <1> QED
    BY <1>1, <1>2, <1>4, <1>5, <1>6, <1>7 DEF IndInv

(* The sweep of allowLocked only shrinks the table ...                     *)
LEMMA RetainedOK ==
    ASSUME IndInv
    PROVE  /\ IsFiniteSet(Retained) /\ Cardinality(Retained) \in Nat
           /\ Cardinality(Retained) <= MaxScopes
  <1>1. /\ Retained \in SUBSET DOMAIN rates
        /\ IsFiniteSet(DOMAIN rates) /\ Cardinality(DOMAIN rates) <= MaxScopes
        /\ Cardinality(DOMAIN rates) \in Nat /\ MaxScopes \in Nat
    BY CoordinatorAssumption, FS_CardinalityType DEF Retained, IndInv, TableBounded
  <1>2. /\ IsFiniteSet(Retained)
        /\ Cardinality(Retained) <= Cardinality(DOMAIN rates)
    BY <1>1, FS_Subset
  <1>3. Cardinality(Retained) \in Nat
    BY <1>2, FS_CardinalityType
  <1> QED
    BY <1>1, <1>2, <1>3

(* ... and an entry is added only while there is room for it.              *)
LEMMA SeenOK ==
    ASSUME IndInv, NEW k \in Key, NEW requests, ~TableFull(k),
           rates' = Seen(k, requests)
    PROVE  TableBounded'
  <1>1. DOMAIN rates' = Retained \cup {k}
    BY DEF Seen
  <1>2. k \in Retained \/ Cardinality(Retained) < MaxScopes
    BY RetainedOK, CoordinatorAssumption DEF TableFull
  <1>3. /\ IsFiniteSet(Retained \cup {k})
        /\ Cardinality(Retained \cup {k}) =
             IF k \in Retained THEN Cardinality(Retained) ELSE Cardinality(Retained) + 1
    <2>1. IsFiniteSet(Retained)
      BY RetainedOK
    <2> QED
      BY <2>1, FS_AddElement
  <1>4. Cardinality(Retained \cup {k}) <= MaxScopes
    BY <1>2, <1>3, RetainedOK, CoordinatorAssumption
  <1> QED
    BY <1>1, <1>3, <1>4 DEF TableBounded

(* A request that leads: its address is new, so it shares nothing.         *)
LEMMA LeadOK ==
    ASSUME IndInv, NEW p \in Requests, NEW k \in Key, pc[p] = "idle",
           key' = [key EXCEPT ![p] = k], Lead(p, k)
    PROVE  IndInv'
  <1> DEFINE Fresh == [done |-> FALSE, product |-> {}, waiters |-> 0]
  <1>0. PICK c \in Calls :
          /\ Unused(c)
          /\ heap' = [heap EXCEPT ![c] = Fresh]
          /\ inFlight' = [inFlight EXCEPT ![k] = c]
          /\ call' = [call EXCEPT ![p] = c]
    BY DEF Lead
  <1>1. /\ inFlight[k] = NoCall
        /\ activeCaptures < MaxProcessCaptures
        /\ activeByLogin[k.user] < MaxLoginCaptures
        /\ ~TableFull(k)
        /\ rates' = Seen(k, Append(Kept(k), now))
        /\ activeCaptures' = activeCaptures + 1
        /\ activeByLogin' = [activeByLogin EXCEPT ![k.user] = @ + 1]
        /\ pc' = [pc EXCEPT ![p] = "capture"]
        /\ answer' = [answer EXCEPT ![p] = NoAnswer]
    BY DEF Lead, Admitted, Joinable
  <1>2. k.user \in Users /\ Fresh \in Call /\ Fresh.done = FALSE
        /\ Fresh.product = {} /\ Fresh.waiters = 0
    BY DEF Key, Call, Product
  <1> HIDE DEF Fresh
  <1>3. /\ \A j \in Key : inFlight[j] # c
        /\ \A q \in Requests : call[q] # c
        /\ c # NoCall
    BY <1>0, CoordinatorAssumption DEF Unused
  <1>4. Types'
    BY <1>0, <1>1, <1>2, NoAnswerType DEF IndInv, Types
  <1>5. Holding'
    BY <1>0, <1>1, <1>3 DEF IndInv, Types, Holding
  <1>6. Filed'
    BY <1>0, <1>2, <1>3 DEF IndInv, Types, Filed
  <1>7. OwnKey'
    BY <1>0, <1>3 DEF IndInv, Types, OwnKey
  <1>8. /\ Capturing' = Capturing \cup {p} /\ p \notin Capturing
        /\ \A q \in Capturing : q # p /\ key'[q] = key[q] /\ call'[q] = call[q]
        /\ key'[p] = k /\ call'[p] = c
    BY <1>0, <1>1 DEF IndInv, Types, Capturing
  <1>9. InFlight' = InFlight \cup {k} /\ k \notin InFlight
    BY <1>0, <1>1, <1>3 DEF IndInv, Types, InFlight
  <1>10. \A q \in Capturing : q \in Requests /\ key[q] # k /\ key[q] \in Key
    BY <1>1 DEF IndInv, Types, OneCapturePerScope, Capturing
  <1>11. OneCapturePerScope'
    <2>1. \A q \in Capturing' : call'[q] # NoCall /\ inFlight'[key'[q]] = call'[q]
      BY <1>0, <1>3, <1>8, <1>10 DEF IndInv, Types, OneCapturePerScope
    <2>2. \A q, r \in Capturing' : key'[q] = key'[r] => q = r
      BY <1>8, <1>10 DEF IndInv, OneCapturePerScope
    <2>3. \A j \in InFlight' : \E q \in Capturing' : key'[q] = j
      BY <1>8, <1>9 DEF IndInv, OneCapturePerScope
    <2> QED
      BY <2>1, <2>2, <2>3 DEF OneCapturePerScope
  <1>12. Counted'
    <2>1. /\ IsFiniteSet(InFlight')
          /\ Cardinality(InFlight') = Cardinality(InFlight) + 1
      BY <1>9, FS_AddElement DEF IndInv, Counted
    <2>2. Cardinality(Capturing') = Cardinality(Capturing) + 1
      <3>1. Capturing \in SUBSET Requests
        BY DEF Capturing
      <3> QED
        BY <1>8, <3>1, RequestsFinite, FS_AddElement
    <2>3. ASSUME NEW u \in Users
          PROVE  /\ activeByLogin'[u] = Cardinality(InFlightOf(u)')
                 /\ activeByLogin'[u] = Cardinality(CapturingOf(u)')
      <3>1. /\ activeByLogin[u] = Cardinality(InFlightOf(u)) /\ activeByLogin[u] \in Nat
            /\ activeByLogin[u] = Cardinality(CapturingOf(u))
        BY DEF IndInv, Counted, Accounting, Types
      <3>2. IsFiniteSet(InFlightOf(u)) /\ IsFiniteSet(CapturingOf(u))
        <4>1. InFlightOf(u) \in SUBSET InFlight /\ CapturingOf(u) \in SUBSET Requests
          BY DEF InFlightOf, CapturingOf, Capturing
        <4> QED
          BY <4>1, FS_Subset, RequestsFinite DEF IndInv, Counted
      <3>3. CASE u = k.user
        <4>1. InFlightOf(u)' = InFlightOf(u) \cup {k} /\ k \notin InFlightOf(u)
          BY <1>9, <3>3 DEF InFlightOf
        <4>2. CapturingOf(u)' = CapturingOf(u) \cup {p} /\ p \notin CapturingOf(u)
          BY <1>8, <3>3 DEF CapturingOf
        <4>3. /\ Cardinality(InFlightOf(u)') = Cardinality(InFlightOf(u)) + 1
              /\ Cardinality(CapturingOf(u)') = Cardinality(CapturingOf(u)) + 1
          BY <3>2, <4>1, <4>2, FS_AddElement
        <4> QED
          BY <1>1, <3>1, <3>3, <4>3 DEF IndInv, Types
      <3>4. CASE u # k.user
        <4>1. InFlightOf(u)' = InFlightOf(u)
          BY <1>9, <3>4 DEF InFlightOf
        <4>2. CapturingOf(u)' = CapturingOf(u)
          BY <1>8, <3>4 DEF CapturingOf
        <4> QED
          BY <1>1, <3>1, <3>4, <4>1, <4>2 DEF IndInv, Types
      <3> QED
        BY <3>3, <3>4
    <2> QED
      BY <1>1, <2>1, <2>2, <2>3 DEF IndInv, Counted, Accounting
  <1>13. WaitersCounted' /\ Bounded'
    <2>1. ASSUME NEW j \in InFlight'
          PROVE  /\ heap'[inFlight'[j]].waiters = Cardinality(WaitingOn(inFlight[j])')
                 /\ heap'[inFlight'[j]].waiters <= MaxWaiters
      <3>1. CASE j = k
        <4>2. heap'[c].waiters = 0 /\ inFlight'[j] = c
          BY <1>0, <1>2, <3>1 DEF IndInv, Types
        <4>1. WaitingOn(inFlight[j])' = {}
          BY <1>0, <1>1, <1>3, <4>2 DEF IndInv, Types, WaitingOn
        <4> QED
          BY <4>1, <4>2, FS_EmptySet, CoordinatorAssumption
      <3>2. CASE j # k
        <4>1. j \in InFlight /\ inFlight'[j] = inFlight[j] /\ inFlight[j] # c
              /\ inFlight[j] \in Calls
          BY <1>0, <1>3, <1>9, <3>2 DEF IndInv, Types, InFlight
        <4>2. WaitingOn(inFlight[j])' = WaitingOn(inFlight[j])
          BY <1>0, <1>1, <1>3, <4>1 DEF IndInv, Types, Holding, WaitingOn
        <4>3. heap'[inFlight[j]] = heap[inFlight[j]]
          BY <1>0, <4>1 DEF IndInv, Types
        <4>4. /\ heap[inFlight[j]].waiters = Cardinality(WaitingOn(inFlight[j]))
              /\ heap[inFlight[j]].waiters <= MaxWaiters
          BY <4>1 DEF IndInv, WaitersCounted, Bounded
        <4> QED
          BY <4>1, <4>2, <4>3, <4>4
      <3> QED
        BY <3>1, <3>2
    <2>2. activeCaptures' <= MaxProcessCaptures
      BY <1>1, CoordinatorAssumption DEF IndInv, Types
    <2>3. \A u \in Users : activeByLogin'[u] <= MaxLoginCaptures
      BY <1>1, <1>2, CoordinatorAssumption DEF IndInv, Types, Bounded
    <2> QED
      BY <2>1, <2>2, <2>3 DEF WaitersCounted, Bounded
  <1>14. TableBounded'
    BY <1>1, SeenOK
  <1>15. Scoped'
    BY <1>0, <1>1, <1>2, <1>3 DEF IndInv, Types, Holding, Scoped
  <1>16. ScopedAnswer'
    BY <1>1 DEF IndInv, Types, ScopedAnswer
  <1> QED
    BY <1>4, <1>5, <1>6, <1>7, <1>11, <1>12, <1>13, <1>14, <1>15, <1>16 DEF IndInv

(* The first critical section of Do.                                       *)
LEMMA DoOK ==
    ASSUME IndInv, NEW p \in Requests, NEW k \in Key, Do(p, k)
    PROVE  IndInv'
  <1>0. pc[p] = "idle" /\ key' = [key EXCEPT ![p] = k]
    BY DEF Do
  <1>1. CASE Join(p, k)
    BY <1>0, <1>1, JoinOK
  <1>2. CASE RefuseBusy(p, k)
    <2>1. Returns(p, "refused", {})
          /\ UNCHANGED <<inFlight, heap, activeCaptures, activeByLogin, rates>>
      BY <1>2 DEF RefuseBusy
    <2>2. TableBounded'
      BY <2>1 DEF IndInv, TableBounded
    <2> QED
      BY <1>0, <2>1, <2>2, RefusedOK
  <1>3. CASE RefuseRate(p, k)
    <2>1. /\ Returns(p, "refused", {})
          /\ UNCHANGED <<inFlight, heap, activeCaptures, activeByLogin>>
          /\ \/ rates' = Swept
             \/ ~TableFull(k) /\ rates' = Seen(k, Kept(k))
      BY <1>3 DEF RefuseRate
    <2>2. ASSUME rates' = Swept PROVE TableBounded'
      BY <2>2, RetainedOK DEF Swept, TableBounded
    <2>3. TableBounded'
      BY <2>1, <2>2, SeenOK
    <2> QED
      BY <1>0, <2>1, <2>3, RefusedOK
  <1>4. CASE Lead(p, k)
    BY <1>0, <1>4, LeadOK
  <1> QED
    BY <1>1, <1>2, <1>3, <1>4 DEF Do

(* The object a request lets go of keeps its content as long as another    *)
(* request holds it.                                                       *)
LEMMA DroppedOK ==
    ASSUME NEW p \in Requests, NEW object \in Call
    PROVE  /\ Dropped(p, object) \in Call
           /\ \A q \in Requests \ {p} : call[q] = call[p] => Dropped(p, object) = object
  <1>1. Blank \in Call
    BY DEF Blank, Call, Product
  <1> QED
    BY <1>1 DEF Dropped

(* The leader's assignment to call.product.                                *)
LEMMA CaptureReturnsOK ==
    ASSUME IndInv, NEW p \in Requests, CaptureReturns(p)
    PROVE  IndInv'
  <1>0. PICK product \in {{}, {key[p]}} :
          heap' = [heap EXCEPT ![call[p]].product = product]
    BY DEF CaptureReturns
  <1>1. /\ pc[p] = "capture" /\ pc' = [pc EXCEPT ![p] = "finish"]
        /\ UNCHANGED <<inFlight, activeCaptures, activeByLogin, rates, key, call, answer>>
    BY DEF CaptureReturns
  <1>2. product \in Product /\ product \subseteq {key[p]} /\ key[p] \in Key
    BY <1>0 DEF IndInv, Types, Product
  <1>3. Capturing' = Capturing /\ p \in Capturing
    BY <1>1 DEF IndInv, Types, Capturing
  <1>4. call[p] \in Calls /\ inFlight[key[p]] = call[p]
    BY <1>3, CoordinatorAssumption DEF IndInv, Types, OneCapturePerScope
  <1>5. \A d \in Calls : /\ heap'[d] \in Call
                         /\ heap'[d].done = heap[d].done
                         /\ heap'[d].waiters = heap[d].waiters
                         /\ heap'[d].product = IF d = call[p] THEN product ELSE heap[d].product
    BY <1>0, <1>2, <1>4 DEF IndInv, Types, Call
  <1>6. Types'
    BY <1>0, <1>1, <1>5 DEF IndInv, Types
  <1>7. Holding' /\ Filed' /\ OwnKey'
    BY <1>1, <1>5, SMTT(60) DEF IndInv, Types, Holding, Filed, OwnKey
  <1>8. OneCapturePerScope'
    BY <1>1, <1>3 DEF IndInv, OneCapturePerScope, InFlight
  <1>9. Counted'
    BY <1>1, <1>3, CountedKept DEF IndInv
  <1>10. WaitersCounted' /\ Bounded'
    <2>1. \A d : WaitingOn(d)' = WaitingOn(d)
      BY <1>1 DEF IndInv, Types, WaitingOn
    <2>2. InFlight' = InFlight /\ \A k \in InFlight : inFlight[k] \in Calls
      BY <1>1 DEF InFlight, IndInv, Types
    <2>3. \A k \in InFlight : /\ heap'[inFlight[k]].waiters = heap[inFlight[k]].waiters
                              /\ WaitingOn(inFlight[k])' = WaitingOn(inFlight[k])
      BY <1>1, <1>5, <2>1, <2>2 DEF WaitingOn
    <2> QED
      BY <1>1, <2>2, <2>3, WaitersKept DEF IndInv, Bounded
  <1>11. TableBounded'
    BY <1>1 DEF IndInv, TableBounded
  <1>12. Scoped'
    <2> SUFFICES ASSUME NEW q \in Requests, pc'[q] # "idle"
                 PROVE  heap'[call[q]].product \subseteq {key[q]}
      BY <1>1 DEF Scoped
    <2>1. pc[q] # "idle" /\ call[q] \in Calls
      BY <1>1 DEF IndInv, Types, Holding
    <2>2. call[q] = call[p] => key[q] = key[p]
      BY <1>2, <1>4, CoordinatorAssumption DEF IndInv, OwnKey
    <2> QED
      BY <1>2, <1>5, <2>1, <2>2 DEF IndInv, Scoped
  <1>13. ScopedAnswer'
    BY <1>1 DEF IndInv, Types, ScopedAnswer
  <1> QED
    BY <1>6, <1>7, <1>8, <1>9, <1>10, <1>11, <1>12, <1>13 DEF IndInv

(* The second critical section of Do.                                      *)
LEMMA FinishOK ==
    ASSUME IndInv, NEW p \in Requests, Finish(p)
    PROVE  IndInv'
  <1> DEFINE c == call[p]
             k == key[p]
             closed == [heap[c] EXCEPT !.done = TRUE]
  <1>1. /\ pc[p] = "finish"
        /\ inFlight' = [inFlight EXCEPT ![k] = NoCall]
        /\ activeCaptures' = activeCaptures - 1
        /\ activeByLogin' = [activeByLogin EXCEPT ![k.user] = @ - 1]
        /\ heap' = [heap EXCEPT ![c] = Dropped(p, closed)]
        /\ pc' = [pc EXCEPT ![p] = "idle"]
        /\ call' = [call EXCEPT ![p] = NoCall]
        /\ answer' = [answer EXCEPT ![p] = [status |-> "done", product |-> heap[c].product]]
        /\ UNCHANGED <<rates, key>>
    BY DEF Finish, Returns
  <1>2. /\ Capturing' = Capturing \ {p} /\ p \in Capturing
        /\ \A q \in Capturing \ {p} : q \in Requests /\ call'[q] = call[q]
    BY <1>1 DEF IndInv, Types, Capturing
  <1>3. c \in Calls /\ inFlight[k] = c /\ k \in Key /\ c # NoCall
    BY <1>2, CoordinatorAssumption DEF IndInv, Types, OneCapturePerScope
  <1>4. k.user \in Users
    BY <1>3 DEF Key
  <1>5. /\ closed \in Call /\ closed.product = heap[c].product
        /\ heap[c].product \in Product
    BY <1>3 DEF IndInv, Types, Call
  <1>6. heap[c].product \subseteq {k}
    BY <1>1 DEF IndInv, Scoped
  <1> HIDE DEF c, k, closed
  <1>7. InFlight' = InFlight \ {k} /\ k \in InFlight
    BY <1>1, <1>3 DEF IndInv, Types, InFlight
  <1>8. \A j \in InFlight' : /\ j \in InFlight /\ j # k /\ inFlight'[j] = inFlight[j]
                             /\ inFlight[j] # c /\ inFlight[j] \in Calls
                             /\ heap'[inFlight[j]] = heap[inFlight[j]]
    BY <1>1, <1>3, <1>7 DEF IndInv, Types, Filed, InFlight
  <1>9. /\ IsFiniteSet(InFlight) /\ IsFiniteSet(InFlight')
        /\ Cardinality(InFlight') = Cardinality(InFlight) - 1
        /\ Cardinality(InFlight') \in Nat
    BY <1>7, FS_RemoveElement, FS_CardinalityType DEF IndInv, Counted
  <1>10. ASSUME NEW u \in Users
         PROVE  /\ activeByLogin'[u] \in Nat
                /\ activeByLogin'[u] <= activeByLogin[u]
                /\ activeByLogin'[u] = Cardinality(InFlightOf(u)')
                /\ activeByLogin'[u] = Cardinality(CapturingOf(u)')
    <2>1. /\ activeByLogin[u] = Cardinality(InFlightOf(u)) /\ activeByLogin[u] \in Nat
          /\ activeByLogin[u] = Cardinality(CapturingOf(u))
      BY DEF IndInv, Counted, Accounting, Types
    <2>2. IsFiniteSet(InFlightOf(u)) /\ IsFiniteSet(CapturingOf(u))
      <3>1. InFlightOf(u) \in SUBSET InFlight /\ CapturingOf(u) \in SUBSET Requests
        BY DEF InFlightOf, CapturingOf, Capturing
      <3> QED
        BY <1>9, <3>1, FS_Subset, RequestsFinite
    <2>3. CASE u = k.user
      <3>1. InFlightOf(u)' = InFlightOf(u) \ {k} /\ k \in InFlightOf(u)
        BY <1>7, <2>3 DEF InFlightOf
      <3>2. CapturingOf(u)' = CapturingOf(u) \ {p} /\ p \in CapturingOf(u)
        BY <1>1, <1>2, <2>3 DEF CapturingOf, k
      <3>3. /\ Cardinality(InFlightOf(u)') = Cardinality(InFlightOf(u)) - 1
            /\ Cardinality(CapturingOf(u)') = Cardinality(CapturingOf(u)) - 1
            /\ Cardinality(InFlightOf(u)') \in Nat
        BY <2>2, <3>1, <3>2, FS_RemoveElement, FS_CardinalityType
      <3>4. activeByLogin'[u] = activeByLogin[u] - 1
        BY <1>1, <1>4, <2>3 DEF IndInv, Types
      <3>5. activeByLogin'[u] = Cardinality(InFlightOf(u)')
        BY <2>1, <3>3, <3>4
      <3>6. activeByLogin'[u] = Cardinality(CapturingOf(u)')
        BY <2>1, <3>3, <3>4
      <3>7. activeByLogin'[u] \in Nat
        BY <3>3, <3>5
      <3>8. activeByLogin'[u] <= activeByLogin[u]
        BY <2>1, <3>4
      <3> QED
        BY <3>5, <3>6, <3>7, <3>8
    <2>4. CASE u # k.user
      <3>1. InFlightOf(u)' = InFlightOf(u)
        BY <1>7, <2>4 DEF InFlightOf
      <3>2. CapturingOf(u)' = CapturingOf(u)
        BY <1>1, <1>2, <2>4 DEF CapturingOf, k
      <3>3. activeByLogin'[u] = activeByLogin[u]
        BY <1>1, <1>4, <2>4 DEF IndInv, Types
      <3>5. activeByLogin'[u] = Cardinality(InFlightOf(u)')
        BY <2>1, <3>1, <3>3
      <3>6. activeByLogin'[u] = Cardinality(CapturingOf(u)')
        BY <2>1, <3>2, <3>3
      <3>7. activeByLogin'[u] \in Nat /\ activeByLogin'[u] <= activeByLogin[u]
        BY <2>1, <3>3
      <3> QED
        BY <3>5, <3>6, <3>7
    <2> QED
      BY <2>3, <2>4
  <1>11. activeCaptures' \in Nat /\ activeCaptures' <= activeCaptures
         /\ activeCaptures' = Cardinality(InFlight')
    <2>1. activeCaptures \in Nat /\ activeCaptures = Cardinality(InFlight)
      BY DEF IndInv, Types, Counted, Accounting
    <2>2. activeCaptures' = Cardinality(InFlight')
      BY <1>1, <1>9, <2>1
    <2>3. activeCaptures' \in Nat
      BY <1>9, <2>2
    <2>4. activeCaptures' <= activeCaptures
      BY <1>1, <2>1
    <2> QED
      BY <2>2, <2>3, <2>4
  <1>12. Types'
    <2>1. answer' \in [Requests -> Answer]
      <3>1. [status |-> "done", product |-> heap[c].product] \in Answer
        BY <1>5 DEF Answer
      <3> QED
        BY <1>1, <3>1 DEF IndInv, Types
    <2>2. heap' \in [Calls -> Call]
      BY <1>1, <1>3, <1>5, DroppedOK DEF IndInv, Types
    <2>3. activeByLogin' \in [Users -> Nat]
      <3>1. activeByLogin' = [u \in Users |-> activeByLogin'[u]]
        BY <1>1 DEF IndInv, Types
      <3> QED
        BY <1>10, <3>1
    <2>4. inFlight' \in [Key -> Calls \cup {NoCall}]
      BY <1>1 DEF IndInv, Types
    <2> QED
      BY <1>1, <1>11, <2>1, <2>2, <2>3, <2>4 DEF IndInv, Types
  <1>13. Holding'
    BY <1>1 DEF IndInv, Types, Holding
  <1>14. Filed'
    BY <1>1, <1>8 DEF IndInv, Types, Filed, InFlight
  <1>15. OwnKey'
    BY <1>1, <1>8 DEF IndInv, Types, OwnKey, InFlight
  <1>16. OneCapturePerScope'
    <2>1. \A q \in Capturing' : key[q] # k
      BY <1>2 DEF IndInv, OneCapturePerScope, k
    <2>2. \A q \in Capturing' : call'[q] # NoCall /\ inFlight'[key'[q]] = call'[q]
      BY <1>1, <1>2, <2>1 DEF IndInv, Types, OneCapturePerScope
    <2>3. \A q, r \in Capturing' : key'[q] = key'[r] => q = r
      BY <1>1, <1>2 DEF IndInv, OneCapturePerScope
    <2>4. \A j \in InFlight' : \E q \in Capturing' : key'[q] = j
      BY <1>1, <1>2, <1>7 DEF IndInv, OneCapturePerScope, k
    <2> QED
      BY <2>2, <2>3, <2>4 DEF OneCapturePerScope
  <1>17. Counted'
    <2>1. Cardinality(Capturing') = Cardinality(Capturing) - 1
      <3>1. Capturing \in SUBSET Requests
        BY DEF Capturing
      <3> QED
        BY <1>2, <3>1, RequestsFinite, FS_RemoveElement
    <2> QED
      BY <1>1, <1>9, <1>10, <1>11, <2>1 DEF IndInv, Counted, Accounting
  <1>18. WaitersCounted' /\ Bounded'
    <2>1. ASSUME NEW j \in InFlight'
          PROVE  /\ heap'[inFlight'[j]].waiters = Cardinality(WaitingOn(inFlight[j])')
                 /\ heap'[inFlight'[j]].waiters <= MaxWaiters
      <3>1. WaitingOn(inFlight[j])' = WaitingOn(inFlight[j])
        BY <1>1, <1>8, CoordinatorAssumption DEF IndInv, Types, WaitingOn
      <3>2. /\ heap[inFlight[j]].waiters = Cardinality(WaitingOn(inFlight[j]))
            /\ heap[inFlight[j]].waiters <= MaxWaiters
        BY <1>8 DEF IndInv, WaitersCounted, Bounded
      <3> QED
        BY <1>8, <3>1, <3>2
    <2>2. activeCaptures' <= MaxProcessCaptures
      BY <1>11, CoordinatorAssumption DEF IndInv, Types, Bounded
    <2>3. \A u \in Users : activeByLogin'[u] <= MaxLoginCaptures
      BY <1>10, CoordinatorAssumption DEF IndInv, Types, Bounded
    <2> QED
      BY <2>1, <2>2, <2>3 DEF WaitersCounted, Bounded
  <1>19. TableBounded'
    BY <1>1 DEF IndInv, TableBounded
  <1>20. Scoped'
    <2> SUFFICES ASSUME NEW q \in Requests, pc'[q] # "idle"
                 PROVE  heap'[call'[q]].product \subseteq {key[q]}
      BY <1>1 DEF Scoped
    <2>1. q # p /\ pc[q] # "idle" /\ call'[q] = call[q] /\ call[q] \in Calls
      BY <1>1 DEF IndInv, Types, Holding
    <2>2. heap'[call[q]].product = heap[call[q]].product
      BY <1>1, <1>3, <1>5, <2>1, DroppedOK DEF IndInv, Types, c
    <2> QED
      BY <2>1, <2>2 DEF IndInv, Scoped
  <1>21. ScopedAnswer'
    BY <1>1, <1>6 DEF IndInv, Types, ScopedAnswer, k
  <1> QED
    BY <1>12, <1>13, <1>14, <1>15, <1>16, <1>17, <1>18, <1>19, <1>20, <1>21 DEF IndInv

(* A request that waits for a call in flight is one of those it counts.    *)
LEMMA WaiterCounts ==
    ASSUME IndInv, NEW p \in Requests, NEW k \in Key,
           pc[p] \in {"wait", "leaving"}, inFlight[k] = call[p]
    PROVE  /\ call[p] \in Calls /\ k \in InFlight /\ k = key[p]
           /\ heap[call[p]].waiters \in Nat /\ heap[call[p]].waiters > 0
           /\ heap[call[p]].waiters = Cardinality(WaitingOn(call[p]))
  <1>1. call[p] \in Calls /\ call[p] # NoCall
    BY DEF IndInv, Types, Holding
  <1>2. k \in InFlight /\ k = key[p]
    BY <1>1 DEF IndInv, InFlight, OwnKey
  <1>3. heap[call[p]].waiters \in Nat
    BY <1>1 DEF IndInv, Types, Call
  <1>4. heap[call[p]].waiters = Cardinality(WaitingOn(call[p]))
    BY <1>2 DEF IndInv, WaitersCounted
  <1>5. IsFiniteSet(WaitingOn(call[p])) /\ p \in WaitingOn(call[p])
    <2>1. WaitingOn(call[p]) \in SUBSET Requests
      BY DEF WaitingOn
    <2> QED
      BY <2>1, RequestsFinite DEF WaitingOn
  <1>6. Cardinality(WaitingOn(call[p])) # 0
    BY <1>5, FS_EmptySet
  <1> QED
    BY <1>1, <1>2, <1>3, <1>4, <1>6

(* A waiter leaves.  What it leaves behind in its call has to have one     *)
(* waiter less if the call is in flight, and the same product if anybody   *)
(* else holds it.                                                          *)
LEMMA LeaveOK ==
    ASSUME IndInv, NEW p \in Requests, NEW object \in Call,
           NEW status \in {"done", "cancelled"}, NEW product \in Product,
           pc[p] \in {"wait", "leaving"}, product \subseteq {key[p]},
           heap' = [heap EXCEPT ![call[p]] = object],
           \A q \in Requests \ {p} :
               call[q] = call[p] => object.product = heap[call[p]].product,
           \A k \in Key : inFlight[k] = call[p] =>
               object.done = FALSE /\ object.waiters = heap[call[p]].waiters - 1,
           Returns(p, status, product),
           UNCHANGED <<inFlight, activeCaptures, activeByLogin, rates, key>>
    PROVE  IndInv'
  <1> DEFINE c == call[p]
  <1>1. /\ pc' = [pc EXCEPT ![p] = "idle"]
        /\ call' = [call EXCEPT ![p] = NoCall]
        /\ answer' = [answer EXCEPT ![p] = [status |-> status, product |-> product]]
    BY DEF Returns
  <1>2. c \in Calls /\ c # NoCall
    BY CoordinatorAssumption DEF IndInv, Types, Holding
  <1>3. \A d \in Calls : heap'[d] = IF d = c THEN object ELSE heap[d]
    BY <1>2 DEF IndInv, Types
  <1>4. Types'
    <2>1. [status |-> status, product |-> product] \in Answer
      BY DEF Answer
    <2>2. heap' \in [Calls -> Call]
      BY <1>2 DEF IndInv, Types
    <2> QED
      BY <1>1, <2>1, <2>2 DEF IndInv, Types
  <1>5. Holding'
    BY <1>1 DEF IndInv, Types, Holding
  <1>6. Filed'
    BY <1>3 DEF IndInv, Types, Filed
  <1>7. OwnKey'
    BY <1>1 DEF IndInv, Types, OwnKey
  <1>8. /\ Capturing' = Capturing
        /\ \A q \in Capturing : q \in Requests /\ call'[q] = call[q]
    BY <1>1 DEF IndInv, Types, Capturing
  <1>9. OneCapturePerScope'
    BY <1>8 DEF IndInv, OneCapturePerScope, InFlight
  <1>10. Counted'
    BY <1>8, CountedKept DEF IndInv
  <1>11. InFlight' = InFlight
    BY DEF InFlight
  <1>12. ASSUME NEW k \in InFlight
         PROVE  /\ heap'[inFlight[k]].waiters = Cardinality(WaitingOn(inFlight[k])')
                /\ heap'[inFlight[k]].waiters <= MaxWaiters
    <2>0. k \in Key /\ inFlight[k] \in Calls
      BY DEF InFlight, IndInv, Types
    <2>1. /\ heap[inFlight[k]].waiters \in Nat
          /\ heap[inFlight[k]].waiters = Cardinality(WaitingOn(inFlight[k]))
          /\ heap[inFlight[k]].waiters <= MaxWaiters
      BY <2>0 DEF IndInv, Types, Call, WaitersCounted, Bounded
    <2>2. CASE inFlight[k] = c
      <3>1. WaitingOn(inFlight[k])' = WaitingOn(inFlight[k]) \ {p}
            /\ p \in WaitingOn(inFlight[k])
        BY <1>1, <1>2, <2>2 DEF IndInv, Types, WaitingOn
      <3>2. IsFiniteSet(WaitingOn(inFlight[k]))
        <4>1. WaitingOn(inFlight[k]) \in SUBSET Requests
          BY DEF WaitingOn
        <4> QED
          BY <4>1, RequestsFinite
      <3>3. Cardinality(WaitingOn(inFlight[k])') = Cardinality(WaitingOn(inFlight[k])) - 1
        BY <3>1, <3>2, FS_RemoveElement, ZenonT(60)
      <3>4. heap'[inFlight[k]].waiters = heap[inFlight[k]].waiters - 1
        BY <1>3, <2>0, <2>2
      <3>5. heap'[inFlight[k]].waiters = Cardinality(WaitingOn(inFlight[k])')
        BY <2>1, <3>3, <3>4
      <3>6. heap'[inFlight[k]].waiters <= MaxWaiters
        BY <2>1, <3>4, CoordinatorAssumption
      <3> QED
        BY <3>5, <3>6
    <2>3. CASE inFlight[k] # c
      <3>1. WaitingOn(inFlight[k])' = WaitingOn(inFlight[k])
        BY <1>1, <2>0, <2>3, CoordinatorAssumption DEF IndInv, Types, WaitingOn
      <3>2. heap'[inFlight[k]] = heap[inFlight[k]]
        BY <1>3, <2>0, <2>3
      <3> QED
        BY <2>1, <3>1, <3>2
    <2> QED
      BY <2>2, <2>3
  <1>13. WaitersCounted' /\ Bounded'
    BY <1>11, <1>12 DEF WaitersCounted, Bounded, IndInv
  <1>14. TableBounded'
    BY DEF IndInv, TableBounded
  <1>15. Scoped'
    <2> SUFFICES ASSUME NEW q \in Requests, pc'[q] # "idle"
                 PROVE  heap'[call'[q]].product \subseteq {key[q]}
      BY DEF Scoped
    <2>1. q # p /\ pc[q] # "idle" /\ call'[q] = call[q] /\ call[q] \in Calls
      BY <1>1 DEF IndInv, Types, Holding
    <2>2. heap'[call[q]].product = heap[call[q]].product
      BY <1>3, <2>1
    <2> QED
      BY <2>1, <2>2 DEF IndInv, Scoped
  <1>16. ScopedAnswer'
    BY <1>1 DEF IndInv, Types, ScopedAnswer
  <1> QED
    BY <1>4, <1>5, <1>6, <1>7, <1>9, <1>10, <1>13, <1>14, <1>15, <1>16 DEF IndInv

(* A waiter is served once its call is done, and then no longer filed.     *)
LEMMA WaiterServedOK ==
    ASSUME IndInv, NEW p \in Requests, WaiterServed(p)
    PROVE  IndInv'
  <1> DEFINE object == Dropped(p, heap[call[p]])
             product == heap[call[p]].product
  <1>1. /\ pc[p] \in {"wait", "leaving"} /\ heap[call[p]].done
        /\ Returns(p, "done", product)
        /\ UNCHANGED <<inFlight, activeCaptures, activeByLogin, rates, key>>
    BY DEF WaiterServed
  <1>2. heap' = [heap EXCEPT ![call[p]] = object]
    BY DEF WaiterServed
  <1>3. call[p] \in Calls /\ call[p] # NoCall /\ heap[call[p]] \in Call
    BY <1>1, CoordinatorAssumption DEF IndInv, Types, Holding
  <1>4. product \in Product /\ product \subseteq {key[p]}
    BY <1>1, <1>3 DEF Call, IndInv, Scoped
  <1>5. object \in Call
    BY <1>3, DroppedOK
  <1>6. \A q \in Requests \ {p} :
          call[q] = call[p] => object.product = heap[call[p]].product
    BY <1>3, DroppedOK
  <1>7. \A k \in Key : inFlight[k] # call[p]
    BY <1>1, <1>3 DEF IndInv, Filed
  <1> HIDE DEF object, product
  <1> QED
    BY <1>1, <1>2, <1>4, <1>5, <1>6, <1>7, LeaveOK

(* removeWaiter finds the call by the key and compares the pointer.        *)
LEMMA RemoveWaiterOK ==
    ASSUME IndInv, NEW p \in Requests, RemoveWaiter(p)
    PROVE  IndInv'
  <1>1. /\ pc[p] \in {"wait", "leaving"}
        /\ Returns(p, "cancelled", {})
        /\ UNCHANGED <<inFlight, activeCaptures, activeByLogin, rates, key>>
    BY DEF RemoveWaiter
  <1>2. call[p] \in Calls /\ call[p] # NoCall /\ heap[call[p]] \in Call /\ key[p] \in Key
    BY <1>1, CoordinatorAssumption DEF IndInv, Types, Holding
  <1>3. {} \in Product /\ {} \subseteq {key[p]}
    BY DEF Product
  <1>4. CASE inFlight[key[p]] = call[p]
    <2> DEFINE object == [heap[call[p]] EXCEPT !.waiters = @ - 1]
    <2>1. heap[call[p]].waiters \in Nat /\ heap[call[p]].waiters > 0
      BY <1>1, <1>2, <1>4, WaiterCounts
    <2>2. heap' = [heap EXCEPT ![call[p]] = object]
      BY <1>4, <2>1 DEF RemoveWaiter
    <2>3. /\ object.done = heap[call[p]].done
          /\ object.product = heap[call[p]].product
          /\ object.waiters = heap[call[p]].waiters - 1
          /\ heap[call[p]].waiters - 1 \in Nat
      BY <1>2, <2>1 DEF Call
    <2>4. object \in Call
      BY <1>2, <2>3 DEF Call
    <2>5. \A k \in Key : inFlight[k] = call[p] => heap[call[p]].done = FALSE
      BY <1>2 DEF IndInv, Filed
    <2> HIDE DEF object
    <2>6. \A k \in Key : inFlight[k] = call[p] =>
            object.done = FALSE /\ object.waiters = heap[call[p]].waiters - 1
      BY <2>3, <2>5
    <2> QED
      BY <1>1, <1>3, <2>2, <2>3, <2>4, <2>6, LeaveOK
  <1>5. CASE inFlight[key[p]] # call[p]
    <2> DEFINE object == Dropped(p, heap[call[p]])
    <2>1. heap' = [heap EXCEPT ![call[p]] = object]
      BY <1>5 DEF RemoveWaiter
    <2>2. /\ object \in Call
          /\ \A q \in Requests \ {p} :
               call[q] = call[p] => object.product = heap[call[p]].product
      BY <1>2, DroppedOK
    <2>3. \A k \in Key : inFlight[k] # call[p]
      BY <1>2, <1>5 DEF IndInv, OwnKey
    <2> HIDE DEF object
    <2> QED
      BY <1>1, <1>3, <2>1, <2>2, <2>3, LeaveOK
  <1> QED
    BY <1>4, <1>5

(* Choosing ctx.Done changes nothing anybody else can see.                 *)
LEMMA WaiterCancelledOK ==
    ASSUME IndInv, NEW p \in Requests, WaiterCancelled(p)
    PROVE  IndInv'
  <1>1. /\ pc[p] = "wait" /\ pc' = [pc EXCEPT ![p] = "leaving"]
        /\ UNCHANGED <<inFlight, heap, activeCaptures, activeByLogin, rates, key, call, answer>>
    BY DEF WaiterCancelled
  <1>2. Types' /\ Holding' /\ Filed' /\ OwnKey'
    BY <1>1 DEF IndInv, Types, Holding, Filed, OwnKey
  <1>3. Capturing' = Capturing
    BY <1>1 DEF IndInv, Types, Capturing
  <1>4. OneCapturePerScope'
    BY <1>1, <1>3 DEF IndInv, OneCapturePerScope, InFlight
  <1>5. Counted'
    BY <1>1, <1>3, CountedKept DEF IndInv
  <1>6. WaitersCounted' /\ Bounded'
    <2>1. InFlight' = InFlight
      BY <1>1 DEF InFlight
    <2>2. \A k \in InFlight : WaitingOn(inFlight[k])' = WaitingOn(inFlight[k])
      BY <1>1 DEF IndInv, Types, WaitingOn
    <2> QED
      BY <1>1, <2>1, <2>2, WaitersKept DEF IndInv, Bounded
  <1>7. TableBounded'
    BY <1>1 DEF IndInv, TableBounded
  <1>8. Scoped' /\ ScopedAnswer'
    BY <1>1 DEF IndInv, Types, Scoped, ScopedAnswer
  <1> QED
    BY <1>2, <1>4, <1>5, <1>6, <1>7, <1>8 DEF IndInv

(* The invariant says nothing about the clock and about started.           *)
LEMMA StutterOK ==
    ASSUME IndInv, UNCHANGED <<inFlight, heap, activeCaptures, activeByLogin,
                               rates, pc, key, call, answer>>
    PROVE  IndInv'
  <1>1. Types' /\ Holding' /\ Filed' /\ OwnKey' /\ OneCapturePerScope' /\ WaitersCounted'
    BY DEF IndInv, Types, Holding, Filed, OwnKey, OneCapturePerScope, WaitersCounted,
           Capturing, InFlight, WaitingOn
  <1>2. Counted'
    BY CountedKept DEF IndInv, Capturing
  <1>3. Bounded' /\ TableBounded' /\ Scoped' /\ ScopedAnswer'
    BY DEF IndInv, Bounded, TableBounded, Scoped, ScopedAnswer, InFlight
  <1> QED
    BY <1>1, <1>2, <1>3 DEF IndInv

(* Every step of the coordinator keeps the invariant.                      *)
LEMMA NextOK == IndInv /\ [Next]_vars => IndInv'
  <1> SUFFICES ASSUME IndInv, [Next]_vars PROVE IndInv'
    OBVIOUS
  <1>1. ASSUME NEW p \in Requests, NEW k \in Key, Do(p, k) PROVE IndInv'
    BY <1>1, DoOK
  <1>2. ASSUME NEW p \in Requests, Progress(p) PROVE IndInv'
    BY <1>2, CaptureReturnsOK, FinishOK, WaiterServedOK, RemoveWaiterOK DEF Progress
  <1>3. ASSUME NEW p \in Requests, WaiterCancelled(p) PROVE IndInv'
    BY <1>3, WaiterCancelledOK
  <1>4. CASE Tick
    BY <1>4, StutterOK DEF Tick
  <1>5. CASE UNCHANGED vars
    BY <1>5, StutterOK DEF vars
  <1> QED
    BY <1>1, <1>2, <1>3, <1>4, <1>5 DEF Next

-----------------------------------------------------------------------------
(* Theorems                                                                *)

(* The strengthening holds in every reachable state.                       *)
THEOREM Invariance == Spec => []IndInv
  BY InitOK, NextOK, PTL DEF Spec

(* activeCaptures and activeByLogin count the entries of inFlight in every *)
(* state: no path of Do leaks a slot or releases one twice.                *)
THEOREM AccountingSafety == Spec => []Accounting
  <1>1. IndInv => Accounting
    BY DEF IndInv, Counted
  <1> QED
    BY <1>1, Invariance, PTL

(* A scope in flight is being captured by one request and no other, the    *)
(* one whose call the map holds.                                           *)
THEOREM SingleCapture == Spec => []OneCapturePerScope
  <1>1. IndInv => OneCapturePerScope
    BY DEF IndInv
  <1> QED
    BY <1>1, Invariance, PTL

(* call.waiters of a capture in flight is the number of its waiters, with  *)
(* cancellations at any point of the capture.                              *)
THEOREM WaiterSafety == Spec => []WaitersCounted
  <1>1. IndInv => WaitersCounted
    BY DEF IndInv
  <1> QED
    BY <1>1, Invariance, PTL

(* The captures and the waiters that really exist, and the rate table,     *)
(* never exceed the limits of newHistoryCaptureCoordinator, whatever       *)
(* these are.                                                              *)
THEOREM BudgetSafety == Spec => []Budgets
  <1>1. IndInv => Budgets
    <2> SUFFICES ASSUME IndInv PROVE Budgets
      OBVIOUS
    <2>1. Cardinality(Capturing) <= MaxProcessCaptures
      BY DEF IndInv, Counted, Bounded
    <2>2. \A u \in Users :
            Cardinality({p \in Capturing : key[p].user = u}) <= MaxLoginCaptures
      BY DEF IndInv, Counted, Bounded, CapturingOf
    <2>3. \A k \in InFlight : Cardinality(WaitingOn(inFlight[k])) <= MaxWaiters
      BY DEF IndInv, Bounded, WaitersCounted
    <2>4. Cardinality(DOMAIN rates) <= MaxScopes
      BY DEF IndInv, TableBounded
    <2> QED
      BY <2>1, <2>2, <2>3, <2>4 DEF Budgets
  <1> QED
    BY <1>1, Invariance, PTL

(* No request is answered with history captured for another login or       *)
(* another scope, whoever joined, left or led in between.                  *)
THEOREM ScopeSafety == Spec => []ScopedAnswer
  <1>1. IndInv => ScopedAnswer
    BY DEF IndInv
  <1> QED
    BY <1>1, Invariance, PTL

-----------------------------------------------------------------------------
(* The rate limit                                                          *)
(*                                                                         *)
(* The limit is on what started, the test is on what the table remembers.  *)
(* For every window that ends now or later the two count the same: the     *)
(* loop of allowLocked drops only times that have left the window, and the *)
(* sweep only scopes whose last request, and so every request, has.        *)

(* R is the loop of allowLocked over the first n times of s.               *)
Filters(R, s, n, at) ==
    R = [i \in 0..n |-> IF i = 0 THEN <<>>
                        ELSE IF InWindow(s[i], at) THEN Append(R[i - 1], s[i])
                        ELSE R[i - 1]]

(* Recent is some function with the equation of the loop.                  *)
LEMMA RecentIs ==
  ASSUME NEW s, NEW at
  PROVE  Recent(s, at) = (CHOOSE R : Filters(R, s, Len(s), at))[Len(s)]
BY DEF Recent, Filters

(* The equation, step by step.                                             *)
LEMMA FiltersStep ==
  ASSUME NEW R, NEW s, NEW n \in Nat, NEW at, Filters(R, s, n, at)
  PROVE  /\ R[0] = <<>>
         /\ \A i \in 1..n : R[i] = IF InWindow(s[i], at) THEN Append(R[i - 1], s[i]) ELSE R[i - 1]
<1>1. R = [i \in 0..n |-> IF i = 0 THEN <<>>
                          ELSE IF InWindow(s[i], at) THEN Append(R[i - 1], s[i])
                          ELSE R[i - 1]]
  BY DEF Filters
<1>2. \A i \in 0..n : R[i] = IF i = 0 THEN <<>>
                             ELSE IF InWindow(s[i], at) THEN Append(R[i - 1], s[i])
                             ELSE R[i - 1]
  BY <1>1
<1> QED
  BY <1>2

(* There is such a function, by induction on n.                            *)
LEMMA FiltersExist ==
  ASSUME NEW s, NEW at, NEW n \in Nat
  PROVE  \E R : Filters(R, s, n, at)
<1> DEFINE G == {m \in Nat : \E R : Filters(R, s, m, at)}
<1>1. 0 \in G
  <2> DEFINE R == [i \in 0..0 |-> <<>>]
  <2>1. R = [i \in 0..0 |-> IF i = 0 THEN <<>>
                            ELSE IF InWindow(s[i], at) THEN Append(R[i - 1], s[i])
                            ELSE R[i - 1]]
    OBVIOUS
  <2>2. Filters(R, s, 0, at)
    BY <2>1 DEF Filters
  <2> QED
    BY <2>2
<1>2. ASSUME NEW m \in Nat, m \in G PROVE m + 1 \in G
  <2>1. PICK R : Filters(R, s, m, at)
    BY <1>2
  <2> DEFINE V(i) == IF i = 0 THEN <<>>
                     ELSE IF InWindow(s[i], at) THEN Append(R[i - 1], s[i])
                     ELSE R[i - 1]
             Q == [i \in 0..(m + 1) |-> V(i)]
  <2>2. \A i \in 0..m : R[i] = V(i)
    <3>1. /\ R[0] = <<>>
          /\ \A i \in 1..m : R[i] = IF InWindow(s[i], at) THEN Append(R[i - 1], s[i]) ELSE R[i - 1]
      BY <2>1, FiltersStep
    <3>2. \A i \in 0..m : i # 0 => i \in 1..m
      OBVIOUS
    <3> QED
      BY ONLY <3>1, <3>2
  <2>3. \A i \in 0..m : Q[i] = R[i]
    <3>1. \A i \in 0..m : i \in 0..(m + 1)
      OBVIOUS
    <3>2. \A i \in 0..(m + 1) : Q[i] = V(i)
      OBVIOUS
    <3> HIDE DEF Q, V
    <3> QED
      BY <2>2, <3>1, <3>2
  <2>4. \A i \in 0..(m + 1) : i # 0 => i - 1 \in 0..m
    OBVIOUS
  <2>5. \A i \in 0..(m + 1) : V(i) = IF i = 0 THEN <<>>
                                     ELSE IF InWindow(s[i], at) THEN Append(Q[i - 1], s[i])
                                     ELSE Q[i - 1]
    <3> HIDE DEF Q
    <3> QED
      BY <2>3, <2>4
  <2>6. Q = [i \in 0..(m + 1) |-> IF i = 0 THEN <<>>
                                  ELSE IF InWindow(s[i], at) THEN Append(Q[i - 1], s[i])
                                  ELSE Q[i - 1]]
    <3>1. Q = [i \in 0..(m + 1) |-> V(i)]
      OBVIOUS
    <3> HIDE DEF Q, V
    <3> QED
      BY <2>5, <3>1
  <2>7. Filters(Q, s, m + 1, at)
    <3> HIDE DEF Q
    <3> QED
      BY <2>6 DEF Filters
  <2> HIDE DEF Q
  <2> QED
    BY <2>7
<1>3. Nat \subseteq G
  <2> HIDE DEF G
  <2> QED
    BY <1>1, <1>2, NatSteps
<1> QED
  BY <1>3

(* How many of the times of s are in the window that ends with b.          *)
Within(s, b) == {i \in DOMAIN s : InWindow(s[i], b)}
Number(s, b) == Cardinality(Within(s, b))

(* Such a number is one.                                                   *)
LEMMA NumberType ==
  ASSUME NEW T, NEW s \in Seq(T), NEW b
  PROVE  IsFiniteSet(Within(s, b)) /\ Number(s, b) \in Nat
<1>1. DOMAIN s = 1..Len(s) /\ Len(s) \in Nat
  OBVIOUS
<1>2. IsFiniteSet(1..Len(s))
  BY <1>1, FS_Interval
<1>3. Within(s, b) \subseteq 1..Len(s)
  BY <1>1 DEF Within
<1>4. IsFiniteSet(Within(s, b))
  BY <1>2, <1>3, FS_Subset
<1> QED
  BY <1>4, FS_CardinalityType DEF Number

(* A time more counts once, while it is in the window.                     *)
LEMMA NumberAppend ==
  ASSUME NEW T, NEW s \in Seq(T), NEW x \in T, NEW b
  PROVE  Number(Append(s, x), b) = Number(s, b) + (IF InWindow(x, b) THEN 1 ELSE 0)
<1> DEFINE a == Append(s, x)
           n == Len(s) + 1
<1>1. DOMAIN s = 1..Len(s) /\ Len(s) \in Nat /\ DOMAIN a = 1..n
  OBVIOUS
<1>2. (\A i \in 1..Len(s) : a[i] = s[i]) /\ a[n] = x
  BY AppendProperties
<1>3. IsFiniteSet(Within(s, b)) /\ Number(s, b) \in Nat /\ Number(s, b) = Cardinality(Within(s, b))
  BY NumberType DEF Number
<1>4. Number(a, b) = Cardinality(Within(a, b))
  BY DEF Number
<1> HIDE DEF a
<1>5. CASE InWindow(x, b)
  <2>1. Within(a, b) = Within(s, b) \cup {n} /\ n \notin Within(s, b)
    BY <1>1, <1>2, <1>5 DEF Within
  <2>2. Cardinality(Within(a, b)) = Cardinality(Within(s, b)) + 1
    BY <1>3, <2>1, FS_AddElement
  <2> QED
    BY <1>3, <1>4, <1>5, <2>2 DEF a
<1>6. CASE ~InWindow(x, b)
  <2>1. Within(a, b) = Within(s, b)
    BY <1>1, <1>2, <1>6 DEF Within
  <2>2. Number(a, b) = Number(s, b) + 0
    BY <1>3, <1>4, <2>1
  <2> QED
    BY <1>6, <2>2 DEF a
<1> QED
  BY <1>5, <1>6

(* The window only ever leaves times behind.                               *)
LEMMA NumberFalls ==
  ASSUME NEW s \in Seq(Nat), NEW a \in Nat, NEW b \in Nat, a <= b
  PROVE  Number(s, b) <= Number(s, a)
<1>1. Window \in Nat
  BY CoordinatorAssumption
<1>2. \A i \in DOMAIN s : s[i] \in Nat
  OBVIOUS
<1>3. Within(s, b) \subseteq Within(s, a)
  BY <1>1, <1>2 DEF Within, InWindow
<1>4. IsFiniteSet(Within(s, a))
  BY NumberType
<1> QED
  BY <1>3, <1>4, FS_Subset DEF Number

(* What the loop keeps: the times of the window, each as often as it was   *)
(* there, so that from now on the two lists count the same.                *)
LEMMA RecentCounts ==
  ASSUME NEW T, T \subseteq Nat, NEW s \in Seq(T), NEW at \in Nat
  PROVE  /\ Recent(s, at) \in Seq(T)
         /\ Len(Recent(s, at)) = Number(s, at)
         /\ \A b \in Nat : at <= b => Number(Recent(s, at), b) = Number(s, b)
<1> DEFINE n == Len(s)
           R == CHOOSE R : Filters(R, s, n, at)
           W(i, b) == {j \in 1..i : InWindow(s[j], b)}
           P(i) == /\ R[i] \in Seq(T)
                   /\ Len(R[i]) = Cardinality(W(i, at))
                   /\ \A b \in Nat : at <= b => Number(R[i], b) = Cardinality(W(i, b))
           G == {i \in Nat : i <= n => P(i)}
<1>1. n \in Nat /\ DOMAIN s = 1..n /\ \A j \in 1..n : s[j] \in T
  OBVIOUS
<1>2. Recent(s, at) = R[n]
  BY RecentIs
<1>3. Filters(R, s, n, at)
  <2>1. \E Q : Filters(Q, s, n, at)
    BY <1>1, FiltersExist
  <2> HIDE DEF n
  <2> QED
    BY <2>1
<1> HIDE DEF R
<1>4. R[0] = <<>>
  BY <1>1, <1>3, FiltersStep
<1>5. \A i \in 1..n : R[i] = IF InWindow(s[i], at) THEN Append(R[i - 1], s[i]) ELSE R[i - 1]
  BY <1>1, <1>3, FiltersStep
<1>6. 0 \in G
  <2>1. R[0] \in Seq(T) /\ Len(R[0]) = 0
    BY <1>4
  <2>2. \A b : W(0, b) = {} /\ Within(R[0], b) = {}
    BY <1>4 DEF Within
  <2>3. Cardinality({}) = 0
    BY FS_EmptySet
  <2>4. \A b : Cardinality(W(0, b)) = 0 /\ Number(R[0], b) = 0
    <3> HIDE DEF W
    <3> QED
      BY <2>2, <2>3 DEF Number
  <2> HIDE DEF W
  <2> QED
    BY <2>1, <2>4
<1>7. ASSUME NEW i \in Nat, i \in G PROVE i + 1 \in G
  <2> SUFFICES ASSUME i + 1 <= n PROVE P(i + 1)
    OBVIOUS
  <2> DEFINE k == i + 1
             x == s[k]
  <2>1. P(i) /\ k \in 1..n /\ k - 1 = i /\ x \in T
    BY <1>1, <1>7
  <2>2. R[k] = IF InWindow(x, at) THEN Append(R[i], x) ELSE R[i]
    BY <1>5, <2>1
  <2>3. ASSUME NEW b
        PROVE  /\ Cardinality(W(i, b)) \in Nat
               /\ Cardinality(W(k, b)) = Cardinality(W(i, b)) + (IF InWindow(x, b) THEN 1 ELSE 0)
    <3>1. IsFiniteSet(1..i)
      BY FS_Interval
    <3>2. W(i, b) \subseteq 1..i /\ k \notin W(i, b)
      BY <2>1
    <3>3. W(k, b) = IF InWindow(x, b) THEN W(i, b) \cup {k} ELSE W(i, b)
      BY <2>1
    <3> HIDE DEF W, k, x
    <3>4. IsFiniteSet(W(i, b))
      BY <3>1, <3>2, FS_Subset
    <3>5. Cardinality(W(i, b)) \in Nat
      BY <3>4, FS_CardinalityType
    <3>6. Cardinality(W(i, b) \cup {k}) = Cardinality(W(i, b)) + 1
      BY <3>2, <3>4, FS_AddElement
    <3>7. CASE InWindow(x, b)
      BY <3>3, <3>5, <3>6, <3>7
    <3>8. CASE ~InWindow(x, b)
      BY <3>3, <3>5, <3>8
    <3> QED
      BY <3>5, <3>7, <3>8
  <2> HIDE DEF W, k, x
  <2>4. CASE InWindow(x, at)
    <3>1. R[k] = Append(R[i], x)
      BY <2>2, <2>4
    <3>2. R[k] \in Seq(T) /\ Len(R[k]) = Len(R[i]) + 1
      BY <2>1, <3>1, AppendProperties
    <3>3. Cardinality(W(k, at)) = Cardinality(W(i, at)) + 1
      BY <2>3, <2>4
    <3>4. ASSUME NEW b \in Nat, at <= b PROVE Number(R[k], b) = Cardinality(W(k, b))
      <4>1. Number(R[k], b) = Number(R[i], b) + (IF InWindow(x, b) THEN 1 ELSE 0)
        BY <2>1, <3>1, NumberAppend
      <4> QED
        BY <2>1, <2>3, <3>4, <4>1
    <3> QED
      BY <2>1, <3>2, <3>3, <3>4 DEF k
  <2>5. CASE ~InWindow(x, at)
    <3>1. R[k] = R[i]
      BY <2>2, <2>5
    <3>2. \A b \in Nat : at <= b => ~InWindow(x, b)
      <4>1. x \in Nat /\ Window \in Nat
        BY <2>1, CoordinatorAssumption
      <4> QED
        BY <2>5, <4>1 DEF InWindow
    <3>3. \A b \in Nat : at <= b => Cardinality(W(k, b)) = Cardinality(W(i, b))
      <4> SUFFICES ASSUME NEW b \in Nat, at <= b PROVE Cardinality(W(k, b)) = Cardinality(W(i, b))
        OBVIOUS
      <4>1. Cardinality(W(k, b)) = Cardinality(W(i, b)) + 0
        BY <2>3, <3>2
      <4> QED
        BY <2>3, <4>1
    <3>4. Cardinality(W(k, at)) = Cardinality(W(i, at))
      BY <3>3
    <3> QED
      BY <2>1, <3>1, <3>3, <3>4 DEF k
  <2> QED
    BY <2>4, <2>5
<1>8. n \in G
  <2>1. Nat \subseteq G
    <3> HIDE DEF G
    <3> QED
      BY <1>6, <1>7, NatSteps
  <2> HIDE DEF G, n
  <2> QED
    BY <1>1, <2>1
<1>9. P(n)
  BY <1>1, <1>8
<1>10. \A b : W(n, b) = Within(s, b)
  BY <1>1 DEF Within
<1>11. \A b : Cardinality(W(n, b)) = Number(s, b)
  <2> HIDE DEF W
  <2> QED
    BY <1>10 DEF Number
<1> HIDE DEF W
<1> QED
  BY <1>2, <1>9, <1>11

(* The table's times are no later than its lastSeen, and that not in the   *)
(* future.                                                                 *)
RateTypes ==
    /\ now \in Nat
    /\ started \in [Key -> Seq(Nat)]
    /\ DOMAIN rates \subseteq Key
    /\ \A k \in DOMAIN rates :
          /\ rates[k] \in RateState
          /\ rates[k].lastSeen <= now
          /\ rates[k].requests \in Seq(0..rates[k].lastSeen)

(* The table tells as many starts as there were, from now on.              *)
Told == \A k \in Key : \A b \in Nat : now <= b =>
    Number(started[k], b) = IF k \in DOMAIN rates THEN Number(rates[k].requests, b) ELSE 0

RateInv == RateTypes /\ Told /\ \A k \in Key : Number(started[k], now) <= Limit

(* A scope that the sweep forgets has no start in any window to come.      *)
LEMMA SweepLosesNothing ==
  ASSUME RateInv, NEW k \in Key, NEW b \in Nat, now <= b
  PROVE  Number(started[k], b) = IF k \in Retained THEN Number(rates[k].requests, b) ELSE 0
<1>1. Number(started[k], b) = IF k \in DOMAIN rates THEN Number(rates[k].requests, b) ELSE 0
  BY DEF RateInv, Told
<1>2. CASE k \in DOMAIN rates /\ k \notin Retained
  <2> DEFINE q == rates[k].requests
             l == rates[k].lastSeen
  <2>1. q \in Seq(0..l) /\ l \in Nat /\ l <= now /\ now \in Nat /\ Window \in Nat
    BY <1>2, CoordinatorAssumption DEF RateInv, RateTypes, RateState
  <2>2. ~(l + Window >= now)
    BY <1>2 DEF Retained
  <2> HIDE DEF q, l
  <2>3. \A i \in DOMAIN q : q[i] \in 0..l
    BY <2>1
  <2>4. Within(q, b) = {}
    BY <2>1, <2>2, <2>3 DEF Within, InWindow
  <2>5. Number(q, b) = 0
    BY <2>4, FS_EmptySet DEF Number
  <2> QED
    BY <1>1, <1>2, <2>5 DEF q
<1>3. CASE k \in Retained
  <2>1. k \in DOMAIN rates
    BY <1>3 DEF Retained
  <2> QED
    BY <1>1, <1>3, <2>1
<1>4. CASE k \notin DOMAIN rates
  <2>1. k \notin Retained
    BY <1>4 DEF Retained
  <2> QED
    BY <1>1, <1>4, <2>1
<1> QED
  BY <1>2, <1>3, <1>4

(* What allowLocked counts for k is what k started.                        *)
LEMMA KeptCounts ==
  ASSUME RateInv, NEW k \in Key
  PROVE  /\ Kept(k) \in Seq(0..now)
         /\ Len(Kept(k)) = Number(started[k], now)
         /\ \A b \in Nat : now <= b => Number(Kept(k), b) = Number(started[k], b)
<1>1. now \in Nat
  BY DEF RateInv, RateTypes
<1>2. \A b \in Nat : now <= b =>
        Number(started[k], b) = IF k \in Retained THEN Number(rates[k].requests, b) ELSE 0
  BY SweepLosesNothing
<1>3. CASE k \in Retained
  <2> DEFINE q == rates[k].requests
             l == rates[k].lastSeen
  <2>1. k \in DOMAIN rates
    BY <1>3 DEF Retained
  <2>2. q \in Seq(0..l) /\ l \in Nat /\ l <= now
    BY <2>1 DEF RateInv, RateTypes, RateState
  <2>3. Kept(k) = Recent(q, now)
    BY <1>3 DEF Kept
  <2>4. \A b \in Nat : now <= b => Number(started[k], b) = Number(q, b)
    BY <1>2, <1>3
  <2> HIDE DEF q, l
  <2>5. 0..now \subseteq Nat /\ q \in Seq(0..now)
    <3>1. \A i \in 1..Len(q) : q[i] \in 0..now
      BY <1>1, <2>2
    <3>2. Len(q) \in Nat /\ q \in [1..Len(q) -> 0..l]
      BY <2>2, LenProperties
    <3>3. q \in [1..Len(q) -> 0..now]
      BY <3>1, <3>2
    <3>4. q \in Seq(0..now)
      BY <3>2, <3>3, SeqDef
    <3> QED
      BY <1>1, <3>4
  <2>6. /\ Recent(q, now) \in Seq(0..now) /\ Len(Recent(q, now)) = Number(q, now)
        /\ \A b \in Nat : now <= b => Number(Recent(q, now), b) = Number(q, b)
    BY <1>1, <2>5, RecentCounts
  <2>7. Number(started[k], now) = Number(q, now)
    BY <1>1, <2>4
  <2> QED
    BY <2>3, <2>4, <2>6, <2>7
<1>4. CASE k \notin Retained
  <2>1. Kept(k) = <<>>
    BY <1>4 DEF Kept
  <2>2. Kept(k) \in Seq(0..now) /\ Len(Kept(k)) = 0
    BY <2>1
  <2>3. \A b : Within(Kept(k), b) = {}
    BY <2>1 DEF Within
  <2>4. \A b : Number(Kept(k), b) = 0
    BY <2>3, FS_EmptySet DEF Number
  <2>5. \A b \in Nat : now <= b => Number(started[k], b) = 0
    BY <1>2, <1>4
  <2> QED
    BY <1>1, <2>2, <2>4, <2>5
<1> QED
  BY <1>3, <1>4

(* A table that was swept and has k's state replaced.                      *)
LEMMA SeenRates ==
  ASSUME RateInv, NEW k \in Key, NEW requests \in Seq(0..now),
         rates' = Seen(k, requests), now' = now,
         started' \in [Key -> Seq(Nat)],
         \A j \in Key : j # k => started'[j] = started[j],
         \A b \in Nat : now <= b => Number(requests, b) = Number(started'[k], b),
         Number(started'[k], now) <= Limit
  PROVE  RateInv'
<1>1. now \in Nat /\ 0..now \subseteq Nat
  BY DEF RateInv, RateTypes
<1>2. DOMAIN rates' = Retained \cup {k} /\ Retained \subseteq DOMAIN rates
  BY DEF Seen, Retained
<1>3. /\ rates'[k] = [requests |-> requests, lastSeen |-> now]
      /\ \A j \in Retained : j # k => rates'[j] = rates[j]
  BY DEF Seen
<1>4. requests \in Seq(Nat)
  <2>1. \A i \in 1..Len(requests) : requests[i] \in Nat
    BY <1>1
  <2> QED
    BY <2>1, SeqDef
<1>5. rates'[k] \in RateState /\ rates'[k].lastSeen = now /\ rates'[k].requests = requests
  BY <1>1, <1>3, <1>4 DEF RateState
<1>6. ASSUME NEW j \in DOMAIN rates'
      PROVE  /\ rates'[j] \in RateState
             /\ rates'[j].lastSeen <= now'
             /\ rates'[j].requests \in Seq(0..rates'[j].lastSeen)
  <2>1. CASE j = k
    BY <1>1, <1>5, <2>1
  <2>2. CASE j # k
    BY <1>2, <1>3, <2>2 DEF RateInv, RateTypes
  <2> QED
    BY <2>1, <2>2
<1>7. RateTypes'
  <2>1. DOMAIN rates' \subseteq Key
    BY <1>2 DEF RateInv, RateTypes
  <2> QED
    BY <1>1, <1>6, <2>1 DEF RateTypes
<1>8. ASSUME NEW j \in Key, NEW b \in Nat, now' <= b
      PROVE  Number(started'[j], b) = IF j \in DOMAIN rates' THEN Number(rates'[j].requests, b) ELSE 0
  <2>1. CASE j = k
    BY <1>2, <1>5, <1>8, <2>1
  <2>2. CASE j # k
    <3>1. Number(started[j], b) = IF j \in Retained THEN Number(rates[j].requests, b) ELSE 0
      BY <1>8, SweepLosesNothing
    <3> QED
      BY <1>2, <1>3, <2>2, <3>1
  <2> QED
    BY <2>1, <2>2
<1>9. Told'
  BY <1>8 DEF Told
<1>10. \A j \in Key : Number(started'[j], now') <= Limit
  BY DEF RateInv
<1> QED
  BY <1>7, <1>9, <1>10 DEF RateInv

(* Nothing has started and the table is empty.                             *)
LEMMA RateInitially == Init => RateInv
<1> SUFFICES ASSUME Init PROVE RateInv
  OBVIOUS
<1>1. DOMAIN rates = {} /\ now = 0 /\ started = [k \in Key |-> <<>>] /\ Limit \in Nat
  BY CoordinatorAssumption DEF Init
<1>2. RateTypes
  BY <1>1 DEF RateTypes
<1>3. \A k \in Key : \A b : Within(started[k], b) = {}
  BY <1>1 DEF Within
<1>4. \A k \in Key : \A b : Number(started[k], b) = 0
  BY <1>3, FS_EmptySet DEF Number
<1> QED
  BY <1>1, <1>2, <1>4 DEF RateInv, Told

(* One step for each thing that can happen to the table, the clock         *)
(* included.                                                               *)
LEMMA RateStep == RateInv /\ [Next]_vars => RateInv'
<1> SUFFICES ASSUME RateInv, [Next]_vars PROVE RateInv'
  OBVIOUS
<1>1. now \in Nat /\ Limit \in Nat /\ started \in [Key -> Seq(Nat)]
  BY CoordinatorAssumption DEF RateInv, RateTypes
<1>2. ASSUME UNCHANGED <<now, rates, started>> PROVE RateInv'
  BY <1>2 DEF RateInv, RateTypes, Told
<1>3. ASSUME NEW k \in Key, now' = now, started' = started, TableFull(k), rates' = Swept PROVE RateInv'
  <2>1. DOMAIN rates' = Retained /\ Retained \subseteq DOMAIN rates /\ \A j \in Retained : rates'[j] = rates[j]
    BY <1>3 DEF Swept, Retained
  <2>2. RateTypes'
    BY <1>3, <2>1 DEF RateInv, RateTypes
  <2>3. ASSUME NEW j \in Key, NEW b \in Nat, now' <= b
        PROVE  Number(started'[j], b) = IF j \in DOMAIN rates' THEN Number(rates'[j].requests, b) ELSE 0
    <3>1. Number(started[j], b) = IF j \in Retained THEN Number(rates[j].requests, b) ELSE 0
      BY <1>3, <2>3, SweepLosesNothing
    <3> QED
      BY <1>3, <2>1, <3>1
  <2>4. Told'
    BY <2>3 DEF Told
  <2> QED
    BY <1>3, <2>2, <2>4 DEF RateInv
<1>4. ASSUME NEW k \in Key, now' = now, started' = started, rates' = Seen(k, Kept(k)) PROVE RateInv'
  <2>1. Kept(k) \in Seq(0..now) /\ \A b \in Nat : now <= b => Number(Kept(k), b) = Number(started'[k], b)
    BY <1>4, KeptCounts
  <2>2. Number(started'[k], now) <= Limit
    BY <1>4 DEF RateInv
  <2> QED
    BY <1>1, <1>4, <2>1, <2>2, SeenRates
<1>5. ASSUME NEW p \in Requests, NEW k \in Key, now' = now, Lead(p, k) PROVE RateInv'
  <2> DEFINE s == started[k]
             q == Append(Kept(k), now)
             r == Append(Recent(s, now), now)
  <2>1. rates' = Seen(k, q) /\ started' = [started EXCEPT ![k] = r] /\ ~(Len(Kept(k)) >= Limit)
    BY <1>5 DEF Lead, OverLimit
  <2>2. /\ Kept(k) \in Seq(0..now) /\ Len(Kept(k)) = Number(s, now)
        /\ \A b \in Nat : now <= b => Number(Kept(k), b) = Number(s, b)
    BY KeptCounts
  <2>3. /\ s \in Seq(Nat) /\ Recent(s, now) \in Seq(Nat)
        /\ \A b \in Nat : now <= b => Number(Recent(s, now), b) = Number(s, b)
    BY <1>1, RecentCounts, ZenonT(60)
  <2>4. now \in 0..now
    BY <1>1
  <2>5. q \in Seq(0..now) /\ r \in Seq(Nat)
    BY <1>1, <2>2, <2>3, <2>4, AppendProperties
  <2>6. \A b \in Nat : now <= b =>
          /\ Number(q, b) = Number(s, b) + (IF InWindow(now, b) THEN 1 ELSE 0)
          /\ Number(r, b) = Number(s, b) + (IF InWindow(now, b) THEN 1 ELSE 0)
    <3> SUFFICES ASSUME NEW b \in Nat, now <= b
                 PROVE  /\ Number(q, b) = Number(s, b) + (IF InWindow(now, b) THEN 1 ELSE 0)
                        /\ Number(r, b) = Number(s, b) + (IF InWindow(now, b) THEN 1 ELSE 0)
      OBVIOUS
    <3>1. Number(q, b) = Number(Kept(k), b) + (IF InWindow(now, b) THEN 1 ELSE 0)
      BY <2>2, <2>4, NumberAppend
    <3>2. Number(r, b) = Number(Recent(s, now), b) + (IF InWindow(now, b) THEN 1 ELSE 0)
      BY <1>1, <2>3, NumberAppend
    <3> QED
      BY <2>2, <2>3, <3>1, <3>2
  <2> HIDE DEF s, q, r
  <2>7. started' \in [Key -> Seq(Nat)] /\ started'[k] = r /\ \A j \in Key : j # k => started'[j] = started[j]
    BY <1>1, <2>1, <2>5
  <2>8. \A b \in Nat : now <= b => Number(q, b) = Number(started'[k], b)
    BY <2>6, <2>7
  <2>9. Number(started'[k], now) <= Limit
    <3>1. Number(s, now) \in Nat
      BY <2>3, NumberType
    <3>2. Number(s, now) < Limit
      BY <1>1, <2>1, <2>2, <3>1
    <3>3. Number(r, now) <= Number(s, now) + 1
      BY <1>1, <2>6, <3>1
    <3>4. Number(r, now) \in Nat
      BY <2>5, NumberType
    <3> QED
      BY <1>1, <2>7, <3>1, <3>2, <3>3, <3>4
  <2> QED
    BY <1>5, <2>1, <2>5, <2>7, <2>8, <2>9, SeenRates
<1>6. ASSUME Tick PROVE RateInv'
  <2>1. now' = now + 1 /\ now' \in Nat /\ UNCHANGED <<rates, started>>
    BY <1>1, <1>6 DEF Tick
  <2>2. \A k \in DOMAIN rates : rates[k].lastSeen \in Nat
    BY DEF RateInv, RateTypes, RateState
  <2>3. RateTypes'
    BY <1>1, <2>1, <2>2 DEF RateInv, RateTypes
  <2>4. Told'
    BY <1>1, <2>1 DEF RateInv, Told
  <2>5. ASSUME NEW k \in Key PROVE Number(started'[k], now') <= Limit
    <3>1. started[k] \in Seq(Nat) /\ now <= now'
      BY <1>1, <2>1
    <3>2. Number(started[k], now') <= Number(started[k], now)
      BY <1>1, <2>1, <3>1, NumberFalls
    <3>3. Number(started[k], now') \in Nat /\ Number(started[k], now) \in Nat
      BY <3>1, NumberType
    <3>4. Number(started[k], now) <= Limit
      BY DEF RateInv
    <3> QED
      BY <1>1, <2>1, <3>2, <3>3, <3>4
  <2> QED
    BY <2>3, <2>4, <2>5 DEF RateInv
<1>7. ASSUME NEW p \in Requests, NEW k \in Key, Do(p, k) PROVE RateInv'
  <2>1. now' = now
    BY <1>7 DEF Do
  <2>2. CASE Join(p, k)
    BY <1>2, <2>1, <2>2 DEF Join
  <2>3. CASE RefuseBusy(p, k)
    BY <1>2, <2>1, <2>3 DEF RefuseBusy
  <2>4. CASE RefuseRate(p, k)
    BY <1>3, <1>4, <2>1, <2>4 DEF RefuseRate
  <2>5. CASE Lead(p, k)
    BY <1>5, <2>1, <2>5
  <2> QED
    BY <1>7, <2>2, <2>3, <2>4, <2>5 DEF Do
<1>8. ASSUME NEW p \in Requests, Progress(p) \/ WaiterCancelled(p) PROVE RateInv'
  BY <1>2, <1>8 DEF Progress, CaptureReturns, Finish, WaiterServed, RemoveWaiter, WaiterCancelled
<1>9. CASE UNCHANGED vars
  BY <1>2, <1>9 DEF vars
<1> QED
  BY <1>6, <1>7, <1>8, <1>9 DEF Next

(* The sweeps and the in place filtering of allowLocked lose no start that *)
(* still counts, so no scope starts more than the limit in any window,     *)
(* for every limit, window and size of the table.                          *)
THEOREM RateSafety == Spec => []RateBound
<1>1. RateInv => RateBound
  <2> SUFFICES ASSUME RateInv, NEW k \in Key PROVE Len(Recent(started[k], now)) <= Limit
    BY DEF RateBound
  <2>1. Len(Recent(started[k], now)) = Number(started[k], now)
    BY RecentCounts DEF RateInv, RateTypes
  <2> QED
    BY <2>1 DEF RateInv
<1> QED
  BY <1>1, RateInitially, RateStep, PTL DEF Spec

(* The coordinator's variables keep their types, the counters among them:  *)
(* none is taken below zero.                                               *)
THEOREM TypeCorrect == Spec => []TypeOK
<1>1. IndInv /\ RateInv => TypeOK
  BY DEF IndInv, Types, RateInv, RateTypes, TypeOK
<1>2. Spec => []RateInv
  BY RateInitially, RateStep, PTL DEF Spec
<1> QED
  BY <1>1, <1>2, Invariance, PTL
=============================================================================
