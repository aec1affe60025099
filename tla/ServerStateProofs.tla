-------------------------- MODULE ServerStateProofs -------------------------
(***************************************************************************)
(* What the server and the client keep beside the sessions, for every      *)
(* number of requests, servers, sessions, clients and paths: the limit of  *)
(* web creates, the cookie secret, the resize state, the link to the       *)
(* forwarded agent, the selector and the login limiter. The parts share no *)
(* state, and each has an inductive invariant of its own, stated at the    *)
(* head of its section.                                                    *)
(***************************************************************************)
EXTENDS WebCreate, CookieSecret, ResizeState, ForwardedAgent, ClientSelector,
        LoginLimiter, SumTheorems, SequenceTheorems, FiniteSetTheorems, TLAPS

-----------------------------------------------------------------------------
(* The limit of web creates                                                *)
(*                                                                         *)
(* A list is old when it is counted.  What it may have missed was created  *)
(* by the CLI, which the limit allows for, because no other web create got *)
(* past the lock; a name that was listed and is selected again may have    *)
(* gone, but then it had its place among the sessions.                     *)

CreateStates == {"idle", "list", "failing", "create"}

CreateTypes ==
    /\ managed \in [SessionNames -> {"none", "live", "exited"}]
    /\ create \in [Creates -> [at : CreateStates, name : SessionNames \cup {NoCreate},
                               todo : SUBSET SessionNames, kept : SUBSET SessionNames]]
    /\ cliCreated \in Nat
    /\ \A r \in Creates : create[r].at # "idle" => create[r].name \in SessionNames

(* Whoever is past the lock holds it.                                      *)
OneCreate == \A r \in Creates : create[r].at # "idle" => webCreateMu = r

(* The listed sessions and those that live now never were too many; those  *)
(* that live and are not listed are the CLI's; and with the new one they   *)
(* are few enough once the request has decided to create it.               *)
CreateCounted == \A r \in Creates :
    /\ create[r].at # "idle" =>
          Cardinality(LiveSessions \cup create[r].kept) <= MaxSessions + cliCreated
    /\ create[r].at = "list" =>
          Cardinality(LiveSessions \ (create[r].kept \cup create[r].todo)) <= cliCreated
    /\ create[r].at = "create" =>
          Cardinality(LiveSessions \cup {create[r].name}) <= MaxSessions + cliCreated

CreateInv == CreateTypes /\ OneCreate /\ CreateCounted /\ WebLimitHolds

(* What is known of the sizes of sets of sessions.                         *)
LEMMA SessionSets ==
    /\ \A S \in SUBSET SessionNames : IsFiniteSet(S) /\ Cardinality(S) \in Nat
    /\ \A S, T \in SUBSET SessionNames : S \subseteq T => Cardinality(S) <= Cardinality(T)
    /\ \A S \in SUBSET SessionNames, n \in SessionNames :
          Cardinality(S \cup {n}) <= Cardinality(S) + 1
    /\ Cardinality({}) = 0
  <1>1. \A S \in SUBSET SessionNames : IsFiniteSet(S)
    BY WebCreateAssumption, FS_Subset
  <1>2. \A S \in SUBSET SessionNames : Cardinality(S) \in Nat
    BY <1>1, FS_CardinalityType
  <1>3. \A S, T \in SUBSET SessionNames : S \subseteq T => Cardinality(S) <= Cardinality(T)
    BY <1>1, FS_Subset
  <1>4. ASSUME NEW S \in SUBSET SessionNames, NEW n \in SessionNames
        PROVE  Cardinality(S \cup {n}) <= Cardinality(S) + 1
    BY <1>1, <1>2, FS_AddElement
  <1> QED
    BY <1>1, <1>2, <1>3, <1>4, FS_EmptySet

(* Two sets together are no larger than both.                              *)
LEMMA SessionUnion ==
    ASSUME NEW S \in SUBSET SessionNames, NEW T \in SUBSET SessionNames
    PROVE  Cardinality(T) <= Cardinality(S) + Cardinality(T \ S)
  <1> DEFINE D == T \ S
  <1>1. IsFiniteSet(S) /\ IsFiniteSet(D) /\ S \cap D = {}
    BY SessionSets
  <1>2. Cardinality(S \cup D) = Cardinality(S) + Cardinality(D) - Cardinality(S \cap D)
    BY <1>1, FS_Union
  <1>3. Cardinality(T) <= Cardinality(S \cup D)
    BY SessionSets
  <1>4. Cardinality(S) \in Nat /\ Cardinality(D) \in Nat /\ Cardinality(S \cap D) = 0
    BY <1>1, SessionSets
  <1> QED
    BY <1>2, <1>3, <1>4, SessionSets

(* Nobody is past the lock in the beginning and nothing lives.             *)
LEMMA CreateInitOK == CreateInit => CreateInv
  <1> SUFFICES ASSUME CreateInit PROVE CreateInv
    OBVIOUS
  <1>1. CreateTypes /\ OneCreate /\ LiveSessions = {}
    BY DEF CreateInit, CreateTypes, OneCreate, IdleCreate, CreateStates, LiveSessions
  <1>2. CreateCounted /\ WebLimitHolds
    BY <1>1, SessionSets, WebCreateAssumption
       DEF CreateInit, CreateCounted, WebLimitHolds, IdleCreate
  <1> QED
    BY <1>1, <1>2 DEF CreateInv

(* A request that goes back to idle, with the sessions as they were.       *)
LEMMA CreateIdleOK ==
    ASSUME CreateInv, NEW r \in Creates, create[r].at # "idle",
           create' = [create EXCEPT ![r] = IdleCreate], UnlockCreate(r),
           UNCHANGED cliCreated,
           managed' \in [SessionNames -> {"none", "live", "exited"}],
           Cardinality(LiveSessions') <= MaxSessions + cliCreated
    PROVE  CreateInv'
  <1>1. \A q \in Creates : create'[q] = IF q = r THEN IdleCreate ELSE create[q]
    BY DEF CreateInv, CreateTypes
  <1>2. \A q \in Creates : create'[q].at = "idle"
    BY <1>1 DEF CreateInv, OneCreate, IdleCreate
  <1>3. CreateTypes'
    BY <1>1, <1>2 DEF CreateInv, CreateTypes, IdleCreate, CreateStates
  <1> QED
    BY <1>2, <1>3 DEF CreateInv, OneCreate, CreateCounted, WebLimitHolds

(* The lock is free, so nobody is past it; the list has everything.        *)
LEMMA WebCreateBeginOK ==
    ASSUME CreateInv, NEW r \in Creates, NEW n \in SessionNames, WebCreateBegin(r, n)
    PROVE  CreateInv'
  <1> DEFINE todo == {m \in SessionNames : managed[m] # "none"}
             c == [at |-> "list", name |-> n, todo |-> todo, kept |-> {}]
  <1>1. /\ webCreateMu = NoCreate /\ webCreateMu' = r
        /\ create' = [create EXCEPT ![r] = c]
        /\ UNCHANGED <<managed, cliCreated>>
    BY DEF WebCreateBegin, LockCreate
  <1>2. \A q \in Creates : create[q].at = "idle"
    BY <1>1, WebCreateAssumption DEF CreateInv, OneCreate
  <1>3. \A q \in Creates : create'[q] = IF q = r THEN c ELSE create[q]
    BY <1>1 DEF CreateInv, CreateTypes
  <1>4. CreateTypes' /\ OneCreate'
    BY <1>1, <1>2, <1>3 DEF CreateInv, CreateTypes, OneCreate, CreateStates
  <1>5. /\ LiveSessions' = LiveSessions
        /\ LiveSessions' \cup c.kept = LiveSessions
        /\ LiveSessions' \ (c.kept \cup c.todo) = {}
    BY <1>1 DEF LiveSessions
  <1>6. c.at = "list"
    OBVIOUS
  <1> HIDE DEF c, todo
  <1>7. CreateCounted'
    <2>1. /\ Cardinality(LiveSessions' \cup create'[r].kept) <= MaxSessions + cliCreated'
          /\ Cardinality(LiveSessions' \ (create'[r].kept \cup create'[r].todo)) <= cliCreated'
      <3>1. /\ LiveSessions' \cup create'[r].kept = LiveSessions
            /\ LiveSessions' \ (create'[r].kept \cup create'[r].todo) = {}
        BY <1>3, <1>5
      <3>2. cliCreated' = cliCreated /\ cliCreated \in Nat
        BY <1>1 DEF CreateInv, CreateTypes
      <3> QED
        BY <3>1, <3>2, SessionSets, SMTT(60) DEF CreateInv, WebLimitHolds
    <2> QED
      BY <1>2, <1>3, <1>6, <2>1 DEF CreateCounted
  <1> QED
    BY <1>1, <1>4, <1>5, <1>7 DEF CreateInv, WebLimitHolds

(* A record that is live goes from what is to be looked at to what is      *)
(* kept; one that is not is none of the sessions that live.                *)
LEMMA WebCreateReconcileOK ==
    ASSUME CreateInv, NEW r \in Creates, NEW m \in SessionNames, WebCreateReconcile(r, m)
    PROVE  CreateInv'
  <1> DEFINE old == create[r]
  <1>1. /\ old.at \in {"list", "failing"} /\ m \in old.todo /\ UNCHANGED <<webCreateMu, cliCreated>>
        /\ old.todo \subseteq SessionNames /\ old.kept \subseteq SessionNames
        /\ managed \in [SessionNames -> {"none", "live", "exited"}]
    BY DEF WebCreateReconcile, CreateInv, CreateTypes
  <1>2. \A q \in Creates : q # r => create[q].at = "idle"
    BY <1>1 DEF CreateInv, OneCreate
  <1>3. CASE /\ create' = [create EXCEPT
                   ![r].todo = @ \ {m},
                   ![r].kept = IF managed[m] = "live" THEN @ \cup {m} ELSE @]
             /\ managed' = [managed EXCEPT ![m] = IF @ = "exited" THEN "none" ELSE @]
    <2>1. /\ create'[r].at = old.at /\ create'[r].name = old.name
          /\ create'[r].todo = old.todo \ {m}
          /\ create'[r].kept = IF managed[m] = "live" THEN old.kept \cup {m} ELSE old.kept
          /\ \A q \in Creates : q # r => create'[q] = create[q]
      BY <1>3 DEF CreateInv, CreateTypes
    <2>2. LiveSessions' = LiveSessions /\ LiveSessions \subseteq SessionNames
      BY <1>1, <1>3 DEF LiveSessions
    <2>3. /\ LiveSessions' \cup create'[r].kept = LiveSessions \cup old.kept
          /\ LiveSessions' \ (create'[r].kept \cup create'[r].todo)
                \subseteq LiveSessions \ (old.kept \cup old.todo)
      BY <1>1, <2>1, <2>2 DEF LiveSessions
    <2>4. CreateTypes' /\ OneCreate'
      <3>1. managed' \in [SessionNames -> {"none", "live", "exited"}]
        BY <1>1, <1>3
      <3>2. create' \in [Creates -> [at : CreateStates, name : SessionNames \cup {NoCreate},
                               todo : SUBSET SessionNames, kept : SUBSET SessionNames]]
        BY <1>1, <1>3, ZenonT(60) DEF CreateInv, CreateTypes
      <3> QED
        BY <1>1, <2>1, <3>1, <3>2 DEF CreateInv, CreateTypes, OneCreate
    <2>5. CreateCounted'
      <3>1. Cardinality(LiveSessions' \ (create'[r].kept \cup create'[r].todo))
                <= Cardinality(LiveSessions \ (old.kept \cup old.todo))
        BY <1>1, <2>2, <2>3, SessionSets
      <3>2. /\ Cardinality(LiveSessions' \ (create'[r].kept \cup create'[r].todo)) \in Nat
            /\ Cardinality(LiveSessions \ (old.kept \cup old.todo)) \in Nat
        BY <2>2, SessionSets
      <3>3. /\ Cardinality(LiveSessions' \cup create'[r].kept) <= MaxSessions + cliCreated'
            /\ old.at = "list" =>
                  Cardinality(LiveSessions' \ (create'[r].kept \cup create'[r].todo)) <= cliCreated'
        <4>1. cliCreated' = cliCreated /\ cliCreated \in Nat
          BY <1>1 DEF CreateInv, CreateTypes
        <4>2. /\ Cardinality(LiveSessions \cup old.kept) <= MaxSessions + cliCreated
              /\ old.at = "list" => Cardinality(LiveSessions \ (old.kept \cup old.todo)) <= cliCreated
          BY <1>1 DEF CreateInv, CreateCounted
        <4>3. Cardinality(LiveSessions' \cup create'[r].kept) = Cardinality(LiveSessions \cup old.kept)
          BY <2>3, Zenon
        <4>4. Cardinality(LiveSessions' \cup create'[r].kept) <= MaxSessions + cliCreated'
          BY <4>1, <4>2, <4>3, Zenon
        <4>5. ASSUME old.at = "list"
              PROVE  Cardinality(LiveSessions' \ (create'[r].kept \cup create'[r].todo)) <= cliCreated'
          BY <3>1, <3>2, <4>1, <4>2, <4>5
        <4> QED
          BY <4>4, <4>5
      <3> QED
        BY <1>1, <1>2, <2>1, <3>3 DEF CreateCounted
    <2> QED
      BY <1>1, <2>2, <2>4, <2>5 DEF CreateInv, WebLimitHolds
  <1>4. CASE /\ create' = [create EXCEPT ![r].at = "failing", ![r].todo = @ \ {m}]
             /\ UNCHANGED managed
    <2>1. /\ create'[r].at = "failing" /\ create'[r].name = old.name
          /\ create'[r].todo = old.todo \ {m} /\ create'[r].kept = old.kept
          /\ \A q \in Creates : q # r => create'[q] = create[q]
      BY <1>4 DEF CreateInv, CreateTypes
    <2>2. LiveSessions' = LiveSessions
      BY <1>4 DEF LiveSessions
    <2>3. CreateTypes' /\ OneCreate'
      BY <1>1, <1>4, <2>1 DEF CreateInv, CreateTypes, OneCreate, CreateStates
    <2>4. CreateCounted'
      BY <1>1, <1>2, <2>1, <2>2 DEF CreateInv, CreateCounted
    <2> QED
      BY <1>1, <2>2, <2>3, <2>4 DEF CreateInv, WebLimitHolds
  <1> QED
    BY <1>3, <1>4 DEF WebCreateReconcile

(* A request that fails, is refused or is answered.                        *)
LEMMA WebCreateFailsOK ==
    ASSUME CreateInv, NEW r \in Creates, WebCreateFails(r)
    PROVE  CreateInv'
  <1>1. LiveSessions' = LiveSessions
    BY DEF WebCreateFails, LiveSessions
  <1> QED
    BY <1>1, CreateIdleOK DEF WebCreateFails, CreateInv, CreateTypes, WebLimitHolds

(* The request has counted: the name had a place on the list, or there is  *)
(* room for one more beside what the list may have missed.                 *)
LEMMA WebCreateDecideOK ==
    ASSUME CreateInv, NEW r \in Creates, WebCreateDecide(r)
    PROVE  CreateInv'
  <1> DEFINE old == create[r]
  <1>1. /\ old.at = "list" /\ old.todo = {} /\ UNCHANGED <<managed, cliCreated>>
        /\ old.kept \subseteq SessionNames /\ old.name \in SessionNames
        /\ LiveSessions' = LiveSessions /\ LiveSessions \subseteq SessionNames
    BY DEF WebCreateDecide, CreateInv, CreateTypes, LiveSessions
  <1>2. CASE OverLimit(r)
    BY <1>1, <1>2, CreateIdleOK DEF WebCreateDecide, CreateInv, CreateTypes, WebLimitHolds
  <1>3. CASE ~OverLimit(r)
    <2>1. create' = [create EXCEPT ![r].at = "create"] /\ UNCHANGED webCreateMu
      BY <1>3 DEF WebCreateDecide
    <2>2. /\ create'[r].at = "create" /\ create'[r].name = old.name /\ create'[r].kept = old.kept
          /\ \A q \in Creates : q # r => create'[q] = create[q] /\ create[q].at = "idle"
      BY <1>1, <2>1 DEF CreateInv, CreateTypes, OneCreate
    <2>3. CreateTypes' /\ OneCreate'
      BY <1>1, <2>1, <2>2 DEF CreateInv, CreateTypes, OneCreate, CreateStates
    <2>4. /\ Cardinality(LiveSessions \cup old.kept) <= MaxSessions + cliCreated
          /\ Cardinality(LiveSessions \ old.kept) <= cliCreated
          /\ cliCreated \in Nat
      <3>1. old.kept \cup old.todo = old.kept
        BY <1>1
      <3> QED
        BY <1>1, <3>1 DEF CreateInv, CreateCounted, CreateTypes
    <2>5. Cardinality(LiveSessions \cup {old.name}) <= MaxSessions + cliCreated
      <3>1. CASE old.name \in old.kept
        <4>1. Cardinality(LiveSessions \cup {old.name}) <= Cardinality(LiveSessions \cup old.kept)
          BY <1>1, <3>1, SessionSets
        <4>2. /\ Cardinality(LiveSessions \cup {old.name}) \in Nat
              /\ Cardinality(LiveSessions \cup old.kept) \in Nat
          BY <1>1, SessionSets
        <4> QED
          BY <2>4, <4>1, <4>2, WebCreateAssumption
      <3>2. CASE old.name \notin old.kept
        <4>1. Cardinality(old.kept) < MaxSessions
          BY <1>1, <1>3, <3>2, SessionSets, WebCreateAssumption DEF OverLimit
        <4>2. Cardinality(LiveSessions) <= Cardinality(old.kept) + Cardinality(LiveSessions \ old.kept)
          BY <1>1, SessionUnion
        <4>3. Cardinality(LiveSessions \cup {old.name}) <= Cardinality(LiveSessions) + 1
          BY <1>1, SessionSets
        <4>4. Cardinality(old.kept) \in Nat /\ Cardinality(LiveSessions) \in Nat
              /\ Cardinality(LiveSessions \ old.kept) \in Nat
              /\ Cardinality(LiveSessions \cup {old.name}) \in Nat
          BY <1>1, SessionSets
        <4> QED
          BY <2>4, <4>1, <4>2, <4>3, <4>4, WebCreateAssumption
      <3> QED
        BY <3>1, <3>2
    <2>6. CreateCounted'
      BY <1>1, <2>2, <2>4, <2>5 DEF CreateCounted
    <2> QED
      BY <1>1, <2>3, <2>6 DEF CreateInv, WebLimitHolds
  <1> QED
    BY <1>2, <1>3

(* The session is created, within the limit the request had checked.       *)
LEMMA WebCreateOrSelectOK ==
    ASSUME CreateInv, NEW r \in Creates, WebCreateOrSelect(r)
    PROVE  CreateInv'
  <1>1. LiveSessions' = LiveSessions \cup {create[r].name}
    BY DEF WebCreateOrSelect, LiveSessions, CreateInv, CreateTypes
  <1>2. managed' \in [SessionNames -> {"none", "live", "exited"}]
    BY DEF WebCreateOrSelect, CreateInv, CreateTypes
  <1> QED
    BY <1>1, <1>2, CreateIdleOK DEF WebCreateOrSelect, CreateInv, CreateCounted

(* Whatever else happens to the sessions: one more only by the CLI.        *)
LEMMA OthersCreateOK ==
    ASSUME CreateInv, NEW n \in SessionNames, CLICreate(n) \/ SessionExits(n) \/ SessionEnds(n)
    PROVE  CreateInv'
  <1> DEFINE d == cliCreated' - cliCreated
  <1>1. /\ UNCHANGED <<webCreateMu, create>> /\ cliCreated \in Nat /\ cliCreated' \in Nat
        /\ managed' \in [SessionNames -> {"none", "live", "exited"}]
        /\ cliCreated' = cliCreated + 1 \/ cliCreated' = cliCreated
    BY DEF CLICreate, SessionExits, SessionEnds, CreateInv, CreateTypes
  <1>2. /\ LiveSessions \subseteq SessionNames /\ LiveSessions' \subseteq SessionNames
        /\ \/ cliCreated' = cliCreated /\ LiveSessions' \subseteq LiveSessions
           \/ cliCreated' = cliCreated + 1 /\ LiveSessions' = LiveSessions \cup {n}
    BY DEF CLICreate, SessionExits, SessionEnds, LiveSessions, CreateInv, CreateTypes
  <1>3. ASSUME NEW S \in SUBSET SessionNames, NEW T \in SUBSET SessionNames,
               \/ cliCreated' = cliCreated /\ T \subseteq S
               \/ cliCreated' = cliCreated + 1 /\ T \subseteq S \cup {n},
               NEW k \in Nat, Cardinality(S) <= k + cliCreated
        PROVE  Cardinality(T) <= k + cliCreated'
    <2>1. /\ Cardinality(S) \in Nat /\ Cardinality(T) \in Nat /\ Cardinality(S \cup {n}) \in Nat
          /\ Cardinality(S \cup {n}) <= Cardinality(S) + 1
      BY SessionSets
    <2>2. T \subseteq S => Cardinality(T) <= Cardinality(S)
      BY SessionSets
    <2>3. T \subseteq S \cup {n} => Cardinality(T) <= Cardinality(S \cup {n})
      BY SessionSets
    <2> QED
      BY <1>1, <1>3, <2>1, <2>2, <2>3
  <1>4. CreateTypes' /\ OneCreate'
    BY <1>1 DEF CreateInv, CreateTypes, OneCreate
  <1>5. WebLimitHolds'
    BY <1>2, <1>3, WebCreateAssumption DEF CreateInv, WebLimitHolds
  <1>6. ASSUME NEW q \in Creates
        PROVE  /\ create[q].at # "idle" =>
                     Cardinality(LiveSessions' \cup create[q].kept) <= MaxSessions + cliCreated'
               /\ create[q].at = "create" =>
                     Cardinality(LiveSessions' \cup {create[q].name}) <= MaxSessions + cliCreated'
               /\ create[q].at = "list" =>
                     Cardinality(LiveSessions' \ (create[q].kept \cup create[q].todo)) <= cliCreated'
    <2> DEFINE K == create[q].kept
               M == create[q].kept \cup create[q].todo
               N == {create[q].name}
    <2>1. K \subseteq SessionNames /\ M \subseteq SessionNames
          /\ (create[q].at = "create" => N \subseteq SessionNames)
      BY DEF CreateInv, CreateTypes
    <2>2. /\ create[q].at # "idle" => Cardinality(LiveSessions \cup K) <= MaxSessions + cliCreated
          /\ create[q].at = "create" => Cardinality(LiveSessions \cup N) <= MaxSessions + cliCreated
          /\ create[q].at = "list" => Cardinality(LiveSessions \ M) <= 0 + cliCreated
      BY <1>1 DEF CreateInv, CreateCounted
    <2> HIDE DEF K, M, N
    <2>3. create[q].at # "idle" => Cardinality(LiveSessions' \cup K) <= MaxSessions + cliCreated'
      <3>1. \/ cliCreated' = cliCreated /\ LiveSessions' \cup K \subseteq LiveSessions \cup K
            \/ cliCreated' = cliCreated + 1 /\ LiveSessions' \cup K \subseteq (LiveSessions \cup K) \cup {n}
        BY <1>2
      <3> QED
        BY <1>2, <1>3, <2>1, <2>2, <3>1, WebCreateAssumption
    <2>4. create[q].at = "create" => Cardinality(LiveSessions' \cup N) <= MaxSessions + cliCreated'
      <3>1. \/ cliCreated' = cliCreated /\ LiveSessions' \cup N \subseteq LiveSessions \cup N
            \/ cliCreated' = cliCreated + 1 /\ LiveSessions' \cup N \subseteq (LiveSessions \cup N) \cup {n}
        BY <1>2
      <3> QED
        BY <1>2, <1>3, <2>1, <2>2, <3>1, WebCreateAssumption
    <2>5. create[q].at = "list" => Cardinality(LiveSessions' \ M) <= 0 + cliCreated'
      <3>1. \/ cliCreated' = cliCreated /\ LiveSessions' \ M \subseteq LiveSessions \ M
            \/ cliCreated' = cliCreated + 1 /\ LiveSessions' \ M \subseteq (LiveSessions \ M) \cup {n}
        BY <1>2
      <3> QED
        BY <1>2, <1>3, <2>1, <2>2, <3>1
    <2> QED
      BY <1>1, <2>3, <2>4, <2>5 DEF K, M, N
  <1>7. CreateCounted'
    BY <1>1, <1>6 DEF CreateCounted
  <1> QED
    BY <1>4, <1>5, <1>7 DEF CreateInv

(* However the list is outdated by exits, terminations and creations of    *)
(* the CLI, web creates never take the sessions over the limit.            *)
THEOREM WebLimit == CreateSpec => []WebLimitHolds
  <1>1. ASSUME CreateInv, [CreateNext]_createVars PROVE CreateInv'
    <2>1. CASE UNCHANGED createVars
      BY <1>1, <2>1 DEF createVars, CreateInv, CreateTypes, OneCreate, CreateCounted,
                        WebLimitHolds, LiveSessions
    <2>2. CASE CreateNext
      BY <1>1, <2>2, WebCreateBeginOK, WebCreateReconcileOK, WebCreateFailsOK,
         WebCreateDecideOK, WebCreateOrSelectOK, OthersCreateOK DEF CreateNext
    <2> QED
      BY <1>1, <2>1, <2>2
  <1>2. CreateInv => WebLimitHolds
    BY DEF CreateInv
  <1> QED
    BY CreateInitOK, <1>1, <1>2, PTL DEF CreateSpec

-----------------------------------------------------------------------------
(* The cookie secret                                                       *)
(*                                                                         *)
(* Only the creator of the file writes it, so it is written once; whoever  *)
(* serves and whatever was signed has what was written.                    *)

Secrets == 1 .. MaxStarts

SecretTypes ==
    /\ starts \in 0 .. MaxStarts
    /\ secretFile \in Secrets \cup {0, Unwritten}
    /\ server \in [Servers -> [at : {"down", "read", "create", "write", "serving"},
                               secret : Secrets \cup {0}]]
    /\ cookies \subseteq [secret : Secrets, issued : Nat]
    /\ wallClock \in Nat

(* A server that has yet to settle has drawn a secret of its own.          *)
Drawn == \A p \in Servers :
    server[p].at \in {"read", "create", "write"} => server[p].secret \in Secrets

(* One writer, and only for as long as the file is empty.                  *)
OneWriter ==
    /\ \A p \in Servers : server[p].at = "write" => secretFile = Unwritten
    /\ \A p, q \in Servers : server[p].at = "write" /\ server[q].at = "write" => p = q

(* Nothing is signed with a secret that the file does not keep.            *)
SecretKept ==
    /\ \A p \in Servers : server[p].at = "serving" =>
          server[p].secret = secretFile /\ secretFile \in Secrets
    /\ \A cookie \in cookies : cookie.secret = secretFile

SecretInv == SecretTypes /\ Drawn /\ OneWriter /\ SecretKept

(* An empty file is not a secret.                                          *)
LEMMA UnwrittenOK == Unwritten \notin Secrets /\ Unwritten # 0 /\ 0 \notin Secrets
  BY SecretAssumption DEF Unwritten, Secrets

(* No file, no server, no cookie.                                          *)
LEMMA SecretInitOK == SecretInit => SecretInv
  BY SecretAssumption DEF SecretInit, SecretInv, SecretTypes, Drawn, OneWriter, SecretKept, Down

(* A server takes what the file has, or goes down.                         *)
LEMMA ParseSecretOK ==
    ASSUME SecretInv, NEW p \in Servers, server[p].at \in {"read", "create"}, ParseSecret(p),
           UNCHANGED <<secretFile, starts, cookies, wallClock>>
    PROVE  SecretInv'
  <1>1. \A q \in Servers : q # p => server'[q] = server[q]
    BY DEF ParseSecret, SecretInv, SecretTypes
  <1>2. \/ server'[p] = Down
        \/ secretFile \in Secrets /\ server'[p] = [at |-> "serving", secret |-> secretFile]
    BY DEF ParseSecret, SecretInv, SecretTypes
  <1>3. SecretTypes'
    BY <1>2 DEF ParseSecret, SecretInv, SecretTypes, Down
  <1>4. Drawn' /\ OneWriter' /\ SecretKept'
    BY <1>1, <1>2 DEF SecretInv, Drawn, OneWriter, SecretKept, Down
  <1> QED
    BY <1>3, <1>4 DEF SecretInv

(* A start draws the next secret.                                          *)
LEMMA StartServerOK == ASSUME SecretInv, NEW p \in Servers, StartServer(p) PROVE SecretInv'
  <1>1. /\ \A q \in Servers : q # p => server'[q] = server[q]
        /\ server'[p] = [at |-> "read", secret |-> starts + 1]
        /\ starts + 1 \in Secrets /\ starts' \in 0 .. MaxStarts
        /\ UNCHANGED <<secretFile, cookies, wallClock>>
    BY SecretAssumption DEF StartServer, SecretInv, SecretTypes, Secrets
  <1>2. SecretTypes'
    BY <1>1 DEF StartServer, SecretInv, SecretTypes
  <1>3. Drawn' /\ OneWriter' /\ SecretKept'
    BY <1>1 DEF SecretInv, Drawn, OneWriter, SecretKept
  <1> QED
    BY <1>2, <1>3 DEF SecretInv

(* There is no file, or there is something to read.                        *)
LEMMA ReadSecretOK == ASSUME SecretInv, NEW p \in Servers, ReadSecret(p) PROVE SecretInv'
  <1>1. CASE secretFile = 0
    <2>1. /\ server' = [server EXCEPT ![p].at = "create"] /\ server[p].at = "read"
          /\ UNCHANGED <<secretFile, starts, cookies, wallClock>>
      BY <1>1 DEF ReadSecret
    <2>2. /\ \A q \in Servers : q # p => server'[q] = server[q]
          /\ server'[p].at = "create" /\ server'[p].secret = server[p].secret
      BY <2>1 DEF SecretInv, SecretTypes
    <2>3. SecretTypes'
      BY <2>1 DEF SecretInv, SecretTypes
    <2>4. Drawn' /\ OneWriter' /\ SecretKept'
      BY <2>1, <2>2 DEF SecretInv, Drawn, OneWriter, SecretKept
    <2> QED
      BY <2>3, <2>4 DEF SecretInv
  <1>2. CASE secretFile # 0
    BY <1>2, ParseSecretOK DEF ReadSecret
  <1> QED
    BY <1>1, <1>2

(* Nobody has written or is writing when the file is created.              *)
LEMMA CreateSecretOK == ASSUME SecretInv, NEW p \in Servers, CreateSecret(p) PROVE SecretInv'
  <1>1. CASE secretFile = 0
    <2>1. /\ server' = [server EXCEPT ![p].at = "write"] /\ server[p].at = "create"
          /\ secretFile' = Unwritten
          /\ UNCHANGED <<starts, cookies, wallClock>>
      BY <1>1 DEF CreateSecret
    <2>2. /\ \A q \in Servers : q # p => server'[q] = server[q]
          /\ server'[p].at = "write" /\ server'[p].secret = server[p].secret
      BY <2>1 DEF SecretInv, SecretTypes
    <2>3. SecretTypes'
      BY <2>1 DEF SecretInv, SecretTypes
    <2>4. cookies = {} /\ \A q \in Servers : server[q].at \notin {"write", "serving"}
      BY <1>1, UnwrittenOK DEF SecretInv, SecretTypes, OneWriter, SecretKept
    <2>5. Drawn' /\ OneWriter' /\ SecretKept'
      BY <2>1, <2>2, <2>4 DEF SecretInv, Drawn, OneWriter, SecretKept
    <2> QED
      BY <2>3, <2>5 DEF SecretInv
  <1>2. CASE secretFile # 0
    BY <1>2, ParseSecretOK DEF CreateSecret
  <1> QED
    BY <1>1, <1>2

(* Until it is written nobody serves and nothing is signed.                *)
LEMMA WriteSecretOK == ASSUME SecretInv, NEW p \in Servers, WriteSecret(p) PROVE SecretInv'
  <1>1. /\ server' = [server EXCEPT ![p].at = "serving"] /\ server[p].at = "write"
        /\ secretFile' = server[p].secret /\ server[p].secret \in Secrets
        /\ UNCHANGED <<starts, cookies, wallClock>>
    BY DEF WriteSecret, SecretInv, Drawn
  <1>2. /\ \A q \in Servers : q # p => server'[q] = server[q]
        /\ server'[p].at = "serving" /\ server'[p].secret = server[p].secret
    BY <1>1 DEF SecretInv, SecretTypes
  <1>3. SecretTypes'
    BY <1>1 DEF SecretInv, SecretTypes
  <1>4. /\ cookies = {}
        /\ \A q \in Servers : server[q].at # "serving" /\ (server[q].at = "write" => q = p)
    BY <1>1, UnwrittenOK DEF SecretInv, SecretTypes, OneWriter, SecretKept
  <1>5. Drawn' /\ OneWriter' /\ SecretKept'
    BY <1>1, <1>2, <1>4 DEF SecretInv, Drawn, OneWriter, SecretKept
  <1> QED
    BY <1>3, <1>5 DEF SecretInv

(* A server that stops, also between creating and writing.                 *)
LEMMA StopServerOK == ASSUME SecretInv, NEW p \in Servers, StopServer(p) PROVE SecretInv'
  <1>1. /\ \A q \in Servers : server'[q] = IF q = p THEN Down ELSE server[q]
        /\ UNCHANGED <<secretFile, starts, cookies, wallClock>>
    BY DEF StopServer, SecretInv, SecretTypes
  <1>2. SecretTypes'
    BY DEF StopServer, SecretInv, SecretTypes, Down
  <1>3. Drawn' /\ OneWriter' /\ SecretKept'
    BY <1>1 DEF SecretInv, Drawn, OneWriter, SecretKept, Down
  <1> QED
    BY <1>2, <1>3 DEF SecretInv

(* A cookie is signed with the secret of the server, and the clock.        *)
LEMMA IssueCookieOK == ASSUME SecretInv, NEW p \in Servers, IssueCookie(p) PROVE SecretInv'
  <1>1. server[p].secret = secretFile /\ secretFile \in Secrets
    BY DEF IssueCookie, SecretInv, SecretKept
  <1>2. SecretTypes'
    BY <1>1 DEF IssueCookie, SecretInv, SecretTypes
  <1>3. Drawn' /\ OneWriter' /\ SecretKept'
    BY <1>1 DEF IssueCookie, SecretInv, Drawn, OneWriter, SecretKept
  <1> QED
    BY <1>2, <1>3 DEF SecretInv

(* Every server accepts the cookies of every other one, before and after   *)
(* restarts: a login survives whatever the starts of servers do.           *)
THEOREM Logins == SecretSpec => []LoginsSurvive
  <1>1. ASSUME SecretInv, [SecretNext]_secretVars PROVE SecretInv'
    <2>1. CASE UNCHANGED secretVars
      BY <1>1, <2>1 DEF secretVars, SecretInv, SecretTypes, Drawn, OneWriter, SecretKept
    <2>2. CASE SetClock
      BY <1>1, <2>2 DEF SetClock, SecretInv, SecretTypes, Drawn, OneWriter, SecretKept
    <2> QED
      BY <1>1, <2>1, <2>2, StartServerOK, ReadSecretOK, CreateSecretOK, WriteSecretOK,
         StopServerOK, IssueCookieOK DEF SecretNext
  <1>2. SecretInv => LoginsSurvive
    BY SecretAssumption DEF SecretInv, SecretTypes, SecretKept, LoginsSurvive, Verify
  <1> QED
    BY SecretInitOK, <1>1, <1>2, PTL DEF SecretSpec

-----------------------------------------------------------------------------
(* The link to the forwarded agent                                         *)
(*                                                                         *)
(* A chain that does not pass through the stable link is the same wherever *)
(* that link leads.  So what a client has checked of its target still      *)
(* holds when it renames, however many others have renamed meanwhile.      *)

(* The target of a refresh leads to a socket, and not through the link.    *)
GoodTarget(path) ==
    path \in AgentPaths /\ Chain(path) \cap AgentSockets # {} /\ StableLink \notin Chain(path)

AgentInv ==
    /\ userLink \in [UserLinks -> AgentPaths]
    /\ sockets \subseteq AgentSockets
    /\ stableLink \in AgentPaths \cup {NoTarget}
    /\ temporary \in [AgentClients -> AgentPaths \cup {NoTarget}]
    /\ refresh \in [AgentClients -> [at : {"idle", "link", "rename"},
                                     target : AgentPaths \cup {NoTarget}]]
    /\ \A c \in AgentClients :
          /\ refresh[c].at # "idle" => GoodTarget(refresh[c].target)
          /\ refresh[c].at = "rename" => temporary[c] = refresh[c].target
    /\ NoAgentLoop

(* A chain contains where it begins and where its paths lead.              *)
LEMMA ChainFollowed ==
    ASSUME NEW path \in AgentPaths, userLink \in [UserLinks -> AgentPaths],
           StableLink \notin Chain(path)
    PROVE  path \in Chain(path) /\ Followed(Chain(path))
  <1>1. path \in Chain(path)
    BY DEF Chain
  <1>2. ASSUME NEW p \in Chain(path) PROVE Target(p) \in Chain(path) \cup {NoTarget}
    <2>1. p \in AgentPaths /\ p # StableLink
      BY DEF Chain
    <2>2. Target(p) \in AgentPaths
      BY <2>1 DEF Target, AgentPaths
    <2>3. ASSUME NEW S \in SUBSET AgentPaths, path \in S, Followed(S)
          PROVE  Target(p) \in S \cup {NoTarget}
      BY <2>3 DEF Chain, Followed
    <2>4. CASE Target(p) = NoTarget
      BY <2>4
    <2>5. CASE Target(p) # NoTarget
      BY <2>2, <2>3, <2>5 DEF Chain
    <2> QED
      BY <2>4, <2>5
  <1> QED
    BY <1>1, <1>2 DEF Followed

(* Retargeting the link does not change a chain that avoids it.            *)
LEMMA ChainKept ==
    ASSUME NEW path \in AgentPaths, userLink \in [UserLinks -> AgentPaths],
           UNCHANGED userLink, StableLink \notin Chain(path)
    PROVE  Chain(path)' = Chain(path)
  <1>1. \A p \in AgentPaths : p # StableLink => Target(p)' = Target(p)
    BY DEF Target
  <1>2. \A S \in SUBSET AgentPaths : StableLink \notin S => (Followed(S)' <=> Followed(S))
    BY <1>1 DEF Followed
  <1>3. Chain(path) \in SUBSET AgentPaths /\ Chain(path)' \in SUBSET AgentPaths
    BY DEF Chain
  <1>4. path \in Chain(path) /\ Followed(Chain(path))
    BY ChainFollowed
  <1>5. \A S \in SUBSET AgentPaths : path \in S /\ Followed(S)' => Chain(path)' \subseteq S
    BY DEF Chain
  <1>6. Chain(path)' \subseteq Chain(path)
    <2> DEFINE K == Chain(path)
    <2>1. K \in SUBSET AgentPaths /\ path \in K /\ StableLink \notin K /\ Followed(K)
      BY <1>3, <1>4
    <2> HIDE DEF K
    <2>2. \A p \in K : Target(p)' \in K \cup {NoTarget}
      BY <1>1, <2>1 DEF Followed
    <2>3. \A q \in Chain(path)' : q \in K
      BY <2>1, <2>2 DEF Chain, Followed
    <2> QED
      BY <2>3 DEF K
  <1>7. ASSUME NEW q \in Chain(path) PROVE q \in Chain(path)'
    <2>1. ASSUME NEW S \in SUBSET AgentPaths, path \in S, \A p \in S : Target(p)' \in S \cup {NoTarget}
          PROVE  q \in S
      <3> DEFINE T == S \cap Chain(path)
      <3>1. T \in SUBSET AgentPaths /\ path \in T
        BY <1>3, <1>4, <2>1
      <3>2. Followed(T)
        BY <1>1, <1>3, <1>4, <2>1 DEF Followed
      <3> QED
        BY <1>7, <3>1, <3>2 DEF Chain
    <2> QED
      BY <1>3, <1>7, <2>1 DEF Chain, Followed
  <1> QED
    BY <1>6, <1>7

(* Good targets stay good.                                                 *)
LEMMA GoodTargetKept ==
    ASSUME NEW path \in AgentPaths, userLink \in [UserLinks -> AgentPaths],
           UNCHANGED userLink, GoodTarget(path)
    PROVE  GoodTarget(path)' /\ Chain(path)' = Chain(path)
  BY ChainKept DEF GoodTarget

(* No link, no refresh.                                                    *)
LEMMA AgentInitOK == AgentInit => AgentInv
  BY DEF AgentInit, AgentInv, NoAgentLoop, IdleRefresh

(* Whatever the step, the targets that were good are.                      *)
LEMMA TargetsKept ==
    ASSUME AgentInv, AgentNext, NEW t \in AgentPaths, GoodTarget(t)
    PROVE  GoodTarget(t)' /\ Chain(t)' = Chain(t)
  <1>1. UNCHANGED userLink /\ userLink \in [UserLinks -> AgentPaths]
    BY DEF AgentNext, AgentInv, BeginRefresh, MakeTemporary, RenameTemporary, RefreshFails,
           RefreshKilled, SocketChanges
  <1> QED
    BY <1>1, GoodTargetKept

(* A client checks its target.                                             *)
LEMMA BeginRefreshOK ==
    ASSUME AgentInv, NEW c \in AgentClients, NEW path \in AgentPaths, BeginRefresh(c, path)
    PROVE  /\ UNCHANGED <<userLink, sockets, stableLink, temporary>>
           /\ GoodTarget(path)
           /\ refresh' = [refresh EXCEPT ![c] = [at |-> "link", target |-> path]]
  BY DEF BeginRefresh, AgentInv, GoodTarget, References, LeadsToSocket

(* A step leaves the link or leads it to a good target; it keeps the       *)
(* targets of the clients good.                                            *)
LEMMA AgentStep ==
    ASSUME AgentInv, AgentNext
    PROVE  /\ userLink' \in [UserLinks -> AgentPaths] /\ sockets' \subseteq AgentSockets
           /\ temporary' \in [AgentClients -> AgentPaths \cup {NoTarget}]
           /\ refresh' \in [AgentClients -> [at : {"idle", "link", "rename"},
                                             target : AgentPaths \cup {NoTarget}]]
           /\ \A c \in AgentClients : refresh'[c].at # "idle" =>
                 refresh'[c].target \in AgentPaths /\ GoodTarget(refresh'[c].target)
           /\ \A c \in AgentClients :
                 refresh'[c].at = "rename" => temporary'[c] = refresh'[c].target
           /\ \/ UNCHANGED stableLink
              \/ \E c \in AgentClients :
                    /\ refresh[c].at = "rename" /\ stableLink' = refresh[c].target
                    /\ stableLink' \in AgentPaths /\ GoodTarget(stableLink')
  <1>1. ASSUME NEW c \in AgentClients, NEW path \in AgentPaths, BeginRefresh(c, path)
        PROVE  refresh' = [refresh EXCEPT ![c] = [at |-> "link", target |-> path]]
               /\ GoodTarget(path) /\ UNCHANGED <<userLink, sockets, stableLink, temporary>>
    BY <1>1, BeginRefreshOK
  <1>2. \A c \in AgentClients : refresh[c].at # "idle" => refresh[c].target \in AgentPaths
    BY DEF AgentInv, GoodTarget
  <1>3. CASE \E c \in AgentClients, path \in AgentPaths : BeginRefresh(c, path)
    BY <1>1, <1>2, <1>3 DEF AgentInv
  <1>4. CASE \E c \in AgentClients : MakeTemporary(c)
    BY <1>2, <1>4 DEF AgentInv, MakeTemporary
  <1>5. CASE \E c \in AgentClients : RenameTemporary(c)
    BY <1>2, <1>5 DEF AgentInv, RenameTemporary, IdleRefresh
  <1>6. ASSUME NEW c \in AgentClients, RefreshFails(c) \/ RefreshKilled(c)
        PROVE  /\ UNCHANGED <<userLink, sockets, stableLink>>
               /\ temporary' \in [AgentClients -> AgentPaths \cup {NoTarget}]
               /\ refresh' = [refresh EXCEPT ![c] = IdleRefresh]
               /\ \A d \in AgentClients : d # c => temporary'[d] = temporary[d]
    BY <1>6 DEF AgentInv, RefreshFails, RefreshKilled
  <1>7. CASE \E c \in AgentClients : RefreshFails(c) \/ RefreshKilled(c)
    BY <1>2, <1>6, <1>7, SMTT(60) DEF AgentInv, IdleRefresh
  <1>8. CASE \E s \in AgentSockets : SocketChanges(s)
    BY <1>2, <1>8 DEF AgentInv, SocketChanges
  <1> QED
    BY <1>3, <1>4, <1>5, <1>8, <1>7 DEF AgentNext

(* The link, if there is one, is a good target.                            *)
LEMMA GoodLink ==
    ASSUME NEW t \in AgentPaths, stableLink' = t, GoodTarget(t)'
    PROVE  NoAgentLoop'
  BY DEF NoAgentLoop, GoodTarget

(* The chain of the link stays what it was until it is led elsewhere.      *)
LEMMA AgentNextOK ==
    ASSUME AgentInv, AgentNext
    PROVE  AgentInv'
  <1>1. ASSUME NEW c \in AgentClients, refresh'[c].at # "idle"
        PROVE  GoodTarget(refresh[c].target)'
    <2>1. PICK t \in AgentPaths : t = refresh'[c].target /\ GoodTarget(t)
      BY <1>1, AgentStep
    <2>2. GoodTarget(t)'
      BY <2>1, TargetsKept
    <2> QED
      BY <2>1, <2>2
  <1>2. NoAgentLoop' /\ stableLink' \in AgentPaths \cup {NoTarget}
    <2>1. CASE stableLink' = NoTarget
      BY <2>1 DEF NoAgentLoop
    <2>2. ASSUME stableLink' # NoTarget
          PROVE  \E t \in AgentPaths : stableLink' = t /\ GoodTarget(t)
      <3>1. CASE UNCHANGED stableLink
        BY <2>2, <3>1 DEF AgentInv, NoAgentLoop, GoodTarget
      <3>2. CASE stableLink' \in AgentPaths /\ GoodTarget(stableLink')
        BY <3>2
      <3> QED
        BY <3>1, <3>2, AgentStep
    <2>3. CASE stableLink' # NoTarget
      <3>1. PICK t \in AgentPaths : stableLink' = t /\ GoodTarget(t)
        BY <2>2, <2>3
      <3>2. GoodTarget(t)'
        BY <3>1, TargetsKept
      <3> QED
        BY <3>1, <3>2, GoodLink
    <2> QED
      BY <2>1, <2>3
  <1> QED
    BY <1>1, <1>2, AgentStep DEF AgentInv

(* AgentInv holds whenever nobody is in the middle of a step.              *)
LEMMA AgentInvariant == AgentSpec => []AgentInv
  <1>1. ASSUME AgentInv, [AgentNext]_agentVars PROVE AgentInv'
    <2>1. CASE UNCHANGED agentVars
      <3>1. \A path : Chain(path)' = Chain(path)
        BY <2>1 DEF agentVars, Chain, Followed, Target
      <3> QED
        BY <1>1, <2>1, <3>1 DEF agentVars, AgentInv, NoAgentLoop, GoodTarget
    <2> QED
      BY <1>1, <2>1, AgentNextOK
  <1> QED
    BY AgentInitOK, <1>1, PTL DEF AgentSpec

(* The stable link never leads back to itself, through whatever links of   *)
(* the user, also when several clients refresh it at once.                 *)
THEOREM NoLoop == AgentSpec => []NoAgentLoop
  <1>1. AgentInv => NoAgentLoop
    BY DEF AgentInv
  <1> QED
    BY <1>1, AgentInvariant, PTL

(* The link only ever changes to a target that a client has checked, and   *)
(* what the client has checked still holds when it does.                   *)
THEOREM LinkGood == AgentSpec => LinkAlwaysGood
  <1>1. ASSUME AgentInv, [AgentNext]_agentVars
        PROVE  [stableLink' # stableLink => NoAgentLoop' /\ LinkNeverVanishes]_agentVars
    <2>1. CASE UNCHANGED agentVars
      BY <2>1
    <2>2. CASE AgentNext
      <3>1. NoAgentLoop'
        BY <1>1, <2>2, AgentNextOK DEF AgentInv
      <3>2. stableLink' # stableLink => LinkNeverVanishes
        BY <1>1, <2>2, AgentStep DEF LinkNeverVanishes
      <3> QED
        BY <3>1, <3>2
    <2> QED
      BY <1>1, <2>1, <2>2
  <1> QED
    BY <1>1, AgentInvariant, PTL DEF AgentSpec, LinkAlwaysGood

-----------------------------------------------------------------------------
(* The resize state                                                        *)
(*                                                                         *)
(* Whoever is in the middle of something holds the session's lock, so a    *)
(* settings file is written and a viewer recorded only while the record is *)
(* there; and a session that was forgotten does not live again.            *)

ResizeSteps == {"idle", "record", "lookup", "apply", "respond", "list", "forget", "files", "last"}
ResizeStep == [at : ResizeSteps, ref : ResizeRefs \cup {Nobody},
               viewer : ViewerIDs \cup {NoViewer}, now : Nat]

(* An actor in the middle of something holds the lock of its session.      *)
Held == \A a \in Actors :
    step[a].at # "idle" => step[a].ref \in ResizeRefs /\ holder[step[a].ref] = a

ResizeTypes ==
    /\ record \in [ResizeRefs -> {"live", "exited", "gone"}]
    /\ settings = [r \in ResizeRefs |-> settings[r]]
    /\ viewers = [r \in ResizeRefs |-> viewers[r]]
    /\ holder \in [ResizeRefs -> Actors \cup {Nobody}]
    /\ step \in [Actors -> ResizeStep]
    /\ time \in Nat
    /\ forgotten \subseteq ResizeRefs

(* What the next step of an actor relies on.                               *)
Prepared == \A a \in Actors :
    /\ step[a].at \in {"record", "lookup", "apply"} => record[step[a].ref] # "gone"
    /\ step[a].at = "record" => step[a].ref \notin forgotten
    /\ step[a].at = "last" => settings[step[a].ref] = "none"

DeadForGood == \A r \in forgotten : record[r] # "live"

ResizeInv == ResizeTypes /\ Held /\ Prepared /\ DeadForGood /\ NothingLeftBehind

(* The memory of the server has nothing of a session: nothing expires.     *)
LEMMA NothingExpires == \A now : Unexpired(<<>>, now) = <<>>
  BY DEF Unexpired

(* Everything lives, and nobody does anything.                             *)
LEMMA ResizeInitOK == ResizeInit => ResizeInv
  BY DEF ResizeInit, ResizeInv, ResizeTypes, Held, Prepared, DeadForGood, NothingLeftBehind,
         NoOrphanSettings, ForgottenHasNoViewers, NoStep, ResizeStep, ResizeSteps

(* An actor takes the lock of a session that nobody holds.                 *)
LEMMA BeginOK ==
    ASSUME ResizeInv, NEW a \in Actors, NEW ref \in ResizeRefs, NEW at \in ResizeSteps,
           NEW viewer \in ViewerIDs \cup {NoViewer}, Begin(a, ref, at, viewer),
           at \in {"record", "lookup", "apply"} => record[ref] = "live",
           at # "last",
           UNCHANGED <<record, settings, viewers, time, forgotten>>
    PROVE  ResizeInv'
  <1> DEFINE s == [at |-> at, ref |-> ref, viewer |-> viewer,
                   now |-> IF viewer = NoViewer THEN 0 ELSE time]
  <1>1. /\ step[a].at = "idle" /\ holder[ref] = Nobody
        /\ holder' = [holder EXCEPT ![ref] = a] /\ step' = [step EXCEPT ![a] = s]
    BY DEF Begin, LockSession
  <1>2. s \in ResizeStep /\ s.at = at /\ s.ref = ref
    BY DEF ResizeStep, ResizeInv, ResizeTypes
  <1> HIDE DEF s
  <1>3. /\ step'[a] = s /\ \A b \in Actors : b # a => step'[b] = step[b]
        /\ holder'[ref] = a /\ \A r \in ResizeRefs : r # ref => holder'[r] = holder[r]
    BY <1>1 DEF ResizeInv, ResizeTypes
  <1>4. ResizeTypes'
    BY <1>1, <1>2 DEF ResizeInv, ResizeTypes
  <1>5. Held'
    BY <1>1, <1>2, <1>3, ResizeAssumption DEF ResizeInv, Held
  <1>6. Prepared' /\ DeadForGood'
    BY <1>2, <1>3 DEF ResizeInv, Prepared, DeadForGood
  <1>7. NothingLeftBehind'
    BY DEF ResizeInv, NothingLeftBehind, NoOrphanSettings, ForgottenHasNoViewers
  <1> QED
    BY <1>4, <1>5, <1>6, <1>7 DEF ResizeInv

(* An actor stops or goes on with the session it has locked, and the rest  *)
(* of what it does keeps the other actors prepared.                        *)
StepsOnly(a) ==
    \/ Finish(a)
    \/ \E at \in ResizeSteps \ {"idle"} :
          /\ at = "apply" => step[a].at = "lookup"
          /\ at \notin {"record", "lookup"}
          /\ Continue(a, at) \/ (at = "respond" /\ Respond(a))
    \/ \E now \in Nat : /\ step' = [step EXCEPT ![a].at = "list", ![a].now = now]
                        /\ UNCHANGED holder

(* The lock stays with the actors that are in the middle of something.     *)
LEMMA StepsOnlyOK ==
    ASSUME ResizeInv, NEW a \in Actors, step[a].at # "idle", StepsOnly(a)
    PROVE  /\ step' \in [Actors -> ResizeStep]
           /\ holder' \in [ResizeRefs -> Actors \cup {Nobody}]
           /\ Held'
           /\ \A b \in Actors : b # a => step'[b] = step[b]
           /\ step'[a].at # "idle" => step'[a].ref = step[a].ref
           /\ step'[a].at \notin {"record", "lookup"}
           /\ step'[a].at = "apply" => step[a].at = "lookup"
  <1>0. /\ step \in [Actors -> ResizeStep] /\ holder \in [ResizeRefs -> Actors \cup {Nobody}]
        /\ step[a].ref \in ResizeRefs /\ holder[step[a].ref] = a
    BY DEF ResizeInv, ResizeTypes, Held
  <1>1. CASE Finish(a)
    <2>1. NoStep \in ResizeStep /\ NoStep.at = "idle"
      BY DEF NoStep, ResizeStep, ResizeSteps
    <2>2. /\ step' = [step EXCEPT ![a] = NoStep]
          /\ holder' = [holder EXCEPT ![step[a].ref] = Nobody]
      BY <1>0, <1>1 DEF Finish
    <2> HIDE DEF NoStep
    <2>3. step' \in [Actors -> ResizeStep] /\ holder' \in [ResizeRefs -> Actors \cup {Nobody}]
      BY <1>0, <2>1, <2>2
    <2>4. step'[a] = NoStep /\ \A b \in Actors : b # a => step'[b] = step[b]
      BY <1>0, <2>2
    <2>5. Held'
      BY <1>0, <2>1, <2>2, <2>4 DEF ResizeInv, Held
    <2> QED
      BY <2>1, <2>3, <2>4, <2>5
  <1>2. ASSUME NEW at \in ResizeSteps \ {"idle"}, at = "apply" => step[a].at = "lookup",
               at \notin {"record", "lookup"},
               Continue(a, at) \/ (at = "respond" /\ Respond(a))
        PROVE  /\ step' \in [Actors -> ResizeStep] /\ UNCHANGED holder
               /\ \A b \in Actors : b # a => step'[b] = step[b]
               /\ step'[a].ref = step[a].ref /\ step'[a].at = at
    <2>1. CASE Continue(a, at)
      BY <1>0, <2>1 DEF Continue, ResizeStep
    <2>2. CASE at = "respond" /\ Respond(a)
      <3> DEFINE t == [step[a] EXCEPT !.at = "respond", !.viewer = NoViewer, !.now = 0]
      <3>1. t \in ResizeStep /\ t.ref = step[a].ref /\ t.at = "respond"
        BY <1>0 DEF ResizeStep, ResizeSteps
      <3>2. step' = [step EXCEPT ![a] = t] /\ UNCHANGED holder
        BY <1>0, <2>2 DEF Respond
      <3> HIDE DEF t
      <3> QED
        BY <1>0, <2>2, <3>1, <3>2
    <2> QED
      BY <1>2, <2>1, <2>2
  <1>3. ASSUME NEW now \in Nat, step' = [step EXCEPT ![a].at = "list", ![a].now = now], UNCHANGED holder
        PROVE  /\ step' \in [Actors -> ResizeStep]
               /\ \A b \in Actors : b # a => step'[b] = step[b]
               /\ step'[a].ref = step[a].ref /\ step'[a].at = "list"
    BY <1>0, <1>3, ZenonT(60) DEF ResizeStep, ResizeSteps
  <1> QED
    BY <1>0, <1>1, <1>2, <1>3 DEF StepsOnly, ResizeInv, Held

(* A step of an actor that touches its own session only, for better.       *)
LEMMA ProgressOK ==
    ASSUME ResizeInv, NEW a \in Actors, step[a].at # "idle", StepsOnly(a),
           NEW ref, ref = step[a].ref,
           record' \in [ResizeRefs -> {"live", "exited", "gone"}],
           settings' = [r \in ResizeRefs |-> settings'[r]],
           viewers' = [r \in ResizeRefs |-> viewers'[r]],
           \A r \in ResizeRefs : r # ref =>
               /\ record'[r] = record[r] /\ settings'[r] = settings[r]
               /\ viewers[r] = <<>> => viewers'[r] = <<>>,
           UNCHANGED time, forgotten' \subseteq forgotten \cup {ref},
           step'[a].at = "apply" => record'[ref] # "gone",
           step'[a].at = "last" => settings'[ref] = "none",
           record'[ref] = "gone" => settings'[ref] = "none",
           ref \in forgotten' => record'[ref] # "live" /\ viewers'[ref] = <<>>
    PROVE  ResizeInv'
  <1>1. /\ step' \in [Actors -> ResizeStep]
        /\ holder' \in [ResizeRefs -> Actors \cup {Nobody}]
        /\ Held'
        /\ \A b \in Actors : b # a => step'[b] = step[b]
        /\ step'[a].at # "idle" => step'[a].ref = step[a].ref
        /\ step'[a].at \notin {"record", "lookup"}
    BY StepsOnlyOK
  <1>2. ref \in ResizeRefs /\ holder[ref] = a
    BY DEF ResizeInv, Held
  <1>3. \A b \in Actors : b # a /\ step[b].at # "idle" => step[b].ref \in ResizeRefs \ {ref}
    BY <1>2 DEF ResizeInv, Held
  <1>4. ResizeTypes'
    BY <1>1, <1>2 DEF ResizeInv, ResizeTypes
  <1>5. Prepared'
    <2>1. ASSUME NEW b \in Actors, b # a
          PROVE  /\ step'[b].at \in {"record", "lookup", "apply"} => record'[step'[b].ref] # "gone"
                 /\ step'[b].at = "record" => step'[b].ref \notin forgotten'
                 /\ step'[b].at = "last" => settings'[step'[b].ref] = "none"
      <3>1. step'[b] = step[b]
        BY <1>1, <2>1
      <3>2. CASE step[b].at = "idle"
        BY <3>1, <3>2
      <3>3. CASE step[b].at # "idle"
        BY <1>3, <2>1, <3>1, <3>3 DEF ResizeInv, Prepared
      <3> QED
        BY <3>2, <3>3
    <2>2. /\ step'[a].at \in {"record", "lookup", "apply"} => record'[step'[a].ref] # "gone"
          /\ step'[a].at = "record" => step'[a].ref \notin forgotten'
          /\ step'[a].at = "last" => settings'[step'[a].ref] = "none"
      BY <1>1
    <2> QED
      BY <2>1, <2>2 DEF Prepared
  <1>6. DeadForGood' /\ NothingLeftBehind'
    BY <1>2, <1>4 DEF ResizeInv, ResizeTypes, DeadForGood, NothingLeftBehind, NoOrphanSettings,
                ForgottenHasNoViewers
  <1> QED
    BY <1>1, <1>4, <1>5, <1>6 DEF ResizeInv

(* Viewers expire and are pruned, but do not come back.                    *)
LEMMA PruneOK ==
    ASSUME ResizeInv, NEW ref \in ResizeRefs, NEW now
    PROVE  /\ \A r \in ResizeRefs : viewers[r] = <<>> => PruneAll(ref, now)[r] = <<>>
           /\ \A r \in ResizeRefs : viewers[r] = <<>> => Prune(ref, now)[r] = <<>>
           /\ Prune(ref, now) = [r \in ResizeRefs |-> Prune(ref, now)[r]]
           /\ PruneAll(ref, now) = [r \in ResizeRefs |-> PruneAll(ref, now)[r]]
  <1>1. viewers = [r \in ResizeRefs |-> viewers[r]]
    BY DEF ResizeInv, ResizeTypes
  <1>2. \A r \in ResizeRefs : PruneAll(ref, now)[r] = Unexpired(viewers[r], now)
    BY DEF PruneAll
  <1>3. \A r \in ResizeRefs :
            Prune(ref, now)[r] = IF r = ref THEN Unexpired(viewers[r], now) ELSE viewers[r]
    BY <1>1 DEF Prune
  <1>4. Prune(ref, now) = [r \in ResizeRefs |-> Prune(ref, now)[r]]
    BY <1>1 DEF Prune
  <1>5. PruneAll(ref, now) = [r \in ResizeRefs |-> PruneAll(ref, now)[r]]
    BY DEF PruneAll
  <1> QED
    BY <1>2, <1>3, <1>4, <1>5, NothingExpires

(* What an actor in the middle of something has.                           *)
LEMMA AtSession ==
    ASSUME ResizeInv, NEW a \in Actors, step[a].at # "idle"
    PROVE  /\ step[a].ref \in ResizeRefs /\ step[a] \in ResizeStep
           /\ record \in [ResizeRefs -> {"live", "exited", "gone"}]
           /\ settings = [r \in ResizeRefs |-> settings[r]]
           /\ viewers = [r \in ResizeRefs |-> viewers[r]]
           /\ record[step[a].ref] = "gone" => settings[step[a].ref] = "none"
           /\ step[a].ref \in forgotten =>
                 record[step[a].ref] # "live" /\ viewers[step[a].ref] = <<>>
  BY DEF ResizeInv, ResizeTypes, Held, DeadForGood, NothingLeftBehind, NoOrphanSettings,
         ForgottenHasNoViewers

(* A viewer is recorded for a session that was not forgotten.              *)
LEMMA RecordViewerOK == ASSUME ResizeInv, NEW h \in Handlers, RecordViewer(h) PROVE ResizeInv'
  <1> DEFINE ref == step[h].ref
             pruned == PruneAll(ref, step[h].now)
  <1>1. /\ h \in Actors /\ step[h].at = "record" /\ UNCHANGED <<record, settings, time, forgotten>>
        /\ \/ viewers' = pruned /\ Finish(h)
           \/ /\ viewers' = [pruned EXCEPT ![ref] =
                      [v \in DOMAIN @ \cup {step[h].viewer} |->
                          IF v = step[h].viewer THEN step[h].now ELSE @[v]]]
              /\ Respond(h)
    BY DEF RecordViewer, Actors
  <1>2. ref \in ResizeRefs /\ ref \notin forgotten /\ record[ref] # "gone"
    BY <1>1, AtSession DEF ResizeInv, Prepared
  <1>3. /\ pruned = [r \in ResizeRefs |-> pruned[r]]
        /\ \A r \in ResizeRefs : viewers[r] = <<>> => pruned[r] = <<>>
    BY <1>2, PruneOK
  <1> HIDE DEF pruned
  <1>4. /\ viewers' = [r \in ResizeRefs |-> viewers'[r]]
        /\ \A r \in ResizeRefs : r # ref /\ viewers[r] = <<>> => viewers'[r] = <<>>
    BY <1>1, <1>2, <1>3
  <1>5. StepsOnly(h) /\ (step'[h].at = "last" => FALSE)
    <2>1. CASE Finish(h)
      BY <1>1, <2>1 DEF StepsOnly, Finish, NoStep, ResizeInv, ResizeTypes
    <2>2. CASE Respond(h)
      BY <1>1, <2>2 DEF StepsOnly, Respond, ResizeSteps, ResizeInv, ResizeTypes, ResizeStep
    <2> QED
      BY <1>1, <2>1, <2>2
  <1>6. /\ record \in [ResizeRefs -> {"live", "exited", "gone"}]
        /\ settings = [r \in ResizeRefs |-> settings[r]]
    BY DEF ResizeInv, ResizeTypes
  <1> HIDE DEF ref
  <1> QED
    BY <1>1, <1>2, <1>4, <1>5, <1>6, ProgressOK DEF ref

(* Viewers that are looked up or listed are only pruned.                   *)
LEMMA LookupViewerOK ==
    ASSUME ResizeInv, NEW h \in Handlers, LookupViewer(h) \/ RespondViewers(h)
    PROVE  ResizeInv'
  <1> DEFINE ref == step[h].ref
  <1>1. /\ h \in Actors /\ step[h].at \in {"lookup", "list"}
        /\ viewers' = Prune(ref, step[h].now)
        /\ Finish(h) \/ (step[h].at = "lookup" /\ Continue(h, "apply"))
        /\ UNCHANGED <<record, settings, time, forgotten>>
    BY DEF LookupViewer, RespondViewers, Actors
  <1>2. /\ ref \in ResizeRefs /\ (step[h].at = "lookup" => record[ref] # "gone")
        /\ record \in [ResizeRefs -> {"live", "exited", "gone"}]
        /\ settings = [r \in ResizeRefs |-> settings[r]]
        /\ record[ref] = "gone" => settings[ref] = "none"
        /\ ref \in forgotten => record[ref] # "live" /\ viewers[ref] = <<>>
    BY <1>1, AtSession DEF ResizeInv, Prepared
  <1>3. /\ viewers' = [r \in ResizeRefs |-> viewers'[r]]
        /\ \A r \in ResizeRefs : viewers[r] = <<>> => viewers'[r] = <<>>
    BY <1>1, <1>2, PruneOK
  <1>4. /\ StepsOnly(h) /\ step'[h].at # "last"
        /\ step'[h].at = "apply" => step[h].at = "lookup"
    <2>1. CASE Finish(h)
      BY <1>1, <2>1 DEF StepsOnly, Finish, NoStep, ResizeInv, ResizeTypes
    <2>2. CASE step[h].at = "lookup" /\ Continue(h, "apply")
      BY <1>1, <2>2 DEF StepsOnly, Continue, ResizeSteps, ResizeInv, ResizeTypes, ResizeStep
    <2> QED
      BY <1>1, <2>1, <2>2
  <1> HIDE DEF ref
  <1> QED
    BY <1>1, <1>2, <1>3, <1>4, ProgressOK DEF ref

(* Settings are written while the record is there.                         *)
LEMMA ApplyResizeOK == ASSUME ResizeInv, NEW h \in Handlers, ApplyResize(h) PROVE ResizeInv'
  <1> DEFINE ref == step[h].ref
  <1>1. /\ h \in Actors /\ step[h].at = "apply" /\ UNCHANGED <<record, viewers, time, forgotten>>
        /\ \/ /\ \E x : settings' = [settings EXCEPT ![ref] = x]
              /\ Respond(h)
           \/ UNCHANGED settings /\ Finish(h)
    BY DEF ApplyResize, Actors
  <1>2. /\ ref \in ResizeRefs /\ record[ref] # "gone"
        /\ record \in [ResizeRefs -> {"live", "exited", "gone"}]
        /\ settings = [r \in ResizeRefs |-> settings[r]]
        /\ viewers = [r \in ResizeRefs |-> viewers[r]]
        /\ ref \in forgotten => record[ref] # "live" /\ viewers[ref] = <<>>
    BY <1>1, AtSession DEF ResizeInv, Prepared
  <1>3. /\ settings' = [r \in ResizeRefs |-> settings'[r]]
        /\ \A r \in ResizeRefs : r # ref => settings'[r] = settings[r]
    BY <1>1, <1>2
  <1>4. StepsOnly(h) /\ step'[h].at # "last" /\ step'[h].at # "apply"
    <2>1. CASE Finish(h)
      BY <1>1, <2>1 DEF StepsOnly, Finish, NoStep, ResizeInv, ResizeTypes
    <2>2. CASE Respond(h)
      BY <1>1, <2>2 DEF StepsOnly, Respond, ResizeSteps, ResizeInv, ResizeTypes, ResizeStep
    <2> QED
      BY <1>1, <2>1, <2>2
  <1> HIDE DEF ref
  <1> QED
    BY <1>1, <1>2, <1>3, <1>4, ProgressOK DEF ref

(* The clock is read for the answer.                                       *)
LEMMA RespondNowOK == ASSUME ResizeInv, NEW h \in Handlers, RespondNow(h) PROVE ResizeInv'
  <1> DEFINE ref == step[h].ref
  <1>1. /\ h \in Actors /\ step[h].at = "respond"
        /\ step' = [step EXCEPT ![h].at = "list", ![h].now = time]
        /\ UNCHANGED <<record, settings, viewers, holder, time, forgotten>>
        /\ time \in Nat
    BY DEF RespondNow, Actors, ResizeInv, ResizeTypes
  <1>2. /\ ref \in ResizeRefs
        /\ record \in [ResizeRefs -> {"live", "exited", "gone"}]
        /\ settings = [r \in ResizeRefs |-> settings[r]]
        /\ viewers = [r \in ResizeRefs |-> viewers[r]]
        /\ record[ref] = "gone" => settings[ref] = "none"
        /\ ref \in forgotten => record[ref] # "live" /\ viewers[ref] = <<>>
    BY <1>1, AtSession
  <1>3. StepsOnly(h) /\ step'[h].at # "last" /\ step'[h].at # "apply"
    BY <1>1 DEF StepsOnly, ResizeInv, ResizeTypes, ResizeStep
  <1> HIDE DEF ref
  <1> QED
    BY <1>1, <1>2, <1>3, ProgressOK DEF ref

(* The web clears its memory of a session under the session's lock.        *)
LEMMA ForgetSessionOK == ASSUME ResizeInv, NEW h \in Handlers, ForgetSession(h) PROVE ResizeInv'
  <1> DEFINE ref == step[h].ref
  <1>1. /\ h \in Actors /\ step[h].at = "forget" /\ UNCHANGED <<settings, time>>
        /\ viewers' = [viewers EXCEPT ![ref] = <<>>]
        /\ forgotten' = forgotten \cup {ref}
        /\ record' = [record EXCEPT ![ref] = "exited"]
        /\ Continue(h, "files")
    BY DEF ForgetSession, Actors
  <1>2. /\ ref \in ResizeRefs
        /\ record \in [ResizeRefs -> {"live", "exited", "gone"}]
        /\ settings = [r \in ResizeRefs |-> settings[r]]
        /\ viewers = [r \in ResizeRefs |-> viewers[r]]
    BY <1>1, AtSession
  <1> HIDE DEF ref
  <1>3. /\ record' \in [ResizeRefs -> {"live", "exited", "gone"}]
        /\ viewers' = [r \in ResizeRefs |-> viewers'[r]]
        /\ record'[ref] = "exited" /\ viewers'[ref] = <<>>
        /\ \A r \in ResizeRefs : r # ref => record'[r] = record[r] /\ viewers'[r] = viewers[r]
    BY <1>1, <1>2
  <1>4. StepsOnly(h) /\ step'[h].at # "last" /\ step'[h].at # "apply"
    BY <1>1 DEF StepsOnly, Continue, ResizeSteps, ResizeInv, ResizeTypes, ResizeStep
  <1> QED
    BY <1>1, <1>2, <1>3, <1>4, ProgressOK DEF ref

(* The files go first, ...                                                 *)
LEMMA RemoveFirstOK == ASSUME ResizeInv, NEW a \in Actors, RemoveFirst(a) PROVE ResizeInv'
  <1> DEFINE ref == step[a].ref
  <1>1. /\ step[a].at = "files" /\ UNCHANGED <<record, viewers, time, forgotten>>
        /\ \/ settings' = [settings EXCEPT ![ref] = "none"] /\ Continue(a, "last")
           \/ UNCHANGED settings /\ Finish(a)
    BY DEF RemoveFirst, RemoveArtifact, ArtifactOrder
  <1>2. /\ ref \in ResizeRefs
        /\ record \in [ResizeRefs -> {"live", "exited", "gone"}]
        /\ settings = [r \in ResizeRefs |-> settings[r]]
        /\ viewers = [r \in ResizeRefs |-> viewers[r]]
        /\ record[ref] = "gone" => settings[ref] = "none"
        /\ ref \in forgotten => record[ref] # "live" /\ viewers[ref] = <<>>
    BY <1>1, AtSession
  <1>3. /\ settings' = [r \in ResizeRefs |-> settings'[r]]
        /\ \A r \in ResizeRefs : r # ref => settings'[r] = settings[r]
        /\ settings'[ref] \in {settings[ref], "none"}
    BY <1>1, <1>2
  <1>4. /\ StepsOnly(a) /\ step'[a].at # "apply"
        /\ step'[a].at = "last" => settings'[ref] = "none"
    <2>1. CASE Finish(a)
      BY <1>1, <2>1 DEF StepsOnly, Finish, NoStep, ResizeInv, ResizeTypes
    <2>2. CASE settings' = [settings EXCEPT ![ref] = "none"] /\ Continue(a, "last")
      <3>1. settings'[ref] = "none"
        BY <1>2, <2>2
      <3> QED
        BY <1>1, <2>2, <3>1 DEF StepsOnly, Continue, ResizeSteps, ResizeInv, ResizeTypes, ResizeStep
    <2> QED
      BY <1>1, <2>1, <2>2
  <1> HIDE DEF ref
  <1> QED
    BY <1>1, <1>2, <1>3, <1>4, ProgressOK DEF ref

(* ... and the record last.                                                *)
LEMMA RemoveLastOK == ASSUME ResizeInv, NEW a \in Actors, RemoveLast(a) PROVE ResizeInv'
  <1> DEFINE ref == step[a].ref
  <1>1. /\ step[a].at = "last" /\ UNCHANGED <<settings, viewers, time, forgotten>>
        /\ record' = [record EXCEPT ![ref] = "gone"] \/ UNCHANGED record
        /\ Finish(a)
    BY DEF RemoveLast, RemoveArtifact, ArtifactOrder
  <1>2. /\ ref \in ResizeRefs /\ settings[ref] = "none"
        /\ record \in [ResizeRefs -> {"live", "exited", "gone"}]
        /\ settings = [r \in ResizeRefs |-> settings[r]]
        /\ viewers = [r \in ResizeRefs |-> viewers[r]]
        /\ ref \in forgotten => record[ref] # "live" /\ viewers[ref] = <<>>
    BY <1>1, AtSession DEF ResizeInv, Prepared
  <1>3. /\ record' \in [ResizeRefs -> {"live", "exited", "gone"}]
        /\ \A r \in ResizeRefs : r # ref => record'[r] = record[r]
        /\ record'[ref] \in {record[ref], "gone"}
    BY <1>1, <1>2
  <1>4. StepsOnly(a) /\ step'[a].at = "idle"
    BY <1>1 DEF StepsOnly, Finish, NoStep, ResizeInv, ResizeTypes
  <1> HIDE DEF ref
  <1> QED
    BY <1>1, <1>2, <1>3, <1>4, ProgressOK DEF ref

(* The program in a session exits, under nobody's lock.                    *)
LEMMA ExitSessionOK == ASSUME ResizeInv, NEW ref \in ResizeRefs, ExitSession(ref) PROVE ResizeInv'
  <1>1. /\ record[ref] = "live" /\ record' = [record EXCEPT ![ref] = "exited"]
        /\ UNCHANGED <<settings, viewers, holder, step, time, forgotten>>
        /\ record \in [ResizeRefs -> {"live", "exited", "gone"}]
    BY DEF ExitSession, ResizeInv, ResizeTypes
  <1>2. /\ record' \in [ResizeRefs -> {"live", "exited", "gone"}]
        /\ \A r \in ResizeRefs : /\ record'[r] = "gone" <=> record[r] = "gone"
                                 /\ record'[r] = "live" => record[r] = "live"
    BY <1>1
  <1>3. ResizeTypes' /\ Held'
    BY <1>1, <1>2 DEF ResizeInv, ResizeTypes, Held
  <1>4. Prepared'
    BY <1>1, <1>2 DEF ResizeInv, Prepared, Held
  <1>5. DeadForGood' /\ NothingLeftBehind'
    BY <1>1, <1>2 DEF ResizeInv, ResizeTypes, DeadForGood, NothingLeftBehind, NoOrphanSettings,
                      ForgottenHasNoViewers
  <1> QED
    BY <1>3, <1>4, <1>5 DEF ResizeInv

(* A process dies, and with it whatever its actors were doing.             *)
LEMMA DiesOK ==
    ASSUME ResizeInv, NEW gone \in {Handlers, {CLI}}, Dies(gone)
    PROVE  ResizeInv'
  <1>1. /\ \A a \in Actors : step'[a] = IF a \in gone THEN NoStep ELSE step[a]
        /\ step' \in [Actors -> ResizeStep]
        /\ \A r \in ResizeRefs : holder'[r] = IF holder[r] \in gone THEN Nobody ELSE holder[r]
        /\ holder' \in [ResizeRefs -> Actors \cup {Nobody}]
        /\ UNCHANGED <<record, settings, time, forgotten>>
    BY DEF Dies, ResizeInv, ResizeTypes, NoStep, ResizeStep, ResizeSteps
  <1>2. /\ viewers' = [r \in ResizeRefs |-> viewers'[r]]
        /\ \A r \in ResizeRefs : viewers'[r] = viewers[r] \/ viewers'[r] = <<>>
    BY DEF Dies, ResizeInv, ResizeTypes
  <1>3. ResizeTypes'
    BY <1>1, <1>2 DEF ResizeInv, ResizeTypes
  <1>4. Held' /\ Prepared'
    BY <1>1 DEF ResizeInv, Held, Prepared, NoStep
  <1>5. DeadForGood' /\ NothingLeftBehind'
    BY <1>1, <1>2 DEF ResizeInv, ResizeTypes, DeadForGood, NothingLeftBehind, NoOrphanSettings,
                      ForgottenHasNoViewers
  <1> QED
    BY <1>3, <1>4, <1>5 DEF ResizeInv

(* The steps that begin something, each with its record in order.          *)
LEMMA ResizeBegins ==
    ASSUME ResizeInv,
           \/ \E h \in Handlers, ref \in ResizeRefs :
                 \/ \E viewer \in ViewerIDs : ReportViewer(h, ref, viewer) \/ ResizeFitOnce(h, ref, viewer)
                 \/ ResizeFixed(h, ref) \/ GetResize(h, ref)
           \/ \E a \in Actors, ref \in ResizeRefs : BeginTerminate(a, ref) \/ BeginCleanup(a, ref)
    PROVE  /\ ResizeInv'
           /\ \A a \in Actors : step[a].at = "record" => step'[a] = step[a]
  <1>1. \E a \in Actors, ref \in ResizeRefs, at \in ResizeSteps \ {"last"},
           viewer \in ViewerIDs \cup {NoViewer} :
              /\ Begin(a, ref, at, viewer)
              /\ at \in {"record", "lookup", "apply"} => record[ref] = "live"
              /\ UNCHANGED <<record, settings, viewers, time, forgotten>>
    <2>1. CASE \E h \in Handlers, ref \in ResizeRefs, viewer \in ViewerIDs :
                  ReportViewer(h, ref, viewer) \/ ResizeFitOnce(h, ref, viewer)
      BY <2>1 DEF ReportViewer, ResizeFitOnce, ResizeSteps, Actors
    <2>2. CASE \E h \in Handlers, ref \in ResizeRefs : ResizeFixed(h, ref) \/ GetResize(h, ref)
      BY <2>2 DEF ResizeFixed, GetResize, ResizeSteps, Actors
    <2>3. CASE \E a \in Actors, ref \in ResizeRefs : BeginTerminate(a, ref) \/ BeginCleanup(a, ref)
      BY <2>3 DEF BeginTerminate, BeginCleanup, ResizeSteps
    <2> QED
      BY <2>1, <2>2, <2>3
  <1>2. PICK a \in Actors, ref \in ResizeRefs, at \in ResizeSteps \ {"last"},
             viewer \in ViewerIDs \cup {NoViewer} :
                /\ Begin(a, ref, at, viewer)
                /\ at \in {"record", "lookup", "apply"} => record[ref] = "live"
                /\ UNCHANGED <<record, settings, viewers, time, forgotten>>
    BY <1>1
  <1>3. ResizeInv'
    BY <1>2, BeginOK
  <1>4. \A b \in Actors : step[b].at = "record" => step'[b] = step[b]
    BY <1>2 DEF Begin, ResizeInv, ResizeTypes
  <1> QED
    BY <1>3, <1>4

(* ResizeInv is inductive.                                                 *)
LEMMA ResizeInvariant == ResizeSpec => []ResizeInv
  <1>1. ASSUME ResizeInv, [ResizeNext]_resizeVars PROVE ResizeInv'
    <2>1. CASE UNCHANGED resizeVars \/ TimePasses
      BY <1>1, <2>1, SMTT(60) DEF resizeVars, TimePasses, ResizeInv, ResizeTypes, Held, Prepared,
                        DeadForGood, NothingLeftBehind, NoOrphanSettings, ForgottenHasNoViewers
    <2>2. CASE ResizeNext /\ ~TimePasses
      BY <1>1, <2>2, ResizeBegins, RecordViewerOK, LookupViewerOK, ApplyResizeOK, RespondNowOK,
         ForgetSessionOK, RemoveFirstOK, RemoveLastOK, ExitSessionOK, DiesOK DEF ResizeNext
    <2> QED
      BY <1>1, <2>1, <2>2
  <1> QED
    BY ResizeInitOK, <1>1, PTL DEF ResizeSpec

(* Whoever removes a session, and wherever a process dies in the middle of *)
(* it, no settings outlive the record and no viewers come back.            *)
THEOREM ResizeClean == ResizeSpec => []NothingLeftBehind
  <1>1. ResizeInv => NothingLeftBehind
    BY DEF ResizeInv
  <1> QED
    BY <1>1, ResizeInvariant, PTL

(* A viewer is refused only when its session or the process is full of     *)
(* viewers that have not expired, those of other sessions included.        *)
THEOREM RefusedFull == ResizeSpec => RefusedOnlyIfFull
  <1>1. ASSUME ResizeInv, [ResizeNext]_resizeVars, NEW h \in Handlers,
               step[h].at = "record", step'[h].at = "idle", ~Dies(Handlers)
        PROVE  Full([r \in ResizeRefs |-> Unexpired(viewers[r], step[h].now)],
                    step[h].ref, step[h].viewer)
    <2>1. h \in Actors /\ step \in [Actors -> ResizeStep] /\ step' # step
      BY <1>1 DEF Actors, ResizeInv, ResizeTypes
    <2>2. RecordViewer(h)
      <3>1. ASSUME NEW g \in Handlers, g # h, RecordViewer(g) \/ LookupViewer(g) \/ ApplyResize(g)
                   \/ RespondNow(g) \/ RespondViewers(g) \/ ForgetSession(g)
            PROVE  FALSE
        BY <1>1, <2>1, <3>1 DEF RecordViewer, LookupViewer, ApplyResize, RespondNow, RespondViewers,
                ForgetSession, Continue, Respond, Finish
      <3>2. ~(LookupViewer(h) \/ ApplyResize(h) \/ RespondNow(h) \/ RespondViewers(h)
              \/ ForgetSession(h) \/ RemoveFirst(h) \/ RemoveLast(h))
        BY <1>1 DEF LookupViewer, ApplyResize, RespondNow, RespondViewers, ForgetSession,
                RemoveFirst, RemoveLast
      <3>3. ASSUME NEW a \in Actors, a # h, RemoveFirst(a) \/ RemoveLast(a)
            PROVE  FALSE
        BY <1>1, <2>1, <3>3 DEF RemoveFirst, RemoveLast, Continue, Finish
      <3>4. ~Dies({CLI})
        BY <1>1, <2>1, ResizeAssumption DEF Dies
      <3>5. ~TimePasses /\ \A ref \in ResizeRefs : ~ExitSession(ref)
        BY <2>1 DEF TimePasses, ExitSession
      <3>6. ~UNCHANGED resizeVars
        BY <2>1 DEF resizeVars
      <3>7. ~(\/ \E g \in Handlers, ref \in ResizeRefs :
                    \/ \E viewer \in ViewerIDs : ReportViewer(g, ref, viewer) \/ ResizeFitOnce(g, ref, viewer)
                    \/ ResizeFixed(g, ref) \/ GetResize(g, ref)
              \/ \E a \in Actors, ref \in ResizeRefs : BeginTerminate(a, ref) \/ BeginCleanup(a, ref))
        BY <1>1, <2>1, ResizeBegins
      <3> QED
        BY <1>1, <3>1, <3>2, <3>3, <3>4, <3>5, <3>6, <3>7 DEF ResizeNext
    <2>3. Full(PruneAll(step[h].ref, step[h].now), step[h].ref, step[h].viewer)
      <3>1. ~Respond(h)
        BY <1>1, <2>1 DEF Respond, ResizeStep
      <3> QED
        BY <2>2, <3>1 DEF RecordViewer
    <2> QED
      BY <2>3 DEF PruneAll
  <1>2. ASSUME ResizeInv, [ResizeNext]_resizeVars
        PROVE  [\A h \in Handlers :
                  step[h].at = "record" /\ step'[h].at = "idle" /\ ~Dies(Handlers) =>
                      Full([r \in ResizeRefs |-> Unexpired(viewers[r], step[h].now)],
                           step[h].ref, step[h].viewer)]_resizeVars
    BY <1>1, <1>2
  <1> QED
    BY <1>2, ResizeInvariant, PTL DEF ResizeSpec, RefusedOnlyIfFull

-----------------------------------------------------------------------------
(* The selector                                                            *)
(*                                                                         *)
(* A signal given during an attach is in the channel only until the        *)
(* channel is drained, and there is no way from the attach to a prompt     *)
(* that does not drain it.                                                 *)

SelectorStates == {"list", "prompt", "name", "create", "attach", "detached", "failed",
                   "ensure", "exited"}

SelectorInv ==
    /\ client \in [at : SelectorStates, choices : SUBSET SelectorNames,
                   todo : SUBSET SelectorNames, kept : SUBSET SelectorNames,
                   target : SelectorNames \cup {NoName}]
    /\ running \subseteq SelectorNames
    /\ mode \in {"selector", "attach", "no-attach"}
    /\ signals \in Seq({"attached", "outside"})
    /\ client.at \notin {"attach", "detached", "failed"} =>
          \A i \in 1 .. Len(signals) : signals[i] = "outside"

(* Where the client goes after a session it is not attached.               *)
LEMMA AfterSessionOK ==
    ASSUME SelectorInv, AfterSession
    PROVE  /\ client' \in [at : SelectorStates, choices : SUBSET SelectorNames,
                           todo : SUBSET SelectorNames, kept : SUBSET SelectorNames,
                           target : SelectorNames \cup {NoName}]
           /\ client'.at \in {"list", "exited"}
           /\ mode = "selector" => client'.at = "list"
  BY DEF AfterSession, SelectorInv, Listing, SelectorStates

(* The client starts with an empty channel.                                *)
LEMMA SelectorInitOK == SelectorInit => SelectorInv
  BY DEF SelectorInit, SelectorInv, Listing, SelectorStates

(* The steps that leave the channel alone.                                 *)
LEMMA SelectorQuiet ==
    ASSUME SelectorInv,
           \/ \E n \in SelectorNames :
                 SelectorReconcile(n) \/ SelectSession(n) \/ SelectorCreate(n)
                 \/ OthersStart(n) \/ OthersStop(n)
           \/ RenderSelector \/ SelectorListFails \/ ReadEnd
           \/ SelectNew \/ SelectQuit \/ SelectInvalid
           \/ SelectorCreateFails \/ AttachReturns \/ EnsureAfterAttach
    PROVE  SelectorInv' /\ UNCHANGED signals
  <1>1. ASSUME NEW n \in SelectorNames, SelectorReconcile(n)
        PROVE  SelectorInv' /\ UNCHANGED signals
    <2> DEFINE kept == IF n \in running THEN client.kept \cup {n} ELSE client.kept
    <2>1. /\ client.at = "list" /\ client' = [client EXCEPT !.todo = @ \ {n}, !.kept = kept]
          /\ UNCHANGED <<running, mode, signals>>
      BY <1>1 DEF SelectorReconcile
    <2>2. client.todo \subseteq SelectorNames /\ kept \subseteq SelectorNames
      BY DEF SelectorInv
    <2> HIDE DEF kept
    <2> QED
      BY <2>1, <2>2 DEF SelectorInv, SelectorStates
  <1>2. ASSUME NEW n \in SelectorNames, SelectSession(n) \/ SelectorCreate(n)
        PROVE  SelectorInv' /\ UNCHANGED signals
    <2>1. /\ \E at \in SelectorStates : client' = [client EXCEPT !.at = at, !.target = n]
          /\ client.at \in {"prompt", "name", "create"}
          /\ UNCHANGED <<mode, signals>> /\ running' \subseteq running \cup {n}
      BY <1>2 DEF SelectSession, SelectorCreate, SelectorStates
    <2>2. PICK s \in SelectorStates : client' = [client EXCEPT !.at = s, !.target = n]
      BY <2>1
    <2> QED
      BY <2>1, <2>2, ZenonT(60) DEF SelectorInv
  <1>3. CASE \E n \in SelectorNames : OthersStart(n) \/ OthersStop(n)
    BY <1>3 DEF SelectorInv, OthersStart, OthersStop
  <1>4. CASE RenderSelector \/ SelectorListFails
    BY <1>4, ZenonT(60) DEF SelectorInv, RenderSelector, SelectorListFails, SelectorStates
  <1>5. CASE ReadEnd \/ SelectNew \/ SelectQuit
    BY <1>5 DEF SelectorInv, ReadEnd, SelectNew, SelectQuit, GoTo, Prompting, SelectorStates
  <1>6. CASE AttachReturns
    BY <1>6 DEF SelectorInv, AttachReturns, GoTo, SelectorStates
  <1>7. CASE SelectInvalid \/ SelectorCreateFails \/ EnsureAfterAttach
    <2>1. /\ AfterSession /\ UNCHANGED <<running, mode, signals>>
          /\ client.at \notin {"attach", "detached", "failed"}
      BY <1>7 DEF SelectInvalid, SelectorCreateFails, EnsureAfterAttach
    <2> QED
      BY <2>1, AfterSessionOK DEF SelectorInv
  <1> QED
    BY <1>1, <1>2, <1>3, <1>4, <1>5, <1>6, <1>7

(* The steps that change it.                                               *)
LEMMA SelectorSignals ==
    ASSUME SelectorInv, ReadInterrupt \/ DrainInterrupts \/ SignalClient
    PROVE  /\ SelectorInv'
           /\ mode = "selector" /\ client'.at = "exited" => Head(signals) = "outside"
  <1>1. CASE ReadInterrupt
    <2>1. /\ signals # <<>> /\ signals' = Tail(signals) /\ UNCHANGED <<running, mode>>
          /\ client.at \in {"prompt", "name"} /\ client' = [client EXCEPT !.at = "exited"]
          /\ signals \in Seq({"attached", "outside"})
          /\ \A i \in 1 .. Len(signals) : signals[i] = "outside"
      BY <1>1 DEF ReadInterrupt, Prompting, GoTo, SelectorInv
    <2>2. /\ Head(signals) = "outside" /\ Tail(signals) \in Seq({"attached", "outside"})
          /\ \A i \in 1 .. Len(Tail(signals)) : Tail(signals)[i] = "outside"
      BY <2>1
    <2> QED
      BY <2>1, <2>2 DEF SelectorInv, SelectorStates
  <1>2. CASE DrainInterrupts
    <2>1. signals' = <<>> /\ UNCHANGED <<running, mode>>
      BY <1>2 DEF DrainInterrupts, Drained
    <2>2. CASE client.at = "detached"
      BY <1>2, <2>1, <2>2 DEF DrainInterrupts, GoTo, SelectorInv, SelectorStates
    <2>3. CASE client.at # "detached"
      BY <1>2, <2>1, <2>3, AfterSessionOK DEF DrainInterrupts, SelectorInv
    <2> QED
      BY <2>2, <2>3
  <1>3. CASE SignalClient
    <2> DEFINE x == IF client.at = "attach" THEN "attached" ELSE "outside"
    <2>1. /\ signals' = Append(signals, x) /\ UNCHANGED <<running, mode, client>>
          /\ client.at # "exited" /\ signals \in Seq({"attached", "outside"})
          /\ x \in {"attached", "outside"} /\ (client.at # "attach" => x = "outside")
      BY <1>3 DEF SignalClient, SelectorInv
    <2> HIDE DEF x
    <2>2. /\ Append(signals, x) \in Seq({"attached", "outside"})
          /\ \A i \in 1 .. Len(Append(signals, x)) :
                Append(signals, x)[i] = IF i = Len(signals) + 1 THEN x ELSE signals[i]
          /\ Len(Append(signals, x)) = Len(signals) + 1 /\ Len(signals) \in Nat
      BY <2>1
    <2> QED
      BY <2>1, <2>2 DEF SelectorInv
  <1> QED
    BY <1>1, <1>2, <1>3

(* However many signals a session was given while it was attached, and     *)
(* however the attach ended, none of them ends the selector.               *)
THEOREM Detach == SelectorSpec => DetachReturns
  <1>1. ASSUME SelectorInv, [SelectorNext]_selectorVars
        PROVE  /\ SelectorInv'
               /\ [mode = "selector" /\ client'.at = "exited" /\ signals' # signals
                     => Head(signals) = "outside"]_selectorVars
    <2>1. CASE UNCHANGED selectorVars
      BY <1>1, <2>1 DEF selectorVars, SelectorInv
    <2>2. CASE SelectorNext
      BY <1>1, <2>2, SelectorQuiet, SelectorSignals DEF SelectorNext
    <2> QED
      BY <1>1, <2>1, <2>2
  <1> QED
    BY SelectorInitOK, <1>1, PTL DEF SelectorSpec, DetachReturns

-----------------------------------------------------------------------------
(* The login limiter                                                       *)
(*                                                                         *)
(* The list of a client holds every failure that has not expired, and      *)
(* nothing that is not a failure: a sweep with an old clock drops less     *)
(* than one with the time now.  Its length and the requests that have been *)
(* allowed and may still fail are together within the bound: a request is  *)
(* allowed only below the limit, and gives its place to the entry it       *)
(* records.  The sums of the failures are then counts of list entries.     *)

(* How often a value is in a sequence.                                     *)
Count(s, t) == Cardinality({i \in DOMAIN s : s[i] = t})

(* How many entries of a sequence are in a set.                            *)
LEMMA CountIs ==
  ASSUME NEW S, NEW s \in Seq(S), NEW P
  PROVE  /\ IsFiniteSet({i \in DOMAIN s : s[i] \in P})
         /\ Cardinality({i \in DOMAIN s : s[i] \in P}) \in Nat
         /\ Cardinality({i \in DOMAIN s : s[i] \in P}) <= Len(s)
         /\ S \subseteq P => Cardinality({i \in DOMAIN s : s[i] \in P}) = Len(s)
<1> DEFINE I == {i \in DOMAIN s : s[i] \in P}
<1>1. DOMAIN s = 1..Len(s) /\ Len(s) \in Nat
  OBVIOUS
<1>2. IsFiniteSet(1..Len(s)) /\ Cardinality(1..Len(s)) = Len(s)
  BY <1>1, FS_Interval, SMTT(60)
<1>3. I \in SUBSET (1..Len(s))
  BY <1>1
<1>4. S \subseteq P => I = 1..Len(s)
  BY <1>1
<1>5. IsFiniteSet(I) /\ Cardinality(I) <= Len(s)
  <2> HIDE DEF I
  <2> QED
    BY <1>2, <1>3, FS_Subset
<1>6. Cardinality(I) \in Nat
  BY <1>5, FS_CardinalityType
<1> QED
  BY <1>2, <1>4, <1>5, <1>6

(* A count is a number.                                                    *)
LEMMA CountType ==
  ASSUME NEW S, NEW s \in Seq(S), NEW t
  PROVE  /\ Count(s, t) \in Nat
         /\ IsFiniteSet({i \in DOMAIN s : s[i] = t})
<1>1. {i \in DOMAIN s : s[i] = t} = {i \in DOMAIN s : s[i] \in {t}}
  OBVIOUS
<1>2. IsFiniteSet({i \in DOMAIN s : s[i] \in {t}}) /\ Cardinality({i \in DOMAIN s : s[i] \in {t}}) \in Nat
  BY CountIs
<1>3. Count(s, t) = Cardinality({i \in DOMAIN s : s[i] = t})
  BY DEF Count
<1> QED
  BY ONLY <1>1, <1>2, <1>3

(* The counts of some values add up to how many entries are one of them.   *)
LEMMA CountsAddUp ==
  ASSUME NEW S, NEW s \in Seq(S), NEW P, IsFiniteSet(P),
         NEW f, \A t \in P : f[t] = Count(s, t)
  PROVE  SumFunctionOnSet(f, P) = Cardinality({i \in DOMAIN s : s[i] \in P})
<1> DEFINE F(U) == SumFunctionOnSet(f, U)
           I(U) == {i \in DOMAIN s : s[i] \in U}
           B == {U \in SUBSET P : F(U) # Cardinality(I(U))}
<1> SUFFICES ASSUME F(P) # Cardinality(I(P)) PROVE FALSE
  OBVIOUS
<1>1. P \in B /\ B \subseteq SUBSET P
  OBVIOUS
<1>2. PICK U \in B : \A V \in B : V \subseteq U => V = U
  <2> HIDE DEF B
  <2> QED
    BY <1>1, LeastSubset
<1>3. U \subseteq P /\ IsFiniteSet(U) /\ F(U) # Cardinality(I(U))
  BY FS_Subset
<1>4. CASE U = {}
  <2>1. I(U) = {}
    BY <1>4
  <2> QED
    BY <1>3, <1>4, <2>1, SumEmpty, FS_EmptySet
<1>5. CASE U # {}
  <2>1. PICK x \in U : TRUE
    BY <1>5
  <2>2. \A y \in U : f[y] \in Nat
    BY <1>3, CountType
  <2>3. F(U) = f[x] + F(U \ {x})
    BY <1>3, <2>2, SumRemove
  <2>4. F(U \ {x}) = Cardinality(I(U \ {x}))
    BY <1>2, <1>3, <2>1
  <2>5. f[x] = Cardinality(I({x})) /\ f[x] \in Nat
    <3>1. I({x}) = {i \in DOMAIN s : s[i] = x}
      OBVIOUS
    <3> QED
      BY <3>1, <1>3, <2>1, <2>2 DEF Count
  <2>6. I(U) = I({x}) \cup I(U \ {x}) /\ I({x}) \cap I(U \ {x}) = {}
    BY <2>1
  <2>7. IsFiniteSet(I({x})) /\ IsFiniteSet(I(U \ {x})) /\ Cardinality(I(U \ {x})) \in Nat
    BY CountIs, ZenonT(60)
  <2>8. Cardinality(I(U)) = Cardinality(I({x})) + Cardinality(I(U \ {x})) - Cardinality({})
    <3> HIDE DEF I
    <3> QED
      BY <2>6, <2>7, FS_Union, ZenonT(60)
  <2>9. Cardinality({}) = 0
    BY FS_EmptySet
  <2> HIDE DEF F, I
  <2> QED
    BY <1>3, <2>3, <2>4, <2>5, <2>7, <2>8, <2>9
<1> QED
  BY <1>4, <1>5

(* Recording a failure counts it once.                                     *)
LEMMA CountAppend ==
  ASSUME NEW S, NEW s \in Seq(S), NEW x \in S, NEW t
  PROVE  Count(Append(s, x), t) = Count(s, t) + (IF t = x THEN 1 ELSE 0)
<1> DEFINE a == Append(s, x)
           I == {i \in DOMAIN s : s[i] = t}
           J == {i \in DOMAIN a : a[i] = t}
           n == Len(s) + 1
<1>1. DOMAIN s = 1..Len(s) /\ Len(s) \in Nat /\ DOMAIN a = 1..n
  OBVIOUS
<1>2. (\A i \in 1..Len(s) : a[i] = s[i]) /\ a[n] = x
  BY AppendProperties
<1>3. IsFiniteSet(I) /\ Count(s, t) = Cardinality(I) /\ Cardinality(I) \in Nat
  BY CountType DEF Count
<1>4. Count(a, t) = Cardinality(J)
  BY DEF Count
<1>5. CASE t = x
  <2>1. J = I \cup {n} /\ n \notin I
    <3> HIDE DEF a
    <3> QED
      BY <1>1, <1>2, <1>5
  <2>2. Cardinality(J) = Cardinality(I) + 1
    <3> HIDE DEF I, J
    <3> QED
      BY <1>3, <2>1, FS_AddElement
  <2> QED
    BY <1>3, <1>4, <1>5, <2>2
<1>6. CASE t # x
  <2>1. J = I
    <3> HIDE DEF a
    <3> QED
      BY <1>1, <1>2, <1>6
  <2>2. Count(a, t) = Count(s, t) /\ Count(s, t) \in Nat
    <3> HIDE DEF I, J, a
    <3> QED
      BY <1>3, <1>4, <2>1
  <2> QED
    BY <1>6, <2>2
<1> QED
  BY <1>5, <1>6

(* What the clock of the limiter may show.                                 *)
LoginTimes == 0..MaxLoginTime

(* What pruning leaves: an end of the list, which starts with a failure    *)
(* that has not expired and has lost none of those that have not.          *)
LEMMA Pruned ==
  ASSUME NEW list \in Seq(LoginTimes), NEW now \in Nat
  PROVE  /\ PruneAttempts(list, now) \in Seq(LoginTimes)
         /\ Len(PruneAttempts(list, now)) <= Len(list)
         /\ \A t \in LoginTimes :
              /\ Count(PruneAttempts(list, now), t) <= Count(list, t)
              /\ ~Expired(t, now) => Count(PruneAttempts(list, now), t) = Count(list, t)
         /\ Len(PruneAttempts(list, now)) > 0 =>
              \E i \in DOMAIN list : ~Expired(list[i], now)
<1> DEFINE p == PruneAttempts(list, now)
           keep == {i \in DOMAIN list : ~Expired(list[i], now)}
           n == Len(list)
<1>1. n \in Nat /\ DOMAIN list = 1..n /\ \A i \in 1..n : list[i] \in LoginTimes
  OBVIOUS
<1>2. \A t \in LoginTimes : Count(list, t) \in Nat
  BY CountType
<1>3. CASE keep = {}
  <2>1. p = <<>>
    BY <1>3 DEF PruneAttempts
  <2>2. p \in Seq(LoginTimes) /\ Len(p) = 0 /\ DOMAIN p = {}
    BY <2>1
  <2>3. ASSUME NEW t \in LoginTimes PROVE Count(p, t) = 0 /\ (~Expired(t, now) => Count(list, t) = 0)
    <3>1. {i \in DOMAIN p : p[i] = t} = {}
      BY <2>2
    <3>2. Cardinality({}) = 0
      BY FS_EmptySet
    <3>3. ~Expired(t, now) => {i \in DOMAIN list : list[i] = t} = {}
      BY <1>3
    <3> QED
      BY <3>1, <3>2, <3>3 DEF Count
  <2> HIDE DEF p, keep
  <2>0. Len(p) <= n
    BY <1>1, <2>2
  <2>4. \A t \in LoginTimes : /\ Count(p, t) <= Count(list, t)
                              /\ ~Expired(t, now) => Count(p, t) = Count(list, t)
    <3> SUFFICES ASSUME NEW t \in LoginTimes
                 PROVE  /\ Count(p, t) <= Count(list, t)
                        /\ ~Expired(t, now) => Count(p, t) = Count(list, t)
      OBVIOUS
    <3>1. Count(p, t) = 0 /\ (~Expired(t, now) => Count(list, t) = 0) /\ Count(list, t) \in Nat
      BY <1>2, <2>3
    <3> QED
      BY <3>1
  <2> QED
    BY <2>0, <2>2, <2>4 DEF p
<1>4. CASE keep # {}
  <2> DEFINE k == CHOOSE i \in keep : \A j \in keep : i <= j
  <2>1. k \in keep /\ \A j \in keep : k <= j
    <3>1. keep \subseteq Nat
      BY <1>1
    <3>2. \E i \in keep : \A j \in keep : ~(j < i)
      <4> HIDE DEF keep
      <4> QED
        BY <1>4, <3>1, LeastNat
    <3>3. \E i \in keep : \A j \in keep : i <= j
      BY <3>1, <3>2
    <3> HIDE DEF keep
    <3> QED
      BY <3>3
  <2>2. p = SubSeq(list, k, n)
    BY <1>4 DEF PruneAttempts
  <2>3. k \in 1..n /\ ~Expired(list[k], now)
    BY <1>1, <2>1
  <2>4. \A j \in 1..n : ~Expired(list[j], now) => k <= j
    BY <1>1, <2>1
  <2> HIDE DEF k, p, keep
  <2>5. p \in Seq(LoginTimes) /\ Len(p) = n - k + 1 /\ \A i \in 1..(n - k + 1) : p[i] = list[k + i - 1]
    <3>1. k \in Int /\ n \in Int /\ k <= n /\ \A i \in k..n : list[i] \in LoginTimes
      BY <1>1, <2>3
    <3> HIDE DEF n
    <3> QED
      BY <2>2, <3>1, SubSeqProperties
  <2>6. DOMAIN p = 1..(n - k + 1)
    BY <2>5
  <2>7. ASSUME NEW t \in LoginTimes
        PROVE  /\ Count(p, t) <= Count(list, t)
               /\ ~Expired(t, now) => Count(p, t) = Count(list, t)
    <3> DEFINE A == {i \in DOMAIN p : p[i] = t}
               B == {j \in k..n : list[j] = t}
               C == {j \in DOMAIN list : list[j] = t}
               f == [i \in A |-> k + i - 1]
    <3>1. IsFiniteSet(A) /\ Count(p, t) = Cardinality(A)
      BY <2>5, CountType DEF Count
    <3>2. IsFiniteSet(C) /\ Count(list, t) = Cardinality(C)
      BY CountType DEF Count
    <3>3. \A i \in A : i \in 1..(n - k + 1) /\ k + i - 1 \in B
      BY <1>1, <2>3, <2>5, <2>6
    <3>4. \A j \in B : j - k + 1 \in A /\ k + (j - k + 1) - 1 = j
      BY <1>1, <2>3, <2>5, <2>6
    <3>5. \A i, j \in A : k + i - 1 = k + j - 1 => i = j
      BY <1>1, <2>3, <3>3
    <3> HIDE DEF A, B, C
    <3>6. f \in [A -> B]
      BY <3>3
    <3>7. \A i, j \in A : f[i] = f[j] => i = j
      BY <3>5
    <3>8. \A j \in B : \E i \in A : f[i] = j
      BY <3>4
    <3>9. f \in Bijection(A, B)
      <4> HIDE DEF f
      <4> QED
        BY <3>6, <3>7, <3>8 DEF Bijection, Injection, Surjection, IsInjective
    <3>10. Cardinality(B) = Cardinality(A)
      BY <3>1, <3>9, FS_Bijection DEF ExistsBijection
    <3>11. B \subseteq C
      BY <1>1, <2>3 DEF B, C
    <3>12. ~Expired(t, now) => B = C
      BY <1>1, <2>3, <2>4 DEF B, C
    <3>13. Cardinality(B) <= Cardinality(C)
      BY <3>2, <3>11, FS_Subset
    <3> QED
      BY <3>1, <3>2, <3>10, <3>12, <3>13
  <2>8. Len(p) <= n
    BY <1>1, <2>3, <2>5
  <2>9. \E i \in DOMAIN list : ~Expired(list[i], now)
    BY <1>1, <2>3
  <2> QED
    BY <2>5, <2>7, <2>8, <2>9 DEF p
<1> QED
  BY <1>3, <1>4

(* The limiter's types; no request has read a time to come.                *)
LimiterTypes ==
    /\ attempts \in [Clients -> Seq(LoginTimes)]
    /\ failures \in [Clients -> [LoginTimes -> Nat]]
    /\ loginTime \in LoginTimes
    /\ login = [r \in LoginRequests |-> login[r]]
    /\ \A r \in LoginRequests :
          /\ login[r].now \in 0..loginTime
          /\ login[r].at \in {"idle", "allow", "check", "record"}
          /\ login[r].at # "idle" => login[r].client \in Clients

(* Every failure of the window is listed, and nothing but failures.        *)
Accounted == \A c \in Clients : \A t \in LoginTimes :
    /\ Count(attempts[c], t) <= failures[c][t]
    /\ ~Expired(t, loginTime) => Count(attempts[c], t) = failures[c][t]

(* The requests of a client that were allowed and may still fail.          *)
AllowedLogins(c) == {r \in LoginRequests : login[r].client = c /\ login[r].at \in {"check", "record"}}

(* What is listed and what may be added to it are within the bound.        *)
AllowedBounded == \A c \in Clients :
    Len(attempts[c]) + Cardinality(AllowedLogins(c)) <= LoginLimit - 1 + Cardinality(LoginRequests)

LimiterInv == LimiterTypes /\ Accounted /\ AllowedBounded

(* The sizes of sets of requests.                                          *)
LEMMA LoginSets ==
    /\ Cardinality(LoginRequests) \in Nat
    /\ \A S \in SUBSET LoginRequests :
          IsFiniteSet(S) /\ Cardinality(S) \in Nat /\ Cardinality(S) <= Cardinality(LoginRequests)
    /\ \A S \in SUBSET LoginRequests : \A T \in SUBSET S : Cardinality(T) <= Cardinality(S)
    /\ \A S \in SUBSET LoginRequests : \A r \in S : Cardinality(S \ {r}) = Cardinality(S) - 1
<1>1. \A S \in SUBSET LoginRequests : IsFiniteSet(S) /\ Cardinality(S) <= Cardinality(LoginRequests)
  BY LimiterAssumption, FS_Subset
<1>2. \A S \in SUBSET LoginRequests : Cardinality(S) \in Nat
  BY <1>1, FS_CardinalityType
<1>3. \A S \in SUBSET LoginRequests : \A T \in SUBSET S : Cardinality(T) <= Cardinality(S)
  BY <1>1, FS_Subset
<1>4. \A S \in SUBSET LoginRequests : \A r \in S : Cardinality(S \ {r}) = Cardinality(S) - 1
  BY <1>1, FS_RemoveElement
<1> QED
  BY <1>1, <1>2, <1>3, <1>4

(* The sums over the failures of a client are of finitely many numbers.    *)
LEMMA FailureSums ==
  ASSUME LimiterTypes, NEW c \in Clients, NEW t \in Nat
  PROVE  /\ t..MaxLoginTime \subseteq LoginTimes
         /\ IsFiniteSet(t..MaxLoginTime)
         /\ \A u \in t..MaxLoginTime : failures[c][u] \in Nat
         /\ FailuresFrom(c, t) \in Nat
<1>1. MaxLoginTime \in Nat
  BY LimiterAssumption
<1>2. t..MaxLoginTime \subseteq LoginTimes
  BY <1>1 DEF LoginTimes
<1>3. IsFiniteSet(t..MaxLoginTime)
  BY <1>1, FS_Interval
<1>4. \A u \in t..MaxLoginTime : failures[c][u] \in Nat
  BY <1>2 DEF LimiterTypes
<1>5. FailuresFrom(c, t) \in Nat
  BY <1>3, <1>4, SumType DEF FailuresFrom
<1> QED
  BY <1>2, <1>3, <1>4, <1>5

(* The failures of the window are listed, so they are within the bound.    *)
LEMMA WindowBounded == LimiterInv => FailuresBounded
<1> SUFFICES ASSUME LimiterInv, NEW c \in Clients
             PROVE  FailuresFrom(c, WindowStart(loginTime)) <= LoginLimit - 1 + Cardinality(LoginRequests)
  BY DEF FailuresBounded
<1> DEFINE w == WindowStart(loginTime)
           P == w..MaxLoginTime
           s == attempts[c]
           f == failures[c]
<1>1. LoginLimit \in Nat \ {0} /\ LoginWindow \in Nat /\ MaxLoginTime \in Nat /\ loginTime \in Nat
  BY LimiterAssumption DEF LimiterInv, LimiterTypes, LoginTimes
<1>2. w \in Nat
  BY <1>1 DEF WindowStart
<1>3. \A t \in P : t \in LoginTimes /\ ~Expired(t, loginTime)
  BY <1>1 DEF WindowStart, Expired, LoginTimes
<1>4. \A t \in P : f[t] = Count(s, t)
  BY <1>3 DEF LimiterInv, Accounted
<1>5. IsFiniteSet(P)
  BY <1>2, FailureSums DEF LimiterInv
<1>6. s \in Seq(LoginTimes)
  BY DEF LimiterInv, LimiterTypes
<1>7. SumFunctionOnSet(f, P) = Cardinality({i \in DOMAIN s : s[i] \in P})
  <2> HIDE DEF f, s, P
  <2> QED
    BY <1>4, <1>5, <1>6, CountsAddUp
<1>8. Cardinality({i \in DOMAIN s : s[i] \in P}) \in Nat /\ Cardinality({i \in DOMAIN s : s[i] \in P}) <= Len(s)
  BY <1>6, CountIs
<1>9. Len(s) \in Nat
  BY <1>6
<1>10. Cardinality(AllowedLogins(c)) \in Nat /\ Cardinality(LoginRequests) \in Nat
  BY LoginSets DEF AllowedLogins
<1>11. Len(s) + Cardinality(AllowedLogins(c)) <= LoginLimit - 1 + Cardinality(LoginRequests)
  BY DEF LimiterInv, AllowedBounded
<1>12. FailuresFrom(c, w) = SumFunctionOnSet(f, P)
  BY DEF FailuresFrom
<1> DEFINE q == Cardinality({i \in DOMAIN s : s[i] \in P})
<1>13. FailuresFrom(c, w) = q /\ q \in Nat /\ q <= Len(s)
  BY <1>7, <1>8, <1>12
<1> HIDE DEF q, s, w, P, f
<1> QED
  BY <1>1, <1>9, <1>10, <1>11, <1>13 DEF w

(* A full list stands for as many failures, one of them of the window.     *)
LEMMA FullMeansFailed ==
  ASSUME LimiterInv, NEW c \in Clients, NEW now \in Nat,
         Len(PruneAttempts(attempts[c], now)) >= LoginLimit
  PROVE  FailuresFrom(c, 0) >= LoginLimit /\ FailuresFrom(c, WindowStart(now)) > 0
<1> DEFINE s == attempts[c]
           f == failures[c]
           g == [t \in LoginTimes |-> Count(s, t)]
           w == WindowStart(now)
<1>1. LoginLimit \in Nat \ {0} /\ LoginWindow \in Nat /\ MaxLoginTime \in Nat
  BY LimiterAssumption
<1>2. s \in Seq(LoginTimes) /\ Len(s) \in Nat /\ DOMAIN s = 1..Len(s) /\ \A i \in 1..Len(s) : s[i] \in LoginTimes
  BY DEF LimiterInv, LimiterTypes
<1>3. Len(PruneAttempts(s, now)) \in Nat /\ Len(PruneAttempts(s, now)) <= Len(s)
  BY <1>2, Pruned
<1>4. Len(s) >= LoginLimit /\ Len(PruneAttempts(s, now)) > 0
  BY <1>1, <1>2, <1>3
<1>5. \A t \in LoginTimes : Count(s, t) \in Nat
  BY <1>2, CountType
<1>6. \A t \in LoginTimes : g[t] = Count(s, t) /\ g[t] \in Nat /\ f[t] \in Nat /\ g[t] <= f[t]
  BY <1>5 DEF LimiterInv, LimiterTypes, Accounted
<1>7. IsFiniteSet(LoginTimes) /\ 0..MaxLoginTime = LoginTimes
  BY <1>1, FS_Interval DEF LoginTimes
<1>8. FailuresFrom(c, 0) >= LoginLimit
  <2> HIDE DEF g, f, s
  <2>1. SumFunctionOnSet(g, LoginTimes) = Cardinality({i \in DOMAIN s : s[i] \in LoginTimes})
    BY <1>2, <1>6, <1>7, CountsAddUp
  <2>2. Cardinality({i \in DOMAIN s : s[i] \in LoginTimes}) = Len(s)
    BY <1>2, CountIs
  <2>3. SumFunctionOnSet(g, LoginTimes) <= SumFunctionOnSet(f, LoginTimes)
    BY <1>6, <1>7, SumLeq
  <2>4. FailuresFrom(c, 0) = SumFunctionOnSet(f, LoginTimes)
    BY <1>7 DEF FailuresFrom, f
  <2>5. FailuresFrom(c, 0) \in Nat
    BY FailureSums DEF LimiterInv
  <2>6. Len(s) <= FailuresFrom(c, 0)
    BY <2>1, <2>2, <2>3, <2>4
  <2> QED
    BY <1>1, <1>2, <1>4, <2>5, <2>6
<1>9. FailuresFrom(c, w) > 0
  <2>1. PICK i \in DOMAIN s : ~Expired(s[i], now)
    BY <1>2, <1>4, Pruned
  <2> DEFINE t == s[i]
  <2>2. t \in LoginTimes /\ i \in 1..Len(s)
    BY <1>2
  <2>3. t \in w..MaxLoginTime /\ w \in Nat
    BY <1>1, <2>1, <2>2 DEF WindowStart, Expired, LoginTimes
  <2>4. Count(s, t) # 0
    <3>1. i \in {j \in DOMAIN s : s[j] = t}
      OBVIOUS
    <3>2. IsFiniteSet({j \in DOMAIN s : s[j] = t})
      BY <1>2, CountType
    <3> DEFINE I == {j \in DOMAIN s : s[j] = t}
    <3> HIDE DEF I
    <3>3. Cardinality(I) # 0
      BY <3>1, <3>2, FS_EmptySet DEF I
    <3> QED
      BY <3>3 DEF Count, I
  <2>5. f[t] \in Nat /\ f[t] > 0
    BY <1>5, <1>6, <2>2, <2>4
  <2> DEFINE P == w..MaxLoginTime
  <2>6. IsFiniteSet(P) /\ (\A u \in P : f[u] \in Nat) /\ t \in P
    BY <2>3, FailureSums DEF LimiterInv
  <2> HIDE DEF f, P, t, s, g, w
  <2>7. SumFunctionOnSet(f, P) = f[t] + SumFunctionOnSet(f, P \ {t})
    BY <2>6, SumRemove
  <2>8. SumFunctionOnSet(f, P \ {t}) \in Nat
    <3>1. IsFiniteSet(P \ {t})
      BY <2>6, FS_RemoveElement
    <3> QED
      BY <2>6, <3>1, SumType
  <2>9. FailuresFrom(c, w) = SumFunctionOnSet(f, P)
    BY DEF FailuresFrom, f, P
  <2> QED
    BY <2>5, <2>7, <2>8, <2>9
<1> QED
  BY <1>8, <1>9

(* What is listed after a sweep.                                           *)
LEMMA SweptIs ==
  ASSUME LimiterInv, NEW r \in LoginRequests, login[r].at # "idle"
  PROVE  /\ login[r].now \in LoginTimes /\ login[r].now \in Nat /\ login[r].client \in Clients
         /\ Swept(login[r].client, login[r].now) \in [Clients -> Seq(LoginTimes)]
         /\ Swept(login[r].client, login[r].now)[login[r].client] =
              PruneAttempts(attempts[login[r].client], login[r].now)
         /\ \A c \in Clients :
              /\ Len(Swept(login[r].client, login[r].now)[c]) <= Len(attempts[c])
              /\ \A t \in LoginTimes :
                   /\ Count(Swept(login[r].client, login[r].now)[c], t) <= failures[c][t]
                   /\ ~Expired(t, loginTime) =>
                        Count(Swept(login[r].client, login[r].now)[c], t) = failures[c][t]
<1> DEFINE now == login[r].now
           d == login[r].client
           W == Swept(d, now)
<1>1. now \in LoginTimes /\ now \in Nat /\ d \in Clients /\ now <= loginTime /\ loginTime \in Nat
  BY LimiterAssumption DEF LimiterInv, LimiterTypes, LoginTimes
<1>2. LoginWindow \in Nat /\ MaxLoginTime \in Nat
  BY LimiterAssumption
<1>3. \A c \in Clients : attempts[c] \in Seq(LoginTimes)
  BY DEF LimiterInv, LimiterTypes
<1>4. \A c \in Clients : W[c] = PruneAttempts(attempts[c], now) \/ W[c] = attempts[c]
  BY DEF Swept
<1>5. W[d] = PruneAttempts(attempts[d], now)
  BY <1>1 DEF Swept
<1>6. DOMAIN W = Clients /\ W = [c \in Clients |-> W[c]]
  BY DEF Swept
<1>7. \A t \in LoginTimes : ~Expired(t, loginTime) => ~Expired(t, now)
  BY <1>1, <1>2 DEF Expired, LoginTimes
<1> HIDE DEF now, d, W
<1>8. ASSUME NEW c \in Clients
      PROVE  /\ W[c] \in Seq(LoginTimes)
             /\ Len(W[c]) <= Len(attempts[c])
             /\ \A t \in LoginTimes :
                  /\ Count(W[c], t) <= failures[c][t]
                  /\ ~Expired(t, loginTime) => Count(W[c], t) = failures[c][t]
  <2> DEFINE s == attempts[c]
             p == PruneAttempts(s, now)
  <2>1. s \in Seq(LoginTimes) /\ Len(s) \in Nat
    BY <1>3
  <2>2. /\ p \in Seq(LoginTimes) /\ Len(p) <= Len(s)
        /\ \A t \in LoginTimes : /\ Count(p, t) <= Count(s, t)
                                 /\ ~Expired(t, now) => Count(p, t) = Count(s, t)
    BY <1>1, <2>1, Pruned
  <2>3. \A t \in LoginTimes : Count(p, t) \in Nat /\ Count(s, t) \in Nat /\ failures[c][t] \in Nat
    BY <2>1, <2>2, CountType DEF LimiterInv, LimiterTypes
  <2>4. \A t \in LoginTimes : /\ Count(s, t) <= failures[c][t]
                              /\ ~Expired(t, loginTime) => Count(s, t) = failures[c][t]
    BY DEF LimiterInv, Accounted
  <2>5. W[c] = p \/ W[c] = s
    BY <1>4
  <2>6. CASE W[c] = s
    BY <2>1, <2>4, <2>6
  <2>7. CASE W[c] = p
    <3> HIDE DEF p, s
    <3>1. ASSUME NEW t \in LoginTimes
          PROVE  /\ Count(p, t) <= failures[c][t]
                 /\ ~Expired(t, loginTime) => Count(p, t) = failures[c][t]
      BY <1>7, <2>2, <2>3, <2>4
    <3> QED
      BY <2>2, <2>7, <3>1 DEF s
  <2> QED
    BY <2>5, <2>6, <2>7
<1>9. W \in [Clients -> Seq(LoginTimes)]
  BY <1>6, <1>8
<1> QED
  BY <1>1, <1>5, <1>8, <1>9 DEF now, d, W

(* Nobody has failed.                                                      *)
LEMMA LimiterInitially == LimiterInit => LimiterInv
<1> SUFFICES ASSUME LimiterInit PROVE LimiterInv
  OBVIOUS
<1>1. LoginLimit \in Nat \ {0} /\ MaxLoginTime \in Nat
  BY LimiterAssumption
<1>2. LimiterTypes
  <2>1. 0 \in LoginTimes
    BY <1>1 DEF LoginTimes
  <2>2. attempts \in [Clients -> Seq(LoginTimes)]
    BY DEF LimiterInit
  <2>3. failures \in [Clients -> [LoginTimes -> Nat]]
    BY DEF LimiterInit, LoginTimes
  <2>4. login = [r \in LoginRequests |-> login[r]]
    BY DEF LimiterInit
  <2> QED
    BY <2>1, <2>2, <2>3, <2>4 DEF LimiterInit, LimiterTypes, IdleLogin
<1>3. Accounted
  <2> SUFFICES ASSUME NEW c \in Clients, NEW t \in LoginTimes
               PROVE  Count(attempts[c], t) = 0 /\ failures[c][t] = 0
    BY DEF Accounted
  <2>1. attempts[c] = <<>>
    BY DEF LimiterInit
  <2>2. {i \in DOMAIN attempts[c] : attempts[c][i] = t} = {}
    BY <2>1
  <2> QED
    BY <2>2, FS_EmptySet DEF Count, LimiterInit, LoginTimes
<1>4. AllowedBounded
  <2> SUFFICES ASSUME NEW c \in Clients
               PROVE  Len(attempts[c]) + Cardinality(AllowedLogins(c)) <= LoginLimit - 1 + Cardinality(LoginRequests)
    BY DEF AllowedBounded
  <2>1. Len(attempts[c]) = 0
    BY DEF LimiterInit
  <2>2. Cardinality(AllowedLogins(c)) \in Nat /\ Cardinality(AllowedLogins(c)) <= Cardinality(LoginRequests)
    BY LoginSets DEF AllowedLogins
  <2> QED
    BY <1>1, <2>1, <2>2, LoginSets
<1> QED
  BY <1>2, <1>3, <1>4 DEF LimiterInv

(* Steps that leave the lists and the clock alone and allow nobody.        *)
LEMMA ListsLeft ==
  ASSUME LimiterInv, UNCHANGED <<attempts, failures, loginTime>>,
         LimiterTypes', \A c \in Clients : AllowedLogins(c)' \subseteq AllowedLogins(c)
  PROVE  LimiterInv'
<1>1. Accounted'
  BY DEF LimiterInv, Accounted
<1>2. ASSUME NEW c \in Clients
      PROVE  Len(attempts'[c]) + Cardinality(AllowedLogins(c)') <= LoginLimit - 1 + Cardinality(LoginRequests)
  <2>1. Cardinality(AllowedLogins(c)') <= Cardinality(AllowedLogins(c))
    BY LoginSets DEF AllowedLogins
  <2>2. Cardinality(AllowedLogins(c)') \in Nat /\ Cardinality(AllowedLogins(c)) \in Nat
    BY LoginSets DEF AllowedLogins
  <2>3. Len(attempts[c]) + Cardinality(AllowedLogins(c)) <= LoginLimit - 1 + Cardinality(LoginRequests)
    BY DEF LimiterInv, AllowedBounded
  <2>4. Len(attempts[c]) \in Nat /\ attempts'[c] = attempts[c]
    BY DEF LimiterInv, LimiterTypes
  <2>5. LoginLimit \in Nat /\ Cardinality(LoginRequests) \in Nat
    BY LimiterAssumption, LoginSets
  <2> QED
    BY <2>1, <2>2, <2>3, <2>4, <2>5
<1>3. AllowedBounded'
  BY <1>2 DEF AllowedBounded
<1> QED
  BY <1>1, <1>3 DEF LimiterInv

(* What a request's step does to the requests.                             *)
LEMMA LoginSteps ==
  ASSUME LimiterTypes, NEW r \in LoginRequests, NEW v,
         login' = [login EXCEPT ![r] = v],
         UNCHANGED loginTime,
         v.now \in 0..loginTime, v.at \in {"idle", "allow", "check", "record"},
         v.at # "idle" => v.client \in Clients
  PROVE  /\ login'[r] = v /\ \A q \in LoginRequests : q # r => login'[q] = login[q]
         /\ login' = [q \in LoginRequests |-> login'[q]]
         /\ \A q \in LoginRequests :
              /\ login'[q].now \in 0..loginTime'
              /\ login'[q].at \in {"idle", "allow", "check", "record"}
              /\ login'[q].at # "idle" => login'[q].client \in Clients
<1>1. DOMAIN login = LoginRequests
  BY DEF LimiterTypes
<1>2. login'[r] = v /\ \A q \in LoginRequests : q # r => login'[q] = login[q]
  BY <1>1
<1>3. login' = [q \in LoginRequests |-> login'[q]]
  BY <1>1
<1>4. ASSUME NEW q \in LoginRequests
      PROVE  /\ login'[q].now \in 0..loginTime'
             /\ login'[q].at \in {"idle", "allow", "check", "record"}
             /\ login'[q].at # "idle" => login'[q].client \in Clients
  BY <1>2 DEF LimiterTypes
<1> QED
  BY <1>2, <1>3, <1>4

(* Every step keeps the accounts and the bound.                            *)
LEMMA LimiterStep == LimiterInv /\ [LimiterNext]_limiterVars => LimiterInv'
<1> SUFFICES ASSUME LimiterInv, [LimiterNext]_limiterVars PROVE LimiterInv'
  OBVIOUS
<1>t. /\ LoginLimit \in Nat \ {0} /\ LoginWindow \in Nat /\ MaxLoginTime \in Nat
      /\ loginTime \in Nat /\ loginTime \in LoginTimes /\ 0 \in 0..loginTime
      /\ Cardinality(LoginRequests) \in Nat
  BY LimiterAssumption, LoginSets DEF LimiterInv, LimiterTypes, LoginTimes
<1>0. IdleLogin.now \in 0..loginTime /\ IdleLogin.at = "idle"
  BY <1>t DEF IdleLogin
<1>1. ASSUME NEW r \in LoginRequests, NEW c \in Clients, BeginLogin(r, c) PROVE LimiterInv'
  <2> DEFINE v == [at |-> "allow", client |-> c, now |-> loginTime]
  <2>1. v.at = "allow" /\ v.client = c /\ v.now \in 0..loginTime
    BY <1>t
  <2>2. login' = [login EXCEPT ![r] = v] /\ UNCHANGED <<attempts, failures, loginTime>>
    BY <1>1 DEF BeginLogin
  <2> HIDE DEF v
  <2>3. /\ login'[r] = v /\ \A q \in LoginRequests : q # r => login'[q] = login[q]
        /\ login' = [q \in LoginRequests |-> login'[q]]
        /\ \A q \in LoginRequests :
             /\ login'[q].now \in 0..loginTime'
             /\ login'[q].at \in {"idle", "allow", "check", "record"}
             /\ login'[q].at # "idle" => login'[q].client \in Clients
    BY <2>1, <2>2, LoginSteps DEF LimiterInv
  <2>4. LimiterTypes'
    BY <2>2, <2>3 DEF LimiterInv, LimiterTypes
  <2>5. \A e \in Clients : AllowedLogins(e)' \subseteq AllowedLogins(e)
    BY <2>1, <2>3 DEF AllowedLogins
  <2> QED
    BY <2>2, <2>4, <2>5, ListsLeft
<1>2. ASSUME NEW r \in LoginRequests, InvalidForm(r) PROVE LimiterInv'
  <2>1. login' = [login EXCEPT ![r] = IdleLogin] /\ UNCHANGED <<attempts, failures, loginTime>>
    BY <1>2 DEF InvalidForm
  <2>2. /\ login'[r] = IdleLogin /\ \A q \in LoginRequests : q # r => login'[q] = login[q]
        /\ login' = [q \in LoginRequests |-> login'[q]]
        /\ \A q \in LoginRequests :
             /\ login'[q].now \in 0..loginTime'
             /\ login'[q].at \in {"idle", "allow", "check", "record"}
             /\ login'[q].at # "idle" => login'[q].client \in Clients
    BY <1>0, <2>1, LoginSteps DEF LimiterInv
  <2>3. LimiterTypes'
    BY <2>1, <2>2 DEF LimiterInv, LimiterTypes
  <2>4. \A e \in Clients : AllowedLogins(e)' \subseteq AllowedLogins(e)
    BY <1>0, <2>2 DEF AllowedLogins
  <2> QED
    BY <2>1, <2>3, <2>4, ListsLeft
<1>3. ASSUME NEW r \in LoginRequests, WrongPassword(r) PROVE LimiterInv'
  <2>1. login[r].at = "check" /\ UNCHANGED <<attempts, failures, loginTime>>
    BY <1>3 DEF WrongPassword
  <2>2. DOMAIN login = LoginRequests
    BY DEF LimiterInv, LimiterTypes
  <2>3. /\ \A q \in LoginRequests : q # r => login'[q] = login[q]
        /\ login' = [q \in LoginRequests |-> login'[q]]
    BY <1>3, <2>2 DEF WrongPassword
  <2>4. login'[r].client = login[r].client /\ login'[r].at = "record" /\ login'[r].now = loginTime
    BY <1>3, <2>2 DEF WrongPassword
  <2>5. ASSUME NEW q \in LoginRequests
        PROVE  /\ login'[q].now \in 0..loginTime'
               /\ login'[q].at \in {"idle", "allow", "check", "record"}
               /\ login'[q].at # "idle" => login'[q].client \in Clients
    BY <1>t, <2>1, <2>3, <2>4 DEF LimiterInv, LimiterTypes
  <2>6. LimiterTypes'
    BY <2>1, <2>3, <2>5 DEF LimiterInv, LimiterTypes
  <2>7. \A e \in Clients : AllowedLogins(e)' \subseteq AllowedLogins(e)
    BY <2>1, <2>3, <2>4 DEF AllowedLogins
  <2> QED
    BY <2>1, <2>6, <2>7, ListsLeft
<1>4. ASSUME LoginClock PROVE LimiterInv'
  <2>1. loginTime' = loginTime + 1 /\ loginTime' \in LoginTimes /\ UNCHANGED <<attempts, login, failures>>
    BY <1>4, <1>t DEF LoginClock, LoginTimes
  <2>2. ASSUME NEW r \in LoginRequests PROVE login[r].now \in 0..loginTime'
    BY <1>t, <2>1 DEF LimiterInv, LimiterTypes
  <2>3. LimiterTypes'
    BY <2>1, <2>2 DEF LimiterInv, LimiterTypes
  <2>4. \A t \in LoginTimes : ~Expired(t, loginTime') => ~Expired(t, loginTime)
    BY <1>t, <2>1 DEF Expired, LoginTimes
  <2>5. Accounted'
    BY <2>1, <2>4 DEF LimiterInv, Accounted
  <2>6. AllowedBounded'
    BY <2>1 DEF LimiterInv, AllowedBounded, AllowedLogins
  <2> QED
    BY <2>3, <2>5, <2>6 DEF LimiterInv
<1>5. ASSUME UNCHANGED limiterVars PROVE LimiterInv'
  BY <1>5 DEF limiterVars, LimiterInv, LimiterTypes, Accounted, AllowedBounded, AllowedLogins
<1>6. ASSUME NEW r \in LoginRequests, ResetClient(r) PROVE LimiterInv'
  <2> DEFINE c == login[r].client
  <2>1. login' = [login EXCEPT ![r] = IdleLogin] /\ loginTime' = loginTime /\ login[r].at = "check"
    BY <1>6 DEF ResetClient
  <2>2. /\ login'[r] = IdleLogin /\ \A q \in LoginRequests : q # r => login'[q] = login[q]
        /\ login' = [q \in LoginRequests |-> login'[q]]
        /\ \A q \in LoginRequests :
             /\ login'[q].now \in 0..loginTime'
             /\ login'[q].at \in {"idle", "allow", "check", "record"}
             /\ login'[q].at # "idle" => login'[q].client \in Clients
    BY <1>0, <2>1, LoginSteps DEF LimiterInv
  <2>3. c \in Clients
    BY <2>1 DEF LimiterInv, LimiterTypes
  <2>4. attempts' = [attempts EXCEPT ![c] = <<>>] /\ failures' = [failures EXCEPT ![c] = [t \in LoginTimes |-> 0]]
    BY <1>6 DEF ResetClient, LoginTimes
  <2> HIDE DEF c
  <2>5. attempts \in [Clients -> Seq(LoginTimes)] /\ failures \in [Clients -> [LoginTimes -> Nat]]
    BY DEF LimiterInv, LimiterTypes
  <2>6. /\ attempts' \in [Clients -> Seq(LoginTimes)] /\ failures' \in [Clients -> [LoginTimes -> Nat]]
        /\ attempts'[c] = <<>> /\ \A t \in LoginTimes : failures'[c][t] = 0
        /\ \A e \in Clients : e # c => attempts'[e] = attempts[e] /\ failures'[e] = failures[e]
    <3>1. <<>> \in Seq(LoginTimes) /\ [t \in LoginTimes |-> 0] \in [LoginTimes -> Nat]
      OBVIOUS
    <3> QED
      BY <2>3, <2>4, <2>5, <3>1
  <2>7. LimiterTypes'
    BY <2>1, <2>2, <2>6 DEF LimiterInv, LimiterTypes
  <2>8. ASSUME NEW e \in Clients, NEW t \in LoginTimes
        PROVE  /\ Count(attempts'[e], t) <= failures'[e][t]
               /\ ~Expired(t, loginTime') => Count(attempts'[e], t) = failures'[e][t]
    <3>1. CASE e # c
      BY <2>1, <2>6, <3>1 DEF LimiterInv, Accounted
    <3>2. CASE e = c
      <4>1. attempts'[e] = <<>> /\ failures'[e][t] = 0
        BY <2>6, <3>2
      <4>2. {i \in DOMAIN attempts'[e] : attempts'[e][i] = t} = {}
        BY <4>1
      <4>3. Count(attempts'[e], t) = 0
        BY <4>2, FS_EmptySet DEF Count
      <4> QED
        BY <4>1, <4>3
    <3> QED
      BY <3>1, <3>2
  <2>9. ASSUME NEW e \in Clients
        PROVE  Len(attempts'[e]) + Cardinality(AllowedLogins(e)') <= LoginLimit - 1 + Cardinality(LoginRequests)
    <3>1. AllowedLogins(e)' \subseteq AllowedLogins(e)
      BY <1>0, <2>2 DEF AllowedLogins
    <3>2. /\ Cardinality(AllowedLogins(e)') <= Cardinality(AllowedLogins(e))
          /\ Cardinality(AllowedLogins(e)') <= Cardinality(LoginRequests)
          /\ Cardinality(AllowedLogins(e)') \in Nat /\ Cardinality(AllowedLogins(e)) \in Nat
      BY <3>1, LoginSets DEF AllowedLogins
    <3>3. Len(attempts[e]) + Cardinality(AllowedLogins(e)) <= LoginLimit - 1 + Cardinality(LoginRequests)
      BY DEF LimiterInv, AllowedBounded
    <3>4. Len(attempts[e]) \in Nat /\ (attempts'[e] = attempts[e] \/ Len(attempts'[e]) = 0)
      BY <2>5, <2>6
    <3> QED
      BY <1>t, <3>2, <3>3, <3>4
  <2>10. Accounted' /\ AllowedBounded'
    BY <2>8, <2>9 DEF Accounted, AllowedBounded
  <2> QED
    BY <2>7, <2>10 DEF LimiterInv
<1>7. ASSUME NEW r \in LoginRequests, Allow(r) PROVE LimiterInv'
  <2> DEFINE c == login[r].client
             now == login[r].now
             W == Swept(c, now)
             v == IF Len(W[c]) < LoginLimit THEN [at |-> "check", client |-> c, now |-> 0] ELSE IdleLogin
  <2>1. /\ login' = [login EXCEPT ![r] = v] /\ loginTime' = loginTime /\ login[r].at = "allow"
        /\ attempts' = W /\ failures' = failures
    BY <1>7 DEF Allow, Listed
  <2>2. /\ c \in Clients /\ W \in [Clients -> Seq(LoginTimes)]
        /\ \A e \in Clients :
             /\ Len(W[e]) <= Len(attempts[e])
             /\ \A t \in LoginTimes :
                  /\ Count(W[e], t) <= failures[e][t]
                  /\ ~Expired(t, loginTime) => Count(W[e], t) = failures[e][t]
    BY <2>1, SweptIs
  <2>3. /\ v.now \in 0..loginTime /\ v.at \in {"idle", "check"} /\ (v.at # "idle" => v.client = c)
        /\ v.at = "check" => Len(W[c]) < LoginLimit
    <3> HIDE DEF c, W
    <3> QED
      BY <1>t, <1>0
  <2> HIDE DEF c, now, W, v
  <2>4. /\ login'[r] = v /\ \A q \in LoginRequests : q # r => login'[q] = login[q]
        /\ login' = [q \in LoginRequests |-> login'[q]]
        /\ \A q \in LoginRequests :
             /\ login'[q].now \in 0..loginTime'
             /\ login'[q].at \in {"idle", "allow", "check", "record"}
             /\ login'[q].at # "idle" => login'[q].client \in Clients
    BY <2>1, <2>2, <2>3, LoginSteps DEF LimiterInv
  <2>5. LimiterTypes'
    BY <2>1, <2>2, <2>4 DEF LimiterInv, LimiterTypes
  <2>6. Accounted'
    BY <2>1, <2>2 DEF Accounted
  <2>7. ASSUME NEW e \in Clients
        PROVE  Len(attempts'[e]) + Cardinality(AllowedLogins(e)') <= LoginLimit - 1 + Cardinality(LoginRequests)
    <3>1. /\ Cardinality(AllowedLogins(e)') <= Cardinality(LoginRequests)
          /\ Cardinality(AllowedLogins(e)') \in Nat /\ Cardinality(AllowedLogins(e)) \in Nat
      BY LoginSets DEF AllowedLogins
    <3>2. Len(attempts[e]) + Cardinality(AllowedLogins(e)) <= LoginLimit - 1 + Cardinality(LoginRequests)
      BY DEF LimiterInv, AllowedBounded
    <3>3. Len(attempts[e]) \in Nat /\ Len(W[e]) \in Nat /\ Len(W[e]) <= Len(attempts[e])
      BY <2>2 DEF LimiterInv, LimiterTypes
    <3>4. CASE e = c /\ v.at = "check"
      <4>1. Len(W[e]) < LoginLimit
        BY <2>3, <3>4
      <4> QED
        BY <1>t, <2>1, <3>1, <3>3, <4>1
    <3>5. CASE ~(e = c /\ v.at = "check")
      <4>1. AllowedLogins(e)' \subseteq AllowedLogins(e)
        BY <2>3, <2>4, <3>5 DEF AllowedLogins
      <4>2. Cardinality(AllowedLogins(e)') <= Cardinality(AllowedLogins(e))
        BY <4>1, LoginSets DEF AllowedLogins
      <4> QED
        BY <1>t, <2>1, <3>1, <3>2, <3>3, <4>2
    <3> QED
      BY <3>4, <3>5
  <2>8. AllowedBounded'
    BY <2>7 DEF AllowedBounded
  <2> QED
    BY <2>5, <2>6, <2>8 DEF LimiterInv
<1>8. ASSUME NEW r \in LoginRequests, RecordFailure(r) PROVE LimiterInv'
  <2> DEFINE c == login[r].client
             now == login[r].now
             W == Swept(c, now)
  <2>1. /\ login' = [login EXCEPT ![r] = IdleLogin] /\ loginTime' = loginTime /\ login[r].at = "record"
        /\ attempts' = [W EXCEPT ![c] = Append(@, now)]
        /\ failures' = [failures EXCEPT ![c][now] = @ + 1]
    BY <1>8 DEF RecordFailure
  <2>2. /\ c \in Clients /\ now \in LoginTimes /\ W \in [Clients -> Seq(LoginTimes)]
        /\ \A e \in Clients :
             /\ Len(W[e]) <= Len(attempts[e])
             /\ \A t \in LoginTimes :
                  /\ Count(W[e], t) <= failures[e][t]
                  /\ ~Expired(t, loginTime) => Count(W[e], t) = failures[e][t]
    BY <2>1, SweptIs
  <2>3. /\ login'[r] = IdleLogin /\ \A q \in LoginRequests : q # r => login'[q] = login[q]
        /\ login' = [q \in LoginRequests |-> login'[q]]
        /\ \A q \in LoginRequests :
             /\ login'[q].now \in 0..loginTime'
             /\ login'[q].at \in {"idle", "allow", "check", "record"}
             /\ login'[q].at # "idle" => login'[q].client \in Clients
    BY <1>0, <2>1, LoginSteps DEF LimiterInv
  <2> HIDE DEF c, now, W
  <2>4. failures \in [Clients -> [LoginTimes -> Nat]]
    BY DEF LimiterInv, LimiterTypes
  <2>5. W[c] \in Seq(LoginTimes) /\ Append(W[c], now) \in Seq(LoginTimes) /\ Len(Append(W[c], now)) = Len(W[c]) + 1
    BY <2>2, AppendProperties
  <2>6. /\ attempts' \in [Clients -> Seq(LoginTimes)] /\ attempts'[c] = Append(W[c], now)
        /\ \A e \in Clients : e # c => attempts'[e] = W[e]
    BY <2>1, <2>2, <2>5
  <2>7. /\ failures' \in [Clients -> [LoginTimes -> Nat]]
        /\ \A e \in Clients : e # c => failures'[e] = failures[e]
        /\ failures'[c][now] = failures[c][now] + 1
        /\ \A t \in LoginTimes : t # now => failures'[c][t] = failures[c][t]
    BY <2>1, <2>2, <2>4
  <2>8. LimiterTypes'
    BY <2>1, <2>3, <2>6, <2>7 DEF LimiterInv, LimiterTypes
  <2>9. ASSUME NEW e \in Clients, NEW t \in LoginTimes
        PROVE  /\ Count(attempts'[e], t) <= failures'[e][t]
               /\ ~Expired(t, loginTime') => Count(attempts'[e], t) = failures'[e][t]
    <3>1. CASE e # c
      BY <2>1, <2>2, <2>6, <2>7, <3>1
    <3>2. CASE e = c
      <4>1. Count(attempts'[c], t) = Count(W[c], t) + (IF t = now THEN 1 ELSE 0)
        BY <2>2, <2>5, <2>6, CountAppend
      <4>2. Count(W[c], t) \in Nat /\ failures[c][t] \in Nat
        BY <2>2, <2>4, <2>5, CountType
      <4>3. failures'[c][t] = failures[c][t] + (IF t = now THEN 1 ELSE 0)
        BY <2>7, <4>2
      <4>4. Count(W[c], t) <= failures[c][t] /\ (~Expired(t, loginTime) => Count(W[c], t) = failures[c][t])
        BY <2>2
      <4>5. Count(attempts'[c], t) <= failures'[c][t]
        BY <4>1, <4>2, <4>3, <4>4
      <4>6. ~Expired(t, loginTime) => Count(attempts'[c], t) = failures'[c][t]
        BY <4>1, <4>2, <4>3, <4>4
      <4> QED
        BY <2>1, <3>2, <4>5, <4>6
    <3> QED
      BY <3>1, <3>2
  <2>10. ASSUME NEW e \in Clients
         PROVE  Len(attempts'[e]) + Cardinality(AllowedLogins(e)') <= LoginLimit - 1 + Cardinality(LoginRequests)
    <3>1. AllowedLogins(e)' \subseteq AllowedLogins(e)
      BY <1>0, <2>3 DEF AllowedLogins
    <3>2. /\ Cardinality(AllowedLogins(e)') <= Cardinality(AllowedLogins(e))
          /\ Cardinality(AllowedLogins(e)') \in Nat /\ Cardinality(AllowedLogins(e)) \in Nat
      BY <3>1, LoginSets DEF AllowedLogins
    <3>3. Len(attempts[e]) + Cardinality(AllowedLogins(e)) <= LoginLimit - 1 + Cardinality(LoginRequests)
      BY DEF LimiterInv, AllowedBounded
    <3>4. Len(attempts[e]) \in Nat /\ Len(W[e]) \in Nat /\ Len(W[e]) <= Len(attempts[e])
      BY <2>2 DEF LimiterInv, LimiterTypes
    <3>5. CASE e # c
      BY <1>t, <2>6, <3>2, <3>3, <3>4, <3>5
    <3>6. CASE e = c
      <4>1. Cardinality(AllowedLogins(e)') = Cardinality(AllowedLogins(e)) - 1
        <5>1. AllowedLogins(e) \in SUBSET LoginRequests
          BY DEF AllowedLogins
        <5>2. AllowedLogins(e)' = AllowedLogins(e) \ {r} /\ r \in AllowedLogins(e)
          BY <1>0, <2>1, <2>3, <3>6 DEF AllowedLogins, c
        <5> QED
          BY <5>1, <5>2, LoginSets
      <4>2. Len(attempts'[c]) = Len(W[c]) + 1
        BY <2>5, <2>6
      <4> QED
        BY <1>t, <3>2, <3>3, <3>4, <3>6, <4>1, <4>2, SMTT(60)
    <3> QED
      BY <3>5, <3>6
  <2>11. Accounted' /\ AllowedBounded'
    BY <2>9, <2>10 DEF Accounted, AllowedBounded
  <2> QED
    BY <2>8, <2>11 DEF LimiterInv
<1> QED
  BY <1>1, <1>2, <1>3, <1>4, <1>5, <1>6, <1>7, <1>8 DEF LimiterNext

(* Only Allow ends a request that has not been allowed, and only with a    *)
(* full list.                                                              *)
LEMMA RefusedRightly == LimiterInv /\ [LimiterNext]_limiterVars => RefusedForFailures
<1> SUFFICES ASSUME LimiterInv, [LimiterNext]_limiterVars,
                    NEW r \in LoginRequests, login[r].at = "allow", login'[r].at = "idle"
             PROVE  /\ FailuresFrom(login[r].client, 0) >= LoginLimit
                    /\ FailuresFrom(login[r].client, WindowStart(login[r].now)) > 0
  BY DEF RefusedForFailures
<1>1. DOMAIN login = LoginRequests
  BY DEF LimiterInv, LimiterTypes
<1>2. login'[r] # login[r]
  OBVIOUS
<1>3. Allow(r)
  <2>1. ASSUME NEW q \in LoginRequests, NEW c \in Clients, BeginLogin(q, c) PROVE FALSE
    BY <1>1, <1>2, <2>1 DEF BeginLogin
  <2>2. ASSUME NEW q \in LoginRequests, q # r, Allow(q) PROVE FALSE
    BY <1>1, <1>2, <2>2 DEF Allow
  <2>3. ASSUME NEW q \in LoginRequests, InvalidForm(q) PROVE FALSE
    BY <1>1, <1>2, <2>3 DEF InvalidForm
  <2>4. ASSUME NEW q \in LoginRequests, WrongPassword(q) PROVE FALSE
    BY <1>1, <1>2, <2>4 DEF WrongPassword
  <2>5. ASSUME NEW q \in LoginRequests, RecordFailure(q) PROVE FALSE
    BY <1>1, <1>2, <2>5 DEF RecordFailure
  <2>6. ASSUME NEW q \in LoginRequests, ResetClient(q) PROVE FALSE
    BY <1>1, <1>2, <2>6 DEF ResetClient
  <2>7. ASSUME LoginClock PROVE FALSE
    BY <1>2, <2>7 DEF LoginClock
  <2>8. ASSUME UNCHANGED limiterVars PROVE FALSE
    BY <1>2, <2>8 DEF limiterVars
  <2> QED
    BY <2>1, <2>2, <2>3, <2>4, <2>5, <2>6, <2>7, <2>8 DEF LimiterNext
<1> DEFINE c == login[r].client
           now == login[r].now
           p == PruneAttempts(attempts[c], now)
<1>4. c \in Clients /\ now \in Nat /\ Swept(c, now)[c] = p
  BY SweptIs
<1>5. ~(Len(p) < LoginLimit)
  BY <1>1, <1>3, <1>4 DEF Allow, Listed
<1>6. LoginLimit \in Nat /\ Len(p) \in Nat
  <2>1. p \in Seq(LoginTimes)
    BY <1>4, Pruned DEF LimiterInv, LimiterTypes
  <2> QED
    BY <2>1, LimiterAssumption
<1>7. Len(p) >= LoginLimit
  BY <1>5, <1>6
<1> HIDE DEF c, now
<1> QED
  BY <1>4, <1>7, FullMeansFailed DEF c, now

(* The limiter (login_limiter.go) is exact, for any limit, window, number  *)
(* of clients and of requests in parallel: a client fails more often than  *)
(* the limit in one window only by requests that had been allowed before,  *)
(* and is refused only for its own failures, one of them still in the      *)
(* window.                                                                 *)
THEOREM Limiter == LimiterSpec => LimiterExact
<1>1. LimiterInv /\ [LimiterNext]_limiterVars => [FailuresBounded' /\ RefusedForFailures]_limiterVars
  <2>1. LimiterInv' => FailuresBounded'
    BY WindowBounded, PTL
  <2> QED
    BY <2>1, LimiterStep, RefusedRightly
<1> QED
  BY <1>1, LimiterInitially, LimiterStep, PTL DEF LimiterSpec, LimiterExact
=============================================================================
