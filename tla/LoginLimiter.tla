---------------------------- MODULE LoginLimiter ----------------------------
(***************************************************************************)
(* Failed logins (login_limiter.go and the POST of handleLogin, server.go):*)
(* a request is allowed, checks its password and then records a failure or *)
(* resets its client.  The three are separate operations of the limiter,   *)
(* and the first two read the clock before they take its mutex, so         *)
(* parallel logins of one client interleave between them.                  *)
(***************************************************************************)
EXTENDS Naturals, Sequences, FiniteSets, Functions

CONSTANTS
    Clients, LoginRequests,
    LoginLimit,         \* loginAttemptLimit
    LoginWindow,        \* loginAttemptWindow
    MaxLoginTime        \* bound on the clock

ASSUME LimiterAssumption ==
    /\ LoginLimit \in Nat \ {0} /\ LoginWindow \in Nat \ {0} /\ MaxLoginTime \in Nat
    /\ IsFiniteSet(LoginRequests)

VARIABLES
    attempts,       \* client -> times of its failures, in the order recorded
    lastSweep,
    login,          \* request -> where it is, its client and the `now` it read
    loginTime,
    failures        \* client -> time -> failures recorded since its last Reset

limiterVars == <<attempts, lastSweep, login, loginTime, failures>>

NeverSwept == MaxLoginTime + 1
NoClient == "no client"
IdleLogin == [at |-> "idle", client |-> NoClient, now |-> 0]

Expired(t, now) == t + LoginWindow < now

(* pruneLocked: the list from its first entry that has not expired.        *)
PruneAttempts(list, now) ==
    LET keep == {i \in DOMAIN list : ~Expired(list[i], now)}
    IN  IF keep = {} THEN <<>>
        ELSE SubSeq(list, CHOOSE i \in keep : \A j \in keep : i <= j, Len(list))

SweepDue(now) == lastSweep = NeverSwept \/ now >= lastSweep + LoginWindow

(* sweepLocked and pruneLocked of the client.                              *)
Swept(client, now) ==
    [c \in Clients |-> IF c = client \/ SweepDue(now)
                       THEN PruneAttempts(attempts[c], now) ELSE attempts[c]]

SweepAt(now) == lastSweep' = IF SweepDue(now) THEN now ELSE lastSweep

(* Allow counts what is listed, expired or not.                            *)
ListedUnpruned(client, now) == attempts[client]

Listed(client, now) == Swept(client, now)[client]

BeginLogin(r, c) ==
    /\ login[r].at = "idle"
    /\ login' = [login EXCEPT ![r] = [at |-> "allow", client |-> c, now |-> loginTime]]
    /\ UNCHANGED <<attempts, lastSweep, loginTime, failures>>

(* Allow: 429, or on to the password.                                      *)
Allow(r) ==
    LET c == login[r].client
        now == login[r].now
    IN  /\ login[r].at = "allow"
        /\ attempts' = Swept(c, now)
        /\ SweepAt(now)
        /\ login' = [login EXCEPT ![r] =
                        IF Len(Listed(c, now)) < LoginLimit
                        THEN [at |-> "check", client |-> c, now |-> 0] ELSE IdleLogin]
        /\ UNCHANGED <<loginTime, failures>>

(* The form cannot be read: the attempt is not counted.                    *)
InvalidForm(r) ==
    /\ login[r].at = "check"
    /\ login' = [login EXCEPT ![r] = IdleLogin]
    /\ UNCHANGED <<attempts, lastSweep, loginTime, failures>>

WrongPassword(r) ==
    /\ login[r].at = "check"
    /\ login' = [login EXCEPT ![r].at = "record", ![r].now = loginTime]
    /\ UNCHANGED <<attempts, lastSweep, loginTime, failures>>

RecordFailure(r) ==
    LET c == login[r].client
        now == login[r].now
    IN  /\ login[r].at = "record"
        /\ attempts' = [Swept(c, now) EXCEPT ![c] = Append(@, now)]
        /\ SweepAt(now)
        /\ failures' = [failures EXCEPT ![c][now] = @ + 1]
        /\ login' = [login EXCEPT ![r] = IdleLogin]
        /\ UNCHANGED loginTime

(* The right password: the cookie is set and the client starts afresh.     *)
ResetClient(r) ==
    LET c == login[r].client
    IN  /\ login[r].at = "check"
        /\ attempts' = [attempts EXCEPT ![c] = <<>>]
        /\ failures' = [failures EXCEPT ![c] = [t \in 0..MaxLoginTime |-> 0]]
        /\ login' = [login EXCEPT ![r] = IdleLogin]
        /\ UNCHANGED <<lastSweep, loginTime>>

LoginClock ==
    /\ loginTime < MaxLoginTime
    /\ loginTime' = loginTime + 1
    /\ UNCHANGED <<attempts, lastSweep, login, failures>>

LimiterInit ==
    /\ attempts = [c \in Clients |-> <<>>]
    /\ lastSweep = NeverSwept
    /\ login = [r \in LoginRequests |-> IdleLogin]
    /\ loginTime = 0
    /\ failures = [c \in Clients |-> [t \in 0..MaxLoginTime |-> 0]]

LimiterNext ==
    \/ \E r \in LoginRequests :
          \/ \E c \in Clients : BeginLogin(r, c)
          \/ Allow(r) \/ InvalidForm(r) \/ WrongPassword(r) \/ RecordFailure(r) \/ ResetClient(r)
    \/ LoginClock

LimiterSpec == LimiterInit /\ [][LimiterNext]_limiterVars

-----------------------------------------------------------------------------
FailuresFrom(c, t) == SumFunctionOnSet(failures[c], t..MaxLoginTime)

WindowStart(now) == IF now > LoginWindow THEN now - LoginWindow ELSE 0

(* "10 failed attempts in 5 minutes": a client's wrong passwords in one    *)
(* window, since it last logged in, exceed the limit only by the requests  *)
(* that had been allowed before the last of them was recorded, at most one *)
(* for each request that runs in parallel.                                 *)
FailuresBounded ==
    \A c \in Clients :
        FailuresFrom(c, WindowStart(loginTime)) <= LoginLimit - 1 + Cardinality(LoginRequests)

(* A client is refused only for its own failures: as many as the limit     *)
(* since it last logged in, and one of them no older than the window.  So  *)
(* a client that stops failing is let in again.                            *)
RefusedForFailures ==
    \A r \in LoginRequests :
        login[r].at = "allow" /\ login'[r].at = "idle" =>
            /\ FailuresFrom(login[r].client, 0) >= LoginLimit
            /\ FailuresFrom(login[r].client, WindowStart(login[r].now)) > 0

(* The limiter lets too many failures through only where requests overlap, *)
(* and refuses nobody for another's or for old ones (Allow, RecordFailure, *)
(* Reset).                                                                 *)
LimiterExact == [][FailuresBounded' /\ RefusedForFailures]_limiterVars
=============================================================================
