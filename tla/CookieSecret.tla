---------------------------- MODULE CookieSecret ----------------------------
(***************************************************************************)
(* The secret that signs login cookies (auth.go: LoadOrCreateSecret, sign, *)
(* verify): servers that start at the same time, die at any point and      *)
(* start again share it through a file.  The file is created exclusively   *)
(* and then written, so that others may find it empty.                     *)
(*                                                                         *)
(* Every start draws a secret of its own; a secret is the start that drew  *)
(* it.  A signature is the secret it was made with.                        *)
(***************************************************************************)
EXTENDS Naturals, FiniteSets

CONSTANTS
    Servers,
    CookieTTL,
    Tolerance,          \* the 30 seconds by which a cookie may be early
    MaxStarts, MaxCookieTime    \* bounds

ASSUME SecretAssumption ==
    {CookieTTL, Tolerance, MaxStarts, MaxCookieTime} \subseteq Nat

VARIABLES
    secretFile,     \* 0: none; Unwritten: created and empty; or a secret
    server,         \* server -> where it is, the secret it drew or read
    starts,         \* how many starts there were
    cookies,        \* cookies handed out: [secret, issued]
    wallClock

secretVars == <<secretFile, server, starts, cookies, wallClock>>

Unwritten == MaxStarts + 1
Down == [at |-> "down", secret |-> 0]

StartServer(p) ==
    /\ server[p].at = "down" /\ starts < MaxStarts
    /\ starts' = starts + 1
    /\ server' = [server EXCEPT ![p] = [at |-> "read", secret |-> starts + 1]]
    /\ UNCHANGED <<secretFile, cookies, wallClock>>

(* readSecretFile and parseSecret; an empty file is an error.              *)
ParseSecret(p) ==
    server' = [server EXCEPT ![p] =
                  IF secretFile \in {0, Unwritten} THEN Down
                  ELSE [at |-> "serving", secret |-> secretFile]]

ReadSecret(p) ==
    /\ server[p].at = "read"
    /\ IF secretFile = 0 THEN server' = [server EXCEPT ![p].at = "create"] ELSE ParseSecret(p)
    /\ UNCHANGED <<secretFile, starts, cookies, wallClock>>

(* The file is opened without O_EXCL.                                      *)
CreateSecretShared(p) ==
    /\ server[p].at = "create"
    /\ secretFile' = Unwritten
    /\ server' = [server EXCEPT ![p].at = "write"]
    /\ UNCHANGED <<starts, cookies, wallClock>>

(* O_CREATE|O_EXCL: whoever comes second reads what the first one writes.  *)
CreateSecret(p) ==
    /\ server[p].at = "create"
    /\ IF secretFile = 0
       THEN secretFile' = Unwritten /\ server' = [server EXCEPT ![p].at = "write"]
       ELSE UNCHANGED secretFile /\ ParseSecret(p)
    /\ UNCHANGED <<starts, cookies, wallClock>>

WriteSecret(p) ==
    /\ server[p].at = "write"
    /\ secretFile' = server[p].secret
    /\ server' = [server EXCEPT ![p].at = "serving"]
    /\ UNCHANGED <<starts, cookies, wallClock>>

(* An error of the file system, or the end of the process.                 *)
StopServer(p) ==
    /\ server[p].at # "down"
    /\ server' = [server EXCEPT ![p] = Down]
    /\ UNCHANGED <<secretFile, starts, cookies, wallClock>>

(* Login: sign(now).                                                       *)
IssueCookie(p) ==
    /\ server[p].at = "serving"
    /\ cookies' = cookies \cup {[secret |-> server[p].secret, issued |-> wallClock]}
    /\ UNCHANGED <<secretFile, server, starts, wallClock>>

(* The clock runs, or is set.                                              *)
SetClock ==
    /\ wallClock' \in 0..MaxCookieTime
    /\ UNCHANGED <<secretFile, server, starts, cookies>>

SecretInit ==
    /\ secretFile = 0
    /\ server = [p \in Servers |-> Down]
    /\ starts = 0
    /\ cookies = {}
    /\ wallClock = 0

SecretNext ==
    \/ \E p \in Servers :
          \/ StartServer(p) \/ ReadSecret(p) \/ CreateSecret(p) \/ WriteSecret(p)
          \/ StopServer(p) \/ IssueCookie(p)
    \/ SetClock

SecretSpec == SecretInit /\ [][SecretNext]_secretVars

(* verify                                                                  *)
Verify(p, cookie) ==
    /\ cookie.secret = server[p].secret
    /\ cookie.issued <= wallClock + Tolerance
    /\ wallClock <= cookie.issued + CookieTTL

-----------------------------------------------------------------------------
(* Logins survive: every server that serves, the one that issued a cookie, *)
(* its successor and its neighbour, accepts the cookie for as long as it   *)
(* lasts, unless the clock was set back by more than the tolerance.  No    *)
(* start, however it overlaps with others or ends, makes a server sign     *)
(* with a secret that the file does not keep.                              *)
LoginsSurvive ==
    \A p \in Servers, cookie \in cookies :
        /\ server[p].at = "serving"
        /\ wallClock + Tolerance >= cookie.issued
        /\ wallClock <= cookie.issued + CookieTTL
        => Verify(p, cookie)
=============================================================================
