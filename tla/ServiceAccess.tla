----------------------------- MODULE ServiceAccess -----------------------------
(***************************************************************************)
(* The deployed service and those who use it: its start (ServiceStart),    *)
(* device authorizations of the CLI and API keys (DeviceAuth), mailings    *)
(* requested with an Idempotency-Key (MailingRequests), the limiter of     *)
(* attempts (AttemptLimiter) and the readiness that setup asks for         *)
(* (SesReadiness).  The parts that do not touch each other's state take    *)
(* turns.  Bounds: devices are authorized and requests with keys made each *)
(* while none of the other is under way; no device is authorized after a   *)
(* key that was not made by one; requests with keys follow one             *)
(* authorization alone, mailings are requested with its key, and then no   *)
(* key changes; the limiter and the readiness are asked where nothing else *)
(* has happened since the start, and then nothing else happens.            *)
(***************************************************************************)
EXTENDS DeviceAuth, ServiceStart, MailingRequests, AttemptLimiter, SesReadiness

accessVars == <<startVars, keyVars, authVars, mailingVars, limiterVars, asked>>

AccessInit ==
    StartInit /\ KeysInit /\ AuthInit /\ MailingsInit /\ LimiterInit /\ ReadinessInit

\* authenticatedContext and requirePrincipal: the stored key is there and passes.
CliReady == local.key # None /\ Live(local.key)

FirstKeyAlone ==
    /\ keys.made = 1 /\ CliReady /\ local.login = None
    /\ \A q \in Requests : Is(q, "none")
    /\ \A p \in Polls : polls[p] = None
    /\ \A g \in Grants : g > 1 => ~grants[g].started

MailingsBegun == \E c \in Clients : calls[c] # [pc |-> "idle", answer |-> NoAnswer]

NoMailings == ~MailingsBegun /\ mailings.row = NoRow
NoRequests == \A q \in Requests : Is(q, "none")
NothingAsked == answers = <<>> /\ asked = {}

StartService == StartNext /\ UNCHANGED <<keyVars, authVars, mailingVars, limiterVars, asked>>

Using(A) == serving /\ A /\ UNCHANGED startVars

AuthorizeDevices ==
    /\ NothingAsked /\ NoMailings /\ NoRequests /\ \A k \in Made : keys.row[k].grant # None
    /\ AuthNext
    /\ UNCHANGED <<mailingVars, limiterVars, asked>>

FirstGrantAlone ==
    /\ local.login = None /\ \A p \in Polls : polls[p] = None
    /\ \A g \in Grants : grants[g].started => g = 1 /\ grants[g].consumed

UseKeys ==
    /\ NothingAsked /\ NoMailings /\ FirstGrantAlone
    /\ (KeysNext /\ UNCHANGED authVars) \/ Logout
    /\ UNCHANGED <<mailingVars, limiterVars, asked>>

RequestMailings ==
    /\ NothingAsked /\ FirstKeyAlone /\ MailingsNext
    /\ UNCHANGED <<keyVars, authVars, limiterVars, asked>>

JustStarted ==
    /\ NoMailings /\ NoRequests /\ keys.made = 0
    /\ \A g \in Grants : ~grants[g].started

AskService ==
    /\ JustStarted
    /\ \/ asked = {} /\ LimiterNext /\ UNCHANGED asked
       \/ answers = <<>> /\ AskReadiness /\ UNCHANGED limiterVars
    /\ UNCHANGED <<keyVars, authVars, mailingVars>>

UseService == Using(AuthorizeDevices \/ UseKeys \/ RequestMailings \/ AskService)

AccessNext == StartService \/ UseService

AccessSpec == AccessInit /\ [][AccessNext]_accessVars /\ StartFairness
===============================================================================
