------------------------------ MODULE TokenUse ------------------------------
(***************************************************************************)
(* What the service promises its callers about service-auth tokens, with   *)
(* no cache in sight: a token is accepted while it is live and while no    *)
(* token with the same issuer and jti is still in use, and a refusal names *)
(* its true cause.  ReplayProtector is shown to implement this module.     *)
(***************************************************************************)
EXTENDS Integers, FiniteSets

CONSTANTS
    Tokens,           \* signed tokens: records [issuer, jti, exp, lxm]
    Methods,          \* the authenticated query endpoints
    Requests,         \* concurrent requests
    MsPerSecond,      \* 1000 in the code
    MaxPerIssuer,     \* MAX_REPLAY_ENTRIES_PER_ISSUER
    MaxEntries        \* MAX_REPLAY_ENTRIES

VARIABLES
    time,             \* the latest instant the process has observed
    used,             \* every token accepted since the process started
    requests          \* what each request asked, and the answer it got

vars == <<time, used, requests>>

\* A token stays live through the whole of its last second.
ExpiresAt(t) == (t.exp + 1) * MsPerSecond

SamePair(t, u) == t.issuer = u.issuer /\ t.jti = u.jti

InUse(now) == {u \in used : ExpiresAt(u) > now}
InUseBy(issuer, now) == {u \in InUse(now) : u.issuer = issuer}

Idle == [phase |-> "idle"]

Ask(t, m) == [phase |-> "verifying", token |-> t, method |-> m]
Answer(r, phase) == requests' = [requests EXCEPT ![r].phase = phase]
-----------------------------------------------------------------------------
Init ==
    /\ time = 0
    /\ used = {}
    /\ requests = [r \in Requests |-> Idle]

Present(r, t, m) ==
    /\ requests[r].phase # "verifying"
    /\ requests' = [requests EXCEPT ![r] = Ask(t, m)]
    /\ UNCHANGED <<time, used>>

\* Signature, audience, endpoint or jti is wrong: nothing is used up.
Deny(r) ==
    /\ requests[r].phase = "verifying"
    /\ Answer(r, "BadJwt")
    /\ UNCHANGED <<time, used>>

\* The observed instant never moves back while a token is judged.
Judge(r) ==
    /\ requests[r].phase = "verifying"
    /\ time' \in Nat
    /\ time' >= time
    /\ LET t == requests[r].token IN
       \/ /\ Answer(r, "accepted")
          /\ t.lxm = requests[r].method
          /\ ExpiresAt(t) > time'
          /\ ~ \E u \in InUse(time') : SamePair(t, u)
          /\ used' = used \cup {t}
       \/ /\ Answer(r, "JwtExpired")
          /\ ExpiresAt(t) <= time'
          /\ UNCHANGED used
       \/ /\ Answer(r, "NonceNotUnique")
          /\ \E u \in InUse(time') : SamePair(t, u)
          /\ UNCHANGED used
       \/ /\ Answer(r, "IssuerFull")
          /\ Cardinality(InUseBy(t.issuer, time')) >= MaxPerIssuer
          /\ UNCHANGED used
       \/ /\ Answer(r, "CacheFull")
          /\ Cardinality(InUse(time')) >= MaxEntries
          /\ UNCHANGED used

\* The promise is made per process: nothing is remembered across a restart.
Restart ==
    /\ time' = 0
    /\ used' = {}
    /\ requests' = [r \in Requests |-> Idle]

Next ==
    \/ \E r \in Requests :
        \/ \E t \in Tokens, m \in Methods : Present(r, t, m)
        \/ Deny(r)
        \/ Judge(r)
    \/ Restart

Spec == Init /\ [][Next]_vars
=============================================================================
