--------------------------- MODULE ReplayProtector ---------------------------
(***************************************************************************)
(* Optional service authentication with its bounded replay cache           *)
(* (src/src/auth/service-auth.ts).                                         *)
(*                                                                         *)
(* The two-level Map issuer -> jti -> expiry is the set `entries' of       *)
(* records plus the set `issuers' of the keys of the outer Map, so that an *)
(* inner Map that is empty, or no longer reachable, can be told apart.     *)
(* Signature checking and DID resolution are the library's: a token under  *)
(* verification is rejected, or handed to `consume', at any later time.    *)
(* `consume' runs without an await, so each of its outcomes is one step.   *)
(***************************************************************************)
EXTENDS Integers, FiniteSets

CONSTANTS
    Issuers,          \* the DIDs that sign tokens
    Jtis,             \* acceptable jti claims
    BadJti,           \* a jti that is absent, empty or longer than 256 bytes
    Methods,          \* the authenticated query endpoints
    Tokens,           \* signed tokens: records [issuer, jti, exp, lxm]
    Requests,         \* concurrent requests
    MsPerSecond,      \* 1000 in the code
    MaxPerIssuer,     \* MAX_REPLAY_ENTRIES_PER_ISSUER
    MaxEntries,       \* MAX_REPLAY_ENTRIES
    Instants          \* the readings Date.now() can give

ASSUME LimitsAssumption ==
    /\ MaxPerIssuer \in Nat \ {0}
    /\ MaxEntries \in Nat \ {0}
    /\ MsPerSecond \in Nat \ {0}

ASSUME InstantsAssumption == Instants \subseteq Nat

ASSUME TokensAssumption ==
    Tokens \subseteq [issuer : Issuers, jti : Jtis \cup {BadJti}, exp : Nat, lxm : Methods]

VARIABLES
    wall,                 \* what Date.now() reads; an operator may set it back
    lastObservedWallMs,
    cache,                \* [entries, issuers, count]
    requests,             \* per request: phase, and the token and method asked
    used                  \* history: tokens accepted since the process started

vars == <<wall, lastObservedWallMs, cache, requests, used>>

ExpiresAt(t) == (t.exp + 1) * MsPerSecond

\* Slip: the arguments of Map.set name the expiry as the key.
EntryKeyedByExpiry(t) ==
    [issuer |-> t.issuer, jti |-> ExpiresAt(t), expiry |-> ExpiresAt(t)]

Entry(t) == [issuer |-> t.issuer, jti |-> t.jti, expiry |-> ExpiresAt(t)]

Outcomes == {"accepted", "BadJwt", "JwtExpired", "NonceNotUnique", "IssuerFull", "CacheFull"}

Idle == [phase |-> "idle"]
Ask(t, m) == [phase |-> "verifying", token |-> t, method |-> m]
-----------------------------------------------------------------------------
(***************************************************************************)
(* The helpers of createReplayProtector, as functions of the cache.        *)
(***************************************************************************)

EmptyCache == [entries |-> {}, issuers |-> {}, count |-> 0]

\* replayEntriesByIssuer.get(issuer): nothing is visible once the key is gone.
IssuerEntries(c, issuer) == {e \in c.entries : e.issuer = issuer /\ issuer \in c.issuers}

\* Slip: an inner Map that a removal empties stays in the outer Map.
RemoveKeepingIssuer(c, gone) ==
    [c EXCEPT !.entries = @ \ gone, !.count = @ - Cardinality(gone)]

\* Deleting an issuer's last entry deletes the issuer's Map.
RemoveEntries(c, gone) ==
    LET kept == c.entries \ gone IN
    [entries |-> kept,
     issuers |-> {i \in c.issuers :
                    (\E e \in gone : e.issuer = i) => (\E e \in kept : e.issuer = i)},
     count   |-> c.count - Cardinality(gone)]

\* Slip: entries are purged in the last second of their token's life.
PurgeIssuerEarly(c, issuer, now) ==
    RemoveEntries(c, {e \in IssuerEntries(c, issuer) : e.expiry <= now + MsPerSecond})

PurgeIssuer(c, issuer, now) ==
    RemoveEntries(c, {e \in IssuerEntries(c, issuer) : e.expiry <= now})

PurgeAll(c, now) ==
    RemoveEntries(c, {e \in c.entries : e.issuer \in c.issuers /\ e.expiry <= now})

\* The entries stored under the token's issuer and jti.
Stored(c, t) == {e \in IssuerEntries(c, t.issuer) : e.jti = t.jti}

IsReplay(c, t, now) == \E e \in Stored(c, t) : e.expiry > now

\* rejectReplayAndGetEntries: an expired entry of the same pair makes room.
DropStored(c, t) == RemoveEntries(c, Stored(c, t))

IssuerIsFull(c, issuer) == Cardinality(IssuerEntries(c, issuer)) >= MaxPerIssuer
CacheIsFull(c) == c.count >= MaxEntries

\* Expired entries are purged only once the limit is met.
IssuerRoom(c, issuer, now) ==
    IF IssuerIsFull(c, issuer) THEN PurgeIssuer(c, issuer, now) ELSE c

\* Slip: a full cache refuses without purging.
CacheRoomUnpurged(c, now) == c

CacheRoom(c, now) ==
    IF CacheIsFull(c) THEN PurgeAll(c, now) ELSE c

\* Map.set overwrites the jti's entry; the counter goes up in any case.
StoreEntry(c, t) ==
    [entries |-> (c.entries \ Stored(c, t)) \cup {Entry(t)},
     issuers |-> c.issuers \cup {t.issuer},
     count   |-> c.count + 1]
-----------------------------------------------------------------------------
Init ==
    /\ wall \in Instants
    /\ lastObservedWallMs = 0
    /\ cache = EmptyCache
    /\ requests = [r \in Requests |-> Idle]
    /\ used = {}

\* A request with an Authorization header starts its verification.
Present(r, t, m) ==
    /\ requests[r].phase # "verifying"
    /\ requests' = [requests EXCEPT ![r] = Ask(t, m)]
    /\ UNCHANGED <<wall, lastObservedWallMs, cache, used>>

Answer(r, phase) == requests' = [requests EXCEPT ![r].phase = phase]

\* The library refuses the token: signature, audience, expiry, DID document.
VerifyFails(r) ==
    /\ requests[r].phase = "verifying"
    /\ Answer(r, "BadJwt")
    /\ UNCHANGED <<wall, lastObservedWallMs, cache, used>>

WellFormed(r) ==
    /\ requests[r].token.lxm = requests[r].method
    /\ requests[r].token.jti # BadJti

\* assertEndpointBinding and validateJti come before anything is recorded.
RejectClaims(r) ==
    /\ requests[r].phase = "verifying"
    /\ ~ WellFormed(r)
    /\ Answer(r, "BadJwt")
    /\ UNCHANGED <<wall, lastObservedWallMs, cache, used>>

\* Slip: the clock is read as it stands.
WallTime == wall

\* getCurrentTimeMs: the clock as the protector sees it never runs back.
ObservedTime == IF wall > lastObservedWallMs THEN wall ELSE lastObservedWallMs

\* What every outcome of consume shares: the token passed the checks before it.
Consuming(r) ==
    /\ requests[r].phase = "verifying"
    /\ WellFormed(r)
    /\ lastObservedWallMs' = ObservedTime
    /\ UNCHANGED wall

TokenIsLive(t, now) == ExpiresAt(t) > now

RejectExpired(r) ==
    /\ Consuming(r)
    /\ ~ TokenIsLive(requests[r].token, ObservedTime)
    /\ Answer(r, "JwtExpired")
    /\ UNCHANGED <<cache, used>>

RejectReplay(r) ==
    LET t == requests[r].token IN
    /\ Consuming(r)
    /\ TokenIsLive(t, ObservedTime)
    /\ IsReplay(cache, t, ObservedTime)
    /\ Answer(r, "NonceNotUnique")
    /\ UNCHANGED <<cache, used>>

Fresh(r) ==
    /\ TokenIsLive(requests[r].token, ObservedTime)
    /\ ~ IsReplay(cache, requests[r].token, ObservedTime)

\* The cache as ensureIssuerCapacity and ensureGlobalCapacity leave it: what
\* they purged stays purged when they throw.
AfterIssuerCheck(t, now) == IssuerRoom(DropStored(cache, t), t.issuer, now)
AfterCacheCheck(t, now) == CacheRoom(AfterIssuerCheck(t, now), now)

RejectIssuerFull(r) ==
    LET t == requests[r].token
        c == AfterIssuerCheck(t, ObservedTime)
    IN  /\ Consuming(r)
        /\ Fresh(r)
        /\ IssuerIsFull(c, t.issuer)
        /\ cache' = c
        /\ Answer(r, "IssuerFull")
        /\ UNCHANGED used

RejectCacheFull(r) ==
    LET t == requests[r].token
        c == AfterCacheCheck(t, ObservedTime)
    IN  /\ Consuming(r)
        /\ Fresh(r)
        /\ ~ IssuerIsFull(AfterIssuerCheck(t, ObservedTime), t.issuer)
        /\ CacheIsFull(c)
        /\ cache' = c
        /\ Answer(r, "CacheFull")
        /\ UNCHANGED used

Accept(r) ==
    LET t == requests[r].token
        c == AfterCacheCheck(t, ObservedTime)
    IN  /\ Consuming(r)
        /\ Fresh(r)
        /\ ~ IssuerIsFull(AfterIssuerCheck(t, ObservedTime), t.issuer)
        /\ ~ CacheIsFull(c)
        /\ cache' = StoreEntry(c, t)
        /\ Answer(r, "accepted")
        /\ used' = used \cup {t}

\* External: time passes, or the operator or NTP sets the wall clock back.
ClockMoves ==
    /\ wall' \in Instants \ {wall}
    /\ UNCHANGED <<lastObservedWallMs, cache, requests, used>>

\* The cache lives in one process: a restart forgets it and its requests.
Restart ==
    /\ lastObservedWallMs' = 0
    /\ cache' = EmptyCache
    /\ requests' = [r \in Requests |-> Idle]
    /\ used' = {}
    /\ UNCHANGED wall

Consume(r) ==
    \/ RejectExpired(r)
    \/ RejectReplay(r)
    \/ RejectIssuerFull(r)
    \/ RejectCacheFull(r)
    \/ Accept(r)

Next ==
    \/ \E r \in Requests :
        \/ \E t \in Tokens, m \in Methods : Present(r, t, m)
        \/ VerifyFails(r)
        \/ RejectClaims(r)
        \/ Consume(r)
    \/ ClockMoves
    \/ Restart

Spec == Init /\ [][Next]_vars
-----------------------------------------------------------------------------
RequestStates ==
    {Idle} \cup [phase : {"verifying"} \cup Outcomes, token : Tokens, method : Methods]

EntryType == [issuer : Issuers, jti : Jtis \cup {BadJti}, expiry : Nat]

CacheType == [entries : SUBSET EntryType, issuers : SUBSET Issuers, count : Int]

\* The variables have the types of the closure's state in the code.
TypeOK ==
    /\ wall \in Instants
    /\ lastObservedWallMs \in Nat
    /\ cache \in CacheType
    /\ requests \in [Requests -> RequestStates]
    /\ used \subseteq Tokens

\* One entry per issuer and jti, no inner Map left behind empty, and none of
\* the entries lost from sight by the deletion of the outer key.
MapsConsistent ==
    /\ \A e, f \in cache.entries : e.issuer = f.issuer /\ e.jti = f.jti => e = f
    /\ cache.issuers = {e.issuer : e \in cache.entries}

\* replayEntryCount is kept by hand in two places: it is the number of entries.
CountExact == cache.count = Cardinality(cache.entries)

\* Neither limit is ever passed, whichever entries were purged or replaced.
WithinLimits ==
    /\ Cardinality(cache.entries) <= MaxEntries
    /\ \A i \in cache.issuers : Cardinality(IssuerEntries(cache, i)) <= MaxPerIssuer

\* The cache keeps its books: maps, counter and limits agree after every
\* sequence of purges, replacements, refusals and restarts.
BooksKept == MapsConsistent /\ CountExact /\ WithinLimits

\* Purging forgets nothing that matters and remembers nothing else: a token
\* that was accepted and can still pass the expiry check has its entry in the
\* cache, and every entry stands for a token that was accepted.
CacheMirrorsUses ==
    /\ \A t \in used : ExpiresAt(t) > lastObservedWallMs => Entry(t) \in cache.entries
    /\ \A e \in cache.entries : \E t \in used : e = Entry(t)

Accepting(r) == requests[r].phase = "verifying" /\ requests'[r].phase = "accepted"

\* A signed token is accepted at most once while the process lives, even when
\* the wall clock is set back after its entry was purged.
AcceptedOnce == [][\A r \in Requests : Accepting(r) => requests[r].token \notin used]_vars

\* The promise of TokenUse, every answer's cause included.
Promise == INSTANCE TokenUse WITH time <- lastObservedWallMs
ImplementsTokenUse == Promise!Spec
=============================================================================
