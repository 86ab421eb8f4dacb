----------------------- MODULE ReplayProtectorProofs -----------------------
(***************************************************************************)
(* Proofs about ReplayProtector, for any tokens, clocks and limits.        *)
(*                                                                         *)
(* WellKept is what every helper of the cache preserves; IInv adds what    *)
(* ties the cache to the tokens accepted so far.                           *)
(***************************************************************************)
EXTENDS ReplayProtector, FiniteSetTheorems, TLAPS

\* A cache of the right type whose Maps and counter agree with each other.
WellKept(c) ==
    /\ c \in CacheType
    /\ IsFiniteSet(c.entries)
    /\ \A e, f \in c.entries : e.issuer = f.issuer /\ e.jti = f.jti => e = f
    /\ c.issuers = {e.issuer : e \in c.entries}
    /\ c.count = Cardinality(c.entries)

\* Neither limit is passed.
Within(c) ==
    /\ Cardinality(c.entries) <= MaxEntries
    /\ \A i \in Issuers : Cardinality({e \in c.entries : e.issuer = i}) <= MaxPerIssuer

\* What is left of c once some of the entries that expired by now are gone.
Trimmed(c, d, now) ==
    /\ WellKept(d)
    /\ Within(c) => Within(d)
    /\ d.entries \subseteq c.entries
    /\ \A e \in c.entries : e.expiry > now => e \in d.entries

-----------------------------------------------------------------------------
(* Facts about the helpers. *)

\* Expiry instants are natural numbers, and an entry has the entry type.
LEMMA EntryTyped ==
    ASSUME NEW t \in Tokens
    PROVE  /\ ExpiresAt(t) \in Nat
           /\ Entry(t) \in EntryType
           /\ t.issuer \in Issuers
           /\ Entry(t).issuer = t.issuer
           /\ Entry(t).jti = t.jti
           /\ Entry(t).expiry = ExpiresAt(t)
<1>1. /\ t.exp \in Nat
      /\ t.issuer \in Issuers
      /\ t.jti \in Jtis \cup {BadJti}
  BY TokensAssumption
<1>2. ExpiresAt(t) \in Nat
  BY <1>1, LimitsAssumption DEF ExpiresAt
<1>3. QED
  BY <1>1, <1>2 DEF Entry, EntryType

\* In a well kept cache no entry is out of reach of the outer Map.
LEMMA AllVisible ==
    ASSUME NEW c, WellKept(c), NEW i
    PROVE  IssuerEntries(c, i) = {e \in c.entries : e.issuer = i}
BY DEF WellKept, IssuerEntries

\* Removing entries keeps the cache well kept and within its limits.
LEMMA RemovePreserves ==
    ASSUME NEW c, WellKept(c), NEW gone \in SUBSET c.entries
    PROVE  /\ WellKept(RemoveEntries(c, gone))
           /\ RemoveEntries(c, gone).entries = c.entries \ gone
           /\ Within(c) => Within(RemoveEntries(c, gone))
<1> DEFINE d == RemoveEntries(c, gone)
           kept == c.entries \ gone
<1>1. /\ d.entries = kept
      /\ d.issuers = {i \in c.issuers :
                        (\E e \in gone : e.issuer = i) => (\E e \in kept : e.issuer = i)}
      /\ d.count = c.count - Cardinality(gone)
      /\ d = [entries |-> d.entries, issuers |-> d.issuers, count |-> d.count]
  BY DEF RemoveEntries
<1>2. IsFiniteSet(c.entries) /\ c.count = Cardinality(c.entries)
  BY DEF WellKept
<1>3. /\ IsFiniteSet(kept)
      /\ Cardinality(kept) = Cardinality(c.entries) - Cardinality(c.entries \cap gone)
  BY <1>2, FS_Difference
<1>4. c.entries \cap gone = gone
  OBVIOUS
<1>5. d.count = Cardinality(d.entries)
  BY <1>1, <1>2, <1>3, <1>4
<1>6. d.issuers = {e.issuer : e \in d.entries}
  BY <1>1 DEF WellKept
<1>7. d \in CacheType
  <2>1. d.entries \in SUBSET EntryType /\ d.issuers \in SUBSET Issuers
    BY <1>1 DEF WellKept, CacheType
  <2>2. d.count \in Int
    BY <1>1, <1>3, <1>5, FS_CardinalityType
  <2>3. QED
    BY <1>1, <2>1, <2>2 DEF CacheType
<1>8. WellKept(d)
  BY <1>1, <1>3, <1>5, <1>6, <1>7 DEF WellKept
<1>9. ASSUME Within(c) PROVE Within(d)
  <2>1. Cardinality(kept) <= MaxEntries
    <3>1. Cardinality(kept) <= Cardinality(c.entries)
      BY <1>2, FS_Subset
    <3>2. Cardinality(kept) \in Nat /\ Cardinality(c.entries) \in Nat
      BY <1>2, <1>3, FS_CardinalityType
    <3>3. QED
      BY <1>9, <3>1, <3>2, LimitsAssumption DEF Within
  <2>2. ASSUME NEW i \in Issuers
        PROVE  Cardinality({e \in kept : e.issuer = i}) <= MaxPerIssuer
    <3> DEFINE S == {e \in c.entries : e.issuer = i}
               T == {e \in kept : e.issuer = i}
    <3>1. IsFiniteSet(S)
      BY <1>2, FS_Subset
    <3>2. T \in SUBSET S
      OBVIOUS
    <3>3. IsFiniteSet(T) /\ Cardinality(T) <= Cardinality(S)
      BY <3>1, <3>2, FS_Subset
    <3>4. Cardinality(T) \in Nat /\ Cardinality(S) \in Nat
      BY <3>1, <3>3, FS_CardinalityType
    <3>5. Cardinality(S) <= MaxPerIssuer
      BY <1>9 DEF Within
    <3>6. QED
      BY <3>3, <3>4, <3>5, LimitsAssumption
  <2>3. QED
    BY <1>1, <2>1, <2>2 DEF Within
<1>10. QED
  BY <1>1, <1>8, <1>9

\* Removing only expired entries trims the cache.
LEMMA RemoveTrims ==
    ASSUME NEW c, WellKept(c), NEW now \in Nat, NEW gone \in SUBSET c.entries,
           \A e \in gone : e.expiry <= now
    PROVE  Trimmed(c, RemoveEntries(c, gone), now)
<1>1. c.entries \subseteq EntryType
  BY DEF WellKept, CacheType
<1>2. \A e \in c.entries : e.expiry \in Nat
  BY <1>1 DEF EntryType
<1>3. \A e \in c.entries : e.expiry > now => e \notin gone
  BY <1>2
<1>4. QED
  BY <1>3, RemovePreserves DEF Trimmed

\* A cache is a trimmed copy of itself, and trimming twice is trimming.
LEMMA TrimmedTransitive ==
    ASSUME NEW c, NEW d, NEW f, NEW now, WellKept(c)
    PROVE  /\ Trimmed(c, c, now)
           /\ Trimmed(c, d, now) /\ Trimmed(d, f, now) => Trimmed(c, f, now)
BY DEF Trimmed

\* rejectReplayAndGetEntries: when the token is no replay, what it drops has
\* expired, and no entry of the token's pair is left.
LEMMA DropStoredTrims ==
    ASSUME NEW c, WellKept(c), NEW t \in Tokens, NEW now \in Nat, ~ IsReplay(c, t, now)
    PROVE  /\ Trimmed(c, DropStored(c, t), now)
           /\ \A e \in DropStored(c, t).entries : ~ (e.issuer = t.issuer /\ e.jti = t.jti)
<1>1. Stored(c, t) = {e \in c.entries : e.issuer = t.issuer /\ e.jti = t.jti}
  BY AllVisible DEF Stored
<1>2. \A e \in c.entries : e.expiry \in Nat
  BY DEF WellKept, CacheType, EntryType
<1>3. \A e \in Stored(c, t) : e.expiry <= now
  BY <1>1, <1>2 DEF IsReplay
<1>4. Stored(c, t) \in SUBSET c.entries
  BY <1>1
<1>5. Trimmed(c, DropStored(c, t), now)
  BY <1>3, <1>4, RemoveTrims DEF DropStored
<1>6. DropStored(c, t).entries = c.entries \ Stored(c, t)
  BY <1>4, RemovePreserves DEF DropStored
<1>7. QED
  BY <1>1, <1>5, <1>6

\* ensureIssuerCapacity: an issuer still full after the purge has live entries only.
LEMMA IssuerRoomTrims ==
    ASSUME NEW c, WellKept(c), NEW i, NEW now \in Nat
    PROVE  /\ Trimmed(c, IssuerRoom(c, i, now), now)
           /\ IssuerIsFull(IssuerRoom(c, i, now), i) =>
                \A e \in IssuerRoom(c, i, now).entries : e.issuer = i => e.expiry > now
<1> DEFINE d == IssuerRoom(c, i, now)
           gone == {e \in IssuerEntries(c, i) : e.expiry <= now}
<1>1. CASE IssuerIsFull(c, i)
  <2>1. d = RemoveEntries(c, gone)
    BY <1>1 DEF IssuerRoom, PurgeIssuer
  <2>2. gone = {e \in c.entries : e.issuer = i /\ e.expiry <= now}
    BY AllVisible
  <2>3. d.entries = c.entries \ gone
    BY <2>1, <2>2, RemovePreserves
  <2>4. \A e \in c.entries : e.expiry \in Nat
    BY DEF WellKept, CacheType, EntryType
  <2>5. \A e \in d.entries : e.issuer = i => e.expiry > now
    BY <2>2, <2>3, <2>4
  <2>6. Trimmed(c, d, now)
    BY <2>1, <2>2, RemoveTrims
  <2>7. QED
    BY <2>5, <2>6
<1>2. CASE ~ IssuerIsFull(c, i)
  BY <1>2, TrimmedTransitive DEF IssuerRoom
<1>3. QED
  BY <1>1, <1>2

\* ensureGlobalCapacity: a cache still full after the purge has live entries only.
LEMMA CacheRoomTrims ==
    ASSUME NEW c, WellKept(c), NEW now \in Nat
    PROVE  /\ Trimmed(c, CacheRoom(c, now), now)
           /\ CacheIsFull(CacheRoom(c, now)) =>
                \A e \in CacheRoom(c, now).entries : e.expiry > now
<1> DEFINE d == CacheRoom(c, now)
           gone == {e \in c.entries : e.issuer \in c.issuers /\ e.expiry <= now}
<1>1. CASE CacheIsFull(c)
  <2>1. d = RemoveEntries(c, gone)
    BY <1>1 DEF CacheRoom, PurgeAll
  <2>2. gone = {e \in c.entries : e.expiry <= now}
    BY DEF WellKept
  <2>3. d.entries = c.entries \ gone
    BY <2>1, <2>2, RemovePreserves
  <2>4. \A e \in c.entries : e.expiry \in Nat
    BY DEF WellKept, CacheType, EntryType
  <2>5. \A e \in d.entries : e.expiry > now
    BY <2>2, <2>3, <2>4
  <2>6. Trimmed(c, d, now)
    BY <2>1, <2>2, RemoveTrims
  <2>7. QED
    BY <2>5, <2>6
<1>2. CASE ~ CacheIsFull(c)
  BY <1>2, TrimmedTransitive DEF CacheRoom
<1>3. QED
  BY <1>1, <1>2

\* storeReplayEntry: with room for the token and no entry of its pair, the
\* cache stays well kept and within its limits.
LEMMA StorePreserves ==
    ASSUME NEW c, WellKept(c), Within(c), NEW t \in Tokens,
           \A e \in c.entries : ~ (e.issuer = t.issuer /\ e.jti = t.jti),
           ~ IssuerIsFull(c, t.issuer), ~ CacheIsFull(c)
    PROVE  /\ WellKept(StoreEntry(c, t))
           /\ Within(StoreEntry(c, t))
           /\ StoreEntry(c, t).entries = c.entries \cup {Entry(t)}
<1> DEFINE d == StoreEntry(c, t)
           new == Entry(t)
<1>1. /\ new \in EntryType
      /\ new.issuer = t.issuer
      /\ new.jti = t.jti
      /\ t.issuer \in Issuers
  BY EntryTyped
<1>2. Stored(c, t) = {}
  BY AllVisible DEF Stored
<1>3. /\ d.entries = c.entries \cup {new}
      /\ d.issuers = c.issuers \cup {t.issuer}
      /\ d.count = c.count + 1
      /\ d = [entries |-> d.entries, issuers |-> d.issuers, count |-> d.count]
  BY <1>2 DEF StoreEntry
<1>4. new \notin c.entries
  BY <1>1
<1>5. /\ IsFiniteSet(c.entries)
      /\ c.count = Cardinality(c.entries)
      /\ Cardinality(c.entries) \in Nat
  BY FS_CardinalityType DEF WellKept
<1>6. /\ IsFiniteSet(d.entries)
      /\ Cardinality(d.entries) = Cardinality(c.entries) + 1
  <2>1. /\ IsFiniteSet(c.entries \cup {new})
        /\ Cardinality(c.entries \cup {new}) = Cardinality(c.entries) + 1
    BY <1>4, <1>5, FS_AddElement
  <2>2. QED
    BY <1>3, <2>1
<1>7. WellKept(d)
  <2>1. d \in CacheType
    <3>1. d.entries \in SUBSET EntryType /\ d.issuers \in SUBSET Issuers
      BY <1>1, <1>3 DEF WellKept, CacheType
    <3>2. d.count \in Int
      BY <1>3, <1>5
    <3>3. QED
      BY <1>3, <3>1, <3>2 DEF CacheType
  <2>2. \A e, f \in d.entries : e.issuer = f.issuer /\ e.jti = f.jti => e = f
    BY <1>1, <1>3 DEF WellKept
  <2>3. d.issuers = {e.issuer : e \in d.entries}
    BY <1>1, <1>3 DEF WellKept
  <2>4. d.count = Cardinality(d.entries)
    BY <1>3, <1>5, <1>6
  <2>5. QED
    BY <1>6, <2>1, <2>2, <2>3, <2>4 DEF WellKept
<1>8. Within(d)
  <2>1. Cardinality(d.entries) <= MaxEntries
    BY <1>5, <1>6, LimitsAssumption DEF CacheIsFull
  <2>2. ASSUME NEW i \in Issuers
        PROVE  Cardinality({e \in d.entries : e.issuer = i}) <= MaxPerIssuer
    <3> DEFINE S == {e \in c.entries : e.issuer = i}
               T == {e \in d.entries : e.issuer = i}
    <3>1. IsFiniteSet(S)
      BY <1>5, FS_Subset
    <3>2. Cardinality(S) \in Nat
      BY <3>1, FS_CardinalityType
    <3>3. CASE i = t.issuer
      <4>1. T = S \cup {new} /\ new \notin S
        BY <1>1, <1>3, <1>4, <3>3
      <4>2. Cardinality(T) = Cardinality(S) + 1
        BY <3>1, <4>1, FS_AddElement
      <4>3. S = IssuerEntries(c, t.issuer)
        BY <3>3, AllVisible
      <4>4. ~ (Cardinality(S) >= MaxPerIssuer)
        BY <4>3 DEF IssuerIsFull
      <4>5. QED
        BY <3>2, <4>2, <4>4, LimitsAssumption
    <3>4. CASE i # t.issuer
      <4>1. T = S
        BY <1>1, <1>3, <3>4
      <4>2. QED
        BY <4>1 DEF Within
    <3>5. QED
      BY <3>3, <3>4
  <2>3. QED
    BY <2>1, <2>2 DEF Within
<1>9. QED
  BY <1>3, <1>7, <1>8

-----------------------------------------------------------------------------
(* The inductive invariant. *)

\* The run's safety invariants, with what makes them inductive: the cache is
\* well kept and finitely many tokens were accepted.
IInv ==
    /\ TypeOK
    /\ WellKept(cache)
    /\ Within(cache)
    /\ CacheMirrorsUses
    /\ IsFiniteSet(used)

\* Observing the clock yields a natural number that is not in the past.
LEMMA ObservedTimeForward ==
    ASSUME TypeOK
    PROVE  ObservedTime \in Nat /\ ObservedTime >= lastObservedWallMs
BY InstantsAssumption DEF TypeOK, ObservedTime

\* A request under verification carries a token and a method.
LEMMA VerifyingTyped ==
    ASSUME TypeOK, NEW r \in Requests, requests[r].phase = "verifying"
    PROVE  /\ requests[r].token \in Tokens
           /\ \A p \in Outcomes : [requests EXCEPT ![r].phase = p] \in [Requests -> RequestStates]
<1>1. requests[r] \in [phase : {"verifying"} \cup Outcomes, token : Tokens, method : Methods]
  <2>1. requests[r] \in RequestStates
    BY DEF TypeOK
  <2>2. requests[r] # Idle
    BY DEF Idle
  <2>3. QED
    BY <2>1, <2>2 DEF RequestStates
<1>2. requests[r].token \in Tokens
  BY <1>1
<1>3. ASSUME NEW p \in Outcomes
      PROVE  [requests EXCEPT ![r].phase = p] \in [Requests -> RequestStates]
  <2>1. [requests[r] EXCEPT !.phase = p]
          \in [phase : {"verifying"} \cup Outcomes, token : Tokens, method : Methods]
    BY <1>1
  <2>2. [requests[r] EXCEPT !.phase = p] \in RequestStates
    BY <2>1 DEF RequestStates
  <2>3. requests \in [Requests -> RequestStates]
    BY DEF TypeOK
  <2>4. [requests EXCEPT ![r].phase = p] =
            [requests EXCEPT ![r] = [requests[r] EXCEPT !.phase = p]]
    OBVIOUS
  <2>5. QED
    BY <2>2, <2>3, <2>4
<1>4. QED
  BY <1>2, <1>3

\* A trimmed cache still mirrors the accepted tokens as time moves on.
LEMMA TrimmedMirrors ==
    ASSUME TypeOK, CacheMirrorsUses, NEW c, NEW now \in Nat, now >= lastObservedWallMs,
           Trimmed(cache, c, now)
    PROVE  /\ \A u \in used : ExpiresAt(u) > now => Entry(u) \in c.entries
           /\ \A e \in c.entries : \E u \in used : e = Entry(u)
<1>1. ASSUME NEW u \in used, ExpiresAt(u) > now
      PROVE  Entry(u) \in c.entries
  <2>1. u \in Tokens
    BY DEF TypeOK
  <2>2. ExpiresAt(u) \in Nat /\ Entry(u).expiry = ExpiresAt(u)
    BY <2>1, EntryTyped
  <2>3. ExpiresAt(u) > lastObservedWallMs
    BY <1>1, <2>2 DEF TypeOK
  <2>4. Entry(u) \in cache.entries
    BY <2>3 DEF CacheMirrorsUses
  <2>5. QED
    BY <1>1, <2>2, <2>4 DEF Trimmed
<1>2. \A e \in c.entries : \E u \in used : e = Entry(u)
  BY DEF Trimmed, CacheMirrorsUses
<1>3. QED
  BY <1>1, <1>2

\* The caches the two capacity checks leave behind, for a token that is fresh.
LEMMA ChecksTrim ==
    ASSUME IInv, NEW r \in Requests, Consuming(r), Fresh(r)
    PROVE  LET t == requests[r].token
               a == AfterIssuerCheck(t, ObservedTime)
               b == AfterCacheCheck(t, ObservedTime)
           IN  /\ t \in Tokens
               /\ Trimmed(cache, a, ObservedTime)
               /\ Trimmed(cache, b, ObservedTime)
               /\ b.entries \subseteq a.entries
               /\ \A e \in b.entries : ~ (e.issuer = t.issuer /\ e.jti = t.jti)
               /\ IssuerIsFull(a, t.issuer) =>
                    \A e \in a.entries : e.issuer = t.issuer => e.expiry > ObservedTime
               /\ CacheIsFull(b) => \A e \in b.entries : e.expiry > ObservedTime
<1> DEFINE t == requests[r].token
           now == ObservedTime
           z == DropStored(cache, t)
           a == AfterIssuerCheck(t, now)
           b == AfterCacheCheck(t, now)
<1>1. t \in Tokens
  BY VerifyingTyped DEF IInv, Consuming
<1>2. now \in Nat
  BY ObservedTimeForward DEF IInv
<1>3. WellKept(cache) /\ ~ IsReplay(cache, t, now)
  BY DEF IInv, Fresh
<1>4. /\ Trimmed(cache, z, now)
      /\ \A e \in z.entries : ~ (e.issuer = t.issuer /\ e.jti = t.jti)
  BY <1>1, <1>2, <1>3, DropStoredTrims
<1>5. WellKept(z)
  BY <1>4 DEF Trimmed
<1>6. /\ Trimmed(z, a, now)
      /\ IssuerIsFull(a, t.issuer) => \A e \in a.entries : e.issuer = t.issuer => e.expiry > now
  BY <1>2, <1>5, IssuerRoomTrims DEF AfterIssuerCheck
<1>7. WellKept(a)
  BY <1>6 DEF Trimmed
<1>8. /\ Trimmed(a, b, now)
      /\ CacheIsFull(b) => \A e \in b.entries : e.expiry > now
  BY <1>2, <1>7, CacheRoomTrims DEF AfterCacheCheck
<1>9. Trimmed(cache, a, now)
  BY <1>3, <1>4, <1>6, TrimmedTransitive
<1>10. Trimmed(cache, b, now)
  BY <1>3, <1>8, <1>9, TrimmedTransitive
<1>11. /\ b.entries \subseteq a.entries
       /\ a.entries \subseteq z.entries
  BY <1>6, <1>8 DEF Trimmed
<1>12. QED
  BY <1>1, <1>4, <1>6, <1>8, <1>9, <1>10, <1>11

\* An empty cache is well kept, within its limits, and mirrors no uses.
LEMMA EmptyCacheKept == WellKept(EmptyCache) /\ Within(EmptyCache)
<1>1. IsFiniteSet({}) /\ Cardinality({}) = 0
  BY FS_EmptySet
<1>2. EmptyCache \in CacheType
  BY DEF EmptyCache, CacheType
<1>3. WellKept(EmptyCache)
  BY <1>1, <1>2 DEF WellKept, EmptyCache
<1>4. \A i : {e \in EmptyCache.entries : e.issuer = i} = {}
  BY DEF EmptyCache
<1>5. Within(EmptyCache)
  <2>1. Cardinality(EmptyCache.entries) = 0
    BY <1>1 DEF EmptyCache
  <2>2. \A i : Cardinality({e \in EmptyCache.entries : e.issuer = i}) = 0
    BY <1>1, <1>4
  <2>3. QED
    BY <2>1, <2>2, LimitsAssumption DEF Within
<1>6. QED
  BY <1>3, <1>5

\* The initial state satisfies the inductive invariant.
LEMMA InitEstablishes == Init => IInv
<1> SUFFICES ASSUME Init PROVE IInv
  OBVIOUS
<1>1. WellKept(cache) /\ Within(cache)
  BY EmptyCacheKept DEF Init
<1>2. TypeOK
  BY <1>1 DEF Init, TypeOK, RequestStates, WellKept
<1>3. CacheMirrorsUses
  BY DEF Init, CacheMirrorsUses, EmptyCache
<1>4. IsFiniteSet(used)
  BY FS_EmptySet DEF Init
<1>5. QED
  BY <1>1, <1>2, <1>3, <1>4 DEF IInv

\* A refusal that leaves the cache a trimmed copy of itself keeps the invariant.
LEMMA RefusalPreserves ==
    ASSUME IInv, NEW r \in Requests, Consuming(r), UNCHANGED used,
           Trimmed(cache, cache', ObservedTime),
           NEW p \in Outcomes, requests' = [requests EXCEPT ![r].phase = p]
    PROVE  IInv'
<1>1. TypeOK /\ requests[r].phase = "verifying"
  BY DEF IInv, Consuming
<1>2. ObservedTime \in Nat /\ ObservedTime >= lastObservedWallMs
  BY <1>1, ObservedTimeForward
<1>3. lastObservedWallMs' = ObservedTime /\ wall' = wall
  BY DEF Consuming
<1>4. WellKept(cache') /\ Within(cache')
  BY DEF Trimmed, IInv
<1>5. requests' \in [Requests -> RequestStates]
  BY <1>1, VerifyingTyped
<1>6. TypeOK'
  BY <1>1, <1>2, <1>3, <1>4, <1>5 DEF TypeOK, WellKept
<1>7. CacheMirrorsUses'
  <2>1. /\ \A u \in used : ExpiresAt(u) > ObservedTime => Entry(u) \in cache'.entries
        /\ \A e \in cache'.entries : \E u \in used : e = Entry(u)
    BY <1>1, <1>2, TrimmedMirrors DEF IInv
  <2>2. QED
    BY <1>3, <2>1 DEF CacheMirrorsUses
<1>8. QED
  BY <1>4, <1>6, <1>7 DEF IInv, WellKept, Within

\* Accepting a token keeps the invariant.
LEMMA AcceptPreserves ==
    ASSUME IInv, NEW r \in Requests, Accept(r)
    PROVE  IInv'
<1> DEFINE t == requests[r].token
           now == ObservedTime
           b == AfterCacheCheck(t, now)
<1>1. TypeOK /\ requests[r].phase = "verifying" /\ Consuming(r) /\ Fresh(r)
  BY DEF IInv, Accept, Consuming
<1>2. now \in Nat /\ now >= lastObservedWallMs
  BY <1>1, ObservedTimeForward
<1>3. /\ lastObservedWallMs' = now
      /\ wall' = wall
      /\ used' = used \cup {t}
      /\ cache' = StoreEntry(b, t)
      /\ requests' = [requests EXCEPT ![r].phase = "accepted"]
  BY DEF Accept, Consuming, Answer
<1>4. /\ t \in Tokens
      /\ Trimmed(cache, b, now)
      /\ b.entries \subseteq AfterIssuerCheck(t, now).entries
      /\ \A e \in b.entries : ~ (e.issuer = t.issuer /\ e.jti = t.jti)
      /\ Trimmed(cache, AfterIssuerCheck(t, now), now)
  BY <1>1, ChecksTrim
<1>5. WellKept(b) /\ Within(b)
  BY <1>4 DEF Trimmed, IInv
<1>6. ~ IssuerIsFull(b, t.issuer)
  <2> DEFINE a == AfterIssuerCheck(t, now)
             S == {e \in a.entries : e.issuer = t.issuer}
             T == {e \in b.entries : e.issuer = t.issuer}
  <2>1. WellKept(a)
    BY <1>4 DEF Trimmed
  <2>2. S = IssuerEntries(a, t.issuer) /\ T = IssuerEntries(b, t.issuer)
    BY <1>5, <2>1, AllVisible
  <2>3. IsFiniteSet(S)
    BY <2>1, FS_Subset DEF WellKept
  <2>4. T \in SUBSET S
    BY <1>4
  <2>5. IsFiniteSet(T) /\ Cardinality(T) <= Cardinality(S)
    BY <2>3, <2>4, FS_Subset
  <2>6. Cardinality(S) \in Nat /\ Cardinality(T) \in Nat
    BY <2>3, <2>5, FS_CardinalityType
  <2>7. ~ IssuerIsFull(a, t.issuer)
    BY DEF Accept
  <2>8. ~ (Cardinality(S) >= MaxPerIssuer)
    BY <2>2, <2>7 DEF IssuerIsFull
  <2>9. ~ (Cardinality(T) >= MaxPerIssuer)
    BY <2>5, <2>6, <2>8, LimitsAssumption
  <2>10. QED
    BY <2>2, <2>9 DEF IssuerIsFull
<1>7. ~ CacheIsFull(b)
  BY DEF Accept
<1>8. /\ WellKept(cache')
      /\ Within(cache')
      /\ cache'.entries = b.entries \cup {Entry(t)}
  BY <1>3, <1>4, <1>5, <1>6, <1>7, StorePreserves
<1>9. requests' \in [Requests -> RequestStates]
  BY <1>1, <1>3, VerifyingTyped DEF Outcomes
<1>10. TypeOK'
  BY <1>1, <1>2, <1>3, <1>4, <1>8, <1>9 DEF TypeOK, WellKept
<1>11. CacheMirrorsUses'
  <2>1. /\ \A u \in used : ExpiresAt(u) > now => Entry(u) \in b.entries
        /\ \A e \in b.entries : \E u \in used : e = Entry(u)
    BY <1>1, <1>2, <1>4, TrimmedMirrors DEF IInv
  <2>2. QED
    BY <1>3, <1>8, <2>1 DEF CacheMirrorsUses
<1>12. IsFiniteSet(used')
  BY <1>3, FS_AddElement DEF IInv
<1>13. QED
  BY <1>8, <1>10, <1>11, <1>12 DEF IInv, WellKept, Within

\* Every step, and every stutter, preserves the inductive invariant.
LEMMA NextPreserves == IInv /\ [Next]_vars => IInv'
<1> SUFFICES ASSUME IInv, [Next]_vars PROVE IInv'
  OBVIOUS
<1> USE DEF IInv
<1>1. ASSUME NEW r \in Requests, NEW t \in Tokens, NEW m \in Methods, Present(r, t, m)
      PROVE  IInv'
  <2>1. Ask(t, m) \in RequestStates
    BY DEF Ask, RequestStates
  <2>2. requests' \in [Requests -> RequestStates]
    BY <1>1, <2>1 DEF Present, TypeOK
  <2>3. QED
    BY <1>1, <2>2 DEF Present, TypeOK, WellKept, Within, CacheMirrorsUses
<1>2. ASSUME NEW r \in Requests, VerifyFails(r) \/ RejectClaims(r)
      PROVE  IInv'
  <2>1. requests' \in [Requests -> RequestStates]
    BY <1>2, VerifyingTyped DEF VerifyFails, RejectClaims, Answer, Outcomes
  <2>2. QED
    BY <1>2, <2>1 DEF VerifyFails, RejectClaims, TypeOK, WellKept, Within, CacheMirrorsUses
<1>3. ASSUME NEW r \in Requests, RejectExpired(r) \/ RejectReplay(r)
      PROVE  IInv'
  <2>1. Consuming(r) /\ UNCHANGED <<cache, used>>
    BY <1>3 DEF RejectExpired, RejectReplay
  <2>2. Trimmed(cache, cache', ObservedTime)
    BY <2>1, TrimmedTransitive
  <2>3. CASE RejectExpired(r)
    BY <2>1, <2>2, <2>3, RefusalPreserves DEF RejectExpired, Answer, Outcomes
  <2>4. CASE RejectReplay(r)
    BY <2>1, <2>2, <2>4, RefusalPreserves DEF RejectReplay, Answer, Outcomes
  <2>5. QED
    BY <1>3, <2>3, <2>4
<1>4. ASSUME NEW r \in Requests, RejectIssuerFull(r) \/ RejectCacheFull(r)
      PROVE  IInv'
  <2>1. Consuming(r) /\ Fresh(r) /\ UNCHANGED used
    BY <1>4 DEF RejectIssuerFull, RejectCacheFull
  <2>2. Trimmed(cache, cache', ObservedTime)
    BY <1>4, <2>1, ChecksTrim DEF RejectIssuerFull, RejectCacheFull
  <2>3. CASE RejectIssuerFull(r)
    BY <2>1, <2>2, <2>3, RefusalPreserves DEF RejectIssuerFull, Answer, Outcomes
  <2>4. CASE RejectCacheFull(r)
    BY <2>1, <2>2, <2>4, RefusalPreserves DEF RejectCacheFull, Answer, Outcomes
  <2>5. QED
    BY <1>4, <2>3, <2>4
<1>5. ASSUME NEW r \in Requests, Accept(r)
      PROVE  IInv'
  BY <1>5, AcceptPreserves
<1>6. CASE ClockMoves
  BY <1>6 DEF ClockMoves, TypeOK, WellKept, Within, CacheMirrorsUses
<1>7. CASE Restart
  <2>1. requests' \in [Requests -> RequestStates]
    BY <1>7 DEF Restart, RequestStates
  <2>2. cache' = EmptyCache /\ WellKept(cache') /\ Within(cache')
    BY <1>7, EmptyCacheKept DEF Restart
  <2>3. TypeOK'
    BY <1>7, <2>1, <2>2 DEF Restart, TypeOK, WellKept
  <2>4. CacheMirrorsUses'
    BY <1>7 DEF Restart, CacheMirrorsUses, EmptyCache
  <2>5. IsFiniteSet(used')
    BY <1>7, FS_EmptySet DEF Restart
  <2>6. QED
    BY <2>2, <2>3, <2>4, <2>5 DEF WellKept, Within
<1>8. CASE UNCHANGED vars
  BY <1>8 DEF vars, TypeOK, WellKept, Within, CacheMirrorsUses
<1>9. QED
  BY <1>1, <1>2, <1>3, <1>4, <1>5, <1>6, <1>7, <1>8 DEF Next, Consume

\* In every reachable state the inductive invariant holds.
THEOREM Invariance == Spec => []IInv
BY InitEstablishes, NextPreserves, PTL DEF Spec

-----------------------------------------------------------------------------
(* The properties the runs check, for every instance. *)

\* The state of the protector is always well typed.
THEOREM TypeCorrect == Spec => []TypeOK
<1>1. IInv => TypeOK
  BY DEF IInv
<1>2. QED
  BY <1>1, Invariance, PTL

\* The nested Maps, the hand-kept counter and the limits always agree.
THEOREM CacheIsKept == Spec => []BooksKept
<1>1. IInv => BooksKept
  <2> SUFFICES ASSUME IInv PROVE MapsConsistent /\ CountExact /\ WithinLimits
    BY DEF BooksKept
  <2>1. MapsConsistent /\ CountExact
    BY DEF IInv, WellKept, MapsConsistent, CountExact
  <2>2. WithinLimits
    <3>1. \A i : IssuerEntries(cache, i) = {e \in cache.entries : e.issuer = i}
      BY AllVisible DEF IInv
    <3>2. cache.issuers \subseteq Issuers
      BY DEF IInv, WellKept, CacheType
    <3>3. QED
      BY <3>1, <3>2 DEF IInv, Within, WithinLimits
  <2>3. QED
    BY <2>1, <2>2
<1>2. QED
  BY <1>1, Invariance, PTL

\* Purging never forgets a token that could still be accepted again.
THEOREM CacheMirrors == Spec => []CacheMirrorsUses
<1>1. IInv => CacheMirrorsUses
  BY DEF IInv
<1>2. QED
  BY <1>1, Invariance, PTL

\* A token that was accepted and is still live when it comes again is a replay.
LEMMA LiveUseIsReplay ==
    ASSUME IInv, NEW t \in Tokens, NEW u \in used, u.issuer = t.issuer, u.jti = t.jti,
           NEW now \in Nat, now >= lastObservedWallMs, ExpiresAt(u) > now
    PROVE  IsReplay(cache, t, now)
<1>1. u \in Tokens
  BY DEF IInv, TypeOK
<1>2. /\ ExpiresAt(u) \in Nat
      /\ Entry(u).issuer = t.issuer
      /\ Entry(u).jti = t.jti
      /\ Entry(u).expiry = ExpiresAt(u)
  BY <1>1, EntryTyped
<1>3. ExpiresAt(u) > lastObservedWallMs
  BY <1>2 DEF IInv, TypeOK
<1>4. Entry(u) \in cache.entries
  BY <1>3 DEF IInv, CacheMirrorsUses
<1>5. Entry(u) \in Stored(cache, t)
  BY <1>2, <1>4, AllVisible DEF IInv, Stored
<1>6. QED
  BY <1>2, <1>5 DEF IsReplay

\* Only the accepting step of a request answers it with "accepted".
LEMMA OnlyAcceptAccepts ==
    ASSUME TypeOK, [Next]_vars, NEW r \in Requests, Accepting(r)
    PROVE  Accept(r)
<1> USE DEF Accepting
<1>1. requests \in [Requests -> RequestStates]
  BY DEF TypeOK
<1>2. ASSUME NEW q \in Requests, NEW t \in Tokens, NEW m \in Methods, Present(q, t, m)
      PROVE  FALSE
  BY <1>1, <1>2 DEF Present, Ask
<1>3. ASSUME NEW q \in Requests, NEW p \in Outcomes, p # "accepted", Answer(q, p)
      PROVE  FALSE
  <2>1. requests' = [requests EXCEPT ![q].phase = p]
    BY <1>3 DEF Answer
  <2>2. CASE q = r
    <3>1. requests'[r] = [requests[r] EXCEPT !.phase = p]
      BY <1>1, <2>1, <2>2
    <3>2. requests[r] \in [phase : {"verifying"} \cup Outcomes, token : Tokens, method : Methods]
      BY <1>1 DEF RequestStates, Idle
    <3>3. requests'[r].phase = p
      BY <3>1, <3>2
    <3>4. QED
      BY <1>3, <3>3
  <2>3. CASE q # r
    BY <1>1, <2>1, <2>3
  <2>4. QED
    BY <2>2, <2>3
<1>4. ASSUME NEW q \in Requests, q # r, Accept(q)
      PROVE  FALSE
  BY <1>1, <1>4 DEF Accept, Answer
<1>5. ASSUME NEW q \in Requests,
             \/ VerifyFails(q)
             \/ RejectClaims(q)
             \/ RejectExpired(q)
             \/ RejectReplay(q)
             \/ RejectIssuerFull(q)
             \/ RejectCacheFull(q)
      PROVE  FALSE
  <2>1. \E p \in Outcomes : p # "accepted" /\ Answer(q, p)
    BY <1>5 DEF VerifyFails, RejectClaims, RejectExpired, RejectReplay,
                RejectIssuerFull, RejectCacheFull, Outcomes
  <2>2. QED
    BY <1>3, <2>1
<1>6. ~ ClockMoves
  BY DEF ClockMoves
<1>7. ~ Restart
  BY DEF Restart, Idle
<1>8. ~ UNCHANGED vars
  BY DEF vars
<1>9. QED
  BY <1>2, <1>4, <1>5, <1>6, <1>7, <1>8 DEF Next, Consume

\* No signed token is accepted twice in the life of the process, whatever the
\* wall clock does and whatever was purged in between.
THEOREM OneUse == Spec => AcceptedOnce
<1>1. IInv /\ [Next]_vars =>
        [\A r \in Requests : Accepting(r) => requests[r].token \notin used]_vars
  <2> SUFFICES ASSUME IInv, [Next]_vars, NEW r \in Requests, Accepting(r),
                      requests[r].token \in used
               PROVE  FALSE
    OBVIOUS
  <2> DEFINE t == requests[r].token
  <2>1. TypeOK
    BY DEF IInv
  <2>2. Accept(r)
    BY <2>1, OnlyAcceptAccepts
  <2>3. ObservedTime \in Nat /\ ObservedTime >= lastObservedWallMs
    BY <2>1, ObservedTimeForward
  <2>4. ExpiresAt(t) > ObservedTime /\ ~ IsReplay(cache, t, ObservedTime)
    BY <2>2 DEF Accept, Fresh, TokenIsLive
  <2>5. t \in Tokens
    BY <2>1 DEF TypeOK
  <2>6. IsReplay(cache, t, ObservedTime)
    BY <2>3, <2>4, <2>5, LiveUseIsReplay
  <2>7. QED
    BY <2>4, <2>6
<1>2. QED
  BY <1>1, Invariance, PTL DEF Spec, AcceptedOnce

-----------------------------------------------------------------------------
(* The protector implements the promise of TokenUse. *)

\* There are at least as many accepted tokens as entries that stand for them.
LEMMA EntriesCountUses ==
    ASSUME IInv, NEW S \in SUBSET cache.entries, NEW U \in SUBSET used,
           \A u \in used : Entry(u) \in S => u \in U
    PROVE  /\ Cardinality(S) \in Nat
           /\ Cardinality(U) \in Nat
           /\ Cardinality(S) <= Cardinality(U)
<1> DEFINE f == [e \in S |-> CHOOSE u \in used : e = Entry(u)]
<1>1. \A e \in S : f[e] \in used /\ e = Entry(f[e])
  BY DEF IInv, CacheMirrorsUses
<1>2. f \in Injection(S, U)
  <2>1. f \in [S -> U]
    BY <1>1
  <2>2. \A a, b \in S : f[a] = f[b] => a = b
    BY <1>1
  <2>3. QED
    BY <2>1, <2>2 DEF Injection, IsInjective
<1>3. IsFiniteSet(U)
  BY FS_Subset DEF IInv
<1>4. IsFiniteSet(S) /\ Cardinality(S) <= Cardinality(U)
  BY <1>2, <1>3, FS_Injection
<1>5. QED
  BY <1>3, <1>4, FS_CardinalityType

\* The expiry an entry records is the one its token has.
LEMMA ExpiryOfUse ==
    ASSUME IInv, NEW u \in used
    PROVE  /\ Entry(u).expiry = ExpiresAt(u)
           /\ Entry(u).issuer = u.issuer
           /\ Entry(u).jti = u.jti
           /\ ExpiresAt(u) \in Nat
BY EntryTyped DEF IInv, TypeOK

\* The promise counts sets the way the protector does.
LEMMA SameCardinality == \A S : Promise!Cardinality(S) = Cardinality(S)
BY DEF Cardinality, Promise!Cardinality

\* Every outcome of consume is one the promise allows.
LEMMA ConsumeImplements ==
    ASSUME IInv, NEW r \in Requests, Consume(r)
    PROVE  Promise!Judge(r)
<1> DEFINE t == requests[r].token
           now == ObservedTime
           a == AfterIssuerCheck(t, now)
           b == AfterCacheCheck(t, now)
<1>1. TypeOK /\ Consuming(r)
  BY DEF IInv, Consume, RejectExpired, RejectReplay, RejectIssuerFull, RejectCacheFull, Accept
<1>2. /\ requests[r].phase = "verifying"
      /\ t.lxm = requests[r].method
      /\ lastObservedWallMs' = now
  BY <1>1 DEF Consuming, WellFormed
<1>3. now \in Nat /\ now >= lastObservedWallMs
  BY <1>1, ObservedTimeForward
<1>4. t \in Tokens /\ ExpiresAt(t) \in Nat
  BY <1>1, <1>2, VerifyingTyped, EntryTyped
<1>5. \A u : Promise!ExpiresAt(u) = ExpiresAt(u)
  BY DEF ExpiresAt, Promise!ExpiresAt
<1>6. \A p : Answer(r, p) => Promise!Answer(r, p)
  BY DEF Answer, Promise!Answer
<1>7. CASE RejectExpired(r)
  <2>1. ExpiresAt(t) <= now
    BY <1>3, <1>4, <1>7 DEF RejectExpired, TokenIsLive
  <2>2. QED
    BY <1>2, <1>3, <1>5, <1>6, <1>7, <2>1 DEF RejectExpired, Promise!Judge
<1>8. CASE RejectReplay(r)
  <2>1. PICK e \in Stored(cache, t) : e.expiry > now
    BY <1>8 DEF RejectReplay, IsReplay
  <2>2. e \in cache.entries /\ e.issuer = t.issuer /\ e.jti = t.jti
    BY AllVisible DEF IInv, Stored
  <2>3. PICK u \in used : e = Entry(u)
    BY <2>2 DEF IInv, CacheMirrorsUses
  <2>4. u.issuer = t.issuer /\ u.jti = t.jti /\ ExpiresAt(u) > now
    BY <2>1, <2>2, <2>3, ExpiryOfUse
  <2>5. \E v \in Promise!InUse(now) : Promise!SamePair(t, v)
    BY <1>5, <2>4 DEF Promise!InUse, Promise!SamePair
  <2>6. QED
    BY <1>2, <1>3, <1>6, <1>8, <2>5 DEF RejectReplay, Promise!Judge
<1>9. CASE RejectIssuerFull(r)
  <2> DEFINE S == {e \in a.entries : e.issuer = t.issuer}
             U == Promise!InUseBy(t.issuer, now)
  <2>1. Fresh(r) /\ IssuerIsFull(a, t.issuer)
    BY <1>9 DEF RejectIssuerFull
  <2>2. /\ Trimmed(cache, a, now)
        /\ \A e \in S : e.expiry > now
    BY <1>1, <2>1, ChecksTrim
  <2>3. U = {u \in used : ExpiresAt(u) > now /\ u.issuer = t.issuer}
    BY <1>5 DEF Promise!InUseBy, Promise!InUse
  <2>4. \A u \in used : Entry(u) \in S => u \in U
    BY <2>2, <2>3, ExpiryOfUse
  <2>5. S \in SUBSET cache.entries
    BY <2>2 DEF Trimmed
  <2>6. /\ Cardinality(S) \in Nat
        /\ Cardinality(U) \in Nat
        /\ Cardinality(S) <= Cardinality(U)
    BY <2>3, <2>4, <2>5, EntriesCountUses
  <2>7. S = IssuerEntries(a, t.issuer)
    BY <2>2, AllVisible DEF Trimmed
  <2>8. Cardinality(S) >= MaxPerIssuer
    BY <2>1, <2>7 DEF IssuerIsFull
  <2>9. Cardinality(U) >= MaxPerIssuer
    BY <2>6, <2>8, LimitsAssumption
  <2>10. Promise!Answer(r, "IssuerFull") /\ UNCHANGED used
    BY <1>6, <1>9 DEF RejectIssuerFull
  <2>11. QED
    BY <1>2, <1>3, <2>9, <2>10, SameCardinality DEF Promise!Judge
<1>10. CASE RejectCacheFull(r)
  <2> DEFINE S == b.entries
             U == Promise!InUse(now)
  <2>1. Fresh(r) /\ CacheIsFull(b)
    BY <1>10 DEF RejectCacheFull
  <2>2. /\ Trimmed(cache, b, now)
        /\ \A e \in S : e.expiry > now
    BY <1>1, <2>1, ChecksTrim
  <2>3. U = {u \in used : ExpiresAt(u) > now}
    BY <1>5 DEF Promise!InUse
  <2>4. \A u \in used : Entry(u) \in S => u \in U
    BY <2>2, <2>3, ExpiryOfUse
  <2>5. S \in SUBSET cache.entries
    BY <2>2 DEF Trimmed
  <2>6. /\ Cardinality(S) \in Nat
        /\ Cardinality(U) \in Nat
        /\ Cardinality(S) <= Cardinality(U)
    BY <2>3, <2>4, <2>5, EntriesCountUses
  <2>7. Cardinality(S) >= MaxEntries
    BY <2>1, <2>2 DEF CacheIsFull, Trimmed, WellKept
  <2>8. Cardinality(U) >= MaxEntries
    BY <2>6, <2>7, LimitsAssumption
  <2>9. Promise!Answer(r, "CacheFull") /\ UNCHANGED used
    BY <1>6, <1>10 DEF RejectCacheFull
  <2>10. QED
    BY <1>2, <1>3, <2>8, <2>9, SameCardinality DEF Promise!Judge
<1>11. CASE Accept(r)
  <2>1. ExpiresAt(t) > now /\ ~ IsReplay(cache, t, now)
    BY <1>11 DEF Accept, Fresh, TokenIsLive
  <2>2. ~ \E u \in Promise!InUse(now) : Promise!SamePair(t, u)
    BY <1>3, <1>4, <1>5, <2>1, LiveUseIsReplay DEF Promise!InUse, Promise!SamePair
  <2>3. QED
    BY <1>2, <1>3, <1>5, <1>6, <1>11, <2>1, <2>2 DEF Accept, Promise!Judge
<1>12. QED
  BY <1>7, <1>8, <1>9, <1>10, <1>11 DEF Consume

\* Every behaviour of the bounded, lazily purged cache is one of a service that
\* remembers every token it accepted: tokens are granted, and refused for each
\* of the causes, exactly when the promise says so.
THEOREM Refinement == Spec => ImplementsTokenUse
<1>1. Init => Promise!Init
  BY DEF Init, Promise!Init, Idle, Promise!Idle
<1>2. IInv /\ [Next]_vars => [Promise!Next]_(Promise!vars)
  <2> SUFFICES ASSUME IInv, [Next]_vars PROVE [Promise!Next]_(Promise!vars)
    OBVIOUS
  <2>1. ASSUME NEW r \in Requests, NEW t \in Tokens, NEW m \in Methods, Present(r, t, m)
        PROVE  Promise!Next
    BY <2>1 DEF Present, Ask, Promise!Next, Promise!Present, Promise!Ask
  <2>2. ASSUME NEW r \in Requests, VerifyFails(r) \/ RejectClaims(r)
        PROVE  Promise!Next
    BY <2>2 DEF VerifyFails, RejectClaims, Answer, Promise!Next, Promise!Deny, Promise!Answer
  <2>3. ASSUME NEW r \in Requests, Consume(r)
        PROVE  Promise!Next
    BY <2>3, ConsumeImplements DEF Promise!Next
  <2>4. CASE ClockMoves
    BY <2>4 DEF ClockMoves, Promise!vars
  <2>5. CASE Restart
    BY <2>5 DEF Restart, Idle, Promise!Next, Promise!Restart, Promise!Idle
  <2>6. CASE UNCHANGED vars
    BY <2>6 DEF vars, Promise!vars
  <2>7. QED
    BY <2>1, <2>2, <2>3, <2>4, <2>5, <2>6 DEF Next
<1>3. QED
  BY <1>1, <1>2, Invariance, PTL DEF Spec, Promise!Spec, ImplementsTokenUse

=============================================================================
