---------------------------- MODULE RateLimiter ----------------------------
(***************************************************************************)
(* RateLimiter.admit: an ordered table of clients, each with a ring of     *)
(* timestamps.  admit holds a lock and reads the clock inside it, so one   *)
(* call is one step.  The key of a client, a digest of its identity,       *)
(* stands for the identity.                                                *)
(***************************************************************************)
EXTENDS Integers, Sequences, FiniteSets, SequencesExt, FiniteSetsExt

CONSTANTS Clients,      \* resolved identities
          Window,       \* window_ms
          MaxRequests,  \* admissions of one client in a window
          MaxClients,   \* clients remembered at a time
          Second,       \* clock units in the second of Retry-After
          MaxTime       \* bound: the clock stops here

ASSUME PolicyAssumption ==
    /\ Window \in Nat \ {0} /\ MaxRequests \in Nat \ {0}
    /\ MaxClients \in Nat \ {0} /\ Second \in Nat \ {0} /\ MaxTime \in Nat
    /\ IsFiniteSet(Clients)

VARIABLES now,      \* monotonic clock
          clients,  \* _clients: the keys in the order of the OrderedDict
          state,    \* RateLimitState by key
          stored,   \* _stored_requests
          verdict,  \* the last RateLimitDecision
          recent    \* history: the last MaxRequests admissions of a client

limiterVars == <<now, clients, state, stored, verdict, recent>>

Slots == 0 .. MaxRequests - 1

\* RateLimitState.new
New == [timestamps |-> [i \in Slots |-> 0], head |-> 0, count |-> 0,
        expires_at |-> 0]

LimiterInit ==
    /\ now = 0 /\ clients = <<>> /\ stored = 0
    /\ state = [c \in Clients |-> New]
    /\ verdict = [status |-> "none"]
    /\ recent = [c \in Clients |-> <<>>]

-----------------------------------------------------------------------------
\* _expire_clients stops at the first client that is still current.
Gone == Max({k \in 0 .. Len(clients) :
               \A i \in 1 .. k : state[clients[i]].expires_at <= now})
Kept == SubSeq(clients, Gone + 1, Len(clients))

\* The timestamps in the rings of some clients, each by its place.
Held(C) == {p \in C \X Slots : p[2] < state[p[1]].count}

\* Variant: the deleted entries stay counted.
StoredAfterExpiryUncounted == stored

\* _stored_requests once the lapsed clients are deleted.
StoredAfterExpiry == stored - Cardinality(Held(ToSet(clients) \ ToSet(Kept)))

\* The i-th oldest timestamp of a ring, from 0.
Stamp(s, i) == s.timestamps[(s.head + i) % MaxRequests]

\* Variant: a timestamp on the cutoff still counts.
StaleInclusive(t) == t < now - Window

Stale(t) == t <= now - Window

\* Drop the timestamps at the head of the ring that left the window.
Trim(s) ==
    LET k == Max({n \in 0 .. s.count :
                    \A i \in 0 .. n - 1 : Stale(Stamp(s, i))})
    IN  [s EXCEPT !.head = (@ + k) % MaxRequests, !.count = @ - k]

\* The entry admit works on, with what it still holds.
Entry(c) == IF c \in ToSet(Kept) THEN Trim(state[c]) ELSE New

\* Variant: the limit is noticed one request late.
FullLate(s) == s.count > MaxRequests

Full(s) == s.count = MaxRequests

\* Variant: the seconds are rounded down.
RejectRoundsDown(status, c, available) ==
    [status |-> status, client |-> c, at |-> now,
     wait |-> Max({1, (available - now) \div Second})]

\* _reject: whole seconds, rounded up and at least one.
Reject(status, c, available) ==
    [status |-> status, client |-> c, at |-> now,
     wait |-> Max({1, (available - now + Second - 1) \div Second})]

\* Variant: an admission keeps its place in the table.
MoveToEndForgotten(c) == IF c \in ToSet(Kept) THEN Kept ELSE Append(Kept, c)

\* _clients[key] = client, then move_to_end.
MoveToEnd(c) == Append(RemoveFirst(Kept, c), c)

\* The table after the deletions, with c's entry set to s.
Store(c, s) ==
    state' = [x \in Clients |-> IF x = c THEN s
                                ELSE IF x \in ToSet(Kept) THEN state[x] ELSE New]

-----------------------------------------------------------------------------
Tick ==
    /\ now < MaxTime
    /\ now' = now + 1
    /\ UNCHANGED <<clients, state, stored, verdict, recent>>

Admit(c) ==
    LET s == Entry(c)
        dropped == IF c \in ToSet(Kept) THEN state[c].count - s.count ELSE 0
        tail == (s.head + s.count) % MaxRequests
    IN  /\ c \in ToSet(Kept) \/ Len(Kept) < MaxClients
        /\ ~Full(s)
        /\ Store(c, [timestamps |-> [s.timestamps EXCEPT ![tail] = now],
                     head |-> s.head, count |-> s.count + 1,
                     expires_at |-> now + Window])
        /\ clients' = MoveToEnd(c)
        /\ stored' = StoredAfterExpiry - dropped + 1
        /\ verdict' = [status |-> "allowed", client |-> c, at |-> now]
        /\ recent' = [recent EXCEPT ![c] =
                        Append(IF Len(@) = MaxRequests THEN Tail(@) ELSE @, now)]
        /\ UNCHANGED now

TooManyRequests(c) ==
    /\ c \in ToSet(Kept) /\ Full(Entry(c))
    /\ Store(c, Entry(c))
    /\ clients' = Kept
    /\ stored' = StoredAfterExpiry - (state[c].count - Entry(c).count)
    /\ verdict' = Reject("429", c, Stamp(Entry(c), 0) + Window)
    /\ UNCHANGED <<now, recent>>

TableFull(c) ==
    /\ c \notin ToSet(Kept) /\ Len(Kept) >= MaxClients
    /\ Store(c, New)
    /\ clients' = Kept
    /\ stored' = StoredAfterExpiry
    /\ verdict' = Reject("503", c, state[Head(Kept)].expires_at)
    /\ UNCHANGED <<now, recent>>

LimiterNext == Tick \/ \E c \in Clients : Admit(c) \/ TooManyRequests(c) \/ TableFull(c)

LimiterSpec == LimiterInit /\ [][LimiterNext]_limiterVars

-----------------------------------------------------------------------------
(* Properties.                                                             *)

LimiterTypeOK ==
    /\ now \in 0 .. MaxTime
    /\ clients \in Seq(Clients) /\ IsInjective(clients)
    /\ state \in [Clients -> [timestamps : [Slots -> 0 .. MaxTime], head : Slots,
                              count : 0 .. MaxRequests,
                              expires_at : 0 .. MaxTime + Window]]
    /\ stored \in Nat
    /\ recent \in [Clients -> Seq(0 .. MaxTime)]

\* "Equal windows and a monotonic clock order clients by next expiry": the
\* table stays sorted although clients come back, are refused and leave, so
\* _expire_clients may stop at the first current one (rate_limiter.py 88-103).
OrderedByExpiry ==
    \A i, j \in DOMAIN clients :
        i < j => state[clients[i]].expires_at <= state[clients[j]].expires_at

\* _stored_requests, which usage reports, is the number of stored timestamps
\* and stays within the slots of the remembered clients.
StoredIsCounted ==
    /\ stored = Cardinality(Held(ToSet(clients)))
    /\ stored <= Len(clients) * MaxRequests /\ Len(clients) <= MaxClients

\* The exact rolling window: a client's admission and the one MaxRequests
\* before it are a Window apart, across wraps of the ring and across the loss
\* and the return of its entry.
QuotaHolds ==
    [][\A c \in Clients :
          recent'[c] # recent[c] /\ Len(recent[c]) = MaxRequests
              => now - Head(recent[c]) >= Window]_limiterVars

\* The places of a ring whose timestamp is in the window at time t.
InWindow(s, t) == {i \in 0 .. s.count - 1 : Stamp(s, i) > t - Window}

\* At time t the client of a 429 has a free slot, or the table that gave a 503
\* has lost a client.
Free(t) ==
    IF verdict.status = "429"
    THEN Cardinality(InWindow(state[verdict.client], t)) < MaxRequests
    ELSE \E c \in ToSet(clients) : InWindow(state[c], t) = {}

\* Retry-After is enough and not a second too much: there is room after it, and
\* not yet a second before.
RetryAfterIsTight ==
    verdict.status \in {"429", "503"} /\ verdict.at = now =>
        LET late == verdict.at + verdict.wait * Second
        IN  Free(late) /\ (verdict.wait > 1 => ~Free(late - Second))

\* What the limiter promises its clients and its own bookkeeping relies on,
\* over wraps of the ring, lapsed and returning clients and a full table.
LimiterIsSound ==
    /\ [](LimiterTypeOK /\ OrderedByExpiry /\ StoredIsCounted /\ RetryAfterIsTight)
    /\ QuotaHolds

\* The ring and the ordered table implement the sliding window: they admit,
\* refuse with 429 and refuse with 503 exactly when the client's own past and
\* the other clients' say so, although they have forgotten most of it, and name
\* the same wait.
Abstract == INSTANCE SlidingWindow

ImplementsSlidingWindow == Abstract!Spec

=============================================================================
