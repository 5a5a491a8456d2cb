--------------------------- MODULE SlidingWindow ---------------------------
(***************************************************************************)
(* What the rate limiter promises, without its storage: a client is        *)
(* admitted MaxRequests times in any Window, at most MaxClients clients    *)
(* are remembered, and a refusal says how long to wait.                    *)
(***************************************************************************)
EXTENDS Integers, Sequences, FiniteSets, SequencesExt, FiniteSetsExt

CONSTANTS Clients,      \* resolved identities
          Window,       \* window_ms
          MaxRequests,  \* admissions of one client in a window
          MaxClients,   \* clients remembered at a time
          Second,       \* clock units in the second of Retry-After
          MaxTime       \* bound: the clock stops here

VARIABLES now,      \* the monotonic clock
          recent,   \* per client, its last MaxRequests admissions, oldest first
          verdict   \* the last answer: allowed, 429 or 503, and the wait

vars == <<now, recent, verdict>>

NoVerdict == [status |-> "none"]

Allowed(c) == [status |-> "allowed", client |-> c, at |-> now]

\* Rounded up to whole seconds, and never zero.
Refused(status, c, available) ==
    [status |-> status, client |-> c, at |-> now,
     wait |-> Max({1, (available - now + Second - 1) \div Second})]

\* The admissions of a client that count, and the clients that have any.
Counted(c) == {i \in DOMAIN recent[c] : recent[c][i] > now - Window}
Active == {c \in Clients : Counted(c) # {}}

ExpiresAt(c) == Last(recent[c]) + Window

Init == now = 0 /\ recent = [c \in Clients |-> <<>>] /\ verdict = NoVerdict

Tick ==
    /\ now < MaxTime
    /\ now' = now + 1
    /\ UNCHANGED <<recent, verdict>>

Admit(c) ==
    /\ c \in Active \/ Cardinality(Active) < MaxClients
    /\ Cardinality(Counted(c)) < MaxRequests
    /\ recent' = [recent EXCEPT ![c] =
                    Append(IF Len(@) = MaxRequests THEN Tail(@) ELSE @, now)]
    /\ verdict' = Allowed(c)
    /\ UNCHANGED now

TooManyRequests(c) ==
    /\ Cardinality(Counted(c)) = MaxRequests
    /\ verdict' = Refused("429", c, Head(recent[c]) + Window)
    /\ UNCHANGED <<now, recent>>

TableFull(c) ==
    /\ c \notin Active /\ Cardinality(Active) = MaxClients
    /\ verdict' = Refused("503", c, Min({ExpiresAt(a) : a \in Active}))
    /\ UNCHANGED <<now, recent>>

Next == Tick \/ \E c \in Clients : Admit(c) \/ TooManyRequests(c) \/ TableFull(c)

Spec == Init /\ [][Next]_vars

=============================================================================
