-------------------------- MODULE ConnectionLimits --------------------------
(***************************************************************************)
(* The hub's two limiters, src/signaling/internal/ws/limiter.go: a sliding *)
(* window of connection attempts per IP address, and a token bucket for    *)
(* the messages of one socket.                                             *)
(*                                                                         *)
(* The addresses are those extractIP makes of the request's headers.  A    *)
(* token is UnitsPerToken units, one of which is refilled per tick.        *)
(***************************************************************************)
EXTENDS Common, Sequences, FiniteSets

CONSTANTS IP,
          Loopback,       \* addresses that are not limited
          Limit, Window,  \* attempts per window, in ticks
          UnitsPerToken,  \* ticks in which one token is refilled
          Rate,           \* the bucket's capacity, in tokens
          MaxCalls        \* bound: calls of the limiters

VARIABLES
    attempts,   \* IPRateLimiter.attempts
    tokens,     \* PeerMessageLimiter.tokens, in units
    lastRefill,
    calls,      \* calls made
    admitted,   \* history: when each address was let in
    refused,    \* history: when each address was refused
    passed      \* history: when messages passed

limitVars == <<attempts, tokens, lastRefill, calls, admitted, refused, passed>>

ASSUME LimitAssumption ==
    /\ Loopback \subseteq IP
    /\ Limit \in Nat /\ Window \in Nat
    /\ UnitsPerToken \in Nat \ {0} /\ Rate \in Nat \ {0}

Capacity == Rate * UnitsPerToken

LimitsInit ==
    /\ attempts = [ip \in IP |-> <<>>]
    /\ tokens = Capacity
    /\ lastRefill = now
    /\ calls = 0
    /\ admitted = [ip \in IP |-> <<>>]
    /\ refused = [ip \in IP |-> {}]
    /\ passed = <<>>

\* Mutant of Valid: the cutoff is a tick early.
ValidTooShort(timestamps) == SelectSeq(timestamps, LAMBDA t : t + Window > now + 1)

\* Timestamps after the cutoff, from the loop over them.
Valid(timestamps) ==
    LET valid[i \in 0..Len(timestamps)] ==
            IF i = 0 THEN <<>>
            ELSE IF timestamps[i] + Window > now THEN Append(valid[i - 1], timestamps[i])
            ELSE valid[i - 1] IN
    valid[Len(timestamps)]

\* IPRateLimiter.Allow.
AllowConnection(ip) ==
    /\ calls < MaxCalls
    /\ calls' = calls + 1
    /\ LET valid == Valid(attempts[ip]) IN
       \/ /\ ip \in Loopback
          /\ UNCHANGED <<attempts, admitted, refused>>
       \/ /\ ip \notin Loopback
          /\ Len(valid) >= Limit
          /\ attempts' = [attempts EXCEPT ![ip] = valid]
          /\ refused' = [refused EXCEPT ![ip] = @ \cup {now}]
          /\ UNCHANGED admitted
       \/ /\ ip \notin Loopback
          /\ Len(valid) < Limit
          /\ attempts' = [attempts EXCEPT ![ip] = Append(valid, now)]
          /\ admitted' = [admitted EXCEPT ![ip] = Append(@, now)]
          /\ UNCHANGED refused
    /\ UNCHANGED <<tokens, lastRefill, passed, now>>

AtMost(a, b) == IF a <= b THEN a ELSE b

\* PeerMessageLimiter.Allow; the refill happens whether the message passes.
AllowMessage ==
    /\ calls < MaxCalls
    /\ calls' = calls + 1
    /\ lastRefill' = now
    /\ LET filled == AtMost(tokens + (now - lastRefill), Capacity) IN
       IF filled >= UnitsPerToken
       THEN tokens' = filled - UnitsPerToken /\ passed' = Append(passed, now)
       ELSE tokens' = filled /\ UNCHANGED passed
    /\ UNCHANGED <<attempts, admitted, refused, now>>

LimitsNext ==
    \/ \E ip \in IP : AllowConnection(ip)
    \/ AllowMessage
    \/ Tick /\ UNCHANGED limitVars

LimitsSpec == now = 0 /\ LimitsInit /\ [][LimitsNext]_<<limitVars, now>>

-----------------------------------------------------------------------------

Within(times, from, to) ==
    Cardinality({i \in DOMAIN times : from <= times[i] /\ times[i] <= to})

\* In no window of the configured length, wherever it starts, does an address
\* get more than Limit connections; and it is refused only while that many are
\* in the window, so refusals themselves never prolong a refusal.
WindowHolds ==
    \A ip \in IP :
        /\ \A t \in 0..now : Within(admitted[ip], t, t + Window - 1) <= Limit
        /\ \A t \in refused[ip] : Within(admitted[ip], t + 1 - Window, t) = Limit

\* From any message that passed to any later one, no more pass than a full
\* bucket and what was refilled in between allow.
BucketHolds ==
    \A i, j \in DOMAIN passed :
        i <= j => (j - i + 1) * UnitsPerToken <= Capacity + (passed[j] - passed[i])

LimitsHold == WindowHolds /\ BucketHolds
=============================================================================
