----------------------------- MODULE RateLimiter -----------------------------
(***************************************************************************)
(* internal/web/ratelimit.go: one token bucket per client address, and the *)
(* goroutine that forgets idle clients.  Time advances in ticks.  Tokens   *)
(* are counted in units: a request costs Cost units and a tick refills     *)
(* Rate units, which stands for the code's float64 arithmetic without its  *)
(* rounding.  rl.mu makes each method one step.  Definitions with an       *)
(* underscore are faulty variants (see Process).                           *)
(***************************************************************************)
EXTENDS Integers

CONSTANTS
    Clients,    \* addresses
    Rate,       \* units refilled per tick
    Cost,       \* units a request costs
    Burst,      \* rl.burst, in units
    Second,     \* ticks per second
    Interval,   \* period of cleanup, in ticks
    Horizon     \* bound: the clock stops here

(* NewRateLimiter is called with burst = 2 * rps, rps >= 1 and a cleanup period of
   five minutes, so that an idle client's bucket is full long before it is dropped. *)
ASSUME RateAssumption ==
    /\ Rate \in Nat /\ Cost \in Nat \ {0} /\ Burst \in Nat
    /\ Second \in Nat /\ Interval \in Nat /\ Horizon \in Nat
    /\ Cost <= Burst
    /\ Cost <= Rate * Second
    /\ Burst <= Rate * Interval

VARIABLES
    now,        \* time.Now()
    buckets,    \* addresses with an entry in rl.buckets
    tokens,     \* bucket.tokens
    lastTime,   \* bucket.lastTime
    ticker,     \* when cleanup's ticker fires next
    stopped,    \* rl.stop is closed
    since,      \* auxiliary: when the observed window began
    allowed     \* auxiliary: requests let through since then

vars == <<now, buckets, tokens, lastTime, ticker, stopped, since, allowed>>

TypeOK ==
    /\ now \in Nat
    /\ buckets \in SUBSET Clients
    /\ tokens \in [Clients -> 0 .. Burst]
    /\ lastTime \in [Clients -> 0 .. now]
    /\ ticker \in Nat
    /\ stopped \in BOOLEAN
    /\ since \in 0 .. now
    /\ allowed \in [Clients -> Nat]

-----------------------------------------------------------------------------
(* NewRateLimiter *)
Init ==
    /\ now = 0
    /\ buckets = {}
    /\ tokens = [c \in Clients |-> 0]
    /\ lastTime = [c \in Clients |-> 0]
    /\ ticker = Interval
    /\ stopped = FALSE
    /\ since = 0
    /\ allowed = [c \in Clients |-> 0]

(* variant: no refill *)
Refilled_None(c) == tokens[c]

(* tokens after the time since the last request is credited *)
Refilled(c) ==
    LET t == tokens[c] + Rate * (now - lastTime[c])
    IN IF t > Burst THEN Burst ELSE t

Touch(c, left) ==
    /\ buckets' = buckets \cup {c}
    /\ tokens' = [tokens EXCEPT ![c] = left]
    /\ lastTime' = [lastTime EXCEPT ![c] = now]
    /\ UNCHANGED <<now, ticker, stopped, since>>

(* Allow for a client without a bucket *)
AllowNew(c) ==
    /\ c \notin buckets
    /\ Touch(c, Burst - Cost)
    /\ allowed' = [allowed EXCEPT ![c] = @ + 1]

(* Allow for a client with a token to spend *)
Allow(c) ==
    /\ c \in buckets /\ Refilled(c) >= Cost
    /\ Touch(c, Refilled(c) - Cost)
    /\ allowed' = [allowed EXCEPT ![c] = @ + 1]

(* Allow returns false, and Middleware answers 429 with Retry-After: 1 *)
Refuse(c) ==
    /\ c \in buckets /\ Refilled(c) < Cost
    /\ Touch(c, Refilled(c))
    /\ UNCHANGED allowed

(* variant: the whole map is dropped *)
Cleanup_All ==
    /\ ~stopped /\ now >= ticker
    /\ ticker' = ticker + Interval
    /\ buckets' = {}
    /\ UNCHANGED <<now, tokens, lastTime, stopped, since, allowed>>

(* one tick of the cleanup goroutine *)
Cleanup ==
    /\ ~stopped /\ now >= ticker
    /\ ticker' = ticker + Interval
    /\ buckets' = {c \in buckets : now - lastTime[c] <= Interval}
    /\ UNCHANGED <<now, tokens, lastTime, stopped, since, allowed>>

(* Stop; a second call changes nothing *)
Stop ==
    /\ ~stopped
    /\ stopped' = TRUE
    /\ UNCHANGED <<now, buckets, tokens, lastTime, ticker, since, allowed>>

Tick ==
    /\ now < Horizon
    /\ now' = now + 1
    /\ UNCHANGED <<buckets, tokens, lastTime, ticker, stopped, since, allowed>>

(* auxiliary: a new window is observed from here on *)
Observe ==
    /\ since' = now
    /\ allowed' = [c \in Clients |-> 0]
    /\ UNCHANGED <<now, buckets, tokens, lastTime, ticker, stopped>>

Next ==
    \/ \E c \in Clients : AllowNew(c) \/ Allow(c) \/ Refuse(c)
    \/ Cleanup
    \/ Stop
    \/ Tick
    \/ Observe

Spec == Init /\ [][Next]_vars

-----------------------------------------------------------------------------
(* Properties *)

(* In every window of time a client gets at most one burst and what the rate
   refills, also across the cleanups that forget it and give it a new bucket. *)
RateBound == \A c \in Clients : Cost * allowed[c] <= Burst + Rate * (now - since)

(* Retry-After: 1 is honest: a client that stayed away for the second it was told to
   is not refused. *)
RetryAfter == [][\A c \in Clients : Refuse(c) => now - lastTime[c] < Second]_vars

(* the inductive form of RateBound: what a client has used and what it has left
   grow with the clock of its bucket; a forgotten client has used no more than the
   rate alone allows *)
Used(c) == Cost * allowed[c]

Budget ==
    \A c \in Clients :
        /\ c \in buckets /\ lastTime[c] >= since =>
              Used(c) + tokens[c] <= Burst + Rate * (lastTime[c] - since)
        /\ c \in buckets /\ lastTime[c] < since => allowed[c] = 0
        /\ c \notin buckets => Used(c) <= Rate * (now - since)
=============================================================================
