-------------------------- MODULE RateLimiterProofs --------------------------
(***************************************************************************)
(* The rate limiter keeps its promise for any number of clients, any rate, *)
(* burst and cleanup period that satisfy RateAssumption, and any window.   *)
(***************************************************************************)
EXTENDS RateLimiter, TLAPS

(* Products with the rate, so that no proof below multiplies by itself. *)
LEMMA Credit ==
    ASSUME NEW r \in Nat, NEW a \in Int, NEW b \in Int, NEW c \in Int
    PROVE  /\ r * (a - b) \in Int
           /\ a >= b => r * (a - b) \in Nat
           /\ r * (a - c) = r * (a - b) + r * (b - c)
           /\ r * (a + 1 - b) = r * (a - b) + r
           /\ r * (a - a) = 0
           /\ b >= c => r * (a - b) <= r * (a - c)
<1>1. r * (a - b) \in Int OBVIOUS
<1>2. a >= b => r * (a - b) \in Nat OBVIOUS
<1>3. r * (a - c) = r * (a - b) + r * (b - c) OBVIOUS
<1>4. r * (a + 1 - b) = r * (a - b) + r OBVIOUS
<1>5. r * (a - a) = 0 OBVIOUS
<1>6. b >= c => r * (b - c) \in Nat OBVIOUS
<1>7. QED BY <1>1, <1>2, <1>3, <1>4, <1>5, <1>6

(* One more request costs Cost units more. *)
LEMMA OneMore ==
    ASSUME NEW n \in Nat
    PROVE  Cost * n \in Nat /\ Cost * (n + 1) = Cost * n + Cost /\ Cost * 0 = 0
BY RateAssumption

-----------------------------------------------------------------------------
Inv == TypeOK /\ Budget

USE DEF Used

LEMMA InitInv == Init => Inv
<1> SUFFICES ASSUME Init PROVE Inv OBVIOUS
<1>1. TypeOK
  <2>1. now \in Nat /\ ticker \in Nat /\ since \in 0 .. now BY RateAssumption DEF Init
  <2>2. buckets \in SUBSET Clients /\ stopped \in BOOLEAN BY DEF Init
  <2>3. /\ tokens \in [Clients -> 0 .. Burst]
        /\ lastTime \in [Clients -> 0 .. now]
        /\ allowed \in [Clients -> Nat]
    <3>1. 0 \in 0 .. Burst /\ 0 \in 0 .. 0 BY RateAssumption
    <3>2. QED BY <3>1 DEF Init
  <2>4. QED BY <2>1, <2>2, <2>3 DEF TypeOK
<1>2. Budget
  <2>1. Cost * 0 = 0 /\ Rate * (0 - 0) = 0 BY OneMore, Credit, RateAssumption
  <2>2. ASSUME NEW c \in Clients
        PROVE  allowed[c] = 0 /\ c \notin buckets /\ now = 0 /\ since = 0
    BY DEF Init
  <2>3. ASSUME NEW c \in Clients PROVE c \notin buckets /\ Used(c) <= Rate * (now - since)
    <3>1. Used(c) = 0 /\ Rate * (now - since) = 0 BY <2>1, <2>2
    <3>2. QED BY <2>2, <3>1
  <2>4. QED BY <2>3 DEF Budget
<1>3. QED BY <1>1, <1>2 DEF Inv

(* Crediting the elapsed time leaves between nothing and a burst, and never more
   than the elapsed time is worth. *)
LEMMA RefilledBounds ==
    ASSUME TypeOK, NEW c \in Clients
    PROVE  /\ Refilled(c) \in 0 .. Burst
           /\ Refilled(c) <= tokens[c] + Rate * (now - lastTime[c])
           /\ Refilled(c) < Burst => Refilled(c) = tokens[c] + Rate * (now - lastTime[c])
<1>1. /\ now \in Nat /\ lastTime[c] \in Nat /\ lastTime[c] <= now
      /\ tokens[c] \in Nat /\ tokens[c] <= Burst
  BY DEF TypeOK
<1>2. Rate * (now - lastTime[c]) \in Nat
  BY <1>1, Credit, RateAssumption
<1>3. QED
  BY <1>1, <1>2, RateAssumption DEF Refilled

(* A step that touches one client's bucket keeps the types. *)
LEMMA TouchType ==
    ASSUME TypeOK, NEW c \in Clients, NEW STATE left, left \in 0 .. Burst, Touch(c, left),
           allowed' \in [Clients -> Nat]
    PROVE  TypeOK'
<1>1. stopped' \in BOOLEAN BY DEF TypeOK, Touch
<1>2. now' \in Nat /\ ticker' \in Nat /\ since' \in 0 .. now' BY DEF TypeOK, Touch
<1>3. buckets' \in SUBSET Clients BY DEF TypeOK, Touch
<1>4. tokens' \in [Clients -> 0 .. Burst] BY DEF TypeOK, Touch
<1>5. lastTime' \in [Clients -> 0 .. now'] BY DEF TypeOK, Touch
<1>6. QED BY <1>1, <1>2, <1>3, <1>4, <1>5 DEF TypeOK

LEMMA StepType == TypeOK /\ [Next]_vars => TypeOK'
<1> SUFFICES ASSUME TypeOK, [Next]_vars PROVE TypeOK' OBVIOUS
<1>1. ASSUME NEW c \in Clients, AllowNew(c) PROVE TypeOK'
  <2>1. Burst - Cost \in 0 .. Burst BY RateAssumption
  <2>2. allowed' \in [Clients -> Nat] BY <1>1 DEF AllowNew, TypeOK
  <2>3. QED BY <1>1, <2>1, <2>2, TouchType DEF AllowNew
<1>2. ASSUME NEW c \in Clients, Allow(c) PROVE TypeOK'
  <2>1. Refilled(c) - Cost \in 0 .. Burst BY <1>2, RefilledBounds, RateAssumption DEF Allow
  <2>2. allowed' \in [Clients -> Nat] BY <1>2 DEF Allow, TypeOK
  <2>3. QED BY <1>2, <2>1, <2>2, TouchType DEF Allow
<1>3. ASSUME NEW c \in Clients, Refuse(c) PROVE TypeOK'
  <2>1. allowed' \in [Clients -> Nat] BY <1>3 DEF Refuse, TypeOK
  <2>2. QED BY <1>3, <2>1, RefilledBounds, TouchType DEF Refuse
<1>4. CASE Cleanup BY <1>4, RateAssumption DEF Cleanup, TypeOK
<1>5. CASE Stop BY <1>5 DEF Stop, TypeOK
<1>6. CASE Tick BY <1>6 DEF Tick, TypeOK
<1>7. CASE Observe BY <1>7 DEF Observe, TypeOK
<1>8. CASE UNCHANGED vars BY <1>8 DEF vars, TypeOK
<1>9. QED BY <1>1, <1>2, <1>3, <1>4, <1>5, <1>6, <1>7, <1>8 DEF Next

(* What a request that is let through needs: the client's use so far and the tokens it
   sees fit into a burst and the credit of the window. *)
LEMMA BeforeRequest ==
    ASSUME Inv, NEW c \in Clients
    PROVE  /\ c \in buckets => Used(c) + Refilled(c) <= Burst + Rate * (now - since)
           /\ c \notin buckets => Used(c) + Burst <= Burst + Rate * (now - since)
<1>1. /\ now \in Nat /\ since \in Nat /\ since <= now
      /\ lastTime[c] \in Nat /\ lastTime[c] <= now
      /\ tokens[c] \in Nat /\ allowed[c] \in Nat
  BY DEF Inv, TypeOK
<1>2. /\ Rate * (now - since) = Rate * (now - lastTime[c]) + Rate * (lastTime[c] - since)
      /\ Rate * (now - since) \in Nat
      /\ Rate * (now - lastTime[c]) \in Nat
      /\ Rate * (lastTime[c] - since) \in Int
  BY <1>1, Credit, RateAssumption
<1>3. Cost * allowed[c] \in Nat BY <1>1, OneMore
<1>4. ASSUME c \notin buckets PROVE Used(c) + Burst <= Burst + Rate * (now - since)
  BY <1>2, <1>3, <1>4, RateAssumption DEF Inv, Budget
<1>5. ASSUME c \in buckets PROVE Used(c) + Refilled(c) <= Burst + Rate * (now - since)
  <2>1. Refilled(c) \in 0 .. Burst /\ Refilled(c) <= tokens[c] + Rate * (now - lastTime[c])
    BY RefilledBounds DEF Inv
  <2>2. CASE lastTime[c] >= since
    <3>1. Used(c) + tokens[c] <= Burst + Rate * (lastTime[c] - since)
      BY <1>5, <2>2 DEF Inv, Budget
    <3>2. QED BY <1>1, <1>2, <1>3, <2>1, <3>1, RateAssumption
  <2>3. CASE lastTime[c] < since
    <3>1. Used(c) = 0 BY <1>5, <2>3, OneMore DEF Inv, Budget
    <3>2. QED BY <1>2, <2>1, <3>1, RateAssumption
  <2>4. QED BY <1>1, <2>2, <2>3
<1>6. QED BY <1>4, <1>5

(* Touching one client's bucket leaves the others' budgets alone. *)
LEMMA TouchBudget ==
    ASSUME Inv, NEW c \in Clients, NEW STATE left, left \in 0 .. Burst, Touch(c, left),
           allowed' \in [Clients -> Nat],
           \A d \in Clients \ {c} : allowed'[d] = allowed[d],
           Cost * allowed'[c] + left <= Burst + Rate * (now - since)
    PROVE  Budget'
<1>1. lastTime \in [Clients -> 0 .. now] /\ tokens \in [Clients -> 0 .. Burst]
  BY DEF Inv, TypeOK
<1>2. since' = since /\ now' = now BY DEF Touch
<1>3. since \in Nat /\ now \in Nat /\ since <= now BY DEF Inv, TypeOK
<1>4. ASSUME NEW d \in Clients
      PROVE  /\ d \in buckets' /\ lastTime'[d] >= since' =>
                   Used(d)' + tokens'[d] <= Burst + Rate * (lastTime'[d] - since')
             /\ d \in buckets' /\ lastTime'[d] < since' => allowed'[d] = 0
             /\ d \notin buckets' => Used(d)' <= Rate * (now' - since')
  <2>1. CASE d = c
    <3>1. d \in buckets' /\ lastTime'[d] = now /\ tokens'[d] = left
      BY <1>1, <2>1 DEF Touch
    <3>2. QED BY <1>2, <1>3, <2>1, <3>1
  <2>2. CASE d # c
    <3>1. /\ d \in buckets' <=> d \in buckets
          /\ lastTime'[d] = lastTime[d] /\ tokens'[d] = tokens[d] /\ allowed'[d] = allowed[d]
      BY <1>1, <2>2 DEF Touch
    <3>2. QED BY <1>2, <3>1 DEF Inv, Budget
  <2>3. QED BY <2>1, <2>2
<1>5. QED BY <1>4 DEF Budget

(* A bucket that has been idle for longer than the cleanup period has been credited a
   burst since, so forgetting it gives nothing away. *)
LEMMA CleanupBudget ==
    ASSUME Inv, Cleanup
    PROVE  Budget'
<1>1. ASSUME NEW c \in Clients, c \in buckets, c \notin buckets'
      PROVE  Used(c) <= Rate * (now - since)
  <2>1. /\ now \in Nat /\ since \in Nat /\ since <= now
        /\ lastTime[c] \in Nat /\ lastTime[c] <= now
        /\ tokens[c] \in Nat /\ allowed[c] \in Nat
    BY DEF Inv, TypeOK
  <2>2. now - lastTime[c] > Interval BY <1>1, <2>1, RateAssumption DEF Cleanup
  <2>3. Rate * Interval <= Rate * (now - lastTime[c])
    <3>1. Rate * ((now - lastTime[c]) - Interval) \in Nat
      BY <2>1, <2>2, Credit, RateAssumption
    <3>2. Rate * ((now - lastTime[c]) - Interval) = Rate * (now - lastTime[c]) - Rate * Interval
      BY <2>1, RateAssumption
    <3>3. Rate * (now - lastTime[c]) \in Nat /\ Rate * Interval \in Nat
      BY <2>1, RateAssumption, Credit
    <3>4. QED BY <3>1, <3>2, <3>3
  <2>4. /\ Rate * (now - since) = Rate * (now - lastTime[c]) + Rate * (lastTime[c] - since)
        /\ Rate * (now - since) \in Nat /\ Rate * (now - lastTime[c]) \in Nat
        /\ Rate * (lastTime[c] - since) \in Int
    BY <2>1, Credit, RateAssumption
  <2>5. Cost * allowed[c] \in Nat BY <2>1, OneMore
  <2>6. CASE lastTime[c] >= since
    <3>1. Used(c) + tokens[c] <= Burst + Rate * (lastTime[c] - since)
      BY <1>1, <2>6 DEF Inv, Budget
    <3>2. Burst <= Rate * (now - lastTime[c])
      <4>1. Burst <= Rate * Interval /\ Burst \in Nat /\ Rate * Interval \in Nat
        BY RateAssumption
      <4>2. QED BY <2>3, <2>4, <4>1
    <3>3. QED BY <2>1, <2>4, <2>5, <3>1, <3>2, RateAssumption
  <2>7. CASE lastTime[c] < since
    <3>1. Used(c) = 0 BY <1>1, <2>7, OneMore DEF Inv, Budget
    <3>2. QED BY <2>4, <3>1
  <2>8. QED BY <2>1, <2>6, <2>7
<1>2. /\ UNCHANGED <<now, tokens, lastTime, since, allowed>>
      /\ buckets' \in SUBSET buckets
  BY DEF Cleanup
<1>3. QED BY <1>1, <1>2 DEF Inv, Budget

LEMMA StepBudget == Inv /\ [Next]_vars => Budget'
<1> SUFFICES ASSUME Inv, [Next]_vars PROVE Budget' OBVIOUS
<1>1. ASSUME NEW c \in Clients, AllowNew(c) PROVE Budget'
  <2>1. allowed[c] \in Nat /\ allowed \in [Clients -> Nat] BY DEF Inv, TypeOK
  <2>2. Cost * (allowed[c] + 1) = Cost * allowed[c] + Cost /\ Cost * allowed[c] \in Nat
    BY <2>1, OneMore
  <2>3. now \in Nat /\ since \in Nat /\ Rate * (now - since) \in Int
    BY Credit, RateAssumption DEF Inv, TypeOK
  <2>4. Used(c) + Burst <= Burst + Rate * (now - since) BY <1>1, BeforeRequest DEF AllowNew
  <2>5. /\ allowed'[c] = allowed[c] + 1 /\ allowed' \in [Clients -> Nat]
        /\ \A d \in Clients \ {c} : allowed'[d] = allowed[d]
    BY <1>1, <2>1 DEF AllowNew
  <2>6. Cost * allowed'[c] + (Burst - Cost) <= Burst + Rate * (now - since)
    BY <2>2, <2>3, <2>4, <2>5, RateAssumption
  <2>7. Burst - Cost \in 0 .. Burst BY RateAssumption
  <2>8. QED BY <1>1, <2>5, <2>6, <2>7, TouchBudget DEF AllowNew
<1>2. ASSUME NEW c \in Clients, Allow(c) PROVE Budget'
  <2>1. allowed[c] \in Nat /\ allowed \in [Clients -> Nat] BY DEF Inv, TypeOK
  <2>2. Cost * (allowed[c] + 1) = Cost * allowed[c] + Cost /\ Cost * allowed[c] \in Nat
    BY <2>1, OneMore
  <2>3. now \in Nat /\ since \in Nat /\ Rate * (now - since) \in Int
    BY Credit, RateAssumption DEF Inv, TypeOK
  <2>4. Used(c) + Refilled(c) <= Burst + Rate * (now - since) BY <1>2, BeforeRequest DEF Allow
  <2>5. /\ allowed'[c] = allowed[c] + 1 /\ allowed' \in [Clients -> Nat]
        /\ \A d \in Clients \ {c} : allowed'[d] = allowed[d]
    BY <1>2, <2>1 DEF Allow
  <2>6. Refilled(c) \in 0 .. Burst /\ Refilled(c) >= Cost
    BY <1>2, RefilledBounds DEF Allow, Inv
  <2>7. Cost * allowed'[c] + (Refilled(c) - Cost) <= Burst + Rate * (now - since)
    BY <2>2, <2>3, <2>4, <2>5, <2>6, RateAssumption
  <2>8. Refilled(c) - Cost \in 0 .. Burst BY <2>6, RateAssumption
  <2>9. QED BY <1>2, <2>5, <2>7, <2>8, TouchBudget DEF Allow
<1>3. ASSUME NEW c \in Clients, Refuse(c) PROVE Budget'
  <2>1. Used(c) + Refilled(c) <= Burst + Rate * (now - since) BY <1>3, BeforeRequest DEF Refuse
  <2>2. allowed' = allowed /\ allowed \in [Clients -> Nat] BY <1>3 DEF Refuse, Inv, TypeOK
  <2>3. Refilled(c) \in 0 .. Burst BY RefilledBounds DEF Inv
  <2>4. QED BY <1>3, <2>1, <2>2, <2>3, TouchBudget DEF Refuse
<1>4. CASE Cleanup BY <1>4, CleanupBudget
<1>5. CASE Stop BY <1>5 DEF Stop, Inv, Budget
<1>6. CASE Tick
  <2>1. now' = now + 1 /\ UNCHANGED <<buckets, tokens, lastTime, since, allowed>>
    BY <1>6 DEF Tick
  <2>2. /\ Rate * (now + 1 - since) = Rate * (now - since) + Rate
        /\ Rate * (now - since) \in Int
    BY Credit, RateAssumption DEF Inv, TypeOK
  <2>3. ASSUME NEW c \in Clients, Used(c) <= Rate * (now - since)
        PROVE  Used(c) <= Rate * (now + 1 - since)
    <3>1. Used(c) \in Nat BY OneMore DEF Inv, TypeOK
    <3>2. QED BY <2>2, <2>3, <3>1, RateAssumption
  <2>4. ASSUME NEW c \in Clients
        PROVE  /\ c \in buckets' /\ lastTime'[c] >= since' =>
                     Used(c)' + tokens'[c] <= Burst + Rate * (lastTime'[c] - since')
               /\ c \in buckets' /\ lastTime'[c] < since' => allowed'[c] = 0
               /\ c \notin buckets' => Used(c)' <= Rate * (now' - since')
    <3>1. c \notin buckets => Used(c) <= Rate * (now - since) BY DEF Inv, Budget
    <3>2. Used(c)' = Used(c) BY <2>1
    <3>3. ASSUME c \notin buckets' PROVE Used(c)' <= Rate * (now' - since')
      <4>1. Used(c) <= Rate * (now - since) BY <2>1, <3>1, <3>3
      <4>2. Used(c) <= Rate * (now + 1 - since) BY <2>3, <4>1
      <4>3. now' = now + 1 /\ since' = since /\ now \in Nat /\ since \in Nat
        BY <2>1 DEF Inv, TypeOK
      <4>4. QED BY <3>2, <4>2, <4>3, RateAssumption
    <3>4. QED BY <2>1, <3>2, <3>3 DEF Inv, Budget
  <2>5. QED BY <2>4 DEF Budget
<1>7. CASE Observe
  <2>1. since' = now /\ now' = now /\ UNCHANGED <<buckets, tokens, lastTime>>
    BY <1>7 DEF Observe
  <2>2. \A c \in Clients : allowed'[c] = 0 BY <1>7 DEF Observe
  <2>3. Cost * 0 = 0 /\ Rate * (now - now) = 0
    BY OneMore, Credit, RateAssumption DEF Inv, TypeOK
  <2>4. now \in Nat /\ \A c \in Clients : lastTime[c] \in 0 .. now /\ tokens[c] \in 0 .. Burst
    BY DEF Inv, TypeOK
  <2>5. ASSUME NEW c \in Clients, lastTime[c] >= now PROVE Rate * (lastTime[c] - now) = 0
    <3>1. lastTime[c] - now = 0 BY <2>4, <2>5
    <3>2. QED BY <3>1, RateAssumption
  <2>6. ASSUME NEW c \in Clients
        PROVE  /\ lastTime'[c] >= since' =>
                     Used(c)' + tokens'[c] <= Burst + Rate * (lastTime'[c] - since')
               /\ Used(c)' <= Rate * (now' - since')
    <3>1. Used(c)' = 0 BY <2>2, <2>3
    <3>2. Rate * (now' - since') = 0 BY <2>1, <2>3
    <3>3. QED BY <2>1, <2>4, <2>5, <3>1, <3>2, RateAssumption
  <2>7. QED BY <2>2, <2>6 DEF Budget
<1>8. CASE UNCHANGED vars BY <1>8 DEF vars, Inv, Budget
<1>9. QED BY <1>1, <1>2, <1>3, <1>4, <1>5, <1>6, <1>7, <1>8 DEF Next

LEMMA InvBounds == Inv => RateBound
<1> SUFFICES ASSUME Inv, NEW c \in Clients
             PROVE  Cost * allowed[c] <= Burst + Rate * (now - since)
  BY DEF RateBound
<1>1. now \in Nat /\ since \in Nat /\ Rate * (now - since) \in Int
  BY Credit, RateAssumption DEF Inv, TypeOK
<1>2. Cost * allowed[c] \in Nat BY OneMore DEF Inv, TypeOK
<1>3. Refilled(c) \in 0 .. Burst BY RefilledBounds DEF Inv
<1>4. QED BY <1>1, <1>2, <1>3, BeforeRequest, RateAssumption

-----------------------------------------------------------------------------
LEMMA Invariance == Spec => []Inv
<1>1. Init => Inv BY InitInv
<1>2. Inv /\ [Next]_vars => Inv' BY StepType, StepBudget DEF Inv
<1>3. QED BY <1>1, <1>2, PTL DEF Spec

(* The rate limiter bounds what a client gets in every window of time. *)
THEOREM RateBounded == Spec => []RateBound
BY Invariance, InvBounds, PTL

(* A client that waited for the second Retry-After names is let through. *)
THEOREM RetryAfterHonest == Spec => RetryAfter
<1>1. ASSUME Inv, NEW c \in Clients, Refuse(c) PROVE now - lastTime[c] < Second
  <2>1. /\ now \in Nat /\ lastTime[c] \in Nat /\ lastTime[c] <= now
        /\ tokens[c] \in Nat
    BY <1>1 DEF Inv, TypeOK
  <2>2. Rate * (now - lastTime[c]) \in Nat BY <2>1, Credit, RateAssumption
  <2>3. Rate * (now - lastTime[c]) < Cost
    <3>1. Refilled(c) \in 0 .. Burst /\ Refilled(c) < Cost
      BY <1>1, RefilledBounds DEF Inv, Refuse
    <3>2. Refilled(c) = tokens[c] + Rate * (now - lastTime[c])
      BY <1>1, <3>1, RefilledBounds, RateAssumption DEF Inv
    <3>3. QED BY <2>1, <2>2, <3>1, <3>2, RateAssumption
  <2>4. SUFFICES ASSUME now - lastTime[c] >= Second PROVE FALSE
    BY <2>1, RateAssumption
  <2>5. Rate * ((now - lastTime[c]) - Second) \in Nat
    BY <2>1, <2>4, Credit, RateAssumption
  <2>6. Rate * ((now - lastTime[c]) - Second) = Rate * (now - lastTime[c]) - Rate * Second
    BY <2>1, RateAssumption
  <2>7. QED
    <3>1. Cost <= Rate * Second /\ Cost \in Nat /\ Rate * Second \in Nat BY RateAssumption
    <3>2. QED BY <2>2, <2>3, <2>5, <2>6, <3>1
<1>2. Inv => \A c \in Clients : Refuse(c) => now - lastTime[c] < Second BY <1>1
<1>3. QED BY <1>2, Invariance, PTL DEF RetryAfter
=============================================================================
