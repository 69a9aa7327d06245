----------------------------- MODULE RequestEdge -----------------------------
(***************************************************************************)
(* The middleware every API request passes (api/main.py): the freshness of *)
(* its signature, the reservation of its nonce, and a token of its bucket. *)
(* Nonces and buckets are tables of the shared event store, and processes  *)
(* read the clock before they wait for SQLite's write lock, so that the    *)
(* readings with which they purge, refill and stamp rows may come in       *)
(* another order than their transactions.                                  *)
(*                                                                         *)
(* Tokens are counted in units of what a tick refills; Cost units make one *)
(* token.  A signature stands for its nonce: who signed it, and that the   *)
(* hashes are right, is not modelled.                                      *)
(***************************************************************************)
EXTENDS Naturals, Sequences, FiniteSets

CONSTANTS
  Call,         \* bound: attempts to pass
  Nonce,        \* one for each signed request; an attempt may repeat another's
  Key,          \* buckets
  MaxAge,       \* app_actor_signature_max_age_seconds
  Skew,         \* how far a signer's clock may be ahead
  Cost, Burst,  \* the units of a token, and of a full bucket
  StaleAfter,   \* after how long without use the row of a bucket is purged
  MaxLag,       \* the longest wait for the write lock
  MaxTime       \* bound: the clock

\* stale_after_seconds is four times the time a bucket takes to fill, and at
\* least an hour; the wait for SQLite is the timeout of its connections.
ASSUME EdgeAssumption ==
  /\ {MaxAge, Skew, Cost, Burst, StaleAfter, MaxLag, MaxTime} \subseteq Nat
  /\ Cost > 0 /\ Burst >= Cost
  /\ StaleAfter >= Burst + MaxLag

VARIABLES
  time,       \* the clock
  issued,     \* nonce -> when it was signed
  nonces,     \* nonce -> expires_at of its row, or 0
  buckets,    \* key -> its row
  calls,      \* attempt -> where it is
  accepted,   \* nonce -> when it was reserved, in order (a history)
  served      \* key -> the tokens handed out, in order (a history)

edgeVars == <<time, issued, nonces, buckets, calls, accepted, served>>

NoBucket == [there |-> FALSE, units |-> 0, at |-> 0]
\* Where an attempt is, with which nonce, and since when it waits for the lock.
Attempt(p, n, t) == [pc |-> p, nonce |-> n, since |-> t]

Lower(a, b) == IF a < b THEN a ELSE b
Less(a, b)  == IF a > b THEN a - b ELSE 0    \* max(0, a - b)

\* A reading of the clock since the step before, and no older than a wait.
LockReadings(since) == {t \in since .. time : t + MaxLag >= time}

-----------------------------------------------------------------------------
TimeGoesBy ==
  /\ time < MaxTime /\ time' = time + 1
  /\ UNCHANGED <<issued, nonces, buckets, calls, accepted, served>>

\* A signer stamps a request by its own clock, ahead by no more than Skew.
Sign(n, t) ==
  /\ issued[n] = 0 /\ t \in time .. time + Skew
  /\ issued' = [issued EXCEPT ![n] = t]
  /\ UNCHANGED <<time, nonces, buckets, calls, accepted, served>>

Fresh(n) == issued[n] <= time + MaxAge /\ time <= issued[n] + MaxAge

\* verify_request_signature; an attempt that is not fresh ends with 401.
Verify(c, n) ==
  /\ calls[c].pc = "none" /\ issued[n] # 0 /\ Fresh(n)
  /\ calls' = [calls EXCEPT ![c] = Attempt("reserve", n, time)]
  /\ UNCHANGED <<time, issued, nonces, buckets, accepted, served>>

\* The alert webhook checks a signature of its own; its path needs no nonce.
Exempt(c) ==
  /\ calls[c].pc = "none"
  /\ calls' = [calls EXCEPT ![c] = Attempt("limit", "none", time)]
  /\ UNCHANGED <<time, issued, nonces, buckets, accepted, served>>

\* A fault: rows are purged by when their request was signed.
PurgedSoon(now) == [n \in Nonce |-> IF nonces[n] <= now + MaxAge THEN 0 ELSE nonces[n]]

Purged(now) == [n \in Nonce |-> IF nonces[n] <= now THEN 0 ELSE nonces[n]]

\* reserve_api_request_nonce: expired rows go, then the insert, or IntegrityError.
Reserve(c, now) ==
  LET n == calls[c].nonce  kept == Purged(now) IN
  /\ calls[c].pc = "reserve" /\ now \in LockReadings(calls[c].since)
  /\ \/ /\ kept[n] = 0
        /\ nonces' = [kept EXCEPT ![n] = issued[n] + MaxAge]
        /\ accepted' = [accepted EXCEPT ![n] = Append(@, time)]
        /\ calls' = [calls EXCEPT ![c] = Attempt("limit", "none", time)]
     \/ /\ kept[n] # 0
        /\ nonces' = kept
        /\ calls' = [calls EXCEPT ![c] = Attempt("refused", "none", 0)]
        /\ UNCHANGED accepted
  /\ UNCHANGED <<time, issued, buckets, served>>

-----------------------------------------------------------------------------
(* consume_api_rate_limit_token *)

\* The buckets a check at a reading of the clock finds.
Swept(now) ==
  [k \in Key |-> IF buckets[k].there /\ buckets[k].at + StaleAfter <= now
                 THEN NoBucket ELSE buckets[k]]

\* A fault: a bucket fills on past its burst.
RefillOn(row, now) == IF row.there THEN row.units + Less(now, row.at) ELSE Burst

\* What is in a bucket at a reading of the clock.
Refill(row, now) == IF row.there THEN Lower(Burst, row.units + Less(now, row.at)) ELSE Burst

\* How far the clock of a bucket has been put back so far.
Setback(k) == IF served[k] = << >> THEN 0 ELSE served[k][Len(served[k])].back

\* A token is taken, or none is left: the row is stamped either way.
Limit(c, k, now) ==
  LET row == Swept(now)[k]  units == Refill(row, now) IN
  /\ calls[c].pc = "limit" /\ now \in LockReadings(calls[c].since)
  /\ buckets' = [Swept(now) EXCEPT ![k] =
                   [there |-> TRUE, units |-> Less(units, IF units >= Cost THEN Cost ELSE 0),
                    at |-> now]]
  /\ calls' = [calls EXCEPT ![c] = Attempt(IF units >= Cost THEN "served" ELSE "limited", "none", 0)]
  /\ served' = [served EXCEPT ![k] = Append(@, [took |-> units >= Cost, at |-> now,
                  back |-> Setback(k) + (IF row.there THEN Less(row.at, now) ELSE 0)])]
  /\ UNCHANGED <<time, issued, nonces, accepted>>

EdgeInit ==
  /\ time = 1
  /\ issued = [n \in Nonce |-> 0]
  /\ nonces = [n \in Nonce |-> 0]
  /\ buckets = [k \in Key |-> NoBucket]
  /\ calls = [c \in Call |-> Attempt("none", "none", 0)]
  /\ accepted = [n \in Nonce |-> << >>]
  /\ served = [k \in Key |-> << >>]

EdgeNext ==
  \/ TimeGoesBy
  \/ \E n \in Nonce, t \in 1 .. MaxTime + Skew : Sign(n, t)
  \/ \E c \in Call :
       \/ Exempt(c)
       \/ \E n \in Nonce : Verify(c, n)
       \/ \E now \in 1 .. MaxTime :
            \/ Reserve(c, now)
            \/ \E k \in Key : Limit(c, k, now)

EdgeSpec == EdgeInit /\ [][EdgeNext]_edgeVars

-----------------------------------------------------------------------------
(* Properties *)

\* No bucket is fuller than Burst, and no row is stamped ahead of the clock.
EdgeTypeOK ==
  /\ time \in Nat \ {0}
  /\ issued \in [Nonce -> Nat] /\ nonces \in [Nonce -> Nat]
  /\ buckets \in [Key -> [there : BOOLEAN, units : 0 .. Burst, at : 0 .. time]]
  /\ calls \in [Call -> [pc : {"none", "reserve", "limit", "refused", "limited", "served"},
                         nonce : Nonce \cup {"none"}, since : 0 .. time]]
  /\ accepted \in [Nonce -> Seq(0 .. time)]
  /\ served \in [Key -> Seq([took : BOOLEAN, at : 0 .. time, back : Nat])]

(***************************************************************************)
(* While a signature may be fresh its request passes once, in whichever    *)
(* processes it arrives and whatever their reservations purge: any second  *)
(* reservation of its nonce is made when the signature has run out         *)
(* (event_store.py:2065; a request may be checked before and reserved      *)
(* after, request_signature.py:72 and 131).                                *)
(***************************************************************************)
AcceptedOnceWhileFresh ==
  \A n \in Nonce : \A i \in DOMAIN accepted[n] :
    i > 1 => accepted[n][i] >= issued[n] + MaxAge

\* The tokens handed out by the checks from the i-th to the j-th.
Taken(checks, i, j) == Cardinality({h \in i .. j : checks[h].took})

(***************************************************************************)
(* Whichever two checks of a bucket one picks, the tokens handed out from  *)
(* the first to the second are a full bucket and what the clock refilled   *)
(* between their readings, plus what it refilled twice because readings    *)
(* put the stamp of the row back (event_store.py:2112, 2136); and a bucket *)
(* whose row was purged is not fuller than one that was kept.              *)
(***************************************************************************)
TokensInBudget ==
  \A k \in Key : \A i, j \in DOMAIN served[k] :
    i <= j =>
      Cost * Taken(served[k], i, j) + served[k][i].at + served[k][i].back
        <= Burst + served[k][j].at + served[k][j].back
=============================================================================
