-------------------------- MODULE RequestEdge_proofs --------------------------
(***************************************************************************)
(* Proofs about RequestEdge for any calls, nonces and keys, any ages and   *)
(* costs, and any wait for the write lock: a signature passes once while   *)
(* it may be fresh, no bucket holds more than Burst, and none hands out    *)
(* more than its budget. NonceInv ties the row of a nonce to the           *)
(* signature: while the signature may be fresh and has been accepted, the  *)
(* row is there and lasts as long. BudgetInv keeps the account of a        *)
(* bucket: what was handed out since any earlier check and what is left    *)
(* together stay within a full bucket and what the clock refilled since,   *)
(* and the row bears the stamp of the last check.                          *)
(***************************************************************************)
EXTENDS RequestEdge, FiniteSetTheorems, TLAPS

USE EdgeAssumption

NonceInv ==
  /\ \A c \in Call : calls[c].pc = "reserve" => calls[c].nonce \in Nonce /\ issued[calls[c].nonce] # 0
  /\ \A n \in Nonce :
       /\ nonces[n] # 0 => issued[n] # 0 /\ nonces[n] = issued[n] + MaxAge
       /\ accepted[n] # << >> => issued[n] # 0 /\ (nonces[n] # 0 \/ time >= issued[n] + MaxAge)
       /\ \A i \in DOMAIN accepted[n] : i > 1 => accepted[n][i] >= issued[n] + MaxAge

EdgeInv == EdgeTypeOK /\ NonceInv

Places == {"none", "reserve", "limit", "refused", "limited", "served"}

\* The records of an attempt when the clock stands at t.
Attempts(t) == [pc : Places, nonce : Nonce \cup {"none"}, since : 0 .. t]

-----------------------------------------------------------------------------
\* The constants, one by one.
LEMMA Constants == MaxAge \in Nat /\ Skew \in Nat /\ Cost \in Nat /\ Burst \in Nat /\ StaleAfter \in Nat
                   /\ MaxLag \in Nat /\ MaxTime \in Nat /\ Burst > 0
OBVIOUS

\* A sequence that grows by an element of the set is one of that set.
LEMMA Grown ==
  ASSUME NEW S, NEW q \in Seq(S), NEW e \in S
  PROVE  /\ Append(q, e) \in Seq(S) /\ DOMAIN Append(q, e) = 1 .. Len(q) + 1 /\ Len(q) \in Nat
         /\ Append(q, e)[Len(q) + 1] = e /\ DOMAIN q = 1 .. Len(q)
         /\ \A i \in 1 .. Len(q) : Append(q, e)[i] = q[i]
OBVIOUS

\* So is a sequence of a smaller set.
LEMMA LongerRange == ASSUME NEW S, NEW T, S \subseteq T PROVE Seq(S) \subseteq Seq(T)
OBVIOUS

\* Where an attempt may be.
LEMMA AttemptType ==
  ASSUME NEW t \in Nat, NEW p \in Places, NEW n \in Nonce \cup {"none"}, NEW s \in 0 .. t
  PROVE  /\ Attempt(p, n, s) \in Attempts(t)
         /\ Attempt(p, n, s).pc = p /\ Attempt(p, n, s).nonce = n
BY DEF Attempts, Attempt

\* An attempt that needs its nonce no longer.
LEMMA AttemptWithoutNonce ==
  ASSUME NEW t \in Nat, NEW p \in Places, NEW s \in 0 .. t
  PROVE  Attempt(p, "none", s) \in Attempts(t) /\ Attempt(p, "none", s).pc = p
BY DEF Attempts, Attempt

\* Nothing is signed, reserved or handed out at first.
LEMMA EdgeInitInv == EdgeInit => EdgeInv
<1> SUFFICES ASSUME EdgeInit PROVE EdgeInv
  OBVIOUS
<1>1. EdgeTypeOK
  BY Constants DEF EdgeInit, EdgeTypeOK, NoBucket, Attempt
<1>2. NonceInv
  BY DEF EdgeInit, NonceInv, Attempt
<1> QED BY <1>1, <1>2 DEF EdgeInv

\* Time goes by.
LEMMA TimeInv == EdgeInv /\ TimeGoesBy => EdgeInv'
<1> SUFFICES ASSUME EdgeInv, TimeGoesBy PROVE EdgeInv'
  OBVIOUS
<1>1. time' = time + 1 /\ time \in Nat \ {0} /\ 0 .. time \subseteq 0 .. time'
  BY DEF EdgeInv, EdgeTypeOK, TimeGoesBy
<1>2. UNCHANGED <<issued, nonces, buckets, calls, accepted, served>>
  BY DEF TimeGoesBy
<1>3. accepted' \in [Nonce -> Seq(0 .. time')]
  <2>1. Seq(0 .. time) \subseteq Seq(0 .. time')
    BY <1>1, LongerRange
  <2> QED BY <2>1, <1>2 DEF EdgeInv, EdgeTypeOK
<1>4. served' \in [Key -> Seq([took : BOOLEAN, at : 0 .. time', back : Nat])]
  <2>1. [took : BOOLEAN, at : 0 .. time, back : Nat] \subseteq [took : BOOLEAN, at : 0 .. time', back : Nat]
    BY <1>1
  <2>2. Seq([took : BOOLEAN, at : 0 .. time, back : Nat]) \subseteq Seq([took : BOOLEAN, at : 0 .. time', back : Nat])
    BY <2>1, LongerRange
  <2> QED BY <2>2, <1>2 DEF EdgeInv, EdgeTypeOK
<1>5. buckets' \in [Key -> [there : BOOLEAN, units : 0 .. Burst, at : 0 .. time']]
  <2>1. [there : BOOLEAN, units : 0 .. Burst, at : 0 .. time]
          \subseteq [there : BOOLEAN, units : 0 .. Burst, at : 0 .. time']
    BY <1>1
  <2> QED BY <2>1, <1>2 DEF EdgeInv, EdgeTypeOK
<1>6. calls' \in [Call -> Attempts(time')]
  <2>1. Attempts(time) \subseteq Attempts(time')
    BY <1>1 DEF Attempts
  <2>2. calls \in [Call -> Attempts(time)]
    BY DEF EdgeInv, EdgeTypeOK, Places, Attempts
  <2> QED BY <2>1, <2>2, <1>2
<1>7. time' \in Nat \ {0} /\ issued' \in [Nonce -> Nat] /\ nonces' \in [Nonce -> Nat]
  BY <1>1, <1>2 DEF EdgeInv, EdgeTypeOK
<1>9. EdgeTypeOK'
  BY <1>3, <1>4, <1>5, <1>6, <1>7 DEF EdgeTypeOK, Places, Attempts
<1>8. NonceInv'
  BY <1>1, <1>2, Constants DEF EdgeInv, EdgeTypeOK, NonceInv
<1> QED BY <1>8, <1>9 DEF EdgeInv

\* A request is signed: its nonce has no row and nobody passed with it.
LEMMA SignInv ==
  ASSUME NEW n \in Nonce, NEW t \in 1 .. MaxTime + Skew, EdgeInv, Sign(n, t)
  PROVE  EdgeInv'
<1>1. UNCHANGED <<time, nonces, buckets, calls, accepted, served>>
  BY DEF Sign
<1>2. issued' = [issued EXCEPT ![n] = t] /\ issued[n] = 0 /\ t \in Nat /\ t # 0
  BY Constants DEF Sign
<1>3. EdgeTypeOK'
  BY <1>1, <1>2 DEF EdgeInv, EdgeTypeOK
<1>4. nonces[n] = 0 /\ accepted[n] = << >>
  BY <1>2 DEF EdgeInv, NonceInv, EdgeTypeOK
<1>5. issued'[n] = t /\ \A o \in Nonce \ {n} : issued'[o] = issued[o]
  BY <1>2 DEF EdgeInv, EdgeTypeOK
<1>6. NonceInv'
  BY <1>1, <1>2, <1>4, <1>5 DEF EdgeInv, NonceInv
<1> QED BY <1>3, <1>6 DEF EdgeInv

\* An attempt is found fresh.
LEMMA VerifyInv ==
  ASSUME NEW c \in Call, NEW n \in Nonce, EdgeInv, Verify(c, n)
  PROVE  EdgeInv'
<1>1. UNCHANGED <<time, issued, nonces, buckets, accepted, served>>
  BY DEF Verify
<1>2. PICK r : r = Attempt("reserve", n, time)
  OBVIOUS
<1>3. calls' = [calls EXCEPT ![c] = r] /\ issued[n] # 0
  BY <1>2 DEF Verify
<1>4. /\ r \in Attempts(time)
      /\ r.nonce = n
  BY <1>2, AttemptType DEF EdgeInv, EdgeTypeOK, Places
<1>5. EdgeTypeOK'
  BY <1>1, <1>3, <1>4 DEF EdgeInv, EdgeTypeOK, Places, Attempts
<1>6. calls'[c] = r /\ \A d \in Call \ {c} : calls'[d] = calls[d]
  BY <1>3 DEF EdgeInv, EdgeTypeOK
<1>7. NonceInv'
  BY <1>1, <1>3, <1>4, <1>6 DEF EdgeInv, NonceInv
<1> QED BY <1>5, <1>7 DEF EdgeInv

\* An attempt that needs no signature.
LEMMA ExemptInv ==
  ASSUME NEW c \in Call, EdgeInv, Exempt(c)
  PROVE  EdgeInv'
<1>1. UNCHANGED <<time, issued, nonces, buckets, accepted, served>>
  BY DEF Exempt
<1>2. PICK r : r = Attempt("limit", "none", time)
  OBVIOUS
<1>3. calls' = [calls EXCEPT ![c] = r]
  BY <1>2 DEF Exempt
<1>4. /\ r \in Attempts(time)
      /\ r.pc = "limit"
  <2>1. time \in Nat /\ time \in 0 .. time /\ "limit" \in Places
    BY DEF EdgeInv, EdgeTypeOK, Places
  <2> QED BY <2>1, <1>2, AttemptType
<1>5. EdgeTypeOK'
  BY <1>1, <1>3, <1>4 DEF EdgeInv, EdgeTypeOK, Places, Attempts
<1>6. calls'[c] = r /\ \A d \in Call \ {c} : calls'[d] = calls[d]
  BY <1>3 DEF EdgeInv, EdgeTypeOK
<1>7. NonceInv'
  BY <1>1, <1>4, <1>6 DEF EdgeInv, NonceInv
<1> QED BY <1>5, <1>7 DEF EdgeInv

-----------------------------------------------------------------------------
\* A purge removes rows of signatures that have run out, and nothing else.
LEMMA PurgeKeepsFresh ==
  ASSUME EdgeInv, NEW now \in 0 .. time
  PROVE  /\ Purged(now) \in [Nonce -> Nat]
         /\ \A n \in Nonce :
              /\ Purged(now)[n] # 0 => Purged(now)[n] = nonces[n]
              /\ Purged(now)[n] = 0 /\ nonces[n] # 0 => time >= issued[n] + MaxAge
BY Constants DEF EdgeInv, EdgeTypeOK, NonceInv, Purged

\* A nonce is reserved, or found in use.
LEMMA ReserveInv ==
  ASSUME NEW c \in Call, NEW now \in 1 .. MaxTime, EdgeInv, Reserve(c, now)
  PROVE  EdgeInv'
<1>1. UNCHANGED <<time, issued, buckets, served>> /\ calls[c].pc = "reserve"
  BY DEF Reserve
<1>2. now \in 0 .. time
  BY DEF Reserve, LockReadings, EdgeInv, EdgeTypeOK
<1>3. PICK n \in Nonce : n = calls[c].nonce /\ issued[n] # 0
  BY <1>1 DEF EdgeInv, NonceInv
<1>4. PICK kept \in [Nonce -> Nat] :
        /\ kept = Purged(now)
        /\ \A o \in Nonce : /\ kept[o] # 0 => kept[o] = nonces[o]
                            /\ kept[o] = 0 /\ nonces[o] # 0 => time >= issued[o] + MaxAge
  BY <1>2, PurgeKeepsFresh
<1>5. CASE kept[n] = 0
  <2>1. /\ nonces' = [kept EXCEPT ![n] = issued[n] + MaxAge]
        /\ accepted' = [accepted EXCEPT ![n] = Append(@, time)]
        /\ calls' = [calls EXCEPT ![c] = Attempt("limit", "none", time)]
    BY <1>3, <1>4, <1>5 DEF Reserve
  <2>2. PICK r : r = Attempt("limit", "none", time)
    OBVIOUS
  <2>3. /\ r \in Attempts(time)
        /\ r.pc = "limit"
    <3>1. "limit" \in Places /\ time \in 0 .. time /\ time \in Nat
      BY DEF EdgeInv, EdgeTypeOK, Places
    <3>2. Attempt("limit", "none", time) \in Attempts(time) /\ Attempt("limit", "none", time).pc = "limit"
      BY <3>1, AttemptWithoutNonce
    <3> QED BY <3>2, <2>2
  <2>4. calls' = [calls EXCEPT ![c] = r]
    BY <2>1, <2>2 DEF EdgeInv, EdgeTypeOK
  <2>5. time \in 0 .. time /\ time \in Nat /\ issued[n] + MaxAge \in Nat /\ issued[n] \in Nat
    BY Constants DEF EdgeInv, EdgeTypeOK
  <2>6. accepted[n] \in Seq(0 .. time)
    BY DEF EdgeInv, EdgeTypeOK
  <2>7. PICK q : q = Append(accepted[n], time)
    OBVIOUS
  <2>8. /\ q \in Seq(0 .. time) /\ DOMAIN accepted[n] = 1 .. Len(accepted[n])
        /\ Len(accepted[n]) \in Nat
        /\ DOMAIN q = 1 .. Len(accepted[n]) + 1 /\ q[Len(accepted[n]) + 1] = time
        /\ \A i \in 1 .. Len(accepted[n]) : q[i] = accepted[n][i]
    <3>1. PICK s \in Seq(0 .. time) : s = accepted[n]
      BY <2>6
    <3>2. /\ Append(s, time) \in Seq(0 .. time) /\ DOMAIN s = 1 .. Len(s) /\ Len(s) \in Nat
          /\ DOMAIN Append(s, time) = 1 .. Len(s) + 1 /\ Append(s, time)[Len(s) + 1] = time
          /\ \A i \in 1 .. Len(s) : Append(s, time)[i] = s[i]
      BY <2>5, Grown
    <3> QED BY <2>7, <3>1, <3>2
  <2>9. accepted' = [accepted EXCEPT ![n] = q]
    BY <2>1, <2>7
  <2>10. EdgeTypeOK'
    <3>1. nonces' \in [Nonce -> Nat]
      BY <2>1, <2>5
    <3>2. calls' \in [Call -> Attempts(time)]
      <4>1. calls \in [Call -> Attempts(time)]
        BY DEF EdgeInv, EdgeTypeOK, Places, Attempts
      <4> QED BY <4>1, <2>3, <2>4
    <3>3. accepted' \in [Nonce -> Seq(0 .. time)]
      BY <2>8, <2>9 DEF EdgeInv, EdgeTypeOK
    <3> QED BY <1>1, <3>1, <3>2, <3>3 DEF EdgeInv, EdgeTypeOK, Places, Attempts
  <2>11. calls'[c] = r /\ \A d \in Call \ {c} : calls'[d] = calls[d]
    BY <2>4 DEF EdgeInv, EdgeTypeOK
  <2>12. /\ nonces'[n] = issued[n] + MaxAge /\ accepted'[n] = q
         /\ \A o \in Nonce \ {n} : nonces'[o] = kept[o] /\ accepted'[o] = accepted[o]
    BY <2>1, <2>9 DEF EdgeInv, EdgeTypeOK
  <2>13. ASSUME NEW i \in DOMAIN q, i > 1
         PROVE  q[i] >= issued[n] + MaxAge
    <3>1. CASE i \in 1 .. Len(accepted[n])
      BY <2>8, <2>13, <3>1 DEF EdgeInv, NonceInv
    <3>2. CASE i = Len(accepted[n]) + 1
      <4>1. accepted[n] # << >>
        BY <2>6, <2>13, <3>2
      <4>2. time >= issued[n] + MaxAge
        BY <4>1, <1>4, <1>5 DEF EdgeInv, NonceInv
      <4> QED BY <4>2, <3>2, <2>8
    <3> QED BY <3>1, <3>2, <2>8
  <2>14. nonces'[n] # 0
    BY <1>3, <2>5, <2>12, Constants
  <2>15. NonceInv'
    <3>1. ASSUME NEW d \in Call, calls'[d].pc = "reserve"
          PROVE  calls'[d].nonce \in Nonce /\ issued'[calls'[d].nonce] # 0
      BY <3>1, <1>1, <2>3, <2>11 DEF EdgeInv, NonceInv
    <3>2. ASSUME NEW o \in Nonce
          PROVE  /\ nonces'[o] # 0 => issued'[o] # 0 /\ nonces'[o] = issued'[o] + MaxAge
                 /\ accepted'[o] # << >> => issued'[o] # 0 /\ (nonces'[o] # 0 \/ time' >= issued'[o] + MaxAge)
                 /\ \A i \in DOMAIN accepted'[o] : i > 1 => accepted'[o][i] >= issued'[o] + MaxAge
      <4>1. CASE o = n
        BY <4>1, <1>1, <1>3, <2>12, <2>13, <2>14
      <4>2. CASE o # n
        BY <4>2, <1>1, <1>4, <2>12 DEF EdgeInv, NonceInv
      <4> QED BY <4>1, <4>2
    <3> QED BY <3>1, <3>2 DEF NonceInv
  <2> QED BY <2>10, <2>15 DEF EdgeInv
<1>6. CASE kept[n] # 0
  <2>1. nonces' = kept /\ accepted' = accepted
    BY <1>3, <1>4, <1>6 DEF Reserve
  <2>2. PICK r : r = Attempt("refused", "none", 0)
    OBVIOUS
  <2>3. calls' = [calls EXCEPT ![c] = r]
    BY <1>3, <1>4, <1>6, <2>2 DEF Reserve
  <2>4. /\ r \in Attempts(time)
        /\ r.pc = "refused"
    <3>1. time \in Nat /\ time \in 0 .. time /\ "refused" \in Places
      BY DEF EdgeInv, EdgeTypeOK, Places
    <3>2. 0 \in 0 .. time
      BY <3>1
    <3>3. Attempt("refused", "none", 0) \in Attempts(time) /\ Attempt("refused", "none", 0).pc = "refused"
      BY <3>1, <3>2, AttemptWithoutNonce
    <3> QED BY <3>3, <2>2
  <2>5. EdgeTypeOK'
    BY <1>1, <2>1, <2>3, <2>4 DEF EdgeInv, EdgeTypeOK, Places, Attempts
  <2>6. calls'[c] = r /\ \A d \in Call \ {c} : calls'[d] = calls[d]
    BY <2>3 DEF EdgeInv, EdgeTypeOK
  <2>7. NonceInv'
    <3>1. ASSUME NEW d \in Call, calls'[d].pc = "reserve"
          PROVE  calls'[d].nonce \in Nonce /\ issued'[calls'[d].nonce] # 0
      BY <3>1, <1>1, <2>4, <2>6 DEF EdgeInv, NonceInv
    <3>2. ASSUME NEW o \in Nonce
          PROVE  /\ nonces'[o] # 0 => issued'[o] # 0 /\ nonces'[o] = issued'[o] + MaxAge
                 /\ accepted'[o] # << >> => issued'[o] # 0 /\ (nonces'[o] # 0 \/ time' >= issued'[o] + MaxAge)
                 /\ \A i \in DOMAIN accepted'[o] : i > 1 => accepted'[o][i] >= issued'[o] + MaxAge
      BY <1>1, <1>4, <2>1 DEF EdgeInv, NonceInv
    <3> QED BY <3>1, <3>2 DEF NonceInv
  <2> QED BY <2>5, <2>7 DEF EdgeInv
<1> QED BY <1>5, <1>6

-----------------------------------------------------------------------------
\* A purge of buckets leaves rows or removes them.
LEMMA SweepType ==
  ASSUME EdgeInv, NEW now
  PROVE  Swept(now) \in [Key -> [there : BOOLEAN, units : 0 .. Burst, at : 0 .. time]]
<1>1. NoBucket \in [there : BOOLEAN, units : 0 .. Burst, at : 0 .. time]
  BY Constants DEF NoBucket, EdgeInv, EdgeTypeOK
<1> QED BY <1>1 DEF EdgeInv, EdgeTypeOK, Swept

\* A refill does not go beyond a full bucket.
LEMMA RefillInBurst ==
  ASSUME NEW row \in [there : BOOLEAN, units : 0 .. Burst, at : 0 .. time], NEW now \in Nat,
         time \in Nat
  PROVE  Refill(row, now) \in 0 .. Burst
<1>1. row.units \in 0 .. Burst /\ row.at \in Nat
  OBVIOUS
<1>2. PICK u : u = row.units
  OBVIOUS
<1>3. PICK a : a = row.at
  OBVIOUS
<1>4. Lower(Burst, u + Less(now, a)) \in 0 .. Burst
  BY <1>1, <1>2, <1>3, Constants DEF Lower, Less
<1> QED BY <1>2, <1>3, <1>4, Constants DEF Refill

\* A token is taken or refused.
LEMMA LimitInv ==
  ASSUME NEW c \in Call, NEW k \in Key, NEW now \in 1 .. MaxTime, EdgeInv, Limit(c, k, now)
  PROVE  EdgeInv'
<1> DEFINE Row == [there : BOOLEAN, units : 0 .. Burst, at : 0 .. time]
           Served == [took : BOOLEAN, at : 0 .. time, back : Nat]
<1>1. UNCHANGED <<time, issued, nonces, accepted>>
  BY DEF Limit
<1>2. now \in 0 .. time /\ now \in Nat /\ time \in Nat
  BY DEF Limit, LockReadings, EdgeInv, EdgeTypeOK
<1>3. PICK swept \in [Key -> Row] : swept = Swept(now)
  BY SweepType
<1>4. PICK units \in 0 .. Burst : units = Refill(swept[k], now)
  BY <1>2, <1>3, RefillInBurst
<1>5. PICK b : b = [there |-> TRUE, units |-> Less(units, IF units >= Cost THEN Cost ELSE 0), at |-> now]
  OBVIOUS
<1>6. buckets' = [swept EXCEPT ![k] = b]
  BY <1>3, <1>4, <1>5 DEF Limit
<1>7. b \in Row
  <2>1. Less(units, IF units >= Cost THEN Cost ELSE 0) \in 0 .. Burst
    BY Constants DEF Less
  <2> QED BY <2>1, <1>2, <1>5
<1>8. buckets' \in [Key -> Row]
  BY <1>6, <1>7
<1>9. PICK r : r = Attempt(IF units >= Cost THEN "served" ELSE "limited", "none", 0)
  OBVIOUS
<1>10. calls' = [calls EXCEPT ![c] = r]
  BY <1>3, <1>4, <1>9 DEF Limit
<1>11. /\ r \in Attempts(time)
       /\ r.pc # "reserve"
  <2>1. (IF units >= Cost THEN "served" ELSE "limited") \in Places \ {"reserve"}
    BY DEF Places
  <2>2. time \in Nat /\ time \in 0 .. time
    BY <1>2
  <2>3. 0 \in 0 .. time
    BY <2>2
  <2> QED BY <2>1, <2>2, <2>3, <1>9, AttemptType
<1>12. Setback(k) \in Nat
  <2>1. served[k] \in Seq(Served)
    BY DEF EdgeInv, EdgeTypeOK
  <2>2. CASE served[k] = << >>
    BY <2>2 DEF Setback
  <2>3. CASE served[k] # << >>
    <3> HIDE DEF Served
    <3>1. Len(served[k]) \in 1 .. Len(served[k])
      BY <2>1, <2>3
    <3>2. served[k][Len(served[k])] \in Served
      BY <2>1, <3>1
    <3> USE DEF Served
    <3> QED BY <3>2, <2>3 DEF Setback
  <2> QED BY <2>2, <2>3
<1>13. PICK back \in Nat : back = Setback(k) + (IF swept[k].there THEN Less(swept[k].at, now) ELSE 0)
  <2>1. swept[k].at \in Nat
    BY <1>2, <1>3
  <2>2. PICK a \in Nat : a = swept[k].at
    BY <2>1
  <2>3. Less(a, now) \in Nat
    BY <1>2 DEF Less
  <2> QED BY <2>2, <2>3, <1>12
<1>14. PICK e : e = [took |-> units >= Cost, at |-> now, back |-> back]
  OBVIOUS
<1>15. served' = [served EXCEPT ![k] = Append(@, e)]
  BY <1>3, <1>4, <1>13, <1>14 DEF Limit
<1>16. e \in Served
  BY <1>2, <1>14
<1>17. served' \in [Key -> Seq(Served)]
  <2>1. served \in [Key -> Seq(Served)]
    BY DEF EdgeInv, EdgeTypeOK
  <2> HIDE DEF Served
  <2>2. Append(served[k], e) \in Seq(Served)
    BY <2>1, <1>16, Grown
  <2> QED BY <2>1, <2>2, <1>15
<1>18. EdgeTypeOK'
  BY <1>1, <1>8, <1>10, <1>11, <1>17 DEF EdgeInv, EdgeTypeOK, Places, Attempts
<1>19. calls'[c] = r /\ \A d \in Call \ {c} : calls'[d] = calls[d]
  BY <1>10 DEF EdgeInv, EdgeTypeOK
<1>20. NonceInv'
  BY <1>1, <1>11, <1>19 DEF EdgeInv, NonceInv
<1> QED BY <1>18, <1>20 DEF EdgeInv

-----------------------------------------------------------------------------
\* Every step keeps the invariant.
LEMMA EdgeStepInv == EdgeInv /\ [EdgeNext]_edgeVars => EdgeInv'
<1> SUFFICES ASSUME EdgeInv, [EdgeNext]_edgeVars PROVE EdgeInv'
  OBVIOUS
<1>1. CASE TimeGoesBy
  BY <1>1, TimeInv
<1>2. CASE \E n \in Nonce, t \in 1 .. MaxTime + Skew : Sign(n, t)
  BY <1>2, SignInv
<1>3. ASSUME NEW c \in Call, Exempt(c) PROVE EdgeInv'
  BY <1>3, ExemptInv
<1>4. ASSUME NEW c \in Call, NEW n \in Nonce, Verify(c, n) PROVE EdgeInv'
  BY <1>4, VerifyInv
<1>5. ASSUME NEW c \in Call, NEW now \in 1 .. MaxTime, Reserve(c, now) PROVE EdgeInv'
  BY <1>5, ReserveInv
<1>6. ASSUME NEW c \in Call, NEW now \in 1 .. MaxTime, NEW k \in Key, Limit(c, k, now) PROVE EdgeInv'
  BY <1>6, LimitInv
<1>7. CASE UNCHANGED edgeVars
  BY <1>7 DEF edgeVars, EdgeInv, EdgeTypeOK, NonceInv
<1> QED BY <1>1, <1>2, <1>3, <1>4, <1>5, <1>6, <1>7 DEF EdgeNext

\* The invariant holds in every behaviour.
LEMMA EdgeAlways == EdgeSpec => []EdgeInv
<1> QED BY EdgeInitInv, EdgeStepInv, PTL DEF EdgeSpec

(***************************************************************************)
(* Types: whatever readings of the clock the checks use, no bucket is      *)
(* fuller than Burst and no row is stamped ahead of the clock.             *)
(***************************************************************************)
THEOREM EdgeTypeCorrect == EdgeSpec => []EdgeTypeOK
<1>1. EdgeInv => EdgeTypeOK
  BY DEF EdgeInv
<1> QED BY <1>1, EdgeAlways, PTL

(***************************************************************************)
(* A nonce that was reserved is not reserved again before its signature    *)
(* has run out: a purge at an old reading of the clock removes less, and   *)
(* one at the current reading only what nobody's check would pass any more. *)
(***************************************************************************)
THEOREM SignaturesPassOnce == EdgeSpec => []AcceptedOnceWhileFresh
<1>1. EdgeInv => AcceptedOnceWhileFresh
  BY DEF EdgeInv, NonceInv, AcceptedOnceWhileFresh
<1> QED BY <1>1, EdgeAlways, PTL

-----------------------------------------------------------------------------
(***************************************************************************)
(* The budget of a bucket, from any check i to the last: what has been     *)
(* handed out since i and what is left add up to a full bucket and what    *)
(* the clock refilled.  The row, while it is there, is stamped by the last *)
(* check; when it is gone the clock has gone on long enough that a wait    *)
(* for the write lock cannot bring back a reading at which a kept row      *)
(* would not be full.                                                      *)
(***************************************************************************)
RowFollowsChecks(k) ==
  /\ buckets[k].there => served[k] # << >> /\ buckets[k].at = served[k][Len(served[k])].at
  /\ ~ buckets[k].there =>
       /\ buckets[k].units = 0
       /\ served[k] # << >> => served[k][Len(served[k])].at + StaleAfter <= time

\* What was handed out from check i to check j, where units are left, fits.
Fits(q, i, j, units) ==
  Cost * Taken(q, i, j) + q[i].at + q[i].back + units <= Burst + q[j].at + q[j].back

BudgetKept(k) ==
  /\ \A i \in 1 .. Len(served[k]) : Fits(served[k], i, Len(served[k]), buckets[k].units)
  /\ \A i, j \in 1 .. Len(served[k]) : i <= j => Fits(served[k], i, j, 0)

BudgetInv == \A k \in Key : RowFollowsChecks(k) /\ BudgetKept(k)

Checks(t) == [took : BOOLEAN, at : 0 .. t, back : Nat]

\* One more check hands out one token more or none.
LEMMA OneMoreTaken ==
  ASSUME NEW t \in Nat, NEW q \in Seq(Checks(t)), NEW e \in Checks(t), NEW i \in 1 .. Len(q) + 1
  PROVE  /\ Taken(q, i, Len(q)) \in Nat
         /\ Taken(Append(q, e), i, Len(q) + 1) = Taken(q, i, Len(q)) + (IF e.took THEN 1 ELSE 0)
         /\ \A j \in 1 .. Len(q) : Taken(Append(q, e), i, j) = Taken(q, i, j)
         /\ i = Len(q) + 1 => Taken(q, i, Len(q)) = 0
<1> DEFINE n == Len(q)
           S == {h \in i .. n : q[h].took}
           T == {h \in i .. n + 1 : Append(q, e)[h].took}
<1>1. n \in Nat /\ i \in Nat
  OBVIOUS
<1>2. IsFiniteSet(i .. n) /\ S \subseteq i .. n
  BY <1>1, FS_Interval
<1>3. IsFiniteSet(S)
  BY <1>2, FS_Subset
<1>4. /\ \A h \in 1 .. n : Append(q, e)[h] = q[h]
      /\ Append(q, e)[n + 1] = e
  BY Grown
<1>5. T = IF e.took THEN S \cup {n + 1} ELSE S
  BY <1>1, <1>4
<1>6. n + 1 \notin S
  BY <1>1
<1>7. Cardinality(T) = Cardinality(S) + (IF e.took THEN 1 ELSE 0) /\ Cardinality(S) \in Nat
  <2> HIDE DEF S, T
  <2>1. Cardinality(S) \in Nat
    BY <1>3, FS_CardinalityType
  <2>2. CASE e.took
    BY <2>1, <2>2, <1>3, <1>5, <1>6, FS_AddElement
  <2>3. CASE ~ e.took
    BY <2>1, <2>3, <1>5
  <2> QED BY <2>1, <2>2, <2>3
<1>8. ASSUME NEW j \in 1 .. n PROVE Taken(Append(q, e), i, j) = Taken(q, i, j)
  <2>1. {h \in i .. j : Append(q, e)[h].took} = {h \in i .. j : q[h].took}
    BY <1>1, <1>4
  <2> QED BY <2>1 DEF Taken
<1>9. i = n + 1 => S = {}
  BY <1>1
<1> QED BY <1>7, <1>8, <1>9, FS_EmptySet DEF Taken

\* The units of the tokens, one by one.
LEMMA CostOfOneMore ==
  ASSUME NEW n \in Nat
  PROVE  Cost * n \in Nat /\ Cost * (n + 1) = Cost * n + Cost /\ Cost * 0 = 0
BY Constants

\* The checks of a bucket, and any of them.
LEMMA ChecksType ==
  ASSUME EdgeInv, NEW k \in Key
  PROVE  /\ time \in Nat /\ served[k] \in Seq(Checks(time)) /\ Len(served[k]) \in Nat
         /\ DOMAIN served[k] = 1 .. Len(served[k])
         /\ \A i \in 1 .. Len(served[k]) :
              served[k][i] \in Checks(time) /\ served[k][i].at \in Nat /\ served[k][i].back \in Nat
<1>1. time \in Nat /\ served \in [Key -> Seq(Checks(time))]
  BY DEF EdgeInv, EdgeTypeOK, Checks
<1>2. \A x \in Checks(time) : x.at \in Nat /\ x.back \in Nat
  BY <1>1 DEF Checks
<1>3. served[k] \in Seq(Checks(time))
  BY <1>1
<1>4. \A i \in 1 .. Len(served[k]) : served[k][i] \in Checks(time)
  BY <1>3
<1> QED BY <1>1, <1>2, <1>3, <1>4

\* What a check leaves of the units it finds.
Leaves(units) == Less(units, IF units >= Cost THEN Cost ELSE 0)

\* What a check leaves in a bucket, with what it hands out, is what it found.
LEMMA UnitsSplit ==
  ASSUME NEW units \in Nat, NEW c \in Nat, NEW m \in Nat, c = Cost * m
  PROVE  /\ Leaves(units) \in Nat /\ Leaves(units) <= units
         /\ units >= Cost => Cost * (m + 1) = c + units - Leaves(units)
         /\ ~ (units >= Cost) => c = c + units - Leaves(units)
<1>1. CASE units >= Cost
  <2>1. Leaves(units) = units - Cost
    BY <1>1, Constants DEF Leaves, Less
  <2>3. Cost * (m + 1) = c + Cost
    BY CostOfOneMore
  <2>4. c + units - (units - Cost) = c + Cost /\ units - Cost \in Nat /\ units - Cost <= units
    BY <1>1, Constants
  <2> QED BY <1>1, <2>1, <2>3, <2>4
<1>2. CASE ~ (units >= Cost)
  <2>1. Leaves(units) = units
    BY <1>2, Constants DEF Leaves, Less
  <2> QED BY <1>2, <2>1
<1> QED BY <1>1, <1>2

\* What is put back may be taken again.
LEMMA SumsCompare ==
  ASSUME NEW c \in Nat, NEW units \in Nat, NEW left \in Nat, left <= units,
         NEW a \in Nat, NEW b \in Nat, NEW f \in Nat, NEW g \in Nat,
         c + a + b + units <= Burst + f + g
  PROVE  (c + units - left) + a + b + left <= Burst + f + g
BY Constants

\* A check that finds what was handed out within the budget leaves it so.
LEMMA CheckFits ==
  ASSUME NEW t \in Nat, NEW q \in Seq(Checks(t)), NEW e \in Checks(t),
         NEW units \in 0 .. Burst, e.took <=> units >= Cost,
         \A i \in 1 .. Len(q) :
           Cost * Taken(q, i, Len(q)) + q[i].at + q[i].back + units <= Burst + e.at + e.back
  PROVE  \A i \in 1 .. Len(q) + 1 : Fits(Append(q, e), i, Len(q) + 1, Leaves(units))
<1>0. Len(q) \in Nat /\ e.took \in BOOLEAN /\ e.at \in Nat /\ e.back \in Nat /\ units \in Nat
  BY Constants DEF Checks
<1>1. ASSUME NEW i \in 1 .. Len(q) + 1 PROVE Fits(Append(q, e), i, Len(q) + 1, Leaves(units))
  <2>1. PICK m \in Nat : m = Taken(q, i, Len(q))
    BY OneMoreTaken
  <2>2. Taken(Append(q, e), i, Len(q) + 1) = m + (IF e.took THEN 1 ELSE 0)
    BY <2>1, OneMoreTaken
  <2>3. PICK c \in Nat : c = Cost * m
    BY CostOfOneMore
  <2>4. Leaves(units) \in Nat /\ Cost * Taken(Append(q, e), i, Len(q) + 1) = c + units - Leaves(units) /\ Leaves(units) <= units
    <3>1. /\ Leaves(units) \in Nat /\ Leaves(units) <= units
          /\ units >= Cost => Cost * (m + 1) = c + units - Leaves(units)
          /\ ~ (units >= Cost) => c = c + units - Leaves(units)
      BY <1>0, <2>3, UnitsSplit, Zenon
    <3>2. IF e.took THEN Taken(Append(q, e), i, Len(q) + 1) = m + 1
                    ELSE Taken(Append(q, e), i, Len(q) + 1) = m
      BY <2>2
    <3> QED BY <3>1, <3>2, <2>3, Zenon
  <2>5. Append(q, e)[Len(q) + 1] = e
    BY Grown
  <2>6. CASE i = Len(q) + 1
    <3>1. m = 0
      BY <2>1, <2>6, OneMoreTaken
    <3>2. c = 0
      BY <2>3, <3>1, CostOfOneMore
    <3>3. c + e.at + e.back + units <= Burst + e.at + e.back
      <4>1. ASSUME NEW a \in Nat, NEW b \in Nat PROVE 0 + a + b + units <= Burst + a + b
        BY Constants
      <4> QED BY <4>1, <3>2, <1>0
    <3>4. (c + units - Leaves(units)) + e.at + e.back + Leaves(units) <= Burst + e.at + e.back
      BY <3>3, <2>4, <1>0, SumsCompare
    <3> QED BY <3>4, <2>4, <2>5, <2>6 DEF Fits
  <2>7. CASE i \in 1 .. Len(q)
    <3>1. Append(q, e)[i] = q[i]
      BY <2>7, Grown
    <3>2. q[i] \in Checks(t)
      BY <2>7
    <3>3. \A x \in Checks(t) : x.at \in Nat /\ x.back \in Nat
      BY DEF Checks
    <3>4. c + q[i].at + q[i].back + units <= Burst + e.at + e.back
      BY <2>1, <2>3, <2>7
    <3>5. (c + units - Leaves(units)) + q[i].at + q[i].back + Leaves(units) <= Burst + e.at + e.back
      BY <3>2, <3>3, <3>4, <2>4, <1>0, SumsCompare
    <3> QED BY <3>1, <3>5, <2>4, <2>5 DEF Fits
  <2> QED BY <2>6, <2>7, <1>0
<1> QED BY <1>1

\* Nothing has been handed out at first.
LEMMA BudgetInit == EdgeInit => BudgetInv
<1> SUFFICES ASSUME EdgeInit, NEW k \in Key PROVE RowFollowsChecks(k) /\ BudgetKept(k)
  BY DEF BudgetInv
<1>1. served[k] = << >> /\ buckets[k] = NoBucket
  BY DEF EdgeInit
<1> QED BY <1>1 DEF RowFollowsChecks, BudgetKept, NoBucket

\* A check of a bucket: what it finds fits what was handed out before it.
LEMMA LimitBudget ==
  ASSUME EdgeInv, BudgetInv, NEW c \in Call, NEW k \in Key, NEW now \in 1 .. MaxTime, Limit(c, k, now)
  PROVE  RowFollowsChecks(k)' /\ BudgetKept(k)'
<1> DEFINE row == Swept(now)[k]
           q   == served[k]
           n   == Len(served[k])
<1>1. /\ time' = time /\ time \in Nat /\ now \in Nat /\ now <= time /\ now + MaxLag >= time
      /\ StaleAfter \in Nat /\ StaleAfter >= Burst + MaxLag
  BY Constants DEF Limit, LockReadings, EdgeInv, EdgeTypeOK
<1>2. q \in Seq(Checks(time)) /\ n \in Nat
  BY ChecksType
<1>3. row \in [there : BOOLEAN, units : 0 .. Burst, at : 0 .. time]
  BY SweepType
<1>4. PICK units \in 0 .. Burst : units = Refill(row, now)
  BY <1>1, <1>3, RefillInBurst
<1>5. PICK left : left = Leaves(units)
  OBVIOUS
<1>6. PICK back : back = Setback(k) + (IF row.there THEN Less(row.at, now) ELSE 0)
  OBVIOUS
<1>7. PICK e : e = [took |-> units >= Cost, at |-> now, back |-> back]
  OBVIOUS
<1>8. buckets'[k] = [there |-> TRUE, units |-> left, at |-> now]
  BY <1>3, <1>4, <1>5 DEF Limit, Swept, Leaves
<1>9. served'[k] = Append(q, e)
  BY <1>4, <1>6, <1>7 DEF Limit, EdgeInv, EdgeTypeOK
<1> HIDE DEF row
<1>10. RowFollowsChecks(k) /\ BudgetKept(k)
  BY DEF BudgetInv
<1>11. \A x \in Checks(time) : x.at \in Nat /\ x.back \in Nat
  BY <1>1 DEF Checks
<1>12. ASSUME q # << >>
       PROVE  /\ n \in 1 .. n /\ q[n].at \in Nat /\ q[n].back \in Nat /\ Setback(k) = q[n].back
              /\ \A i \in 1 .. n : q[i].at \in Nat /\ q[i].back \in Nat
  <2>1. n \in 1 .. n /\ \A i \in 1 .. n : q[i] \in Checks(time)
    BY <1>2, <1>12
  <2> QED BY <2>1, <1>11, <1>12 DEF Setback
<1>13. Setback(k) \in Nat
  BY <1>12 DEF Setback
<1>14. PICK a \in Nat : a = row.at
  BY <1>1, <1>3
<1>15. back \in Nat
  <2>1. Less(a, now) \in Nat
    BY <1>1 DEF Less
  <2> QED BY <2>1, <1>6, <1>13, <1>14
<1>16. e \in Checks(time) /\ e.at = now /\ e.back = back /\ (e.took <=> units >= Cost)
  <2>1. now \in 0 .. time /\ (units >= Cost) \in BOOLEAN
    BY <1>1
  <2> QED BY <2>1, <1>7, <1>15 DEF Checks
\* A row that was purged would be full by the reading of this check.
<1>17. ASSUME ~ row.there, q # << >> PROVE q[n].at + Burst <= now
  <2>1. CASE ~ buckets[k].there
    <3>1. q[n].at + StaleAfter <= time
      BY <2>1, <1>10, <1>17 DEF RowFollowsChecks
    <3> QED BY <3>1, <1>1, <1>12, <1>17, Constants
  <2>2. CASE buckets[k].there
    <3>1. buckets[k].at = q[n].at
      BY <2>2, <1>10 DEF RowFollowsChecks
    <3>2. buckets[k].at + StaleAfter <= now
      BY <2>2, <1>17 DEF row, Swept
    <3> QED BY <3>1, <3>2, <1>1, <1>12, <1>17, Constants
  <2> QED BY <2>1, <2>2
<1>18. ASSUME row.there
       PROVE  /\ q # << >> /\ row.at = q[n].at /\ row = buckets[k]
  <2>1. row = buckets[k]
    BY <1>18 DEF row, Swept, NoBucket
  <2> QED BY <2>1, <1>10, <1>18 DEF RowFollowsChecks
<1>19. ASSUME NEW i \in 1 .. n
       PROVE  Cost * Taken(q, i, n) + q[i].at + q[i].back + units <= Burst + e.at + e.back
  <2>0. q # << >>
    BY <1>2, <1>19
  <2>1. PICK p \in Nat : p = Cost * Taken(q, i, n)
    <3>1. i \in 1 .. n + 1
      BY <1>2, <1>19
    <3>2. Taken(q, i, n) \in Nat
      BY <1>1, <1>2, <1>16, <3>1, OneMoreTaken
    <3> QED BY <3>2, CostOfOneMore
  <2>2. Fits(q, i, n, buckets[k].units)
    BY <1>10 DEF BudgetKept
  <2>3. PICK x \in Nat, y \in Nat, f \in Nat, g \in Nat :
          x = q[i].at /\ y = q[i].back /\ f = q[n].at /\ g = q[n].back
    BY <2>0, <1>12
  <2>4. PICK u \in Nat : u = buckets[k].units
    BY Constants DEF EdgeInv, EdgeTypeOK
  <2>5. p + x + y + u <= Burst + f + g
    BY <2>1, <2>2, <2>3, <2>4 DEF Fits
  <2>6. CASE row.there
    <3>1. a = f /\ row.units = u
      BY <2>3, <2>4, <2>6, <1>14, <1>18
    <3>2. units = Lower(Burst, u + Less(now, a))
      BY <2>6, <3>1, <1>4, <1>14 DEF Refill
    <3>3. back = g + Less(a, now)
      BY <2>0, <2>3, <2>6, <1>6, <1>12, <1>14
    <3>4. p + x + y + units <= Burst + now + back
      BY <2>5, <3>1, <3>2, <3>3, <1>1, Constants DEF Lower, Less
    <3> QED BY <3>4, <2>1, <2>3, <1>16
  <2>7. CASE ~ row.there
    <3>1. units = Burst
      BY <2>7, <1>4 DEF Refill
    <3>2. back = g
      BY <2>0, <2>3, <2>7, <1>6, <1>12
    <3>3. f + Burst <= now
      BY <2>0, <2>3, <2>7, <1>17
    <3>4. p + x + y + units <= Burst + now + back
      BY <2>5, <3>1, <3>2, <3>3, <1>1, Constants
    <3> QED BY <3>4, <2>1, <2>3, <1>16
  <2> QED BY <2>6, <2>7
<1>20. \A i \in 1 .. n + 1 : Fits(Append(q, e), i, n + 1, left)
  BY <1>1, <1>2, <1>5, <1>16, <1>19, CheckFits
<1>21. Len(Append(q, e)) = n + 1 /\ Append(q, e) # << >> /\ Append(q, e)[n + 1] = e
  <2>1. e \in Checks(time)
    BY <1>16
  <2> QED BY <1>2, <2>1
<1>22. RowFollowsChecks(k)'
  BY <1>8, <1>9, <1>16, <1>21 DEF RowFollowsChecks
<1>23. ASSUME NEW i \in 1 .. n + 1, NEW j \in 1 .. n + 1, i <= j PROVE Fits(Append(q, e), i, j, 0)
  <2>1. CASE j = n + 1
    <3>1. Fits(Append(q, e), i, n + 1, left) /\ left \in Nat
      BY <1>20, <1>4, <1>5, Constants DEF Leaves, Less
    <3>2. PICK p \in Nat : p = Cost * Taken(Append(q, e), i, n + 1)
      <4>1. Taken(q, i, n) \in Nat
            /\ Taken(Append(q, e), i, n + 1) = Taken(q, i, n) + (IF e.took THEN 1 ELSE 0)
        BY <1>1, <1>2, <1>16, OneMoreTaken
      <4>2. Taken(Append(q, e), i, n + 1) \in Nat
        BY <4>1
      <4> QED BY <4>2, CostOfOneMore
    <3>3. PICK f \in Checks(time) : f = Append(q, e)[i]
      <4>1. e \in Checks(time)
        BY <1>16
      <4>2. CASE i = n + 1
        BY <1>21, <4>1, <4>2
      <4>3. CASE i # n + 1
        <5>1. i \in 1 .. n
          BY <1>2, <1>23, <4>3
        <5>2. q[i] \in Checks(time)
          <6>1. n = Len(q) /\ q \in Seq(Checks(time))
            BY <1>2
          <6> QED BY <5>1, <6>1
        <5>3. Append(q, e)[i] = q[i]
          BY <1>2, <4>1, <5>1, Grown
        <5> QED BY <5>2, <5>3
      <4> QED BY <4>2, <4>3
    <3>4. f.at \in Nat /\ f.back \in Nat
      BY <1>11
    <3>5. p + f.at + f.back + left <= Burst + now + back
      BY <3>1, <3>2, <3>3, <1>16, <1>21 DEF Fits
    <3>6. p + f.at + f.back + 0 <= Burst + now + back
      BY <3>1, <3>4, <3>5, <1>1, <1>15, Constants
    <3> QED BY <2>1, <3>2, <3>3, <3>6, <1>16, <1>21 DEF Fits
  <2>2. CASE j \in 1 .. n
    <3>1. i \in 1 .. n
      BY <2>2, <1>2, <1>23
    <3>2. Fits(q, i, j, 0)
      BY <2>2, <3>1, <1>10, <1>23 DEF BudgetKept
    <3>3. Append(q, e)[i] = q[i] /\ Append(q, e)[j] = q[j]
      BY <2>2, <3>1, <1>2, <1>16, Grown
    <3>4. Taken(Append(q, e), i, j) = Taken(q, i, j)
      BY <2>2, <1>1, <1>2, <1>16, <1>23, OneMoreTaken
    <3> QED BY <3>2, <3>3, <3>4 DEF Fits
  <2>3. PICK m \in Nat : m = n
    BY <1>2
  <2>4. j = m + 1 \/ j \in 1 .. m
    BY <2>3
  <2> QED BY <2>1, <2>2, <2>3, <2>4
<1>24. BudgetKept(k)'
  <2>1. served'[k] = Append(q, e) /\ Len(served'[k]) = n + 1 /\ buckets'[k].units = left
    BY <1>8, <1>9, <1>21
  <2> QED BY <2>1, <1>20, <1>23 DEF BudgetKept, Fits
<1> QED BY <1>22, <1>24

\* A check of another bucket may purge the row of this one.
LEMMA PurgeBudget ==
  ASSUME EdgeInv, BudgetInv, NEW c \in Call, NEW k \in Key, NEW other \in Key \ {k},
         NEW now \in 1 .. MaxTime, Limit(c, other, now)
  PROVE  RowFollowsChecks(k)' /\ BudgetKept(k)'
<1>1. time' = time /\ served'[k] = served[k] /\ buckets'[k] = Swept(now)[k]
  BY DEF Limit, EdgeInv, EdgeTypeOK, Swept
<1>2. RowFollowsChecks(k) /\ BudgetKept(k)
  BY DEF BudgetInv
<1>3. CASE buckets'[k] = buckets[k]
  BY <1>1, <1>2, <1>3 DEF RowFollowsChecks, BudgetKept, Fits
<1>4. CASE buckets'[k] = NoBucket /\ buckets[k].there /\ buckets[k].at + StaleAfter <= now
  <2>1. now <= time /\ now \in Nat /\ time \in Nat
    BY DEF Limit, LockReadings, EdgeInv, EdgeTypeOK
  <2>2. served[k] # << >> /\ buckets[k].at = served[k][Len(served[k])].at
    BY <1>2, <1>4 DEF RowFollowsChecks
  <2>3. buckets[k].at \in Nat
    BY <2>1 DEF EdgeInv, EdgeTypeOK
  <2>4. served[k][Len(served[k])].at + StaleAfter <= time
    BY <2>1, <2>2, <2>3, <1>4, Constants
  <2>5. RowFollowsChecks(k)'
    BY <2>4, <1>1, <1>4 DEF RowFollowsChecks, NoBucket
  <2>6. \A i \in 1 .. Len(served[k]) : Fits(served[k], i, Len(served[k]), 0)
    <3>1. Len(served[k]) \in Nat
      BY ChecksType
    <3> QED BY <3>1, <1>2 DEF BudgetKept
  <2>7. buckets'[k].units = 0
    BY <1>4 DEF NoBucket
  <2>8. \A i \in 1 .. Len(served[k]) : Fits(served[k], i, Len(served[k]), buckets'[k].units)
    BY <2>6, <2>7
  <2>9. BudgetKept(k)'
    BY <2>8, <1>1, <1>2 DEF BudgetKept, Fits
  <2> QED BY <2>5, <2>9
<1>5. Swept(now)[k] = IF buckets[k].there /\ buckets[k].at + StaleAfter <= now
                      THEN NoBucket ELSE buckets[k]
  BY DEF Swept
<1> QED BY <1>1, <1>3, <1>4, <1>5, Zenon

\* Every step keeps what was handed out within the budget.
LEMMA BudgetStep == EdgeInv /\ BudgetInv /\ [EdgeNext]_edgeVars => BudgetInv'
<1> SUFFICES ASSUME EdgeInv, BudgetInv, [EdgeNext]_edgeVars, NEW k \in Key
             PROVE  RowFollowsChecks(k)' /\ BudgetKept(k)'
  BY DEF BudgetInv
<1>0. RowFollowsChecks(k) /\ BudgetKept(k)
  BY DEF BudgetInv
<1>1. CASE TimeGoesBy
  <2>1. UNCHANGED <<buckets, served>> /\ time' = time + 1 /\ time \in Nat
    BY <1>1 DEF TimeGoesBy, EdgeInv, EdgeTypeOK
  <2>2. served[k] # << >> => served[k][Len(served[k])].at \in Nat
    <3>1. served[k] # << >> => Len(served[k]) \in 1 .. Len(served[k])
      BY ChecksType
    <3> QED BY <3>1, ChecksType
  <2> QED BY <2>1, <2>2, <1>0, Constants DEF RowFollowsChecks, BudgetKept, Fits
<1>2. ASSUME NEW c \in Call, NEW now \in 1 .. MaxTime, NEW other \in Key, Limit(c, other, now)
      PROVE  RowFollowsChecks(k)' /\ BudgetKept(k)'
  BY <1>2, LimitBudget, PurgeBudget
<1>3. CASE UNCHANGED <<time, buckets, served>>
  BY <1>0, <1>3 DEF RowFollowsChecks, BudgetKept, Fits
<1>4. /\ \A n \in Nonce, t \in 1 .. MaxTime + Skew : Sign(n, t) => UNCHANGED <<time, buckets, served>>
      /\ \A c \in Call : Exempt(c) => UNCHANGED <<time, buckets, served>>
      /\ \A c \in Call, n \in Nonce : Verify(c, n) => UNCHANGED <<time, buckets, served>>
      /\ \A c \in Call, now \in 1 .. MaxTime : Reserve(c, now) => UNCHANGED <<time, buckets, served>>
      /\ UNCHANGED edgeVars => UNCHANGED <<time, buckets, served>>
  BY DEF Sign, Exempt, Verify, Reserve, edgeVars
<1> QED BY <1>1, <1>2, <1>3, <1>4 DEF EdgeNext

(***************************************************************************)
(* Whatever the readings of the clock and whichever rows are purged, the   *)
(* tokens handed out between any two checks of a bucket are within what    *)
(* it holds and what the clock refills: for any costs, any wait for the    *)
(* lock and any purge that waits long enough (consume_api_rate_limit_token *)
(* of memory/event_store.py).                                              *)
(***************************************************************************)
THEOREM TokensStayInBudget == EdgeSpec => []TokensInBudget
<1>1. EdgeInv /\ BudgetInv => TokensInBudget
  <2> SUFFICES ASSUME EdgeInv, BudgetInv, NEW k \in Key, NEW i \in DOMAIN served[k],
                      NEW j \in DOMAIN served[k], i <= j
               PROVE  Cost * Taken(served[k], i, j) + served[k][i].at + served[k][i].back
                        <= Burst + served[k][j].at + served[k][j].back
    BY DEF TokensInBudget
  <2>1. time \in Nat /\ Len(served[k]) \in Nat
    BY ChecksType
  <2>2. DOMAIN served[k] = 1 .. Len(served[k])
    BY ChecksType
  <2>3. Fits(served[k], i, j, 0)
    BY <2>2 DEF BudgetInv, BudgetKept
  <2>4. /\ served[k][i].at \in Nat /\ served[k][i].back \in Nat
        /\ served[k][j].at \in Nat /\ served[k][j].back \in Nat
    BY <2>2, ChecksType
  <2>5. PICK x \in Nat, y \in Nat : x = served[k][i].at /\ y = served[k][i].back
    BY <2>4
  <2>6. Taken(served[k], i, j) \in Nat
    <3>1. IsFiniteSet(i .. j)
      BY <2>1, <2>2, FS_Interval
    <3>2. IsFiniteSet({h \in i .. j : served[k][h].took})
      BY <3>1, FS_Subset
    <3> QED BY <3>2, FS_CardinalityType DEF Taken
  <2>7. PICK p \in Nat : p = Cost * Taken(served[k], i, j)
    BY <2>6, CostOfOneMore
  <2>8. p + x + y + 0 <= Burst + served[k][j].at + served[k][j].back
    BY <2>3, <2>5, <2>7 DEF Fits
  <2> QED BY <2>5, <2>7, <2>8
<1> QED BY <1>1, EdgeAlways, BudgetInit, BudgetStep, PTL DEF EdgeSpec
=============================================================================
