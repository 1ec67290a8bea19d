---------------------------- MODULE AdmissionProofs ----------------------------
(* Proofs about what admits a call: the in-flight counters and the failover     *)
(* lists that choose its channel (Routing) and the limits of its key (ApiKeys). *)
EXTENDS Routing, ApiKeys, TallyProofs, FiniteSetTheorems, SequenceTheorems, TLAPS

(* The in-flight counters, for any finite number of requests, any instances,   *)
(* and every setting of channels and faults.  What the candidates are plays no *)
(* role: a step may put any list into left.                                    *)

CountersOK ==
  /\ load \in [Instances -> Nat \cup {Missing}]
  /\ expired \in [Instances -> Nat]
  /\ DOMAIN at = Requests /\ DOMAIN left = Requests
  /\ counted \in [Requests -> BOOLEAN]

\* A call that has not begun is not counted.
NotYetCounted == \A r \in Requests : at[r] \in {"idle", "try", "done"} => ~counted[r]

IInv == CountersOK /\ NotYetCounted /\ LoadCoversCalls

\* The calls counted at instance i are finitely many.
LEMMA HoldersFinite ==
  ASSUME NEW i \in Instances
  PROVE  IsFiniteSet(Holders(i)) /\ Cardinality(Holders(i)) \in Nat
<1>1. Holders(i) \subseteq Requests
  BY DEF Holders
<1> QED
  BY <1>1, RequestsAssumption, FS_Subset, FS_CardinalityType

LEMMA FlooredAtZero ==
  ASSUME NEW n \in Int
  PROVE  Max({n, 0}) \in Nat /\ Max({n, 0}) >= n
<1>1. \E x \in {n, 0} : \A y \in {n, 0} : x >= y
  <2>1. CASE n >= 0
    BY <2>1
  <2>2. CASE ~(n >= 0)
    BY <2>2
  <2> QED
    BY <2>1, <2>2
<1>2. Max({n, 0}) \in {n, 0} /\ \A y \in {n, 0} : Max({n, 0}) >= y
  BY <1>1 DEF Max
<1>3. Max({n, 0}) >= 0
  BY <1>2
<1> QED
  BY <1>2, <1>3

LEMMA LeastOfTwo ==
  ASSUME NEW m \in Nat, NEW n \in Nat
  PROVE  Min({m, n}) \in Nat /\ (Min({m, n}) = m \/ Min({m, n}) = n)
<1>1. \E x \in {m, n} : \A y \in {m, n} : x =< y
  <2>1. CASE m =< n
    BY <2>1
  <2>2. CASE ~(m =< n)
    BY <2>2
  <2> QED
    BY <2>1, <2>2
<1>2. Min({m, n}) \in {m, n}
  BY <1>1 DEF Min
<1> QED
  BY <1>2

LEMMA FewerHolders ==
  ASSUME NEW S, NEW T, IsFiniteSet(S), T \subseteq S
  PROVE  Cardinality(T) <= Cardinality(S) /\ Cardinality(T) \in Nat /\ Cardinality(S) \in Nat
BY FS_Subset, FS_CardinalityType

LEMMA OneMore ==
  ASSUME NEW S, NEW x, IsFiniteSet(S)
  PROVE  /\ IsFiniteSet(S \cup {x})
         /\ Cardinality(S \cup {x}) <= Cardinality(S) + 1
<1>1. Cardinality(S) \in Nat
  BY FS_CardinalityType
<1>2. /\ IsFiniteSet(S \cup {x})
      /\ Cardinality(S \cup {x}) = IF x \in S THEN Cardinality(S) ELSE Cardinality(S) + 1
  BY FS_AddElement
<1> QED
  BY <1>1, <1>2

\* What the invariant says of one instance.
LEMMA OneInstance ==
  ASSUME IInv, NEW i \in Instances
  PROVE  /\ load[i] \in Nat \cup {-1} /\ Counter(i) \in Nat /\ expired[i] \in Nat
         /\ IsFiniteSet(Holders(i)) /\ Cardinality(Holders(i)) \in Nat
         /\ Counter(i) + expired[i] >= Cardinality(Holders(i))
<1>1. load[i] \in Nat \cup {-1} /\ expired[i] \in Nat
  BY DEF IInv, CountersOK, Missing
<1>2. Counter(i) \in Nat
  BY <1>1 DEF Counter, Missing
<1> QED
  BY <1>1, <1>2, HoldersFinite DEF IInv, LoadCoversCalls

\* No counter is written and nobody is counted.
LEMMA NobodyCounted ==
  ASSUME IInv, NEW i \in Instances, load'[i] = load[i], expired'[i] = expired[i],
         Holders(i)' \subseteq Holders(i)
  PROVE  Counter(i)' + expired'[i] >= Cardinality(Holders(i)')
<1>1. Cardinality(Holders(i)') <= Cardinality(Holders(i)) /\ Cardinality(Holders(i)') \in Nat
  BY OneInstance, FewerHolders
<1>2. Counter(i)' = Counter(i)
  BY DEF Counter
<1> QED
  BY <1>1, <1>2, OneInstance

\* No counter is touched at all.
LEMMA NoCounterWritten ==
  ASSUME IInv, UNCHANGED <<load, expired>>, CountersOK', NotYetCounted',
         \A i \in Instances : Holders(i)' \subseteq Holders(i)
  PROVE  IInv'
<1>1. ASSUME NEW i \in Instances PROVE Counter(i)' + expired'[i] >= Cardinality(Holders(i)')
  BY NobodyCounted
<1> QED
  BY <1>1 DEF IInv, LoadCoversCalls

\* A raised counter.
LEMMA Raised ==
  ASSUME IInv, NEW h, load' = [load EXCEPT ![h] = Counter(h) + 1]
  PROVE  /\ load' \in [Instances -> Nat \cup {Missing}]
         /\ \A i \in Instances : load'[i] = IF i = h THEN Counter(i) + 1 ELSE load[i]
         /\ \A i \in Instances : i = h => Counter(i)' = Counter(i) + 1
<1>1. \A i \in Instances : load[i] \in Nat \cup {-1} /\ Counter(i) \in Nat
  BY OneInstance
<1>2. load \in [Instances -> Nat \cup {Missing}]
  BY DEF IInv, CountersOK
<1>3. load' = [i \in Instances |-> IF i = h THEN Counter(h) + 1 ELSE load[i]]
  BY <1>2
<1>4. \A i \in Instances : load'[i] = IF i = h THEN Counter(i) + 1 ELSE load[i]
  BY <1>3
<1>5. load' \in [Instances -> Nat \cup {Missing}]
  <2>1. \A i \in Instances : load'[i] \in Nat \cup {Missing}
    BY <1>1, <1>4 DEF Missing
  <2>2. load' = [i \in Instances |-> load'[i]]
    BY <1>3
  <2> QED
    BY <2>1, <2>2
<1>6. \A i \in Instances : i = h => Counter(i)' = Counter(i) + 1
  BY <1>1, <1>4 DEF Counter, Missing
<1> QED
  BY <1>4, <1>5, <1>6

LEMMA AcquireStep ==
  ASSUME IInv, NEW q \in Requests, Acquire(q)
  PROVE  IInv'
<1> DEFINE h == Here(q)
<1>1. /\ at[q] = "try" /\ left' = left /\ expired' = expired
      /\ ~counted[q]
  BY DEF Acquire, IInv, NotYetCounted
<1>2. /\ DOMAIN at = Requests /\ DOMAIN left = Requests /\ counted \in [Requests -> BOOLEAN]
      /\ expired \in [Instances -> Nat] /\ load \in [Instances -> Nat \cup {Missing}]
  BY DEF IInv, CountersOK
<1>3. load' = load \/ load' = [load EXCEPT ![h] = Counter(h) + 1]
  BY DEF Acquire
<1>4. /\ load' \in [Instances -> Nat \cup {Missing}]
      /\ \A i \in Instances : i # h => load'[i] = load[i]
      /\ \A i \in Instances : load'[i] = load[i]
           \/ (i = h /\ Counter(i)' = Counter(i) + 1)
  <2> HIDE DEF h
  <2>1. CASE load' = load
    BY <2>1, <1>2
  <2>2. CASE load' = [load EXCEPT ![h] = Counter(h) + 1]
    BY <2>2, Raised
  <2> QED
    BY <1>3, <2>1, <2>2
<1>5. CASE at' = [at EXCEPT ![q] = "calling"] /\ UNCHANGED counted
  <2>1. CountersOK' /\ NotYetCounted'
    BY <1>1, <1>2, <1>4, <1>5 DEF IInv, CountersOK, NotYetCounted
  <2>2. ASSUME NEW i \in Instances PROVE Counter(i)' + expired'[i] >= Cardinality(Holders(i)')
    <3>1. Holders(i)' \subseteq Holders(i)
      BY <1>1, <1>2, <1>5 DEF Holders, Here
    <3>2. Cardinality(Holders(i)') <= Cardinality(Holders(i)) /\ Cardinality(Holders(i)') \in Nat
      BY <3>1, OneInstance, FewerHolders
    <3>3. CASE load'[i] = load[i]
      BY <1>1, <3>1, <3>3, NobodyCounted
    <3>4. CASE Counter(i)' = Counter(i) + 1
      BY <1>1, <3>2, <3>4, OneInstance
    <3> QED
      BY <1>4, <3>3, <3>4
  <2> QED
    BY <2>1, <2>2 DEF IInv, LoadCoversCalls
<1>6. CASE /\ load' = [load EXCEPT ![h] = Counter(h) + 1]
           /\ counted' = [counted EXCEPT ![q] = TRUE]
           /\ at' = [at EXCEPT ![q] = "renew"]
  <2>1. CountersOK' /\ NotYetCounted'
    BY <1>1, <1>2, <1>4, <1>6 DEF IInv, CountersOK, NotYetCounted
  <2>2. ASSUME NEW i \in Instances PROVE Counter(i)' + expired'[i] >= Cardinality(Holders(i)')
    <3>1. CASE h = i
      <4> DEFINE H == Holders(i)
      <4>1. Holders(i)' \subseteq H \cup {q}
        BY <1>1, <1>2, <1>6 DEF Holders, Here
      <4>2. IsFiniteSet(H) /\ Cardinality(H) \in Nat
        BY OneInstance
      <4>3. Counter(i) \in Nat /\ expired[i] \in Nat /\ Counter(i) + expired[i] >= Cardinality(H)
        BY OneInstance
      <4>4. Counter(i)' = Counter(i) + 1
        <5> HIDE DEF h
        <5> QED
          BY <1>6, <3>1, Raised
      <4>5. Cardinality(Holders(i)') <= Cardinality(H) + 1 /\ Cardinality(Holders(i)') \in Nat
        <5> HIDE DEF H
        <5>1. IsFiniteSet(H \cup {q}) /\ Cardinality(H \cup {q}) <= Cardinality(H) + 1
          BY <4>2, OneMore
        <5>2. /\ Cardinality(Holders(i)') <= Cardinality(H \cup {q})
              /\ Cardinality(Holders(i)') \in Nat /\ Cardinality(H \cup {q}) \in Nat
          BY <4>1, <5>1, FewerHolders
        <5> QED
          BY <4>2, <5>1, <5>2
      <4> HIDE DEF H
      <4> QED
        BY <1>1, <4>2, <4>3, <4>4, <4>5
    <3>2. CASE h # i
      <4>1. Holders(i)' \subseteq Holders(i)
        BY <1>1, <1>2, <1>6, <3>2 DEF Holders, Here
      <4> QED
        BY <1>1, <1>4, <3>2, <4>1, NobodyCounted
    <3> QED
      BY <3>1, <3>2
  <2> QED
    BY <2>1, <2>2 DEF IInv, LoadCoversCalls
<1> QED
  BY <1>5, <1>6 DEF Acquire

\* PEXPIRE counts nobody.
LEMMA ExpireStep ==
  ASSUME IInv, NEW q \in Requests, Renew(q) \/ Beat(q)
  PROVE  IInv'
<1>1. /\ UNCHANGED <<load, expired, left, counted>>
      /\ at' = at \/ (at[q] = "renew" /\ at' = [at EXCEPT ![q] = "calling"])
  BY DEF Renew, Beat
<1>2. CountersOK' /\ NotYetCounted'
  BY <1>1 DEF IInv, CountersOK, NotYetCounted
<1>3. \A i \in Instances : Holders(i)' \subseteq Holders(i)
  BY <1>1 DEF Holders, Here, IInv, CountersOK
<1> QED
  BY <1>1, <1>2, <1>3, NoCounterWritten

\* The history of the instance of q is cut down to its other calls.
LEMMA HistoryCut ==
  ASSUME IInv, NEW q \in Requests, Ended(q)
  PROVE  /\ expired' \in [Instances -> Nat]
         /\ \A i \in Instances : Here(q) # i => expired'[i] = expired[i]
         /\ \A i \in Instances : \/ expired'[i] = expired[i]
                                 \/ expired'[i] = Cardinality(Holders(i) \ {q})
<1> DEFINE h == Here(q)
           least == Min({expired[h], Cardinality(Holders(h) \ {q})})
<1>1. expired \in [Instances -> Nat]
  BY DEF IInv, CountersOK
<1>2. expired' = [expired EXCEPT ![h] = least]
  BY DEF Ended
<1>3. ASSUME h \in Instances
      PROVE  least \in Nat /\ (least = expired[h] \/ least = Cardinality(Holders(h) \ {q}))
  <2>1. Cardinality(Holders(h) \ {q}) \in Nat
    BY <1>3, HoldersFinite, FewerHolders
  <2>2. expired[h] \in Nat
    BY <1>1, <1>3
  <2> QED
    BY <2>1, <2>2, LeastOfTwo
<1> HIDE DEF least, h
<1>4. \A i \in Instances : expired'[i] = IF i = h THEN least ELSE expired[i]
  BY <1>1, <1>2
<1>5. expired' \in [Instances -> Nat]
  BY <1>1, <1>2, <1>3
<1>6. ASSUME NEW i \in Instances
      PROVE  /\ h # i => expired'[i] = expired[i]
             /\ expired'[i] = expired[i] \/ expired'[i] = Cardinality(Holders(i) \ {q})
  BY <1>3, <1>4
<1> QED
  BY <1>5, <1>6 DEF h

\* The call of q ends and its counter is lowered at most once, and only if q was
\* counted.
LEMMA CallEnds ==
  ASSUME IInv, NEW q \in Requests, Ended(q), NEW i \in Instances,
         Holders(i)' = Holders(i) \ {q}, Counter(i)' \in Nat,
         Counter(i)' = Counter(i) \/ (q \in Holders(i) /\ Counter(i)' >= Counter(i) - 1)
  PROVE  Counter(i)' + expired'[i] >= Cardinality(Holders(i)')
<1>1. /\ Counter(i) \in Nat /\ expired[i] \in Nat
      /\ IsFiniteSet(Holders(i)) /\ Cardinality(Holders(i)) \in Nat
      /\ Counter(i) + expired[i] >= Cardinality(Holders(i))
  BY OneInstance
<1>2. Cardinality(Holders(i)') <= Cardinality(Holders(i)) /\ Cardinality(Holders(i)') \in Nat
  BY <1>1, FewerHolders
<1>3. CASE expired'[i] = Cardinality(Holders(i) \ {q})
  BY <1>2, <1>3
<1>4. CASE expired'[i] = expired[i] /\ Counter(i)' = Counter(i)
  BY <1>1, <1>2, <1>4
<1>5. CASE expired'[i] = expired[i] /\ q \in Holders(i) /\ Counter(i)' >= Counter(i) - 1
  <2>1. Cardinality(Holders(i)') = Cardinality(Holders(i)) - 1
    BY <1>1, <1>5, FS_RemoveElement
  <2> QED
    BY <1>1, <1>5, <2>1
<1> QED
  BY <1>3, <1>4, <1>5, HistoryCut

\* The end of an attempt: the call of q is not counted any more.
LEMMA UncountStep ==
  ASSUME IInv, NEW q \in Requests, at[q] = "calling", Uncount(q),
         NEW label \in {"try", "done"}, at' = [at EXCEPT ![q] = label],
         DOMAIN left' = Requests, \A r \in Requests \ {q} : left'[r] = left[r]
  PROVE  IInv'
<1> DEFINE h == Here(q)
<1>1. counted' = [counted EXCEPT ![q] = FALSE] /\ Ended(q)
  BY DEF Uncount
<1>2. load \in [Instances -> Nat \cup {-1}]
  BY DEF IInv, CountersOK, Missing
<1>3. \/ load' = load
      \/ counted[q] /\ load' = [load EXCEPT ![h] = Lowered(@)]
  BY DEF Uncount
<1>4. \A n \in Nat \cup {-1} : Lowered(n) \in Nat \cup {-1}
  BY DEF Lowered, Missing
<1>5. load' \in [Instances -> Nat \cup {-1}]
  <2> HIDE DEF h
  <2> QED
    BY <1>2, <1>3, <1>4
<1>6. CountersOK'
  BY <1>1, <1>5, HistoryCut DEF IInv, CountersOK, Missing
<1>7. NotYetCounted'
  BY <1>1 DEF IInv, CountersOK, NotYetCounted
<1>8. \A i \in Instances : Holders(i)' = Holders(i) \ {q}
  BY <1>1 DEF Holders, Here, IInv, CountersOK
<1>9. ASSUME NEW i \in Instances PROVE Counter(i)' + expired'[i] >= Cardinality(Holders(i)')
  <2>1. Counter(i)' \in Nat
    BY <1>5 DEF Counter, Missing
  <2>2. CASE load'[i] = load[i]
    <3>1. Counter(i)' = Counter(i)
      BY <2>2 DEF Counter
    <3> QED
      BY <1>1, <1>8, <2>1, <3>1, CallEnds
  <2>3. CASE counted[q] /\ i = h /\ load'[i] = Lowered(load[i])
    <3>1. q \in Holders(i)
      BY <2>3 DEF Holders
    <3>2. Counter(i)' >= Counter(i) - 1
      BY <1>2, <2>3 DEF Counter, Lowered, Missing
    <3> QED
      BY <1>1, <1>8, <2>1, <3>1, <3>2, CallEnds
  <2>4. load'[i] = load[i] \/ (counted[q] /\ i = h /\ load'[i] = Lowered(load[i]))
    <3> HIDE DEF h
    <3> QED
      BY <1>2, <1>3
  <2> QED
    BY <2>2, <2>3, <2>4
<1> QED
  BY <1>6, <1>7, <1>9 DEF IInv, LoadCoversCalls

\* A process that stops leaves its counter as it is.
LEMMA CrashStep ==
  ASSUME IInv, NEW q \in Requests, Crash(q)
  PROVE  IInv'
<1>1. /\ UNCHANGED <<load, left, counted>> /\ Ended(q)
      /\ \E label \in {"dead", "cut"} : at' = [at EXCEPT ![q] = label]
  BY DEF Crash
<1>2. CountersOK'
  BY <1>1, HistoryCut DEF IInv, CountersOK
<1>3. NotYetCounted'
  BY <1>1 DEF IInv, CountersOK, NotYetCounted
<1>4. ASSUME NEW i \in Instances PROVE Counter(i)' + expired'[i] >= Cardinality(Holders(i)')
  <2>1. Holders(i)' = Holders(i) \ {q}
    BY <1>1 DEF Holders, Here, IInv, CountersOK
  <2>2. Counter(i)' = Counter(i)
    BY <1>1 DEF Counter
  <2> QED
    BY <1>1, <2>1, <2>2, OneInstance, CallEnds
<1> QED
  BY <1>2, <1>3, <1>4 DEF IInv, LoadCoversCalls

\* What is decided before and after the calls of a request counts nobody.
LEMMA RequestStep ==
  ASSUME IInv, NEW q \in Requests, Deny(q) \/ Route(q) \/ Return(q)
  PROVE  IInv'
<1>1. UNCHANGED <<load, expired, counted>>
  BY DEF Deny, Route, Return, redis
<1>2. /\ at[q] \in {"idle", "done"}
      /\ \E label \in {"done", "try", "idle"} : at' = [at EXCEPT ![q] = label]
      /\ left' = left \/ \E mine : left' = [left EXCEPT ![q] = mine]
  <2>1. CASE Deny(q)
    BY <2>1 DEF Deny, Arriving
  <2>2. CASE Route(q)
    <3>1. PICK m \in setting.modes, hash \in setting.hashes, blind \in BOOLEAN :
            /\ left' = [left EXCEPT ![q] = Allowed(m, Candidates(m, hash, blind))]
            /\ at' = [at EXCEPT ![q] = IF Allowed(m, Candidates(m, hash, blind)) = <<>>
                                       THEN "done" ELSE "try"]
      BY <2>2 DEF Route
    <3> DEFINE mine == Allowed(m, Candidates(m, hash, blind))
    <3>2. /\ left' = [left EXCEPT ![q] = mine]
          /\ at' = [at EXCEPT ![q] = IF mine = <<>> THEN "done" ELSE "try"]
      BY <3>1
    <3>3. at[q] = "idle"
      BY <2>2 DEF Route, Arriving
    <3> HIDE DEF mine
    <3> QED
      BY <3>2, <3>3
  <2>3. CASE Return(q)
    BY <2>3 DEF Return
  <2> QED
    BY <2>1, <2>2, <2>3
<1>3. ~counted[q]
  BY <1>2 DEF IInv, NotYetCounted
<1>4. CountersOK' /\ NotYetCounted'
  BY <1>1, <1>2, <1>3 DEF IInv, CountersOK, NotYetCounted
<1>5. \A i \in Instances : Holders(i)' \subseteq Holders(i)
  BY <1>1, <1>2 DEF Holders, Here, IInv, CountersOK
<1> QED
  BY <1>1, <1>4, <1>5, NoCounterWritten

LEMMA AttemptEnds ==
  ASSUME IInv, NEW q \in Requests, Refuse(q) \/ Answered(q) \/ Failed(q)
  PROVE  IInv'
<1>1. at[q] = "calling" /\ Uncount(q)
  BY DEF Refuse, Answered, Failed
<1>2. \E label \in {"try", "done"} : at' = [at EXCEPT ![q] = label]
  BY DEF Refuse, Answered, Failed
<1>3. DOMAIN left' = Requests /\ \A r \in Requests \ {q} : left'[r] = left[r]
  <2>1. DOMAIN left = Requests
    BY DEF IInv, CountersOK
  <2>2. left' = left \/ left' = [left EXCEPT ![q] = Tail(@)]
    BY DEF Refuse, Answered, Failed
  <2> QED
    BY <2>1, <2>2
<1> QED
  BY <1>1, <1>2, <1>3, UncountStep

\* A key that expires takes its count into the history, as far as there are
\* calls in flight.
LEMMA LapseStep ==
  ASSUME IInv, NEW j \in Instances, Lapse(j)
  PROVE  IInv'
<1> DEFINE lost == expired[j] + Counter(j)
           least == Min({lost, Cardinality(Holders(j))})
<1>1. /\ load' = [load EXCEPT ![j] = Missing]
      /\ expired' = [expired EXCEPT ![j] = least]
      /\ at' = at /\ left' = left /\ counted' = counted
  BY DEF Lapse, routed
<1>2. /\ least \in Nat /\ (least = lost \/ least = Cardinality(Holders(j)))
      /\ lost >= Cardinality(Holders(j))
  <2>1. lost \in Nat /\ Cardinality(Holders(j)) \in Nat /\ lost >= Cardinality(Holders(j))
    BY OneInstance
  <2> HIDE DEF lost
  <2> QED
    BY <2>1, LeastOfTwo
<1> HIDE DEF least
<1>3. CountersOK' /\ NotYetCounted'
  BY <1>1, <1>2 DEF IInv, CountersOK, NotYetCounted
<1>4. ASSUME NEW i \in Instances PROVE Counter(i)' + expired'[i] >= Cardinality(Holders(i)')
  <2>1. Holders(i)' = Holders(i)
    BY <1>1 DEF Holders, Here
  <2>2. CASE i = j
    <3>1. Counter(i)' = 0
      BY <1>1, <2>2 DEF Counter, IInv, CountersOK
    <3>2. expired'[i] = least
      BY <1>1, <2>2 DEF IInv, CountersOK
    <3>3. Cardinality(Holders(i)') \in Nat /\ Cardinality(Holders(i)') = Cardinality(Holders(j))
      BY <2>1, <2>2, OneInstance
    <3>4. least >= Cardinality(Holders(j)) /\ least \in Nat
      BY <1>2, HoldersFinite
    <3> QED
      BY <3>1, <3>2, <3>3, <3>4
  <2>3. CASE i # j
    <3>1. load'[i] = load[i] /\ expired'[i] = expired[i]
      BY <1>1, <2>3 DEF IInv, CountersOK
    <3> QED
      BY <2>1, <3>1, NobodyCounted
  <2> QED
    BY <2>2, <2>3
<1> QED
  BY <1>3, <1>4 DEF IInv, LoadCoversCalls

\* What touches neither the calls nor the counters.
LEMMA Elsewhere ==
  ASSUME IInv, UNCHANGED <<load, expired, at, left, counted>>
  PROVE  IInv'
<1>1. CountersOK' /\ NotYetCounted'
  BY DEF IInv, CountersOK, NotYetCounted
<1>2. \A i \in Instances : Holders(i)' \subseteq Holders(i)
  BY DEF Holders, Here
<1> QED
  BY <1>1, <1>2, NoCounterWritten

LEMMA SettingStays ==
  ASSUME [Next]_vars
  PROVE  setting' = setting
BY DEF Next, vars, Deny, Route, Serve, Acquire, Renew, Refuse, Answered, Failed, Crash, Return,
       Beat, Lapse, Forget, Check, StartCycle, ReadScore, Probe, WriteScore, Toggle

\* The requests that act are requests of the model.
RequestsKnown == setting.requests \subseteq Requests

LEMMA InitHolds ==
  ASSUME Init
  PROVE  IInv /\ RequestsKnown
<1>1. RequestsKnown
  BY SettingsAssumption DEF Init, RequestsKnown
<1>2. CountersOK /\ NotYetCounted
  BY DEF Init, CountersOK, NotYetCounted, Missing
<1>3. ASSUME NEW i \in Instances PROVE Counter(i) + expired[i] >= Cardinality(Holders(i))
  <2>1. Holders(i) = {}
    BY DEF Init, Holders
  <2>2. Cardinality(Holders(i)) = 0
    BY <2>1, FS_EmptySet
  <2> QED
    BY <2>2 DEF Init, Counter, Missing
<1> QED
  BY <1>1, <1>2, <1>3 DEF IInv, LoadCoversCalls

LEMMA StepHolds ==
  ASSUME IInv, RequestsKnown, [Next]_vars
  PROVE  IInv' /\ RequestsKnown'
<1>1. RequestsKnown'
  BY SettingStays DEF RequestsKnown
<1>2. ASSUME NEW q \in setting.requests,
             Deny(q) \/ Route(q) \/ Serve(q) \/ Beat(q) \/ Crash(q) \/ Return(q)
      PROVE  IInv'
  <2>1. q \in Requests
    BY DEF RequestsKnown
  <2> QED
    BY <1>2, <2>1, RequestStep, AcquireStep, ExpireStep, AttemptEnds, CrashStep DEF Serve
<1>3. ASSUME NEW i \in Instances, Lapse(i) PROVE IInv'
  BY <1>3, LapseStep
<1>4. ASSUME Forget PROVE IInv'
  <2>1. UNCHANGED <<load, expired, at, left, counted>>
    BY <1>4 DEF Forget, routed
  <2> QED
    BY <2>1, Elsewhere
<1>5. ASSUME NEW w \in setting.workers, Check(w) PROVE IInv'
  <2>1. UNCHANGED <<load, expired, at, left, counted>>
    BY <1>5 DEF Check, StartCycle, ReadScore, Probe, WriteScore, redis, routed
  <2> QED
    BY <2>1, Elsewhere
<1>6. ASSUME NEW c \in Existing, Toggle(c) PROVE IInv'
  <2>1. UNCHANGED <<load, expired, at, left, counted>>
    BY <1>6 DEF Toggle, redis, routed
  <2> QED
    BY <2>1, Elsewhere
<1>7. ASSUME UNCHANGED vars PROVE IInv'
  <2>1. UNCHANGED <<load, expired, at, left, counted>>
    BY <1>7 DEF vars, redis, routed
  <2> QED
    BY <2>1, Elsewhere
<1> QED
  BY <1>1, <1>2, <1>3, <1>4, <1>5, <1>6, <1>7 DEF Next

\* A counter in Redis is below the calls it counts at most by the counts that
\* expired under calls in flight, for any number of requests, whatever crashes,
\* fails, expires or comes between the two commands of Acquire.  What has to be
\* carried along is that no call is counted before it begins, so that it is
\* counted once; the decrements of calls whose count expired delete a key instead
\* of taking the counts of others, unless the history already holds theirs.
THEOREM CountersCoverCalls == Spec => []LoadCoversCalls
<1>1. Init => IInv /\ RequestsKnown
  BY InitHolds
<1>2. IInv /\ RequestsKnown /\ [Next]_vars => (IInv /\ RequestsKnown)'
  BY StepHolds
<1>3. IInv => LoadCoversCalls
  BY DEF IInv
<1> QED
  BY <1>1, <1>2, <1>3, PTL DEF Spec

-----------------------------------------------------------------------------
(* The lists of the failover loops, for any number of channels, tiers and      *)
(* requests.  The router is folds over lists; a fold is first brought into a   *)
(* form in which it can be followed element by element.                        *)

\* The highest of the first numbers.
LEMMA MaxOfFirst ==
  ASSUME NEW n \in Nat \ {0}
  PROVE  Max(1..n) = n
<1>1. n \in 1..n /\ \A y \in 1..n : n >= y OBVIOUS
<1>2. \A x \in 1..n : (\A y \in 1..n : x >= y) => x = n BY <1>1
<1> QED BY <1>1, <1>2 DEF Max

LEMMA MaxOfExtended ==
  ASSUME NEW n \in Nat, NEW s \in SUBSET (1..(n + 1)), n + 1 \in s
  PROVE  Max(s) = n + 1
<1>1. \A y \in s : n + 1 >= y OBVIOUS
<1>2. \A x \in s : (\A y \in s : x >= y) => x = n + 1
  <2> SUFFICES ASSUME NEW x \in s, \A y \in s : x >= y PROVE x = n + 1 OBVIOUS
  <2>1. x >= n + 1 /\ n + 1 >= x /\ x \in Int BY <1>1
  <2> QED BY <2>1
<1> QED BY <1>1, <1>2 DEF Max

-----------------------------------------------------------------------------
(* The folds of the router.                                                  *)

\* One step of each of them: Kept, of a set p, and OrderChannels, of a list p[1]
\* and a hash p[2].
Applied(fold, p, acc, x) ==
  IF fold = "keep" THEN IF x \in p THEN Append(acc, x) ELSE acc
  ELSE acc \o OrderGroup(Kept(p[1], OfTier(x)), p[2])

\* A fold as the function on sets the library defines it by.
IsFold(fold, p, b, x, n, g) ==
  g = [s \in SUBSET (1..n) |->
         IF s = {} THEN b ELSE Applied(fold, p, g[s \ {Max(s)}], x[Max(s)])]

\* A fold element by element.
IsRun(fold, p, b, x, n, r) ==
  /\ r[0] = b
  /\ \A i \in 1..n : r[i] = Applied(fold, p, r[i - 1], x[i])

\* There is one: the function for n + 1 elements extends that for n.
LEMMA FoldExists ==
  ASSUME NEW fold, NEW p, NEW b, NEW x, NEW n \in Nat
  PROVE  \E g : IsFold(fold, p, b, x, n, g)
<1> DEFINE N == {m \in Nat : \E g : IsFold(fold, p, b, x, m, g)}
<1>1. 0 \in N
  <2> DEFINE g == [s \in SUBSET (1..0) |-> b]
  <2>1. \A s \in SUBSET (1..0) : s = {} OBVIOUS
  <2>2. IsFold(fold, p, b, x, 0, g) BY <2>1 DEF IsFold
  <2> QED BY <2>2
<1>2. ASSUME NEW m \in N PROVE m + 1 \in N
  <2>1. m \in Nat /\ m + 1 \in Nat OBVIOUS
  <2>2. PICK g : IsFold(fold, p, b, x, m, g) OBVIOUS
  <2> DEFINE h == [s \in SUBSET (1..(m + 1)) |->
               IF m + 1 \in s THEN Applied(fold, p, g[s \ {m + 1}], x[m + 1]) ELSE g[s]]
  <2>3. ASSUME NEW s \in SUBSET (1..(m + 1))
        PROVE  h[s] = IF s = {} THEN b ELSE Applied(fold, p, h[s \ {Max(s)}], x[Max(s)])
    <3>1. CASE m + 1 \in s
      <4>1. Max(s) = m + 1 BY <2>1, <3>1, MaxOfExtended
      <4>2. s \ {m + 1} \in SUBSET (1..(m + 1)) /\ m + 1 \notin s \ {m + 1} /\ s # {} BY <3>1
      <4>3. h[s \ {m + 1}] = g[s \ {m + 1}] BY <4>2
      <4> QED BY <3>1, <4>1, <4>2, <4>3
    <3>2. CASE m + 1 \notin s
      <4>1. s \in SUBSET (1..m) BY <2>1, <3>2
      <4>2. h[s] = g[s] BY <3>2
      <4>3. CASE s = {} BY <2>2, <4>1, <4>2, <4>3 DEF IsFold
      <4>4. CASE s # {}
        <5>1. s \ {Max(s)} \in SUBSET (1..m) /\ m + 1 \notin s \ {Max(s)} BY <3>2, <4>1
        <5>2. h[s \ {Max(s)}] = g[s \ {Max(s)}] BY <5>1, <2>1
        <5>3. g[s] = Applied(fold, p, g[s \ {Max(s)}], x[Max(s)]) BY <2>2, <4>1, <4>4 DEF IsFold
        <5> QED BY <4>2, <4>4, <5>2, <5>3
      <4> QED BY <4>3, <4>4
    <3> QED BY <3>1, <3>2
  <2> HIDE DEF h
  <2>4. h = [s \in SUBSET (1..(m + 1)) |->
               IF s = {} THEN b ELSE Applied(fold, p, h[s \ {Max(s)}], x[Max(s)])]
    BY <2>3 DEF h
  <2>5. IsFold(fold, p, b, x, m + 1, h) BY <2>4 DEF IsFold
  <2> QED BY <2>1, <2>5
<1>3. N \in SUBSET Nat OBVIOUS
<1> HIDE DEF N
<1>4. n \in N BY <1>1, <1>2, <1>3, EveryNatural
<1> QED BY <1>4 DEF N

\* Its values at the first elements are those of a run.
LEMMA FoldRuns ==
  ASSUME NEW fold, NEW p, NEW b, NEW x, NEW n \in Nat, NEW g, IsFold(fold, p, b, x, n, g)
  PROVE  \E r : IsRun(fold, p, b, x, n, r) /\ r[n] = g[1..n]
<1> DEFINE r == [i \in 0..n |-> g[1..i]]
<1>1. 1..0 = {} /\ 1..0 \in SUBSET (1..n) /\ 0 \in 0..n OBVIOUS
<1>2. r[0] = b BY <1>1 DEF IsFold
<1>3. ASSUME NEW i \in 1..n PROVE r[i] = Applied(fold, p, r[i - 1], x[i])
  <2>1. i \in Nat \ {0} /\ i \in 0..n /\ i - 1 \in 0..n OBVIOUS
  <2>2. Max(1..i) = i BY <2>1, MaxOfFirst
  <2>3. (1..i) \ {i} = 1..(i - 1) BY <2>1
  <2>4. 1..i \in SUBSET (1..n)
    <3>1. \A j \in 1..i : j \in 1..n BY <2>1
    <3> QED BY <3>1
  <2>5. 1 \in 1..i BY <2>1
  <2>6. g[1..i] = Applied(fold, p, g[1..(i - 1)], x[i]) BY <2>2, <2>3, <2>4, <2>5 DEF IsFold
  <2> QED BY <2>1, <2>6
<1>4. r[n] = g[1..n] OBVIOUS
<1> QED BY <1>2, <1>3, <1>4 DEF IsRun

\* What is kept of a list, element by element.
LEMMA KeptRuns ==
  ASSUME NEW x, NEW T, NEW n \in Nat, DOMAIN x = 1..n
  PROVE  \E r : IsRun("keep", T, << >>, x, n, r) /\ Kept(x, T) = r[n]
<1> DEFINE iter[s \in SUBSET (DOMAIN x)] ==
       IF s = {} THEN << >>
       ELSE LET y == Max(s) IN IF x[y] \in T THEN Append(iter[s \ {y}], x[y]) ELSE iter[s \ {y}]
<1>1. Kept(x, T) = iter[DOMAIN x] BY DEF Kept, FoldLeft, MapThenFoldSet
<1>2. \A a, e : Applied("keep", T, a, e) = IF e \in T THEN Append(a, e) ELSE a BY DEF Applied
<1>3. PICK g : IsFold("keep", T, << >>, x, n, g) BY FoldExists
<1>4. g = [s \in SUBSET (DOMAIN x) |->
            IF s = {} THEN << >>
            ELSE IF x[Max(s)] \in T THEN Append(g[s \ {Max(s)}], x[Max(s)]) ELSE g[s \ {Max(s)}]]
  BY <1>2, <1>3 DEF IsFold
<1>5. iter = [s \in SUBSET (DOMAIN x) |->
               IF s = {} THEN << >>
               ELSE IF x[Max(s)] \in T THEN Append(iter[s \ {Max(s)}], x[Max(s)])
                    ELSE iter[s \ {Max(s)}]]
  BY <1>4
<1> HIDE DEF iter
<1>6. IsFold("keep", T, << >>, x, n, iter) BY <1>2, <1>5 DEF IsFold
<1> QED BY <1>1, <1>6, FoldRuns

-----------------------------------------------------------------------------
(* Lists without repetition, and what is left of them in their order.        *)

\* f takes the elements of t, in their order, from s.
Picks(f, t, s) ==
  /\ f \in [DOMAIN t -> DOMAIN s]
  /\ \A m, n \in DOMAIN t : m < n => f[m] < f[n]
  /\ \A m \in DOMAIN t : t[m] = s[f[m]]

PartOf(t, s) == \E f : Picks(f, t, s)

\* A list without repetition over S.
Once(s) == \A m, n \in DOMAIN s : s[m] = s[n] => m = n
Row(s, S) == s \in Seq(S) /\ Once(s)

LEMMA KeptIsPart ==
  ASSUME NEW S, NEW x \in Seq(S), NEW T
  PROVE  Kept(x, T) \in Seq(S \cap T) /\ PartOf(Kept(x, T), x)
<1> DEFINE n == Len(x)
           U == S \cap T
<1>1. n \in Nat /\ DOMAIN x = 1..n OBVIOUS
<1>2. PICK r : IsRun("keep", T, << >>, x, n, r) /\ Kept(x, T) = r[n] BY <1>1, KeptRuns
<1> DEFINE Good(q, i) == /\ q \in Seq(U)
                         /\ \E f \in [1..Len(q) -> 1..i] :
                              /\ \A m, k \in 1..Len(q) : m < k => f[m] < f[k]
                              /\ \A m \in 1..Len(q) : q[m] = x[f[m]]
           N == {i \in Nat : i <= n => Good(r[i], i)}
<1>3. 0 \in N
  <2>1. r[0] = << >> BY <1>2 DEF IsRun
  <2>2. << >> \in Seq(U) /\ 1..Len(<< >>) = {} OBVIOUS
  <2>3. r[0] \in Seq(U) /\ 1..Len(r[0]) = {} BY <2>1, <2>2
  <2> DEFINE f == [m \in 1..Len(r[0]) |-> 0]
  <2>4. f \in [1..Len(r[0]) -> 1..0] BY <2>3
  <2> QED BY <2>3, <2>4
<1>4. ASSUME NEW i \in N PROVE i + 1 \in N
  <2>1. i \in Nat /\ i + 1 \in Nat /\ (i + 1) - 1 = i OBVIOUS
  <2>2. SUFFICES ASSUME i + 1 <= n PROVE Good(r[i + 1], i + 1) BY <2>1
  <2>3. PICK j : j = i + 1 /\ j \in Nat /\ j \in 1..n /\ j > i BY <2>1, <2>2
  <2>4. PICK q : q = r[i] /\ q \in Seq(U) BY <2>1, <2>2
  <2>5. PICK f \in [1..Len(q) -> 1..i] :
          /\ \A m, k \in 1..Len(q) : m < k => f[m] < f[k]
          /\ \A m \in 1..Len(q) : q[m] = x[f[m]]
    BY <2>1, <2>2, <2>4
  <2>6. PICK c \in S : c = x[j] BY <1>1, <2>3
  <2>7. r[j] = IF c \in T THEN Append(q, c) ELSE q
    <3>1. r[j] = Applied("keep", T, r[j - 1], x[j]) BY <1>2, <2>3 DEF IsRun
    <3>2. r[j - 1] = q BY <2>1, <2>3, <2>4
    <3> QED BY <2>6, <3>1, <3>2 DEF Applied
  <2>8. CASE c \in T
    <3>1. r[j] = Append(q, c) BY <2>7, <2>8
    <3>2. PICK l \in Nat : l = Len(q) BY <2>4
    <3>3. /\ Append(q, c) \in Seq(U) /\ Len(Append(q, c)) = l + 1
          /\ \A m \in 1..l : Append(q, c)[m] = q[m]
          /\ Append(q, c)[l + 1] = c
      BY <2>4, <2>6, <2>8, <3>2
    <3> DEFINE g == [m \in 1..(l + 1) |-> IF m = l + 1 THEN j ELSE f[m]]
    <3>4. \A m \in 1..(l + 1) : m # l + 1 => m \in 1..l /\ f[m] \in 1..i BY <2>5, <3>2
    <3>5. g \in [1..(l + 1) -> 1..j]
      <4>1. \A m \in 1..(l + 1) : g[m] \in 1..j BY <2>1, <2>3, <3>4
      <4> QED BY <4>1
    <3>6. \A m, k \in 1..(l + 1) : m < k => g[m] < g[k]
      <4> SUFFICES ASSUME NEW m \in 1..(l + 1), NEW k \in 1..(l + 1), m < k PROVE g[m] < g[k]
        OBVIOUS
      <4>1. m \in 1..l /\ g[m] = f[m] /\ f[m] \in 1..i BY <3>2, <3>4
      <4>2. CASE k = l + 1 BY <2>1, <2>3, <4>1, <4>2
      <4>3. CASE k # l + 1
        <5>1. k \in 1..l /\ g[k] = f[k] BY <3>4, <4>3
        <5> QED BY <2>5, <3>2, <4>1, <5>1
      <4> QED BY <4>2, <4>3
    <3>7. \A m \in 1..(l + 1) : Append(q, c)[m] = x[g[m]]
      <4> TAKE m \in 1..(l + 1)
      <4>1. CASE m = l + 1 BY <2>6, <3>3, <4>1
      <4>2. CASE m # l + 1
        <5>1. m \in 1..l /\ g[m] = f[m] BY <3>4, <4>2
        <5> QED BY <2>5, <3>2, <3>3, <5>1
      <4> QED BY <4>1, <4>2
    <3> HIDE DEF g
    <3>8. PICK a : a = Append(q, c) /\ a \in Seq(U) /\ Len(a) = l + 1 BY <3>3
    <3>9. g \in [1..Len(a) -> 1..j] BY <3>5, <3>8
    <3>10. \A m, k \in 1..Len(a) : m < k => g[m] < g[k] BY <3>6, <3>8
    <3>11. \A m \in 1..Len(a) : a[m] = x[g[m]] BY <3>7, <3>8
    <3>12. r[i + 1] = a BY <2>3, <3>1, <3>8
    <3>13. Good(a, j) BY <3>8, <3>9, <3>10, <3>11
    <3> HIDE DEF Good
    <3> QED BY <2>3, <3>12, <3>13
  <2>9. CASE c \notin T
    <3>1. r[j] = q BY <2>7, <2>9
    <3>2. f \in [1..Len(q) -> 1..j]
      <4>1. \A m \in 1..Len(q) : f[m] \in 1..j BY <2>1, <2>3, <2>5
      <4> QED BY <2>5, <4>1
    <3>3. Good(q, j) BY <2>4, <2>5, <3>2
    <3> HIDE DEF Good
    <3> QED BY <2>3, <3>1, <3>3
  <2> QED BY <2>8, <2>9
<1>5. N \in SUBSET Nat OBVIOUS
<1>6. n \in N
  <2> HIDE DEF N
  <2> QED BY <1>1, <1>3, <1>4, <1>5, EveryNatural
<1>7. PICK q : q = r[n] /\ q \in Seq(U) BY <1>1, <1>6
<1>8. PICK f \in [1..Len(q) -> 1..n] :
        /\ \A m, k \in 1..Len(q) : m < k => f[m] < f[k]
        /\ \A m \in 1..Len(q) : q[m] = x[f[m]]
  BY <1>1, <1>6, <1>7
<1>9. DOMAIN q = 1..Len(q) BY <1>7
<1>10. Picks(f, q, x) BY <1>1, <1>8, <1>9 DEF Picks
<1> QED BY <1>2, <1>7, <1>10 DEF PartOf

LEMMA PartOnce ==
  ASSUME NEW s, NEW t, NEW l \in Nat, DOMAIN s = 1..l, NEW k \in Nat, DOMAIN t = 1..k,
         PartOf(t, s), Once(s)
  PROVE  Once(t)
<1>1. PICK f : Picks(f, t, s) BY DEF PartOf
<1>2. SUFFICES ASSUME NEW m \in DOMAIN t, NEW n \in DOMAIN t, t[m] = t[n], m # n PROVE FALSE
  BY DEF Once
<1>3. f[m] \in DOMAIN s /\ f[n] \in DOMAIN s /\ s[f[m]] = s[f[n]] BY <1>1, <1>2 DEF Picks
<1>4. f[m] = f[n] BY <1>3 DEF Once
<1>5. m \in Int /\ n \in Int BY <1>2
<1>6. m < n \/ n < m BY <1>2, <1>5
<1>7. f[m] < f[n] \/ f[n] < f[m] BY <1>1, <1>6 DEF Picks
<1>8. f[m] \in Int BY <1>3
<1> QED BY <1>4, <1>7, <1>8

LEMMA KeptRow ==
  ASSUME NEW S, NEW s, Row(s, S), NEW T
  PROVE  Row(Kept(s, T), S \cap T)
<1>1. s \in Seq(S) /\ Once(s) BY DEF Row
<1>2. PICK t : t = Kept(s, T) OBVIOUS
<1>3. t \in Seq(S \cap T) /\ PartOf(t, s) BY <1>1, <1>2, KeptIsPart
<1>4. PICK k \in Nat, l \in Nat : DOMAIN t = 1..k /\ DOMAIN s = 1..l BY <1>1, <1>3
<1>5. Once(t) BY <1>1, <1>3, <1>4, PartOnce
<1> QED BY <1>2, <1>3, <1>5 DEF Row

\* c is a, then b.
Joins(c, a, b) ==
  /\ DOMAIN c = 1..(Len(a) + Len(b))
  /\ \A m \in DOMAIN c :
       \/ m \in DOMAIN a /\ c[m] = a[m] /\ m <= Len(a)
       \/ m - Len(a) \in DOMAIN b /\ m > Len(a) /\ c[m] = b[m - Len(a)]

\* Two lists that share nothing make one without repetition.
LEMMA RowsJoin ==
  ASSUME NEW S, NEW A \in SUBSET S, NEW B \in SUBSET S, A \cap B = {},
         NEW a, NEW b, Row(a, A), Row(b, B)
  PROVE  Row(a \o b, S) /\ Joins(a \o b, a, b)
<1>1. a \in Seq(S) /\ b \in Seq(S)
  <2>1. \A i \in 1..Len(a) : a[i] \in S BY DEF Row
  <2>2. \A i \in 1..Len(b) : b[i] \in S BY DEF Row
  <2> QED BY <2>1, <2>2 DEF Row
<1>2. PICK k \in Nat, l \in Nat : k = Len(a) /\ l = Len(b) BY <1>1
<1>3. DOMAIN a = 1..k /\ DOMAIN b = 1..l BY <1>1, <1>2
<1>4. PICK c : c = a \o b OBVIOUS
<1>5. c \in Seq(S) /\ Len(c) = k + l /\ \A i \in 1..(k + l) : c[i] = IF i <= k THEN a[i] ELSE b[i - k]
  BY <1>1, <1>2, <1>4, ConcatProperties
<1>6. DOMAIN c = 1..(k + l) BY <1>5
<1>7. ASSUME NEW m \in DOMAIN c
      PROVE  \/ m \in DOMAIN a /\ c[m] = a[m] /\ m <= k
             \/ m - k \in DOMAIN b /\ m > k /\ c[m] = b[m - k]
  <2>1. m \in 1..(k + l) BY <1>6
  <2>2. CASE m <= k BY <1>3, <1>5, <2>1, <2>2
  <2>3. CASE ~(m <= k)
    <3>1. m - k \in 1..l /\ m > k BY <2>1, <2>3
    <3> QED BY <1>3, <1>5, <2>1, <2>3, <3>1
  <2> QED BY <2>2, <2>3
<1>8. \A m \in DOMAIN a : a[m] \in A BY <1>3 DEF Row
<1>9. \A m \in DOMAIN b : b[m] \in B BY <1>3 DEF Row
<1>10. ASSUME NEW m \in DOMAIN c, NEW n \in DOMAIN c, c[m] = c[n] PROVE m = n
  <2>1. m \in Nat /\ n \in Nat BY <1>6
  <2>2. CASE m \in DOMAIN a /\ c[m] = a[m] /\ m <= k
    <3>1. c[m] \in A BY <1>8, <2>2
    <3>2. ~(n - k \in DOMAIN b /\ n > k /\ c[n] = b[n - k]) BY <1>9, <1>10, <3>1
    <3>3. n \in DOMAIN a /\ c[n] = a[n] BY <1>7, <3>2
    <3> QED BY <1>10, <2>2, <3>3 DEF Row, Once
  <2>3. CASE m - k \in DOMAIN b /\ m > k /\ c[m] = b[m - k]
    <3>1. c[m] \in B BY <1>9, <2>3
    <3>2. ~(n \in DOMAIN a /\ c[n] = a[n] /\ n <= k) BY <1>8, <1>10, <3>1
    <3>3. n - k \in DOMAIN b /\ c[n] = b[n - k] BY <1>7, <3>2
    <3>4. m - k = n - k BY <1>10, <2>3, <3>3 DEF Row, Once
    <3> QED BY <2>1, <3>4
  <2> QED BY <1>7, <2>2, <2>3
<1>11. Row(c, S) BY <1>5, <1>10 DEF Row, Once
<1>12. Joins(c, a, b) BY <1>2, <1>6, <1>7 DEF Joins
<1> QED BY <1>4, <1>11, <1>12

-----------------------------------------------------------------------------
(* Sorting.                                                                  *)

\* before is a strict weak order of S.
Weak(before, S) ==
  /\ \A x, y \in S : <<x, y>> \in before => <<y, x>> \notin before
  /\ \A x, y, z \in S : <<x, y>> \notin before /\ <<y, z>> \notin before => <<x, z>> \notin before

\* The elements of a sorted list are those of the list, none of them twice, and
\* none stands after one it comes before.
LEMMA SortedPermutes ==
  ASSUME NEW S, NEW s \in Seq(S), NEW before, Weak(before, S)
  PROVE  \E p \in [DOMAIN s -> DOMAIN s] :
           /\ Sorted(s, before) = [n \in DOMAIN s |-> s[p[n]]]
           /\ \A m, n \in DOMAIN s : p[m] = p[n] => m = n
           /\ \A m, n \in DOMAIN s : m < n => <<s[p[n]], s[p[m]]>> \notin before
<1> DEFINE k == Len(s)
           I == DOMAIN s
           Under(j, i) == \/ <<s[j], s[i]>> \in before
                          \/ j < i /\ <<s[i], s[j]>> \notin before
           Below(i) == {j \in I : Under(j, i)}
           Position(i) == Cardinality(Below(i)) + 1
<1>1. k \in Nat /\ I = 1..k /\ \A i \in I : s[i] \in S OBVIOUS
<1>2. Sorted(s, before) = [n \in I |-> s[CHOOSE i \in I : Position(i) = n]] BY DEF Sorted
<1>3. IsFiniteSet(I) /\ Cardinality(I) = k
  <2>1. IsFiniteSet(1..k) /\ Cardinality(1..k) = IF 1 > k THEN 0 ELSE k - 1 + 1 BY <1>1, FS_Interval
  <2> QED BY <1>1, <2>1
<1>4. \A i \in I : ~Under(i, i) BY <1>1 DEF Weak
<1>5. ASSUME NEW i \in I, NEW j \in I, i # j PROVE Under(i, j) \/ Under(j, i)
  <2>1. i < j \/ j < i BY <1>1, <1>5
  <2> QED BY <1>1, <2>1 DEF Weak
<1>6. ASSUME NEW a \in I, NEW b \in I, NEW c \in I, Under(a, b), Under(b, c) PROVE Under(a, c)
  <2>1. <<s[b], s[a]>> \notin before /\ <<s[c], s[b]>> \notin before BY <1>1, <1>6 DEF Weak
  <2>2. <<s[c], s[a]>> \notin before BY <1>1, <2>1 DEF Weak
  <2>3. CASE a < c BY <2>2, <2>3
  <2>4. CASE ~(a < c)
    <3>1. ~(a < b /\ b < c) BY <1>1, <2>4
    <3>2. <<s[a], s[b]>> \in before \/ <<s[b], s[c]>> \in before BY <1>6, <3>1
    <3>3. SUFFICES ASSUME <<s[a], s[c]>> \notin before PROVE FALSE OBVIOUS
    <3>4. <<s[a], s[b]>> \notin before BY <1>1, <2>1, <3>3 DEF Weak
    <3>5. <<s[b], s[c]>> \notin before BY <1>1, <2>1, <3>3 DEF Weak
    <3> QED BY <3>2, <3>4, <3>5
  <2> QED BY <2>3, <2>4
<1> HIDE DEF Under
<1>7. ASSUME NEW i \in I PROVE Cardinality(Below(i)) \in Nat /\ Position(i) \in 1..k
  <2>1. Below(i) \in SUBSET I /\ i \notin Below(i) BY <1>4
  <2>2. IsFiniteSet(Below(i)) /\ Cardinality(Below(i)) <= Cardinality(I)
        /\ (Cardinality(I) = Cardinality(Below(i)) => I = Below(i))
    BY <1>3, <2>1, FS_Subset
  <2>3. Cardinality(Below(i)) \in Nat BY <2>2, FS_CardinalityType
  <2>4. Cardinality(Below(i)) # k BY <1>3, <2>1, <2>2
  <2> QED BY <1>1, <1>3, <2>2, <2>3, <2>4
<1>8. ASSUME NEW i \in I, NEW j \in I, Under(i, j) PROVE Position(i) < Position(j)
  <2>1. Below(i) \in SUBSET Below(j) BY <1>6, <1>8
  <2>2. i \in Below(j) /\ i \notin Below(i) BY <1>4, <1>8
  <2>3. IsFiniteSet(Below(j))
    <3>1. Below(j) \in SUBSET I OBVIOUS
    <3> QED BY <1>3, <3>1, FS_Subset
  <2>4. Cardinality(Below(i)) <= Cardinality(Below(j))
        /\ (Cardinality(Below(j)) = Cardinality(Below(i)) => Below(j) = Below(i))
    BY <2>1, <2>3, FS_Subset
  <2>5. Cardinality(Below(i)) # Cardinality(Below(j)) BY <2>2, <2>4
  <2> QED BY <1>7, <2>4, <2>5
<1> HIDE DEF Below, I, k
<1> DEFINE f == [i \in I |-> Position(i)]
<1>9. f \in Injection(I, I)
  <2>1. f \in [I -> I] BY <1>1, <1>7
  <2>2. ASSUME NEW i \in I, NEW j \in I, f[i] = f[j] PROVE i = j
    <3>1. Position(i) \in Nat /\ Position(j) \in Nat /\ Position(i) = Position(j)
      BY <1>7, <2>2
    <3>2. ~Under(i, j) /\ ~Under(j, i) BY <1>8, <3>1
    <3> QED BY <1>5, <3>2
  <2> QED BY <2>1, <2>2 DEF Injection, IsInjective
<1>10. f \in Surjection(I, I) BY <1>3, <1>9, FS_Injection
<1> DEFINE p == [n \in I |-> CHOOSE i \in I : Position(i) = n]
<1>11. ASSUME NEW n \in I PROVE p[n] \in I /\ Position(p[n]) = n
  <2>1. \E i \in I : f[i] = n BY <1>10 DEF Surjection
  <2>2. \E i \in I : Position(i) = n BY <2>1
  <2> QED BY <2>2
<1>12. p \in [I -> I] BY <1>11
<1>13. Sorted(s, before) = [n \in I |-> s[p[n]]] BY <1>2
<1> HIDE DEF p
<1>14. \A m, n \in I : p[m] = p[n] => m = n BY <1>11
<1>15. ASSUME NEW m \in I, NEW n \in I, m < n PROVE <<s[p[n]], s[p[m]]>> \notin before
  <2>1. ~Under(p[n], p[m])
    <3>1. SUFFICES ASSUME Under(p[n], p[m]) PROVE FALSE OBVIOUS
    <3>2. Position(p[n]) < Position(p[m]) BY <1>8, <1>11, <3>1
    <3>3. n < m BY <1>11, <3>2
    <3> QED BY <1>1, <1>15, <3>3
  <2> QED BY <2>1 DEF Under
<1> QED BY <1>12, <1>13, <1>14, <1>15 DEF I

LEMMA SortedRow ==
  ASSUME NEW S, NEW s, Row(s, S), NEW before, Weak(before, S)
  PROVE  Row(Sorted(s, before), S)
<1>1. s \in Seq(S) /\ Once(s) BY DEF Row
<1>2. PICK k \in Nat : DOMAIN s = 1..k /\ k = Len(s) BY <1>1
<1>3. PICK t : t = Sorted(s, before) OBVIOUS
<1>4. PICK p \in [DOMAIN s -> DOMAIN s] :
        /\ t = [n \in DOMAIN s |-> s[p[n]]]
        /\ \A m, n \in DOMAIN s : p[m] = p[n] => m = n
  BY <1>1, <1>3, SortedPermutes
<1>5. \A n \in 1..k : s[p[n]] \in S BY <1>1, <1>2
<1>6. t \in [1..k -> S] BY <1>2, <1>4, <1>5
<1>7. t \in Seq(S) BY <1>2, <1>6
<1>8. Once(t)
  <2> SUFFICES ASSUME NEW m \in DOMAIN t, NEW n \in DOMAIN t, t[m] = t[n] PROVE m = n BY DEF Once
  <2>1. m \in DOMAIN s /\ n \in DOMAIN s /\ s[p[m]] = s[p[n]] BY <1>4
  <2>2. p[m] \in DOMAIN s /\ p[n] \in DOMAIN s BY <2>1
  <2>3. p[m] = p[n] BY <1>1, <2>1, <2>2 DEF Once
  <2> QED BY <1>4, <2>1, <2>3
<1> QED BY <1>3, <1>7, <1>8 DEF Row

\* A finite set as a list.
LEMMA SetRow ==
  ASSUME NEW S, IsFiniteSet(S)
  PROVE  Row(SetToSeq(S), S)
<1> DEFINE n == Cardinality(S)
           t == SetToSeq(S)
<1>1. n \in Nat BY FS_CardinalityType
<1>2. \E f \in [1..n -> S] : \A i, j \in DOMAIN f : f[i] = f[j] => i = j
  <2>1. ExistsBijection(1..n, S) BY FS_CardinalityType
  <2> QED BY <2>1 DEF ExistsBijection, Bijection, Injection, IsInjective
<1>3. t = CHOOSE f \in [1..n -> S] : \A i, j \in DOMAIN f : f[i] = f[j] => i = j
  BY DEF SetToSeq, IsInjective
<1> HIDE DEF t, n
<1>4. t \in [1..n -> S] /\ \A i, j \in DOMAIN t : t[i] = t[j] => i = j BY <1>2, <1>3
<1>5. t \in Seq(S) BY <1>1, <1>4
<1>6. Once(t) BY <1>4 DEF Once
<1>7. Row(t, S) BY <1>5, <1>6 DEF Row
<1> QED BY <1>7 DEF t

-----------------------------------------------------------------------------
(* The order of the channels.                                                *)

\* What the proofs use of a setting.
Configured ==
  /\ setting \in Settings
  /\ health \in [Channels -> Int]

LEMMA ConfiguredChannels ==
  ASSUME Configured
  PROVE  /\ Existing \subseteq Channels
         /\ \A c \in Existing : /\ Is(c).tier \in Int /\ Is(c).weight \in Int /\ Is(c).score \in Int
                                /\ health[c] \in Int
<1>1. Existing \subseteq Channels /\ \A c \in Existing : Is(c) \in Config
  BY SettingsAssumption DEF Configured, Existing, Is
<1> QED BY <1>1 DEF Configured, Config

LEMMA ListedRow ==
  ASSUME Configured, NEW S \in SUBSET Existing
  PROVE  Row(Listed(S), S)
<1> DEFINE before == {p \in Existing \X Existing : LET c == p[1]  d == p[2] IN
             \/ Is(c).dedicated /\ ~Is(d).dedicated
             \/ Is(c).dedicated = Is(d).dedicated /\ Is(c).weight > Is(d).weight}
<1>1. \A c, d \in S : <<c, d>> \in before <=>
        \/ Is(c).dedicated /\ ~Is(d).dedicated
        \/ Is(c).dedicated = Is(d).dedicated /\ Is(c).weight > Is(d).weight
  OBVIOUS
<1>2. \A c \in S : Is(c).weight \in Int /\ Is(c).dedicated \in BOOLEAN
  <2>1. \A c \in S : Is(c) \in Config
    BY SettingsAssumption DEF Configured, Existing, Is
  <2> QED BY <2>1 DEF Config
<1> HIDE DEF before
<1>3. Weak(before, S)
  <2>1. ASSUME NEW x \in S, NEW y \in S, <<x, y>> \in before PROVE <<y, x>> \notin before
    <3>1. PICK v \in Int, w \in Int : v = Is(x).weight /\ w = Is(y).weight BY <1>2
    <3> QED BY <1>1, <1>2, <2>1, <3>1
  <2>2. ASSUME NEW x \in S, NEW y \in S, NEW z \in S, <<x, y>> \notin before, <<y, z>> \notin before
        PROVE  <<x, z>> \notin before
    <3>1. PICK u \in Int, v \in Int, w \in Int :
            u = Is(x).weight /\ v = Is(y).weight /\ w = Is(z).weight
      BY <1>2
    <3>2. PICK a \in BOOLEAN, b \in BOOLEAN, c \in BOOLEAN :
            a = Is(x).dedicated /\ b = Is(y).dedicated /\ c = Is(z).dedicated
      BY <1>2
    <3>3. ~(a /\ ~b) /\ ~(a = b /\ u > v) BY <1>1, <2>2, <3>1, <3>2
    <3>4. ~(b /\ ~c) /\ ~(b = c /\ v > w) BY <1>1, <2>2, <3>1, <3>2
    <3>5. ~(a /\ ~c) /\ ~(a = c /\ u > w) BY <3>3, <3>4
    <3> QED BY <1>1, <3>1, <3>2, <3>5
  <2> QED BY <2>1, <2>2 DEF Weak
<1>4. IsFiniteSet(S)
  <2>1. S \subseteq Channels BY ConfiguredChannels
  <2> QED BY <2>1, ChannelsAssumption, FS_Subset
<1>5. PICK t : t = SetToSeq(S) OBVIOUS
<1>6. Row(t, S) BY <1>4, <1>5, SetRow
<1>7. Row(Sorted(t, before), S) BY <1>3, <1>6, SortedRow
<1>8. Listed(S) = Sorted(t, before) BY <1>5 DEF Listed, before
<1> QED BY <1>7, <1>8

LEMMA RotatedRow ==
  ASSUME NEW S, NEW s, Row(s, S), s # << >>, NEW hash \in Nat
  PROVE  Row(Rotated(s, hash), S)
<1>1. s \in Seq(S) /\ Once(s) BY DEF Row
<1>2. PICK n \in Nat : n = Len(s) /\ DOMAIN s = 1..n /\ n > 0 BY <1>1
<1>3. PICK k \in 0..(n - 1) : k = hash % n BY <1>2
<1>4. PICK a : a = SubSeq(s, k + 1, n) OBVIOUS
<1>5. PICK b : b = SubSeq(s, 1, k) OBVIOUS
<1>6. a \in Seq(S) /\ Len(a) = n - k /\ \A i \in 1..(n - k) : a[i] = s[k + i]
  <2>1. k + 1 \in 1..(n + 1) /\ n \in k..n /\ k \in Nat BY <1>2, <1>3
  <2>2. \A i \in 1..(n - k) : s[k + i] \in S BY <1>1, <1>2, <1>3
  <2> QED BY <1>1, <1>2, <1>4, <2>1, <2>2
<1>7. b \in Seq(S) /\ Len(b) = k /\ \A i \in 1..k : b[i] = s[i]
  <2>1. \A i \in 1..k : s[i] \in S BY <1>1, <1>2, <1>3
  <2> QED BY <1>1, <1>2, <1>3, <1>5, <2>1
<1>8. PICK t : t = a \o b OBVIOUS
<1>9. /\ t \in Seq(S) /\ Len(t) = n
      /\ \A i \in 1..n : t[i] = IF i <= n - k THEN s[k + i] ELSE s[i - (n - k)]
  <2>1. (n - k) + k = n BY <1>3
  <2>2. t \in Seq(S) /\ Len(t) = n /\ \A i \in 1..n : t[i] = IF i <= n - k THEN a[i] ELSE b[i - (n - k)]
    BY <1>6, <1>7, <1>8, <2>1, ConcatProperties
  <2>3. ASSUME NEW i \in 1..n PROVE t[i] = IF i <= n - k THEN s[k + i] ELSE s[i - (n - k)]
    <3>1. CASE i <= n - k
      <4>1. i \in 1..(n - k) BY <1>3, <3>1
      <4> QED BY <1>6, <2>2, <3>1, <4>1
    <3>2. CASE ~(i <= n - k)
      <4>1. i - (n - k) \in 1..k BY <1>3, <3>2
      <4> QED BY <1>7, <2>2, <3>2, <4>1
    <3> QED BY <3>1, <3>2
  <2> QED BY <2>2, <2>3
<1>10. Once(t)
  <2> DEFINE f == [i \in 1..n |-> IF i <= n - k THEN k + i ELSE i - (n - k)]
  <2>1. \A i \in 1..n : f[i] \in 1..n /\ t[i] = s[f[i]] BY <1>3, <1>9
  <2>2. \A i, j \in 1..n : f[i] = f[j] => i = j BY <1>3
  <2> HIDE DEF f
  <2>3. DOMAIN t = 1..n BY <1>9
  <2> SUFFICES ASSUME NEW i \in 1..n, NEW j \in 1..n, t[i] = t[j] PROVE i = j BY <2>3 DEF Once
  <2>4. f[i] = f[j] BY <1>1, <1>2, <2>1 DEF Once
  <2> QED BY <2>2, <2>4
<1>11. Rotated(s, hash) = t BY <1>2, <1>3, <1>4, <1>5, <1>8 DEF Rotated
<1> QED BY <1>9, <1>10, <1>11 DEF Row

\* The head of a list, and the rest of it in its order, are the list again.
LEMMA MovedRow ==
  ASSUME NEW S, NEW s, Row(s, S), NEW x \in S
  PROVE  Row(<<x>> \o Kept(s, ToSet(s) \ {x}), S)
<1>1. PICK a : a = <<x>> OBVIOUS
<1>2. Row(a, {x})
  <2>1. a \in Seq({x}) /\ DOMAIN a = {1} BY <1>1
  <2> QED BY <2>1 DEF Row, Once
<1>3. PICK b : b = Kept(s, ToSet(s) \ {x}) OBVIOUS
<1>4. Row(b, S \cap (ToSet(s) \ {x})) BY <1>3, KeptRow
<1>5. {x} \in SUBSET S /\ S \cap (ToSet(s) \ {x}) \in SUBSET S
      /\ {x} \cap (S \cap (ToSet(s) \ {x})) = {}
  OBVIOUS
<1>6. Row(a \o b, S) BY <1>2, <1>4, <1>5, RowsJoin
<1> QED BY <1>1, <1>3, <1>6

LEMMA StickyRow ==
  ASSUME NEW S, NEW s, Row(s, S), NEW hash \in Nat
  PROVE  Row(StickyOrder(s, hash), S)
<1>1. s \in Seq(S) BY DEF Row
<1>2. CASE s = << >> BY <1>2 DEF StickyOrder
<1>3. CASE s # << >>
  <2>1. PICK n \in Nat : n = Len(s) /\ n > 0 /\ DOMAIN s = 1..n BY <1>1, <1>3
  <2>2. (hash % n) + 1 \in 1..n BY <2>1
  <2>3. PICK x \in S : x = s[(hash % n) + 1] BY <1>1, <2>1, <2>2
  <2>4. StickyOrder(s, hash) = <<x>> \o Kept(s, ToSet(s) \ {x}) BY <1>3, <2>1, <2>3 DEF StickyOrder
  <2> QED BY <2>4, MovedRow
<1> QED BY <1>2, <1>3

LEMMA StrategyRow ==
  ASSUME Configured, NEW S \in SUBSET Existing, NEW s, Row(s, S), NEW hash \in Nat
  PROVE  Row(StrategyOrder(s, hash), S)
<1> DEFINE quality == \E i \in DOMAIN s : Is(s[i]).quality
           before == {p \in Existing \X Existing : LET c == p[1]  d == p[2] IN
             \/ quality /\ health[c] > health[d]
             \/ (quality => health[c] = health[d]) /\ Is(c).score > Is(d).score}
<1>1. PICK q \in BOOLEAN : q = quality OBVIOUS
<1>2. \A c, d \in S : <<c, d>> \in before <=>
        \/ q /\ health[c] > health[d]
        \/ (q => health[c] = health[d]) /\ Is(c).score > Is(d).score
  BY <1>1
<1>3. \A c \in S : health[c] \in Int /\ Is(c).score \in Int BY ConfiguredChannels
<1> HIDE DEF before, quality
<1>4. Weak(before, S)
  <2>1. ASSUME NEW x \in S, NEW y \in S, <<x, y>> \in before PROVE <<y, x>> \notin before
    <3>1. PICK v \in Int, w \in Int : v = Is(x).score /\ w = Is(y).score BY <1>3
    <3>2. PICK b \in Int, c \in Int : b = health[x] /\ c = health[y] BY <1>3
    <3> QED BY <1>2, <2>1, <3>1, <3>2
  <2>2. ASSUME NEW x \in S, NEW y \in S, NEW z \in S, <<x, y>> \notin before, <<y, z>> \notin before
        PROVE  <<x, z>> \notin before
    <3>1. PICK u \in Int, v \in Int, w \in Int :
            u = Is(x).score /\ v = Is(y).score /\ w = Is(z).score
      BY <1>3
    <3>2. PICK a \in Int, b \in Int, c \in Int :
            a = health[x] /\ b = health[y] /\ c = health[z]
      BY <1>3
    <3>3. ~(q /\ a > b) /\ ~((q => a = b) /\ u > v) BY <1>2, <2>2, <3>1, <3>2
    <3>4. ~(q /\ b > c) /\ ~((q => b = c) /\ v > w) BY <1>2, <2>2, <3>1, <3>2
    <3>5. ~(q /\ a > c) /\ ~((q => a = c) /\ u > w) BY <3>3, <3>4
    <3> QED BY <1>2, <3>1, <3>2, <3>5
  <2> QED BY <2>1, <2>2 DEF Weak
<1>5. PICK t : t = Sorted(s, before) OBVIOUS
<1>6. Row(t, S) BY <1>4, <1>5, SortedRow
<1>7. CASE Len(s) > 1 /\ \A i, j \in DOMAIN s : Is(s[i]).score = Is(s[j]).score
  <2>1. StrategyOrder(s, hash) = Rotated(t, hash)
    BY <1>5, <1>7 DEF StrategyOrder, before, quality
  <2>2. s \in Seq(S) /\ DOMAIN s # {} BY <1>7 DEF Row
  <2>3. t # << >>
    <3>1. DOMAIN t = DOMAIN s BY <1>5 DEF Sorted
    <3> QED BY <2>2, <3>1
  <2> QED BY <1>6, <2>1, <2>3, RotatedRow
<1>8. CASE ~(Len(s) > 1 /\ \A i, j \in DOMAIN s : Is(s[i]).score = Is(s[j]).score)
  <2>1. StrategyOrder(s, hash) = t
    BY <1>5, <1>8 DEF StrategyOrder, before, quality
  <2> QED BY <1>6, <2>1
<1> QED BY <1>7, <1>8

LEMMA GroupRow ==
  ASSUME Configured, NEW S \in SUBSET Existing, NEW s, Row(s, S), NEW hash \in Nat
  PROVE  /\ Row(OrderGroup(s, hash), S)
         /\ \A m, n \in DOMAIN OrderGroup(s, hash) :
              m < n /\ OrderGroup(s, hash)[n] \in Sticky => OrderGroup(s, hash)[m] \in Sticky
<1>1. PICK g : g = OrderGroup(s, hash) OBVIOUS
<1>2. s \in Seq(S) BY DEF Row
<1>3. PICK l \in Nat : l = Len(s) /\ DOMAIN s = 1..l BY <1>2
<1>4. CASE l <= 1
  <2>1. g = s BY <1>1, <1>3, <1>4 DEF OrderGroup
  <2>2. \A m, n \in DOMAIN s : ~(m < n) BY <1>3, <1>4
  <2> QED BY <1>1, <2>1, <2>2
<1>5. CASE ~(l <= 1)
  <2>1. PICK a : a = Kept(s, Sticky) OBVIOUS
  <2>2. PICK b : b = Kept(s, Existing \ Sticky) OBVIOUS
  <2> DEFINE A == S \cap Sticky
             B == S \cap (Existing \ Sticky)
  <2>3. Row(a, A) BY <2>1, KeptRow
  <2>4. Row(b, B) BY <2>2, KeptRow
  <2>5. PICK c : c = StickyOrder(a, hash) OBVIOUS
  <2>6. PICK d : d = StrategyOrder(b, hash) OBVIOUS
  <2>7. Row(c, A) BY <2>3, <2>5, StickyRow
  <2>8. B \in SUBSET Existing OBVIOUS
  <2>9. Row(d, B) BY <2>4, <2>6, <2>8, StrategyRow
  <2>10. A \in SUBSET S /\ B \in SUBSET S /\ A \cap B = {} OBVIOUS
  <2>11. g = c \o d BY <1>1, <1>3, <1>5, <2>1, <2>2, <2>5, <2>6 DEF OrderGroup
  <2>12. PICK i \in Nat, j \in Nat : i = Len(c) /\ j = Len(d) /\ DOMAIN c = 1..i /\ DOMAIN d = 1..j
    BY <2>7, <2>9 DEF Row
  <2>13. \A m \in DOMAIN c : c[m] \in Sticky BY <2>7, <2>12 DEF Row
  <2>14. \A m \in DOMAIN d : d[m] \notin Sticky BY <2>9, <2>12 DEF Row
  <2> HIDE DEF A, B
  <2>15. /\ Row(g, S) /\ DOMAIN g = 1..(i + j)
         /\ \A m \in DOMAIN g :
              \/ m \in DOMAIN c /\ g[m] = c[m] /\ m <= i
              \/ m - i \in DOMAIN d /\ m > i /\ g[m] = d[m - i]
    <3>1. Row(c \o d, S) /\ Joins(c \o d, c, d) BY <2>7, <2>9, <2>10, RowsJoin
    <3> QED BY <2>11, <2>12, <3>1 DEF Joins
  <2>16. ASSUME NEW m \in DOMAIN g, NEW n \in DOMAIN g, m < n, g[n] \in Sticky PROVE g[m] \in Sticky
    <3>1. n \in DOMAIN c BY <2>14, <2>15, <2>16
    <3>2. m \in 1..(i + j) /\ n \in 1..i BY <2>12, <2>15, <3>1
    <3>3. ~(m > i) BY <2>16, <3>2
    <3> QED BY <2>13, <2>15, <3>3
  <2> QED BY <1>1, <2>15, <2>16
<1> QED BY <1>3, <1>4, <1>5

\* c may be tried before d.
MayPrecede(c, d) ==
  \/ Is(c).tier < Is(d).tier
  \/ Is(c).tier = Is(d).tier /\ (d \in Sticky => c \in Sticky)

\* All of s from its element number first is in the order of the tiers.
InOrder(s, first) == \A m, n \in DOMAIN s : first <= m /\ m < n => MayPrecede(s[m], s[n])

\* The concatenation of the tiers x, one after the other.
TierByTier(s, hash, x) ==
  FoldLeft(LAMBDA order, t : order \o OrderGroup(Kept(s, OfTier(t)), hash), << >>, x)

LEMMA TiersRun ==
  ASSUME NEW x, NEW s, NEW hash, NEW n \in Nat, DOMAIN x = 1..n
  PROVE  \E r : IsRun("tiers", <<s, hash>>, << >>, x, n, r) /\ TierByTier(s, hash, x) = r[n]
<1> DEFINE p == <<s, hash>>
           iter[u \in SUBSET (DOMAIN x)] ==
             IF u = {} THEN << >>
             ELSE LET y == Max(u) IN iter[u \ {y}] \o OrderGroup(Kept(s, OfTier(x[y])), hash)
<1>1. TierByTier(s, hash, x) = iter[DOMAIN x] BY DEF TierByTier, FoldLeft, MapThenFoldSet
<1>2. \A a, e : Applied("tiers", p, a, e) = a \o OrderGroup(Kept(s, OfTier(e)), hash) BY DEF Applied
<1> HIDE DEF p
<1>3. PICK g : IsFold("tiers", p, << >>, x, n, g) BY FoldExists
<1>4. g = [u \in SUBSET (DOMAIN x) |->
            IF u = {} THEN << >>
            ELSE g[u \ {Max(u)}] \o OrderGroup(Kept(s, OfTier(x[Max(u)])), hash)]
  BY <1>2, <1>3 DEF IsFold
<1>5. iter = [u \in SUBSET (DOMAIN x) |->
               IF u = {} THEN << >>
               ELSE iter[u \ {Max(u)}] \o OrderGroup(Kept(s, OfTier(x[Max(u)])), hash)]
  BY <1>4
<1> HIDE DEF iter
<1>6. IsFold("tiers", p, << >>, x, n, iter) BY <1>2, <1>5 DEF IsFold
<1>7. PICK r : IsRun("tiers", p, << >>, x, n, r) /\ r[n] = iter[1..n] BY <1>6, FoldRuns
<1> QED BY <1>1, <1>7 DEF p

LEMMA WiderRow ==
  ASSUME NEW S, NEW A \in SUBSET S, NEW a, Row(a, A)
  PROVE  Row(a, S)
<1>1. a \in Seq(A) BY DEF Row
<1>2. \A i \in 1..Len(a) : a[i] \in S BY <1>1
<1>3. a \in Seq(S) BY <1>1, <1>2
<1> QED BY <1>3 DEF Row

\* The list of the tiers rises.
LEMMA TiersRise ==
  ASSUME Configured
  PROVE  \E x \in Seq(Int) :
           /\ x = Sorted(SetToSeq(Tiers), {p \in Tiers \X Tiers : p[1] < p[2]})
           /\ \A m, n \in DOMAIN x : m < n => x[m] < x[n]
<1> DEFINE before == {p \in Tiers \X Tiers : p[1] < p[2]}
<1>1. Tiers \subseteq Int BY ConfiguredChannels DEF Tiers
<1>2. IsFiniteSet(Tiers)
  <2>1. IsFiniteSet(Existing)
    <3>1. Existing \subseteq Channels BY ConfiguredChannels
    <3> QED BY <3>1, ChannelsAssumption, FS_Subset
  <2> DEFINE f == [c \in Existing |-> Is(c).tier]
  <2>2. f \in Surjection(Existing, Tiers) BY DEF Surjection, Tiers
  <2> HIDE DEF f
  <2> QED BY <2>1, <2>2, FS_Surjection
<1>3. \A a, b \in Tiers : <<a, b>> \in before <=> a < b OBVIOUS
<1> HIDE DEF before
<1>4. Weak(before, Tiers) BY <1>1, <1>3 DEF Weak
<1>5. PICK t : t = SetToSeq(Tiers) OBVIOUS
<1>6. Row(t, Tiers) BY <1>2, <1>5, SetRow
<1>7. PICK x : x = Sorted(t, before) OBVIOUS
<1>8. Row(x, Tiers) BY <1>4, <1>6, <1>7, SortedRow
<1>9. Row(x, Int) BY <1>1, <1>8, WiderRow
<1>10. x \in Seq(Int) BY <1>9 DEF Row
<1>11. t \in Seq(Tiers) BY <1>6 DEF Row
<1>12. PICK p \in [DOMAIN t -> DOMAIN t] :
         /\ x = [n \in DOMAIN t |-> t[p[n]]]
         /\ \A m, n \in DOMAIN t : m < n => <<t[p[n]], t[p[m]]>> \notin before
  BY <1>4, <1>7, <1>11, SortedPermutes
<1>13. ASSUME NEW m \in DOMAIN x, NEW n \in DOMAIN x, m < n PROVE x[m] < x[n]
  <2>1. x[m] \in Tiers /\ x[n] \in Tiers /\ m \in Nat /\ n \in Nat BY <1>8 DEF Row
  <2>2. <<x[n], x[m]>> \notin before BY <1>12, <1>13
  <2>3. ~(x[n] < x[m]) BY <1>3, <2>1, <2>2
  <2>4. x[m] # x[n]
    <3>1. m # n BY <1>13, <2>1
    <3> QED BY <1>8, <3>1 DEF Row, Once
  <2>5. PICK a \in Int, b \in Int : a = x[m] /\ b = x[n] BY <1>1, <2>1
  <2> QED BY <2>3, <2>4, <2>5
<1> QED BY <1>5, <1>7, <1>10, <1>13 DEF before

\* The candidates, tier by tier: none twice, the lower tiers first, and the
\* sticky ones of a tier first.
LEMMA ChannelsInOrder ==
  ASSUME Configured, NEW S \in SUBSET Existing, NEW s, Row(s, S), NEW hash \in Nat
  PROVE  Row(OrderChannels(s, hash), S) /\ InOrder(OrderChannels(s, hash), 1)
<1>1. PICK x \in Seq(Int) :
        /\ x = Sorted(SetToSeq(Tiers), {p \in Tiers \X Tiers : p[1] < p[2]})
        /\ \A m, n \in DOMAIN x : m < n => x[m] < x[n]
  BY TiersRise
<1>2. PICK k \in Nat : DOMAIN x = 1..k OBVIOUS
<1>3. PICK r : IsRun("tiers", <<s, hash>>, << >>, x, k, r) /\ TierByTier(s, hash, x) = r[k]
  BY <1>2, TiersRun
<1>4. OrderChannels(s, hash) = r[k] BY <1>1, <1>3 DEF OrderChannels, TierByTier
<1> DEFINE Up(i) == {c \in S : \E j \in 1..i : Is(c).tier = x[j]}
           Good(q, i) == Row(q, Up(i)) /\ InOrder(q, 1)
           N == {i \in Nat : i <= k => Good(r[i], i)}
<1>5. 0 \in N
  <2>1. r[0] = << >> BY <1>3 DEF IsRun
  <2>2. Row(<< >>, Up(0)) BY DEF Row, Once
  <2>3. InOrder(<< >>, 1) BY DEF InOrder
  <2> HIDE DEF Up
  <2>4. Good(r[0], 0) BY <2>1, <2>2, <2>3
  <2> QED BY <2>4
<1>6. ASSUME NEW i \in N PROVE i + 1 \in N
  <2>1. i \in Nat /\ i + 1 \in Nat OBVIOUS
  <2>2. SUFFICES ASSUME i + 1 <= k PROVE Good(r[i + 1], i + 1) BY <2>1
  <2>3. PICK j \in 1..k : j = i + 1 /\ j - 1 = i BY <2>1, <2>2
  <2>4. PICK q : q = r[i] /\ Row(q, Up(i)) /\ InOrder(q, 1)
    <3> HIDE DEF Up
    <3>1. i <= k BY <1>2, <2>1, <2>2
    <3> QED BY <3>1
  <2>5. PICK g : g = OrderGroup(Kept(s, OfTier(x[j])), hash) OBVIOUS
  <2>6. r[j] = q \o g
    <3>1. r[j] = Applied("tiers", <<s, hash>>, r[j - 1], x[j]) BY <1>3 DEF IsRun
    <3> QED BY <2>3, <2>4, <2>5, <3>1 DEF Applied
  <2> DEFINE G == S \cap OfTier(x[j])
  <2>7. PICK u : u = Kept(s, OfTier(x[j])) OBVIOUS
  <2>8. Row(u, G) BY <2>7, KeptRow
  <2>9. G \in SUBSET Existing OBVIOUS
  <2>10. g = OrderGroup(u, hash) BY <2>5, <2>7
  <2> HIDE DEF G
  <2>11. /\ Row(g, G)
         /\ \A m, n \in DOMAIN g : m < n /\ g[n] \in Sticky => g[m] \in Sticky
    BY <2>8, <2>9, <2>10, GroupRow
  <2>12. x[j] \in Int /\ \A h \in 1..i : x[h] < x[j]
    <3>1. x[j] \in Int BY <1>2
    <3>2. \A h \in 1..i : h \in 1..k /\ h < j BY <1>2, <2>1, <2>3
    <3> QED BY <1>1, <1>2, <3>1, <3>2
  <2>13. Up(i) \in SUBSET Up(j) /\ G \in SUBSET Up(j) /\ Up(i) \cap G = {}
    <3>1. \A h \in 1..i : h \in 1..j BY <2>1, <2>3
    <3>2. Up(i) \in SUBSET Up(j) BY <3>1
    <3>3. G \in SUBSET Up(j) BY <2>3 DEF G, OfTier
    <3>4. ASSUME NEW c \in Up(i), c \in G PROVE FALSE
      <4>1. Is(c).tier = x[j] BY <3>4 DEF G, OfTier
      <4>2. PICK h \in 1..i : Is(c).tier = x[h] OBVIOUS
      <4>3. x[h] < x[j] /\ x[h] = x[j] BY <2>12, <4>1, <4>2
      <4> QED BY <2>12, <4>3
    <3> QED BY <3>2, <3>3, <3>4
  <2>14. \A c \in Up(i) : \E h \in 1..i : Is(c).tier = x[h] OBVIOUS
  <2>15. \A c \in G : Is(c).tier = x[j] BY DEF G, OfTier
  <2> HIDE DEF Up
  <2>16. PICK t : t = q \o g OBVIOUS
  <2>17. Row(t, Up(j)) /\ Joins(t, q, g) BY <2>4, <2>11, <2>13, <2>16, RowsJoin
  <2>18. PICK a \in Nat, b \in Nat : a = Len(q) /\ b = Len(g) /\ DOMAIN q = 1..a /\ DOMAIN g = 1..b
    <3>1. q \in Seq(Up(i)) /\ g \in Seq(G) BY <2>4, <2>11 DEF Row
    <3>2. PICK a \in Nat : a = Len(q) /\ DOMAIN q = 1..a BY <3>1
    <3>3. PICK b \in Nat : b = Len(g) /\ DOMAIN g = 1..b BY <3>1
    <3> QED BY <3>2, <3>3
  <2>19. \A m \in 1..a : q[m] \in Up(i) BY <2>4, <2>18 DEF Row
  <2>20. \A m \in 1..b : g[m] \in G BY <2>11, <2>18 DEF Row
  <2>21. DOMAIN t = 1..(a + b) BY <2>17, <2>18 DEF Joins
  <2>22. ASSUME NEW m \in DOMAIN t
         PROVE  \/ m \in 1..a /\ t[m] = q[m]
                \/ m - a \in 1..b /\ m > a /\ t[m] = g[m - a]
    BY <2>17, <2>18, <2>22 DEF Joins
  <2>23. InOrder(t, 1)
    <3> SUFFICES ASSUME NEW m \in DOMAIN t, NEW n \in DOMAIN t, m < n PROVE MayPrecede(t[m], t[n])
      BY DEF InOrder
    <3>1. m \in Nat /\ n \in Nat BY <2>21
    <3>2. CASE n \in 1..a /\ t[n] = q[n]
      <4>1. m \in 1..a /\ t[m] = q[m] BY <2>22, <3>1, <3>2
      <4>2. 1 <= m BY <4>1
      <4>3. MayPrecede(q[m], q[n]) BY <2>4, <2>18, <3>2, <4>1, <4>2 DEF InOrder
      <4> QED BY <3>2, <4>1, <4>3
    <3>3. CASE n - a \in 1..b /\ n > a /\ t[n] = g[n - a]
      <4>1. t[n] \in G /\ Is(t[n]).tier = x[j] BY <2>15, <2>20, <3>3
      <4>2. CASE m \in 1..a /\ t[m] = q[m]
        <5>1. PICK h \in 1..i : Is(t[m]).tier = x[h] BY <2>14, <2>19, <4>2
        <5> QED BY <2>12, <4>1, <5>1 DEF MayPrecede
      <4>3. CASE m - a \in 1..b /\ m > a /\ t[m] = g[m - a]
        <5>1. Is(t[m]).tier = x[j] BY <2>15, <2>20, <4>3
        <5>2. m - a < n - a BY <3>1
        <5>3. g[n - a] \in Sticky => g[m - a] \in Sticky BY <2>11, <2>18, <3>3, <4>3, <5>2
        <5> QED BY <3>3, <4>1, <4>3, <5>1, <5>3 DEF MayPrecede
      <4> QED BY <2>22, <4>2, <4>3
    <3> QED BY <2>22, <3>2, <3>3
  <2>24. r[i + 1] = t BY <2>3, <2>6, <2>16
  <2>25. Good(t, j) BY <2>17, <2>23
  <2> HIDE DEF Good
  <2> QED BY <2>3, <2>24, <2>25
<1>7. N \in SUBSET Nat OBVIOUS
<1>8. k \in N
  <2> HIDE DEF N
  <2> QED BY <1>2, <1>5, <1>6, <1>7, EveryNatural
<1>9. Row(r[k], Up(k)) /\ InOrder(r[k], 1)
  <2>1. Good(r[k], k)
    <3> HIDE DEF Good
    <3>1. k <= k => Good(r[k], k) BY <1>8
    <3>2. k <= k BY <1>2
    <3> QED BY <3>1, <3>2
  <2> HIDE DEF Up
  <2> QED BY <2>1
<1>10. Up(k) \in SUBSET S OBVIOUS
<1> HIDE DEF Up
<1>11. PICK t : t = r[k] OBVIOUS
<1>12. Row(t, S) BY <1>9, <1>10, <1>11, WiderRow
<1> QED BY <1>4, <1>9, <1>11, <1>12

LEMMA PartInOrder ==
  ASSUME NEW s, NEW t, NEW k \in Nat, DOMAIN t = 1..k, NEW l \in Nat, DOMAIN s = 1..l,
         PartOf(t, s), NEW first \in {1, 2}, InOrder(s, first)
  PROVE  InOrder(t, first)
<1>1. PICK f : Picks(f, t, s) BY DEF PartOf
<1>2. SUFFICES ASSUME NEW m \in 1..k, NEW n \in 1..k, first <= m, m < n PROVE MayPrecede(t[m], t[n])
  BY DEF InOrder
<1>3. f[m] \in 1..l /\ f[n] \in 1..l /\ f[m] < f[n] /\ t[m] = s[f[m]] /\ t[n] = s[f[n]]
  BY <1>1, <1>2 DEF Picks
<1>4. first <= f[m]
  <2>1. CASE m = 1 BY <1>2, <1>3, <2>1
  <2>2. CASE m # 1
    <3>1. 1 \in 1..k /\ 1 < m BY <1>2, <2>2
    <3>2. f[1] \in 1..l /\ f[1] < f[m] BY <1>1, <3>1 DEF Picks
    <3> QED BY <1>3, <3>2
  <2> QED BY <2>1, <2>2
<1> QED BY <1>3, <1>4 DEF InOrder

LEMMA CutIsPart ==
  ASSUME NEW S, NEW s \in Seq(S), NEW max \in Nat
  PROVE  Cut(s, max) \in Seq(S) /\ PartOf(Cut(s, max), s)
<1>1. PICK l \in Nat : l = Len(s) /\ DOMAIN s = 1..l OBVIOUS
<1>2. PICK j \in 0..l : j = Min({max, l})
  <2>1. Min({max, l}) = IF max <= l THEN max ELSE l
    <3>1. \A x \in {max, l} : (\A y \in {max, l} : x <= y) <=> x = IF max <= l THEN max ELSE l
      BY <1>1
    <3>2. (IF max <= l THEN max ELSE l) \in {max, l} OBVIOUS
    <3> QED BY <3>1, <3>2 DEF Min
  <2> QED BY <1>1, <2>1
<1>3. PICK t : t = SubSeq(s, 1, j) OBVIOUS
<1>4. \A i \in 1..j : s[i] \in S /\ i \in 1..l BY <1>1, <1>2
<1>5. t \in Seq(S) /\ Len(t) = j /\ \A i \in 1..j : t[i] = s[i]
  <2>1. 1 \in Int /\ j \in Int BY <1>2
  <2>2. /\ t \in Seq(S) /\ Len(t) = IF 1 <= j THEN j - 1 + 1 ELSE 0
        /\ \A i \in 1..(j - 1 + 1) : t[i] = s[1 + i - 1]
    BY <1>3, <1>4, <2>1, SubSeqProperties
  <2>3. j - 1 + 1 = j /\ \A i \in 1..j : 1 + i - 1 = i BY <1>2
  <2>4. Len(t) = j BY <1>2, <2>2
  <2>5. \A i \in 1..j : t[i] = s[i] BY <2>2, <2>3
  <2> QED BY <2>2, <2>4, <2>5
<1> DEFINE f == [i \in 1..j |-> i]
<1>6. Picks(f, t, s) BY <1>1, <1>4, <1>5 DEF Picks
<1>7. Cut(s, max) = t BY <1>1, <1>2, <1>3 DEF Cut
<1> QED BY <1>5, <1>6, <1>7 DEF PartOf

\* Affinity changes the place of the first only.
LEMMA AffinityInOrder ==
  ASSUME NEW S, NEW s, Row(s, S), InOrder(s, 1)
  PROVE  Row(ApplyAffinity(s), S) /\ InOrder(ApplyAffinity(s), 2)
<1>1. s \in Seq(S) BY DEF Row
<1>2. PICK l \in Nat : l = Len(s) /\ DOMAIN s = 1..l BY <1>1
<1>3. CASE l > 1 /\ affinity \in ToSet(s)
  <2>1. PICK x : x = affinity OBVIOUS
  <2>2. x \in S BY <1>1, <1>2, <1>3, <2>1 DEF ToSet
  <2>3. PICK b : b = Kept(s, ToSet(s) \ {x}) OBVIOUS
  <2>4. b \in Seq(S \cap (ToSet(s) \ {x})) /\ PartOf(b, s) BY <1>1, <2>3, KeptIsPart
  <2>5. PICK k \in Nat : k = Len(b) /\ DOMAIN b = 1..k BY <2>4
  <2>6. InOrder(b, 1) BY <1>2, <2>4, <2>5, PartInOrder
  <2>7. PICK t : t = <<x>> \o b OBVIOUS
  <2>8. Row(t, S) BY <2>2, <2>3, <2>7, MovedRow
  <2>9. ApplyAffinity(s) = t BY <1>2, <1>3, <2>1, <2>3, <2>7 DEF ApplyAffinity
  <2>10. DOMAIN t = 1..(k + 1) /\ \A i \in 2..(k + 1) : t[i] = b[i - 1]
    <3> DEFINE T == {x} \cup (S \cap (ToSet(s) \ {x}))
    <3>1. <<x>> \in Seq(T) /\ Len(<<x>>) = 1 OBVIOUS
    <3>2. b \in Seq(T)
      <4>1. \A i \in 1..Len(b) : b[i] \in T BY <2>4
      <4> QED BY <2>4, <4>1
    <3> HIDE DEF T
    <3>3. PICK a : a = <<x>> OBVIOUS
    <3>4. a \in Seq(T) BY <3>1, <3>3
    <3>5. t = a \o b BY <2>7, <3>3
    <3>6. PICK n \in Nat : n = Len(a) BY <3>4
    <3>7. /\ t \in Seq(T) /\ Len(t) = n + k
          /\ \A i \in 1..(n + k) : t[i] = IF i <= n THEN a[i] ELSE b[i - n]
      BY <2>5, <3>2, <3>4, <3>5, <3>6, ConcatProperties
    <3>8. n = 1 BY <3>1, <3>3, <3>6
    <3> QED BY <2>5, <3>7, <3>8
  <2>11. InOrder(t, 2)
    <3> SUFFICES ASSUME NEW m \in DOMAIN t, NEW n \in DOMAIN t, 2 <= m, m < n
                 PROVE  MayPrecede(t[m], t[n])
      BY DEF InOrder
    <3>1. m \in 2..(k + 1) /\ n \in 2..(k + 1) BY <2>10
    <3>2. m - 1 \in 1..k /\ n - 1 \in 1..k /\ 1 <= m - 1 /\ m - 1 < n - 1 BY <3>1
    <3>3. MayPrecede(b[m - 1], b[n - 1]) BY <2>5, <2>6, <3>2 DEF InOrder
    <3> QED BY <2>10, <3>1, <3>3
  <2> QED BY <2>8, <2>9, <2>11
<1>4. CASE ~(l > 1 /\ affinity \in ToSet(s))
  <2>1. ApplyAffinity(s) = s BY <1>2, <1>4 DEF ApplyAffinity
  <2>2. InOrder(s, 2) BY <1>2 DEF InOrder
  <2> QED BY <2>1, <2>2
<1> QED BY <1>3, <1>4

-----------------------------------------------------------------------------
(* The candidates of a request.                                              *)

\* A list to try: channels that exist, none twice, in order but for the first.
Triable(l) ==
  /\ \E k \in Nat : DOMAIN l = 1..k /\ l \in Seq(ToSet(l)) /\ k = Len(l)
  /\ \A m \in DOMAIN l : l[m].channel \in Existing
  /\ \A m, n \in DOMAIN l : m < n => /\ l[m].channel # l[n].channel
                                     /\ m > 1 => MayPrecede(l[m].channel, l[n].channel)

LEMMA PartTriable ==
  ASSUME NEW l, Triable(l), NEW t, NEW k \in Nat, DOMAIN t = 1..k, t \in Seq(ToSet(t)),
         k = Len(t), PartOf(t, l)
  PROVE  Triable(t)
<1>1. PICK f : Picks(f, t, l) BY DEF PartOf
<1>2. PICK j \in Nat : DOMAIN l = 1..j BY DEF Triable
<1> \A m \in 1..k : t[m].channel \in Existing BY <1>1 DEF Picks, Triable
<1>3. SUFFICES ASSUME NEW m \in 1..k, NEW n \in 1..k, m < n
               PROVE  /\ t[m].channel # t[n].channel
                      /\ m > 1 => MayPrecede(t[m].channel, t[n].channel)
  BY DEF Triable
<1>4. f[m] \in 1..j /\ f[n] \in 1..j /\ f[m] < f[n] /\ t[m] = l[f[m]] /\ t[n] = l[f[n]]
  BY <1>1, <1>2, <1>3 DEF Picks
<1>5. m > 1 => f[m] > 1
  <2> SUFFICES ASSUME m > 1 PROVE f[m] > 1 OBVIOUS
  <2>1. 1 \in 1..k /\ 1 < m OBVIOUS
  <2>2. f[1] \in 1..j /\ f[1] < f[m] BY <1>1, <1>2, <2>1 DEF Picks
  <2> QED BY <1>4, <2>2
<1> QED BY <1>2, <1>4, <1>5 DEF Triable

LEMMA OwnElements ==
  ASSUME NEW S, NEW t \in Seq(S)
  PROVE  \E k \in Nat : DOMAIN t = 1..k /\ t \in Seq(ToSet(t)) /\ k = Len(t)
<1>1. PICK k \in Nat : DOMAIN t = 1..k /\ k = Len(t) OBVIOUS
<1>2. \A i \in 1..k : t[i] \in ToSet(t) BY <1>1 DEF ToSet
<1>3. t \in Seq(ToSet(t)) BY <1>1, <1>2
<1> QED BY <1>1, <1>3

LEMMA CandidatesTriable ==
  ASSUME Configured, \A c \in Channels : active[c] => c \in Existing,
         NEW m, NEW hash \in Nat, NEW blind
  PROVE  Triable(Candidates(m, hash, blind))
<1> DEFINE T == {c \in Channels : Routable(c)}
           U == {c \in Existing : Usable(c, blind) # {}}
<1>1. T \in SUBSET Existing BY DEF Routable
<1>2. PICK u : u = Listed(T) OBVIOUS
<1>3. Row(u, T) BY <1>1, <1>2, ListedRow
<1>4. PICK v : v = OrderChannels(u, hash) OBVIOUS
<1>5. Row(v, T) /\ InOrder(v, 1) BY <1>1, <1>3, <1>4, ChannelsInOrder
<1>6. PICK order : order = ApplyAffinity(v) OBVIOUS
<1>7. Row(order, T) /\ InOrder(order, 2) BY <1>5, <1>6, AffinityInOrder
<1>8. PICK max \in Nat : max = MaxCandidates(m) BY DEF MaxCandidates
<1>9. PICK cut : cut = Cut(order, max) OBVIOUS
<1>10. order \in Seq(T) /\ Once(order) BY <1>7 DEF Row
<1>11. cut \in Seq(T) /\ PartOf(cut, order) BY <1>9, <1>10, CutIsPart
<1>12. PICK found : found = Kept(cut, U) OBVIOUS
<1>13. found \in Seq(T \cap U) /\ PartOf(found, cut) BY <1>11, <1>12, KeptIsPart
<1>14. PICK i \in Nat : DOMAIN order = 1..i BY <1>10
<1>15. PICK j \in Nat : DOMAIN cut = 1..j BY <1>11
<1>16. PICK k \in Nat : DOMAIN found = 1..k BY <1>13
<1>17. Once(found)
  <2>1. Once(cut) BY <1>10, <1>11, <1>14, <1>15, PartOnce
  <2> QED BY <2>1, <1>13, <1>15, <1>16, PartOnce
<1>18. InOrder(found, 2)
  <2>1. 2 \in {1, 2} OBVIOUS
  <2>2. InOrder(cut, 2) BY <1>7, <1>11, <1>14, <1>15, <2>1, PartInOrder
  <2> QED BY <1>13, <1>15, <1>16, <2>1, <2>2, PartInOrder
<1>19. \A n \in 1..k : found[n] \in Existing BY <1>1, <1>13, <1>16
<1> DEFINE l == [n \in 1..k |-> [channel |-> found[n], instance |-> Best(found[n], blind)]]
<1>20. Candidates(m, hash, blind) = l
  BY <1>2, <1>4, <1>6, <1>8, <1>9, <1>12, <1>16 DEF Candidates
<1>21. \A n \in 1..k : l[n].channel = found[n] OBVIOUS
<1>22. \E h \in Nat : DOMAIN l = 1..h /\ l \in Seq(ToSet(l)) /\ h = Len(l)
  <2>1. \A n \in 1..k : l[n] \in {l[h] : h \in 1..k} OBVIOUS
  <2>2. l \in Seq({l[h] : h \in 1..k}) BY <2>1
  <2> HIDE DEF l
  <2> QED BY <2>2, OwnElements
<1>23. DOMAIN l = 1..k OBVIOUS
<1> HIDE DEF l, T, U
<1>24. ASSUME NEW a \in DOMAIN l, NEW b \in DOMAIN l, a < b
       PROVE  /\ l[a].channel # l[b].channel
              /\ a > 1 => MayPrecede(l[a].channel, l[b].channel)
  <2>1. a \in 1..k /\ b \in 1..k /\ a # b BY <1>23, <1>24
  <2>2. found[a] # found[b] BY <1>16, <1>17, <2>1 DEF Once
  <2>3. a > 1 => MayPrecede(found[a], found[b]) BY <1>16, <1>18, <1>24, <2>1 DEF InOrder
  <2> QED BY <1>21, <2>1, <2>2, <2>3
<1>25. Triable(l) BY <1>19, <1>21, <1>22, <1>23, <1>24 DEF Triable
<1> QED BY <1>20, <1>25

LEMMA AllowedTriable ==
  ASSUME NEW l, Triable(l), NEW m
  PROVE  Triable(Allowed(m, l))
<1>1. CASE m \in {"chat", "multipart"}
  <2> DEFINE K == {k \in ToSet(l) : Is(k.channel).group}
  <2>1. PICK t : t = Kept(l, K) OBVIOUS
  <2>2. l \in Seq(ToSet(l)) BY DEF Triable
  <2>3. t \in Seq(ToSet(l) \cap K) /\ PartOf(t, l) BY <2>1, <2>2, KeptIsPart
  <2>4. PICK k \in Nat : DOMAIN t = 1..k /\ t \in Seq(ToSet(t)) /\ k = Len(t) BY <2>3, OwnElements
  <2>5. Triable(t) BY <2>3, <2>4, PartTriable
  <2>6. Allowed(m, l) = t BY <1>1, <2>1 DEF Allowed
  <2> QED BY <2>5, <2>6
<1>2. CASE m \notin {"chat", "multipart"} BY <1>2 DEF Allowed
<1> QED BY <1>1, <1>2

LEMMA TailTriable ==
  ASSUME NEW l, Triable(l), l # << >>
  PROVE  Triable(Tail(l)) /\ (Len(l) # 1 => Tail(l) # << >>)
<1>1. PICK k \in Nat : DOMAIN l = 1..k /\ l \in Seq(ToSet(l)) /\ k = Len(l) BY DEF Triable
<1>2. PICK t : t = Tail(l) OBVIOUS
<1>3. t \in Seq(ToSet(l)) /\ Len(t) = k - 1 /\ \A i \in 1..Len(t) : t[i] = l[i + 1]
  BY <1>1, <1>2, HeadTailProperties
<1>4. PICK j \in Nat : DOMAIN t = 1..j /\ t \in Seq(ToSet(t)) /\ j = Len(t) BY <1>3, OwnElements
<1>5. j = k - 1 BY <1>3, <1>4
<1> DEFINE f == [i \in 1..j |-> i + 1]
<1>6. f \in [1..j -> 1..k] /\ \A m, n \in 1..j : m < n => f[m] < f[n] BY <1>1, <1>5
<1>7. \A i \in 1..j : t[i] = l[f[i]] BY <1>3, <1>4
<1> HIDE DEF f
<1>8. PartOf(t, l) BY <1>1, <1>4, <1>6, <1>7 DEF PartOf, Picks
<1>9. Triable(t) BY <1>4, <1>8, PartTriable
<1>10. k # 1 => t # << >>
  <2>1. k # 0 BY <1>1
  <2> QED BY <1>1, <1>4, <1>5, <2>1
<1> QED BY <1>1, <1>2, <1>9, <1>10

-----------------------------------------------------------------------------
(* The lists of the requests.                                                *)

\* What the lists are made from: a setting, scores that are numbers, active
\* channels that exist.
ScoresOK ==
  /\ Configured
  /\ active \in [Channels -> BOOLEAN] /\ \A c \in Channels : active[c] => c \in Existing
  /\ score \in [Workers -> Int]
  /\ todo \in [Workers -> SUBSET Channels]

ListsOK ==
  /\ DOMAIN left = Requests /\ DOMAIN at = Requests
  /\ \A r \in Requests : Triable(left[r]) /\ (at[r] \in {"try", "renew", "calling"} => left[r] # << >>)

LEMMA EmptyTriable == Triable(<< >>)
<1>1. << >> \in Seq({}) OBVIOUS
<1>2. \E k \in Nat : DOMAIN << >> = 1..k /\ << >> \in Seq(ToSet(<< >>)) /\ k = Len(<< >>)
  BY <1>1, OwnElements
<1>3. DOMAIN << >> = {} OBVIOUS
<1> QED BY <1>2, <1>3 DEF Triable

LEMMA InitLists ==
  ASSUME Init
  PROVE  ScoresOK /\ ListsOK
<1>1. ScoresOK
  <2>1. Configured BY DEF Init, Configured, MaxHealth
  <2>2. active \in [Channels -> BOOLEAN] /\ \A c \in Channels : active[c] => c \in Existing
    <3>1. active = [c \in Channels |-> c \in Existing] BY DEF Init, Existing
    <3>2. \A c \in Channels : (c \in Existing) \in BOOLEAN OBVIOUS
    <3>3. active \in [Channels -> BOOLEAN] BY <3>1, <3>2, Zenon
    <3>4. \A c \in Channels : active[c] = (c \in Existing) BY <3>1, Zenon
    <3> QED BY <3>3, <3>4, Zenon
  <2>3. score \in [Workers -> Int] /\ todo \in [Workers -> SUBSET Channels] BY DEF Init
  <2> QED BY <2>1, <2>2, <2>3 DEF ScoresOK
<1>2. ListsOK
  <2>1. DOMAIN left = Requests /\ DOMAIN at = Requests BY DEF Init
  <2>2. \A r \in Requests : left[r] = << >> /\ at[r] = "idle" BY DEF Init
  <2> QED BY <2>1, <2>2, EmptyTriable DEF ListsOK
<1> QED BY <1>1, <1>2

LEMMA ScoresStay ==
  ASSUME ScoresOK, setting' = setting, UNCHANGED <<active, health, score, todo>>
  PROVE  ScoresOK'
BY DEF ScoresOK, Configured, Existing

LEMMA AdjustedIsInt ==
  ASSUME NEW s \in Int, NEW healthy
  PROVE  Adjusted(s, healthy) \in Int
<1>1. \A a \in Int, b \in Int : Min({a, b}) \in Int
  <2> TAKE a \in Int, b \in Int
  <2>1. \E x \in {a, b} : \A y \in {a, b} : x <= y
    <3>1. CASE a <= b BY <3>1
    <3>2. CASE b <= a BY <3>2
    <3> QED BY <3>1, <3>2
  <2> QED BY <2>1 DEF Min
<1>2. \A a \in Int, b \in Int : Max({a, b}) \in Int
  <2> TAKE a \in Int, b \in Int
  <2>1. \E x \in {a, b} : \A y \in {a, b} : x >= y
    <3>1. CASE a <= b BY <3>1
    <3>2. CASE b <= a BY <3>2
    <3> QED BY <3>1, <3>2
  <2> QED BY <2>1 DEF Max
<1>3. s + 30 \in Int /\ s - 30 \in Int OBVIOUS
<1> QED BY <1>1, <1>2, <1>3 DEF Adjusted, Step, MaxHealth

LEMMA CheckKeepsScores ==
  ASSUME ScoresOK, setting' = setting, NEW w \in Workers, Check(w)
  PROVE  ScoresOK'
<1>1. active' = active BY DEF Check, StartCycle, ReadScore, Probe, WriteScore, catalog
<1>2. \A c \in Channels : active'[c] => c \in Existing' BY <1>1 DEF ScoresOK, Existing
<1>3. SUFFICES /\ health' \in [Channels -> Int]
               /\ score' \in [Workers -> Int]
               /\ todo' \in [Workers -> SUBSET Channels]
  BY <1>1, <1>2 DEF ScoresOK, Configured
<1>4. CASE StartCycle(w) BY <1>4 DEF StartCycle, ScoresOK, Configured, catalog
<1>5. CASE ReadScore(w)
  <2>1. Current(w) \in Channels
    <3>1. todo[w] # {} /\ todo[w] \subseteq Channels BY <1>5 DEF ReadScore, ScoresOK
    <3> QED BY <3>1 DEF Current
  <2>2. health[Current(w)] \in Int BY <2>1 DEF ScoresOK, Configured
  <2>3. score' \in [Workers -> Int] BY <1>5, <2>2 DEF ReadScore, ScoresOK
  <2> QED BY <1>5, <2>3 DEF ReadScore, ScoresOK, Configured, catalog
<1>6. CASE Probe(w) BY <1>6 DEF Probe, ScoresOK, Configured, catalog
<1>7. CASE WriteScore(w)
  <2>1. score' \in [Workers -> Int]
    <3>1. PICK v \in Int : v = -1 OBVIOUS
    <3>2. score' = [score EXCEPT ![w] = v] BY <1>7, <3>1 DEF WriteScore
    <3> QED BY <3>2 DEF ScoresOK
  <2>2. todo' \in [Workers -> SUBSET Channels] BY <1>7 DEF WriteScore, ScoresOK
  <2>3. health' \in [Channels -> Int]
    <3>1. PICK v : v = Adjusted(score[w], probe[w] = "healthy") OBVIOUS
    <3>2. v \in Int
      <4>1. score[w] \in Int BY DEF ScoresOK
      <4> QED BY <3>1, <4>1, AdjustedIsInt
    <3>3. health' = health \/ health' = [health EXCEPT ![Current(w)] = v] BY <1>7, <3>1 DEF WriteScore
    <3> QED BY <3>2, <3>3 DEF ScoresOK, Configured
  <2> QED BY <2>1, <2>2, <2>3
<1> QED BY <1>4, <1>5, <1>6, <1>7 DEF Check

LEMMA ScoresStep ==
  ASSUME ScoresOK, [Next]_vars, setting' = setting
  PROVE  ScoresOK'
<1>1. ASSUME NEW r, Deny(r) \/ Route(r) \/ Serve(r) \/ Beat(r) \/ Crash(r) \/ Return(r)
      PROVE  ScoresOK'
  <2>1. UNCHANGED <<active, health, score, todo>>
    BY <1>1 DEF Deny, Route, Serve, Acquire, Renew, Refuse, Answered, Failed, Beat, Crash, Return,
                catalog, checks
  <2> QED BY <2>1, ScoresStay
<1>2. ASSUME NEW i, Lapse(i) PROVE ScoresOK'
  <2>1. UNCHANGED <<active, health, score, todo>> BY <1>2 DEF Lapse, catalog, checks
  <2> QED BY <2>1, ScoresStay
<1>3. ASSUME Forget \/ UNCHANGED vars PROVE ScoresOK'
  <2>1. UNCHANGED <<active, health, score, todo>> BY <1>3 DEF Forget, vars, catalog, checks
  <2> QED BY <2>1, ScoresStay
<1>4. ASSUME NEW w \in setting.workers, Check(w) PROVE ScoresOK'
  <2>1. w \in Workers BY SettingsAssumption DEF ScoresOK, Configured
  <2> QED BY <1>4, <2>1, CheckKeepsScores
<1>5. ASSUME NEW c \in Existing, Toggle(c) PROVE ScoresOK'
  <2>1. UNCHANGED <<health, score, todo>> BY <1>5 DEF Toggle, checks
  <2>2. active' \in [Channels -> BOOLEAN] BY <1>5 DEF Toggle, ScoresOK
  <2>3. \A d \in Channels : active'[d] => d \in Existing
    <3> TAKE d \in Channels
    <3>1. d = c \/ active'[d] = active[d] BY <1>5 DEF Toggle, ScoresOK
    <3> QED BY <3>1 DEF ScoresOK
  <2>4. Existing' = Existing BY DEF Existing
  <2> QED BY <2>1, <2>2, <2>3, <2>4 DEF ScoresOK, Configured
<1> QED BY <1>1, <1>2, <1>3, <1>4, <1>5 DEF Next

\* A list keeps its order while the setting stays.
LEMMA TriableStays ==
  ASSUME setting' = setting, NEW l, Triable(l)
  PROVE  Triable(l)'
BY DEF Triable, MayPrecede, Is, Existing, Sticky

LEMMA ListsStay ==
  ASSUME ListsOK, setting' = setting, UNCHANGED <<at, left>>
  PROVE  ListsOK'
<1>1. ASSUME NEW r \in Requests PROVE Triable(left[r])'
  <2>1. PICK l : l = left[r] OBVIOUS
  <2>2. Triable(l)' BY <2>1, TriableStays DEF ListsOK
  <2>3. left'[r] = l BY <2>1
  <2> QED BY <2>2, <2>3
<1> QED BY <1>1 DEF ListsOK

\* One request goes on, with the list l.
LEMMA OneMoves ==
  ASSUME ListsOK, setting' = setting, NEW q \in Requests, NEW l, Triable(l), NEW place,
         (left' = left /\ l = left[q]) \/ left' = [left EXCEPT ![q] = l],
         at' = [at EXCEPT ![q] = place],
         place \in {"try", "renew", "calling"} => l # << >>
  PROVE  ListsOK'
<1>1. ASSUME NEW r \in Requests
      PROVE  /\ Triable(left[r])'
             /\ at'[r] \in {"try", "renew", "calling"} => left'[r] # << >>
  <2>1. CASE r = q
    <3>1. left'[r] = l /\ at'[r] = place BY <2>1 DEF ListsOK
    <3>2. Triable(l)' BY TriableStays
    <3> QED BY <3>1, <3>2
  <2>2. CASE r # q
    <3>1. PICK k : k = left[r] OBVIOUS
    <3>2. left'[r] = k /\ at'[r] = at[r] BY <2>2, <3>1 DEF ListsOK
    <3>3. Triable(k)' BY <3>1, TriableStays DEF ListsOK
    <3> QED BY <3>1, <3>2, <3>3 DEF ListsOK
  <2> QED BY <2>1, <2>2
<1>2. DOMAIN left' = Requests /\ DOMAIN at' = Requests BY DEF ListsOK
<1> QED BY <1>1, <1>2 DEF ListsOK

\* A request is routed: the candidates are in order, those its group allows too.
LEMMA RouteKeepsLists ==
  ASSUME ScoresOK, ListsOK, setting' = setting, NEW q \in Requests, Route(q)
  PROVE  ListsOK'
<1>1. PICK m \in setting.modes, hash \in setting.hashes, blind \in BOOLEAN :
        LET mine == Allowed(m, Candidates(m, hash, blind)) IN
        /\ left' = [left EXCEPT ![q] = mine]
        /\ at' = [at EXCEPT ![q] = IF mine = << >> THEN "done" ELSE "try"]
  BY DEF Route
<1>2. hash \in Nat BY SettingsAssumption DEF ScoresOK, Configured
<1>3. PICK found : found = Candidates(m, hash, blind) OBVIOUS
<1>4. Triable(found) BY <1>2, <1>3, CandidatesTriable DEF ScoresOK
<1>5. PICK l : l = Allowed(m, found) OBVIOUS
<1>6. Triable(l) BY <1>4, <1>5, AllowedTriable
<1>7. PICK place : place = IF l = << >> THEN "done" ELSE "try" OBVIOUS
<1>8. left' = [left EXCEPT ![q] = l] /\ at' = [at EXCEPT ![q] = place] BY <1>1, <1>3, <1>5, <1>7
<1>9. place \in {"try", "renew", "calling"} => l # << >> BY <1>7
<1> QED BY <1>6, <1>8, <1>9, OneMoves

\* A candidate failed: the rest of the list is in order.
LEMMA FailedKeepsLists ==
  ASSUME ListsOK, setting' = setting, NEW q \in Requests, Failed(q)
  PROVE  ListsOK'
<1>1. PICK l : l = left[q] OBVIOUS
<1>2. Triable(l) /\ l # << >> BY <1>1 DEF ListsOK, Failed
<1>3. PICK t : t = Tail(l) OBVIOUS
<1>4. Triable(t) /\ (Len(l) # 1 => t # << >>) BY <1>2, <1>3, TailTriable
<1>5. PICK place : place = IF Len(l) = 1 THEN "done" ELSE "try" OBVIOUS
<1>6. left' = [left EXCEPT ![q] = t] /\ at' = [at EXCEPT ![q] = place]
  BY <1>1, <1>3, <1>5 DEF Failed, ListsOK
<1>7. place \in {"try", "renew", "calling"} => t # << >> BY <1>4, <1>5
<1> QED BY <1>4, <1>6, <1>7, OneMoves

\* The other steps of a request leave its list.
LEMMA OthersKeepLists ==
  ASSUME ListsOK, setting' = setting, NEW q \in Requests,
         Deny(q) \/ Acquire(q) \/ Renew(q) \/ Refuse(q) \/ Answered(q) \/ Crash(q)
  PROVE  ListsOK'
<1>1. PICK l : l = left[q] OBVIOUS
<1>2. Triable(l) BY <1>1 DEF ListsOK
<1>3. left' = left BY DEF Deny, Acquire, Renew, Refuse, Answered, Crash, routed
<1>4. CASE Acquire(q) \/ Renew(q)
  <2>1. PICK place : at' = [at EXCEPT ![q] = place]
    BY <1>4 DEF Acquire, Renew
  <2>2. at[q] \in {"try", "renew"} BY <1>4 DEF Acquire, Renew
  <2>3. l # << >> BY <1>1, <2>2 DEF ListsOK
  <2> QED BY <1>1, <1>2, <1>3, <2>1, <2>3, OneMoves
<1>5. CASE Deny(q) \/ Refuse(q) \/ Answered(q) \/ Crash(q)
  <2>1. PICK place : at' = [at EXCEPT ![q] = place] /\ place \in {"done", "dead", "cut"}
    BY <1>5 DEF Deny, Refuse, Answered, Crash
  <2>2. place \notin {"try", "renew", "calling"} BY <2>1
  <2> QED BY <1>1, <1>2, <1>3, <2>1, <2>2, OneMoves
<1> QED BY <1>4, <1>5

\* A request that comes again begins with an empty list.
LEMMA ReturnKeepsLists ==
  ASSUME ListsOK, setting' = setting, NEW q \in Requests, Return(q)
  PROVE  ListsOK'
<1>1. PICK place : at' = [at EXCEPT ![q] = place] /\ place = "idle" BY DEF Return
<1>2. PICK l : l = << >> OBVIOUS
<1>3. left' = [left EXCEPT ![q] = l] BY <1>2 DEF Return
<1>4. Triable(l) BY <1>2, EmptyTriable
<1>5. place \notin {"try", "renew", "calling"} BY <1>1
<1> QED BY <1>1, <1>3, <1>4, <1>5, OneMoves

LEMMA ListsStep ==
  ASSUME ScoresOK, ListsOK, [Next]_vars, setting' = setting
  PROVE  ListsOK'
<1>1. ASSUME NEW q \in setting.requests,
             Deny(q) \/ Route(q) \/ Serve(q) \/ Crash(q) \/ Return(q)
      PROVE  ListsOK'
  <2>1. q \in Requests BY SettingsAssumption DEF ScoresOK, Configured
  <2> QED BY <1>1, <2>1, RouteKeepsLists, FailedKeepsLists, OthersKeepLists, ReturnKeepsLists
          DEF Serve
<1>2. ASSUME NEW i, Beat(i) \/ Lapse(i) PROVE ListsOK'
  <2>1. UNCHANGED <<at, left>> BY <1>2 DEF Beat, Lapse, routed
  <2> QED BY <2>1, ListsStay
<1>3. ASSUME Forget \/ UNCHANGED vars PROVE ListsOK'
  <2>1. UNCHANGED <<at, left>> BY <1>3 DEF Forget, vars, routed
  <2> QED BY <2>1, ListsStay
<1>4. ASSUME NEW w, Check(w) PROVE ListsOK'
  <2>1. UNCHANGED <<at, left>>
    BY <1>4 DEF Check, StartCycle, ReadScore, Probe, WriteScore, routed
  <2> QED BY <2>1, ListsStay
<1>5. ASSUME NEW c, Toggle(c) PROVE ListsOK'
  <2>1. UNCHANGED <<at, left>> BY <1>5 DEF Toggle, routed
  <2> QED BY <2>1, ListsStay
<1> QED BY <1>1, <1>2, <1>3, <1>4, <1>5 DEF Next

LEMMA ListsFollowTiers ==
  ASSUME ListsOK
  PROVE  FailoverFollowsTiers
<1> SUFFICES ASSUME NEW r \in Requests, NEW m \in DOMAIN left[r], NEW n \in DOMAIN left[r], m < n
             PROVE  LET c == Is(left[r][m].channel)  d == Is(left[r][n].channel) IN
                    /\ left[r][m].channel # left[r][n].channel
                    /\ m > 1 => c.tier < d.tier \/ (c.tier = d.tier /\ (d.sticky => c.sticky))
  BY DEF FailoverFollowsTiers
<1>1. PICK l : l = left[r] OBVIOUS
<1>2. Triable(l) BY <1>1 DEF ListsOK
<1>3. PICK x \in Existing, y \in Existing : x = l[m].channel /\ y = l[n].channel
  BY <1>1, <1>2 DEF Triable
<1>4. x # y /\ (m > 1 => MayPrecede(x, y)) BY <1>1, <1>2, <1>3 DEF Triable
<1>5. y \in Sticky <=> Is(y).sticky BY DEF Sticky
<1>6. x \in Sticky <=> Is(x).sticky BY DEF Sticky
<1> QED BY <1>1, <1>3, <1>4, <1>5, <1>6 DEF MayPrecede

\* Whatever order the rows come in, whatever a routing key, the health, the
\* loads and the remembered channel do to it: of any number of channels a
\* request tries none twice, and after the first it goes from tier to tier,
\* the sticky channels of a tier before the others.
THEOREM FailoverGoesTierByTier == Spec => []FailoverFollowsTiers
<1>1. Init => ScoresOK /\ ListsOK BY InitLists
<1>2. ScoresOK /\ ListsOK /\ [Next]_vars => (ScoresOK /\ ListsOK)'
  <2> SUFFICES ASSUME ScoresOK, ListsOK, [Next]_vars PROVE (ScoresOK /\ ListsOK)' OBVIOUS
  <2>1. setting' = setting BY SettingStays
  <2> QED BY <2>1, ScoresStep, ListsStep
<1>3. ListsOK => FailoverFollowsTiers BY ListsFollowTiers
<1> QED BY <1>1, <1>2, <1>3, PTL DEF Spec

-----------------------------------------------------------------------------
(* The limits of a key, for any finite number of calls, any administrators,    *)
(* any lengths of windows, days and months, and every setting.                 *)

Rows == [status : {"none", "active", "disabled", "revoked"}, hash : Nat, plain : Nat,
         block : BOOLEAN]

Jobs == [op : {"none", "update", "secret", "delete"}, copy : Rows]

Places == {"idle", "limit", "bucket", "checks", "upstream", "record"}

CallsT == [at : Places, block : BOOLEAN, free : BOOLEAN, reserved : Nat \cup {-1}, cost : Nat,
           starts : [Types -> Starts], todo : SUBSET Types]

WindowsTyped == /\ window \in [Stores -> [count : Nat, ends : Nat]]
                /\ passed \in [Stores -> [Starts -> Nat]]

BucketsTyped == /\ store \in {"redis", "postgres"}
                /\ bucket \in [Minutes -> [there : BOOLEAN, requests : Nat, tokens : Nat]]
                /\ granted \in [Minutes -> Nat] /\ owed \in Int

SpendTyped == /\ spend \in [Periods -> Nat \cup {-1}]
              /\ served \in [Periods -> Nat] /\ excused \in [Periods -> Nat]

KeysTyped ==
  /\ config \in Configs /\ now \in Starts
  /\ row \in Rows /\ handed \subseteq Secrets /\ admin \in [Admins -> Jobs]
  /\ call \in [Calls -> CallsT]
  /\ WindowsTyped /\ BucketsTyped /\ SpendTyped

-----------------------------------------------------------------------------
\* A copy of the row that may be written back: its hash was handed out, or is
\* the secret the answer will carry.
CopyOK(job) ==
  /\ job.op \in {"update", "delete"} =>
       job.copy.hash \in handed /\ job.copy.plain \in {0, job.copy.hash}
  /\ job.op = "secret" => job.copy.plain = job.copy.hash /\ job.copy.hash \in Secrets

CopiesOK == \A h \in Admins : CopyOK(admin[h])

-----------------------------------------------------------------------------
(* The limiter.  For one store: f is what it let pass at each tick, w its    *)
(* window, r the limit and n the time.                                     *)

\* What passes in the stretch from instant t on and before instant e.
Stretch(f, t, e) == Summed([u \in Starts |-> IF t <= u /\ u < e THEN f[u] ELSE 0])

\* All instants are earlier.
End == Horizon + 1

\* Where the window began, and the last tick at which it counts.
Opened(w)  == w.ends - Window
LastTick(s, w) == IF s = "redis" THEN w.ends - 1 ELSE w.ends

\* The current window: its first call passed, no more than were counted
\* passed since, and before it less than a window's worth in a window's time.
CurrentWindow(s, f, w, r, n) ==
  /\ Opened(w) \in Starts /\ Opened(w) <= n
  /\ w.count <= r + 1
  /\ f[Opened(w)] >= 1
  /\ Stretch(f, Opened(w), End) <= w.count /\ Stretch(f, Opened(w), End) <= r
  /\ \A t \in Starts : t > LastTick(s, w) => f[t] = 0
  /\ \A t \in Starts : t > Opened(w) - Window => Stretch(f, t, Opened(w)) <= r - 1

\* Without one, less than a window's worth passed in a window's time.
Rested(f, r, n) ==
  /\ \A t \in Starts : t >= n => f[t] = 0
  /\ \A t \in Starts : t > n - Window => Stretch(f, t, End) <= r - 1

StoreOK(s, f, w, r, n) ==
  /\ \A t \in Starts : t > n => f[t] = 0
  /\ \A t \in Starts : Stretch(f, t, t + Window) <= 2 * r - 1
  /\ IF w.count > 0 THEN CurrentWindow(s, f, w, r, n) ELSE Rested(f, r, n)

WindowsOK == config.rate > 0 => \A s \in Stores : StoreOK(s, passed[s], window[s], config.rate, now)

-----------------------------------------------------------------------------
(* The buckets. *)
BucketsOK ==
  /\ config.rpm > 0 => \A m \in Minutes :
       granted[m] = bucket[m].requests /\ bucket[m].requests <= config.rpm
  /\ store = "redis" => Summed([m \in Minutes |-> bucket[m].tokens]) >= owed

-----------------------------------------------------------------------------
(* The spend.                                                              *)

\* The two types whose periods are found again.
Enforced == {"cumulative", "monthly"}

\* What a call has still to add to the period of a type that starts at t, and
\* what one that was compared with the limits may still cost.
PendingCost(job, type, t) ==
  IF job.at = "record" /\ type \in job.todo /\ job.starts[type] = t THEN job.cost ELSE 0
AheadCost(job, cost) == IF job.at = "upstream" /\ ~job.free THEN cost ELSE 0

Pending(type, t) == [c \in Calls |-> PendingCost(call[c], type, t)]
Ahead            == [c \in Calls |-> AheadCost(call[c], config.cost)]

\* What the row of a period says.
RowOf(p) == IF spend[p] < 0 THEN 0 ELSE spend[p]

\* What was served in the period of instant u is recorded, pending or excused.
AccountedAt(type, u) ==
  config.limit[type] > 0 =>
    served[<<type, Calendar(type, u)>>]
      <= RowOf(<<type, PeriodStart(type, u)>>) + Summed(Pending(type, PeriodStart(type, u)))
         + excused[<<type, Calendar(type, u)>>]

Accounted == \A type \in Enforced, u \in Starts : AccountedAt(type, u)

\* No row of a later period, and nothing served in one.
NothingLater ==
  \A type \in Enforced :
    /\ \A t \in Starts : t > PeriodStart(type, now) => spend[<<type, t>>] < 0
    /\ \A k \in Starts : k > Calendar(type, now) => served[<<type, k>>] = 0

\* The calls at the upstream are within the bound too.
BearableBy(type) ==
  config.limit[type] > 0 =>
    served[<<type, Calendar(type, now)>>] + Summed(Ahead)
      <= Overshoot(type) + excused[<<type, Calendar(type, now)>>]

Bearable == \A type \in Enforced : BearableBy(type)

\* A call that is being recorded was charged by its price, to periods that
\* had begun.
RecordOK(job) ==
  job.at = "record" =>
    /\ job.cost <= config.cost
    /\ \A type \in Enforced : \E t \in 0 .. now : job.starts[type] = PeriodStart(type, t)

CallsOK == \A c \in Calls : RecordOK(call[c])

SpendOK == Accounted /\ NothingLater /\ Bearable /\ CallsOK /\ OvershootIsBounded

KeysInv == KeysTyped /\ CopiesOK /\ SecretOpensTheKey /\ WindowsOK /\ BucketsOK /\ SpendOK

-----------------------------------------------------------------------------
(* The calendar.                                                           *)

\* Division, as far as the calendar uses it.
LEMMA DivFacts ==
  ASSUME NEW t \in Nat, NEW d \in Nat \ {0}
  PROVE  /\ t \div d \in Nat /\ t % d \in 0 .. d - 1 /\ t % d \in Nat
         /\ t = (t \div d) * d + (t % d)
         /\ t \div d <= t
         /\ (t \div d) * d \in 0 .. t
  OBVIOUS

LEMMA DivMonotone ==
  ASSUME NEW a \in Nat, NEW b \in Nat, NEW d \in Nat \ {0}, a <= b
  PROVE  a \div d <= b \div d
  OBVIOUS

LEMMA DivOfMultiple ==
  ASSUME NEW k \in Nat, NEW d \in Nat \ {0}
  PROVE  (k * d) \div d = k
  OBVIOUS

LEMMA TimesMonotone ==
  ASSUME NEW a \in Nat, NEW b \in Nat, NEW d \in Nat, a <= b
  PROVE  a * d <= b * d
  OBVIOUS

LEMMA ProductOfPositives ==
  ASSUME NEW a \in Nat \ {0}, NEW b \in Nat \ {0}
  PROVE  a * b \in Nat \ {0}
  OBVIOUS

Month == MonthDays * DayLength

LEMMA MonthIsPositive == Month \in Nat \ {0}
  BY ClockAssumption, ProductOfPositives DEF Month

\* A period starts at an instant, and not after the one it is asked for.
LEMMA PeriodsStart ==
  ASSUME NEW type \in Types, NEW t \in Starts
  PROVE  PeriodStart(type, t) \in 0 .. t /\ PeriodStart(type, t) \in Starts
<1>1. t \in Nat /\ t <= Horizon /\ Horizon \in Nat
  BY ClockAssumption DEF Starts
<1>2. CASE type = "cumulative"
  BY <1>1, <1>2 DEF PeriodStart, Starts
<1>3. CASE type = "weekly"
  <2> DEFINE d == t \div DayLength
             w == d % WeekDays
  <2>1. d \in Nat /\ d * DayLength \in 0 .. t
    BY <1>1, ClockAssumption, DivFacts
  <2>2. w \in Nat /\ w <= d
    BY <2>1, ClockAssumption
  <2> HIDE DEF d, w
  <2>3. w * DayLength <= d * DayLength /\ w * DayLength \in Nat
    BY <2>1, <2>2, TimesMonotone, ClockAssumption
  <2>4. PeriodStart(type, t) = t - w * DayLength
    BY <1>3 DEF PeriodStart, d, w
  <2>. QED
    BY <2>1, <2>3, <2>4, <1>1 DEF Starts
<1>4. CASE type = "monthly"
  <2>1. PeriodStart(type, t) = t - (t % Month)
    BY <1>4 DEF PeriodStart, Month
  <2>2. t % Month \in 0 .. Month - 1 /\ t = (t \div Month) * Month + (t % Month) /\ t \div Month \in Nat
    BY <1>1, DivFacts, MonthIsPositive
  <2>3. (t \div Month) * Month \in Nat
    BY <2>2, MonthIsPositive
  <2>. QED
    BY <2>1, <2>2, <2>3, <1>1, MonthIsPositive DEF Starts
<1>. QED
  BY <1>2, <1>3, <1>4 DEF Types

LEMMA CalendarInStarts ==
  ASSUME NEW type \in Types, NEW t \in Starts
  PROVE  Calendar(type, t) \in Starts /\ Calendar(type, t) <= t
<1>1. t \in Nat /\ t <= Horizon /\ Horizon \in Nat /\ WeekDays * DayLength \in Nat \ {0}
  BY ClockAssumption, ProductOfPositives DEF Starts
<1>2. t \div (WeekDays * DayLength) \in 0 .. t
  BY <1>1, DivFacts
<1>3. t \div (MonthDays * DayLength) \in 0 .. t
  BY <1>1, DivFacts, MonthIsPositive DEF Month
<1>. QED
  BY <1>1, <1>2, <1>3 DEF Calendar, Starts, Types

\* Where the period of index k starts.
StartOf(type, k) == IF type = "monthly" THEN k * Month ELSE 0

\* Where a cumulative or monthly period starts, by an instant or its index.
LEMMA StartsAgree ==
  ASSUME NEW type \in Enforced, NEW t \in Starts
  PROVE  PeriodStart(type, t) = StartOf(type, Calendar(type, t))
<1>1. t \in Nat
  BY ClockAssumption DEF Starts
<1>2. t = (t \div Month) * Month + (t % Month) /\ t \div Month \in Nat /\ t % Month \in Nat
  BY <1>1, DivFacts, MonthIsPositive
<1>3. CASE type = "monthly"
  BY <1>2, <1>3, MonthIsPositive DEF PeriodStart, StartOf, Calendar, Month
<1>4. CASE type = "cumulative"
  BY <1>4 DEF PeriodStart, StartOf
<1>. QED
  BY <1>3, <1>4 DEF Enforced

\* The start of a period lies in that period.
LEMMA IndexOfStart ==
  ASSUME NEW type \in Enforced, NEW t \in Starts
  PROVE  Calendar(type, PeriodStart(type, t)) = Calendar(type, t)
<1>1. t \in Nat
  BY ClockAssumption DEF Starts
<1>2. t = (t \div Month) * Month + (t % Month) /\ t \div Month \in Nat /\ t % Month \in Nat
  BY <1>1, DivFacts, MonthIsPositive
<1>3. CASE type = "monthly"
  <2>1. PeriodStart(type, t) = (t \div Month) * Month
    BY <1>2, <1>3, MonthIsPositive DEF PeriodStart, Month
  <2>2. ((t \div Month) * Month) \div Month = t \div Month
    BY <1>2, MonthIsPositive, DivOfMultiple
  <2>. QED
    BY <2>1, <2>2, <1>3 DEF Calendar, Month
<1>4. CASE type = "cumulative"
  BY <1>4 DEF Calendar
<1>. QED
  BY <1>3, <1>4 DEF Enforced

-----------------------------------------------------------------------------
(* Types.                                                                  *)

LEMMA MinOfTwo ==
  ASSUME NEW a \in Nat, NEW b \in Nat
  PROVE  Min({a, b}) \in {a, b} /\ Min({a, b}) <= a /\ Min({a, b}) <= b
<1>1. \E x \in {a, b} : \A y \in {a, b} : x <= y
  OBVIOUS
<1>. QED
  BY <1>1 DEF Min

LEMMA MaxOfTwo ==
  ASSUME NEW a \in Int, NEW b \in Int
  PROVE  Max({a, b}) \in {a, b} /\ Max({a, b}) >= a /\ Max({a, b}) >= b
<1>1. \E x \in {a, b} : \A y \in {a, b} : x >= y
  OBVIOUS
<1>. QED
  BY <1>1 DEF Max

LEMMA MinOfSecrets == Min(Secrets) \in Secrets
<1>1. Secrets \in SUBSET Nat /\ Secrets # {}
  BY SecretsAssumption
<1>2. \E x \in Secrets : \A y \in Secrets : x <= y
  BY <1>1, LeastNatural
<1>. QED
  BY <1>2 DEF Min

\* What the types say of the settings and the time.
LEMMA ConfigFacts ==
  ASSUME KeysTyped
  PROVE  /\ config.rpm \in Nat /\ config.tpm \in Nat /\ config.limit \in [Types -> Nat]
         /\ config.rate \in Nat /\ config.cost \in Nat /\ config.tokens \in Nat
         /\ config.until \in 0 .. Horizon /\ now \in Nat /\ now <= Horizon
<1>1. config \in KeyConfig
  BY ConfigsAssumption DEF KeysTyped
<1>2. now \in Nat /\ now <= Horizon
  BY ClockAssumption DEF KeysTyped, Starts
<1>. QED
  BY <1>1, <1>2 DEF KeyConfig

LEMMA NoCallTyped == NoCall \in CallsT
<1>1. 0 \in Starts
  BY ClockAssumption DEF Starts
<1>. QED
  BY <1>1 DEF NoCall, CallsT, Places

LEMMA NoKeyTyped == NoKey \in Rows
  BY DEF NoKey, Rows

LEMMA MinutesOf ==
  ASSUME NEW t \in Starts
  PROVE  Minute(t) \in Minutes
<1>1. t \in Nat /\ 0 \in Nat /\ Horizon \in Nat /\ 0 <= t /\ t <= Horizon /\ MinuteLength \in Nat \ {0}
  BY ClockAssumption DEF Starts
<1>2. 0 \div MinuteLength <= t \div MinuteLength /\ t \div MinuteLength <= Horizon \div MinuteLength
  BY <1>1, DivMonotone
<1>3. {0 \div MinuteLength, t \div MinuteLength, Horizon \div MinuteLength} \subseteq Nat
  BY <1>1, DivFacts
<1>. QED
  BY <1>2, <1>3 DEF Minute, Minutes

LEMMA InitTyped == KInit => KeysTyped
<1>. SUFFICES ASSUME KInit PROVE KeysTyped
  OBVIOUS
<1>1. Min(Secrets) \in Secrets /\ Secrets \subseteq Nat \ {0}
  BY MinOfSecrets, SecretsAssumption
<1>2. row \in Rows /\ handed \subseteq Secrets
  <2> DEFINE old == [NoKey EXCEPT !.status = "active", !.hash = Min(Secrets)]
  <2>1. old \in Rows /\ old.hash = Min(Secrets)
    BY <1>1 DEF Rows, NoKey
  <2>2. NoKey \in Rows /\ NoKey.hash = 0
    BY DEF Rows, NoKey
  <2>3. row \in {NoKey, old} /\ handed = {row.hash} \ {0}
    BY DEF KInit
  <2>. HIDE DEF old
  <2>. QED
    BY <1>1, <2>1, <2>2, <2>3
<1>3. 0 \in Starts
  BY ClockAssumption DEF Starts
<1>4. admin \in [Admins -> Jobs]
  BY NoKeyTyped DEF KInit, NoJob, Jobs
<1>5. call \in [Calls -> CallsT]
  BY NoCallTyped DEF KInit
<1>. QED
  BY <1>2, <1>3, <1>4, <1>5 DEF KInit, KeysTyped, WindowsTyped, BucketsTyped, SpendTyped

\* What a console step leaves of the key.
KeyOK == /\ row \in Rows /\ handed \subseteq Secrets /\ admin \in [Admins -> Jobs]
         /\ CopiesOK /\ SecretOpensTheKey

\* One administrator takes another copy; those of the others stay as they were.
LEMMA CopiesStayOK ==
  ASSUME KeyOK, NEW h \in Admins, NEW job \in Jobs, admin' = [admin EXCEPT ![h] = job],
         handed \subseteq handed', CopyOK(job)
  PROVE  admin' \in [Admins -> Jobs] /\ CopiesOK'
<1>1. admin \in [Admins -> Jobs] /\ CopiesOK
  BY DEF KeyOK
<1>2. ASSUME NEW g \in Admins PROVE CopyOK(admin[g])'
  <2>1. CASE g = h
    <3>1. admin'[g] = job
      BY <1>1, <2>1
    <3>. QED
      BY <3>1 DEF CopyOK
  <2>2. CASE g # h
    <3>1. admin'[g] = admin[g] /\ CopyOK(admin[g])
      BY <1>1, <2>2 DEF CopiesOK
    <3>. QED
      BY <3>1 DEF CopyOK
  <2>. QED
    BY <2>1, <2>2
<1>. QED
  BY <1>1, <1>2 DEF CopiesOK

LEMMA NoJobIsOK == NoJob \in Jobs /\ CopyOK(NoJob)
  BY NoKeyTyped DEF NoJob, Jobs, CopyOK

\* Every statement of the console leaves copies that may be written back, and
\* a row whose plain secret, when it has one, opens the key.
LEMMA ConsoleKeepsTheKey ==
  ASSUME KeyOK, NEW h \in Admins, AdminStep(h)
  PROVE  KeyOK'
<1>1. row \in Rows /\ handed \subseteq Secrets /\ admin \in [Admins -> Jobs]
  BY DEF KeyOK
<1>2. admin[h] \in Jobs /\ admin[h].copy \in Rows /\ CopyOK(admin[h])
  BY <1>1 DEF Jobs, KeyOK, CopiesOK
<1>4. Unused \subseteq Secrets /\ Secrets \subseteq Nat
  BY SecretsAssumption DEF Unused
<1>5. CASE Create(h)
  <2>1. PICK s \in Unused, block \in BOOLEAN :
          row' = NewRow(s, block) /\ handed' = handed \cup {s} /\ admin' = admin
    BY <1>5 DEF Create
  <2>2. NewRow(s, block) \in Rows
    BY <1>4 DEF NewRow, Rows
  <2>3. SecretOpensTheKey'
    BY <2>1 DEF SecretOpensTheKey, NewRow
  <2>4. CopiesOK'
    BY <1>1, <2>1 DEF CopiesOK, CopyOK, KeyOK
  <2>. QED
    BY <1>1, <1>4, <2>1, <2>2, <2>3, <2>4 DEF KeyOK
<1>6. ASSUME NEW op \in {"update", "secret", "delete"}, NEW copy \in Rows, Read(h, op, copy),
             CopyOK([op |-> op, copy |-> copy])
      PROVE  KeyOK'
  <2>1. [op |-> op, copy |-> copy] \in Jobs
    BY <1>6 DEF Jobs
  <2>2. row' = row /\ handed' = handed
    BY <1>6 DEF Read
  <2>3. admin' = [admin EXCEPT ![h] = [op |-> op, copy |-> copy]]
    BY <1>6 DEF Read
  <2>4. admin' \in [Admins -> Jobs] /\ CopiesOK'
    BY <1>6, <2>1, <2>2, <2>3, CopiesStayOK
  <2>. QED
    BY <1>1, <2>2, <2>4 DEF KeyOK, SecretOpensTheKey
<1>7. CASE Update(h)
  <2>1. PICK status \in {row.status, "active", "disabled"}, block \in BOOLEAN :
          Read(h, "update", [row EXCEPT !.status = status, !.block = block])
    BY <1>7 DEF Update
  <2> DEFINE copy == [row EXCEPT !.status = status, !.block = block]
  <2>2. copy \in Rows /\ copy.hash = row.hash /\ copy.plain = row.plain
    BY <1>1 DEF Rows
  <2>3. row.status # "none" /\ Read(h, "update", copy)
    BY <2>1 DEF Read
  <2>. HIDE DEF copy
  <2>4. CopyOK([op |-> "update", copy |-> copy])
    BY <2>2, <2>3 DEF CopyOK, KeyOK, SecretOpensTheKey
  <2>. QED
    BY <1>6, <2>2, <2>3, <2>4
<1>8. CASE Delete(h)
  <2> DEFINE copy == [row EXCEPT !.status = "revoked"]
  <2>2. copy \in Rows /\ copy.hash = row.hash /\ copy.plain = row.plain
    BY <1>1 DEF Rows
  <2>3. row.status # "none" /\ Read(h, "delete", copy)
    BY <1>8 DEF Read, Delete
  <2>. HIDE DEF copy
  <2>4. CopyOK([op |-> "delete", copy |-> copy])
    BY <2>2, <2>3 DEF CopyOK, KeyOK, SecretOpensTheKey
  <2>. QED
    BY <1>6, <2>2, <2>3, <2>4
<1>9. CASE GetSecret(h)
  <2>1. PICK s \in Unused : Read(h, "secret", [row EXCEPT !.hash = s, !.plain = s])
    BY <1>9 DEF GetSecret
  <2> DEFINE copy == [row EXCEPT !.hash = s, !.plain = s]
  <2>2. copy \in Rows /\ copy.hash = s /\ copy.plain = s /\ s \in Secrets
    BY <1>1, <1>4 DEF Rows
  <2>3. Read(h, "secret", copy)
    BY <2>1
  <2>. HIDE DEF copy
  <2>4. CopyOK([op |-> "secret", copy |-> copy])
    BY <2>2 DEF CopyOK
  <2>. QED
    BY <1>6, <2>2, <2>3, <2>4
<1>10. CASE Save(h)
  <2>1. /\ row' = admin[h].copy /\ admin' = [admin EXCEPT ![h] = NoJob]
        /\ handed' = IF admin[h].op = "secret" THEN handed \cup {admin[h].copy.plain} ELSE handed
        /\ admin[h].op \in {"update", "secret", "delete"}
    BY <1>2, <1>10 DEF Save, Saved, Jobs
  <2>2. handed \subseteq handed' /\ handed' \subseteq Secrets
    BY <1>1, <1>2, <2>1 DEF CopyOK
  <2>3. SecretOpensTheKey'
    BY <1>2, <2>1 DEF CopyOK, SecretOpensTheKey
  <2>4. admin' \in [Admins -> Jobs] /\ CopiesOK'
    BY <2>1, <2>2, NoJobIsOK, CopiesStayOK
  <2>. QED
    BY <1>2, <2>1, <2>2, <2>3, <2>4 DEF KeyOK
<1>11. CASE SaveFails(h)
  <2>1. admin' = [admin EXCEPT ![h] = NoJob] /\ row' = row /\ handed' = handed
    BY <1>11 DEF SaveFails
  <2>2. admin' \in [Admins -> Jobs] /\ CopiesOK'
    BY <2>1, NoJobIsOK, CopiesStayOK
  <2>. QED
    BY <1>1, <2>1, <2>2 DEF KeyOK, SecretOpensTheKey
<1>. QED
  BY <1>5, <1>7, <1>8, <1>9, <1>10, <1>11 DEF AdminStep

LEMMA KeyUnchanged ==
  ASSUME KeyOK, UNCHANGED keyVars
  PROVE  KeyOK'
<1>1. row' = row /\ handed' = handed /\ admin' = admin
  BY DEF keyVars
<1>. QED
  BY <1>1 DEF KeyOK, CopiesOK, CopyOK, SecretOpensTheKey

LEMMA InitKey == KInit => KeyOK
<1>. SUFFICES ASSUME KInit PROVE KeyOK
  OBVIOUS
<1>1. row \in Rows /\ handed \subseteq Secrets /\ admin \in [Admins -> Jobs]
  BY InitTyped DEF KeysTyped
<1>2. CopiesOK
  BY NoJobIsOK DEF KInit, CopiesOK
<1>3. SecretOpensTheKey
  <2> DEFINE old == [NoKey EXCEPT !.status = "active", !.hash = Min(Secrets)]
  <2>1. old.hash = Min(Secrets) /\ old.plain = 0 /\ Min(Secrets) # 0
    BY MinOfSecrets, SecretsAssumption DEF NoKey
  <2>2. NoKey.status = "none"
    BY DEF NoKey
  <2>3. row \in {NoKey, old} /\ handed = {row.hash} \ {0}
    BY DEF KInit
  <2>. HIDE DEF old
  <2>. QED
    BY <2>1, <2>2, <2>3 DEF SecretOpensTheKey
<1>. QED
  BY <1>1, <1>2, <1>3 DEF KeyOK

LEMMA CallTyped ==
  ASSUME call \in [Calls -> CallsT], NEW c \in Calls, NEW new \in CallsT,
         call' = [call EXCEPT ![c] = new]
  PROVE  call' \in [Calls -> CallsT]
  OBVIOUS

LEMMA IdleTyped ==
  ASSUME KeysTyped, NEW c \in Calls, Idle(c)
  PROVE  call' \in [Calls -> CallsT]
<1>1. call \in [Calls -> CallsT] /\ call' = [call EXCEPT ![c] = NoCall]
  BY DEF KeysTyped, Idle
<1>. QED
  BY <1>1, NoCallTyped, CallTyped

LEMMA CallMoved ==
  ASSUME NEW job \in CallsT, NEW place \in Places
  PROVE  [job EXCEPT !.at = place] \in CallsT
  BY DEF CallsT

\* A call that only moves on stays one.
LEMMA MovedTyped ==
  ASSUME KeysTyped, NEW c \in Calls, NEW place \in Places,
         call' = [call EXCEPT ![c].at = place]
  PROVE  call' \in [Calls -> CallsT]
<1>1. call \in [Calls -> CallsT] /\ call[c] \in CallsT
  BY DEF KeysTyped
<1>2. [call[c] EXCEPT !.at = place] \in CallsT
  BY <1>1, CallMoved
<1>3. call' = [call EXCEPT ![c] = [call[c] EXCEPT !.at = place]]
  OBVIOUS
<1>. QED
  BY <1>1, <1>2, <1>3, CallTyped

\* What the limiter stores for one more call is a window.
LEMMA CountedTyped ==
  ASSUME KeysTyped, NEW s \in Stores
  PROVE  Counted(s) \in [count : Nat, ends : Nat]
<1>1. window[s] \in [count : Nat, ends : Nat] /\ config.rate \in Nat /\ now \in Nat /\ Window \in Nat
  BY ConfigFacts, ClockAssumption DEF KeysTyped, WindowsTyped
<1>2. Min({window[s].count, config.rate}) \in Nat
  <2>1. window[s].count \in Nat /\ config.rate \in Nat
    BY <1>1
  <2>2. Min({window[s].count, config.rate}) \in {window[s].count, config.rate}
    BY <2>1, MinOfTwo
  <2>. QED
    BY <1>1, <2>1, <2>2
<1>3. [window[s] EXCEPT !.count = Min({@, config.rate}) + 1] \in [count : Nat, ends : Nat]
  BY <1>1, <1>2
<1>4. [count |-> 1, ends |-> now + Window] \in [count : Nat, ends : Nat]
  BY <1>1
<1>. QED
  BY <1>3, <1>4 DEF Counted

LEMMA RateLimitTyped ==
  ASSUME KeysTyped, NEW c \in Calls, RateLimit(c)
  PROVE  call' \in [Calls -> CallsT] /\ WindowsTyped'
<1>1. WindowsTyped /\ now \in Starts
  BY DEF KeysTyped
<1>2. Pass(c) => call' \in [Calls -> CallsT]
  BY MovedTyped DEF Pass, Places
<1>3. CASE config.rate = 0 /\ Pass(c) /\ UNCHANGED <<window, passed>>
  BY <1>1, <1>2, <1>3 DEF WindowsTyped
<1>4. CASE \E s \in Stores :
          /\ config.rate > 0 /\ (s = "memory" => MayFail("limiter"))
          /\ window' = [window EXCEPT ![s] = Counted(s)]
          /\ IF Counted(s).count > config.rate
             THEN Idle(c) /\ UNCHANGED <<passed, total>>
             ELSE passed' = [passed EXCEPT ![s][now] = @ + 1] /\ Pass(c)
  <2>1. PICK s \in Stores :
          /\ window' = [window EXCEPT ![s] = Counted(s)]
          /\ \/ Idle(c) /\ passed' = passed
             \/ passed' = [passed EXCEPT ![s][now] = @ + 1] /\ Pass(c)
    BY <1>4
  <2>2. window' \in [Stores -> [count : Nat, ends : Nat]]
    BY <1>1, <2>1, CountedTyped DEF WindowsTyped
  <2>3. passed' \in [Stores -> [Starts -> Nat]]
    BY <1>1, <2>1 DEF WindowsTyped
  <2>4. call' \in [Calls -> CallsT]
    BY <1>2, <2>1, IdleTyped
  <2>. QED
    BY <2>2, <2>3, <2>4 DEF WindowsTyped
<1>. QED
  BY <1>3, <1>4 DEF RateLimit

LEMMA ReserveTyped ==
  ASSUME KeysTyped, NEW c \in Calls, Reserve(c)
  PROVE  call' \in [Calls -> CallsT] /\ BucketsTyped'
<1> DEFINE m == Minute(now)
           next == [call[c] EXCEPT !.at = "checks", !.block = row.block]
<1>1. BucketsTyped /\ m \in Minutes /\ call \in [Calls -> CallsT] /\ call[c] \in CallsT
      /\ row \in Rows /\ config.tokens \in Nat
  BY MinutesOf, ConfigFacts DEF KeysTyped
<1>2. next \in CallsT
  BY <1>1 DEF CallsT, Places, Rows
<1>3. CASE call' = [call EXCEPT ![c] = next] /\ UNCHANGED buckets
  BY <1>1, <1>2, <1>3, CallTyped DEF BucketsTyped, buckets
<1>4. ASSUME NEW tokens \in 0 .. config.tokens, store' = store,
             bucket' = [bucket EXCEPT ![m] = Added(@, tokens)],
             granted' = [granted EXCEPT ![m] = @ + 1],
             owed' = owed + tokens,
             \/ call' = [call EXCEPT ![c] = next]
             \/ call' = [call EXCEPT ![c] = [next EXCEPT !.reserved = tokens]]
      PROVE  call' \in [Calls -> CallsT] /\ BucketsTyped'
  <2>1. [next EXCEPT !.reserved = tokens] \in CallsT
    <3>. HIDE DEF next
    <3>1. tokens \in Nat
      BY <1>1
    <3>. QED
      BY <1>2, <3>1 DEF CallsT
  <2>. HIDE DEF m, next
  <2>2. Added(bucket[m], tokens) \in [there : BOOLEAN, requests : Nat, tokens : Nat]
    BY <1>1 DEF BucketsTyped, Added
  <2>3. call' \in [Calls -> CallsT]
    BY <1>1, <1>2, <1>4, <2>1, CallTyped
  <2>4. bucket' \in [Minutes -> [there : BOOLEAN, requests : Nat, tokens : Nat]]
    BY <1>1, <1>4, <2>2 DEF BucketsTyped
  <2>. QED
    BY <1>1, <1>4, <2>3, <2>4 DEF BucketsTyped
<1>5. CASE /\ store' = store /\ bucket' = [bucket EXCEPT ![m].there = TRUE]
           /\ Idle(c) \/ call' = [call EXCEPT ![c] = next]
           /\ UNCHANGED <<granted, owed>>
  <2>. HIDE DEF m, next
  <2>1. [bucket[m] EXCEPT !.there = TRUE] \in [there : BOOLEAN, requests : Nat, tokens : Nat]
    BY <1>1 DEF BucketsTyped
  <2>2. bucket' \in [Minutes -> [there : BOOLEAN, requests : Nat, tokens : Nat]]
    BY <1>1, <1>5, <2>1 DEF BucketsTyped
  <2>3. call' \in [Calls -> CallsT]
    BY <1>1, <1>2, <1>5, IdleTyped, CallTyped
  <2>. QED
    BY <1>1, <1>5, <2>2, <2>3 DEF BucketsTyped
<1>. QED
  BY <1>3, <1>4, <1>5 DEF Reserve

LEMMA SettleTyped ==
  ASSUME KeysTyped, NEW c \in Calls, NEW tokens \in Nat, Settle(c, tokens)
  PROVE  BucketsTyped'
<1> DEFINE m == Minute(now)
           delta == tokens - call[c].reserved
<1>1. BucketsTyped /\ m \in Minutes /\ call[c] \in CallsT
  BY MinutesOf DEF KeysTyped
<1>2. delta \in Int
  BY <1>1 DEF CallsT
<1>3. CASE UNCHANGED buckets
  BY <1>1, <1>3 DEF BucketsTyped, buckets
<1>4. CASE /\ bucket' = [bucket EXCEPT ![m] = Settled(m, delta)]
           /\ owed' = owed + delta /\ UNCHANGED <<store, granted>>
  <2>. HIDE DEF m, delta
  <2> DEFINE sum == Max({0, bucket[m].tokens + delta})
  <2>1. sum \in Nat
    <3>1. 0 \in Int /\ bucket[m].tokens + delta \in Int
      BY <1>1, <1>2 DEF BucketsTyped
    <3>2. sum \in {0, bucket[m].tokens + delta} /\ sum >= 0
      BY <3>1, MaxOfTwo
    <3>. HIDE DEF sum
    <3>. QED
      BY <3>1, <3>2
  <2>2. [bucket[m] EXCEPT !.there = TRUE, !.tokens = sum]
           \in [there : BOOLEAN, requests : Nat, tokens : Nat]
    <3>. HIDE DEF sum
    <3>. QED
      BY <1>1, <2>1 DEF BucketsTyped
  <2>3. Settled(m, delta) \in [there : BOOLEAN, requests : Nat, tokens : Nat]
    BY <1>1, <2>2 DEF Settled, BucketsTyped
  <2>. QED
    BY <1>1, <1>2, <1>4, <2>3 DEF BucketsTyped
<1>. QED
  BY <1>3, <1>4 DEF Settle

LEMMA BillTyped ==
  ASSUME NEW f \in [Periods -> Nat], NEW starts \in [Types -> Starts], NEW types \in SUBSET Types,
         NEW cost \in Nat
  PROVE  Bill(f, starts, types, cost) \in [Periods -> Nat]
  BY DEF Bill

\* The starts and the indices of the periods a call is charged to.
StartsNow == [type \in Types |-> PeriodStart(type, now)]
RealNow   == [type \in Types |-> Calendar(type, now)]

LEMMA NowTyped ==
  ASSUME KeysTyped
  PROVE  StartsNow \in [Types -> Starts] /\ RealNow \in [Types -> Starts]
<1>1. now \in Starts
  BY DEF KeysTyped
<1>. QED
  BY <1>1, PeriodsStart, CalendarInStarts DEF StartsNow, RealNow

\* What an answered call leads to.
LEMMA AnswersCases ==
  ASSUME KeysTyped, NEW c \in Calls, UpstreamAnswers(c)
  PROVE  /\ At(c, "upstream") /\ now' = now /\ config' = config
         /\ \E tokens \in Nat : Settle(c, tokens)
         /\ \/ Idle(c) /\ UNCHANGED spending
            \/ \E cost \in 1 .. config.cost :
                 /\ call' = [call EXCEPT ![c].at = "record", ![c].cost = cost,
                               ![c].starts = StartsNow, ![c].todo = Limited]
                 /\ served' = Bill(served, RealNow, Limited, cost)
                 /\ excused' = IF call[c].free THEN Bill(excused, RealNow, Limited, cost)
                                               ELSE excused
                 /\ spend' = spend
<1>1. config.tokens \in Nat /\ config.cost \in Nat
  BY ConfigFacts
<1>2. At(c, "upstream") /\ now' = now /\ config' = config /\ \E tokens \in Nat : Settle(c, tokens)
  <2>1. PICK tokens \in 0 .. config.tokens : Settle(c, tokens)
    BY DEF UpstreamAnswers
  <2>2. \E n \in Nat : Settle(c, n)
    BY <1>1, <2>1
  <2>3. At(c, "upstream") /\ now' = now /\ config' = config
    BY DEF UpstreamAnswers
  <2>. QED
    BY <2>2, <2>3
<1>3. PICK cost \in 0 .. config.cost :
        IF cost = 0 \/ Limited = {} THEN Idle(c) /\ UNCHANGED spending
        ELSE /\ call' = [call EXCEPT ![c].at = "record", ![c].cost = cost,
                           ![c].starts = StartsNow, ![c].todo = Limited]
             /\ served' = Bill(served, RealNow, Limited, cost)
             /\ excused' = IF call[c].free THEN Bill(excused, RealNow, Limited, cost)
                                           ELSE excused
             /\ spend' = spend
  BY DEF UpstreamAnswers, StartsNow, RealNow
<1>4. cost = 0 \/ cost \in 1 .. config.cost
  BY <1>1
<1>. QED
  BY <1>2, <1>3, <1>4

\* An answer keeps the types of the call, the bucket and what was served.
LEMMA AnswersTyped ==
  ASSUME KeysTyped, NEW c \in Calls, UpstreamAnswers(c)
  PROVE  call' \in [Calls -> CallsT] /\ BucketsTyped' /\ SpendTyped'
<1>1. call \in [Calls -> CallsT] /\ call[c] \in CallsT /\ SpendTyped /\ config.cost \in Nat
  BY ConfigFacts DEF KeysTyped
<1>2. BucketsTyped'
  BY AnswersCases, SettleTyped
<1>3. CASE Idle(c) /\ UNCHANGED spending
  BY <1>1, <1>2, <1>3, IdleTyped DEF spending, SpendTyped
<1>4. ASSUME NEW cost \in 1 .. config.cost,
             call' = [call EXCEPT ![c].at = "record", ![c].cost = cost,
                        ![c].starts = StartsNow, ![c].todo = Limited],
             served' = Bill(served, RealNow, Limited, cost),
             excused' = IF call[c].free THEN Bill(excused, RealNow, Limited, cost)
                                        ELSE excused,
             spend' = spend
      PROVE  call' \in [Calls -> CallsT] /\ SpendTyped'
  <2>1. cost \in Nat /\ StartsNow \in [Types -> Starts] /\ RealNow \in [Types -> Starts]
        /\ Limited \subseteq Types
    BY <1>1, NowTyped DEF Limited
  <2>2. [call[c] EXCEPT !.at = "record", !.cost = cost, !.starts = StartsNow, !.todo = Limited]
          \in CallsT
    BY <1>1, <2>1 DEF CallsT, Places
  <2>3. call' \in [Calls -> CallsT]
    BY <1>1, <1>4, <2>2
  <2>4. Bill(served, RealNow, Limited, cost) \in [Periods -> Nat]
        /\ Bill(excused, RealNow, Limited, cost) \in [Periods -> Nat]
    BY <1>1, <2>1, BillTyped DEF SpendTyped
  <2>. QED
    BY <1>1, <1>4, <2>3, <2>4 DEF SpendTyped
<1>. QED
  BY <1>2, <1>3, <1>4, AnswersCases

\* The period type whose spend a call records next.
NextType(c) == IF "cumulative" \in call[c].todo THEN "cumulative"
               ELSE IF "weekly" \in call[c].todo THEN "weekly" ELSE "monthly"

LEMMA RecordTyped ==
  ASSUME KeysTyped, NEW c \in Calls, RecordSpend(c)
  PROVE  call' \in [Calls -> CallsT] /\ SpendTyped'
<1> DEFINE type == NextType(c)
           t == call[c].starts[type]
           rest == call[c].todo \ {type}
<1>1. call \in [Calls -> CallsT] /\ call[c] \in CallsT /\ SpendTyped
  BY DEF KeysTyped
<1>2. type \in Types
  BY DEF NextType, Types
<1>3. t \in Starts /\ rest \subseteq Types /\ call[c].cost \in Nat
  BY <1>1, <1>2 DEF CallsT
<1>4. /\ Rest(c, type)
      /\ \/ /\ spend' = [spend EXCEPT ![<<type, t>>] = Upserted(<<type, t>>, call[c].cost)]
            /\ excused' = excused
         \/ /\ excused' = [excused EXCEPT ![<<type, Calendar(type, t)>>] = @ + call[c].cost]
            /\ spend' = spend
      /\ served' = served
  BY DEF RecordSpend, NextType
<1>5. Idle(c) \/ call' = [call EXCEPT ![c] = [call[c] EXCEPT !.todo = rest]]
  BY <1>4 DEF Rest
<1>. HIDE DEF type, t, rest
<1>6. [call[c] EXCEPT !.todo = rest] \in CallsT
  BY <1>1, <1>3 DEF CallsT
<1>7. call' \in [Calls -> CallsT]
  BY <1>1, <1>5, <1>6, IdleTyped, CallTyped
<1>8. <<type, t>> \in Periods /\ <<type, Calendar(type, t)>> \in Periods
  BY <1>2, <1>3, CalendarInStarts DEF Periods
<1>9. Upserted(<<type, t>>, call[c].cost) \in Nat
  BY <1>1, <1>3, <1>8 DEF Upserted, SpendTyped
<1>10. spend' \in [Periods -> Nat \cup {-1}] /\ excused' \in [Periods -> Nat]
  <2>1. CASE /\ spend' = [spend EXCEPT ![<<type, t>>] = Upserted(<<type, t>>, call[c].cost)]
             /\ excused' = excused
    BY <1>1, <1>9, <2>1 DEF SpendTyped
  <2>2. CASE /\ excused' = [excused EXCEPT ![<<type, Calendar(type, t)>>] = @ + call[c].cost]
             /\ spend' = spend
    BY <1>1, <1>3, <1>8, <2>2 DEF SpendTyped
  <2>. QED
    BY <1>4, <2>1, <2>2
<1>. QED
  BY <1>1, <1>4, <1>7, <1>10 DEF SpendTyped

LEMMA CheckTyped ==
  ASSUME KeysTyped, NEW c \in Calls, CheckSpend(c)
  PROVE  call' \in [Calls -> CallsT]
<1>1. call \in [Calls -> CallsT] /\ call[c] \in CallsT
  BY DEF KeysTyped
<1>2. [call[c] EXCEPT !.at = "upstream", !.free = TRUE] \in CallsT
  BY <1>1 DEF CallsT, Places
<1>3. CASE call' = [call EXCEPT ![c].at = "upstream", ![c].free = TRUE]
  BY <1>1, <1>2, <1>3
<1>4. CASE call' = [call EXCEPT ![c].at = "upstream"]
  BY <1>4, MovedTyped DEF Places
<1>5. CASE Idle(c)
  BY <1>5, IdleTyped
<1>. QED
  BY <1>3, <1>4, <1>5 DEF CheckSpend

-----------------------------------------------------------------------------
(* Stretches of time.                                                      *)

Within(f, t, e) == [u \in Starts |-> IF t <= u /\ u < e THEN f[u] ELSE 0]

LEMMA StartsFinite == IsFiniteSet(Starts) /\ Starts \subseteq Nat /\ End \in Nat
<1>1. Horizon \in Nat /\ 0 \in Int /\ Horizon \in Int
  BY ClockAssumption
<1>. QED
  BY <1>1, FS_Interval DEF Starts, End

\* What passes in a stretch, as a sum over all instants.
LEMMA WithinTyped ==
  ASSUME NEW f \in [Starts -> Nat], NEW t \in Int, NEW e \in Int
  PROVE  Within(f, t, e) \in [Starts -> Nat] /\ Stretch(f, t, e) = Summed(Within(f, t, e))
         /\ Stretch(f, t, e) \in Nat
<1>1. Within(f, t, e) \in [Starts -> Nat] /\ Stretch(f, t, e) = Summed(Within(f, t, e))
  BY StartsFinite DEF Within, Stretch
<1>. QED
  BY <1>1, StartsFinite, SummedIsNat

\* A stretch in which nothing passes.
LEMMA StretchEmpty ==
  ASSUME NEW f \in [Starts -> Nat], NEW t \in Int, NEW e \in Int,
         \A u \in Starts : t <= u /\ u < e => f[u] = 0
  PROVE  Stretch(f, t, e) = 0
<1>1. \A u \in Starts : Within(f, t, e)[u] = 0
  BY DEF Within
<1>2. Within(f, t, e) \in [Starts -> Nat] /\ Stretch(f, t, e) = Summed(Within(f, t, e))
  BY WithinTyped
<1>. QED
  BY <1>1, <1>2, StartsFinite, SummedZeros

\* A call that passes counts in the stretches that hold its instant.
LEMMA StretchCounts ==
  ASSUME NEW f \in [Starts -> Nat], NEW g \in [Starts -> Nat], NEW n \in Starts,
         g[n] = f[n] + 1, \A j \in Starts \ {n} : g[j] = f[j],
         NEW t \in Int, NEW e \in Int, t <= n, n < e
  PROVE  Stretch(g, t, e) = Stretch(f, t, e) + 1
<1>2. /\ \A j \in Starts \ {n} : Within(g, t, e)[j] = Within(f, t, e)[j]
      /\ Within(g, t, e)[n] = f[n] + 1 /\ Within(f, t, e)[n] = f[n] /\ f[n] \in Nat
  BY DEF Within
<1>3. Within(g, t, e) \in [Starts -> Nat] /\ Within(f, t, e) \in [Starts -> Nat]
      /\ Stretch(g, t, e) = Summed(Within(g, t, e)) /\ Stretch(f, t, e) = Summed(Within(f, t, e))
      /\ Stretch(f, t, e) \in Nat
  BY WithinTyped
<1>4. Summed(Within(g, t, e)) = Summed(Within(f, t, e)) - Within(f, t, e)[n] + Within(g, t, e)[n]
  BY <1>2, <1>3, StartsFinite, SummedUpdate, ZenonT(40)
<1>. QED
  BY <1>2, <1>3, <1>4

\* A stretch cut in two.
LEMMA StretchSplit ==
  ASSUME NEW f \in [Starts -> Nat], NEW t \in Int, NEW m \in Int, NEW e \in Int,
         t <= m, m <= e
  PROVE  Stretch(f, t, e) = Stretch(f, t, m) + Stretch(f, m, e)
<1> DEFINE a == Within(f, t, e)
           b == Within(f, t, m)
           d == Within(f, m, e)
<1>1. a \in [Starts -> Nat] /\ b \in [Starts -> Nat] /\ d \in [Starts -> Nat]
  BY WithinTyped
<1>2. \A u \in Starts : b[u] = 0 \/ d[u] = 0
  BY StartsFinite DEF Within
<1>3. \A u \in Starts : a[u] = b[u] + d[u]
  BY StartsFinite DEF Within
<1>. HIDE DEF a, b, d
<1>4. IsFiniteSet(Starts)
  BY StartsFinite
<1>5. Summed(a) = Summed(b) + Summed(d)
  BY <1>1, <1>2, <1>3, <1>4, SummedDisjoint
<1>. QED
  BY <1>5, WithinTyped DEF a, b, d

\* A longer stretch.
LEMMA StretchGrows ==
  ASSUME NEW f \in [Starts -> Nat], NEW t \in Int, NEW e \in Int, NEW u \in Int, NEW v \in Int,
         t <= u, v <= e
  PROVE  Stretch(f, u, v) <= Stretch(f, t, e)
<1>1. \A x \in Starts : Within(f, u, v)[x] <= Within(f, t, e)[x]
  BY StartsFinite DEF Within
<1>2. /\ Within(f, t, e) \in [Starts -> Nat] /\ Stretch(f, t, e) = Summed(Within(f, t, e))
      /\ Within(f, u, v) \in [Starts -> Nat] /\ Stretch(f, u, v) = Summed(Within(f, u, v))
  BY WithinTyped
<1>. QED
  BY <1>1, <1>2, StartsFinite, SummedMonotone

\* What passed at one instant.
LEMMA StretchOfOne ==
  ASSUME NEW f \in [Starts -> Nat], NEW t \in Starts
  PROVE  Stretch(f, t, t + 1) = f[t]
<1> DEFINE z == [u \in Starts |-> 0]
<1>1. z \in [Starts -> Nat] /\ z[t] = 0 /\ (\A u \in Starts : z[u] = 0)
  OBVIOUS
<1>2. Summed(z) = 0
  BY <1>1, StartsFinite, SummedZeros
<1>3. /\ \A j \in Starts \ {t} : Within(f, t, t + 1)[j] = z[j]
      /\ Within(f, t, t + 1)[t] = f[t] /\ f[t] \in Nat /\ t \in Int /\ t + 1 \in Int
  BY StartsFinite DEF Within
<1>. HIDE DEF z
<1>4. Within(f, t, t + 1) \in [Starts -> Nat] /\ Stretch(f, t, t + 1) = Summed(Within(f, t, t + 1))
  BY <1>3, WithinTyped
<1>5. Summed(Within(f, t, t + 1)) = Summed(z) - z[t] + Within(f, t, t + 1)[t]
  <2> DEFINE g == Within(f, t, t + 1)
  <2>1. g \in [Starts -> Nat] /\ z \in [Starts -> Nat] /\ \A j \in Starts \ {t} : g[j] = z[j]
    BY <1>1, <1>3, <1>4
  <2>. HIDE DEF g
  <2>2. Summed(g) = Summed(z) - z[t] + g[t]
    BY <2>1, StartsFinite, SummedUpdate, ZenonT(40)
  <2>. QED
    BY <2>2 DEF g
<1>. QED
  BY <1>1, <1>2, <1>3, <1>4, <1>5

\* What passed at the first instant of a stretch is not in the rest of it.
LEMMA StretchAfter ==
  ASSUME NEW f \in [Starts -> Nat], NEW o \in Starts, NEW t \in Int, NEW e \in Int,
         f[o] >= 1, t > o, e <= End
  PROVE  Stretch(f, t, e) <= Stretch(f, o, End) - 1
<1>1. o \in Int /\ o + 1 \in Int /\ o + 1 <= End /\ End \in Int /\ f[o] \in Nat
  BY ClockAssumption DEF Starts, End
<1>2. Stretch(f, o, End) = Stretch(f, o, o + 1) + Stretch(f, o + 1, End)
  BY <1>1, StretchSplit
<1>3. Stretch(f, o, o + 1) = f[o]
  BY StretchOfOne
<1>4. Stretch(f, t, e) <= Stretch(f, o + 1, End)
  BY <1>1, StretchGrows
<1>5. Stretch(f, t, e) \in Nat /\ Stretch(f, o + 1, End) \in Nat
  BY <1>1, WithinTyped
<1>. QED
  BY <1>1, <1>2, <1>3, <1>4, <1>5

-----------------------------------------------------------------------------
(* The limiter keeps its windows in order.                                 *)

\* What the bounds of stretches rest on.
LEMMA StretchLaws ==
  ASSUME NEW f \in [Starts -> Nat]
  PROVE  /\ \A t \in Int, e \in Int : Stretch(f, t, e) \in Nat
         /\ \A t \in Int, m \in Int, e \in Int :
              t <= m /\ m <= e => Stretch(f, t, e) = Stretch(f, t, m) + Stretch(f, m, e)
         /\ \A t \in Int, e \in Int : e >= End => Stretch(f, t, e) = Stretch(f, t, End)
<1>1. \A t \in Int, e \in Int : Stretch(f, t, e) \in Nat
  BY WithinTyped
<1>2. \A t \in Int, m \in Int, e \in Int :
        t <= m /\ m <= e => Stretch(f, t, e) = Stretch(f, t, m) + Stretch(f, m, e)
  BY StretchSplit
<1>3. ASSUME NEW t \in Int, NEW e \in Int, e >= End
      PROVE  Stretch(f, t, e) = Stretch(f, t, End)
  <2>1. \A u \in Starts : u \in Nat /\ u < End
    BY ClockAssumption DEF Starts, End
  <2>2. \A u \in Starts : (t <= u /\ u < e) <=> (t <= u /\ u < End)
    BY <1>3, <2>1, StartsFinite
  <2>3. [u \in Starts |-> IF t <= u /\ u < e THEN f[u] ELSE 0]
          = [u \in Starts |-> IF t <= u /\ u < End THEN f[u] ELSE 0]
    BY <2>2
  <2>. QED
    BY <2>3 DEF Stretch
<1>. QED
  BY <1>1, <1>2, <1>3

\* Leaving out the first instant, at which something passed, takes one at least.
LEMMA StretchAfterFirst ==
  ASSUME NEW f \in [Starts -> Nat]
  PROVE  \A o \in Starts, t \in Int :
           f[o] >= 1 /\ t > o => Stretch(f, t, End) <= Stretch(f, o, End) - 1
<1>. SUFFICES ASSUME NEW o \in Starts, NEW t \in Int, f[o] >= 1, t > o
              PROVE  Stretch(f, t, End) <= Stretch(f, o, End) - 1
  OBVIOUS
<1>1. End \in Int /\ End <= End
  BY StartsFinite
<1>. QED
  BY <1>1, StretchAfter

\* What every bound of a stretch rests on.
LEMMA TimeFacts ==
  /\ Window \in Nat /\ Window > 0 /\ End \in Nat /\ End \in Int
  /\ \A t \in Starts : t \in Nat /\ t \in Int /\ t < End /\ t + Window \in Int
<1>1. Window \in Nat \ {0} /\ Horizon \in Nat
  BY ClockAssumption
<1>. QED
  BY <1>1 DEF Starts, End

LEMMA WindowTyped ==
  ASSUME NEW w \in [count : Nat, ends : Nat], NEW s
  PROVE  /\ w.count \in Nat /\ w.ends \in Nat /\ Opened(w) \in Int /\ LastTick(s, w) \in Int
         /\ Opened(w) + Window <= LastTick(s, w) + 1
<1>1. Window \in Nat /\ w.ends \in Nat
  BY ClockAssumption
<1>. QED
  BY <1>1 DEF Opened, LastTick

\* What passing at one instant does to the stretches.
LEMMA PassingLaws ==
  ASSUME NEW f \in [Starts -> Nat], NEW g \in [Starts -> Nat], NEW n \in Starts,
         g[n] = f[n] + 1, \A j \in Starts \ {n} : g[j] = f[j]
  PROVE  /\ \A t \in Int, e \in Int : t <= n /\ n < e => Stretch(g, t, e) = Stretch(f, t, e) + 1
         /\ \A t \in Int, e \in Int : n < t => Stretch(g, t, e) = Stretch(f, t, e)
         /\ \A t \in Int, e \in Int : e <= n => Stretch(g, t, e) = Stretch(f, t, e)
<1>1. ASSUME NEW t \in Int, NEW e \in Int, t <= n, n < e
      PROVE  Stretch(g, t, e) = Stretch(f, t, e) + 1
  BY <1>1, StretchCounts
<1>2. n \in Int /\ \A u \in Starts : u \in Int
  BY TimeFacts
<1>3. ASSUME NEW t \in Int, NEW e \in Int, (n < t) \/ (e <= n)
      PROVE  Stretch(g, t, e) = Stretch(f, t, e)
  <2>1. ASSUME NEW u \in Starts, t <= u, u < e PROVE g[u] = f[u]
    BY <1>2, <1>3, <2>1
  <2>2. \A u \in Starts : t <= u /\ u < e => g[u] = f[u]
    BY <2>1
  <2>3. [u \in Starts |-> IF t <= u /\ u < e THEN g[u] ELSE 0]
          = [u \in Starts |-> IF t <= u /\ u < e THEN f[u] ELSE 0]
    BY <2>2
  <2>. QED
    BY <2>3 DEF Stretch
<1>. QED
  BY <1>1, <1>3

\* A call opens a new window.
LEMMA WindowOpens ==
  ASSUME NEW s, NEW f \in [Starts -> Nat], NEW w \in [count : Nat, ends : Nat],
         NEW r \in Nat \ {0}, NEW n \in Starts,
         StoreOK(s, f, w, r, n), (w.count = 0) \/ (n > LastTick(s, w))
  PROVE  StoreOK(s, [f EXCEPT ![n] = @ + 1], [count |-> 1, ends |-> n + Window], r, n)
<1> DEFINE g == [f EXCEPT ![n] = @ + 1]
           v == [count |-> 1, ends |-> n + Window]
<1>0. n \in Int /\ n \in Nat /\ n < End /\ End \in Int /\ Window \in Nat /\ Window > 0
  BY TimeFacts
<1>1. /\ g \in [Starts -> Nat] /\ g[n] = f[n] + 1 /\ \A t \in Starts : t # n => g[t] = f[t]
      /\ \A t \in Int, e \in Int : t <= n /\ n < e => Stretch(g, t, e) = Stretch(f, t, e) + 1
      /\ \A t \in Int, e \in Int : n < t => Stretch(g, t, e) = Stretch(f, t, e)
      /\ \A t \in Int, e \in Int : e <= n => Stretch(g, t, e) = Stretch(f, t, e)
  <2>1. g \in [Starts -> Nat] /\ g[n] = f[n] + 1 /\ (\A t \in Starts \ {n} : g[t] = f[t])
    OBVIOUS
  <2>. HIDE DEF g
  <2>. QED
    BY <2>1, PassingLaws
<1>2. v.count = 1 /\ v.ends = n + Window
  OBVIOUS
<1>. HIDE DEF g, v
<1>3. w.count \in Nat /\ Opened(w) \in Int /\ LastTick(s, w) \in Int
      /\ Opened(w) + Window <= LastTick(s, w) + 1
  BY WindowTyped
<1>4. ASSUME NEW t \in Starts, t >= n PROVE f[t] = 0
  <2>1. CASE w.count = 0
    BY <1>4, <2>1 DEF StoreOK, Rested
  <2>2. CASE w.count > 0
    <3>1. t > LastTick(s, w)
      BY <1>0, <1>3, <1>4, <2>2, TimeFacts
    <3>. QED
      BY <2>2, <3>1 DEF StoreOK, CurrentWindow
  <2>. QED
    BY <1>3, <2>1, <2>2
<1>5. ASSUME NEW e \in Int, e > n PROVE Stretch(g, n, e) = 1
  <2>1. \A u \in Starts : n <= u /\ u < e => f[u] = 0
    BY <1>0, <1>4, TimeFacts
  <2>2. Stretch(f, n, e) = 0
    BY <1>0, <2>1, StretchEmpty
  <2>. QED
    BY <1>0, <1>1, <1>5, <2>2
<1>6. ASSUME NEW t \in Starts, t > n - Window, t <= n PROVE Stretch(g, t, n) <= r - 1
  <2>0. t \in Int /\ Stretch(f, t, n) \in Nat /\ Stretch(f, t, End) \in Nat
    BY <1>0, TimeFacts, WithinTyped
  <2>1. Stretch(f, t, n) <= Stretch(f, t, End)
    BY <1>0, <2>0, StretchGrows
  <2>2. Stretch(f, t, End) <= r - 1
    <3>1. CASE w.count = 0
      BY <1>6, <3>1 DEF StoreOK, Rested
    <3>2. CASE w.count > 0
      <4>1. /\ Opened(w) \in Starts /\ f[Opened(w)] >= 1 /\ Stretch(f, Opened(w), End) <= r
            /\ n > LastTick(s, w)
        BY <3>2 DEF StoreOK, CurrentWindow
      <4>2. t > Opened(w)
        BY <1>0, <1>3, <1>6, <2>0, <4>1
      <4>3. Stretch(f, t, End) <= Stretch(f, Opened(w), End) - 1
        BY <2>0, <4>1, <4>2, StretchAfterFirst
      <4>4. Stretch(f, Opened(w), End) \in Nat
        BY <1>0, <1>3, WithinTyped
      <4>. QED
        BY <2>0, <4>1, <4>3, <4>4
    <3>. QED
      BY <1>3, <3>1, <3>2
  <2>3. Stretch(g, t, n) = Stretch(f, t, n)
    BY <1>0, <1>1, <2>0
  <2>. QED
    BY <2>0, <2>1, <2>2, <2>3
<1>7. ASSUME NEW t \in Starts PROVE Stretch(g, t, t + Window) <= 2 * r - 1
  <2> DEFINE e == t + Window
  <2>0. t \in Int /\ e \in Int
    BY <1>0, TimeFacts
  <2>1. CASE (n < t) \/ (e <= n)
    <3>1. Stretch(g, t, e) = Stretch(f, t, e)
      <4>. HIDE DEF e
      <4>. QED
        BY <1>1, <2>0, <2>1
    <3>. QED
      BY <3>1 DEF StoreOK
  <2>2. CASE t <= n /\ n < e
    <3>0. t > n - Window
      BY <1>0, <2>0, <2>2
    <3>. HIDE DEF e
    <3>1. Stretch(g, t, e) = Stretch(g, t, n) + Stretch(g, n, e)
      BY <1>0, <1>1, <2>0, <2>2, StretchSplit
    <3>2. Stretch(g, n, e) = 1 /\ Stretch(g, t, n) <= r - 1
      BY <1>5, <1>6, <2>0, <2>2, <3>0
    <3>3. Stretch(g, t, n) \in Nat
      BY <1>0, <1>1, <2>0, WithinTyped
    <3>4. Stretch(g, t, e) <= 2 * r - 1
      BY <3>1, <3>2, <3>3
    <3>. QED
      BY <3>4 DEF e
  <2>. QED
    BY <1>0, <2>0, <2>1, <2>2
<1>8. ASSUME NEW t \in Starts, t > n PROVE g[t] = 0
  <2>1. t # n /\ t >= n
    BY <1>0, <1>8, TimeFacts
  <2>. QED
    BY <1>1, <1>4, <2>1
<1>9. Opened(v) = n /\ LastTick(s, v) >= n
  BY <1>0, <1>2 DEF Opened, LastTick
<1>10. ASSUME NEW t \in Starts, t > Opened(v) - Window PROVE Stretch(g, t, Opened(v)) <= r - 1
  <2>1. CASE t <= n
    BY <1>6, <1>9, <1>10, <2>1
  <2>2. CASE t > n
    <3>1. \A u \in Starts : t <= u /\ u < n => g[u] = 0
      BY <1>0, <2>2, TimeFacts
    <3>2. Stretch(g, t, n) = 0
      BY <1>0, <1>1, <3>1, TimeFacts, StretchEmpty
    <3>. QED
      BY <1>9, <3>2
  <2>. QED
    BY <1>0, <2>1, <2>2, TimeFacts
<1>11. ASSUME NEW t \in Starts, t > LastTick(s, v) PROVE g[t] = 0
  <2>1. LastTick(s, v) \in Int /\ t \in Int
    BY <1>0, <1>2, TimeFacts DEF LastTick
  <2>2. t > n
    BY <1>0, <1>9, <1>11, <2>1
  <2>. QED
    BY <1>8, <2>2
<1>12. g[n] >= 1
  BY <1>1, <1>0, <1>4
<1>13. Stretch(g, n, End) = 1
  BY <1>0, <1>5
<1>14. CurrentWindow(s, g, v, r, n)
  BY <1>0, <1>2, <1>9, <1>10, <1>11, <1>12, <1>13 DEF CurrentWindow
<1>15. StoreOK(s, g, v, r, n)
  BY <1>2, <1>7, <1>8, <1>14 DEF StoreOK
<1>. QED
  BY <1>15 DEF g, v

\* A call counts in the current window.
LEMMA WindowCounts ==
  ASSUME NEW s, NEW f \in [Starts -> Nat], NEW w \in [count : Nat, ends : Nat],
         NEW r \in Nat \ {0}, NEW n \in Starts,
         StoreOK(s, f, w, r, n), w.count > 0, n <= LastTick(s, w), w.count < r
  PROVE  StoreOK(s, [f EXCEPT ![n] = @ + 1], [w EXCEPT !.count = w.count + 1], r, n)
<1> DEFINE g == [f EXCEPT ![n] = @ + 1]
           v == [w EXCEPT !.count = w.count + 1]
<1>0. n \in Int /\ n \in Nat /\ n < End /\ End \in Int /\ Window \in Nat /\ Window > 0
  BY TimeFacts
<1>1. /\ g \in [Starts -> Nat] /\ g[n] = f[n] + 1 /\ \A t \in Starts : t # n => g[t] = f[t]
      /\ \A t \in Int, e \in Int : t <= n /\ n < e => Stretch(g, t, e) = Stretch(f, t, e) + 1
      /\ \A t \in Int, e \in Int : n < t => Stretch(g, t, e) = Stretch(f, t, e)
      /\ \A t \in Int, e \in Int : e <= n => Stretch(g, t, e) = Stretch(f, t, e)
  <2>1. g \in [Starts -> Nat] /\ g[n] = f[n] + 1 /\ (\A t \in Starts \ {n} : g[t] = f[t])
    OBVIOUS
  <2>. HIDE DEF g
  <2>. QED
    BY <2>1, PassingLaws
<1>. HIDE DEF g
<1>2. w.count \in Nat /\ Opened(w) \in Int /\ LastTick(s, w) \in Int
  BY WindowTyped
<1>4. CurrentWindow(s, f, w, r, n)
  BY DEF StoreOK
<1>5. v.count = w.count + 1 /\ v.ends = w.ends
  OBVIOUS
<1>. HIDE DEF v
<1>40. \A t \in Starts : t \in Nat /\ t \in Int /\ t < End /\ t + Window \in Int
  BY TimeFacts
<1> DEFINE o == Opened(w)
<1>7. o \in Starts /\ o \in Nat /\ o \in Int /\ o <= n /\ f[o] >= 1 /\ f[o] \in Nat
  BY <1>4, TimeFacts DEF CurrentWindow
<1>8. Stretch(g, o, End) <= w.count + 1 /\ Stretch(g, o, End) <= r /\ Stretch(g, o, End) \in Nat
  <2>1. Stretch(f, o, End) <= w.count /\ Stretch(f, o, End) \in Nat
    BY <1>0, <1>4, <1>7, WithinTyped DEF CurrentWindow
  <2>2. Stretch(g, o, End) = Stretch(f, o, End) + 1
    BY <1>0, <1>1, <1>7
  <2>. QED
    BY <2>1, <2>2
<1>. HIDE DEF o
<1>9. ASSUME NEW t \in Starts, t > o - Window PROVE Stretch(g, t, o) <= r - 1
  <2>1. Stretch(g, t, o) = Stretch(f, t, o)
    BY <1>1, <1>7, <1>40
  <2>2. Stretch(f, t, o) <= r - 1
    BY <1>4, <1>9 DEF CurrentWindow, o
  <2>. QED
    BY <2>1, <2>2
<1>10. g[o] >= 1
  BY <1>1, <1>7
<1>20. /\ \A t \in Int, e \in Int : Stretch(g, t, e) \in Nat
       /\ \A t \in Int, m \in Int, e \in Int :
            t <= m /\ m <= e => Stretch(g, t, e) = Stretch(g, t, m) + Stretch(g, m, e)
       /\ \A t \in Int, e \in Int : e >= End => Stretch(g, t, e) = Stretch(g, t, End)
  BY <1>1, StretchLaws
<1>21. \A t \in Int : t >= o => Stretch(g, t, End) <= r
  <2>1. SUFFICES ASSUME NEW t \in Int, t >= o PROVE Stretch(g, t, End) <= r
    OBVIOUS
  <2>2. CASE t <= End
    <3>1. Stretch(g, o, End) = Stretch(g, o, t) + Stretch(g, t, End)
      BY <1>0, <1>7, <1>20, <2>1, <2>2
    <3>2. Stretch(g, o, t) \in Nat /\ Stretch(g, t, End) \in Nat
      BY <1>0, <1>7, <1>20
    <3>. QED
      BY <1>8, <3>1, <3>2
  <2>3. CASE t > End
    <3>1. \A u \in Starts : t <= u /\ u < End => g[u] = 0
      BY <1>0, <1>40, <2>3
    <3>2. Stretch(g, t, End) = 0
      BY <1>0, <1>1, <3>1, StretchEmpty
    <3>. QED
      BY <3>2
  <2>. QED
    BY <1>0, <2>2, <2>3
<1>22. \A t \in Int, e \in Int : t >= o /\ t <= e => Stretch(g, t, e) <= r
  <2>1. SUFFICES ASSUME NEW t \in Int, NEW e \in Int, t >= o, t <= e PROVE Stretch(g, t, e) <= r
    OBVIOUS
  <2>2. CASE e >= End
    BY <1>20, <1>21, <2>1, <2>2
  <2>3. CASE e < End
    <3>1. Stretch(g, t, End) = Stretch(g, t, e) + Stretch(g, e, End)
      BY <1>0, <1>20, <2>1, <2>3
    <3>2. Stretch(g, t, e) \in Nat /\ Stretch(g, e, End) \in Nat /\ Stretch(g, t, End) <= r
      BY <1>0, <1>20, <1>21, <2>1
    <3>. QED
      BY <3>1, <3>2
  <2>. QED
    BY <1>0, <2>2, <2>3
<1>11. \A t \in Starts : Stretch(g, t, t + Window) <= 2 * r - 1
  <2>1. SUFFICES ASSUME NEW t \in Starts PROVE Stretch(g, t, t + Window) <= 2 * r - 1
    OBVIOUS
  <2> DEFINE e == t + Window
  <2>0. t \in Int /\ e \in Int /\ t <= e /\ o \in Int
    BY <1>0, <1>7, <1>40
  <2>2. CASE e <= o
    <3>1. Stretch(g, t, e) = Stretch(f, t, e)
      <4>1. e <= n
        BY <1>0, <1>7, <2>0, <2>2
      <4>. HIDE DEF e
      <4>. QED
        BY <1>1, <2>0, <4>1
    <3>. QED
      BY <3>1 DEF StoreOK
  <2>3. CASE t <= o /\ o < e
    <3>0. t > o - Window
      BY <1>0, <2>0, <2>3
    <3>. HIDE DEF e
    <3>1. Stretch(g, t, e) = Stretch(g, t, o) + Stretch(g, o, e)
      BY <1>20, <2>0, <2>3
    <3>2. Stretch(g, t, o) <= r - 1 /\ Stretch(g, t, o) \in Nat
      BY <1>9, <1>20, <2>0, <3>0
    <3>3. Stretch(g, o, e) <= r /\ Stretch(g, o, e) \in Nat
      <4>1. o >= o /\ o <= e
        BY <2>0, <2>3
      <4>2. Stretch(g, o, e) <= r
        BY <1>22, <2>0, <4>1
      <4>3. Stretch(g, o, e) \in Nat
        BY <1>20, <2>0
      <4>. QED
        BY <4>2, <4>3
    <3>4. Stretch(g, t, e) <= 2 * r - 1
      BY <3>1, <3>2, <3>3
    <3>. QED
      BY <3>4 DEF e
  <2>4. CASE t > o
    <3>. HIDE DEF e
    <3>1. Stretch(g, t, e) <= r /\ Stretch(g, t, e) \in Nat
      <4>1. t >= o
        BY <2>0, <2>4
      <4>2. Stretch(g, t, e) <= r
        BY <1>22, <2>0, <4>1
      <4>3. Stretch(g, t, e) \in Nat
        BY <1>20, <2>0
      <4>. QED
        BY <4>2, <4>3
    <3>2. Stretch(g, t, e) <= 2 * r - 1
      BY <3>1
    <3>. QED
      BY <3>2 DEF e
  <2>. QED
    BY <2>0, <2>2, <2>3, <2>4
<1>12. ASSUME NEW t \in Starts, (t > n) \/ (t > LastTick(s, w)) PROVE g[t] = 0
  <2>1. f[t] = 0
    BY <1>4, <1>12 DEF StoreOK, CurrentWindow
  <2>2. t # n
    BY <1>0, <1>2, <1>12, <1>40
  <2>. QED
    BY <1>1, <2>1, <2>2
<1>6. Opened(v) = o /\ LastTick(s, v) = LastTick(s, w)
  BY <1>5 DEF Opened, LastTick, o
<1>13. CurrentWindow(s, g, v, r, n)
  BY <1>2, <1>5, <1>6, <1>7, <1>8, <1>9, <1>10, <1>12 DEF CurrentWindow
<1>14. StoreOK(s, g, v, r, n)
  <2>1. v.count > 0
    BY <1>2, <1>5
  <2>. QED
    BY <1>11, <1>12, <1>13, <2>1 DEF StoreOK
<1>. QED
  BY <1>14 DEF g, v

\* A call is counted and refused.
LEMMA WindowRefuses ==
  ASSUME NEW s, NEW f \in [Starts -> Nat], NEW w \in [count : Nat, ends : Nat],
         NEW r \in Nat \ {0}, NEW n \in Starts,
         StoreOK(s, f, w, r, n), w.count > 0, w.count >= r
  PROVE  StoreOK(s, f, [w EXCEPT !.count = r + 1], r, n)
<1> DEFINE v == [w EXCEPT !.count = r + 1]
<1>1. v.count = r + 1 /\ v.ends = w.ends
  OBVIOUS
<1>2. CurrentWindow(s, f, w, r, n)
  BY DEF StoreOK
<1>. HIDE DEF v
<1>3. Opened(v) = Opened(w) /\ LastTick(s, v) = LastTick(s, w)
  BY <1>1 DEF Opened, LastTick
<1>4. Stretch(f, Opened(w), End) \in Nat
  BY WindowTyped, TimeFacts, WithinTyped
<1>5. CurrentWindow(s, f, v, r, n)
  BY <1>1, <1>2, <1>3, <1>4 DEF CurrentWindow
<1>6. StoreOK(s, f, v, r, n)
  BY <1>1, <1>5 DEF StoreOK
<1>. QED
  BY <1>6 DEF v

\* An expired window is swept.
LEMMA WindowSwept ==
  ASSUME NEW f \in [Starts -> Nat], NEW w \in [count : Nat, ends : Nat],
         NEW r \in Nat \ {0}, NEW n \in Starts,
         StoreOK("memory", f, w, r, n), w.count > 0, n > w.ends
  PROVE  StoreOK("memory", f, [count |-> 0, ends |-> 0], r, n)
<1>0. /\ n \in Int /\ Window \in Nat /\ End \in Int /\ Opened(w) \in Int /\ w.ends \in Nat
      /\ \A t \in Starts : t \in Int
  BY TimeFacts, WindowTyped
<1>1. CurrentWindow("memory", f, w, r, n) /\ LastTick("memory", w) = w.ends
  BY DEF StoreOK, LastTick
<1>2. \A t \in Starts : t >= n => f[t] = 0
  BY <1>0, <1>1 DEF CurrentWindow, LastTick
<1>3. ASSUME NEW t \in Starts, t > n - Window
      PROVE  Stretch(f, t, End) <= r - 1
  <2>1. t > Opened(w)
    BY <1>0, <1>3 DEF Opened
  <2>2. Stretch(f, t, End) <= Stretch(f, Opened(w), End) - 1
    BY <1>0, <1>1, <2>1, StretchAfterFirst DEF CurrentWindow
  <2>3. Stretch(f, Opened(w), End) <= r
    BY <1>1 DEF CurrentWindow
  <2>. QED
    <3>1. Stretch(f, t, End) \in Nat /\ Stretch(f, Opened(w), End) \in Nat
      BY <1>0, WithinTyped
    <3>. QED
      BY <2>2, <2>3, <3>1
<1>4. Rested(f, r, n)
  BY <1>2, <1>3 DEF Rested
<1>. QED
  BY <1>4 DEF StoreOK

\* Time passes.
LEMMA WindowAges ==
  ASSUME NEW s, NEW f \in [Starts -> Nat], NEW w \in [count : Nat, ends : Nat],
         NEW r \in Nat, NEW n \in Starts, StoreOK(s, f, w, r, n)
  PROVE  StoreOK(s, f, w, r, n + 1)
<1>0. n \in Int /\ Window \in Nat /\ \A t \in Starts : t \in Int
  BY TimeFacts
<1>1. \A t \in Starts : t > n + 1 => f[t] = 0
  BY <1>0 DEF StoreOK
<1>2. CASE w.count > 0
  <2>1. Opened(w) <= n + 1
    BY <1>0, <1>2, WindowTyped DEF StoreOK, CurrentWindow
  <2>2. CurrentWindow(s, f, w, r, n + 1)
    BY <1>2, <2>1 DEF StoreOK, CurrentWindow
  <2>. QED
    BY <1>1, <1>2, <2>2 DEF StoreOK
<1>3. CASE ~(w.count > 0)
  <2>1. \A t \in Starts : t >= n + 1 => f[t] = 0
    BY <1>0, <1>3 DEF StoreOK, Rested
  <2>2. \A t \in Starts : t > (n + 1) - Window => Stretch(f, t, End) <= r - 1
    BY <1>0, <1>3 DEF StoreOK, Rested
  <2>. QED
    BY <1>1, <1>3, <2>1, <2>2 DEF StoreOK, Rested
<1>. QED
  BY <1>2, <1>3


\* One store moves; the windows of the other are as they were.
LEMMA StoresAsideStayOK ==
  ASSUME WindowsOK, KeysTyped, NEW s \in Stores, now' = now, config' = config,
         \A z \in Stores \ {s} : window'[z] = window[z] /\ passed'[z] = passed[z],
         config.rate > 0 => StoreOK(s, passed'[s], window'[s], config.rate, now)
  PROVE  WindowsOK'
<1>1. ASSUME config.rate > 0, NEW z \in Stores
      PROVE  StoreOK(z, passed'[z], window'[z], config.rate, now)
  BY <1>1 DEF WindowsOK
<1>. QED
  BY <1>1 DEF WindowsOK

LEMMA WindowsUnchanged ==
  ASSUME WindowsOK, UNCHANGED <<config, now, limits>>
  PROVE  WindowsOK'
<1>1. window' = window /\ passed' = passed /\ config' = config /\ now' = now
  BY DEF limits
<1>. QED
  BY <1>1 DEF WindowsOK

\* The step of the limiter: a new window, one more in the current one, a refusal,
\* or a call let through unseen because the store failed.
LEMMA RateLimitKeepsWindows ==
  ASSUME KeysTyped, WindowsOK, NEW c \in Calls, RateLimit(c)
  PROVE  WindowsOK'
<1>1. config' = config /\ now' = now /\ now \in Starts /\ config.rate \in Nat
  BY ConfigFacts DEF RateLimit, KeysTyped
<1>2. CASE UNCHANGED <<window, passed>>
  BY <1>1, <1>2 DEF WindowsOK
<1>3. ASSUME NEW s \in Stores, config.rate > 0,
             window' = [window EXCEPT ![s] = Counted(s)],
             \/ Counted(s).count > config.rate /\ passed' = passed
             \/ ~(Counted(s).count > config.rate) /\ passed' = [passed EXCEPT ![s][now] = @ + 1]
      PROVE  WindowsOK'
  <2> DEFINE f == passed[s]
             w == window[s]
             r == config.rate
  <2>1. /\ f \in [Starts -> Nat] /\ w \in [count : Nat, ends : Nat] /\ r \in Nat \ {0}
        /\ w.count \in Nat /\ StoreOK(s, f, w, r, now)
    BY <1>1, <1>3 DEF KeysTyped, WindowsTyped, WindowsOK
  <2>2. /\ \A z \in Stores \ {s} : window'[z] = window[z] /\ passed'[z] = passed[z]
        /\ window'[s] = Counted(s)
        /\ \/ Counted(s).count > r /\ passed'[s] = f
           \/ ~(Counted(s).count > r) /\ passed'[s] = [f EXCEPT ![now] = @ + 1]
    BY <1>1, <1>3 DEF KeysTyped, WindowsTyped
  <2>3. Over(s) <=> (w.count = 0) \/ (now > LastTick(s, w))
    <3>1. now \in Nat /\ w.ends \in Nat
      BY <1>1, <2>1, TimeFacts
    <3>. QED
      BY <3>1 DEF Over, LastTick
  <2>. HIDE DEF f, w, r
  <2>4. StoreOK(s, passed'[s], window'[s], r, now)
    <3>1. CASE Over(s)
      <4>1. Counted(s) = [count |-> 1, ends |-> now + Window]
        BY <3>1 DEF Counted
      <4>2. passed'[s] = [f EXCEPT ![now] = @ + 1]
        BY <2>1, <2>2, <4>1
      <4>3. StoreOK(s, [f EXCEPT ![now] = @ + 1], [count |-> 1, ends |-> now + Window], r, now)
        BY <1>1, <2>1, <2>3, <3>1, WindowOpens
      <4>. QED
        BY <2>2, <4>1, <4>2, <4>3
    <3>2. CASE ~Over(s)
      <4>1. /\ w.count > 0 /\ ~(now > LastTick(s, w))
        BY <2>1, <2>3, <3>2
      <4>2. now <= LastTick(s, w)
        BY <1>1, <2>1, <4>1, WindowTyped, TimeFacts
      <4>3. Counted(s) = [w EXCEPT !.count = Min({w.count, r}) + 1]
        BY <3>2 DEF Counted, w, r
      <4>4. CASE w.count < r
        <5>1. Min({w.count, r}) = w.count
          <6>1. Min({w.count, r}) \in {w.count, r} /\ Min({w.count, r}) <= w.count
            <7>1. w.count \in Nat /\ r \in Nat
              BY <2>1
            <7>. QED
              BY <7>1, MinOfTwo
          <6>. QED
            BY <2>1, <4>4, <6>1
        <5>2. Counted(s) = [w EXCEPT !.count = w.count + 1]
          BY <4>3, <5>1
        <5>3. Counted(s).count = w.count + 1 /\ ~(w.count + 1 > r)
          BY <2>1, <4>4, <5>2
        <5>4. passed'[s] = [f EXCEPT ![now] = @ + 1]
          BY <2>2, <5>3
        <5>5. StoreOK(s, [f EXCEPT ![now] = @ + 1], [w EXCEPT !.count = w.count + 1], r, now)
          BY <1>1, <2>1, <4>1, <4>2, <4>4, WindowCounts
        <5>. QED
          BY <2>2, <5>2, <5>4, <5>5
      <4>5. CASE ~(w.count < r)
        <5>1. Min({w.count, r}) = r
          <6>1. Min({w.count, r}) \in {w.count, r} /\ Min({w.count, r}) <= r
            <7>1. w.count \in Nat /\ r \in Nat
              BY <2>1
            <7>. QED
              BY <7>1, MinOfTwo
          <6>. QED
            BY <2>1, <4>5, <6>1
        <5>2. Counted(s) = [w EXCEPT !.count = r + 1]
          BY <4>3, <5>1
        <5>3. Counted(s).count = r + 1 /\ r + 1 > r
          BY <2>1, <5>2
        <5>4. passed'[s] = f
          BY <2>2, <5>3
        <5>5. StoreOK(s, f, [w EXCEPT !.count = r + 1], r, now)
          BY <1>1, <2>1, <4>1, <4>5, WindowRefuses
        <5>. QED
          BY <2>2, <5>2, <5>4, <5>5
      <4>. QED
        BY <4>4, <4>5
    <3>. QED
      BY <3>1, <3>2
  <2>. QED
    BY <1>1, <2>2, <2>4, StoresAsideStayOK DEF r
<1>. QED
  BY <1>2, <1>3 DEF RateLimit

LEMMA SweepKeepsWindows ==
  ASSUME KeysTyped, WindowsOK, Sweep
  PROVE  WindowsOK' /\ WindowsTyped'
<1> DEFINE s == "memory"
           empty == [count |-> 0, ends |-> 0]
<1>1. /\ config' = config /\ now' = now /\ now \in Starts /\ config.rate \in Nat /\ s \in Stores
      /\ window[s].count > 0 /\ now > window[s].ends
      /\ window' = [window EXCEPT ![s] = empty] /\ passed' = passed
  BY ConfigFacts DEF Sweep, KeysTyped, Stores
<1>2. passed[s] \in [Starts -> Nat] /\ window[s] \in [count : Nat, ends : Nat] /\ WindowsTyped
  BY <1>1 DEF KeysTyped, WindowsTyped
<1>3. empty \in [count : Nat, ends : Nat]
  OBVIOUS
<1>4. config.rate > 0 => StoreOK(s, passed[s], empty, config.rate, now)
  <2>1. SUFFICES ASSUME config.rate > 0 PROVE StoreOK(s, passed[s], empty, config.rate, now)
    OBVIOUS
  <2>2. config.rate \in Nat \ {0} /\ StoreOK(s, passed[s], window[s], config.rate, now)
    BY <1>1, <2>1 DEF WindowsOK
  <2>. QED
    BY <1>1, <1>2, <2>2, WindowSwept
<1>. HIDE DEF s, empty
<1>5. /\ \A z \in Stores \ {s} : window'[z] = window[z] /\ passed'[z] = passed[z]
      /\ window'[s] = empty /\ passed'[s] = passed[s] /\ WindowsTyped'
  BY <1>1, <1>2, <1>3 DEF WindowsTyped
<1>. QED
  BY <1>1, <1>4, <1>5, StoresAsideStayOK

LEMMA TickKeepsWindows ==
  ASSUME KeysTyped, WindowsOK, Tick
  PROVE  WindowsOK'
<1>1. config' = config /\ now' = now + 1 /\ now \in Starts /\ config.rate \in Nat
      /\ window' = window /\ passed' = passed
  BY ConfigFacts DEF Tick, limits, KeysTyped
<1>2. ASSUME config.rate > 0, NEW s \in Stores
      PROVE  StoreOK(s, passed[s], window[s], config.rate, now + 1)
  <2>1. StoreOK(s, passed[s], window[s], config.rate, now)
        /\ passed[s] \in [Starts -> Nat] /\ window[s] \in [count : Nat, ends : Nat]
    BY <1>2 DEF WindowsOK, KeysTyped, WindowsTyped
  <2>. QED
    BY <1>1, <2>1, WindowAges
<1>. QED
  BY <1>1, <1>2 DEF WindowsOK

LEMMA InitWindows == KInit => WindowsOK
<1>. SUFFICES ASSUME KInit, config.rate > 0, NEW s \in Stores
              PROVE  StoreOK(s, passed[s], window[s], config.rate, now)
  BY DEF WindowsOK
<1>1. /\ passed[s] \in [Starts -> Nat] /\ (\A t \in Starts : passed[s][t] = 0)
      /\ window[s].count = 0 /\ now = 0 /\ config.rate \in Nat
  BY InitTyped, ConfigFacts DEF KInit
<1>2. \A t \in Int, e \in Int : Stretch(passed[s], t, e) = 0
  BY <1>1, StretchEmpty
<1>3. \A t \in Starts : t \in Int /\ t + Window \in Int /\ End \in Int
  BY TimeFacts
<1>. QED
  BY <1>1, <1>2, <1>3 DEF StoreOK, Rested

\* The bound of the run.
LEMMA WindowsAreBounded ==
  ASSUME WindowsOK
  PROVE  WindowBound
  BY DEF WindowsOK, StoreOK, Stretch, WindowBound, Passed

-----------------------------------------------------------------------------
(* The minute buckets.                                                     *)

Tokens == [m \in Minutes |-> bucket[m].tokens]

LEMMA MinutesFinite == IsFiniteSet(Minutes)
<1>1. 0 \in Nat /\ Horizon \in Nat /\ MinuteLength \in Nat \ {0}
  BY ClockAssumption
<1>2. Minute(0) \in Nat /\ Minute(Horizon) \in Nat
  BY <1>1, DivFacts DEF Minute
<1>3. Minute(0) \in Int /\ Minute(Horizon) \in Int
  BY <1>2
<1>. QED
  BY <1>3, FS_Interval DEF Minutes

\* What a write to the bucket of one minute does to their sum.
LEMMA TokensUpdate ==
  ASSUME BucketsTyped, BucketsTyped', NEW m \in Minutes,
         \A k \in Minutes \ {m} : bucket'[k] = bucket[k]
  PROVE  Summed(Tokens') = Summed(Tokens) - bucket[m].tokens + bucket'[m].tokens
<1> DEFINE f == [k \in Minutes |-> bucket[k].tokens]
           g == [k \in Minutes |-> bucket'[k].tokens]
<1>1. f \in [Minutes -> Nat] /\ g \in [Minutes -> Nat]
  BY DEF BucketsTyped
<1>2. (\A k \in Minutes \ {m} : g[k] = f[k]) /\ f[m] = bucket[m].tokens /\ g[m] = bucket'[m].tokens
  OBVIOUS
<1>3. f = Tokens /\ g = Tokens'
  BY DEF Tokens
<1>. HIDE DEF f, g
<1>4. Summed(g) = Summed(f) - f[m] + g[m]
  BY <1>1, <1>2, MinutesFinite, SummedUpdate
<1>. QED
  BY <1>2, <1>3, <1>4

LEMMA TokensSum ==
  ASSUME BucketsTyped
  PROVE  Summed(Tokens) \in Nat
<1>1. Tokens \in [Minutes -> Nat]
  BY DEF BucketsTyped, Tokens
<1>. QED
  BY <1>1, MinutesFinite, SummedIsNat

LEMMA BucketsUnchanged ==
  ASSUME BucketsOK, UNCHANGED <<config, buckets>>
  PROVE  BucketsOK'
<1>1. store' = store /\ bucket' = bucket /\ granted' = granted /\ owed' = owed /\ config' = config
  BY DEF buckets
<1>. QED
  BY <1>1 DEF BucketsOK

\* A write that adds tokens and owes no more than it adds.
LEMMA BucketsAfter ==
  ASSUME BucketsOK, BucketsTyped, BucketsTyped', config' = config, config.rpm \in Nat,
         NEW m \in Minutes,
         store' = store,
         \A k \in Minutes \ {m} : bucket'[k] = bucket[k] /\ granted'[k] = granted[k],
         store = "redis" => owed' - owed <= bucket'[m].tokens - bucket[m].tokens,
         config.rpm > 0 => /\ granted'[m] - granted[m] = bucket'[m].requests - bucket[m].requests
                           /\ bucket'[m].requests <= config.rpm
  PROVE  BucketsOK'
<1>1. ASSUME config.rpm > 0, NEW k \in Minutes
      PROVE  granted'[k] = bucket'[k].requests /\ bucket'[k].requests <= config.rpm
  <2>1. granted[k] = bucket[k].requests /\ bucket[k].requests <= config.rpm
    BY <1>1 DEF BucketsOK
  <2>2. CASE k = m
    <3>1. granted[m] \in Nat /\ granted'[m] \in Nat /\ bucket[m].requests \in Nat
          /\ bucket'[m].requests \in Nat
      BY DEF BucketsTyped
    <3>. QED
      BY <1>1, <2>1, <2>2, <3>1
  <2>. QED
    BY <2>1, <2>2
<1>2. ASSUME store = "redis" PROVE Summed(Tokens') >= owed'
  <2>1. Summed(Tokens) >= owed
    BY <1>2 DEF BucketsOK, Tokens
  <2>2. Summed(Tokens') = Summed(Tokens) - bucket[m].tokens + bucket'[m].tokens
    BY TokensUpdate
  <2>3. /\ owed \in Int /\ owed' \in Int /\ bucket[m].tokens \in Nat /\ bucket'[m].tokens \in Nat
    BY DEF BucketsTyped
  <2>4. Summed(Tokens) \in Nat
    BY TokensSum
  <2>. QED
    BY <1>2, <2>1, <2>2, <2>3, <2>4
<1>. QED
  BY <1>1, <1>2 DEF BucketsOK, Tokens

\* A reservation that is granted leaves no more requests than the limit; one that
\* is refused adds nothing.
LEMMA ReserveKeepsBuckets ==
  ASSUME KeysTyped, BucketsOK, NEW c \in Calls, Reserve(c)
  PROVE  BucketsOK'
<1> DEFINE m == Minute(now)
<1>1. BucketsTyped /\ BucketsTyped' /\ m \in Minutes /\ config' = config /\ config.rpm \in Nat
      /\ config.tokens \in Nat
  BY MinutesOf, ConfigFacts, ReserveTyped DEF KeysTyped, Reserve
<1>2. bucket[m].requests \in Nat /\ bucket[m].tokens \in Nat /\ granted[m] \in Nat /\ owed \in Int
      /\ bucket \in [Minutes -> [there : BOOLEAN, requests : Nat, tokens : Nat]]
      /\ granted \in [Minutes -> Nat]
  BY <1>1 DEF BucketsTyped
<1>3. CASE UNCHANGED buckets
  BY <1>1, <1>3, BucketsUnchanged
<1>4. ASSUME NEW tokens \in 0 .. config.tokens, store' = store,
             Fits(Added(bucket[m], tokens)),
             bucket' = [bucket EXCEPT ![m] = Added(@, tokens)],
             granted' = [granted EXCEPT ![m] = @ + 1],
             owed' = owed + tokens
      PROVE  BucketsOK'
  <2>. HIDE DEF m
  <2>1. bucket'[m] = Added(bucket[m], tokens) /\ granted'[m] = granted[m] + 1
        /\ \A k \in Minutes \ {m} : bucket'[k] = bucket[k] /\ granted'[k] = granted[k]
    BY <1>1, <1>2, <1>4
  <2>2. bucket'[m].requests = bucket[m].requests + 1
        /\ bucket'[m].tokens = bucket[m].tokens + tokens
    BY <2>1 DEF Added
  <2>3. config.rpm > 0 => bucket'[m].requests <= config.rpm
    BY <1>4, <2>1 DEF Fits
  <2>4. tokens \in Int
    BY <1>4
  <2>5. owed' - owed <= bucket'[m].tokens - bucket[m].tokens
    BY <1>2, <1>4, <2>2, <2>4
  <2>6. granted'[m] - granted[m] = bucket'[m].requests - bucket[m].requests
    BY <1>2, <2>1, <2>2
  <2>. QED
    BY <1>1, <1>4, <2>1, <2>3, <2>5, <2>6, BucketsAfter
<1>5. CASE /\ store' = store /\ bucket' = [bucket EXCEPT ![m].there = TRUE]
           /\ UNCHANGED <<granted, owed>>
  <2>. HIDE DEF m
  <2>1. bucket'[m].requests = bucket[m].requests /\ bucket'[m].tokens = bucket[m].tokens
        /\ \A k \in Minutes \ {m} : bucket'[k] = bucket[k] /\ granted'[k] = granted[k]
    BY <1>1, <1>2, <1>5
  <2>2. config.rpm > 0 => bucket[m].requests <= config.rpm
    BY <1>1 DEF BucketsOK
  <2>. QED
    BY <1>1, <1>2, <1>5, <2>1, <2>2, BucketsAfter
<1>. QED
  BY <1>3, <1>4, <1>5 DEF Reserve

\* A settlement changes the tokens by no less than what Redis owes.
LEMMA SettleKeepsBuckets ==
  ASSUME KeysTyped, BucketsOK, NEW c \in Calls, NEW tokens \in Nat, Settle(c, tokens),
         config' = config
  PROVE  BucketsOK'
<1> DEFINE m == Minute(now)
           delta == tokens - call[c].reserved
<1>1. BucketsTyped /\ BucketsTyped' /\ m \in Minutes /\ config.rpm \in Nat /\ call[c] \in CallsT
  BY MinutesOf, ConfigFacts, SettleTyped DEF KeysTyped
<1>2. bucket[m].requests \in Nat /\ bucket[m].tokens \in Nat /\ granted[m] \in Nat /\ owed \in Int
      /\ bucket \in [Minutes -> [there : BOOLEAN, requests : Nat, tokens : Nat]] /\ delta \in Int
  BY <1>1 DEF BucketsTyped, CallsT
<1>3. CASE UNCHANGED buckets
  BY <1>1, <1>3, BucketsUnchanged
<1>4. CASE /\ bucket' = [bucket EXCEPT ![m] = Settled(m, delta)]
           /\ owed' = owed + delta /\ UNCHANGED <<store, granted>>
  <2>. HIDE DEF m, delta
  <2>1. bucket'[m] = Settled(m, delta) /\ granted' = granted /\ store' = store
        /\ \A k \in Minutes \ {m} : bucket'[k] = bucket[k]
    BY <1>1, <1>2, <1>4
  <2>2. bucket'[m].requests = bucket[m].requests
    BY <1>2, <2>1 DEF Settled
  <2>3. ASSUME store = "redis" PROVE owed' - owed <= bucket'[m].tokens - bucket[m].tokens
    <3> DEFINE sum == Max({0, bucket[m].tokens + delta})
    <3>1. sum \in {0, bucket[m].tokens + delta} /\ sum >= bucket[m].tokens + delta
      <4>1. 0 \in Int /\ bucket[m].tokens + delta \in Int
        BY <1>2
      <4>. QED
        BY <4>1, MaxOfTwo
    <3>2. bucket'[m].tokens = sum
      <4>1. bucket'[m] = [bucket[m] EXCEPT !.there = TRUE, !.tokens = sum]
        BY <2>1, <2>3 DEF Settled
      <4>. HIDE DEF sum
      <4>. QED
        BY <1>2, <4>1
    <3>. HIDE DEF sum
    <3>. QED
      BY <1>2, <1>4, <3>1, <3>2
  <2>4. config.rpm > 0 => bucket[m].requests <= config.rpm
    BY <1>1 DEF BucketsOK
  <2>5. granted'[m] - granted[m] = bucket'[m].requests - bucket[m].requests
    BY <1>2, <2>1, <2>2
  <2>. QED
    BY <1>1, <2>1, <2>2, <2>3, <2>4, <2>5, BucketsAfter
<1>. QED
  BY <1>3, <1>4 DEF Settle

LEMMA InitBuckets == KInit => BucketsOK
<1>. SUFFICES ASSUME KInit PROVE BucketsOK
  OBVIOUS
<1>1. BucketsTyped /\ config.rpm \in Nat
  BY InitTyped, ConfigFacts DEF KeysTyped
<1>2. Summed(Tokens) \in Nat
  BY <1>1, TokensSum
<1>. QED
  BY <1>1, <1>2 DEF KInit, BucketsOK, Tokens

\* The properties of the run.
LEMMA BucketsAreBounded ==
  ASSUME BucketsOK
  PROVE  BucketsHold
  BY DEF BucketsOK, BucketsHold

-----------------------------------------------------------------------------
(* The spend limits.                                                       *)

LEMMA EnforcedTypes == Enforced \subseteq Types
  BY DEF Enforced, Types

\* Two instants have one start exactly when they have one index.
LEMMA SamePeriod ==
  ASSUME NEW type \in Enforced, NEW u \in Starts, NEW v \in Starts
  PROVE  PeriodStart(type, u) = PeriodStart(type, v) <=> Calendar(type, u) = Calendar(type, v)
<1>1. /\ PeriodStart(type, u) = StartOf(type, Calendar(type, u))
      /\ PeriodStart(type, v) = StartOf(type, Calendar(type, v))
      /\ Calendar(type, PeriodStart(type, u)) = Calendar(type, u)
      /\ Calendar(type, PeriodStart(type, v)) = Calendar(type, v)
  BY StartsAgree, IndexOfStart
<1>2. CASE PeriodStart(type, u) = PeriodStart(type, v)
  BY <1>1, <1>2
<1>3. CASE Calendar(type, u) = Calendar(type, v)
  BY <1>1, <1>3
<1>. QED
  BY <1>2, <1>3

LEMMA PeriodsOrdered ==
  ASSUME NEW type \in Enforced, NEW u \in Starts, NEW v \in Starts, u <= v
  PROVE  PeriodStart(type, u) <= PeriodStart(type, v) /\ Calendar(type, u) <= Calendar(type, v)
<1>1. u \in Nat /\ v \in Nat
  BY TimeFacts
<1>2. CASE type = "monthly"
  <2>1. /\ u \div Month <= v \div Month /\ u \div Month \in Nat /\ v \div Month \in Nat
        /\ Month \in Nat
    BY <1>1, MonthIsPositive, DivFacts, DivMonotone
  <2>2. (u \div Month) * Month <= (v \div Month) * Month
    BY <2>1, TimesMonotone
  <2>3. \A t \in Starts : Calendar(type, t) = t \div Month
    BY <1>2 DEF Calendar, Month
  <2>4. \A t \in Starts : PeriodStart(type, t) = (t \div Month) * Month
    BY <1>2, <2>3, StartsAgree DEF StartOf
  <2>. QED
    BY <2>1, <2>2, <2>3, <2>4
<1>3. CASE type = "cumulative"
  BY <1>3 DEF PeriodStart, Calendar
<1>. QED
  BY <1>2, <1>3 DEF Enforced

\* What one call changes of what is pending or ahead.
LEMMA PendingTyped ==
  ASSUME call \in [Calls -> CallsT], NEW type \in Types, NEW t
  PROVE  Pending(type, t) \in [Calls -> Nat] /\ Summed(Pending(type, t)) \in Nat
         /\ \A c \in Calls : PendingCost(call[c], type, t) \in Nat
<1>1. \A c \in Calls : PendingCost(call[c], type, t) \in Nat
  BY DEF CallsT, PendingCost
<1>2. Pending(type, t) \in [Calls -> Nat]
  BY <1>1 DEF Pending
<1>. QED
  BY <1>1, <1>2, CallsAssumption, SummedIsNat

LEMMA AheadTyped ==
  ASSUME config.cost \in Nat
  PROVE  Ahead \in [Calls -> Nat] /\ Summed(Ahead) \in Nat
<1>1. Ahead \in [Calls -> Nat]
  BY DEF Ahead, AheadCost
<1>. QED
  BY <1>1, CallsAssumption, SummedIsNat

LEMMA PendingUpdate ==
  ASSUME call \in [Calls -> CallsT], call' \in [Calls -> CallsT], NEW c \in Calls,
         \A z \in Calls \ {c} : call'[z] = call[z], NEW type \in Types, NEW t
  PROVE  Summed(Pending(type, t)') = Summed(Pending(type, t)) - PendingCost(call[c], type, t)
                                     + PendingCost(call'[c], type, t)
<1> DEFINE f == [z \in Calls |-> PendingCost(call[z], type, t)]
           g == [z \in Calls |-> PendingCost(call'[z], type, t)]
<1>1. f \in [Calls -> Nat]
  BY DEF CallsT, PendingCost
<1>2. g \in [Calls -> Nat]
  BY DEF CallsT, PendingCost
<1>3. /\ \A z \in Calls \ {c} : g[z] = f[z]
      /\ f[c] = PendingCost(call[c], type, t) /\ g[c] = PendingCost(call'[c], type, t)
  OBVIOUS
<1>4. f = Pending(type, t) /\ g = Pending(type, t)'
  BY DEF Pending, PendingCost
<1>. HIDE DEF f, g
<1>5. Summed(g) = Summed(f) - f[c] + g[c]
  BY <1>1, <1>2, <1>3, CallsAssumption, SummedUpdate
<1>. QED
  BY <1>3, <1>4, <1>5

\* The same for what is ahead.
LEMMA AheadUpdate ==
  ASSUME config.cost \in Nat, config' = config, NEW c \in Calls,
         \A z \in Calls \ {c} : call'[z] = call[z]
  PROVE  Summed(Ahead') = Summed(Ahead) - AheadCost(call[c], config.cost)
                          + AheadCost(call'[c], config.cost)
<1> DEFINE f == [z \in Calls |-> AheadCost(call[z], config.cost)]
           g == [z \in Calls |-> AheadCost(call'[z], config.cost)]
<1>1. f \in [Calls -> Nat] /\ g \in [Calls -> Nat]
  BY DEF AheadCost
<1>3. /\ \A z \in Calls \ {c} : g[z] = f[z]
      /\ f[c] = AheadCost(call[c], config.cost) /\ g[c] = AheadCost(call'[c], config.cost)
  OBVIOUS
<1>4. f = Ahead /\ g = Ahead'
  BY DEF Ahead, AheadCost
<1>. HIDE DEF f, g
<1>5. Summed(g) = Summed(f) - f[c] + g[c]
  BY <1>1, <1>3, CallsAssumption, SummedUpdate
<1>. QED
  BY <1>3, <1>4, <1>5

\* Steps of a call that is not being recorded and does not get ahead.
LEMMA QuietCalls ==
  ASSUME SpendOK, KeysTyped, call' \in [Calls -> CallsT], config' = config, now' = now,
         UNCHANGED spending, NEW c \in Calls, \A z \in Calls \ {c} : call'[z] = call[z],
         call[c].at # "record", call'[c].at # "record",
         AheadCost(call'[c], config.cost) <= AheadCost(call[c], config.cost)
  PROVE  SpendOK'
<1>1. spend' = spend /\ served' = served /\ excused' = excused
  BY DEF spending
<1>2. call \in [Calls -> CallsT] /\ config.cost \in Nat /\ SpendTyped /\ now \in Starts
      /\ config.limit \in [Types -> Nat]
  BY ConfigFacts DEF KeysTyped
<1>3. ASSUME NEW type \in Types, NEW t PROVE Summed(Pending(type, t)') = Summed(Pending(type, t))
  <2>1. PendingCost(call[c], type, t) = 0 /\ PendingCost(call'[c], type, t) = 0
    BY DEF PendingCost
  <2>2. Summed(Pending(type, t)) \in Nat
    BY <1>2, PendingTyped
  <2>. QED
    BY <1>2, <2>1, <2>2, PendingUpdate
<1>4. Summed(Ahead') <= Summed(Ahead) /\ Summed(Ahead') \in Int /\ Summed(Ahead) \in Int
  <2>1. Summed(Ahead) \in Nat
    BY <1>2, AheadTyped
  <2>2. AheadCost(call[c], config.cost) \in Nat /\ AheadCost(call'[c], config.cost) \in Nat
    BY <1>2 DEF AheadCost
  <2>. QED
    BY <1>2, <2>1, <2>2, AheadUpdate
<1>5. Accounted'
  <2>1. ASSUME NEW type \in Enforced, NEW u \in Starts PROVE AccountedAt(type, u)'
    <3>1. AccountedAt(type, u)
      BY DEF SpendOK, Accounted
    <3>2. Summed(Pending(type, PeriodStart(type, u))') = Summed(Pending(type, PeriodStart(type, u)))
      BY <1>3, EnforcedTypes
    <3>3. Pending(type, PeriodStart(type, u))' = Pending(type, PeriodStart(type, u))'
      OBVIOUS
    <3>. QED
      BY <1>1, <3>1, <3>2 DEF AccountedAt, RowOf
  <2>. QED
    BY <2>1 DEF Accounted
<1>6. NothingLater'
  BY <1>1 DEF SpendOK, NothingLater
<1>7. Bearable'
  <2>1. ASSUME NEW type \in Enforced PROVE BearableBy(type)'
    <3>1. BearableBy(type)
      BY DEF SpendOK, Bearable
    <3>2. <<type, Calendar(type, now)>> \in Periods
      BY <1>2, CalendarInStarts, EnforcedTypes DEF Periods
    <3>3. /\ served[<<type, Calendar(type, now)>>] \in Nat
          /\ excused[<<type, Calendar(type, now)>>] \in Nat
      BY <1>2, <3>2 DEF SpendTyped
    <3>4. Overshoot(type) \in Int
      BY <1>2, EnforcedTypes, CallsAssumption, FS_CardinalityType DEF Overshoot
    <3>. QED
      BY <1>1, <1>4, <3>1, <3>3, <3>4 DEF BearableBy, Overshoot
  <2>. QED
    BY <2>1 DEF Bearable
<1>8. CallsOK'
  <2>1. ASSUME NEW z \in Calls PROVE RecordOK(call[z])'
    <3>1. CASE z = c
      BY <3>1 DEF RecordOK
    <3>2. CASE z # c
      <4>1. call'[z] = call[z] /\ RecordOK(call[z])
        BY <3>2 DEF SpendOK, CallsOK
      <4>. QED
        BY <4>1 DEF RecordOK
    <3>. QED
      BY <3>1, <3>2
  <2>. QED
    BY <2>1 DEF CallsOK
<1>9. OvershootIsBounded'
  BY <1>1 DEF SpendOK, OvershootIsBounded, Bounded, Overshoot
<1>. QED
  BY <1>5, <1>6, <1>7, <1>8, <1>9 DEF SpendOK

\* A call that is idle, waits or is refused: nothing of the spend changes.
LEMMA QuietStep ==
  ASSUME SpendOK, KeysTyped, NEW c \in Calls, NEW job \in CallsT,
         call' = [call EXCEPT ![c] = job], config' = config, now' = now, UNCHANGED spending,
         call[c].at # "record", job.at # "record", job.at # "upstream"
  PROVE  SpendOK'
<1>1. call \in [Calls -> CallsT] /\ config.cost \in Nat
  BY ConfigFacts DEF KeysTyped
<1>2. call'[c] = job /\ call' \in [Calls -> CallsT] /\ \A z \in Calls \ {c} : call'[z] = call[z]
  BY <1>1
<1>3. AheadCost(call'[c], config.cost) <= AheadCost(call[c], config.cost)
  BY <1>1, <1>2 DEF AheadCost
<1>. QED
  BY <1>2, <1>3, QuietCalls

LEMMA IdleIsQuiet ==
  ASSUME SpendOK, KeysTyped, NEW c \in Calls, Idle(c), config' = config, now' = now,
         UNCHANGED spending, call[c].at # "record"
  PROVE  SpendOK'
<1>1. NoCall.at = "idle"
  BY DEF NoCall
<1>. QED
  BY <1>1, NoCallTyped, QuietStep DEF Idle

LEMMA MoveIsQuiet ==
  ASSUME SpendOK, KeysTyped, NEW c \in Calls, NEW place \in Places \ {"record", "upstream"},
         call' = [call EXCEPT ![c].at = place], config' = config, now' = now,
         UNCHANGED spending, call[c].at # "record"
  PROVE  SpendOK'
<1>1. call[c] \in CallsT
  BY DEF KeysTyped
<1> DEFINE job == [call[c] EXCEPT !.at = place]
<1>2. job \in CallsT
  BY <1>1, CallMoved
<1>3. job.at = place /\ call' = [call EXCEPT ![c] = job]
  BY <1>1 DEF CallsT
<1>. HIDE DEF job
<1>. QED
  BY <1>2, <1>3, QuietStep

LEMMA RateLimitKeepsSpend ==
  ASSUME SpendOK, KeysTyped, NEW c \in Calls, RateLimit(c)
  PROVE  SpendOK'
<1>1. config' = config /\ now' = now /\ UNCHANGED spending /\ call[c].at # "record"
  BY DEF RateLimit, At
<1>2. Idle(c) \/ call' = [call EXCEPT ![c].at = "bucket"]
  BY DEF RateLimit, Pass
<1>. QED
  BY <1>1, <1>2, IdleIsQuiet, MoveIsQuiet DEF Places

LEMMA ReserveKeepsSpend ==
  ASSUME SpendOK, KeysTyped, NEW c \in Calls, Reserve(c)
  PROVE  SpendOK'
<1> DEFINE next == [call[c] EXCEPT !.at = "checks", !.block = row.block]
<1>1. config' = config /\ now' = now /\ UNCHANGED spending /\ call[c].at # "record"
  BY DEF Reserve, At
<1>2. call[c] \in CallsT /\ row \in Rows /\ config.tokens \in Nat
  BY ConfigFacts DEF KeysTyped
<1>3. next \in CallsT /\ next.at = "checks"
  BY <1>2 DEF CallsT, Places, Rows
<1>4. CASE Idle(c)
  BY <1>1, <1>4, IdleIsQuiet
<1>5. CASE call' = [call EXCEPT ![c] = next]
  <2>. HIDE DEF next
  <2>. QED
    BY <1>1, <1>3, <1>5, QuietStep
<1>6. ASSUME NEW tokens \in 0 .. config.tokens,
             call' = [call EXCEPT ![c] = [next EXCEPT !.reserved = tokens]]
      PROVE  SpendOK'
  <2> DEFINE job == [next EXCEPT !.reserved = tokens]
  <2>1. job \in CallsT /\ job.at = "checks"
    <3>. HIDE DEF next
    <3>1. tokens \in Nat
      BY <1>2, <1>6
    <3>. QED
      BY <1>3, <3>1 DEF CallsT
  <2>2. call' = [call EXCEPT ![c] = job]
    BY <1>6
  <2>. HIDE DEF job
  <2>. QED
    BY <1>1, <2>1, <2>2, QuietStep
<1>. QED
  BY <1>4, <1>5, <1>6 DEF Reserve

\* The row of the period that runs is the latest one.
LEMMA RecordedIsCurrent ==
  ASSUME KeysTyped, NothingLater, NEW type \in Enforced,
         spend[<<type, PeriodStart(type, now)>>] >= 0
  PROVE  Recorded(type) = spend[<<type, PeriodStart(type, now)>>]
<1> DEFINE t0 == PeriodStart(type, now)
           rows == {t \in Starts : spend[<<type, t>>] >= 0}
<1>1. t0 \in Starts /\ t0 \in Int /\ spend \in [Periods -> Nat \cup {-1}]
  BY PeriodsStart, EnforcedTypes, TimeFacts DEF KeysTyped, SpendTyped
<1>2. ASSUME NEW t \in rows PROVE t <= t0 /\ t \in Int
  <2>1. t \in Starts /\ t \in Int /\ spend[<<type, t>>] >= 0
    BY <1>2, TimeFacts
  <2>2. <<type, t>> \in Periods /\ spend[<<type, t>>] \in Int
    BY <1>1, <2>1, EnforcedTypes DEF Periods
  <2>. QED
    BY <1>1, <2>1, <2>2 DEF NothingLater
<1>3. t0 \in rows /\ rows # {}
  BY <1>1
<1>4. Recorded(type) = spend[<<type, Max(rows)>>]
  BY <1>3 DEF Recorded
<1>. HIDE DEF rows, t0
<1>5. Max(rows) = t0
  <2>1. \E x \in rows : \A y \in rows : x >= y
    BY <1>1, <1>2, <1>3
  <2>2. Max(rows) \in rows /\ \A y \in rows : Max(rows) >= y
    BY <2>1 DEF Max
  <2>3. Max(rows) <= t0 /\ Max(rows) \in Int
    BY <1>2, <2>2
  <2>4. Max(rows) >= t0 /\ t0 \in Int
    BY <1>1, <1>3, <2>2
  <2>. QED
    BY <2>3, <2>4
<1>. QED
  BY <1>4, <1>5 DEF t0

\* A call that passes the comparison finds less than the limit recorded.
LEMMA BelowTheLimit ==
  ASSUME KeysTyped, NothingLater, NEW type \in Enforced, ~Reached(type), config.limit[type] > 0
  PROVE  RowOf(<<type, PeriodStart(type, now)>>) <= config.limit[type] - 1
<1>1. <<type, PeriodStart(type, now)>> \in Periods
  BY PeriodsStart, EnforcedTypes DEF KeysTyped, Periods
<1>2. spend[<<type, PeriodStart(type, now)>>] \in Int /\ config.limit[type] \in Nat
  BY <1>1, ConfigFacts, EnforcedTypes DEF KeysTyped, SpendTyped
<1>3. CASE spend[<<type, PeriodStart(type, now)>>] < 0
  BY <1>2, <1>3 DEF RowOf
<1>4. CASE spend[<<type, PeriodStart(type, now)>>] >= 0
  <2>1. Recorded(type) = spend[<<type, PeriodStart(type, now)>>]
    BY <1>4, RecordedIsCurrent
  <2>. QED
    BY <1>2, <1>4, <2>1 DEF RowOf, Reached
<1>. QED
  BY <1>2, <1>3, <1>4

\* The calls that are pending and those that get ahead are not the same.
LEMMA AtMostEachOnce ==
  ASSUME NEW jobs \in [Calls -> CallsT], NEW cost \in Nat,
         \A c \in Calls : jobs[c].at = "record" => jobs[c].cost <= cost,
         NEW type \in Types, NEW t
  PROVE  Summed([c \in Calls |-> PendingCost(jobs[c], type, t)])
           + Summed([c \in Calls |-> AheadCost(jobs[c], cost)]) <= Cardinality(Calls) * cost
<1> DEFINE f == [c \in Calls |-> PendingCost(jobs[c], type, t) + AheadCost(jobs[c], cost)]
           g == [c \in Calls |-> PendingCost(jobs[c], type, t)]
           h == [c \in Calls |-> AheadCost(jobs[c], cost)]
<1>1. ASSUME NEW c \in Calls
      PROVE  /\ g[c] \in Nat /\ g[c] <= cost /\ h[c] \in Nat /\ h[c] <= cost
             /\ (g[c] = 0) \/ (h[c] = 0)
             /\ f[c] = g[c] + h[c]
  <2>1. /\ jobs[c].cost \in Nat /\ g[c] = PendingCost(jobs[c], type, t)
        /\ h[c] = AheadCost(jobs[c], cost)
    BY DEF CallsT
  <2>2. g[c] \in Nat /\ g[c] <= cost
    BY <2>1 DEF PendingCost
  <2>3. h[c] \in Nat /\ h[c] <= cost
    BY <2>1 DEF AheadCost
  <2>4. (g[c] = 0) \/ (h[c] = 0)
    BY <2>1 DEF PendingCost, AheadCost
  <2>. QED
    BY <2>2, <2>3, <2>4
<1>2. g \in [Calls -> Nat] /\ h \in [Calls -> Nat] /\ f \in [Calls -> Nat]
  <2>1. \A c \in Calls : PendingCost(jobs[c], type, t) \in Nat /\ AheadCost(jobs[c], cost) \in Nat
    BY <1>1
  <2>. QED
    BY <2>1
<1>. HIDE DEF f, g, h
<1>3. /\ \A c \in Calls : (g[c] = 0) \/ (h[c] = 0)
      /\ \A c \in Calls : f[c] = g[c] + h[c]
      /\ \A c \in Calls : f[c] <= cost
  <2>1. ASSUME NEW c \in Calls PROVE f[c] <= cost
    BY <1>1
  <2>. QED
    BY <1>1, <2>1
<1>4. Summed(f) = Summed(g) + Summed(h)
  BY <1>2, <1>3, CallsAssumption, SummedDisjoint
<1>5. Summed(f) <= Cardinality(Calls) * cost
  BY <1>2, <1>3, CallsAssumption, SummedAtMost
<1>. QED
  BY <1>4, <1>5 DEF g, h

\* The bound: what is below the limit, and one cost for each call.
LEMMA OvershootIsInt ==
  ASSUME KeysTyped, NEW type \in Types
  PROVE  Cardinality(Calls) * config.cost \in Nat /\ config.limit[type] \in Nat
         /\ Overshoot(type) = config.limit[type] - 1 + Cardinality(Calls) * config.cost
         /\ Overshoot(type) \in Int
<1>1. Cardinality(Calls) \in Nat /\ config.cost \in Nat /\ config.limit[type] \in Nat
  BY ConfigFacts, CallsAssumption, FS_CardinalityType
<1>. QED
  BY <1>1 DEF Overshoot

\* A call that passes the comparison finds less recorded than the limit; what is
\* pending and ahead belongs to other calls, so the bound has room for it.
LEMMA CheckKeepsSpend ==
  ASSUME SpendOK, KeysTyped, NEW c \in Calls, CheckSpend(c)
  PROVE  SpendOK'
<1>1. config' = config /\ now' = now /\ UNCHANGED spending /\ call[c].at = "checks"
  BY DEF CheckSpend, At
<1>2. call \in [Calls -> CallsT] /\ call[c] \in CallsT /\ config.cost \in Nat /\ SpendTyped
      /\ now \in Starts
  BY ConfigFacts DEF KeysTyped
<1>3. call' \in [Calls -> CallsT]
  BY CheckTyped
<1>4. CASE Idle(c)
  BY <1>1, <1>4, IdleIsQuiet
<1>5. CASE call' = [call EXCEPT ![c].at = "upstream", ![c].free = TRUE]
  <2>1. call'[c].at = "upstream" /\ call'[c].free /\ \A z \in Calls \ {c} : call'[z] = call[z]
    BY <1>2, <1>5 DEF CallsT
  <2>2. AheadCost(call'[c], config.cost) <= AheadCost(call[c], config.cost)
    BY <1>1, <1>2, <2>1 DEF AheadCost
  <2>. QED
    BY <1>1, <1>3, <2>1, <2>2, QuietCalls
<1>6. CASE (\A type \in Types : ~Reached(type)) /\ call' = [call EXCEPT ![c].at = "upstream"]
  <2>0. call'[c].at = "upstream" /\ \A z \in Calls \ {c} : call'[z] = call[z]
    BY <1>2, <1>6 DEF CallsT
  <2>1. spend' = spend /\ served' = served /\ excused' = excused
    BY <1>1 DEF spending
  <2>2. ASSUME NEW type \in Types, NEW t
        PROVE  Summed(Pending(type, t)') = Summed(Pending(type, t))
    <3>1. PendingCost(call[c], type, t) = 0 /\ PendingCost(call'[c], type, t) = 0
      BY <1>1, <2>0 DEF PendingCost
    <3>2. Summed(Pending(type, t)) \in Nat
      BY <1>2, PendingTyped
    <3>. QED
      BY <1>2, <1>3, <2>0, <3>1, <3>2, PendingUpdate
  <2>3. Accounted'
    <3>1. ASSUME NEW type \in Enforced, NEW u \in Starts PROVE AccountedAt(type, u)'
      <4>1. AccountedAt(type, u)
        BY DEF SpendOK, Accounted
      <4>2. Summed(Pending(type, PeriodStart(type, u))') = Summed(Pending(type, PeriodStart(type, u)))
        BY <2>2, EnforcedTypes
      <4>. QED
        BY <1>1, <2>1, <4>1, <4>2 DEF AccountedAt, RowOf
    <3>. QED
      BY <3>1 DEF Accounted
  <2>4. CallsOK'
    <3>1. ASSUME NEW z \in Calls PROVE RecordOK(call[z])'
      <4>1. CASE z = c
        BY <2>0, <4>1 DEF RecordOK
      <4>2. CASE z # c
        <5>1. call'[z] = call[z] /\ RecordOK(call[z])
          BY <2>0, <4>2 DEF SpendOK, CallsOK
        <5>. QED
          BY <1>1, <5>1 DEF RecordOK
      <4>. QED
        BY <4>1, <4>2
    <3>. QED
      BY <3>1 DEF CallsOK
  <2>5. Bearable'
    <3>1. ASSUME NEW type \in Enforced, config.limit[type] > 0
          PROVE  served[<<type, Calendar(type, now)>>] + Summed(Ahead')
                   <= Overshoot(type) + excused[<<type, Calendar(type, now)>>]
      <4>0. PICK t \in Starts : t = PeriodStart(type, now)
        BY <1>2, PeriodsStart, EnforcedTypes
      <4> DEFINE p == <<type, Calendar(type, now)>>
      <4>1. served[p] \in Nat /\ excused[p] \in Nat /\ type \in Types
        BY <1>2, EnforcedTypes, CalendarInStarts DEF SpendTyped, Periods
      <4>2. served[p] <= RowOf(<<type, t>>) + Summed(Pending(type, t)) + excused[p]
        BY <1>2, <3>1, <4>0 DEF SpendOK, Accounted, AccountedAt
      <4>3. RowOf(<<type, t>>) <= config.limit[type] - 1
        BY <1>6, <3>1, <4>0, EnforcedTypes, BelowTheLimit DEF SpendOK
      <4>4. RowOf(<<type, t>>) \in Nat
        <5>1. <<type, t>> \in Periods
          BY EnforcedTypes DEF Periods
        <5>. QED
          BY <1>2, <5>1 DEF RowOf, SpendTyped
      <4>5. Summed(Pending(type, t)) \in Nat
        BY <1>2, <4>1, PendingTyped
      <4>6. Summed(Pending(type, t)) + Summed(Ahead') <= Cardinality(Calls) * config.cost
        <5>1. \A z \in Calls : call'[z].at = "record" => call'[z].cost <= config.cost
          BY <1>1, <2>4 DEF CallsOK, RecordOK
        <5>2. /\ Pending(type, t)' = [z \in Calls |-> PendingCost(call'[z], type, t)]
              /\ Ahead' = [z \in Calls |-> AheadCost(call'[z], config.cost)]
          BY <1>1 DEF Pending, Ahead
        <5>3. Summed(Pending(type, t)') = Summed(Pending(type, t))
          BY <2>2, <4>1
        <5>4. Summed([z \in Calls |-> PendingCost(call'[z], type, t)])
                + Summed([z \in Calls |-> AheadCost(call'[z], config.cost)])
                  <= Cardinality(Calls) * config.cost
          BY <1>2, <1>3, <4>1, <5>1, AtMostEachOnce
        <5>. QED
          BY <5>2, <5>3, <5>4
      <4>7. Summed(Ahead') \in Nat
        <5>1. Summed(Ahead) \in Nat /\ AheadCost(call[c], config.cost) = 0
          BY <1>1, <1>2, AheadTyped DEF AheadCost
        <5>2. AheadCost(call'[c], config.cost) \in Nat
          BY <1>2 DEF AheadCost
        <5>3. Summed(Ahead') = Summed(Ahead) - AheadCost(call[c], config.cost)
                               + AheadCost(call'[c], config.cost)
          BY <1>1, <1>2, <2>0, AheadUpdate
        <5>. QED
          BY <5>1, <5>2, <5>3
      <4>. HIDE DEF p
      <4>8. served[p] + Summed(Ahead') <= Overshoot(type) + excused[p]
        BY <4>1, <4>2, <4>3, <4>4, <4>5, <4>6, <4>7, OvershootIsInt
      <4>. QED
        BY <4>8 DEF p
    <3>. QED
      BY <1>1, <2>1, <3>1 DEF Bearable, BearableBy, Overshoot
  <2>6. NothingLater' /\ OvershootIsBounded'
    BY <1>1, <2>1 DEF SpendOK, NothingLater, OvershootIsBounded, Bounded, Overshoot
  <2>. QED
    BY <2>3, <2>4, <2>5, <2>6 DEF SpendOK
<1>. QED
  BY <1>4, <1>5, <1>6 DEF CheckSpend

\* A call that answers is charged to the periods that run.
LEMMA ChargeKeepsSpend ==
  ASSUME SpendOK, KeysTyped, NEW c \in Calls, call[c].at = "upstream", config' = config,
         now' = now, NEW cost \in 1 .. config.cost,
         NEW job \in CallsT, call' = [call EXCEPT ![c] = job],
         job.at = "record", job.cost = cost, job.starts = StartsNow, job.todo = Limited,
         served' = Bill(served, RealNow, Limited, cost),
         excused' = IF call[c].free THEN Bill(excused, RealNow, Limited, cost) ELSE excused,
         spend' = spend
  PROVE  SpendOK'
<1>1. /\ call \in [Calls -> CallsT] /\ call[c] \in CallsT /\ now \in Starts /\ config.cost \in Nat
      /\ served \in [Periods -> Nat] /\ excused \in [Periods -> Nat]
      /\ spend \in [Periods -> Nat \cup {-1}]
  BY ConfigFacts DEF KeysTyped, SpendTyped
<1>2. cost \in Nat /\ cost <= config.cost
  BY <1>1
<1>3. StartsNow \in [Types -> Starts] /\ RealNow \in [Types -> Starts] /\ Limited \subseteq Types
  BY NowTyped DEF Limited
<1>4. /\ job \in CallsT /\ job.at = "record" /\ job.cost = cost /\ job.starts = StartsNow
      /\ job.todo = Limited
  OBVIOUS
<1>5. call' \in [Calls -> CallsT] /\ call'[c] = job /\ \A z \in Calls \ {c} : call'[z] = call[z]
  BY <1>1
<1> DEFINE extra(type, k) == IF type \in Limited /\ Calendar(type, now) = k THEN cost ELSE 0
<1>6. ASSUME NEW type \in Types, NEW k \in Starts
      PROVE  /\ served'[<<type, k>>] = served[<<type, k>>] + extra(type, k)
             /\ excused'[<<type, k>>] =
                  excused[<<type, k>>] + IF call[c].free THEN extra(type, k) ELSE 0
             /\ served[<<type, k>>] \in Nat /\ excused[<<type, k>>] \in Nat
             /\ extra(type, k) \in 0 .. cost /\ extra(type, k) \in Nat
  <2>1. served[<<type, k>>] \in Nat /\ excused[<<type, k>>] \in Nat
    BY <1>1 DEF Periods
  <2>2. RealNow[type] = Calendar(type, now)
    BY DEF RealNow
  <2>3. ASSUME NEW f \in [Periods -> Nat]
        PROVE  Bill(f, RealNow, Limited, cost)[<<type, k>>] = f[<<type, k>>] + extra(type, k)
    <3>1. Bill(f, RealNow, Limited, cost)[<<type, k>>]
            = f[<<type, k>>] + IF type \in Limited /\ RealNow[type] = k THEN cost ELSE 0
      BY DEF Bill, Periods
    <3>. QED
      BY <2>2, <3>1
  <2>4. /\ Bill(served, RealNow, Limited, cost)[<<type, k>>] = served[<<type, k>>] + extra(type, k)
        /\ Bill(excused, RealNow, Limited, cost)[<<type, k>>] = excused[<<type, k>>] + extra(type, k)
    BY <1>1, <2>3
  <2>5. extra(type, k) \in 0 .. cost /\ extra(type, k) \in Nat
    BY <1>2
  <2>. HIDE DEF extra
  <2>. QED
    BY <2>1, <2>4, <2>5
<1>7. ASSUME NEW type \in Types, NEW t
      PROVE  /\ Summed(Pending(type, t)') = Summed(Pending(type, t)) + PendingCost(job, type, t)
             /\ Summed(Pending(type, t)) \in Nat /\ PendingCost(job, type, t) \in Nat
  <2>1. PendingCost(call[c], type, t) = 0
    BY DEF PendingCost
  <2>2. Summed(Pending(type, t)) \in Nat
    BY <1>1, PendingTyped
  <2>3. PendingCost(job, type, t) \in Nat
    BY <1>2, <1>4 DEF PendingCost
  <2>. QED
    BY <1>1, <1>5, <2>1, <2>2, <2>3, PendingUpdate
<1>8. /\ Summed(Ahead') = Summed(Ahead) - IF call[c].free THEN 0 ELSE config.cost
      /\ Summed(Ahead) \in Nat /\ Summed(Ahead') \in Nat
  <2>1. AheadCost(job, config.cost) = 0
    BY <1>4 DEF AheadCost
  <2>2. AheadCost(call[c], config.cost) = IF call[c].free THEN 0 ELSE config.cost
    BY DEF AheadCost
  <2>3. Summed(Ahead) \in Nat
    BY <1>1, AheadTyped
  <2>4. Summed(Ahead') = Summed(Ahead) - AheadCost(call[c], config.cost)
                         + AheadCost(job, config.cost)
    BY <1>1, <1>5, AheadUpdate
  <2>5. Summed(Ahead') \in Nat
    <3>1. Ahead' \in [Calls -> Nat]
      BY <1>1 DEF Ahead, AheadCost
    <3>. QED
      BY <3>1, CallsAssumption, SummedIsNat
  <2>. QED
    BY <1>1, <2>1, <2>2, <2>3, <2>4, <2>5
<1>9. Accounted'
  <2>1. ASSUME NEW type \in Enforced, NEW u \in Starts, config.limit[type] > 0
        PROVE  served'[<<type, Calendar(type, u)>>]
                 <= RowOf(<<type, PeriodStart(type, u)>>)
                    + Summed(Pending(type, PeriodStart(type, u))')
                    + excused'[<<type, Calendar(type, u)>>]
    <3>1. PICK t \in Starts : t = PeriodStart(type, u)
      BY PeriodsStart, EnforcedTypes
    <3>2. PICK k \in Starts : k = Calendar(type, u)
      BY CalendarInStarts, EnforcedTypes
    <3>3. type \in Types /\ type \in Limited
      BY <2>1, EnforcedTypes DEF Limited
    <3>4. served[<<type, k>>] <= RowOf(<<type, t>>) + Summed(Pending(type, t)) + excused[<<type, k>>]
      BY <2>1, <3>1, <3>2 DEF SpendOK, Accounted, AccountedAt
    <3>5. extra(type, k) <= PendingCost(job, type, t)
      <4>1. CASE k = Calendar(type, now)
        <5>1. t = StartsNow[type]
          <6>1. PeriodStart(type, u) = PeriodStart(type, now)
            BY <1>1, <3>2, <4>1, SamePeriod
          <6>2. StartsNow[type] = PeriodStart(type, now)
            BY <3>3 DEF StartsNow
          <6>. QED
            BY <3>1, <6>1, <6>2
        <5>2. PendingCost(job, type, t) = cost
          BY <1>4, <3>3, <5>1 DEF PendingCost
        <5>. QED
          BY <1>2, <5>2
      <4>2. CASE k # Calendar(type, now)
        BY <1>7, <3>3, <4>2
      <4>. QED
        BY <4>1, <4>2
    <3>6. RowOf(<<type, t>>) \in Nat
      <4>1. <<type, t>> \in Periods
        BY <3>3 DEF Periods
      <4>. QED
        BY <1>1, <4>1 DEF RowOf
    <3>. HIDE DEF extra
    <3>7. served'[<<type, k>>] <= RowOf(<<type, t>>)
            + (Summed(Pending(type, t)) + PendingCost(job, type, t)) + excused'[<<type, k>>]
      <4>1. excused'[<<type, k>>] >= excused[<<type, k>>] /\ excused'[<<type, k>>] \in Nat
        BY <1>6, <3>3
      <4>. QED
        BY <1>6, <1>7, <3>3, <3>4, <3>5, <3>6, <4>1
    <3>8. Summed(Pending(type, t)') = Summed(Pending(type, t)) + PendingCost(job, type, t)
      BY <1>7, <3>3
    <3>9. Pending(type, PeriodStart(type, u))' = Pending(type, t)'
      BY <3>1
    <3>. QED
      BY <3>1, <3>2, <3>7, <3>8, <3>9
  <2>. QED
    BY <2>1 DEF Accounted, AccountedAt, RowOf
<1>10. NothingLater'
  <2>1. ASSUME NEW type \in Enforced, NEW k \in Starts, k > Calendar(type, now)
        PROVE  served'[<<type, k>>] = 0
    <3>1. served[<<type, k>>] = 0 /\ type \in Types
      BY <2>1, EnforcedTypes DEF SpendOK, NothingLater
    <3>2. k # Calendar(type, now)
      BY <1>1, <2>1, <3>1, CalendarInStarts, TimeFacts
    <3>3. extra(type, k) = 0
      BY <3>2
    <3>. QED
      BY <1>6, <3>1, <3>3
  <2>. QED
    BY <2>1 DEF SpendOK, NothingLater
<1>11. ASSUME NEW type \in Enforced, config.limit[type] > 0
       PROVE  served'[<<type, Calendar(type, now)>>] + Summed(Ahead')
                <= Overshoot(type) + excused'[<<type, Calendar(type, now)>>]
  <2>1. PICK k \in Starts : k = Calendar(type, now)
    BY <1>1, CalendarInStarts, EnforcedTypes
  <2>2. type \in Types /\ type \in Limited
    BY <1>11, EnforcedTypes DEF Limited
  <2>3. served[<<type, k>>] + Summed(Ahead) <= Overshoot(type) + excused[<<type, k>>]
    BY <1>11, <2>1 DEF SpendOK, Bearable, BearableBy
  <2>4. extra(type, k) = cost
    BY <2>1, <2>2
  <2>. HIDE DEF extra
  <2>5. /\ served'[<<type, k>>] = served[<<type, k>>] + cost
        /\ excused'[<<type, k>>] = excused[<<type, k>>] + IF call[c].free THEN cost ELSE 0
        /\ served[<<type, k>>] \in Nat /\ excused[<<type, k>>] \in Nat
    BY <1>6, <2>2, <2>4
  <2>6. Overshoot(type) \in Int
    BY <2>2, OvershootIsInt
  <2>7. CASE call[c].free
    BY <1>2, <1>8, <2>1, <2>3, <2>5, <2>6, <2>7
  <2>8. CASE ~call[c].free
    BY <1>1, <1>2, <1>8, <2>1, <2>3, <2>5, <2>6, <2>8
  <2>. QED
    BY <2>7, <2>8
<1>12. CallsOK'
  <2>1. ASSUME NEW z \in Calls PROVE RecordOK(call[z])'
    <3>1. CASE z = c
      <4>1. \A type \in Enforced : job.starts[type] = PeriodStart(type, now)
        BY <1>4, EnforcedTypes DEF StartsNow
      <4>2. now \in 0 .. now
        BY <1>1, TimeFacts
      <4>3. job.cost <= config.cost
        BY <1>2, <1>4
      <4>. QED
        BY <1>5, <3>1, <4>1, <4>2, <4>3 DEF RecordOK
    <3>2. CASE z # c
      <4>1. call'[z] = call[z] /\ RecordOK(call[z])
        BY <1>5, <3>2 DEF SpendOK, CallsOK
      <4>. QED
        BY <4>1 DEF RecordOK
    <3>. QED
      BY <3>1, <3>2
  <2>. QED
    BY <2>1 DEF CallsOK
<1>13. OvershootIsBounded'
  <2>1. ASSUME NEW type \in Enforced, config.limit[type] > 0, NEW k \in Starts
        PROVE  served'[<<type, k>>] <= Overshoot(type) + excused'[<<type, k>>]
    <3>1. type \in Types /\ Overshoot(type) \in Int
      BY EnforcedTypes, OvershootIsInt
    <3>2. CASE k = Calendar(type, now)
      <4>1. served'[<<type, k>>] + Summed(Ahead') <= Overshoot(type) + excused'[<<type, k>>]
        BY <1>11, <2>1, <3>2
      <4>2. served'[<<type, k>>] \in Int /\ excused'[<<type, k>>] \in Int
        BY <1>6, <3>1
      <4>. QED
        BY <1>8, <3>1, <4>1, <4>2
    <3>3. CASE k # Calendar(type, now)
      <4>1. served[<<type, k>>] <= Overshoot(type) + excused[<<type, k>>]
        BY <2>1 DEF SpendOK, OvershootIsBounded, Bounded, Enforced
      <4>2. extra(type, k) = 0
        BY <3>3
      <4>. QED
        BY <1>6, <3>1, <4>1, <4>2
    <3>. QED
      BY <3>2, <3>3
  <2>. QED
    BY <2>1 DEF OvershootIsBounded, Bounded, Overshoot, Enforced
<1>14. Bearable'
  BY <1>11 DEF Bearable, BearableBy, Overshoot
<1>. QED
  BY <1>9, <1>10, <1>12, <1>13, <1>14 DEF SpendOK

\* A served call is charged to the periods of the moment, or answers for nothing.
LEMMA AnswersKeepSpend ==
  ASSUME SpendOK, KeysTyped, NEW c \in Calls, UpstreamAnswers(c)
  PROVE  SpendOK'
<1>1. call[c].at = "upstream" /\ config' = config /\ now' = now
  BY AnswersCases DEF At
<1>2. call[c] \in CallsT /\ config.cost \in Nat /\ StartsNow \in [Types -> Starts]
      /\ Limited \subseteq Types
  BY ConfigFacts, NowTyped DEF KeysTyped, Limited
<1>3. CASE Idle(c) /\ UNCHANGED spending
  BY <1>1, <1>3, IdleIsQuiet
<1>4. ASSUME NEW cost \in 1 .. config.cost,
             call' = [call EXCEPT ![c].at = "record", ![c].cost = cost,
                        ![c].starts = StartsNow, ![c].todo = Limited],
             served' = Bill(served, RealNow, Limited, cost),
             excused' = IF call[c].free THEN Bill(excused, RealNow, Limited, cost)
                                        ELSE excused,
             spend' = spend
      PROVE  SpendOK'
  <2> DEFINE job == [call[c] EXCEPT !.at = "record", !.cost = cost, !.starts = StartsNow,
                                    !.todo = Limited]
  <2>1. cost \in Nat
    BY <1>2
  <2>2. /\ job \in CallsT /\ job.at = "record" /\ job.cost = cost /\ job.starts = StartsNow
        /\ job.todo = Limited
    BY <1>2, <2>1 DEF CallsT, Places
  <2>3. call' = [call EXCEPT ![c] = job]
    BY <1>4
  <2>. HIDE DEF job
  <2>. QED
    BY <1>1, <1>4, <2>2, <2>3, ChargeKeepsSpend
<1>. QED
  BY <1>3, <1>4, AnswersCases

\* A period of a call is recorded, or the statement fails.
LEMMA RecordKeepsSpend ==
  ASSUME SpendOK, KeysTyped, NEW c \in Calls, RecordSpend(c)
  PROVE  SpendOK'
<1>1. /\ call \in [Calls -> CallsT] /\ call[c] \in CallsT /\ now \in Starts /\ config.cost \in Nat
      /\ served \in [Periods -> Nat] /\ excused \in [Periods -> Nat]
      /\ spend \in [Periods -> Nat \cup {-1}] /\ call' \in [Calls -> CallsT]
      /\ excused' \in [Periods -> Nat]
  BY ConfigFacts, RecordTyped DEF KeysTyped, SpendTyped
<1>2. PICK type \in Types : type = NextType(c)
  BY DEF NextType, Types
<1>3. PICK t \in Starts : t = call[c].starts[type]
  BY <1>1 DEF CallsT
<1>4. PICK cost \in Nat : cost = call[c].cost
  BY <1>1 DEF CallsT
<1>5. /\ Rest(c, type) /\ call[c].at = "record"
      /\ \/ /\ spend' = [spend EXCEPT ![<<type, t>>] = Upserted(<<type, t>>, cost)]
            /\ excused' = excused
         \/ /\ excused' = [excused EXCEPT ![<<type, Calendar(type, t)>>] = @ + cost]
            /\ spend' = spend
      /\ served' = served /\ config' = config /\ now' = now
  BY <1>2, <1>3, <1>4 DEF RecordSpend, NextType, At
<1>6. PICK job \in CallsT :
        /\ call' = [call EXCEPT ![c] = job]
        /\ \/ job = NoCall /\ call[c].todo \ {type} = {}
           \/ job = [call[c] EXCEPT !.todo = call[c].todo \ {type}]
  <2> DEFINE rest == call[c].todo \ {type}
             next == [call[c] EXCEPT !.todo = rest]
  <2>1. next \in CallsT
    BY <1>1 DEF CallsT
  <2>2. CASE rest = {}
    <3>1. call' = [call EXCEPT ![c] = NoCall]
      BY <1>5, <2>2 DEF Rest, Idle
    <3>. QED
      BY <2>2, <3>1, NoCallTyped
  <2>3. CASE rest # {}
    <3>1. call' = [call EXCEPT ![c] = next]
      BY <1>5, <2>3 DEF Rest
    <3>. QED
      BY <2>1, <3>1
  <2>. QED
    BY <2>2, <2>3
<1>7. call'[c] = job /\ \A z \in Calls \ {c} : call'[z] = call[z]
  BY <1>1, <1>6
<1>8. ASSUME NEW ty \in Types, NEW x
      PROVE  /\ ~(ty = type /\ x = t) => PendingCost(job, ty, x) = PendingCost(call[c], ty, x)
             /\ PendingCost(call[c], ty, x) <= PendingCost(job, ty, x) + cost
             /\ PendingCost(job, ty, x) \in Nat /\ PendingCost(call[c], ty, x) \in Nat
  <2>1. CASE job = NoCall /\ call[c].todo \ {type} = {}
    <3>1. PendingCost(job, ty, x) = 0
      BY <2>1 DEF PendingCost, NoCall
    <3>2. PendingCost(call[c], ty, x) = IF type \in call[c].todo /\ ty = type /\ x = t THEN cost ELSE 0
      BY <1>3, <1>4, <1>5, <2>1 DEF PendingCost
    <3>. QED
      BY <3>1, <3>2
  <2>2. CASE job = [call[c] EXCEPT !.todo = call[c].todo \ {type}]
    <3>1. /\ job.at = "record" /\ job.todo = call[c].todo \ {type} /\ job.cost = cost
          /\ job.starts = call[c].starts
      BY <1>1, <1>4, <1>5, <2>2 DEF CallsT
    <3>2. PendingCost(job, ty, x)
            = IF ty \in call[c].todo /\ ty # type /\ call[c].starts[ty] = x THEN cost ELSE 0
      BY <3>1 DEF PendingCost
    <3>3. PendingCost(call[c], ty, x)
            = IF ty \in call[c].todo /\ call[c].starts[ty] = x THEN cost ELSE 0
      BY <1>4, <1>5 DEF PendingCost
    <3>. QED
      BY <1>3, <3>2, <3>3
  <2>. QED
    BY <1>6, <2>1, <2>2
<1>9. ASSUME NEW ty \in Types, NEW x
      PROVE  /\ Summed(Pending(ty, x)') = Summed(Pending(ty, x)) - PendingCost(call[c], ty, x)
                                          + PendingCost(job, ty, x)
             /\ Summed(Pending(ty, x)) \in Nat
  BY <1>1, <1>7, PendingUpdate, PendingTyped
<1>10. ASSUME NEW ty \in Types, NEW k \in Starts
       PROVE  /\ excused'[<<ty, k>>] >= excused[<<ty, k>>]
              /\ excused'[<<ty, k>>] \in Nat /\ excused[<<ty, k>>] \in Nat
              /\ served[<<ty, k>>] \in Nat
  <2>1. <<ty, k>> \in Periods
    BY DEF Periods
  <2>2. excused[<<ty, k>>] \in Nat /\ excused'[<<ty, k>>] \in Nat /\ served[<<ty, k>>] \in Nat
    BY <1>1, <2>1
  <2>3. CASE excused' = excused
    BY <2>2, <2>3
  <2>4. CASE excused' = [excused EXCEPT ![<<type, Calendar(type, t)>>] = @ + cost]
    BY <1>1, <2>1, <2>2, <2>4
  <2>. QED
    BY <1>5, <2>2, <2>3, <2>4
<1>11. Summed(Ahead') = Summed(Ahead)
  <2>1. AheadCost(call[c], config.cost) = 0
    BY <1>5 DEF AheadCost
  <2>2. job.at # "upstream"
    BY <1>1, <1>5, <1>6 DEF NoCall, CallsT
  <2>3. AheadCost(job, config.cost) = 0
    BY <2>2 DEF AheadCost
  <2>4. Summed(Ahead) \in Nat
    BY <1>1, AheadTyped
  <2>. QED
    BY <1>1, <1>5, <1>7, <2>1, <2>3, <2>4, AheadUpdate
<1>12. ASSUME NEW ty \in Enforced, NEW u \in Starts, config.limit[ty] > 0
       PROVE  served[<<ty, Calendar(ty, u)>>]
                <= RowOf(<<ty, PeriodStart(ty, u)>>)'
                   + Summed(Pending(ty, PeriodStart(ty, u))')
                   + excused'[<<ty, Calendar(ty, u)>>]
  <2>1. PICK x \in Starts : x = PeriodStart(ty, u)
    BY PeriodsStart, EnforcedTypes
  <2>2. PICK k \in Starts : k = Calendar(ty, u)
    BY CalendarInStarts, EnforcedTypes
  <2>3. ty \in Types /\ <<ty, x>> \in Periods /\ spend[<<ty, x>>] \in Nat \cup {-1}
        /\ RowOf(<<ty, x>>) \in Nat /\ <<ty, k>> \in Periods
    BY <1>1, EnforcedTypes DEF Periods, RowOf
  <2>4. served[<<ty, k>>] <= RowOf(<<ty, x>>) + Summed(Pending(ty, x)) + excused[<<ty, k>>]
    BY <1>12, <2>1, <2>2 DEF SpendOK, Accounted, AccountedAt
  <2>5. /\ Summed(Pending(ty, x)') = Summed(Pending(ty, x)) - PendingCost(call[c], ty, x)
                                     + PendingCost(job, ty, x)
        /\ Summed(Pending(ty, x)) \in Nat
    BY <1>9, <2>3
  <2>6. /\ excused'[<<ty, k>>] >= excused[<<ty, k>>]
        /\ excused'[<<ty, k>>] \in Nat /\ excused[<<ty, k>>] \in Nat
        /\ served[<<ty, k>>] \in Nat
    BY <1>10, <2>3
  <2>7. /\ PendingCost(call[c], ty, x) <= PendingCost(job, ty, x) + cost
        /\ PendingCost(job, ty, x) \in Nat /\ PendingCost(call[c], ty, x) \in Nat
    BY <1>8, <2>3
  <2> DEFINE row2 == IF spend'[<<ty, x>>] < 0 THEN 0 ELSE spend'[<<ty, x>>]
  <2>8. served[<<ty, k>>] <= row2 + Summed(Pending(ty, x)') + excused'[<<ty, k>>]
    <3>1. CASE ty = type /\ x = t
      <4>1. CASE spend' = [spend EXCEPT ![<<type, t>>] = Upserted(<<type, t>>, cost)]
        <5>1. spend'[<<ty, x>>] = Upserted(<<ty, x>>, cost)
          BY <1>1, <2>3, <3>1, <4>1
        <5>2. row2 = RowOf(<<ty, x>>) + cost
          BY <2>3, <5>1 DEF Upserted, RowOf
        <5>. HIDE DEF row2
        <5>. QED
          BY <2>3, <2>4, <2>5, <2>6, <2>7, <5>2
      <4>2. CASE /\ excused' = [excused EXCEPT ![<<type, Calendar(type, t)>>] = @ + cost]
                 /\ spend' = spend
        <5>1. k = Calendar(type, t)
          <6>1. Calendar(ty, PeriodStart(ty, u)) = Calendar(ty, u)
            BY <2>1, IndexOfStart
          <6>. QED
            BY <2>1, <2>2, <3>1, <6>1
        <5>2. excused'[<<ty, k>>] = excused[<<ty, k>>] + cost
          BY <1>1, <2>3, <3>1, <4>2, <5>1
        <5>3. row2 = RowOf(<<ty, x>>)
          BY <4>2 DEF RowOf
        <5>. HIDE DEF row2
        <5>. QED
          BY <2>3, <2>4, <2>5, <2>6, <2>7, <5>2, <5>3
      <4>. QED
        BY <1>5, <4>1, <4>2
    <3>2. CASE ~(ty = type /\ x = t)
      <4>1. Summed(Pending(ty, x)') = Summed(Pending(ty, x))
        BY <1>8, <2>3, <2>5, <2>7, <3>2
      <4>2. spend'[<<ty, x>>] = spend[<<ty, x>>]
        <5>1. <<ty, x>> # <<type, t>>
          BY <3>2
        <5>. QED
          BY <1>1, <1>5, <2>3, <5>1
      <4>3. row2 = RowOf(<<ty, x>>)
        BY <4>2 DEF RowOf
      <4>. HIDE DEF row2
      <4>. QED
        BY <2>3, <2>4, <2>5, <2>6, <4>1, <4>3
    <3>. QED
      BY <3>1, <3>2
  <2>9. row2 = RowOf(<<ty, x>>)'
    BY DEF RowOf
  <2>. HIDE DEF row2
  <2>10. Pending(ty, PeriodStart(ty, u))' = Pending(ty, x)'
         /\ RowOf(<<ty, PeriodStart(ty, u)>>)' = RowOf(<<ty, x>>)'
    BY <2>1
  <2>. QED
    BY <2>2, <2>8, <2>9, <2>10
<1>13. Accounted'
  BY <1>5, <1>12 DEF Accounted, AccountedAt
<1>14. NothingLater'
  <2>1. ASSUME NEW ty \in Enforced, NEW x \in Starts, x > PeriodStart(ty, now)
        PROVE  spend'[<<ty, x>>] < 0
    <3>1. spend[<<ty, x>>] < 0
      BY <2>1 DEF SpendOK, NothingLater
    <3>2. <<ty, x>> # <<type, t>>
      <4>1. SUFFICES ASSUME ty = type, x = t PROVE FALSE
        OBVIOUS
      <4>2. PICK v \in 0 .. now : t = PeriodStart(type, v)
        BY <1>3, <1>5, <4>1 DEF SpendOK, CallsOK, RecordOK
      <4>3. v \in Starts /\ v <= now /\ now \in Int
        BY <1>1, ClockAssumption DEF Starts
      <4>4. PeriodStart(type, v) <= PeriodStart(type, now)
        BY <1>1, <4>1, <4>3, PeriodsOrdered
      <4>5. PeriodStart(type, now) \in Int /\ t \in Int
        BY <1>1, PeriodsStart, TimeFacts
      <4>. QED
        BY <2>1, <4>1, <4>2, <4>4, <4>5
    <3>3. spend'[<<ty, x>>] = spend[<<ty, x>>]
      <4>1. <<ty, x>> \in Periods
        BY EnforcedTypes DEF Periods
      <4>. QED
        BY <1>1, <1>5, <3>2, <4>1
    <3>. QED
      BY <3>1, <3>3
  <2>. QED
    BY <1>5, <2>1 DEF SpendOK, NothingLater
<1>15. Bearable'
  <2>1. ASSUME NEW ty \in Enforced, config.limit[ty] > 0
        PROVE  served[<<ty, Calendar(ty, now)>>] + Summed(Ahead')
                 <= Overshoot(ty) + excused'[<<ty, Calendar(ty, now)>>]
    <3>1. PICK k \in Starts : k = Calendar(ty, now)
      BY <1>1, CalendarInStarts, EnforcedTypes
    <3>2. served[<<ty, k>>] + Summed(Ahead) <= Overshoot(ty) + excused[<<ty, k>>]
      BY <2>1, <3>1 DEF SpendOK, Bearable, BearableBy
    <3>3. /\ excused'[<<ty, k>>] >= excused[<<ty, k>>]
          /\ excused'[<<ty, k>>] \in Nat /\ excused[<<ty, k>>] \in Nat
          /\ served[<<ty, k>>] \in Nat /\ Overshoot(ty) \in Int /\ Summed(Ahead) \in Nat
      BY <1>1, <1>10, EnforcedTypes, OvershootIsInt, AheadTyped
    <3>. QED
      BY <1>11, <3>1, <3>2, <3>3
  <2>. QED
    BY <1>5, <2>1 DEF Bearable, BearableBy, Overshoot
<1>16. CallsOK'
  <2>1. ASSUME NEW z \in Calls PROVE RecordOK(call[z])'
    <3>1. CASE z = c
      <4>1. job.at = "record" => job.cost = call[c].cost /\ job.starts = call[c].starts
        BY <1>1, <1>6 DEF CallsT, NoCall
      <4>2. RecordOK(call[c])
        BY DEF SpendOK, CallsOK
      <4>. QED
        BY <1>5, <1>7, <3>1, <4>1, <4>2 DEF RecordOK
    <3>2. CASE z # c
      <4>1. call'[z] = call[z] /\ RecordOK(call[z])
        BY <1>7, <3>2 DEF SpendOK, CallsOK
      <4>. QED
        BY <1>5, <4>1 DEF RecordOK
    <3>. QED
      BY <3>1, <3>2
  <2>. QED
    BY <2>1 DEF CallsOK
<1>17. OvershootIsBounded'
  <2>1. ASSUME NEW ty \in Enforced, config.limit[ty] > 0, NEW k \in Starts
        PROVE  served[<<ty, k>>] <= Overshoot(ty) + excused'[<<ty, k>>]
    <3>1. served[<<ty, k>>] <= Overshoot(ty) + excused[<<ty, k>>]
      BY <2>1 DEF SpendOK, OvershootIsBounded, Bounded, Enforced
    <3>2. Overshoot(ty) \in Int
      BY EnforcedTypes, OvershootIsInt
    <3>. QED
      BY <1>10, <3>1, <3>2, EnforcedTypes
  <2>. QED
    BY <1>5, <2>1 DEF OvershootIsBounded, Bounded, Overshoot, Enforced
<1>. QED
  BY <1>13, <1>14, <1>15, <1>16, <1>17 DEF SpendOK

\* Time passes, perhaps into another period.
LEMMA TickKeepsSpend ==
  ASSUME SpendOK, KeysTyped, Tick
  PROVE  SpendOK' /\ now' \in Starts
<1>1. /\ call \in [Calls -> CallsT] /\ now \in Starts /\ config.cost \in Nat
      /\ served \in [Periods -> Nat] /\ excused \in [Periods -> Nat]
  BY ConfigFacts DEF KeysTyped, SpendTyped
<1>2. /\ call' = call /\ config' = config /\ now' = now + 1
      /\ spend' = spend /\ served' = served /\ excused' = excused
  BY DEF Tick, spending
<1>3. PICK later \in Starts : later = now + 1
  BY <1>1, ConfigFacts, ClockAssumption DEF Tick, Starts
<1>4. now \in Int /\ later \in Int /\ now <= later /\ now' = later
  BY <1>1, <1>2, <1>3, TimeFacts
<1>5. Accounted'
  <2>1. ASSUME NEW type \in Enforced, NEW u \in Starts PROVE AccountedAt(type, u)'
    <3>1. AccountedAt(type, u)
      BY DEF SpendOK, Accounted
    <3>. QED
      BY <1>2, <3>1 DEF AccountedAt, RowOf, Pending
  <2>. QED
    BY <2>1 DEF Accounted
<1>6. ASSUME NEW type \in Enforced
      PROVE  /\ PeriodStart(type, now) <= PeriodStart(type, later)
             /\ Calendar(type, now) <= Calendar(type, later)
             /\ PeriodStart(type, now) \in Int /\ PeriodStart(type, later) \in Int
             /\ Calendar(type, now) \in Starts /\ Calendar(type, later) \in Starts
  BY <1>1, <1>3, <1>4, PeriodsOrdered, PeriodsStart, CalendarInStarts, EnforcedTypes, TimeFacts
<1>7. NothingLater'
  <2>1. ASSUME NEW type \in Enforced, NEW t \in Starts, t > PeriodStart(type, later)
        PROVE  spend[<<type, t>>] < 0
    <3>1. t > PeriodStart(type, now)
      BY <1>6, <2>1, TimeFacts
    <3>. QED
      BY <3>1 DEF SpendOK, NothingLater
  <2>2. ASSUME NEW type \in Enforced, NEW k \in Starts, k > Calendar(type, later)
        PROVE  served[<<type, k>>] = 0
    <3>1. k > Calendar(type, now)
      BY <1>6, <2>2, TimeFacts
    <3>. QED
      BY <3>1 DEF SpendOK, NothingLater
  <2>. QED
    BY <1>2, <1>4, <2>1, <2>2 DEF NothingLater
<1>8. Ahead' = Ahead
  BY <1>2 DEF Ahead
<1>9. Bearable'
  <2>1. ASSUME NEW type \in Enforced, config.limit[type] > 0
        PROVE  served[<<type, Calendar(type, later)>>] + Summed(Ahead)
                 <= Overshoot(type) + excused[<<type, Calendar(type, later)>>]
    <3>1. CASE Calendar(type, later) = Calendar(type, now)
      BY <2>1, <3>1 DEF SpendOK, Bearable, BearableBy
    <3>2. CASE Calendar(type, later) # Calendar(type, now)
      <4>1. PICK k \in Starts : k = Calendar(type, later)
        BY <1>6
      <4>2. k > Calendar(type, now)
        BY <1>6, <3>2, <4>1, TimeFacts
      <4>3. served[<<type, k>>] = 0
        BY <4>2 DEF SpendOK, NothingLater
      <4>4. excused[<<type, k>>] \in Nat
        BY <1>1, EnforcedTypes DEF Periods
      <4>5. Summed(Ahead) <= Cardinality(Calls) * config.cost /\ Summed(Ahead) \in Nat
        <5>1. Ahead \in [Calls -> Nat] /\ \A c \in Calls : Ahead[c] <= config.cost
          BY <1>1 DEF Ahead, AheadCost
        <5>. QED
          BY <1>1, <5>1, CallsAssumption, SummedAtMost, SummedIsNat
      <4>6. Overshoot(type) >= Cardinality(Calls) * config.cost /\ Overshoot(type) \in Int
            /\ Cardinality(Calls) * config.cost \in Nat
        BY <2>1, EnforcedTypes, OvershootIsInt
      <4>. QED
        BY <4>1, <4>3, <4>4, <4>5, <4>6
    <3>. QED
      BY <3>1, <3>2
  <2>. QED
    BY <1>2, <1>4, <1>8, <2>1 DEF Bearable, BearableBy, Overshoot
<1>10. CallsOK'
  <2>1. ASSUME NEW c \in Calls PROVE RecordOK(call[c])'
    <3>1. RecordOK(call[c])
      BY DEF SpendOK, CallsOK
    <3>2. \A t \in 0 .. now : t \in 0 .. later
      BY <1>4
    <3>. QED
      BY <1>2, <1>4, <3>1, <3>2 DEF RecordOK
  <2>. QED
    BY <2>1 DEF CallsOK
<1>11. OvershootIsBounded'
  BY <1>2 DEF SpendOK, OvershootIsBounded, Bounded, Overshoot
<1>. QED
  BY <1>4, <1>5, <1>7, <1>9, <1>10, <1>11 DEF SpendOK

LEMMA InitSpend == KInit => SpendOK
<1>. SUFFICES ASSUME KInit PROVE SpendOK
  OBVIOUS
<1>1. /\ KeysTyped /\ call \in [Calls -> CallsT] /\ now \in Starts /\ config.cost \in Nat
  BY InitTyped, ConfigFacts DEF KeysTyped
<1>2. /\ \A p \in Periods : spend[p] = -1 /\ served[p] = 0 /\ excused[p] = 0
      /\ \A c \in Calls : call[c] = NoCall
  BY DEF KInit
<1>3. \A type \in Types, t \in Starts : <<type, t>> \in Periods
  BY DEF Periods
<1>4. Accounted
  <2>1. ASSUME NEW type \in Enforced, NEW u \in Starts PROVE AccountedAt(type, u)
    <3>1. PICK t \in Starts : t = PeriodStart(type, u)
      BY PeriodsStart, EnforcedTypes
    <3>2. PICK k \in Starts : k = Calendar(type, u)
      BY CalendarInStarts, EnforcedTypes
    <3>3. Summed(Pending(type, t)) \in Nat /\ type \in Types
      BY <1>1, PendingTyped, EnforcedTypes
    <3>4. served[<<type, k>>] = 0 /\ excused[<<type, k>>] = 0 /\ RowOf(<<type, t>>) = 0
      BY <1>2, <1>3, <3>3 DEF RowOf
    <3>. QED
      BY <3>1, <3>2, <3>3, <3>4 DEF AccountedAt
  <2>. QED
    BY <2>1 DEF Accounted
<1>5. NothingLater
  BY <1>2, <1>3, EnforcedTypes DEF NothingLater
<1>6. Summed(Ahead) = 0
  <2>1. Ahead \in [Calls -> Nat] /\ \A c \in Calls : Ahead[c] = 0
    BY <1>1, <1>2 DEF Ahead, AheadCost, NoCall
  <2>. QED
    BY <2>1, CallsAssumption, SummedZeros
<1>7. ASSUME NEW type \in Enforced, config.limit[type] > 0, NEW k \in Starts
      PROVE  /\ Overshoot(type) \in Nat
             /\ served[<<type, k>>] = 0 /\ excused[<<type, k>>] = 0
  BY <1>1, <1>2, <1>3, <1>7, EnforcedTypes, OvershootIsInt
<1>8. Bearable
  <2>1. ASSUME NEW type \in Enforced, config.limit[type] > 0 PROVE BearableBy(type)
    <3>1. PICK k \in Starts : k = Calendar(type, now)
      BY <1>1, CalendarInStarts, EnforcedTypes
    <3>. QED
      BY <1>6, <1>7, <2>1, <3>1 DEF BearableBy
  <2>. QED
    BY <2>1 DEF Bearable, BearableBy
<1>9. OvershootIsBounded
  BY <1>7 DEF OvershootIsBounded, Bounded, Enforced
<1>10. CallsOK
  BY <1>2 DEF CallsOK, RecordOK, NoCall
<1>. QED
  BY <1>4, <1>5, <1>8, <1>9, <1>10 DEF SpendOK

-----------------------------------------------------------------------------
(* The invariant of the specification.                                     *)

LEMMA InitKeys == KInit => KeysInv
  BY InitTyped, InitKey, InitWindows, InitBuckets, InitSpend DEF KeysInv, KeyOK

\* What a step leaves alone.
LEMMA SpendUnchanged ==
  ASSUME SpendOK, UNCHANGED <<config, now, call, spending>>
  PROVE  SpendOK'
<1>1. /\ call' = call /\ config' = config /\ now' = now
      /\ spend' = spend /\ served' = served /\ excused' = excused
  BY DEF spending
<1>2. Accounted'
  BY <1>1 DEF SpendOK, Accounted, AccountedAt, RowOf, Pending
<1>3. NothingLater' /\ CallsOK' /\ OvershootIsBounded'
  BY <1>1 DEF SpendOK, NothingLater, CallsOK, RecordOK, OvershootIsBounded, Bounded, Overshoot
<1>4. Bearable'
  BY <1>1 DEF SpendOK, Bearable, BearableBy, Ahead, Overshoot
<1>. QED
  BY <1>2, <1>3, <1>4 DEF SpendOK

LEMMA WindowsStillTyped ==
  ASSUME WindowsTyped, UNCHANGED limits
  PROVE  WindowsTyped'
  BY DEF WindowsTyped, limits

LEMMA BucketsStillTyped ==
  ASSUME BucketsTyped, UNCHANGED buckets
  PROVE  BucketsTyped'
  BY DEF BucketsTyped, buckets

LEMMA SpendStillTyped ==
  ASSUME SpendTyped, UNCHANGED spending
  PROVE  SpendTyped'
  BY DEF SpendTyped, spending

\* A step of a call: what it has to establish.
CallKept == /\ call' \in [Calls -> CallsT] /\ WindowsTyped' /\ BucketsTyped' /\ SpendTyped'
            /\ WindowsOK' /\ BucketsOK' /\ SpendOK'

\* Every step of a call keeps the parts of the invariant.
LEMMA CallsKeepIt ==
  ASSUME KeysInv, NEW c \in Calls, CallStep(c)
  PROVE  CallKept
<1>1. KeysTyped /\ WindowsTyped /\ BucketsTyped /\ SpendTyped /\ WindowsOK /\ BucketsOK /\ SpendOK
  BY DEF KeysInv, KeysTyped
<1>2. CASE Authenticate(c)
  <2>1. /\ call' = [call EXCEPT ![c].at = "limit"] /\ call[c].at # "record"
        /\ UNCHANGED <<config, now>> /\ UNCHANGED limits /\ UNCHANGED buckets /\ UNCHANGED spending
    BY <1>2 DEF Authenticate, At
  <2>2. SpendOK' /\ call' \in [Calls -> CallsT]
    BY <1>1, <2>1, MoveIsQuiet, MovedTyped DEF Places
  <2>3. WindowsOK' /\ BucketsOK'
    BY <1>1, <2>1, WindowsUnchanged, BucketsUnchanged
  <2>. QED
    BY <1>1, <2>1, <2>2, <2>3, WindowsStillTyped, BucketsStillTyped, SpendStillTyped DEF CallKept
<1>3. CASE RateLimit(c)
  <2>1. UNCHANGED <<config, now>> /\ UNCHANGED buckets /\ UNCHANGED spending
    BY <1>3 DEF RateLimit
  <2>2. call' \in [Calls -> CallsT] /\ WindowsTyped' /\ WindowsOK' /\ SpendOK'
    BY <1>1, <1>3, RateLimitTyped, RateLimitKeepsWindows, RateLimitKeepsSpend
  <2>3. BucketsOK'
    BY <1>1, <2>1, BucketsUnchanged
  <2>. QED
    BY <1>1, <2>1, <2>2, <2>3, BucketsStillTyped, SpendStillTyped DEF CallKept
<1>4. CASE Reserve(c)
  <2>1. UNCHANGED <<config, now>> /\ UNCHANGED limits /\ UNCHANGED spending
    BY <1>4 DEF Reserve
  <2>2. call' \in [Calls -> CallsT] /\ BucketsTyped' /\ BucketsOK' /\ SpendOK'
    BY <1>1, <1>4, ReserveTyped, ReserveKeepsBuckets, ReserveKeepsSpend
  <2>3. WindowsOK'
    BY <1>1, <2>1, WindowsUnchanged
  <2>. QED
    BY <1>1, <2>1, <2>2, <2>3, WindowsStillTyped, SpendStillTyped DEF CallKept
<1>5. CASE CheckSpend(c)
  <2>1. UNCHANGED <<config, now>> /\ UNCHANGED limits /\ UNCHANGED buckets /\ UNCHANGED spending
    BY <1>5 DEF CheckSpend
  <2>2. call' \in [Calls -> CallsT] /\ SpendOK'
    BY <1>1, <1>5, CheckTyped, CheckKeepsSpend
  <2>3. WindowsOK' /\ BucketsOK'
    BY <1>1, <2>1, WindowsUnchanged, BucketsUnchanged
  <2>. QED
    BY <1>1, <2>1, <2>2, <2>3, WindowsStillTyped, BucketsStillTyped, SpendStillTyped DEF CallKept
<1>6. CASE RefuseCall(c)
  <2>1. /\ Idle(c) /\ call[c].at # "record"
        /\ UNCHANGED <<config, now>> /\ UNCHANGED limits /\ UNCHANGED buckets /\ UNCHANGED spending
    BY <1>6 DEF RefuseCall
  <2>2. SpendOK' /\ call' \in [Calls -> CallsT]
    BY <1>1, <2>1, IdleIsQuiet, IdleTyped
  <2>3. WindowsOK' /\ BucketsOK'
    BY <1>1, <2>1, WindowsUnchanged, BucketsUnchanged
  <2>. QED
    BY <1>1, <2>1, <2>2, <2>3, WindowsStillTyped, BucketsStillTyped, SpendStillTyped DEF CallKept
<1>7. CASE UpstreamFails(c)
  <2>1. /\ Settle(c, 0) /\ Idle(c) /\ call[c].at # "record" /\ 0 \in Nat
        /\ UNCHANGED <<config, now>> /\ UNCHANGED limits /\ UNCHANGED spending
    BY <1>7 DEF UpstreamFails, At
  <2>2. SpendOK' /\ call' \in [Calls -> CallsT] /\ BucketsTyped' /\ BucketsOK'
    BY <1>1, <2>1, IdleIsQuiet, IdleTyped, SettleTyped, SettleKeepsBuckets
  <2>3. WindowsOK'
    BY <1>1, <2>1, WindowsUnchanged
  <2>. QED
    BY <1>1, <2>1, <2>2, <2>3, WindowsStillTyped, SpendStillTyped DEF CallKept
<1>8. CASE UpstreamAnswers(c)
  <2>1. UNCHANGED <<config, now>> /\ UNCHANGED limits
    BY <1>8 DEF UpstreamAnswers
  <2>2. PICK tokens \in Nat : Settle(c, tokens)
    BY <1>1, <1>8, AnswersCases
  <2>3. call' \in [Calls -> CallsT] /\ BucketsTyped' /\ SpendTyped' /\ SpendOK'
    BY <1>1, <1>8, AnswersTyped, AnswersKeepSpend
  <2>4. BucketsOK' /\ WindowsOK'
    BY <1>1, <2>1, <2>2, SettleKeepsBuckets, WindowsUnchanged
  <2>. QED
    BY <1>1, <2>1, <2>3, <2>4, WindowsStillTyped DEF CallKept
<1>9. CASE RecordSpend(c)
  <2>1. UNCHANGED <<config, now>> /\ UNCHANGED limits /\ UNCHANGED buckets
    BY <1>9 DEF RecordSpend
  <2>2. call' \in [Calls -> CallsT] /\ SpendTyped' /\ SpendOK'
    BY <1>1, <1>9, RecordTyped, RecordKeepsSpend
  <2>3. WindowsOK' /\ BucketsOK'
    BY <1>1, <2>1, WindowsUnchanged, BucketsUnchanged
  <2>. QED
    BY <1>1, <2>1, <2>2, <2>3, WindowsStillTyped, BucketsStillTyped DEF CallKept
<1>. QED
  BY <1>2, <1>3, <1>4, <1>5, <1>6, <1>7, <1>8, <1>9 DEF CallStep

LEMMA CallsLeaveTheKey ==
  ASSUME NEW c \in Calls, CallStep(c)
  PROVE  UNCHANGED <<config, now, keyVars>>
  BY DEF CallStep, Authenticate, RateLimit, Reserve, CheckSpend, RefuseCall, UpstreamFails,
         UpstreamAnswers, RecordSpend

LEMMA AdminsLeaveTheRest ==
  ASSUME NEW h \in Admins, AdminStep(h)
  PROVE  UNCHANGED <<config, now, call>> /\ UNCHANGED limits /\ UNCHANGED buckets
         /\ UNCHANGED spending
<1>1. (\E op, copy : Read(h, op, copy)) \/ Create(h) \/ Save(h) \/ SaveFails(h)
  BY DEF AdminStep, Update, Delete, GetSecret
<1>. QED
  BY <1>1 DEF Read, Create, Save, SaveFails

\* Every step keeps the invariant.
LEMMA NextKeys ==
  ASSUME KeysInv, KNext
  PROVE  KeysInv'
<1>1. /\ KeysTyped /\ KeyOK /\ WindowsTyped /\ BucketsTyped /\ SpendTyped
      /\ WindowsOK /\ BucketsOK /\ SpendOK /\ call \in [Calls -> CallsT]
      /\ config \in Configs /\ now \in Starts
  BY DEF KeysInv, KeysTyped, KeyOK
<1>2. CASE Tick
  <2>1. /\ config' = config /\ UNCHANGED keyVars /\ call' = call /\ UNCHANGED limits
        /\ UNCHANGED buckets /\ UNCHANGED spending
    BY <1>2 DEF Tick
  <2>2. KeyOK' /\ BucketsOK' /\ WindowsOK' /\ SpendOK' /\ now' \in Starts
    BY <1>1, <1>2, <2>1, KeyUnchanged, BucketsUnchanged, TickKeepsWindows, TickKeepsSpend
  <2>3. WindowsTyped' /\ BucketsTyped' /\ SpendTyped'
    BY <1>1, <2>1, WindowsStillTyped, BucketsStillTyped, SpendStillTyped
  <2>. QED
    BY <1>1, <2>1, <2>2, <2>3 DEF KeysInv, KeysTyped, KeyOK
<1>3. CASE Sweep
  <2>1. /\ UNCHANGED <<config, now, call>> /\ UNCHANGED keyVars /\ UNCHANGED buckets
        /\ UNCHANGED spending
    BY <1>3 DEF Sweep
  <2>2. KeyOK' /\ BucketsOK' /\ WindowsOK' /\ WindowsTyped' /\ SpendOK'
    BY <1>1, <1>3, <2>1, KeyUnchanged, BucketsUnchanged, SweepKeepsWindows, SpendUnchanged
  <2>3. BucketsTyped' /\ SpendTyped'
    BY <1>1, <2>1, BucketsStillTyped, SpendStillTyped
  <2>. QED
    BY <1>1, <2>1, <2>2, <2>3 DEF KeysInv, KeysTyped, KeyOK
<1>4. ASSUME NEW h \in Admins, AdminStep(h) PROVE KeysInv'
  <2>1. /\ UNCHANGED <<config, now, call>> /\ UNCHANGED limits /\ UNCHANGED buckets
        /\ UNCHANGED spending
    BY <1>4, AdminsLeaveTheRest
  <2>2. KeyOK'
    BY <1>1, <1>4, ConsoleKeepsTheKey
  <2>3. BucketsOK' /\ WindowsOK' /\ SpendOK'
    BY <1>1, <2>1, BucketsUnchanged, WindowsUnchanged, SpendUnchanged
  <2>4. WindowsTyped' /\ BucketsTyped' /\ SpendTyped'
    BY <1>1, <2>1, WindowsStillTyped, BucketsStillTyped, SpendStillTyped
  <2>. QED
    BY <1>1, <2>1, <2>2, <2>3, <2>4 DEF KeysInv, KeysTyped, KeyOK
<1>5. ASSUME NEW c \in Calls, CallStep(c) PROVE KeysInv'
  <2>1. UNCHANGED <<config, now>> /\ UNCHANGED keyVars
    BY <1>5, CallsLeaveTheKey
  <2>2. CallKept
    BY <1>5, CallsKeepIt
  <2>3. KeyOK'
    BY <1>1, <2>1, KeyUnchanged
  <2>. QED
    BY <1>1, <2>1, <2>2, <2>3 DEF KeysInv, KeysTyped, KeyOK, CallKept
<1>. QED
  BY <1>2, <1>3, <1>4, <1>5 DEF KNext

LEMMA StutterKeys ==
  ASSUME KeysInv, UNCHANGED kVars
  PROVE  KeysInv'
<1>1. /\ KeysTyped /\ KeyOK /\ WindowsTyped /\ BucketsTyped /\ SpendTyped
      /\ WindowsOK /\ BucketsOK /\ SpendOK
  BY DEF KeysInv, KeysTyped, KeyOK
<1>2. /\ UNCHANGED <<config, now, call>> /\ UNCHANGED keyVars /\ UNCHANGED limits
      /\ UNCHANGED buckets /\ UNCHANGED spending
  BY DEF kVars
<1>3. KeyOK' /\ BucketsOK' /\ WindowsOK' /\ SpendOK'
  BY <1>1, <1>2, KeyUnchanged, BucketsUnchanged, WindowsUnchanged, SpendUnchanged
<1>4. WindowsTyped' /\ BucketsTyped' /\ SpendTyped'
  BY <1>1, <1>2, WindowsStillTyped, BucketsStillTyped, SpendStillTyped
<1>. QED
  BY <1>1, <1>2, <1>3, <1>4 DEF KeysInv, KeysTyped, KeyOK

\* The invariant of the specification.
LEMMA KeysInvariant == KSpec => []KeysInv
<1>1. KInit => KeysInv
  BY InitKeys
<1>2. KeysInv /\ [KNext]_kVars => KeysInv'
  BY NextKeys, StutterKeys
<1>. QED
  BY <1>1, <1>2, PTL DEF KSpec

\* The secret the console shows opens the key, however the administration of
\* the key interleaves (internal/handler/console/api_keys.go).
THEOREM ShownSecretsOpenTheKey == KSpec => []SecretOpensTheKey
<1>1. KeysInv => SecretOpensTheKey
  BY DEF KeysInv
<1>. QED
  BY <1>1, KeysInvariant, PTL

\* The fixed-window limiter lets less than two windows' worth of calls pass in
\* any stretch of one window, per store (internal/middleware/rate_limit.go).
THEOREM WindowsNeverPassTwice == KSpec => []WindowBound
<1>1. KeysInv => WindowBound
  BY WindowsAreBounded DEF KeysInv
<1>. QED
  BY <1>1, KeysInvariant, PTL

\* No minute grants more reservations than RPM, and Redis loses no token.
THEOREM BucketsNeverOverflow == KSpec => []BucketsHold
<1>1. KeysInv => BucketsHold
  BY BucketsAreBounded DEF KeysInv
<1>. QED
  BY <1>1, KeysInvariant, PTL

\* A period is overspent by no more than the calls that run at once can cost.
THEOREM LimitsBoundTheSpend == KSpec => []OvershootIsBounded
<1>1. KeysInv => OvershootIsBounded
  BY DEF KeysInv, SpendOK
<1>. QED
  BY <1>1, KeysInvariant, PTL
=============================================================================
