-------------------------- MODULE QPSBackendProofs --------------------------
(* Proofs about QPSBackend, for every number of requests and every limit.  *)
EXTENDS QPSBackend, FiniteSetTheorems, TLAPS

USE QPSAssumption, RequestsAssumption

(* The limit in force is a natural number (qps.go 35-39).                  *)
LEMMA MaxNat == maxQPS \in Nat
  BY DEF maxQPS

(* The requests inside can be counted.                                     *)
LEMMA ActiveFinite == IsFiniteSet(Active) /\ Cardinality(Active) \in Nat
  <1>1. Active \subseteq Requests
    BY DEF Active, Inside
  <1>2. IsFiniteSet(Active)
    BY <1>1, FS_Subset
  <1>3. QED  BY <1>2, FS_CardinalityType

(* The inductive invariant: the counter counts, and only as many as the    *)
(* limit hold a count that lets them in.                                   *)
IInv ==
  /\ TypeOK
  /\ Counted
  /\ RefusedMeansBusy
  /\ \A r \in Active : r \in busy[r] /\ qps[r] = Cardinality(busy[r])
  /\ \A r \in Requests : pc[r] = "refused" => maxQPS > 0 /\ qps[r] > maxQPS
  /\ \A r \in Requests : pc[r] = "served" => ~Exceeded(r)

(* Nobody is inside in the beginning, and the counter is zero.             *)
LEMMA InitInv == Init => IInv
  <1> SUFFICES ASSUME Init PROVE IInv
    OBVIOUS
  <1>1. Active = {} /\ Granted = {}
    BY DEF Init, Active, Inside, Granted
  <1>2. Cardinality({}) = 0
    BY FS_EmptySet
  <1>3. QED
    BY <1>1, <1>2, MaxNat DEF Init, IInv, TypeOK, Counted, RefusedMeansBusy

(* Coming in: the counter and the set of active requests grow together.    *)
LEMMA EnterInv ==
  ASSUME IInv, NEW r \in Requests, Enter(r)
  PROVE  IInv'
  <1> USE DEF IInv
  <1>1. /\ r \notin Active /\ Active' = Active \cup {r}
        /\ \A q \in Requests \ {r} : /\ pc'[q] = pc[q]
                                     /\ qps'[q] = qps[q]
                                     /\ busy'[q] = busy[q]
        /\ pc'[r] = "counted" /\ qps'[r] = curQPS + 1 /\ busy'[r] = Active \cup {r}
    BY DEF Enter, Active, Inside, TypeOK
  <1>2. Cardinality(Active \cup {r}) = Cardinality(Active) + 1
    BY <1>1, ActiveFinite, FS_AddElement
  <1>3. TypeOK'
    BY <1>1 DEF TypeOK, Enter, Active, Inside
  <1>4. Counted'
    <2>1. curQPS' = Cardinality(Active')
      BY <1>1, <1>2 DEF Enter, Counted
    <2>2. ASSUME maxQPS > 0
          PROVE  Cardinality(Granted') <= maxQPS
      <3>1. CASE curQPS + 1 <= maxQPS
        <4>1. Granted' \subseteq Active'
          BY DEF Granted
        <4>2. IsFiniteSet(Active') /\ Cardinality(Active') = curQPS + 1
          BY <1>1, <1>2, ActiveFinite, FS_AddElement DEF Counted
        <4>3. Cardinality(Granted') <= Cardinality(Active') /\ Cardinality(Granted') \in Nat
          BY <4>1, <4>2, FS_Subset, FS_CardinalityType
        <4>4. curQPS \in Nat
          BY DEF TypeOK
        <4>5. QED  BY <3>1, <4>2, <4>3, <4>4, MaxNat
      <3>2. CASE ~(curQPS + 1 <= maxQPS)
        <4>1. Granted' = Granted
          BY <1>1, <3>2, <2>2 DEF Granted, Active, Inside, maxQPS
        <4>2. QED  BY <2>2, <4>1 DEF Counted
      <3>3. QED  BY <3>1, <3>2
    <2>3. QED  BY <2>1, <2>2 DEF Counted, maxQPS
  <1>5. RefusedMeansBusy'
    BY <1>1 DEF RefusedMeansBusy, maxQPS
  <1>6. \A q \in Active' : q \in busy'[q] /\ qps'[q] = Cardinality(busy'[q])
    BY <1>1, <1>2 DEF Counted, Active, Inside
  <1>7. QED
    BY <1>1, <1>3, <1>4, <1>5, <1>6 DEF Exceeded, maxQPS

(* A request that is refused was counted while the limit was reached.      *)
LEMMA RefuseInv ==
  ASSUME IInv, NEW r \in Requests, Refuse(r)
  PROVE  IInv'
  <1> USE DEF IInv
  <1>1. /\ Active' = Active
        /\ \A q \in Requests \ {r} : pc'[q] = pc[q]
        /\ pc'[r] = "refused" /\ r \in Active /\ UNCHANGED <<curQPS, qps, busy>>
    BY DEF Refuse, Active, Inside, TypeOK
  <1>2. Granted' = Granted
    BY <1>1 DEF Granted, maxQPS
  <1>3. Cardinality(busy[r] \ {r}) >= maxQPS
    <2>1. IsFiniteSet(busy[r]) /\ r \in busy[r]
      BY <1>1, FS_Subset DEF TypeOK
    <2>2. Cardinality(busy[r] \ {r}) = Cardinality(busy[r]) - 1
      BY <2>1, FS_RemoveElement
    <2>3. QED  BY <1>1, <2>2, MaxNat DEF Refuse, Exceeded, TypeOK
  <1>4. QED
    BY <1>1, <1>2, <1>3 DEF Refuse, Exceeded, TypeOK, Counted, RefusedMeansBusy, maxQPS

(* Who is let in holds one of the counts up to the limit (qps.go 52).      *)
LEMMA ServeInv ==
  ASSUME IInv, NEW r \in Requests, Serve(r)
  PROVE  IInv'
  <1> USE DEF IInv
  <1>1. /\ Active' = Active
        /\ \A q \in Requests \ {r} : pc'[q] = pc[q]
        /\ pc'[r] = "served" /\ UNCHANGED <<curQPS, qps, busy>>
    BY DEF Serve, Active, Inside, TypeOK
  <1>2. Granted' = Granted
    BY <1>1 DEF Granted, maxQPS
  <1>3. QED
    BY <1>1, <1>2 DEF Serve, Exceeded, TypeOK, Counted, RefusedMeansBusy, maxQPS

(* Going out: both shrink together, and so does the set of the granted.    *)
LEMMA LeaveInv ==
  ASSUME IInv, NEW r \in Requests, Leave(r)
  PROVE  IInv'
  <1> USE DEF IInv
  <1>1. /\ r \in Active /\ Active' = Active \ {r}
        /\ \A q \in Requests \ {r} : /\ pc'[q] = pc[q]
                                     /\ qps'[q] = qps[q]
                                     /\ busy'[q] = busy[q]
        /\ pc'[r] = "out" /\ qps'[r] = 0 /\ busy'[r] = {}
    BY DEF Leave, Return, Active, Inside, TypeOK
  <1>2. Cardinality(Active \ {r}) = Cardinality(Active) - 1
    BY <1>1, ActiveFinite, FS_RemoveElement
  <1>3. curQPS' = Cardinality(Active') /\ curQPS' \in Nat
    <2>1. IsFiniteSet(Active')
      BY <1>1, ActiveFinite, FS_RemoveElement
    <2>2. Cardinality(Active') \in Nat
      BY <2>1, FS_CardinalityType
    <2>3. QED  BY <1>1, <1>2, <2>2 DEF Leave, Counted
  <1>4. TypeOK'
    BY <1>1, <1>3 DEF TypeOK, Leave, Return
  <1>5. maxQPS > 0 => Cardinality(Granted') <= maxQPS
    <2>1. Granted' \subseteq Granted
      <3>1. SUFFICES ASSUME NEW q \in Granted'
                     PROVE  q \in Granted
        OBVIOUS
      <3>2. q \in Active' /\ qps'[q] <= maxQPS
        BY <3>1 DEF Granted, maxQPS
      <3>3. q \in Active /\ q # r /\ q \in Requests
        BY <1>1, <3>2 DEF Active, Inside
      <3>4. QED  BY <1>1, <3>2, <3>3 DEF Granted
    <2>2. IsFiniteSet(Granted)
      BY ActiveFinite, FS_Subset DEF Granted
    <2>3. Cardinality(Granted') <= Cardinality(Granted)
      BY <2>1, <2>2, FS_Subset
    <2>4. Cardinality(Granted') \in Nat /\ Cardinality(Granted) \in Nat
      BY <2>1, <2>2, FS_Subset, FS_CardinalityType
    <2>5. QED  BY <2>3, <2>4, MaxNat DEF Counted
  <1>6. Counted'
    BY <1>3, <1>5 DEF Counted, maxQPS
  <1>7. RefusedMeansBusy'
    BY <1>1 DEF RefusedMeansBusy, maxQPS
  <1>8. \A q \in Active' : q \in busy'[q] /\ qps'[q] = Cardinality(busy'[q])
    BY <1>1 DEF Active, Inside
  <1>9. QED
    BY <1>1, <1>4, <1>6, <1>7, <1>8 DEF Exceeded, maxQPS

(* A step that changes nothing keeps the invariant.                        *)
LEMMA IdleInv ==
  ASSUME IInv, UNCHANGED vars
  PROVE  IInv'
  BY DEF IInv, vars, TypeOK, Counted, RefusedMeansBusy, Active, Inside, Granted, Exceeded, maxQPS

(* Each step of RoundTrip keeps the invariant (qps.go 48-56).              *)
LEMMA StepInv == IInv /\ [Next]_vars => IInv'
  BY EnterInv, RefuseInv, ServeInv, LeaveInv, IdleInv DEF Next

(* The counter counts and lets in as many as the limit in every state.     *)
LEMMA Invariant == Spec => []IInv
  <1>1. QED  BY InitInv, StepInv, PTL DEF Spec

(* The types hold, and the counter is never negative (qps.go 35-39).       *)
THEOREM TypeCorrect == Spec => []TypeOK
  <1>1. IInv => TypeOK
    BY DEF IInv
  <1>2. QED  BY <1>1, Invariant, PTL

(* The counter never drifts and never grants more than the limit (48-56).  *)
THEOREM CounterCounts == Spec => []Counted
  <1>1. IInv => Counted
    BY DEF IInv
  <1>2. QED  BY <1>1, Invariant, PTL

(* Nobody is refused while fewer than the limit are inside (52-54).        *)
THEOREM RefusalsAreDue == Spec => []RefusedMeansBusy
  <1>1. IInv => RefusedMeansBusy
    BY DEF IInv
  <1>2. QED  BY <1>1, Invariant, PTL

-----------------------------------------------------------------------------
(* The refinement *)

Served == Inside({"served"})

(* The initial states are those of AdmissionLimit.                         *)
LEMMA InitRefines == Init => Limiter!Init
  BY DEF Init, Limiter!Init, Inside

(* AdmissionLimit counts as this module does.                              *)
LEMMA SameCardinality == \A S : Limiter!Cardinality(S) = Cardinality(S)
  BY DEF Limiter!Cardinality, Cardinality

(* Each step admits or releases a request of AdmissionLimit, or is none of *)
(* its steps (qps.go 48-56).                                               *)
LEMMA StepRefines == IInv /\ [Next]_vars => [Limiter!Next]_Served
  <1> SUFFICES ASSUME IInv, [Next]_vars
               PROVE  [Limiter!Next]_Served
    OBVIOUS
  <1> USE DEF IInv
  <1>1. ASSUME NEW r \in Requests, Enter(r)
        PROVE  Served' = Served
    BY <1>1 DEF Enter, Served, Inside, TypeOK
  <1>2. ASSUME NEW r \in Requests, Refuse(r)
        PROVE  Served' = Served
    BY <1>2 DEF Refuse, Served, Inside, TypeOK
  <1>3. ASSUME NEW r \in Requests, Serve(r)
        PROVE  Limiter!Admit(r)
    <2>1. r \notin Served /\ Served' = Served \cup {r}
      BY <1>3 DEF Serve, Served, Inside, TypeOK
    <2>2. ASSUME maxQPS # 0
          PROVE  Cardinality(Served) < maxQPS
      <3>1. Served \cup {r} \subseteq Granted
        BY <1>3, <2>2, MaxNat DEF Serve, Exceeded, Served, Inside, Granted, Active, TypeOK
      <3>2. IsFiniteSet(Granted)
        BY ActiveFinite, FS_Subset DEF Granted
      <3>3. IsFiniteSet(Served \cup {r}) /\ IsFiniteSet(Served)
        BY <3>1, <3>2, FS_Subset
      <3>4. Cardinality(Served \cup {r}) = Cardinality(Served) + 1
        BY <2>1, <3>3, FS_AddElement
      <3>5. Cardinality(Served \cup {r}) <= Cardinality(Granted)
        BY <3>1, <3>2, FS_Subset
      <3>6. Cardinality(Served) \in Nat /\ Cardinality(Granted) \in Nat
        BY <3>2, <3>3, FS_CardinalityType
      <3>7. QED  BY <2>2, <3>4, <3>5, <3>6, MaxNat DEF Counted
    <2>3. QED  BY <2>1, <2>2, SameCardinality DEF Limiter!Admit, Served
  <1>4. ASSUME NEW r \in Requests, Leave(r)
        PROVE  Served' = Served \/ Limiter!Release(r)
    BY <1>4 DEF Leave, Return, Served, Inside, TypeOK, Limiter!Release
  <1>5. CASE UNCHANGED vars
    BY <1>5 DEF vars, Served, Inside
  <1>6. QED
    BY <1>1, <1>2, <1>3, <1>4, <1>5 DEF Next, Limiter!Next

(* The limited backend implements the admission limit: never more than     *)
(* maxQPS requests are with the next backend, for every interleaving of    *)
(* the additions and the comparison (qps.go 48-56).                        *)
THEOREM Refinement == Spec => IsLimiter
  <1>1. QED  BY InitRefines, StepRefines, Invariant, PTL DEF Spec, IsLimiter, Limiter!Spec, Served
=============================================================================
