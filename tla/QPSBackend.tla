----------------------------- MODULE QPSBackend -----------------------------
(***************************************************************************)
(* The limited backend (forward/lb/backend/qps.go).  RoundTrip counts the  *)
(* request in with one atomic addition, compares the count it got, and     *)
(* counts the request out when it returns, refused or served.              *)
(***************************************************************************)
EXTENDS Integers, FiniteSets

CONSTANTS
  Requests,  \* the goroutines that call RoundTrip
  QPS        \* the argument of NewQPSBackend

ASSUME QPSAssumption == QPS \in Int
ASSUME RequestsAssumption == IsFiniteSet(Requests)

VARIABLES
  curQPS,    \* b.curQPS
  qps,       \* qps[r]: what AddInt64 returned to r
  pc,        \* pc[r]: where r is in RoundTrip
  busy       \* history: busy[r]: the requests inside RoundTrip when r was counted

vars == <<curQPS, qps, pc, busy>>

(* NewQPSBackend: a negative argument is taken for 0, no limit.            *)
maxQPS == IF QPS < 0 THEN 0 ELSE QPS

Init ==
  /\ curQPS = 0
  /\ qps = [r \in Requests |-> 0]
  /\ pc = [r \in Requests |-> "out"]
  /\ busy = [r \in Requests |-> {}]

Inside(where) == {r \in Requests : pc[r] \in where}
Active == Inside({"counted", "served", "refused"})

(* Variant: looks at the counter first and adds to it afterwards.          *)
EnterByLoad(r) ==
  /\ pc[r] = "out"
  /\ qps' = [qps EXCEPT ![r] = curQPS]
  /\ curQPS' = curQPS + 1
  /\ busy' = [busy EXCEPT ![r] = Active \cup {r}]
  /\ pc' = [pc EXCEPT ![r] = "counted"]

Enter(r) ==
  /\ pc[r] = "out"
  /\ curQPS' = curQPS + 1
  /\ qps' = [qps EXCEPT ![r] = curQPS + 1]
  /\ busy' = [busy EXCEPT ![r] = Active \cup {r}]
  /\ pc' = [pc EXCEPT ![r] = "counted"]

Exceeded(r) == maxQPS > 0 /\ qps[r] > maxQPS

(* Too many requests: the error is returned.                               *)
Refuse(r) ==
  /\ pc[r] = "counted" /\ Exceeded(r)
  /\ pc' = [pc EXCEPT ![r] = "refused"]
  /\ UNCHANGED <<curQPS, qps, busy>>

(* The next backend's RoundTrip is called.                                 *)
Serve(r) ==
  /\ pc[r] = "counted" /\ ~Exceeded(r)
  /\ pc' = [pc EXCEPT ![r] = "served"]
  /\ UNCHANGED <<curQPS, qps, busy>>

Return(r) ==
  /\ pc' = [pc EXCEPT ![r] = "out"]
  /\ qps' = [qps EXCEPT ![r] = 0]
  /\ busy' = [busy EXCEPT ![r] = {}]

(* Variant: only a request that was served is counted out.                 *)
LeaveServed(r) ==
  /\ pc[r] \in {"served", "refused"}
  /\ curQPS' = IF pc[r] = "served" THEN curQPS - 1 ELSE curQPS
  /\ Return(r)

(* Variant: a refused request is counted out twice.                        *)
LeaveTwice(r) ==
  /\ pc[r] \in {"served", "refused"}
  /\ curQPS' = IF pc[r] = "refused" THEN curQPS - 2 ELSE curQPS - 1
  /\ Return(r)

(* The deferred addition of -1, whatever RoundTrip returns.                *)
Leave(r) ==
  /\ pc[r] \in {"served", "refused"}
  /\ curQPS' = curQPS - 1
  /\ Return(r)

Next == \E r \in Requests : Enter(r) \/ Refuse(r) \/ Serve(r) \/ Leave(r)

Spec == Init /\ [][Next]_vars

-----------------------------------------------------------------------------
TypeOK ==
  /\ curQPS \in Nat
  /\ qps \in [Requests -> Nat]
  /\ pc \in [Requests -> {"out", "counted", "served", "refused"}]
  /\ busy \in [Requests -> SUBSET Requests]

(* Those that were let in, or are going to be.                             *)
Granted == {r \in Active : qps[r] <= maxQPS}

(* The counter is the number of requests inside RoundTrip, so that it does *)
(* not drift however many requests come, are refused, and go; and no more  *)
(* than maxQPS of them hold a count that lets them in.                     *)
Counted ==
  /\ curQPS = Cardinality(Active)
  /\ maxQPS > 0 => Cardinality(Granted) <= maxQPS

(* A request is refused only because as many others as the limit allows    *)
(* were inside RoundTrip when it came (some of them being refused, too).   *)
RefusedMeansBusy ==
  \A r \in Requests : pc[r] = "refused" => Cardinality(busy[r] \ {r}) >= maxQPS

(* The limited backend is an admission limit.                              *)
Limiter == INSTANCE AdmissionLimit WITH Limit <- maxQPS, inside <- Inside({"served"})
IsLimiter == Limiter!Spec
=============================================================================
