------------------------------- MODULE Serving -------------------------------
(***************************************************************************)
(* A request from ServeHTTP to its answer: the limit of the body and the   *)
(* error handler of the gateway (gateway.go), Forward with its timeout     *)
(* (forward.go), a limited backend (QPSBackend) in front of an HTTP        *)
(* backend (backend/http.go) that may be down, hang, or break off in the   *)
(* middle of an answer.  Routing is in GatewayRoutes.                      *)
(*                                                                         *)
(* The load balancer, outside the repository, has one endpoint or none,    *)
(* and tries a request that failed once more at the same endpoint          *)
(* (FailTry(1, 10ms)), or does not; the request it builds for the backend  *)
(* carries the context of Forward.                                         *)
(***************************************************************************)
EXTENDS QPSBackend

CONSTANTS
  Lengths,   \* the lengths that requests declare, -1 if they do not
  Limits,    \* the arguments of SetBodyMaxLen
  MaxTries   \* how often the load balancer tries a request

ASSUME LengthsAssumption == Lengths \subseteq Int /\ Limits \subseteq Int
ASSUME TriesAssumption == MaxTries \in Nat \ {0}

VARIABLES
  bodyMaxLen,  \* g.bodyMaxLen
  timed,       \* whether f.timeout is positive
  job,         \* job[r]: how far the request r has come
  answer       \* answer[r]: what has been written to the client of r

qvars == <<curQPS, qps, pc, busy>>
servingVars == <<qvars, bodyMaxLen, timed, job, answer>>

NoJob == [phase |-> "idle", len |-> 0, large |-> FALSE, deadline |-> "none", tries |-> 0]

ServingInit ==
  /\ Init
  /\ bodyMaxLen \in Limits
  /\ timed \in BOOLEAN
  /\ job = [r \in Requests |-> NoJob]
  /\ answer = [r \in Requests |-> "idle"]

At(r, phase) == job[r].phase = phase
Goto(r, phase) == job' = [job EXCEPT ![r].phase = phase]
Write(r, what) == answer' = [answer EXCEPT ![r] = what]
IsResponded(r) == answer[r] \notin {"idle", "none"}

-----------------------------------------------------------------------------
(* The gateway *)

(* Variant: the operands are swapped.                                      *)
ExceedsSwapped(len, max) == max > 0 /\ len < max

Exceeds(len, max) == max > 0 /\ max < len

(* History: large, while the limit in force is below the declared length.  *)
SetBodyMaxLen(n) ==
  /\ bodyMaxLen' = n
  /\ job' = [r \in Requests |->
       IF At(r, "arrived") THEN [job[r] EXCEPT !.large = @ /\ 0 < n /\ n < job[r].len]
                           ELSE job[r]]
  /\ UNCHANGED <<qvars, timed, answer>>

Arrive(r, n) ==
  /\ At(r, "idle")
  /\ job' = [job EXCEPT ![r] = [NoJob EXCEPT
       !.phase = "arrived", !.len = n, !.large = 0 < bodyMaxLen /\ bodyMaxLen < n]]
  /\ Write(r, "none")
  /\ UNCHANGED <<qvars, bodyMaxLen, timed>>

(* ExecuteRoute, before the middlewares.                                   *)
ExecuteRoute(r) ==
  /\ At(r, "arrived")
  /\ job' = [job EXCEPT ![r].phase = IF Exceeds(job[r].len, bodyMaxLen) THEN "error" ELSE "forward",
                        ![r].len = 0]
  /\ UNCHANGED <<qvars, bodyMaxLen, timed, answer>>

(* Variant: IsResponded is not asked.                                      *)
ErrorAnswerAlways(r) == "error"

ErrorAnswer(r) == IF IsResponded(r) THEN answer[r] ELSE "error"

(* handleError: an error is written unless an answer has been begun.       *)
HandleError(r) ==
  /\ At(r, "error")
  /\ Write(r, ErrorAnswer(r))
  /\ Goto(r, "done")
  /\ UNCHANGED <<qvars, bodyMaxLen, timed>>

End(r) ==
  /\ At(r, "done")
  /\ job' = [job EXCEPT ![r] = NoJob]
  /\ Write(r, "idle")
  /\ UNCHANGED <<qvars, bodyMaxLen, timed>>

-----------------------------------------------------------------------------
(* The forwarder *)

SetMaxTimeout(t) ==
  /\ timed' = t
  /\ UNCHANGED <<qvars, bodyMaxLen, job, answer>>

(* Variant: the context has no deadline.                                   *)
NewDeadlineNever == "none"

NewDeadline == IF timed THEN "armed" ELSE "none"

(* Forward reads the timeout once; the context is not the client's, so a   *)
(* client that goes away does not end it.                                  *)
Forward(r) ==
  /\ At(r, "forward")
  /\ job' = [job EXCEPT ![r].phase = "pick", ![r].deadline = NewDeadline]
  /\ UNCHANGED <<qvars, bodyMaxLen, timed, answer>>

(* The deadline of the context passes.                                     *)
Expire(r) ==
  /\ job[r].deadline = "armed"
  /\ job' = [job EXCEPT ![r].deadline = "over"]
  /\ UNCHANGED <<qvars, bodyMaxLen, timed, answer>>

(* Variant: cancel is not deferred.                                        *)
LeaveForwardUncancelled(r, phase) ==
  job' = [job EXCEPT ![r].phase = phase, ![r].tries = 0]

(* Forward returns, and the deferred cancel ends the context.              *)
LeaveForward(r, phase) ==
  job' = [job EXCEPT ![r].phase = phase, ![r].deadline = "none", ![r].tries = 0]

(* The load balancer has the endpoint, or ErrNoAvailableEndpoints.         *)
Select(r) ==
  /\ At(r, "pick")
  /\ Goto(r, "try") \/ LeaveForward(r, "error")
  /\ UNCHANGED <<qvars, bodyMaxLen, timed, answer>>

(* A try has failed: another one, or the error is returned.                *)
Retry(r) ==
  /\ At(r, "failed")
  /\ \/ job[r].tries < MaxTries /\ Goto(r, "try")
     \/ LeaveForward(r, "error")
  /\ UNCHANGED <<qvars, bodyMaxLen, timed, answer>>

-----------------------------------------------------------------------------
(* The backends: RoundTrip of the limited one around the HTTP backend.     *)

Call(r) ==
  /\ At(r, "try") /\ Enter(r)
  /\ job' = [job EXCEPT ![r].phase = "called", ![r].tries = @ + 1]
  /\ UNCHANGED <<bodyMaxLen, timed, answer>>

TooMany(r) ==
  /\ At(r, "called") /\ Refuse(r)
  /\ Goto(r, "broken")
  /\ UNCHANGED <<bodyMaxLen, timed, answer>>

Send(r) ==
  /\ At(r, "called") /\ Serve(r)
  /\ Goto(r, "sent")
  /\ UNCHANGED <<bodyMaxLen, timed, answer>>

(* c.Do returns an error: the backend is down, or the deadline is over.    *)
DoFails(r) ==
  /\ At(r, "sent")
  /\ Goto(r, "broken")
  /\ UNCHANGED <<qvars, bodyMaxLen, timed, answer>>

(* The headers are copied, Stream writes the status and begins the body.   *)
Stream(r) ==
  /\ At(r, "sent")
  /\ Goto(r, "stream")
  /\ Write(r, "begun")
  /\ UNCHANGED <<qvars, bodyMaxLen, timed>>

StreamEnds(r) ==
  /\ At(r, "stream")
  /\ Goto(r, "served")
  /\ Write(r, "whole")
  /\ UNCHANGED <<qvars, bodyMaxLen, timed>>

(* The backend breaks off, the client goes away, or the deadline is over.  *)
StreamBreaks(r) ==
  /\ At(r, "stream")
  /\ Goto(r, "broken")
  /\ Write(r, "cut")
  /\ UNCHANGED <<qvars, bodyMaxLen, timed>>

(* RoundTrip returns, with the answer written or with an error.            *)
Back(r) ==
  /\ Leave(r)
  /\ \/ At(r, "served") /\ LeaveForward(r, "done")
     \/ At(r, "broken") /\ Goto(r, "failed")
  /\ UNCHANGED <<bodyMaxLen, timed, answer>>

-----------------------------------------------------------------------------
(* What the gateway's goroutine does by itself.                            *)
Runs(r) ==
  \/ ExecuteRoute(r) \/ Forward(r) \/ Select(r) \/ Call(r) \/ TooMany(r)
  \/ Send(r) \/ Back(r) \/ Retry(r) \/ HandleError(r) \/ End(r)

(* What it waits for.                                                      *)
Waits(r) == DoFails(r) \/ Stream(r) \/ StreamEnds(r) \/ StreamBreaks(r)

ServingNext ==
  \/ \E n \in Limits : SetBodyMaxLen(n)
  \/ \E t \in BOOLEAN : SetMaxTimeout(t)
  \/ \E r \in Requests :
       (\E n \in Lengths : Arrive(r, n)) \/ Runs(r) \/ Waits(r) \/ Expire(r)

ServingSpec == ServingInit /\ [][ServingNext]_servingVars

(* Goroutines keep running, timers expire, and what waits in net/http ends *)
(* when the deadline of its context is over.  A backend need not answer.   *)
(* A client that neither reads nor goes away is left out.                  *)
FairServing ==
  /\ ServingSpec
  /\ \A r \in Requests :
       /\ WF_servingVars(Runs(r))
       /\ WF_servingVars(Expire(r))
       /\ WF_servingVars(job[r].deadline = "over" /\ Waits(r))

-----------------------------------------------------------------------------
Client == INSTANCE OneAnswer

Inner == {"called", "sent", "stream", "served", "broken"}
Phases == {"idle", "arrived", "forward", "pick", "try", "failed", "error", "done"} \cup Inner

(* The types, and: a request is inside the limited backend's RoundTrip     *)
(* exactly while it is tried, holds a place there while the HTTP backend   *)
(* works on it, and has a deadline and a count of tries inside Forward     *)
(* only.                                                                   *)
ServingTypeOK ==
  /\ bodyMaxLen \in Limits
  /\ timed \in BOOLEAN
  /\ job \in [Requests -> [phase : Phases, len : Lengths \cup {0}, large : BOOLEAN,
                           deadline : {"none", "armed", "over"}, tries : 0..MaxTries]]
  /\ answer \in [Requests -> Client!Answers]
  /\ \A r \in Requests :
       /\ pc[r] # "out" <=> job[r].phase \in Inner
       /\ job[r].phase \in {"sent", "stream", "served"} => pc[r] = "served"
       /\ job[r].phase \notin Inner \cup {"pick", "try", "failed"} =>
            job[r].deadline = "none" /\ job[r].tries = 0

(* A body that is declared longer than any limit in force since it came    *)
(* goes no further, although the limit may change meanwhile.  A body of    *)
(* undeclared length (-1) passes, however long it is (gateway.go 218-221). *)
LargeBodiesStay ==
  \A r \in Requests : job[r].large => job[r].phase \in {"arrived", "error", "done"}

(* A client gets one answer or one error, whatever breaks, is refused or   *)
(* is tried again; only a try that breaks off in the middle of its answer  *)
(* may be followed by that of another (gateway.go 268-277, http.go 51-75). *)
IsOneAnswer == Client!Spec

(* With a timeout every request is answered, and its place in the limited  *)
(* backend comes back, though the backend may hang (forward.go 92-98).     *)
AnsweredInTime ==
  \A r \in Requests : (At(r, "arrived") /\ [](timed)) ~> At(r, "idle")
=============================================================================
