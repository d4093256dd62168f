---------------------------- MODULE ServingProofs ----------------------------
(* Proofs about Serving, for every number of requests, every limit of the  *)
(* backend and of the body, and every number of tries.                     *)
EXTENDS Serving, QPSBackendProofs, TLAPS

USE LengthsAssumption, TriesAssumption

-----------------------------------------------------------------------------
(* The limited backend inside                                              *)

(* Each step of a request is one of the limited backend or leaves that     *)
(* alone (forward.go 105).                                                 *)
LEMMA BackendStep == [ServingNext]_servingVars => [Next]_vars
  <1> SUFFICES ASSUME [ServingNext]_servingVars
               PROVE  [Next]_vars
    OBVIOUS
  <1>1. ASSUME NEW r \in Requests, Call(r) \/ TooMany(r) \/ Send(r) \/ Back(r)
        PROVE  Next
    BY <1>1 DEF Call, TooMany, Send, Back, Next
  <1>2. ASSUME NEW r \in Requests,
               \/ \E n \in Lengths : Arrive(r, n)
               \/ ExecuteRoute(r) \/ Forward(r) \/ Select(r) \/ Retry(r)
               \/ HandleError(r) \/ End(r) \/ Waits(r) \/ Expire(r)
        PROVE  UNCHANGED vars
    BY <1>2 DEF Arrive, ExecuteRoute, Forward, Select, Retry, HandleError, End,
                Waits, DoFails, Stream, StreamEnds, StreamBreaks, Expire, qvars, vars
  <1>3. ASSUME \/ \E n \in Limits : SetBodyMaxLen(n)
               \/ \E t \in BOOLEAN : SetMaxTimeout(t)
        PROVE  UNCHANGED vars
    BY <1>3 DEF SetBodyMaxLen, SetMaxTimeout, qvars, vars
  <1>4. CASE UNCHANGED servingVars
    BY <1>4 DEF servingVars, qvars, vars
  <1>5. QED
    BY <1>1, <1>2, <1>3, <1>4 DEF ServingNext, Runs

(* Each step of a request does to the limited backend what QPSBackend says *)
(* or nothing, so that what is proved of QPSBackend holds with retries,    *)
(* timeouts and broken answers, too (forward.go 105, qps.go 48-56).        *)
THEOREM BackendInside == ServingSpec => Spec
  <1>1. ServingInit => Init
    BY DEF ServingInit
  <1>2. QED  BY <1>1, BackendStep, PTL DEF ServingSpec, Spec

(* So its places are counted and limited across all tries.                 *)
THEOREM ServingLimited == ServingSpec => []Counted /\ []RefusedMeansBusy /\ IsLimiter
  <1>1. QED  BY BackendInside, CounterCounts, RefusalsAreDue, Refinement

-----------------------------------------------------------------------------
(* The inductive invariant: what has been written when, and that the       *)
(* history large agrees with the limit that ExecuteRoute will read.        *)

Written(r) ==
  LET p == job[r].phase  a == answer[r] IN
  /\ p = "idle" <=> a = "idle"
  /\ p \in {"arrived", "forward", "pick"} => a = "none"
  /\ p \in {"try", "failed", "called", "sent", "broken", "error"} => a \in {"none", "cut"}
  /\ p = "stream" => a = "begun"
  /\ p = "served" => a = "whole"
  /\ p = "done" => a \in {"error", "cut", "whole"}

LargeSeen(r) ==
  job[r].phase = "arrived" /\ job[r].large => Exceeds(job[r].len, bodyMaxLen)

SInv ==
  /\ IInv
  /\ ServingTypeOK
  /\ \A r \in Requests : Written(r) /\ LargeSeen(r)
  /\ LargeBodiesStay

Jobs == [phase : Phases, len : Lengths \cup {0}, large : BOOLEAN,
         deadline : {"none", "armed", "over"}, tries : 0..MaxTries]

(* What SInv says of the request q.                                        *)
JobOK(q) ==
  /\ job[q] \in Jobs
  /\ answer[q] \in Client!Answers
  /\ pc[q] # "out" <=> job[q].phase \in Inner
  /\ job[q].phase \in {"sent", "stream", "served"} => pc[q] = "served"
  /\ job[q].phase \notin Inner \cup {"pick", "try", "failed"} =>
       job[q].deadline = "none" /\ job[q].tries = 0
  /\ Written(q) /\ LargeSeen(q)
  /\ job[q].large => job[q].phase \in {"arrived", "error", "done"}

(* SInv says JobOK of every request.                                       *)
LEMMA JobsOK == SInv => \A q \in Requests : JobOK(q)
  BY DEF SInv, JobOK, ServingTypeOK, LargeBodiesStay, Jobs

(* The step is about the request r only.                                   *)
Only(r) ==
  /\ UNCHANGED <<bodyMaxLen, timed>>
  /\ job' = [job EXCEPT ![r] = job'[r]]
  /\ answer' = [answer EXCEPT ![r] = answer'[r]]
  /\ pc' = [pc EXCEPT ![r] = pc'[r]]

(* A step of the request r keeps SInv if it keeps what SInv says of r.     *)
LEMMA OneRequest ==
  ASSUME SInv, IInv', NEW r \in Requests, Only(r), JobOK(r)'
  PROVE  SInv'
  <1> USE DEF Only
  <1>1. \A q \in Requests : JobOK(q)'
    <2> SUFFICES ASSUME NEW q \in Requests, q # r PROVE JobOK(q)'
      OBVIOUS
    <2>1. job'[q] = job[q] /\ answer'[q] = answer[q] /\ pc'[q] = pc[q]
      BY DEF SInv, ServingTypeOK, IInv, TypeOK
    <2>2. JobOK(q)
      BY JobsOK
    <2>3. QED  BY <2>1, <2>2 DEF JobOK, Written, LargeSeen, Exceeds
  <1>2. job' \in [Requests -> Jobs] /\ answer' \in [Requests -> Client!Answers]
    BY <1>1 DEF SInv, ServingTypeOK, JobOK
  <1>3. QED
    BY <1>1, <1>2 DEF SInv, ServingTypeOK, LargeBodiesStay, JobOK, Jobs

(* The gateway's steps.                                                    *)
LEMMA GatewaySteps ==
  ASSUME SInv, IInv', NEW r \in Requests,
         \/ \E n \in Lengths : Arrive(r, n)
         \/ ExecuteRoute(r) \/ HandleError(r) \/ End(r)
  PROVE  SInv'
  <1>1. JobOK(r) /\ job \in [Requests -> Jobs] /\ answer \in [Requests -> Client!Answers]
        /\ pc \in [Requests -> {"out", "counted", "served", "refused"}]
    BY JobsOK DEF SInv, ServingTypeOK, Jobs, IInv, TypeOK
  <1> USE <1>1 DEF At, Write, Goto, NoJob, qvars, Jobs, JobOK, Written, LargeSeen,
                   Client!Answers, Phases, Inner
  <1>2. ASSUME NEW n \in Lengths, Arrive(r, n)
        PROVE  SInv'
    <2>1. JobOK(r)'
      BY <1>2 DEF Arrive, Exceeds
    <2>2. Only(r)
      BY <1>2 DEF Arrive, Only
    <2>3. QED  BY <2>1, <2>2, OneRequest
  <1>3. CASE ExecuteRoute(r)
    <2>1. JobOK(r)'
      BY <1>3 DEF ExecuteRoute
    <2>2. Only(r)
      BY <1>3 DEF ExecuteRoute, Only
    <2>3. QED  BY <2>1, <2>2, OneRequest
  <1>4. CASE HandleError(r)
    <2>1. JobOK(r)'
      BY <1>4 DEF HandleError, ErrorAnswer, IsResponded
    <2>2. Only(r)
      BY <1>4 DEF HandleError, Only
    <2>3. QED  BY <2>1, <2>2, OneRequest
  <1>5. CASE End(r)
    <2>1. JobOK(r)'
      BY <1>5 DEF End
    <2>2. Only(r)
      BY <1>5 DEF End, Only
    <2>3. QED  BY <2>1, <2>2, OneRequest
  <1>6. QED  BY <1>2, <1>3, <1>4, <1>5

(* The forwarder's steps.                                                  *)
LEMMA ForwarderSteps ==
  ASSUME SInv, IInv', NEW r \in Requests,
         Forward(r) \/ Expire(r) \/ Select(r) \/ Retry(r)
  PROVE  SInv'
  <1>1. JobOK(r) /\ job \in [Requests -> Jobs] /\ answer \in [Requests -> Client!Answers]
        /\ pc \in [Requests -> {"out", "counted", "served", "refused"}]
    BY JobsOK DEF SInv, ServingTypeOK, Jobs, IInv, TypeOK
  <1> USE <1>1 DEF At, Write, Goto, NoJob, qvars, Jobs, JobOK, Written, LargeSeen,
                   Client!Answers, Phases, Inner, LeaveForward, NewDeadline
  <1>2. CASE Forward(r)
    <2>1. JobOK(r)'
      BY <1>2 DEF Forward
    <2>2. Only(r)
      BY <1>2 DEF Forward, Only
    <2>3. QED  BY <2>1, <2>2, OneRequest
  <1>3. CASE Expire(r)
    <2>1. JobOK(r)'
      BY <1>3 DEF Expire
    <2>2. Only(r)
      BY <1>3 DEF Expire, Only
    <2>3. QED  BY <2>1, <2>2, OneRequest
  <1>4. CASE Select(r)
    <2>1. JobOK(r)'
      BY <1>4 DEF Select
    <2>2. Only(r)
      BY <1>4 DEF Select, Only
    <2>3. QED  BY <2>1, <2>2, OneRequest
  <1>5. CASE Retry(r)
    <2>1. JobOK(r)'
      BY <1>5 DEF Retry
    <2>2. Only(r)
      BY <1>5 DEF Retry, Only
    <2>3. QED  BY <2>1, <2>2, OneRequest
  <1>6. QED  BY <1>2, <1>3, <1>4, <1>5

(* The backends' steps.                                                    *)
LEMMA BackendSteps ==
  ASSUME SInv, IInv', NEW r \in Requests,
         Call(r) \/ TooMany(r) \/ Send(r) \/ DoFails(r) \/ Stream(r) \/ StreamEnds(r) \/ StreamBreaks(r) \/ Back(r)
  PROVE  SInv'
  <1>1. JobOK(r) /\ job \in [Requests -> Jobs] /\ answer \in [Requests -> Client!Answers]
        /\ pc \in [Requests -> {"out", "counted", "served", "refused"}]
    BY JobsOK DEF SInv, ServingTypeOK, Jobs, IInv, TypeOK
  <1> USE <1>1 DEF At, Write, Goto, NoJob, qvars, Jobs, JobOK, Written, LargeSeen,
                   Client!Answers, Phases, Inner, LeaveForward
  <1>2. CASE Call(r)
    <2>1. JobOK(r)'
      BY <1>2 DEF Call, Enter
    <2>2. Only(r)
      BY <1>2 DEF Call, Enter, Only
    <2>3. QED  BY <2>1, <2>2, OneRequest
  <1>3. CASE TooMany(r)
    <2>1. JobOK(r)'
      BY <1>3 DEF TooMany, Refuse
    <2>2. Only(r)
      BY <1>3 DEF TooMany, Refuse, Only
    <2>3. QED  BY <2>1, <2>2, OneRequest
  <1>4. CASE Send(r)
    <2>1. JobOK(r)'
      BY <1>4 DEF Send, Serve
    <2>2. Only(r)
      BY <1>4 DEF Send, Serve, Only
    <2>3. QED  BY <2>1, <2>2, OneRequest
  <1>5. CASE DoFails(r)
    <2>1. JobOK(r)'
      BY <1>5 DEF DoFails
    <2>2. Only(r)
      BY <1>5 DEF DoFails, Only
    <2>3. QED  BY <2>1, <2>2, OneRequest
  <1>6. CASE Stream(r)
    <2>1. JobOK(r)'
      BY <1>6 DEF Stream
    <2>2. Only(r)
      BY <1>6 DEF Stream, Only
    <2>3. QED  BY <2>1, <2>2, OneRequest
  <1>7. CASE StreamEnds(r)
    <2>1. JobOK(r)'
      BY <1>7 DEF StreamEnds
    <2>2. Only(r)
      BY <1>7 DEF StreamEnds, Only
    <2>3. QED  BY <2>1, <2>2, OneRequest
  <1>8. CASE StreamBreaks(r)
    <2>1. JobOK(r)'
      BY <1>8 DEF StreamBreaks
    <2>2. Only(r)
      BY <1>8 DEF StreamBreaks, Only
    <2>3. QED  BY <2>1, <2>2, OneRequest
  <1>9. CASE Back(r)
    <2>1. JobOK(r)'
      BY <1>9 DEF Back, Leave, Return
    <2>2. Only(r)
      BY <1>9 DEF Back, Leave, Return, Only
    <2>3. QED  BY <2>1, <2>2, OneRequest
  <1>10. QED  BY <1>2, <1>3, <1>4, <1>5, <1>6, <1>7, <1>8, <1>9

(* A new limit of the body is seen by all those that have not been checked. *)
LEMMA SettingSteps ==
  ASSUME SInv, IInv',
         (\E n \in Limits : SetBodyMaxLen(n)) \/ (\E t \in BOOLEAN : SetMaxTimeout(t))
  PROVE  SInv'
  <1>1. ASSUME NEW n \in Limits, SetBodyMaxLen(n)
        PROVE  SInv'
    <2>1. ASSUME NEW q \in Requests
          PROVE  JobOK(q)'
      BY <1>1, JobsOK DEF SetBodyMaxLen, At, JobOK, Jobs, Written, LargeSeen, Exceeds, qvars
    <2>2. job' \in [Requests -> Jobs] /\ answer' = answer /\ pc' = pc /\ timed' = timed
          /\ bodyMaxLen' \in Limits
      BY <1>1, <2>1 DEF SetBodyMaxLen, JobOK, qvars
    <2>3. QED
      BY <2>1, <2>2 DEF SInv, ServingTypeOK, LargeBodiesStay, JobOK, Jobs
  <1>2. ASSUME NEW t \in BOOLEAN, SetMaxTimeout(t)
        PROVE  SInv'
    BY <1>2 DEF SetMaxTimeout, SInv, ServingTypeOK, LargeBodiesStay, Written, LargeSeen,
                qvars
  <1>3. QED  BY <1>1, <1>2

(* There are no requests in the beginning.                                 *)
LEMMA ServingInvInit == ServingInit => SInv
  <1> SUFFICES ASSUME ServingInit PROVE SInv
    OBVIOUS
  <1>1. IInv
    BY InitInv DEF ServingInit
  <1>2. QED
    BY <1>1 DEF ServingInit, Init, SInv, ServingTypeOK, LargeBodiesStay, NoJob, Written,
                LargeSeen, Phases, Inner, Client!Answers

(* Every step of the serving keeps the invariant (gateway.go 219-281,      *)
(* forward.go 92-107, http.go 44-80).                                      *)
LEMMA ServingInvStep == SInv /\ [ServingNext]_servingVars => SInv'
  <1> SUFFICES ASSUME SInv, [ServingNext]_servingVars
               PROVE  SInv'
    OBVIOUS
  <1>1. IInv'
    BY BackendStep, StepInv DEF SInv
  <1>2. CASE UNCHANGED servingVars
    BY <1>1, <1>2 DEF servingVars, SInv, ServingTypeOK, LargeBodiesStay, Written, LargeSeen,
                      qvars
  <1>3. QED
    BY <1>1, <1>2, GatewaySteps, ForwarderSteps, BackendSteps, SettingSteps
    DEF ServingNext, Runs, Waits

(* The invariant of the serving holds in every state.                      *)
LEMMA ServingInvariant == ServingSpec => []SInv
  <1>1. QED  BY ServingInvInit, ServingInvStep, PTL DEF ServingSpec

(* The types; a request is inside the limited backend exactly while it is  *)
(* tried, and its deadline lasts as long as Forward (forward.go 92-105).   *)
THEOREM ServingTypeCorrect == ServingSpec => []ServingTypeOK
  <1>1. SInv => ServingTypeOK
    BY DEF SInv
  <1>2. QED  BY <1>1, ServingInvariant, PTL

(* A body declared too long is never forwarded (gateway.go 218-221).       *)
THEOREM LargeBodiesKept == ServingSpec => []LargeBodiesStay
  <1>1. SInv => LargeBodiesStay
    BY DEF SInv
  <1>2. QED  BY <1>1, ServingInvariant, PTL

-----------------------------------------------------------------------------
(* The refinement: each step writes to one client what OneAnswer allows,   *)
(* or nothing.                                                             *)

(* Nobody has got anything in the beginning.                               *)
LEMMA AnswersInit == ServingInit => Client!Init
  BY DEF ServingInit, Client!Init

(* Each step begins, ends or breaks off one answer as OneAnswer allows, or *)
(* writes nothing (http.go 75, gateway.go 268-281).                        *)
LEMMA AnswersStep == SInv /\ [ServingNext]_servingVars => [Client!Next]_answer
  <1> SUFFICES ASSUME SInv, [ServingNext]_servingVars
               PROVE  Client!Next \/ answer' = answer
    OBVIOUS
  <1>1. \A q \in Requests : Written(q) /\ answer[q] \in Client!Answers
    BY DEF SInv, ServingTypeOK
  <1> USE DEF At, Write, Written, Client!Answers, Client!Step
  <1>2. ASSUME NEW r \in Requests, NEW n \in Lengths, Arrive(r, n)
        PROVE  Client!Ask
    BY <1>1, <1>2 DEF Arrive, Client!Ask
  <1>3. ASSUME NEW r \in Requests, HandleError(r)
        PROVE  Client!Fail \/ answer' = answer
    <2>1. CASE IsResponded(r)
      BY <1>1, <1>3, <2>1 DEF HandleError, ErrorAnswer, SInv, ServingTypeOK
    <2>2. CASE ~IsResponded(r)
      BY <1>1, <1>3, <2>2 DEF HandleError, ErrorAnswer, IsResponded, Client!Fail
    <2>3. QED  BY <2>1, <2>2
  <1>4. ASSUME NEW r \in Requests, End(r)
        PROVE  Client!End
    BY <1>1, <1>4 DEF End, Client!End
  <1>5. ASSUME NEW r \in Requests, Waits(r)
        PROVE  Client!Next \/ answer' = answer
    <2>1. CASE DoFails(r)
      BY <2>1 DEF DoFails
    <2>2. CASE Stream(r)
      BY <1>1, <2>2, <1>5 DEF Stream, SInv, ServingTypeOK, Client!Next, Client!Answer
    <2>3. CASE StreamEnds(r)
      BY <1>1, <2>3 DEF StreamEnds, Client!Next, Client!Finish
    <2>4. CASE StreamBreaks(r)
      BY <1>1, <2>4 DEF StreamBreaks, Client!Next, Client!Cut
    <2>5. QED  BY <1>5, <2>1, <2>2, <2>3, <2>4 DEF Waits
  <1>6. ASSUME NEW r \in Requests,
               \/ ExecuteRoute(r) \/ Forward(r) \/ Select(r) \/ Retry(r) \/ Expire(r)
               \/ Call(r) \/ TooMany(r) \/ Send(r) \/ Back(r)
        PROVE  answer' = answer
    BY <1>6 DEF ExecuteRoute, Forward, Select, Retry, Expire, Call, TooMany, Send, Back
  <1>7. ASSUME \/ \E n \in Limits : SetBodyMaxLen(n)
               \/ \E t \in BOOLEAN : SetMaxTimeout(t)
        PROVE  answer' = answer
    BY <1>7 DEF SetBodyMaxLen, SetMaxTimeout
  <1>8. CASE UNCHANGED servingVars
    BY <1>8 DEF servingVars
  <1>9. QED
    BY <1>2, <1>3, <1>4, <1>5, <1>6, <1>7, <1>8 DEF ServingNext, Runs, Client!Next

(* A client gets one answer or one error, however often a request is tried *)
(* and wherever a try breaks off (gateway.go 268-277, http.go 51-75).      *)
THEOREM AnswersOnce == ServingSpec => IsOneAnswer
  <1>1. QED
    BY AnswersInit, AnswersStep, ServingInvariant, PTL
    DEF ServingSpec, IsOneAnswer, Client!Spec
=============================================================================
