------------------------------ MODULE OneAnswer ------------------------------
(* What a client is promised of each request: an error that stands alone,  *)
(* or an answer of a backend.  An answer that was cut off may be followed  *)
(* by that of another try, never by an error's text, and no request ends   *)
(* without either.                                                         *)
CONSTANT Requests

VARIABLE answer   \* answer[r]: what the client of r has got so far

Answers == {"idle", "none", "error", "begun", "whole", "cut"}

Init == answer = [r \in Requests |-> "idle"]

Step(from, to) ==
  \E r \in Requests : answer[r] \in from /\ answer' = [answer EXCEPT ![r] = to]

Ask    == Step({"idle"}, "none")
Fail   == Step({"none"}, "error")
Answer == Step({"none", "cut"}, "begun")
Finish == Step({"begun"}, "whole")
Cut    == Step({"begun"}, "cut")
End    == Step({"error", "whole", "cut"}, "idle")

Next == Ask \/ Fail \/ Answer \/ Finish \/ Cut \/ End

Spec == Init /\ [][Next]_answer
=============================================================================
