----------------------------- MODULE MCTdmaNet -----------------------------
(***************************************************************************)
(* Two robots and a gateway whose shortest frame is one gateway slot and   *)
(* one of a robot, so that the second robot makes the frame grow by two.   *)
(***************************************************************************)
EXTENDS TdmaNet

\* The source's loop: one answer after the other, as long as it ends in time
Loop(n, passed) ==
  CHOOSE k \in 0 .. n :
    /\ \A j \in 1 .. k : passed + j * AnswerTime < AnswerBudget(passed)
    /\ k < n => passed + (k + 1) * AnswerTime >= AnswerBudget(passed)

ASSUME \A n \in 0 .. 4, passed \in 0 .. SlotTime :
         Answered(n, passed) = Loop(n, passed)
=============================================================================
