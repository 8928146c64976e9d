----------------------------- MODULE FirstWins ------------------------------
(***************************************************************************)
(* What the extraction pipeline promises, whatever engine runs it: a task  *)
(* (a document under some settings) is decided once, by the first rung of  *)
(* its ladder that does not pass it on, and by nothing else.               *)
(***************************************************************************)
EXTENDS Naturals, Sequences

CONSTANTS
  Jobs,
  Batches,       \* the functions from jobs to tasks
  Ladder(_),     \* the rungs a task is offered to
  Wins(_, _),    \* does the rung have a good enough result?
  Fails(_, _)    \* does the rung raise?

VARIABLES
  task,      \* job -> its task
  outcome    \* job -> what was decided about it

Undecided == [verdict |-> "undecided", rung |-> "none"]
NoOutcome == [verdict |-> "none", rung |-> "none"]
Won(r) == [verdict |-> "won", rung |-> r]
Raised(r) == [verdict |-> "raised", rung |-> r]

Stops(r, t) == Wins(r, t) \/ Fails(r, t)

PassedOn(t, n) == \A k \in 1..n : ~Stops(Ladder(t)[k], t)

(* Rung i of the ladder is the first that does not pass the task on.       *)
FirstToStop(t, i) ==
  i \in 1..Len(Ladder(t)) /\ PassedOn(t, i - 1) /\ Stops(Ladder(t)[i], t)

Verdict(t, o) ==
  \/ \E i \in 1..Len(Ladder(t)) :
       /\ FirstToStop(t, i)
       /\ \/ Wins(Ladder(t)[i], t) /\ o = Won(Ladder(t)[i])
          \/ Fails(Ladder(t)[i], t) /\ o = Raised(Ladder(t)[i])
  \/ PassedOn(t, Len(Ladder(t))) /\ o = NoOutcome

Init ==
  /\ task \in Batches
  /\ outcome = [j \in Jobs |-> Undecided]

Decide(j) ==
  /\ outcome[j] = Undecided
  /\ Verdict(task[j], outcome'[j])
  /\ outcome' = [outcome EXCEPT ![j] = outcome'[j]]
  /\ UNCHANGED task

Next == \E j \in Jobs : Decide(j)

Spec == Init /\ [][Next]_<<task, outcome>>
=============================================================================
