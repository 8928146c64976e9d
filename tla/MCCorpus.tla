------------------------------ MODULE MCCorpus ------------------------------
(* Instances of Corpus for TLC: what the environment may do, and a         *)
(* two-page, a one-page and an unreadable content.                         *)
EXTENDS Corpus, TLC

CONSTANTS
  a, b, x   \* contents: a has two pages

(* Unquoting leaves most paths as they are.                                *)
MCUnquoted == [p \in Paths |-> p]

MCPageCount == [c \in Contents |-> IF c = a THEN 2 ELSE 1]

Budget(put, delete, external, lost, duplicate, crash, late) ==
  [put |-> put, delete |-> delete, external |-> external, lost |-> lost,
   duplicate |-> duplicate, crash |-> crash, late |-> late]

SerialBudgets   == {Budget(4, 2, 0, 0, 2, 0, 0)}
RaceBudgets     == {Budget(2, 1, 0, 1, 0, 0, 1)}
ConvergeBudgets == {Budget(1, 1, 1, 0, 0, 1, 0), Budget(1, 1, 1, 0, 0, 0, 1)}
OnePutBudgets   == {Budget(1, 0, 0, 0, 0, 0, 0)}
TwoPutsBudgets  == {Budget(2, 0, 0, 0, 0, 0, 0)}
RetryBudgets    == {Budget(0, 0, 1, 0, 0, 1, 0)}

RaceSymmetry == Permutations(Paths) \union Permutations(Clients)
=============================================================================
