-------------------------------- MODULE Vault --------------------------------
(***************************************************************************)
(* What keeping tenants, namespaces and workspaces apart promises of       *)
(* writing: everything kept lies in one area, a call arrives with rights   *)
(* to some areas, and a call changes one area at a time, one it has a      *)
(* right to.                                                               *)
(***************************************************************************)
CONSTANTS Areas, Callers

VARIABLES
  kept,        \* area -> what is in it
  mayChange    \* caller -> the areas its call has a right to change

vars == <<kept, mayChange>>

Init == mayChange = [c \in Callers |-> {}]

Arrive(c) ==
  /\ mayChange'[c] \subseteq Areas
  /\ \A d \in Callers \ {c} : mayChange'[d] = mayChange[d]
  /\ kept' = kept

Change(c) ==
  /\ \E a \in mayChange[c] : \A b \in Areas \ {a} : kept'[b] = kept[b]
  /\ mayChange' = mayChange

Next == \E c \in Callers : Arrive(c) \/ Change(c)

Spec == Init /\ [][Next]_vars
=============================================================================
