---------------------------- MODULE MCReadPath -----------------------------
(* Instances of ReadPath for TLC. *)
EXTENDS ReadPath

Everything == [under |-> 1..N, match |-> 1..N, typed |-> 2..N]
OnlyLast == [under |-> 2..N, match |-> {N}, typed |-> {N}]

MCPatterns == {Everything, OnlyLast}
MCContents == {<<1>>, <<0, 2, 1>>}
=============================================================================
