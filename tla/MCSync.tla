------------------------------- MODULE MCSync -------------------------------
(* Instances of SyncEngine for TLC: the deployments of the run.            *)
EXTENDS SyncEngine

CONSTANTS p1, p2, r1, r2

Full(crawlers, files, often) ==
  [incremental |-> FALSE, prune |-> TRUE, contentVersions |-> FALSE,
   crawlers |-> crawlers, files |-> files,
   changes |-> often, failures |-> 1, crashes |-> 1]
Delta(files, dying) ==
  [incremental |-> TRUE, prune |-> FALSE, contentVersions |-> FALSE,
   crawlers |-> {r1}, files |-> files,
   changes |-> 4, failures |-> 0, crashes |-> dying]

MCDeployments ==
  {Full({r1, r2}, {p1}, 3), Full({r1, r2}, {p1, p2}, 2), Delta({p1, p2}, 2)}
=============================================================================
