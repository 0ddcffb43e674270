---------------------------- MODULE MCTableWrite ----------------------------
(***************************************************************************)
(* Instances of TableWrite: the table before a resize and those the table  *)
(* writes of shrinkPartitions, createPartitions and updatePartitions leave.*)
(* createPartitions writes the table also when it has nothing to create.   *)
(***************************************************************************)
EXTENDS TableWrite, TLC

MCTables == {"before", "shrunk", "created", "updated"}
MCRewrites ==
    ("before" :> {"before", "shrunk", "created"}) @@ ("shrunk" :> {"shrunk", "created"}) @@
    ("created" :> {"created", "updated"}) @@ ("updated" :> {"updated"})
=============================================================================
