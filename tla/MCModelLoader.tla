---------------------------- MODULE MCModelLoader ----------------------------
(* One schema under two sets of keys, and a hybrid model. *)
EXTENDS ModelLoader

MCCheckpoints == {[schema |-> "dense", keys |-> "first", hybrid |-> FALSE],
                  [schema |-> "dense", keys |-> "second", hybrid |-> FALSE],
                  [schema |-> "conv", keys |-> "hybrid", hybrid |-> TRUE]}
MCDevices == {"gpu", "cpu"}
MCRequests == {[paged |-> TRUE, portable |-> FALSE], [paged |-> TRUE, portable |-> TRUE],
               [paged |-> FALSE, portable |-> FALSE]}
=============================================================================
