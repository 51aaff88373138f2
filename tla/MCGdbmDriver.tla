---------------------------- MODULE MCGdbmDriver ----------------------------
(* Two keys and the commands on them; no file, an empty one, or one key.   *)
(* The library may fail for one store and for the test, so that the other  *)
(* commands show what is refused without that.  The processes are alike.   *)
EXTENDS GdbmDriver, TLC

CONSTANTS k1, k2, v1, v2

Put(key, value) == [op |-> "store", key |-> key, value |-> value]
On(op, key) == [op |-> op, key |-> key]
Plain(op) == [op |-> op]

MCCommands ==
    {Put(k1, v1), Put(k2, v2), On("fetch", k1), On("delete", k1), On("exists", k2),
     Plain("list"), Plain("reorganize"), Plain("unknown")}

MCFailing == {Put(k2, v2), On("exists", k2)}

MCStores == {NULL, <<>>, [k \in {k1} |-> v2]}

Alike == Permutations(Procs)
=============================================================================
