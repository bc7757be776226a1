---------------------------- MODULE MCBlockStore ----------------------------
(* Small instances of BlockStore for TLC *)
EXTENDS BlockStore, TLC

CONSTANTS b1, b2, b3, b4, kSolve, kPitfall, kPrimer

\* Two ids compete for one success trigger; the others are a pitfall and a
\* domain primer
OneOfEach == b1 :> kSolve @@ b2 :> kSolve @@ b3 :> kPitfall @@ b4 :> kPrimer
SolveOnly == b1 :> kSolve @@ b2 :> kSolve

Deployed == {"success", "failure", "pattern", "primer", "reverify", "sync",
             "demote", "retire", "erase"}
Quick == Deployed \ {"success", "failure", "primer"}

Interchangeable == Permutations(Client) \cup Permutations(Trace) \cup Permutations(RefId)
=============================================================================
