------------------------------- MODULE MCParts -------------------------------
(***************************************************************************)
(* Small instances for TLC of the parts that share no state in this model:  *)
(* the learning loop, the file memory, device linking, the table of facts,  *)
(* the schema walker, the context fold, the calibrator's fit and the GitHub *)
(* ingest.  Each behaviour moves one of them, so that their states add up   *)
(* instead of multiplying.  The two processes of each part are interchangeable. *)
(***************************************************************************)
EXTENDS Turns, FileIndex, DeviceLink, ProjectFacts, Migration, ContextFold, Calibration,
        GithubIngest, TLC

CONSTANTS p1, p2, x1, x2, q1, block, fact, s1, s2, fileA, fileB, root, sub, bad, k1, ask,
          leak, issue, pull,
          Moving    \* the parts that move

VARIABLE part

Processes == {p1, p2}
OneProcess == {p1}
Symmetry == Permutations(Processes)

Queries == {q1}
Items == {block, fact}
Facts == {fact}
Runs1 == {s1}
Scores == {"moderate"}

OneFile == {fileB}
TwoFiles == {fileA, fileB}
Dirs == {root, sub}
Tree == [x \in {fileB, sub} |-> IF x = sub THEN root ELSE sub]
FlatTree == [x \in {fileA, fileB, sub} |-> root]
Versions == {x1, x2, bad}
BadVersions == {bad}

Sessions == {s1, s2}
Users == {x1, x2}
Keys == {k1}

Contents == {ask, leak}
UserTurns == {ask}
Leaks == {leak}
Estimates == [c \in Contents |-> IF c = ask THEN 1 ELSE 2]

Issues == {issue}
Pulls == {pull}

AllParts == {"turns", "files", "link", "facts", "schema", "fold", "fit", "ingest"}
Files == {"files"}

ASSUME MovingAssumption == Moving \subseteq AllParts

-----------------------------------------------------------------------------

\* A part that does not move starts in one state
PartsInit ==
    /\ part \in Moving
    /\ Init /\ LinkInit /\ FactsInit /\ FoldInit /\ IngestInit
    /\ IndexInit /\ \A f \in File : disk[f] = x1
    /\ SchemaInit /\ (part # "schema" => born = 0)
    /\ FitInit /\ (part # "fit" => points = <<[x |-> 0, y |-> 1], [x |-> 1, y |-> 0]>>)

PartsNext ==
    /\ UNCHANGED part
    /\ \/ /\ part = "turns" /\ Next
          /\ UNCHANGED <<indexVars, linkVars, factVars, schemaVars, foldVars, fitVars, ingestVars>>
       \/ /\ part = "files" /\ IndexNext
          /\ UNCHANGED <<vars, linkVars, factVars, schemaVars, foldVars, fitVars, ingestVars>>
       \/ /\ part = "link" /\ LinkNext
          /\ UNCHANGED <<vars, indexVars, factVars, schemaVars, foldVars, fitVars, ingestVars>>
       \/ /\ part = "facts" /\ FactsNext
          /\ UNCHANGED <<vars, indexVars, linkVars, schemaVars, foldVars, fitVars, ingestVars>>
       \/ /\ part = "schema" /\ SchemaNext
          /\ UNCHANGED <<vars, indexVars, linkVars, factVars, foldVars, fitVars, ingestVars>>
       \/ /\ part = "fold" /\ FoldNext
          /\ UNCHANGED <<vars, indexVars, linkVars, factVars, schemaVars, fitVars, ingestVars>>
       \/ /\ part = "fit" /\ FitNext
          /\ UNCHANGED <<vars, indexVars, linkVars, factVars, schemaVars, foldVars, ingestVars>>
       \/ /\ part = "ingest" /\ IngestNext
          /\ UNCHANGED <<vars, indexVars, linkVars, factVars, schemaVars, foldVars, fitVars>>

PartsSpec ==
    PartsInit /\ [][PartsNext]_<<part, vars, indexVars, linkVars, factVars, schemaVars,
                                 foldVars, fitVars, ingestVars>>

\* The part that moves keeps to its types: among others no refused file is ever
\* indexed.
PartsTypeOK ==
    /\ part \in AllParts
    /\ part = "turns" => TypeOK
    /\ part = "files" => IndexTypeOK
    /\ part = "link" => LinkTypeOK
    /\ part = "facts" => FactsTypeOK
    /\ part = "schema" => SchemaTypeOK
    /\ part = "fold" => FoldTypeOK
    /\ part = "fit" => FitTypeOK
    /\ part = "ingest" => IngestTypeOK

=============================================================================
