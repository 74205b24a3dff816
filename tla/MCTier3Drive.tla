------------------------------ MODULE MCTier3Drive -----------------------------
(***************************************************************************)
(* Instances of Tier3Drive for TLC.                                        *)
(***************************************************************************)
EXTENDS Tier3Drive

\* A goto with a final heading, a whole path, and a path that ends at a horizon;
\* refreshes turn the last two into each other.
GotoAndPaths == {[path |-> FALSE, heading |-> TRUE, last |-> TRUE],
                 [path |-> TRUE, heading |-> TRUE, last |-> TRUE],
                 [path |-> TRUE, heading |-> FALSE, last |-> FALSE]}

===============================================================================
