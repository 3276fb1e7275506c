---------------------------- MODULE MCCallContext ----------------------------
(* Values of the constants of CallContext for TLC. *)
EXTENDS CallContext, TLC

CONSTANTS a1, a2, db1, db2, ann, bob, reader, writer

\* The same user in two databases.
TwoDatabases == (a1 :> db1) @@ (a2 :> db2)
\* Two attachments to a database.
OneDatabase  == (a1 :> db1) @@ (a2 :> db1)
TwoUsers     == (a1 :> ann) @@ (a2 :> bob)
OneUser      == (a1 :> ann) @@ (a2 :> ann)
OneRole      == (a1 :> reader) @@ (a2 :> reader)
TwoRoles     == (a1 :> reader) @@ (a2 :> writer)

NoFaults  == {}
AllFaults == FaultKinds

Symmetry == Permutations(Threads) \cup Permutations(Contexts) \cup Permutations(Cursors)
=============================================================================
