---------------------------- MODULE MCHostTasks ----------------------------
(* Small instances of HostTasks for TLC. *)
EXTENDS HostTasks, TLC

CONSTANTS t1, t2, c1, c2

\* A task that reads and then writes, and one that only reads.
MCShortSteps == [t \in Tasks |-> IF t = t1 THEN <<"read", "write_file">> ELSE <<"read">>]

\* The conversations differ only in their names (for a run that checks invariants).
ConversationsAlike == Permutations(Conversations)

=============================================================================
