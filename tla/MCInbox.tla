------------------------------ MODULE MCInbox ------------------------------
(* Small instances of Inbox for TLC. *)
EXTENDS Inbox, TLC

CONSTANTS r1, r2

\* Upload names carry the time of the upload.
OwnFile == [r \in Request |-> IF r = r1 THEN 1 ELSE 2]

Symmetry == Permutations(Hr) \cup Permutations(Session)
=============================================================================
