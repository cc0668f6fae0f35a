---------------------------- MODULE MCLeaveLedger ----------------------------
(* Small instances of LeaveLedger for TLC. *)
EXTENDS LeaveLedger, TLC

\* Three days: months of one day, or a single month.
ThreeDays == 0..2

\* Paid leave of two days, and of the day after them: both may stand at once.
TwoThenOne ==
    {[paid |-> TRUE, first |-> 0, last |-> 1], [paid |-> TRUE, first |-> 2, last |-> 2]}

\* Bounds of that run: a second leave or a second employment, not both.
Asked == {l \in Leave : leave[l].status # "none" \/ \E s \in Session : tx[s].leave = l}
OneOfTwo == Cardinality(Known) = 1 \/ Cardinality(Asked) <= 1

\* Two paid leaves of one day.
SingleDays ==
    {[paid |-> TRUE, first |-> 0, last |-> 0], [paid |-> TRUE, first |-> 1, last |-> 1]}

Symmetry ==
    Permutations(Session) \cup Permutations(Employment) \cup Permutations(Leave)

=============================================================================
