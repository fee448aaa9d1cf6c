------------------------ MODULE MCPartitionRetention ------------------------
(***************************************************************************)
(* Instances of PartitionRetention for TLC.                                *)
(***************************************************************************)
EXTENDS PartitionRetention, TLC

Plain == [partitioned |-> FALSE, parts |-> {}]

\* Maintained until yesterday.
Current == [partitioned |-> TRUE, parts |-> 0..(FirstDay - 1 + DaysAhead)]

\* init_db.sql with its placeholder dates, long past.
Placeholder == [partitioned |-> TRUE, parts |-> {0}]

OnlyPlain == {Plain}
OnlyCurrent == {Current}
AllLayouts == {Plain, Current, Placeholder}

Symmetry == Permutations(Scheduler)
=============================================================================
