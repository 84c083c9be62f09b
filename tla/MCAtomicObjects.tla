-------------------------- MODULE MCAtomicObjects --------------------------
\* Small instances of the registers and the snapshot objects for TLC.
EXTENDS AtomicObjects

\* The writer and both readers read once, or one reader twice and the other once.
MCReads == {<<1, 1, 1>>, <<0, 2, 1>>}

\* Both threads of the register everybody writes write and then read.
MCActions == << <<"write", "read">>, <<"write", "read">> >>

\* Part 0 moves twice during a scan, part 1 once.
MCUpdates == [p \in 0 .. 1 |-> IF p = 0 THEN 2 ELSE 1]
=============================================================================
