-------------------------------- MODULE MCJbd --------------------------------
EXTENDS Jbd

CONSTANTS NFs, NData   \* numbers of file system blocks and of journal data blocks

\* A disk from mkfs: zero blocks, an empty journal.
MCDisk0 == [b \in 0..(NFs + 1 + NData) |-> IF b = NFs + BMAP_START_BLK THEN <<>> ELSE 0]

\* Calls that write one or two blocks, three, which the commit refuses, and four.
MCCalls == {<<>>, <<1>>, <<1, 0>>, <<1, 0, 2>>, <<1, 0, 2, 3>>}
=============================================================================
