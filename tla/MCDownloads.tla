---------------------------- MODULE MCDownloads ----------------------------
EXTENDS Downloads, TLC

\* A directory of two files, and one of its files requested by itself.
TwoFiles == {1, 2}
SmallSizes == [f \in TwoFiles |-> f]
CONSTANTS r1, r2
Directory == r1 :> {1, 2}
DirectoryAndFile == (r1 :> {1, 2}) @@ (r2 :> {2})
=============================================================================
