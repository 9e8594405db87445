---- MODULE MCBTree ----
EXTENDS BTree

MCSymmetry == Permutations(Handles)

\* Keys of two characters, of which two share the first: nodes that hold only
\* these skip it in their comparisons.
MCKeys == {<<1, 1>>, <<1, 2>>, <<2, 1>>}
\* Trees of one, two, two and three levels.  Of Five, two deletions can leave
\* 11 11 21 with a prefix of one character; those of two keys empty FiveOfTwo.
Three == << <<1, 2>>, <<1, 1>>, <<1, 2>> >>
Five == Three \o << <<1, 1>>, <<2, 1>> >>
FiveOfTwo == Three \o << <<1, 2>>, <<1, 1>> >>
Thirteen == Five \o << <<1, 2>>, <<1, 2>>, <<1, 2>>, <<1, 2>>, <<1, 2>>,
                       <<1, 1>>, <<2, 1>>, <<1, 1>> >>
\* More scans on the small trees, where their handles meet in one leaf.
MCStarts == {[file |-> <<>>, scans |-> 2, writes |-> 2],
             [file |-> Three, scans |-> 3, writes |-> 1],
             [file |-> Five, scans |-> 2, writes |-> 1],
             [file |-> Five, scans |-> 0, writes |-> 2],
             [file |-> FiveOfTwo, scans |-> 1, writes |-> 2],
             [file |-> Thirteen, scans |-> 1, writes |-> 1],
             [file |-> Thirteen, scans |-> 0, writes |-> 2]}

\* A key more, for the leaves of two letters that are merged.
MCPairs == MCKeys \cup {<<2, 2>>}
MCPairsStarts == {[file |-> << <<1, 1>>, <<1, 2>>, <<1, 2>>, <<2, 1>>, <<2, 2>> >>,
                   scans |-> 1, writes |-> 2]}

MCStrides == {1, -1}
====
