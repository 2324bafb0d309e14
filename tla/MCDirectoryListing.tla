------------------------- MODULE MCDirectoryListing -------------------------
EXTENDS DirectoryListing

\* Characters: 1 sorts before the slash, 2 is the slash, 3 and 4 are letters.
MCPrefix == <<3, 2>>
MCToken  == <<4, 3, 2, 4>>
MCKeys   == {MCPrefix \o k : k \in {<< >>, <<3>>, <<3, 1>>, <<3, 2, 3>>, <<3, 2, 4>>, <<4>>}}
=============================================================================
