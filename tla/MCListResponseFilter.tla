------------------------ MODULE MCListResponseFilter ------------------------
EXTENDS ListResponseFilter

File   == <<"<C", "ontents">>
Folder == <<"<C", "ommonPrefixes">>
Text   == <<"text">>

\* Up to three entries, with text before, between and after them or not.
MCResponses ==
    LET Bodies == {<< >>, File, Folder, File \o Folder, File \o Text \o File, Folder \o File \o File}
    IN  {a \o b \o c : a \in {<< >>, Text}, b \in Bodies, c \in {<< >>, Text}} \ {<< >>}
=============================================================================
