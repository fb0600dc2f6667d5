----------------------------- MODULE MCDataStore ----------------------------
\* Identifiers of which two agree in their component, and one has none.
EXTENDS DataStore
CONSTANTS s1, s2, v1, v2, v3
MCIdentifiers == {<<"a", "-">>, <<"a", ".">>, <<>>}
MCAlphanumeric == {"a", "p"}
MCProfile == <<"p">>
=============================================================================
