--------------------------- MODULE MCRelyingParty ---------------------------
(* Three trusted cosigners, of which "f" is faulty; the relying party has   *)
(* two keys for one of them, as after a change of keys.                     *)
EXTENDS RelyingParty

A == [id |-> 1, key |-> "a"]
B == [id |-> 2, key |-> "b"]
F == [id |-> 3, key |-> "f"]
Z == [id |-> 1, key |-> "z"]

MCKeys == {A, B, F, Z}
MCFaultyKeys == {F}
MCTrusted == <<B, A, F, Z>>
MCKeyLists == {<<F, F>>, <<B, A>>, <<Z, B>>}
MCPolicies == {NoPolicy, [n |-> 2, trusted |-> {1, 2, 3}]}
MCLogNumbers == {1, 2}
MCMaxSize == <<3, 2>>
MCMaxLandmarks == <<3, 2>>
MCRanges == {<<1, 4>>}

Content(extensions, tbs) == [extensions |-> extensions, tbs |-> tbs]
TBS == [cn |-> "a"]
MCContents == {Content(NoExtensions, TBS), Content("e", TBS)}

=============================================================================
