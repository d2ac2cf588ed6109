---------------------------- MODULE MCManifests ----------------------------
(* The files that operations add in the model. *)
EXTENDS Manifests

F(content, rows, part) == [content |-> content, rows |-> rows, part |-> part]
MCDataSets == {<<>>, <<F("Data", 2, 5)>>,
               <<F("Data", 1, 1), F("Data", 1, None), F("Data", 1, 7)>>}
MCGroupSets == {<<<<F("Data", 2, 5)>>, <<F("EqualityDeletes", 1, 5), F("Data", 1, None)>>>>}
MCDeleteSets == {<<>>, <<F("EqualityDeletes", 1, 5)>>}
=============================================================================
