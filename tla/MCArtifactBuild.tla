--------------------------- MODULE MCArtifactBuild ---------------------------
(* A layer of several tables next to one of a single table: the layer writers
   then meet both a table that is not the last of its layer and one that is.  *)
EXTENDS ArtifactBuild
MCBronze == <<"b1", "b2">>
MCSilver == <<"s1">>
MCGold   == <<"g1", "g2">>
=============================================================================
