-------------------------- MODULE MCOfflineFlasher --------------------------
(***************************************************************************)
(* The flasher on small targets, with the algorithm files of MCSwdProg and *)
(* lists that hold each kind of self test.                                 *)
(***************************************************************************)
EXTENDS OfflineFlasher, MCSwdProg

OneAsset    == {Complete}
MCTestLists == {<<>>, <<"simple", "external", "simple">>, <<"extend", "simple">>}
NoTests     == {<<>>}
=============================================================================
