----------------------------- MODULE MCSwdProg -----------------------------
(***************************************************************************)
(* The algorithm files of the checked instances: a complete one, one that  *)
(* lacks each function in turn, one without SelfTestInfo, one whose flash  *)
(* is not a whole number of sectors, and a file that would not load.       *)
(***************************************************************************)
EXTENDS SwdProg

Complete == [loaded |-> TRUE, syms |-> Symbols, ram_ok |-> TRUE, aligned |-> TRUE]

MCAssets ==
  {Complete, [Complete EXCEPT !.ram_ok = FALSE], [Complete EXCEPT !.aligned = FALSE],
   [Complete EXCEPT !.loaded = FALSE, !.syms = {}]}
  \cup {[Complete EXCEPT !.syms = Symbols \ {s}] : s \in Symbols}
=============================================================================
