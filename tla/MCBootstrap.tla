---------------------------- MODULE MCBootstrap ----------------------------
(***************************************************************************)
(* Two versions, the older of which the hash check misjudges, because it   *)
(* is the newer one and a few bytes more, and one command that is about a  *)
(* file and one that is not: the other file and the other commands take    *)
(* the same ways.                                                          *)
(***************************************************************************)
EXTENDS Bootstrap

MCVersions == {"v1", "v2"}
MCOdd      == {"v1"}
MCTailed   == {<<"v1", "v2">>}
MCBodies   == [hash : MCVersions \cup {"none"}, url : BOOLEAN]
MCZeros    == [hash |-> "none", url |-> FALSE]
MCSent     == {"META_FW", "SET_STATE"}
=============================================================================
