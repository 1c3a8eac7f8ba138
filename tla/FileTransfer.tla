---------------------------- MODULE FileTransfer ----------------------------
(***************************************************************************)
(* What the USB file transfer promises its host: a file is announced, and  *)
(* either it is vouched for, whole and as announced, or it is dropped.     *)
(* Only an announcement, a deletion or a format ends what a file was       *)
(* vouched for.                                                            *)
(***************************************************************************)
CONSTANTS Paths, Contents

VARIABLES
  store,    \* the files vouched for: pairs of path and contents
  incoming  \* the file being received, <<>> if none is

vars == <<store, incoming>>

Init == store = {} /\ incoming = <<>>

\* What the store holds besides file p.
Besides(s, p) == {f \in s : f[1] # p}

Announce(p, c) ==
  /\ incoming = <<>> /\ incoming' = <<p, c>>
  /\ store' = Besides(store, p)

Commit == incoming # <<>> /\ incoming' = <<>> /\ store' = store \cup {incoming}

Drop == incoming # <<>> /\ incoming' = <<>> /\ UNCHANGED store

Delete(p) == incoming = <<>> /\ store' = Besides(store, p) /\ UNCHANGED incoming

Format == incoming = <<>> /\ store' = {} /\ UNCHANGED incoming

Next ==
  \/ \E p \in Paths : Delete(p) \/ \E c \in Contents : Announce(p, c)
  \/ Commit \/ Drop \/ Format

Spec == Init /\ [][Next]_vars
=============================================================================
