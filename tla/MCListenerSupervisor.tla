------------------------ MODULE MCListenerSupervisor ------------------------
(* ListenerSupervisor with three cameras, one of them excluded. *)
EXTENDS ListenerSupervisor

CONSTANTS c1, c2, c3

ThreeCameras == {c1, c2, c3}
OneExcluded == {c3}
=============================================================================
