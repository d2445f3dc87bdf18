------------------------------- MODULE MCUsbd -------------------------------
(* Small instances of Usbd, over the requests of MCRequests. *)
EXTENDS Usbd, MCRequests
=============================================================================
