------------------------ MODULE MCDriverConnection ------------------------
(***************************************************************************)
(* DriverConnection with a few clients and threads, for TLC.               *)
(***************************************************************************)
EXTENDS DriverConnection

=============================================================================
