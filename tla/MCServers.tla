------------------------------- MODULE MCServers -------------------------------
(* One connection; Servers.cfg gives the listen modes, what the vsock device 
   answers and the faults.                                                  *)
EXTENDS Servers

CONSTANT c1

=============================================================================
