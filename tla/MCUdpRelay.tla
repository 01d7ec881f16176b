----------------------------- MODULE MCUdpRelay -----------------------------
(* The hosts and addresses of the model-checked instances of UdpRelay:     *)
(* two clients and the AFTR.  Each .cfg picks from them.                   *)
EXTENDS UdpRelay

CONSTANTS c1, c2, lanip, wanip, aftr

(* The clients are alike.                                                  *)
ClientSymmetry == Permutations(Clients)
=============================================================================
