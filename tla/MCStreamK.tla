------------------------------ MODULE MCStreamK ------------------------------
(* Small instances of StreamK for TLC; the .cfg files choose the numbers. *)
EXTENDS StreamKInv

\* K chunks of one group and of two groups, as 512 and 1024 columns are in the code.
OneAndTwo == {1, 2}
Two == {2}
=============================================================================
