------------------------------ MODULE MCLimits ------------------------------
(* Constants for model checking Limits.                                    *)
EXTENDS MCCopyProcess, Limits

=============================================================================
