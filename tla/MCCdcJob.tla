------------------------------ MODULE MCCdcJob ------------------------------
(* CdcJob for TLC; the values of a field are only compared for equality.   *)
EXTENDS CdcJob, TLC

Symmetry == Permutations(Values)
=============================================================================
