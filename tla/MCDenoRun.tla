------------------------------ MODULE MCDenoRun ------------------------------
(***************************************************************************)
(* Instances of DenoRun for TLC.                                           *)
(***************************************************************************)
EXTENDS DenoRun

MCAllPrints == {"noise", "stray", "binary"}
MCTextPrints == {"noise", "stray"}
=============================================================================
