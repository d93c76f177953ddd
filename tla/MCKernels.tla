------------------------------ MODULE MCKernels ------------------------------
EXTENDS Kernels
(* The second kernel takes channels only, so its launch passes nothing.    *)
ArgsOfKernels == <<1, 0, 2>>
=============================================================================
