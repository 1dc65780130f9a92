---------------------------- MODULE MCTestKernel ----------------------------
(***************************************************************************)
(* The test kernel on pages of 32 bytes: kernel_main at 0, umode at 16 and *)
(* stvec at 32, RAM being pages 0 and 1.                                   *)
(***************************************************************************)
EXTENDS TestKernel, TLC

NoCsr == "time" :> {}
=============================================================================
