------------------------------- MODULE MCBoot -------------------------------
(***************************************************************************)
(* Boot with two descriptors below the fixed ones and pages of 16 bytes:   *)
(* RAM on pages 1 and 2 with room for one page of kernel, the stub's file  *)
(* on page 6 and its signal stack on page 7.                               *)
(***************************************************************************)
EXTENDS Boot, TLC

KernelFile == 0 :> "k0" @@ 1 :> "k1"
NoCsr      == "time" :> {}
=============================================================================
