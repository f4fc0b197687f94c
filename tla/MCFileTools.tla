----------------------------- MODULE MCFileTools -----------------------------
(***************************************************************************)
(* Two calls of commands of two processes, a source file and the manifest, *)
(* two contents.                                                           *)
(***************************************************************************)
EXTENDS FileTools, TLC

CONSTANTS src, pkg

MCClassOf == (src :> "source") @@ (pkg :> "manifest")
=============================================================================
