-------------------------- MODULE MCComponentPreview --------------------------
(* Two sessions and two kinds of trouble, with two manifests read at a time.  *)
EXTENDS ComponentPreview
=============================================================================
