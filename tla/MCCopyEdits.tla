------------------------------ MODULE MCCopyEdits ------------------------------
(* Two leaves, one kind of trouble; the highest text cannot be saved.          *)
EXTENDS CopyEdits

CONSTANTS a, b
MCLeaves   == {a, b}
MCElements == {{a}, {b}}
MCUnusable == {2}
=============================================================================
