--------------------------- MODULE MCServiceCheck ---------------------------
(* No contract; one whose only operation has no input.                   *)
EXTENDS ServiceCheck

MCContracts == {<<>>, <<"document", "bare">>}

=============================================================================
