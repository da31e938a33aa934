--------------------------- MODULE MCWeensyKernel ---------------------------
(* Instances of WeensyKernel for TLC. *)
EXTENDS WeensyKernel

ShortOrLong == {<<1>>, <<1, 2, 3, 4>>}

=============================================================================
