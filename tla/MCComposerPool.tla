--------------------------- MODULE MCComposerPool ---------------------------
(***************************************************************************)
(* Three goroutines over a pool of two Composers: the smallest instance in *)
(* which a goroutine can lose the race for the last Composer.              *)
(***************************************************************************)
EXTENDS ComposerPool

CONSTANTS g1, g2, g3, none

Goroutines == {g1, g2, g3}

=============================================================================
