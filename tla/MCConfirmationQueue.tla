------------------------ MODULE MCConfirmationQueue -------------------------
(* ConfirmationQueue with two confirmations, three connections, two clicks. *)
EXTENDS ConfirmationQueue

Alike == Permutations(Cards)
=============================================================================
