------------------------- MODULE MCPictureRequests -------------------------
(* Small instances of PictureRequests for TLC. *)
EXTENDS PictureRequests, TLC

Symmetry == Permutations(Users) \union Permutations(Pictures)
            \union Permutations(Packets) \union Permutations(Requests)
=============================================================================
