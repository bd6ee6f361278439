--------------------------- MODULE MCContentStore ---------------------------
(* ContentStore for TLC: chunks of two bytes; a file of exactly one chunk  *)
(* and one that ends inside its second.                                    *)
EXTENDS ContentStore

MCContent == {<<1, 2>>, <<1, 2, 3>>}
=============================================================================
