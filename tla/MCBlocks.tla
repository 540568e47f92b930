------------------------------ MODULE MCBlocks ------------------------------
(* Two processes share the open file 1; 2 is another file of the first,    *)
(* open for the second, and is written like a swap file.  A block holds    *)
(* two bytes, a file one direct and two indirect blocks.  The image has    *)
(* one more file, 3 bytes long, which may be removed.                      *)
EXTENDS Blocks, TLC

CONSTANTS p1, p2, i1, i2, i3

MCFileIno == <<i1, i2>>

MCImage == <<<<i3, <<1, 2, 1>>>>>>

MCFiles == (p1 :> {1}) @@ (p2 :> {1, 2})

MCWrites == (p1 :> {<<1, 1, 1>>}) @@ (p2 :> {<<2, 2>>})
=============================================================================
