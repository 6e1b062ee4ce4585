--------------------------- MODULE MCBlockCursor ----------------------------
(* Instances of BlockCursor for TLC. *)
EXTENDS BlockCursor

\* Windows of two blocks, and a chain of two full windows.
SmallSpan  == 2
SmallChain == 2 * SmallSpan

=============================================================================
