--------------------------- MODULE MCLazyBindings ---------------------------
(* Two goroutines over four bindings: 1 uses 2 and 3, 2 uses 3, 3 uses 4 and 4
   uses 3 again. *)
EXTENDS LazyBindings

MCUses == {<<1, 2>>, <<1, 3>>, <<2, 3>>, <<3, 4>>, <<4, 3>>}
=============================================================================
