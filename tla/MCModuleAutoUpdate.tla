------------------------- MODULE MCModuleAutoUpdate -------------------------
(* Constants of ModuleAutoUpdate for TLC. *)
EXTENDS ModuleAutoUpdate

CONSTANTS base, sale

\* sale depends on base.
Both == {base, sale}
SaleNeedsBase == {<<sale, base>>}

=============================================================================
