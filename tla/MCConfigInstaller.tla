------------------------- MODULE MCConfigInstaller -------------------------
(* Instances of ConfigInstaller for TLC.                                   *)
EXTENDS ConfigInstaller, TLC
CONSTANTS panel, cli, v1, v2, t1, t2, q

TwoPackages == (panel :> v1) @@ (cli :> v2)
=============================================================================
