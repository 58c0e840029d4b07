-------------------------- MODULE MCBundleRepository --------------------------
(* BundleRepository for TLC: two bundles in two versions each. *)
EXTENDS BundleRepository

CONSTANTS a, b

\* The filter does not accept the higher version of b.
MCRejected == {<<b, 2>>}
=============================================================================
