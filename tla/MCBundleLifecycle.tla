-------------------------- MODULE MCBundleLifecycle --------------------------
(***************************************************************************)
(* BundleLifecycle on three bundles whose manifests make every kind of     *)
(* dependency graph the loader treats differently.                         *)
(***************************************************************************)
EXTENDS BundleLifecycle

CONSTANTS core, web, app

\* The manifests where bundle x requires the bundles req[x], for x in the
\* domain of req, and app extends x.
Manifested(req, x) ==
    [requires |-> [y \in Bundles |-> IF y \in DOMAIN req THEN req[y] ELSE <<>>],
     extends |-> [y \in Bundles |-> IF y = app THEN x ELSE NoBundle]]

OnlyWeb(req) == [x \in {web} |-> req]
WebAndApp(webReq, appReq) == [x \in {web, app} |-> IF x = web THEN webReq ELSE appReq]

MCManifests ==
    { Manifested(WebAndApp(<<core>>, <<web, core>>), NoBundle),   \* a chain
      Manifested(WebAndApp(<<core>>, <<core, core>>), NoBundle),  \* named twice
      Manifested(WebAndApp(<<core, app>>, <<web>>), NoBundle),    \* a circle
      Manifested(OnlyWeb(<<core>>), web),          \* an extension
      Manifested(OnlyWeb(<<core>>), core),         \* of a bundle others require
      Manifested(OnlyWeb(<<app>>), web),           \* required by what it extends
      Manifested(WebAndApp(<<core>>, <<web>>), web) }  \* requires what it extends

\* For the concurrent runs: web requires core and extends it.
MCTwoManifests ==
    { [requires |-> [y \in Bundles |-> IF y = web THEN <<core>> ELSE <<>>],
       extends |-> [y \in Bundles |-> IF y = web THEN core ELSE NoBundle]] }

MCRunLevel == [x \in Bundles |-> IF x = app THEN 0 ELSE 1]
=============================================================================
