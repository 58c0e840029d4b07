\* The main thread and one administrator at the same time, on a bundle and one
\* that requires and extends it; the second is loaded while they work.
CONSTANTS
    core = core
    web = web
    app = app
    Bundles = {core, web}
    NoBundle = NoBundle
    Manifests <- MCTwoManifests
    Installed = {core}
    WithActivator = {core, web}
    Lazy = {}
    Protected = {}
    Sealed = {}
    RunLevel <- MCRunLevel
    Main = main
    Admins = {p}
    Exclusive = FALSE
    Faults = {"start"}
SPECIFICATION FairSpec
INVARIANT OneThreadInLoader
PROPERTY CallsComplete
CHECK_DEADLOCK FALSE
