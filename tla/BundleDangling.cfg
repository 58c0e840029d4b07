\* One management call at a time; only the removal of a bundle's file may fail:
\* violated.
CONSTANTS
    core = core
    web = web
    app = app
    Bundles = {core, web, app}
    NoBundle = NoBundle
    Manifests <- MCManifests
    Installed = {core, web, app}
    WithActivator = {core, web, app}
    Lazy = {}
    Protected = {}
    Sealed = {}
    RunLevel <- MCRunLevel
    Main = main
    Admins = {admin}
    Exclusive = TRUE
    Faults = {"remove"}
SPECIFICATION Spec
INVARIANT NoDanglingActivator
CHECK_DEADLOCK FALSE
