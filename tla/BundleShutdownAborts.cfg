\* One management call at a time; only an activator's stop() may fail: violated.
CONSTANTS
    core = core
    web = web
    app = app
    Bundles = {core, web, app}
    NoBundle = NoBundle
    Manifests <- MCManifests
    Installed = {core, web, app}
    WithActivator = {core, web, app}
    Lazy = {}
    Protected = {}
    Sealed = {}
    RunLevel <- MCRunLevel
    Main = main
    Admins = {admin}
    Exclusive = TRUE
    Faults = {"stop"}
SPECIFICATION Spec
INVARIANT OthersAreStopped
CHECK_DEADLOCK FALSE
