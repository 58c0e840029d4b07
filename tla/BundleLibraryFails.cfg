\* One management call at a time; only loading a library may fail.
CONSTANTS
    core = core
    web = web
    app = app
    Bundles = {core, web, app}
    NoBundle = NoBundle
    Manifests <- MCManifests
    Installed = {core, web, app}
    WithActivator = {core, web, app}
    Lazy = {}
    Protected = {}
    Sealed = {}
    RunLevel <- MCRunLevel
    Main = main
    Admins = {admin}
    Exclusive = TRUE
    Faults = {"library"}
SPECIFICATION Spec
INVARIANT ActiveIsActivated
CHECK_DEADLOCK FALSE
