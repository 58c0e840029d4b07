\* An administrator stops a bundle while the main thread is starting it; nothing fails.
CONSTANTS
    core = core
    web = web
    app = app
    Bundles = {core}
    NoBundle = NoBundle
    Manifests <- MCTwoManifests
    Installed = {core}
    WithActivator = {core}
    Lazy = {}
    Protected = {}
    Sealed = {}
    RunLevel <- MCRunLevel
    Main = main
    Admins = {admin}
    Exclusive = FALSE
    Faults = {}
SPECIFICATION Spec
INVARIANT ActiveIsActivated
CHECK_DEADLOCK FALSE
