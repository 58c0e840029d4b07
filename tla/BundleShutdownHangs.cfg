\* One management call at a time; nothing fails.
CONSTANTS
    core = core
    web = web
    app = app
    Bundles = {core, web, app}
    NoBundle = NoBundle
    Manifests <- MCManifests
    Installed = {core, web, app}
    WithActivator = {core, web, app}
    Lazy = {}
    Protected = {}
    Sealed = {}
    RunLevel <- MCRunLevel
    Main = main
    Admins = {admin}
    Exclusive = TRUE
    Faults = {}
SPECIFICATION FairSpec
PROPERTY ShutdownCompletes
CHECK_DEADLOCK FALSE
