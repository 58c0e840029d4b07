\* One management call at a time, anything may fail in it: every manifest of
\* MCManifests, all three bundles installed, web lazy, core sealed.
CONSTANTS
    core = core
    web = web
    app = app
    Bundles = {core, web, app}
    NoBundle = NoBundle
    Manifests <- MCManifests
    Installed = {core, web, app}
    WithActivator = {core, web, app}
    Lazy = {web}
    Protected = {}
    Sealed = {core}
    RunLevel <- MCRunLevel
    Main = main
    Admins = {admin}
    Exclusive = TRUE
    Faults = {"install", "library", "class", "start", "stop", "remove"}
SPECIFICATION Spec
INVARIANT TypeOK
INVARIANT ResolvingIsOnStack
INVARIANT CleanShutdown
INVARIANT RunningIsManaged
INVARIANT SortTerminates
PROPERTY ChartSpec
PROPERTY StartsAfterDependencies
PROPERTY StopsBeforeDependencies
\* The system stops when the shutdown has ended, or hangs in it.
CHECK_DEADLOCK FALSE
