SPECIFICATION Spec
CONSTANTS
    ractor = ractor
    chrono = chrono
    cron = cron
    notify = notify
    main = main
    Dependency = {ractor, chrono, cron, notify}
    Enabled = {ractor, chrono, cron, notify}
    Strategy <- Bumps
    Published <- Releases
    Original <- Manifest
    Main = main
    LockIgnored = TRUE
    Passes = 2
CHECK_DEADLOCK FALSE
INVARIANT PullRequestsMade
