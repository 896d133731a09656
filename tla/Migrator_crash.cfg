\* A first start that stops before it recorded the version.
SPECIFICATION MigratorSpec
CONSTANTS
    AllFiles <- MCFiles
    Releases = {23, 24, 30}
    Repeatable <- MCRepeatable
    Minimum <- V22
INVARIANTS RejectedOnlyIfLegacy
