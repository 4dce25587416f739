\* Both scripts in any order, stopped anywhere, with any command failing,
\* beside a package manager that knows two versions of the generator.
SPECIFICATION Spec
CONSTANTS
    Versions = {v1, v2}
    PluginFiles = {"v3d", "common"}
INVARIANTS
    OriginalKept
    CompleteRuns
PROPERTY
    PluginNeverSaved
    OriginalSaved
