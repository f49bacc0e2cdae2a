CONSTANTS
    Exe = Exe
    Libs = {l1}
    Updater = Updater
    Uninstaller = Uninstaller
    VersionTxt = VersionTxt
    Latest = 2
SPECIFICATION Spec
INVARIANT UpdatedIsNew
INVARIANT WholeUnlessUnfinished
INVARIANT VersionTrueUnlessRolledBack
PROPERTY RollbackRestores
PROPERTY RunsEnd
