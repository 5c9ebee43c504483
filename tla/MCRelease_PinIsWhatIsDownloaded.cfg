SPECIFICATION Spec
CONSTANTS
    rust = rust
    go = go
    rust0 = rust0
    rust1 = rust1
    rust2 = rust2
    go0 = go0
    go1 = go1
    Plugin = {rust, go}
    Tag = {rust0, rust1, rust2, go0, go1}
    PluginOf <- PluginOfTags
    Listed = {rust, go}
    First <- FirstTags
    None = None
    MaxRuns = 2
    MaxOthers = 0
INVARIANTS PinIsWhatIsDownloaded
CHECK_DEADLOCK FALSE
