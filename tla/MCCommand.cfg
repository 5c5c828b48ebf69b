\* Every command on every form of the identity files, two passphrases of which
\* one is long, up to five prompts and two signals; layers of settings with up
\* to three set; mapping files of two lines and two flags;
\* `unlock --for` with every duration of 8 bits and a second of 7.
CONSTANTS
    p = p
    q = q
    v = v
    w = w
    n1 = n1
    n2 = n2
    VarOrder <- MCVarOrder
    Pass = {p, q}
    Long = {q}
    MaxPrompts = 5
    MaxSignals = 2
    Half = 128
    OneSecond = 7
    Commands <- MCCommands
SPECIFICATION Spec
INVARIANTS
    EchoRestored
    SettingsFromTopLayer
    SetsWhatWasConfirmed
    ZeroedAfterUse
    ExecEnvironment
    LimitIsAskedFor
PROPERTIES
    TypedInSilence
    SignalEndsPrompt
CHECK_DEADLOCK FALSE
