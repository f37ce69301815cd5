SPECIFICATION Spec
CONSTANTS
    Configs = {dflt, cfgA, cfgB}
    DefaultConfig = dflt
    NoConfig = none
INVARIANTS
    TypeOK
    RunsOnStored
PROPERTY
    AtomicSave
