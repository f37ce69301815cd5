---------------------------- MODULE AtomicConfig ----------------------------
(***************************************************************************)
(* What config.c promises its callers: one stored configuration that a     *)
(* save replaces as a whole.  A reset loses the RAM copy and either        *)
(* completes or undoes a save it interrupts; it never leaves a mixture.    *)
(***************************************************************************)
CONSTANTS
    Configs,        \* complete configurations (contents of SYSCFG)
    DefaultConfig,  \* the one CFG_Load builds for a virgin device
    NoConfig        \* no complete configuration

VARIABLES
    stored,  \* the configuration a reset would load, NoConfig on a virgin chip
    ram      \* sysCfg, NoConfig while nothing is loaded

acVars == <<stored, ram>>

Init == stored = NoConfig /\ ram = NoConfig

\* sysCfg becomes the stored configuration, or the default if there is none.
Load ==
    /\ ram' = IF stored = NoConfig THEN DefaultConfig ELSE stored
    /\ UNCHANGED stored

\* The HTTP form overwrites fields of a loaded sysCfg.
Edit ==
    /\ ram # NoConfig
    /\ ram' \in Configs
    /\ UNCHANGED stored

\* A save takes effect.
Commit ==
    /\ ram # NoConfig
    /\ stored' = ram
    /\ UNCHANGED ram

\* A reset: the save in progress, if any, has taken effect or has not.
Reset ==
    /\ stored' \in {stored, ram}
    /\ ram = NoConfig => stored' = stored
    /\ ram' = NoConfig

Next == Load \/ Edit \/ Commit \/ Reset

Spec == Init /\ [][Next]_acVars
=============================================================================
