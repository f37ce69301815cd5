------------------------------- MODULE Config -------------------------------
(***************************************************************************)
(* config.c: the configuration kept in two flash sectors, used in turn,    *)
(* and a third sector whose flag says which of the two is current.  The    *)
(* flash is the SDK's (external): an erase or a write takes time, and a    *)
(* reset in the middle leaves the sector in any mixture of old and new.    *)
(* CFG_Save is one action per flash operation, because a reset can come    *)
(* between any two of them; CFG_Load only reads.                           *)
(***************************************************************************)
EXTENDS Naturals

CONSTANTS
    Configs,        \* complete contents of SYSCFG
    DefaultConfig,  \* the contents CFG_Load makes up
    NoConfig        \* contents that are no complete SYSCFG (erased or torn)

ASSUME ConfigAssumption ==
    /\ DefaultConfig \in Configs
    /\ NoConfig \notin Configs

VARIABLES
    sector,    \* sectors CFG_LOCATION + 0 and + 1
    flag,      \* SAVE_FLAG in sector CFG_LOCATION + 3
    sysCfg,    \* the RAM copy
    saveFlag,  \* the RAM copy of the flag
    pc,        \* where the firmware is
    job        \* the call in progress

vars == <<sector, flag, sysCfg, saveFlag, pc, job>>

Erased == 255
Unstable == 256   \* a flag byte whose erase or write is under way
FlagValue == {0, 1, Erased}

\* A SYSCFG image: does its first word equal CFG_HOLDER, and its contents.
Image == [holder : BOOLEAN, cfg : Configs \cup {NoConfig}]
Whole(c) == [holder |-> TRUE, cfg |-> c]
Blank == [holder |-> FALSE, cfg |-> NoConfig]
\* Half erased or half written: the first word may already, or still, match.
Torn(h) == [holder |-> h, cfg |-> NoConfig]

SavePc == {"eraseSector", "erasingSector", "writeSector", "writingSector",
           "eraseFlag", "erasingFlag", "writeFlag", "writingFlag"}
Pc == {"off", "load", "edit", "save", "idle"} \cup SavePc
Job == {"none", "boot", "get", "set", "reply"}

\* The sector the flag selects for reading, and the one a save writes.
Current(f) == IF f = 0 THEN 0 ELSE 1
\* Mutant: a save overwrites the sector in force.
SpareIsCurrent(f) == IF f = 0 THEN 0 ELSE 1
Spare(f) == 1 - Current(f)

Init ==
    /\ sector = [s \in {0, 1} |-> Blank]
    /\ flag = Erased
    /\ sysCfg = Blank
    /\ saveFlag = 0
    /\ pc = "off"
    /\ job = "none"

\* user_init: the device starts and calls CFG_Load.
Boot ==
    /\ pc = "off"
    /\ pc' = "load" /\ job' = "boot"
    /\ UNCHANGED <<sector, flag, sysCfg, saveFlag>>

\* The HTTP server answers GET (HTTPConfig_GetForm) or POST (HTTPConfig_SetData).
Request(j) ==
    /\ pc = "idle"
    /\ j \in {"get", "set"}
    /\ pc' = "load" /\ job' = j
    /\ UNCHANGED <<sector, flag, sysCfg, saveFlag>>

\* What follows the CFG_Load of a job.
AfterLoad == IF job = "set" THEN "edit" ELSE "idle"

\* CFG_Load: read the flag, read the sector it selects; an image without
\* CFG_HOLDER is replaced by the default configuration, which is saved.
CFG_Load ==
    /\ pc = "load"
    /\ saveFlag' = flag
    /\ LET image == sector[Current(flag)] IN
       \/ /\ image.holder
          /\ sysCfg' = image
          /\ pc' = AfterLoad
       \/ /\ ~image.holder
          /\ sysCfg' = Whole(DefaultConfig)
          /\ pc' = "save"
    /\ job' = IF pc' = "idle" THEN "none" ELSE job
    /\ UNCHANGED <<sector, flag>>

\* HTTPConfig_SetData: the form's fields overwrite those of sysCfg.
SetData(c) ==
    /\ pc = "edit"
    /\ sysCfg' = [sysCfg EXCEPT !.cfg = c]
    /\ pc' = "save" /\ job' = "reply"
    /\ UNCHANGED <<sector, flag, saveFlag>>

\* CFG_Save reads the flag again and picks the sector that is not current.
ReadFlag ==
    /\ pc = "save"
    /\ saveFlag' = flag
    /\ pc' = "eraseSector"
    /\ UNCHANGED <<sector, flag, sysCfg, job>>

EraseSectorBegin ==
    /\ pc = "eraseSector"
    /\ \E h \in BOOLEAN : sector' = [sector EXCEPT ![Spare(saveFlag)] = Torn(h)]
    /\ pc' = "erasingSector"
    /\ UNCHANGED <<flag, sysCfg, saveFlag, job>>

EraseSectorEnd ==
    /\ pc = "erasingSector"
    /\ sector' = [sector EXCEPT ![Spare(saveFlag)] = Blank]
    /\ pc' = "writeSector"
    /\ UNCHANGED <<flag, sysCfg, saveFlag, job>>

WriteSectorBegin ==
    /\ pc = "writeSector"
    /\ \E h \in BOOLEAN : sector' = [sector EXCEPT ![Spare(saveFlag)] = Torn(h)]
    /\ pc' = "writingSector"
    /\ UNCHANGED <<flag, sysCfg, saveFlag, job>>

\* Mutant: the flag is counted up instead of switched.
WriteSectorEndCount ==
    /\ pc = "writingSector"
    /\ sector' = [sector EXCEPT ![Spare(saveFlag)] = sysCfg]
    /\ saveFlag' = saveFlag + 1
    /\ pc' = "eraseFlag"
    /\ UNCHANGED <<flag, sysCfg, job>>

\* Mutant: the flag is not switched after the write.
WriteSectorEndNoSwitch ==
    /\ pc = "writingSector"
    /\ sector' = [sector EXCEPT ![Spare(saveFlag)] = sysCfg]
    /\ pc' = "eraseFlag"
    /\ UNCHANGED <<flag, sysCfg, saveFlag, job>>

\* The image is complete; saveFlag.flag is switched in RAM.
WriteSectorEnd ==
    /\ pc = "writingSector"
    /\ sector' = [sector EXCEPT ![Spare(saveFlag)] = sysCfg]
    /\ saveFlag' = IF saveFlag = 0 THEN 1 ELSE 0
    /\ pc' = "eraseFlag"
    /\ UNCHANGED <<flag, sysCfg, job>>

EraseFlagBegin ==
    /\ pc = "eraseFlag"
    /\ flag' = Unstable
    /\ pc' = "erasingFlag"
    /\ UNCHANGED <<sector, sysCfg, saveFlag, job>>

EraseFlagEnd ==
    /\ pc = "erasingFlag"
    /\ flag' = Erased
    /\ pc' = "writeFlag"
    /\ UNCHANGED <<sector, sysCfg, saveFlag, job>>

WriteFlagBegin ==
    /\ pc = "writeFlag"
    /\ flag' = Unstable
    /\ pc' = "writingFlag"
    /\ UNCHANGED <<sector, sysCfg, saveFlag, job>>

\* CFG_Save returns: to CFG_Load's caller when it stored the default, or to
\* the POST handler, which answers with HTTPConfig_GetForm.
WriteFlagEnd ==
    /\ pc = "writingFlag"
    /\ flag' = saveFlag
    /\ pc' = IF job = "reply" THEN "load" ELSE AfterLoad
    /\ job' = IF job = "reply" THEN "get"
              ELSE IF job = "set" THEN "set" ELSE "none"
    /\ UNCHANGED <<sector, sysCfg, saveFlag>>

\* A flag whose erase or write is interrupted keeps some byte value.
Settle(f) == IF f = Unstable THEN FlagValue ELSE {f}

\* Power loss, watchdog or system_restart at any point.
Reset ==
    /\ pc # "off"
    /\ flag' \in Settle(flag)
    /\ sysCfg' = Blank
    /\ saveFlag' = 0
    /\ pc' = "off" /\ job' = "none"
    /\ UNCHANGED sector

CFG_Save ==
    \/ ReadFlag
    \/ EraseSectorBegin \/ EraseSectorEnd \/ WriteSectorBegin \/ WriteSectorEnd
    \/ EraseFlagBegin \/ EraseFlagEnd \/ WriteFlagBegin \/ WriteFlagEnd

Next ==
    \/ Boot \/ CFG_Load \/ CFG_Save \/ Reset
    \/ \E j \in {"get", "set"} : Request(j)
    \/ \E c \in Configs : SetData(c)

Spec == Init /\ [][Next]_vars

-----------------------------------------------------------------------------
TypeOK ==
    /\ sector \in [{0, 1} -> Image]
    /\ flag \in FlagValue \cup {Unstable}
    /\ sysCfg \in Image
    /\ saveFlag \in FlagValue
    /\ pc \in Pc
    /\ job \in Job

\* The sector that holds the configuration in force: the one the flag
\* selects, or the old one while CFG_Save is switching the flag.
Switching == pc \in {"erasingFlag", "writeFlag", "writingFlag"}
InForce == IF Switching THEN Spare(saveFlag) ELSE Current(flag)
Stored ==
    IF sector[InForce].holder THEN sector[InForce].cfg ELSE NoConfig

\* A configuration the application runs on is complete and is the one a reset
\* would bring back, whatever resets interrupted earlier saves: sysCfg is
\* never a torn image whose first word happens to match CFG_HOLDER.
RunsOnStored ==
    pc = "idle" => /\ sysCfg.cfg \in Configs
                   /\ sysCfg = sector[Current(flag)]

\* CFG_Save and CFG_Load implement an atomic store: every reset leaves the old
\* or the new configuration, and only WriteFlagEnd or a reset changes it.
Atomic == INSTANCE AtomicConfig WITH stored <- Stored, ram <- sysCfg.cfg
AtomicSave == Atomic!Spec
=============================================================================
