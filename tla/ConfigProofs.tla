---------------------------- MODULE ConfigProofs ----------------------------
(***************************************************************************)
(* For every set of configurations: CFG_Load and CFG_Save keep the         *)
(* application on the stored configuration and implement AtomicConfig.     *)
(***************************************************************************)
EXTENDS Config, TLAPS

\* The configuration in force is complete wherever CFG_Load would accept it.
InForceWhole ==
    sector[InForce].holder => sector[InForce].cfg \in Configs

\* Everything after a load works on a complete sysCfg.
RamWhole ==
    /\ pc \notin {"off", "load"} => sysCfg.holder /\ sysCfg.cfg \in Configs
    /\ pc = "off" => sysCfg = Blank
    /\ sysCfg.cfg \in Configs => sysCfg.holder

\* What each position in CFG_Save knows of the flag and of the new image.
SaveProgress ==
    /\ flag = Unstable <=> pc \in {"erasingFlag", "writingFlag"}
    /\ pc \in {"eraseSector", "erasingSector", "writeSector", "writingSector"}
          => saveFlag = flag
    /\ pc = "eraseFlag" => Current(saveFlag) = Spare(flag)
    /\ pc = "writeFlag" => flag = Erased
    /\ pc \in {"eraseFlag", "erasingFlag", "writeFlag", "writingFlag"}
          => saveFlag \in {0, 1} /\ sector[Current(saveFlag)] = sysCfg

\* The inductive invariant behind RunsOnStored and AtomicSave.
ConfigInv ==
    TypeOK /\ InForceWhole /\ RamWhole /\ SaveProgress /\ RunsOnStored

LEMMA InitInv == Init => ConfigInv
  BY ConfigAssumption
     DEF Init, ConfigInv, TypeOK, InForceWhole, RamWhole, SaveProgress, RunsOnStored,
         InForce, Switching, Current, Spare, Blank, Image, FlagValue, Erased,
         Unstable, Pc, SavePc, Job

LEMMA StepInv == ConfigInv /\ [Next]_vars => ConfigInv'
<1> SUFFICES ASSUME ConfigInv, [Next]_vars PROVE ConfigInv'
  OBVIOUS
<1> USE ConfigAssumption
    DEF ConfigInv, TypeOK, InForceWhole, RamWhole, SaveProgress, RunsOnStored,
        InForce, Switching, Current, Spare, Blank, Torn, Whole, Image, FlagValue,
        Erased, Unstable, Pc, SavePc, Job, AfterLoad
<1>1. CASE Boot
  BY <1>1 DEF Boot
<1>2. CASE CFG_Load
  <2> DEFINE image == sector[Current(flag)]
  <2>1. image \in Image /\ flag \in FlagValue /\ InForce = Current(flag)
    BY <1>2 DEF CFG_Load
  <2>2. CASE image.holder /\ sysCfg' = image /\ pc' = AfterLoad
    <3>1. image.cfg \in Configs
      BY <2>1, <2>2
    <3>2. UNCHANGED <<sector, flag>> /\ saveFlag' = flag /\ pc = "load"
      BY <1>2 DEF CFG_Load
    <3>3. pc' \in {"edit", "idle"} /\ job' \in Job
      BY <1>2, <2>2 DEF CFG_Load
    <3>4. sysCfg'.holder /\ sysCfg'.cfg \in Configs /\ sysCfg' \in Image
      BY <2>1, <2>2, <3>1
    <3>5. TypeOK' /\ InForceWhole' /\ SaveProgress'
      BY <2>1, <2>2, <3>2, <3>3, <3>4
    <3>6. RamWhole' /\ RunsOnStored'
      BY <2>2, <3>1, <3>2, <3>3, <3>4
    <3> QED
      BY <3>5, <3>6
  <2>3. CASE ~image.holder /\ sysCfg' = Whole(DefaultConfig) /\ pc' = "save"
    BY <1>2, <2>1, <2>3 DEF CFG_Load
  <2> QED
    BY <1>2, <2>2, <2>3 DEF CFG_Load
<1>3. CASE ReadFlag
  BY <1>3 DEF ReadFlag
<1>4. CASE EraseSectorBegin
  BY <1>4 DEF EraseSectorBegin
<1>5. CASE EraseSectorEnd
  BY <1>5 DEF EraseSectorEnd
<1>6. CASE WriteSectorBegin
  BY <1>6 DEF WriteSectorBegin
<1>7. CASE WriteSectorEnd
  BY <1>7 DEF WriteSectorEnd
<1>8. CASE EraseFlagBegin
  BY <1>8 DEF EraseFlagBegin
<1>9. CASE EraseFlagEnd
  BY <1>9 DEF EraseFlagEnd
<1>10. CASE WriteFlagBegin
  BY <1>10 DEF WriteFlagBegin
<1>11. CASE WriteFlagEnd
  BY <1>11 DEF WriteFlagEnd
<1>12. CASE Reset
  BY <1>12 DEF Reset, Settle
<1>13. ASSUME NEW j \in {"get", "set"}, Request(j) PROVE ConfigInv'
  BY <1>13 DEF Request
<1>14. ASSUME NEW c \in Configs, SetData(c) PROVE ConfigInv'
  BY <1>14 DEF SetData
<1>15. CASE UNCHANGED vars
  BY <1>15 DEF vars
<1> QED
  BY <1>1, <1>2, <1>3, <1>4, <1>5, <1>6, <1>7, <1>8, <1>9, <1>10, <1>11, <1>12,
     <1>13, <1>14, <1>15 DEF Next, CFG_Save

\* The application never runs on a torn configuration, and the one it runs on
\* is the one a reset brings back.
THEOREM RunsOnStoredHolds == Spec => [](TypeOK /\ RunsOnStored)
<1>1. ConfigInv => TypeOK /\ RunsOnStored
  BY DEF ConfigInv
<1> QED
  BY <1>1, InitInv, StepInv, PTL DEF Spec

\* For every set of configurations, CFG_Load and CFG_Save keep images, flag and
\* the step of a save within their types, whatever a reset tears.
THEOREM TypeCorrect == Spec => []TypeOK
  BY RunsOnStoredHolds, PTL

\* A step that leaves the configuration in force and its sector alone does not
\* change what is stored.
LEMMA SameStored ==
  ASSUME InForce' = InForce, sector'[InForce] = sector[InForce]
  PROVE  Stored' = Stored
  BY DEF Stored

\* Every step of the flash operations is a step of the atomic store or none.
LEMMA StepRefines ==
  ConfigInv /\ ConfigInv' /\ [Next]_vars => [Atomic!Next]_(Atomic!acVars)
<1> SUFFICES ASSUME ConfigInv, ConfigInv', [Next]_vars
             PROVE  [Atomic!Next]_(Atomic!acVars)
  OBVIOUS
<1> USE ConfigAssumption
    DEF ConfigInv, TypeOK, FlagValue, Erased, Unstable, SaveProgress, Image
<1>1. CASE /\ UNCHANGED sysCfg
           /\ InForce' = InForce
           /\ sector'[InForce] = sector[InForce]
  BY <1>1, SameStored DEF Atomic!acVars
<1>2. CASE Boot \/ UNCHANGED vars \/ ReadFlag \/ EraseFlagEnd \/ WriteFlagBegin
           \/ \E j \in {"get", "set"} : Request(j)
  BY <1>1, <1>2 DEF Boot, vars, ReadFlag, EraseFlagEnd, WriteFlagBegin, Request,
     InForce, Switching, Spare, Current
<1>3. CASE CFG_Load
  <2>1. Stored' = Stored
    BY <1>3 DEF CFG_Load, AfterLoad, Stored, InForce, Switching, Spare, Current
  <2>2. CASE sector[Current(flag)].holder
    <3>1. Stored = sector[Current(flag)].cfg /\ Stored # NoConfig
      BY <1>3, <2>2 DEF CFG_Load, Stored, InForce, Switching, InForceWhole
    <3>2. sysCfg' = sector[Current(flag)]
      BY <1>3, <2>2 DEF CFG_Load
    <3> QED
      BY <2>1, <3>1, <3>2 DEF Atomic!Next, Atomic!Load
  <2>3. CASE ~sector[Current(flag)].holder
    <3>1. Stored = NoConfig
      BY <1>3, <2>3 DEF CFG_Load, Stored, InForce, Switching
    <3>2. sysCfg'.cfg = DefaultConfig
      BY <1>3, <2>3 DEF CFG_Load, Whole
    <3> QED
      BY <2>1, <3>1, <3>2 DEF Atomic!Next, Atomic!Load
  <2> QED
    BY <2>2, <2>3
<1>4. CASE EraseSectorBegin \/ EraseSectorEnd \/ WriteSectorBegin \/ WriteSectorEnd
  BY <1>1, <1>4 DEF EraseSectorBegin, EraseSectorEnd, WriteSectorBegin,
     WriteSectorEnd, InForce, Switching, Spare, Current
<1>5. CASE EraseFlagBegin
  BY <1>1, <1>5 DEF EraseFlagBegin, InForce, Switching, Spare, Current
<1>6. CASE WriteFlagEnd
  <2>1. sector'[InForce'] = sysCfg /\ UNCHANGED sysCfg
    BY <1>6 DEF WriteFlagEnd, AfterLoad, InForce, Switching, Current, Spare
  <2>2. sysCfg.holder /\ sysCfg.cfg \in Configs
    BY <1>6 DEF WriteFlagEnd, RamWhole
  <2>3. Stored' = sysCfg.cfg
    BY <2>1, <2>2 DEF Stored
  <2> QED
    BY <2>1, <2>2, <2>3 DEF Atomic!Next, Atomic!Commit
<1>7. CASE Reset
  <2>1. sysCfg'.cfg = NoConfig
    BY <1>7 DEF Reset, Blank
  <2>2. CASE ~Switching
    <3>1. InForce' = InForce /\ UNCHANGED sector
      BY <1>7, <2>2 DEF Reset, Settle, InForce, Switching
    <3> QED
      BY <2>1, <3>1, SameStored DEF Atomic!Next, Atomic!Reset
  <2>3. CASE Switching
    <3>1. /\ InForce = Spare(saveFlag)
          /\ sector' = sector
          /\ sector[Current(saveFlag)] = sysCfg
          /\ sysCfg.holder /\ sysCfg.cfg \in Configs
      BY <1>7, <2>3 DEF Reset, InForce, Switching, RamWhole
    <3>2. InForce' \in {Spare(saveFlag), Current(saveFlag)}
      BY <1>7, <2>3 DEF Reset, Settle, InForce, Switching, Spare, Current
    <3>3. CASE InForce' = Spare(saveFlag)
      BY <2>1, <3>1, <3>3, SameStored DEF Atomic!Next, Atomic!Reset
    <3>4. CASE InForce' = Current(saveFlag)
      <4>1. Stored' = sysCfg.cfg
        BY <3>1, <3>4 DEF Stored
      <4> QED
        BY <2>1, <3>1, <4>1 DEF Atomic!Next, Atomic!Reset
    <3> QED
      BY <3>2, <3>3, <3>4
  <2> QED
    BY <2>2, <2>3
<1>8. ASSUME NEW c \in Configs, SetData(c) PROVE [Atomic!Next]_(Atomic!acVars)
  <2>1. Stored' = Stored
    BY <1>8, SameStored DEF SetData, InForce, Switching
  <2>2. sysCfg.cfg \in Configs /\ sysCfg'.cfg = c
    BY <1>8 DEF SetData, RamWhole
  <2> QED
    BY <2>1, <2>2 DEF Atomic!Next, Atomic!Edit
<1> QED
  BY <1>2, <1>3, <1>4, <1>5, <1>6, <1>7, <1>8 DEF Next, CFG_Save

LEMMA InitRefines == Init => Atomic!Init
  BY ConfigAssumption DEF Init, Atomic!Init, Stored, InForce, Switching, Current,
     Blank, Erased

\* CFG_Load and CFG_Save implement the atomic store, for every set of
\* configurations and every pattern of resets.
THEOREM AtomicSaveHolds == Spec => AtomicSave
  BY InitInv, StepInv, InitRefines, StepRefines, PTL
     DEF Spec, AtomicSave, Atomic!Spec
=============================================================================
