--------------------------- MODULE LastConfigProofs ---------------------------
(***************************************************************************)
(* How far the promises LastConfig leaves unresolved go, for any number of *)
(* callers and any bounds.                                                 *)
(***************************************************************************)
EXTENDS LastConfig, TLAPS

CallersTyped == caller \in [Callers -> {"idle", "sent", "held", "ok", "error"}]

\* What the state of the query says of the query: it is Active while an answer
\* is due and after an error of LastBlock, and otherwise no promise is held.
Track ==
    /\ CallersTyped
    /\ get_config_state_ \in {"Empty", "Active", "Done"}
    /\ ask # "none" => get_config_state_ = "Active"
    /\ get_config_state_ = "Active" /\ ask = "none" => blockFailed
    /\ get_config_state_ # "Active" => promises_ = {}

LEMMA TrackInit == Init => Track
BY DEF Init, Track, promises_, In, CallersTyped

\* Resolving leaves no promise held.
LEMMA NothingHeld ==
    ASSUME NEW outcome \in {"ok", "error"}, Resolve(outcome)
    PROVE  promises_' = {} /\ (CallersTyped => CallersTyped')
BY DEF Resolve, promises_, In, CallersTyped

LEMMA TrackStep == Track /\ [Next]_vars => Track'
<1> SUFFICES ASSUME Track, [Next]_vars PROVE Track'
  OBVIOUS
<1>1. ASSUME NEW c \in Callers, EstimateFees(c) PROVE Track'
  <2>1. promises_' \subseteq promises_ /\ CallersTyped'
    BY <1>1 DEF EstimateFees, promises_, In, Track, CallersTyped
  <2> QED BY <1>1, <2>1 DEF EstimateFees, Track
<1>2. ASSUME NEW c \in Callers, GetLastConfig(c) PROVE Track'
  <2>0. CallersTyped'
    BY <1>2 DEF GetLastConfig, Track, CallersTyped
  <2>1. CASE get_config_state_ = "Active"
    BY <1>2, <2>0, <2>1 DEF GetLastConfig, Track
  <2>2. CASE get_config_state_ # "Active"
    <3>1. promises_ = {}
      BY <2>2 DEF Track
    <3>2. get_config_state_' = "Active" /\ ask' = "block"
      BY <1>2, <2>2, <3>1 DEF GetLastConfig, Track
    <3> QED BY <1>2, <2>0, <3>2 DEF GetLastConfig, Track
  <2> QED BY <2>1, <2>2
<1>3. CASE OnLastBlock
  BY <1>3 DEF OnLastBlock, Track, promises_, In, CallersTyped
<1>4. CASE OnLastBlockError
  BY <1>4, NothingHeld DEF OnLastBlockError, Track
<1>5. CASE OnConfig
  BY <1>5, NothingHeld DEF OnConfig, Track
<1>6. CASE OnConfigError
  BY <1>6, NothingHeld DEF OnConfigError, Track
<1>7. CASE SetConfig
  BY <1>7 DEF SetConfig, Track, promises_, In, CallersTyped
<1>8. CASE UNCHANGED vars
  BY <1>8 DEF vars, Track, promises_, In, CallersTyped
<1> QED BY <1>1, <1>2, <1>3, <1>4, <1>5, <1>6, <1>7, <1>8 DEF Next

\* A fee estimate that waits with nothing under way waits because LastBlock
\* answered with an error: no other course of the code loses a promise.
THEOREM StuckForCauseHolds == Spec => []StuckForCause
<1>1. Track => StuckForCause
  BY DEF Track, StuckForCause
<1> QED BY <1>1, TrackInit, TrackStep, PTL DEF Spec

\* An error of LastBlock leaves the actor deaf, and a deaf actor answers nobody,
\* neither those who wait nor those who come later, until a configuration
\* replaces it (with_last_block, loop): not for one scheduling only, as in the
\* run, but for every one, with any number of callers and errors.
THEOREM DeafForGoodHolds == Spec => DeafForGood
<1>1. ASSUME Track, OnLastBlockError PROVE Deaf'
  BY <1>1 DEF OnLastBlockError, Track, Deaf
<1>2. ASSUME Track, Deaf, [Next]_vars
      PROVE  SetConfig \/ (Deaf' /\ \A c \in Callers : Waiting(c) => Waiting(c)')
  <2>1. ASSUME NEW c \in Callers, EstimateFees(c) \/ GetLastConfig(c)
        PROVE  Deaf' /\ \A d \in Callers : Waiting(d) => Waiting(d)'
    <3>1. Deaf'
      BY <1>2, <2>1 DEF EstimateFees, GetLastConfig, Deaf
    <3>2. ASSUME NEW d \in Callers, Waiting(d) PROVE Waiting(d)'
      BY <1>2, <2>1, <3>2 DEF EstimateFees, GetLastConfig, Waiting, Track, CallersTyped
    <3> QED BY <3>1, <3>2
  <2>2. ~OnLastBlock /\ ~OnLastBlockError /\ ~OnConfig /\ ~OnConfigError
    BY <1>2 DEF Deaf, OnLastBlock, OnLastBlockError, OnConfig, OnConfigError
  <2>3. CASE UNCHANGED vars
    BY <1>2, <2>3 DEF vars, Deaf, Waiting
  <2> QED BY <1>2, <2>1, <2>2, <2>3 DEF Next
<1>3. Track /\ [Next]_vars =>
        [/\ OnLastBlockError => Deaf'
         /\ Deaf => \/ SetConfig
                    \/ Deaf' /\ \A c \in Callers : Waiting(c) => Waiting(c)']_vars
  BY <1>1, <1>2
<1> QED BY <1>3, TrackInit, TrackStep, PTL DEF Spec, DeafForGood

\* Every reachable state is well typed.
THEOREM TypeHolds ==
    ASSUME MaxFailures \in Nat, MaxConfigs \in Nat
    PROVE  Spec => []TypeOK
<1>1. Init => TypeOK
  <2> SUFFICES ASSUME Init PROVE TypeOK
    OBVIOUS
  <2>1. failures \in 0..MaxFailures /\ configs \in 0..MaxConfigs
    BY DEF Init
  <2>2. blockFailed \in BOOLEAN
    BY DEF Init
  <2> QED BY <2>1, <2>2 DEF Init, TypeOK
<1>2. TypeOK /\ [Next]_vars => TypeOK'
  <2> SUFFICES ASSUME TypeOK, [Next]_vars PROVE TypeOK'
    OBVIOUS
  <2>1. ASSUME NEW c \in Callers, EstimateFees(c) \/ GetLastConfig(c) PROVE TypeOK'
    BY <2>1 DEF EstimateFees, GetLastConfig, TypeOK
  <2>2. CASE OnLastBlock \/ OnLastBlockError \/ OnConfig \/ OnConfigError
    <3>1. failures' \in 0..MaxFailures
      BY <2>2 DEF OnLastBlock, OnLastBlockError, OnConfig, OnConfigError, Fails, TypeOK
    <3>2. caller' \in [Callers -> {"idle", "sent", "held", "ok", "error"}]
      BY <2>2 DEF OnLastBlock, OnLastBlockError, OnConfig, OnConfigError, Resolve, TypeOK
    <3> QED BY <2>2, <3>1, <3>2 DEF OnLastBlock, OnLastBlockError, OnConfig, OnConfigError, TypeOK
  <2>3. CASE SetConfig
    <3>1. configs' \in 0..MaxConfigs
      BY <2>3 DEF SetConfig, TypeOK
    <3>2. caller' \in [Callers -> {"idle", "sent", "held", "ok", "error"}]
      BY <2>3 DEF SetConfig, TypeOK
    <3> QED BY <2>3, <3>1, <3>2 DEF SetConfig, TypeOK
  <2>4. CASE UNCHANGED vars
    BY <2>4 DEF vars, TypeOK
  <2> QED BY <2>1, <2>2, <2>3, <2>4 DEF Next
<1> QED BY <1>1, <1>2, PTL DEF Spec
=============================================================================
