------------------------- MODULE HwiLifecycleProofs -------------------------
(***************************************************************************)
(* Proofs about HwiLifecycle for any finite set of callers and any number  *)
(* of listener threads: IInv is an inductive invariant, and the count, the *)
(* critical section of start and the last stop follow from it.             *)
(***************************************************************************)
EXTENDS HwiLifecycle, FiniteSetTheorems, TLAPS

\* Taking a reference adds one to the number of holders.
LEMMA HoldersGain ==
    ASSUME NEW H, NEW c, IsFiniteSet(H), c \notin H
    PROVE  Cardinality(H \union {c}) = Cardinality(H) + 1
BY FS_AddElement

\* Giving one up takes one away.
LEMMA HoldersLose ==
    ASSUME NEW H, NEW c, IsFiniteSet(H), c \in H
    PROVE  Cardinality(H \ {c}) = Cardinality(H) - 1
BY FS_RemoveElement

\* The holders are finitely many, and there is none exactly at count 0.
LEMMA HoldersFinite ==
    /\ IsFiniteSet(Holders)
    /\ Cardinality(Holders) \in Nat
    /\ Cardinality(Holders) = 0 <=> Holders = {}
<1>1. IsFiniteSet(Holders)
  BY CallersFinite, FS_Subset DEF Holders
<1> QED
  BY <1>1, FS_CardinalityType, FS_EmptySet

\* A new service satisfies the invariant.
LEMMA InitInv == Init => IInv
<1> SUFFICES ASSUME Init PROVE IInv
  OBVIOUS
<1>1. Holders = {}
  BY DEF Init, Holders
<1>2. refCount = Cardinality(Holders)
  BY <1>1, FS_EmptySet DEF Init
<1>3. TypeOK
  <2>1. spawned \in 0..MaxListeners
    BY MaxListenersNat DEF Init
  <2>2. /\ handle \in Listeners \union {NoListener}
        /\ pc \in [Callers -> {"idle"} \union Starting \union Stopping]
        /\ listener \in [Listeners -> ListenerStates]
    BY DEF Init, ListenerStates
  <2> QED
    BY <2>1, <2>2 DEF Init, TypeOK
<1>4. LocalOK /\ OneStarter /\ StartersHold
  BY DEF Init, LocalOK, OneStarter, StartersHold, Starting, Spawning
<1>5. StopUnderway
  BY DEF Init, StopUnderway
<1> QED
  BY <1>2, <1>3, <1>4, <1>5 DEF IInv, RefsCounted

USE DEF Starting, Spawning, Stopping, NoListener

\* fetch_add in start: a caller that finds 0 finds no holder, so no starter.
LEMMA StartAddInv ==
    ASSUME IInv, NEW c \in Callers, StartAdd(c)
    PROVE  IInv'
<1>1. TypeOK' /\ LocalOK'
  BY DEF StartAdd, IInv, TypeOK, LocalOK
<1>2. ASSUME ~robbed PROVE refCount' = Cardinality(Holders)' /\ refCount' > 0
  <2>1. Holders' = Holders \union {c} /\ c \notin Holders
    BY DEF StartAdd, Holders, IInv, TypeOK
  <2>2. Cardinality(Holders') = Cardinality(Holders) + 1
    BY <2>1, HoldersGain, HoldersFinite
  <2> QED
    BY <1>2, <2>2, HoldersFinite DEF StartAdd, IInv, RefsCounted
<1>3. ASSUME ~robbed PROVE OneStarter' /\ StartersHold'
  <2>1. refCount = 0 => \A d \in Callers : ~holds[d]
    BY <1>3, HoldersFinite DEF IInv, RefsCounted, Holders
  <2> QED
    BY <1>3, <2>1 DEF StartAdd, IInv, OneStarter, StartersHold, TypeOK
<1> QED
  BY <1>1, <1>2, <1>3 DEF StartAdd, IInv, TypeOK, RefsCounted, OneStarter, StopUnderway

\* The rest of start: its caller holds a reference, so the count is not 0.
LEMMA StartStepInv ==
    ASSUME IInv, NEW c \in Callers, StartStep(c)
    PROVE  IInv'
<1>1. TypeOK' /\ LocalOK'
  <2>1. CASE StartClear(c)
    BY <2>1 DEF StartClear, IInv, TypeOK, LocalOK
  <2>2. CASE StartSpawn(c)
    <3>1. spawned + 1 \in Listeners
      BY <2>2, MaxListenersNat DEF StartSpawn, IInv, TypeOK, Listeners
    <3> QED
      BY <2>2, <3>1 DEF StartSpawn, IInv, TypeOK, LocalOK, Listeners, ListenerStates
  <2>3. CASE StartStore(c)
    BY <2>3 DEF StartStore, IInv, TypeOK, LocalOK
  <2> QED
    BY <2>1, <2>2, <2>3 DEF StartStep
<1>2. UNCHANGED <<refCount, holds, robbed>> /\ Holders' = Holders
  BY DEF StartStep, StartClear, StartSpawn, StartStore, Holders
<1>3. ASSUME ~robbed PROVE OneStarter' /\ StartersHold'
  BY <1>3, <1>2 DEF StartStep, StartClear, StartSpawn, StartStore,
     IInv, OneStarter, StartersHold, TypeOK
<1>4. ASSUME ~robbed PROVE refCount # 0
  <2>1. c \in Holders
    BY <1>4 DEF StartStep, StartClear, StartSpawn, StartStore, IInv, StartersHold, Holders
  <2> QED
    BY <1>4, <2>1, HoldersFinite DEF IInv, RefsCounted
<1> QED
  BY <1>1, <1>2, <1>3, <1>4 DEF IInv, RefsCounted, OneStarter, StopUnderway

\* The step of stop that gives up a reference.
LEMMA StopCasInv ==
    ASSUME IInv, NEW c \in Callers, StopCas(c)
    PROVE  IInv'
<1>1. TypeOK' /\ LocalOK'
  BY DEF StopCas, IInv, TypeOK, LocalOK
<1>2. ASSUME ~robbed' PROVE refCount' = Cardinality(Holders)'
  <2>1. Holders' = Holders \ {c} /\ c \in Holders
    BY <1>2 DEF StopCas, Holders, IInv, TypeOK
  <2>2. Cardinality(Holders') = Cardinality(Holders) - 1
    BY <2>1, HoldersLose, HoldersFinite
  <2> QED
    BY <1>2, <2>2 DEF StopCas, IInv, RefsCounted
<1>3. ASSUME ~robbed' PROVE OneStarter' /\ StartersHold'
  BY <1>3 DEF StopCas, IInv, OneStarter, StartersHold, TypeOK
<1>4. refCount' = 0 => pc'[c] = "stop_flag"
  BY DEF StopCas, IInv, TypeOK, LocalOK
<1>5. StopUnderway'
  BY <1>4 DEF StopUnderway
<1> QED
  BY <1>1, <1>2, <1>3, <1>5 DEF IInv, RefsCounted, OneStarter

\* The steps of stop that leave the count alone.
LEMMA StopRestInv ==
    ASSUME IInv, NEW c \in Callers,
           StopCall(c) \/ StopLoad(c) \/ StopRetry(c) \/ StopFlag(c) \/ StopTake(c)
    PROVE  IInv'
<1> USE DEF StopCall, StopLoad, StopRetry, StopFlag, StopTake
<1>1. TypeOK' /\ LocalOK'
  <2>1. CASE StopLoad(c)
    BY <2>1 DEF IInv, TypeOK, LocalOK
  <2>2. CASE StopCall(c)
    BY <2>2 DEF IInv, TypeOK, LocalOK
  <2>3. CASE StopRetry(c)
    BY <2>3 DEF IInv, TypeOK, LocalOK
  <2>4. CASE StopFlag(c)
    BY <2>4 DEF IInv, TypeOK, LocalOK
  <2>5. CASE StopTake(c)
    BY <2>5 DEF IInv, TypeOK, LocalOK
  <2> QED
    BY <2>1, <2>2, <2>3, <2>4, <2>5
<1>2. UNCHANGED <<refCount, holds, robbed, spawned>> /\ Holders' = Holders
  BY DEF Holders
<1>3. ASSUME ~robbed PROVE OneStarter' /\ StartersHold'
  BY <1>3, <1>2 DEF IInv, OneStarter, StartersHold, TypeOK
<1>4. ASSUME ~robbed PROVE StopUnderway'
  <2>1. CASE StopFlag(c)
    BY <1>4, <2>1 DEF IInv, StopUnderway, TypeOK
  <2>2. CASE StopTake(c)
    BY <1>4, <2>2 DEF IInv, StopUnderway, TypeOK
  <2>3. CASE StopCall(c) \/ StopLoad(c) \/ StopRetry(c)
    BY <1>4, <2>3 DEF IInv, StopUnderway, TypeOK
  <2> QED
    BY <2>1, <2>2, <2>3
<1> QED
  BY <1>1, <1>2, <1>3, <1>4 DEF IInv, RefsCounted, OneStarter

\* A listener thread touches its own state and nothing a caller reads.
LEMMA ListenInv ==
    ASSUME IInv, NEW l \in Listeners, ListenStep(l)
    PROVE  IInv'
<1>1. UNCHANGED callerVars
  BY DEF ListenStep, ListenInit, ListenCheck, ListenRefresh, ListenSleep, Move
<1>2. listener' \in [Listeners -> ListenerStates]
  BY DEF ListenStep, ListenInit, ListenCheck, ListenRefresh, ListenSleep, Move,
         IInv, TypeOK, ListenerStates
<1> QED
  BY <1>1, <1>2 DEF callerVars, IInv, TypeOK, LocalOK, RefsCounted, OneStarter,
     StartersHold, StopUnderway, Holders

LEMMA NextInv == IInv /\ [Next]_vars => IInv'
<1> SUFFICES ASSUME IInv, [Next]_vars PROVE IInv'
  OBVIOUS
<1>1. ASSUME NEW c \in Callers, StartAdd(c) PROVE IInv'
  BY <1>1, StartAddInv
<1>2. ASSUME NEW c \in Callers, StartStep(c) PROVE IInv'
  BY <1>2, StartStepInv
<1>3. ASSUME NEW c \in Callers, StopCall(c) \/ StopStep(c) PROVE IInv'
  BY <1>3, StopCasInv, StopRestInv DEF StopStep
<1>4. ASSUME NEW l \in Listeners, ListenStep(l) PROVE IInv'
  BY <1>4, ListenInv
<1>5. CASE UNCHANGED vars
  BY <1>5 DEF vars, IInv, TypeOK, LocalOK, RefsCounted, OneStarter, StartersHold,
     StopUnderway, Holders
<1> QED
  BY <1>1, <1>2, <1>3, <1>4, <1>5 DEF Next

\* IInv holds throughout.
THEOREM Invariance == Spec => []IInv
BY InitInv, NextInv, PTL DEF Spec

\* Type correctness of HwiService's life cycle: the count never underflows.
THEOREM TypeCorrect == Spec => []TypeOK
<1>1. IInv => TypeOK
  BY DEF IInv
<1> QED
  BY <1>1, Invariance, PTL

\* ref_count is the number of consumers between their start and their stop.
THEOREM RefsAreCounted == Spec => []RefsCounted
<1>1. IInv => RefsCounted
  BY DEF IInv
<1> QED
  BY <1>1, Invariance, PTL

\* ref_count alone makes the body of start a critical section.
THEOREM StartIsExclusive == Spec => []OneStarter
<1>1. IInv => OneStarter
  BY DEF IInv
<1> QED
  BY <1>1, Invariance, PTL

\* After the last stop has returned, the flag is up and the handle gone.
THEOREM LastStopIsFinal == Spec => []QuietMeansStopped
<1>1. IInv => QuietMeansStopped
  BY DEF IInv, QuietMeansStopped, Quiet, StopUnderway
<1> QED
  BY <1>1, Invariance, PTL
=============================================================================
