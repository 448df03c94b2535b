---------------------------- MODULE HwiLifecycle ----------------------------
(***************************************************************************)
(* The reference-counted life cycle of HwiService: start and stop, called  *)
(* by any number of consumer threads, and the listener threads they spawn. *)
(*                                                                         *)
(* Every atomic access of the code is a step: the fetch_add of start, the  *)
(* store of the shutdown flag, the spawn, the store of the join handle;    *)
(* the load and the compare_exchange of stop, its flag store, its take of  *)
(* the handle.  A listener thread reads the flag at the head of each cycle *)
(* and does nothing else that this module can observe.                     *)
(***************************************************************************)
EXTENDS Naturals, FiniteSets

CONSTANTS
    Callers,      \* the consumer threads that share the service
    MaxListeners  \* bound: how many listener threads a behaviour may spawn

ASSUME CallersFinite == IsFiniteSet(Callers)
ASSUME MaxListenersNat == MaxListeners \in Nat

VARIABLES
    refCount,   \* HwiService.ref_count
    shutdown,   \* HwiService.shutdown, shared by all listener threads
    handle,     \* HwiService.listener_handle: a listener, or NoListener
    pc,         \* where each caller is
    local,      \* stop's `current`, or start's join handle, 0 once dead
    holds,      \* history: the caller has counted itself in and not yet out
    robbed,     \* history: some stop gave up a reference it never took
    spawned,    \* how many listener threads were spawned so far
    listener    \* the state of each listener thread

vars == <<refCount, shutdown, handle, pc, local, holds, robbed, spawned, listener>>
callerVars == <<refCount, shutdown, handle, pc, local, holds, robbed, spawned>>

Listeners == 1..MaxListeners
NoListener == 0

Spawning == {"start_clear", "start_spawn"}
Starting == Spawning \union {"start_store"}
Stopping == {"stop_load", "stop_cas", "stop_flag", "stop_take"}
ListenerStates == {"unborn", "init", "check", "refresh", "sleep", "exited"}
Live(l) == listener[l] \notin {"unborn", "exited"}

Holders == {c \in Callers : holds[c]}

TypeOK ==
    /\ refCount \in Nat
    /\ shutdown \in BOOLEAN
    /\ handle \in Listeners \union {NoListener}
    /\ pc \in [Callers -> {"idle"} \union Starting \union Stopping]
    /\ local \in [Callers -> Nat]
    /\ holds \in [Callers -> BOOLEAN]
    /\ robbed \in BOOLEAN
    /\ spawned \in 0..MaxListeners
    /\ listener \in [Listeners -> ListenerStates]

\* HwiService::new
Init ==
    /\ refCount = 0
    /\ shutdown = FALSE
    /\ handle = NoListener
    /\ pc = [c \in Callers |-> "idle"]
    /\ local = [c \in Callers |-> 0]
    /\ holds = [c \in Callers |-> FALSE]
    /\ robbed = FALSE
    /\ spawned = 0
    /\ listener = [l \in Listeners |-> "unborn"]

-----------------------------------------------------------------------------
\* start

\* Mutant of StartAdd: whether to spawn is read off the stored handle.
StartAddByHandle(c) ==
    /\ pc[c] = "idle" /\ ~holds[c]
    /\ spawned + Cardinality({d \in Callers : pc[d] \in Spawning}) < MaxListeners
    /\ refCount' = refCount + 1
    /\ holds' = [holds EXCEPT ![c] = TRUE]
    /\ pc' = [pc EXCEPT ![c] = IF handle = NoListener THEN "start_clear" ELSE "idle"]
    /\ UNCHANGED <<shutdown, handle, local, robbed, spawned, listener>>

\* fetch_add: the caller that finds 0 goes on to spawn, any other returns.
\* The guard on spawned is the bound of the model: every caller that may still
\* spawn has a listener left for it.
StartAdd(c) ==
    /\ pc[c] = "idle" /\ ~holds[c]
    /\ spawned + Cardinality({d \in Callers : pc[d] \in Spawning}) < MaxListeners
    /\ refCount' = refCount + 1
    /\ holds' = [holds EXCEPT ![c] = TRUE]
    /\ pc' = [pc EXCEPT ![c] = IF refCount = 0 THEN "start_clear" ELSE "idle"]
    /\ UNCHANGED <<shutdown, handle, local, robbed, spawned, listener>>

StartClear(c) ==
    /\ pc[c] = "start_clear"
    /\ shutdown' = FALSE
    /\ pc' = [pc EXCEPT ![c] = "start_spawn"]
    /\ UNCHANGED <<refCount, handle, local, holds, robbed, spawned, listener>>

StartSpawn(c) ==
    /\ pc[c] = "start_spawn"
    /\ spawned < MaxListeners
    /\ spawned' = spawned + 1
    /\ listener' = [listener EXCEPT ![spawned + 1] = "init"]
    /\ local' = [local EXCEPT ![c] = spawned + 1]
    /\ pc' = [pc EXCEPT ![c] = "start_store"]
    /\ UNCHANGED <<refCount, shutdown, handle, holds, robbed>>

StartStore(c) ==
    /\ pc[c] = "start_store"
    /\ handle' = local[c]
    /\ pc' = [pc EXCEPT ![c] = "idle"]
    /\ local' = [local EXCEPT ![c] = 0]
    /\ UNCHANGED <<refCount, shutdown, holds, robbed, spawned, listener>>

-----------------------------------------------------------------------------
\* stop

\* Any caller may call stop, a caller that holds no reference included: the
\* code guards against it only where the count is already 0.
StopCall(c) ==
    /\ pc[c] = "idle"
    /\ pc' = [pc EXCEPT ![c] = "stop_load"]
    /\ UNCHANGED <<refCount, shutdown, handle, local, holds, robbed, spawned, listener>>

\* Mutant of StopLoad: no early return on a count of 0.
StopLoadUnguarded(c) ==
    /\ pc[c] = "stop_load"
    /\ local' = [local EXCEPT ![c] = refCount]
    /\ pc' = [pc EXCEPT ![c] = "stop_cas"]
    /\ UNCHANGED <<refCount, shutdown, handle, holds, robbed, spawned, listener>>

StopLoad(c) ==
    /\ pc[c] = "stop_load"
    /\ local' = [local EXCEPT ![c] = refCount]
    /\ pc' = [pc EXCEPT ![c] = IF refCount = 0 THEN "idle" ELSE "stop_cas"]
    /\ UNCHANGED <<refCount, shutdown, handle, holds, robbed, spawned, listener>>

\* Mutant of StopCas: a plain store of current - 1.
StopStore(c) ==
    /\ pc[c] = "stop_cas"
    /\ refCount' = local[c] - 1
    /\ holds' = [holds EXCEPT ![c] = FALSE]
    /\ robbed' = (robbed \/ ~holds[c])
    /\ pc' = [pc EXCEPT ![c] = IF local[c] = 1 THEN "stop_flag" ELSE "idle"]
    /\ local' = [local EXCEPT ![c] = 0]
    /\ UNCHANGED <<shutdown, handle, spawned, listener>>

\* compare_exchange succeeds: a reference is given up, and the caller that
\* took the count to 0 goes on to raise the flag.
StopCas(c) ==
    /\ pc[c] = "stop_cas"
    /\ refCount = local[c]
    /\ refCount' = local[c] - 1
    /\ holds' = [holds EXCEPT ![c] = FALSE]
    /\ robbed' = (robbed \/ ~holds[c])
    /\ pc' = [pc EXCEPT ![c] = IF local[c] = 1 THEN "stop_flag" ELSE "idle"]
    /\ local' = [local EXCEPT ![c] = 0]
    /\ UNCHANGED <<shutdown, handle, spawned, listener>>

StopRetry(c) ==
    /\ pc[c] = "stop_cas"
    /\ refCount # local[c]
    /\ pc' = [pc EXCEPT ![c] = "stop_load"]
    /\ local' = [local EXCEPT ![c] = 0]
    /\ UNCHANGED <<refCount, shutdown, handle, holds, robbed, spawned, listener>>

\* Mutant of StopFlag: the flag is raised only for a handle still stored.
StopFlagOfHandle(c) ==
    /\ pc[c] = "stop_flag"
    /\ shutdown' = (shutdown \/ handle # NoListener)
    /\ pc' = [pc EXCEPT ![c] = "stop_take"]
    /\ UNCHANGED <<refCount, handle, local, holds, robbed, spawned, listener>>

StopFlag(c) ==
    /\ pc[c] = "stop_flag"
    /\ shutdown' = TRUE
    /\ pc' = [pc EXCEPT ![c] = "stop_take"]
    /\ UNCHANGED <<refCount, handle, local, holds, robbed, spawned, listener>>

\* The handle is taken and dropped: the thread is detached, never joined.
StopTake(c) ==
    /\ pc[c] = "stop_take"
    /\ handle' = NoListener
    /\ pc' = [pc EXCEPT ![c] = "idle"]
    /\ UNCHANGED <<refCount, shutdown, local, holds, robbed, spawned, listener>>

-----------------------------------------------------------------------------
\* listen, as far as the life cycle goes

Move(l, from, to) ==
    /\ listener[l] = from
    /\ listener' = [listener EXCEPT ![l] = to]
    /\ UNCHANGED callerVars

\* HidApi::new answers, or fails and the thread ends after an Error message.
ListenInit(l) == Move(l, "init", "check") \/ Move(l, "init", "exited")

\* The flag at the head of the loop.
ListenCheck(l) == Move(l, "check", IF shutdown THEN "exited" ELSE "refresh")

\* refresh_devices fails: an Error message and straight back to the flag;
\* it succeeds: the handlers run, then the two-second sleep.
ListenRefresh(l) == Move(l, "refresh", "check") \/ Move(l, "refresh", "sleep")

\* Mutant of ListenSleep: the next cycle begins behind the check of the flag.
ListenSleepUnchecked(l) == Move(l, "sleep", "refresh")

ListenSleep(l) == Move(l, "sleep", "check")

-----------------------------------------------------------------------------
StartStep(c) == StartClear(c) \/ StartSpawn(c) \/ StartStore(c)
StopStep(c) == StopLoad(c) \/ StopCas(c) \/ StopRetry(c) \/ StopFlag(c) \/ StopTake(c)
ListenStep(l) == ListenInit(l) \/ ListenCheck(l) \/ ListenRefresh(l) \/ ListenSleep(l)

Next ==
    \/ \E c \in Callers : StartAdd(c) \/ StopCall(c) \/ StartStep(c) \/ StopStep(c)
    \/ \E l \in Listeners : ListenStep(l)

Spec == Init /\ [][Next]_vars

\* Threads are scheduled: a call that has begun runs on, and a listener
\* thread keeps cycling.  Nobody is obliged to call start or stop.
Fairness ==
    /\ \A c \in Callers : WF_vars(StartStep(c) \/ StopStep(c))
    /\ \A l \in Listeners : WF_vars(ListenStep(l))

FairSpec == Spec /\ Fairness
-----------------------------------------------------------------------------
(* Properties.  They are stated for behaviours in which no stop gave up a  *)
(* reference its caller did not hold: a stray stop that finds the count at *)
(* 0 is harmless, one that finds it above 0 takes another's reference.     *)

Quiet == \A c \in Callers : pc[c] = "idle"

\* The count is the number of consumers between their start and their stop:
\* the compare_exchange loop of stop loses no concurrent start or stop.
RefsCounted == ~robbed => refCount = Cardinality(Holders)

\* The body of start that clears the flag and spawns is a critical section:
\* the count alone keeps a second caller out of it until the first is done.
OneStarter ==
    ~robbed => \A c, d \in Callers :
                  pc[c] \in Starting /\ pc[d] \in Starting => c = d

\* When every call has returned and nobody holds the service, the flag is up
\* and the handle is gone: no earlier start can undo the last stop.
QuietMeansStopped ==
    ~robbed /\ Quiet /\ refCount = 0 /\ spawned > 0 =>
        shutdown /\ handle = NoListener

\* Once the count stays at 0 every listener thread ends, those left over from
\* earlier starts included.
ListenersStop ==
    [](~robbed) /\ <>[](refCount = 0) => <>[](\A l \in Listeners : ~Live(l))

\* What the documents promise a consumer that holds the service: it is
\* running, so the flag its listener obeys is down once all calls returned.
RunningWhileHeld == ~robbed /\ Quiet /\ refCount > 0 => ~shutdown

-----------------------------------------------------------------------------
(* The inductive invariant behind RefsCounted, OneStarter and              *)
(* QuietMeansStopped.                                                      *)

\* A caller's local is fit for the step it is about to take.
LocalOK ==
    \A c \in Callers :
        /\ pc[c] = "stop_cas" => local[c] > 0
        /\ pc[c] = "start_store" => local[c] \in Listeners

StartersHold == \A c \in Callers : pc[c] \in Starting => holds[c]

\* At count 0 whatever a start set up is undone, or a stop is about to undo it.
StopUnderway ==
    refCount = 0 =>
        /\ spawned = 0 \/ shutdown \/ \E c \in Callers : pc[c] = "stop_flag"
        /\ \/ handle = NoListener
           \/ \E c \in Callers : pc[c] \in {"stop_flag", "stop_take"}

IInv ==
    /\ TypeOK
    /\ LocalOK
    /\ RefsCounted
    /\ OneStarter
    /\ ~robbed => StartersHold /\ StopUnderway
=============================================================================
