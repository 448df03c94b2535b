---------------------------- MODULE HwiRegistry ----------------------------
(***************************************************************************)
(* The device map of HwiService: one listener thread that polls, the async *)
(* tasks it spawns, the devices that come and go, and a consumer that      *)
(* lists the map when it is told to.                                       *)
(*                                                                         *)
(* A step is what happens under one lock of the map, one spawn, one send,  *)
(* or one exchange with a device.  A device keeps its id when it is        *)
(* plugged in again; session counts its connections, so that an entry or   *)
(* a task tells which connection it was opened on.                         *)
(***************************************************************************)
EXTENDS Naturals, FiniteSets, Sequences

CONSTANTS
    Ids,       \* the device ids
    KindOf,    \* the kind of each id
    MaxTasks,  \* bound: tasks alive at once
    Worlds     \* bounds: in each world, how often each device is plugged in, and
               \* how many exchanges with an attached device, or port listings, fail

SimKinds == {"specter-simulator", "ledger-simulator"}
SerialKinds == {"specter", "jade"}
HidKinds == {"bitbox", "coldcard", "ledger"}
Kinds == SimKinds \union SerialKinds \union HidKinds

ASSUME KindOfType == KindOf \in [Ids -> Kinds]
ASSUME MaxTasksNat == MaxTasks \in Nat
ASSUME WorldsType ==
    \A w \in Worlds : /\ w.plugs \in [Ids -> Nat] /\ w.faults \in Nat
                      /\ \E id \in Ids : w.plugs[id] > 0

\* The order in which listen calls its handle_* functions.
ListenOrder == <<"specter-simulator", "specter", "jade", "ledger-simulator",
                 "bitbox", "coldcard", "ledger">>

VARIABLES
    plugged,  \* the device is connected (a simulator: its socket is open)
    session,  \* how often the device was connected so far
    left,     \* how often it may still be
    devices,  \* HwiService.devices: an entry per id, or Absent
    handles,  \* the unfinished task each handle of the listener refers to
    task,     \* the tasks on the tokio runtime
    faults,   \* how many faults are still to come
    at,       \* the handler the listener is in, an index of ListenOrder
    step,     \* where in that handler it is
    hid,      \* the HID devices as of refresh_devices
    ports,    \* ids the handler has still to visit; connected_ids before that
    gone,     \* ids_to_remove of cleanup_disconnected
    cur,      \* the id the handler is visiting
    pending,  \* an Update is in the consumer's channel
    unseen    \* ids whose entry changed since the consumer last listed

env == <<plugged, session, left>>
listener == <<at, step, hid, ports, gone, cur>>
vars == <<env, faults, devices, handles, task, listener, pending, unseen>>

Tasks == 1..MaxTasks
NoTask == 0
States == {"Supported", "Locked", "Unsupported"}

\* conn is the connection the entry was made on.  Of a Locked entry, by is the
\* task that made it, and full says that its inner Option is still Some.
Entries == [state : States, conn : Nat, by : Tasks \union {NoTask}, full : BOOLEAN]
Absent == [state |-> "Absent", conn |-> 0, by |-> NoTask, full |-> FALSE]
Entry(t, s, conn) == [state |-> s, conn |-> conn, full |-> s = "Locked",
                      by |-> IF s = "Locked" THEN t ELSE NoTask]

TaskSteps == {"open", "probe", "insert", "send", "take", "unlock", "settle", "resend"}
Free == [pc |-> "free", id |-> CHOOSE i \in Ids : TRUE, conn |-> 0, res |-> "none"]
Results == States \union {"none", "Failed"}

Listed(id) == devices[id] # Absent
Running(t) == task[t].pc # "free"
\* The connection the task has opened is still there.
Alive(t) == plugged[task[t].id] /\ session[task[t].id] = task[t].conn
KindOfTask(t) == KindOf[task[t].id]
OfKind(k) == {id \in Ids : KindOf[id] = k}

TypeOK ==
    /\ plugged \in [Ids -> BOOLEAN]
    /\ session \in [Ids -> Nat]
    /\ left \in [Ids -> Nat]
    /\ faults \in Nat
    /\ devices \in [Ids -> Entries \union {Absent}]
    /\ handles \in [Ids -> Tasks \union {NoTask}]
    /\ task \in [Tasks -> [pc : TaskSteps \union {"free"}, id : Ids,
                           conn : Nat, res : Results]]
    /\ at \in 1..Len(ListenOrder)
    /\ step \in {"refresh", "enter", "scan", "sweep", "visit", "poll", "notify"}
    /\ hid \subseteq Ids /\ ports \subseteq Ids /\ gone \subseteq Ids
    /\ cur \in Ids
    /\ pending \in BOOLEAN
    /\ unseen \subseteq Ids

Init ==
    /\ plugged = [id \in Ids |-> FALSE]
    /\ session = [id \in Ids |-> 0]
    /\ \E w \in Worlds : left = w.plugs /\ faults = w.faults
    /\ devices = [id \in Ids |-> Absent]
    /\ handles = [id \in Ids |-> NoTask]
    /\ task = [t \in Tasks |-> Free]
    /\ at = 1 /\ step = "refresh"
    /\ hid = {} /\ ports = {} /\ gone = {}
    /\ cur = CHOOSE i \in Ids : TRUE
    /\ pending = FALSE
    /\ unseen = {}

-----------------------------------------------------------------------------
\* The devices and the consumer

\* An exchange fails: as it must with what is not attached, or by a fault.
Fault(attached) ==
    IF attached THEN faults > 0 /\ faults' = faults - 1 ELSE UNCHANGED faults

Plug(id) ==
    /\ ~plugged[id] /\ left[id] > 0
    /\ plugged' = [plugged EXCEPT ![id] = TRUE]
    /\ session' = [session EXCEPT ![id] = @ + 1]
    /\ left' = [left EXCEPT ![id] = @ - 1]
    /\ UNCHANGED <<faults, devices, handles, task, listener, pending, unseen>>

Unplug(id) ==
    /\ plugged[id]
    /\ plugged' = [plugged EXCEPT ![id] = FALSE]
    /\ UNCHANGED <<session, left, faults, devices, handles, task, listener, pending, unseen>>

\* The consumer receives an Update and lists the map.  Updates carry nothing,
\* so one in the channel stands for any number of them.
Consume ==
    /\ pending
    /\ pending' = FALSE
    /\ unseen' = {}
    /\ UNCHANGED <<env, faults, devices, handles, task, listener>>

-----------------------------------------------------------------------------
\* The listener: one cycle runs every handler once

Handler == ListenOrder[at]

\* The kinds whose ids start with the handler's prefix: "specter-" and
\* "ledger-" are also how the ids of the two simulators start.
PrefixKinds(h) == {h} \union IF h = "specter" THEN {"specter-simulator"}
                           ELSE IF h = "ledger" THEN {"ledger-simulator"}
                           ELSE {}

\* The handlers that can change anything in this world.  One whose prefix no
\* device ever bears lists nothing and cleans up nothing; it is passed over.
Handlers == {i \in 1..Len(ListenOrder) :
                \E id \in Ids : KindOf[id] \in PrefixKinds(ListenOrder[i])
                                /\ session[id] + left[id] > 0}
Earliest(S) == CHOOSE i \in S : \A j \in S : i <= j

Goto(s) == step' = s /\ UNCHANGED at
Leave == LET later == {i \in Handlers : i > at} IN
         IF later # {} THEN at' = Earliest(later) /\ step' = "enter"
                       ELSE UNCHANGED at /\ step' = "refresh"

\* refresh_devices: the HID list is read once for the whole cycle.
Refresh ==
    /\ step = "refresh"
    /\ hid' = {id \in Ids : KindOf[id] \in HidKinds /\ plugged[id]}
    /\ at' = Earliest(Handlers) /\ step' = "enter"
    /\ UNCHANGED <<env, faults, devices, handles, task, ports, gone, cur, pending, unseen>>

\* connected_ids; a simulator has no list and no cleanup.
Enumerate ==
    /\ step = "enter"
    /\ ports' = IF Handler \in HidKinds THEN hid \intersect OfKind(Handler)
                ELSE {id \in OfKind(Handler) : Handler \in SimKinds \/ plugged[id]}
    /\ Goto(IF Handler \in SimKinds THEN "visit" ELSE "scan")
    /\ UNCHANGED <<env, faults, devices, handles, task, hid, gone, cur, pending, unseen>>

\* available_ports fails: the handler does nothing this time.
EnumerateFails ==
    /\ step = "enter" /\ Handler \in SerialKinds
    /\ Fault(TRUE)
    /\ Leave
    /\ UNCHANGED <<env, devices, handles, task, hid, ports, gone, cur, pending, unseen>>

\* Mutant of Scan: the connected ids are removed instead of the others.
ScanInverted ==
    /\ step = "scan"
    /\ gone' = {id \in Ids : KindOf[id] \in PrefixKinds(Handler) /\ Listed(id)} \intersect ports
    /\ Goto(IF gone' = {} THEN "visit" ELSE "sweep")
    /\ UNCHANGED <<env, faults, devices, handles, task, hid, ports, cur, pending, unseen>>

\* Mutant of Scan: only ids the handler has a running task for are cleaned up.
ScanOfHandles ==
    /\ step = "scan"
    /\ gone' = {id \in Ids : KindOf[id] \in PrefixKinds(Handler) /\ Listed(id)
                             /\ handles[id] # NoTask} \ ports
    /\ Goto(IF gone' = {} THEN "visit" ELSE "sweep")
    /\ UNCHANGED <<env, faults, devices, handles, task, hid, ports, cur, pending, unseen>>

\* cleanup_disconnected under its first lock: what is listed and not connected.
Scan ==
    /\ step = "scan"
    /\ gone' = {id \in Ids : KindOf[id] \in PrefixKinds(Handler) /\ Listed(id)} \ ports
    /\ Goto(IF gone' = {} THEN "visit" ELSE "sweep")
    /\ UNCHANGED <<env, faults, devices, handles, task, hid, ports, cur, pending, unseen>>

\* Under its second lock: out of the map and out of the handler's own handles.
\* A task whose handle is dropped runs on, detached.
Sweep ==
    /\ step = "sweep"
    /\ devices' = [id \in Ids |-> IF id \in gone THEN Absent ELSE devices[id]]
    /\ handles' = [id \in Ids |-> IF id \in gone /\ KindOf[id] = Handler
                                  THEN NoTask ELSE handles[id]]
    /\ unseen' = unseen \union {id \in gone : Listed(id)}
    /\ pending' = TRUE
    /\ gone' = {}
    /\ Goto("visit")
    /\ UNCHANGED <<env, faults, task, hid, ports, cur>>

\* should_poll under the lock of the map: a listed device is left alone.
Visit ==
    /\ step = "visit"
    /\ \E id \in ports :
          /\ ports' = ports \ {id}
          /\ cur' = id
          /\ Goto(IF Listed(id) THEN "visit" ELSE "poll")
    /\ UNCHANGED <<env, faults, devices, handles, task, hid, gone, pending, unseen>>

VisitedAll ==
    /\ step = "visit" /\ ports = {}
    /\ Leave
    /\ UNCHANGED <<env, faults, devices, handles, task, hid, ports, gone, cur, pending, unseen>>

\* should_poll without the lock: the last task is still running.
SkipBusy ==
    /\ step = "poll" /\ handles[cur] # NoTask
    /\ Goto("visit")
    /\ UNCHANGED <<env, faults, devices, handles, task, hid, ports, gone, cur, pending, unseen>>

FreeTasks == {t \in Tasks : ~Running(t)}
NextTask == CHOOSE t \in FreeTasks : TRUE

\* Mutant of Spawn: the handle of the last task is not looked at.
SpawnAgain ==
    /\ step = "poll" /\ FreeTasks # {}
    /\ LET hidKind == KindOf[cur] \in HidKinds IN
       /\ hidKind => plugged[cur]
       /\ task' = [task EXCEPT ![NextTask] =
                     [pc |-> IF hidKind THEN "probe" ELSE "open", id |-> cur,
                      conn |-> IF hidKind THEN session[cur] ELSE 0, res |-> "none"]]
    /\ handles' = [handles EXCEPT ![cur] = NextTask]
    /\ Goto(IF KindOf[cur] = "ledger" THEN "notify" ELSE "visit")
    /\ UNCHANGED <<env, faults, devices, hid, ports, gone, cur, pending, unseen>>

\* A task is spawned, with a HID device the listener has opened itself.
\* handle_ledger announces the device here, before the task has listed it.
Spawn ==
    /\ step = "poll" /\ handles[cur] = NoTask
    /\ FreeTasks # {}
    /\ LET hidKind == KindOf[cur] \in HidKinds IN
       /\ hidKind => plugged[cur]
       /\ task' = [task EXCEPT ![NextTask] =
                     [pc |-> IF hidKind THEN "probe" ELSE "open", id |-> cur,
                      conn |-> IF hidKind THEN session[cur] ELSE 0, res |-> "none"]]
    /\ handles' = [handles EXCEPT ![cur] = NextTask]
    /\ Goto(IF KindOf[cur] = "ledger" THEN "notify" ELSE "visit")
    /\ UNCHANGED <<env, faults, devices, hid, ports, gone, cur, pending, unseen>>

\* The listener cannot open the HID device: nothing is spawned.
OpenFails ==
    /\ step = "poll" /\ handles[cur] = NoTask
    /\ KindOf[cur] \in HidKinds
    /\ Fault(plugged[cur])
    /\ Goto("visit")
    /\ UNCHANGED <<env, devices, handles, task, hid, ports, gone, cur, pending, unseen>>

Notify ==
    /\ step = "notify"
    /\ pending' = TRUE
    /\ Goto("visit")
    /\ UNCHANGED <<env, faults, devices, handles, task, hid, ports, gone, cur, unseen>>

-----------------------------------------------------------------------------
\* The tasks

\* Mutant of Finish: the handle of a finished task still counts as running.
FinishKeepsHandle(t) ==
    /\ task' = [task EXCEPT ![t] = Free]
    /\ UNCHANGED handles

\* The task ends; a handle that refers to it is finished from now on.
Finish(t) ==
    /\ task' = [task EXCEPT ![t] = Free]
    /\ handles' = [id \in Ids |-> IF handles[id] = t THEN NoTask ELSE handles[id]]

\* The task goes on to s, with res the result it carries.
Advance(t, s, res) ==
    /\ task' = [task EXCEPT ![t] = [@ EXCEPT !.pc = s, !.res = res]]
    /\ UNCHANGED handles

\* Serial ports and simulator sockets are opened inside the task.
TaskOpens(t) ==
    /\ task[t].pc = "open"
    /\ plugged[task[t].id]
    /\ task' = [task EXCEPT ![t] = [@ EXCEPT !.pc = "probe", !.conn = session[task[t].id]]]
    /\ UNCHANGED <<env, faults, devices, handles, listener, pending, unseen>>

\* An unreachable Ledger simulator is DeviceNotFound, and that unlists it.
TaskOpenFails(t) ==
    /\ task[t].pc = "open"
    /\ Fault(plugged[task[t].id])
    /\ LET id == task[t].id IN
       IF KindOf[id] = "ledger-simulator" /\ Listed(id)
       THEN /\ devices' = [devices EXCEPT ![id] = Absent]
            /\ unseen' = unseen \union {id}
            /\ Advance(t, "resend", "none")
       ELSE Finish(t) /\ UNCHANGED <<devices, unseen>>
    /\ UNCHANGED <<env, listener, pending>>

\* What a first exchange may find in a device that answers.
Found(k) ==
    CASE k \in {"specter", "specter-simulator"} -> {"Supported"}
      [] k \in {"coldcard", "ledger", "ledger-simulator"} -> {"Supported", "Unsupported"}
      [] k = "bitbox" -> {"Locked"}
      [] k = "jade" -> {"Locked", "Supported", "Unsupported"}

\* fingerprint and version, get_info, or the BitBox02 handshake.
Probe(t) ==
    /\ task[t].pc = "probe" /\ Alive(t)
    /\ \E s \in Found(KindOfTask(t)) : Advance(t, "insert", s)
    /\ UNCHANGED <<env, faults, devices, listener, pending, unseen>>

\* Mutant of ProbeFails: a Ledger is listed although nothing is known of it.
ProbeFailsUndecided(t) ==
    /\ task[t].pc = "probe"
    /\ Fault(Alive(t))
    /\ IF KindOfTask(t) \in {"ledger", "ledger-simulator"}
       THEN Advance(t, "insert", "none") ELSE Finish(t)
    /\ UNCHANGED <<env, devices, listener, pending, unseen>>

\* With a Ledger an exchange that fails means that its app is not open.
ProbeFails(t) ==
    /\ task[t].pc = "probe"
    /\ Fault(Alive(t))
    /\ IF KindOfTask(t) \in {"ledger", "ledger-simulator"}
       THEN Advance(t, "insert", "Unsupported") ELSE Finish(t)
    /\ UNCHANGED <<env, devices, listener, pending, unseen>>

\* Into the map; a Ledger task is done with that.
Insert(t) ==
    /\ task[t].pc = "insert"
    /\ devices' = [devices EXCEPT ![task[t].id] = Entry(t, task[t].res, task[t].conn)]
    /\ unseen' = unseen \union {task[t].id}
    /\ IF KindOfTask(t) = "ledger" THEN Finish(t) ELSE Advance(t, "send", task[t].res)
    /\ UNCHANGED <<env, faults, listener, pending>>

Send(t) ==
    /\ task[t].pc = "send"
    /\ pending' = TRUE
    /\ IF task[t].res = "Locked" THEN Advance(t, "take", "none") ELSE Finish(t)
    /\ UNCHANGED <<env, faults, devices, listener, unseen>>

\* The device is taken out of the Locked entry this task has made, wherever
\* that entry is by now.
Take(t) ==
    /\ task[t].pc = "take"
    /\ devices' = [devices EXCEPT ![task[t].id] =
                      IF @.by = t THEN [@ EXCEPT !.full = FALSE] ELSE @]
    /\ Advance(t, "unlock", "none")
    /\ UNCHANGED <<env, faults, listener, pending, unseen>>

\* auth and get_info of a Jade, wait_confirm of a BitBox02: the user's part.
Unlock(t) ==
    /\ task[t].pc = "unlock"
    /\ \/ /\ Alive(t)
          /\ \E s \in IF KindOfTask(t) = "jade" THEN Found("jade") ELSE {"Supported"} :
                Advance(t, "settle", s)
       \/ Advance(t, "settle", "Failed")
    /\ UNCHANGED <<env, faults, devices, listener, pending, unseen>>

\* An unlocked Jade whose fingerprint cannot be read: the task ends there.
UnlockSilent(t) ==
    /\ task[t].pc = "unlock" /\ KindOfTask(t) = "jade"
    /\ Fault(Alive(t))
    /\ Finish(t)
    /\ UNCHANGED <<env, devices, listener, pending, unseen>>

\* Mutant of Settle: a removal is not announced.
SettleQuietly(t) ==
    /\ task[t].pc = "settle"
    /\ LET id == task[t].id
           new == IF task[t].res = "Failed" THEN Absent
                  ELSE Entry(t, task[t].res, task[t].conn)
       IN /\ devices' = [devices EXCEPT ![id] = new]
          /\ unseen' = IF devices[id] = new THEN unseen ELSE unseen \union {id}
    /\ IF task[t].res = "Failed" THEN Finish(t) ELSE Advance(t, "resend", "none")
    /\ UNCHANGED <<env, faults, listener, pending>>

\* Mutant of Settle: a failed unlock leaves the entry where it is.
SettleKeeps(t) ==
    /\ task[t].pc = "settle"
    /\ IF task[t].res = "Failed" THEN UNCHANGED <<devices, unseen>>
       ELSE /\ devices' = [devices EXCEPT ![task[t].id] = Entry(t, task[t].res, task[t].conn)]
            /\ unseen' = unseen \union {task[t].id}
    /\ Advance(t, "resend", "none")
    /\ UNCHANGED <<env, faults, listener, pending>>

\* The unlocked device replaces the entry; a failure removes it.
Settle(t) ==
    /\ task[t].pc = "settle"
    /\ LET id == task[t].id
           new == IF task[t].res = "Failed" THEN Absent
                  ELSE Entry(t, task[t].res, task[t].conn)
       IN /\ devices' = [devices EXCEPT ![id] = new]
          /\ unseen' = IF devices[id] = new THEN unseen ELSE unseen \union {id}
    /\ Advance(t, "resend", "none")
    /\ UNCHANGED <<env, faults, listener, pending>>

Resend(t) ==
    /\ task[t].pc = "resend"
    /\ pending' = TRUE
    /\ Finish(t)
    /\ UNCHANGED <<env, faults, devices, listener, unseen>>

-----------------------------------------------------------------------------
ListenStep ==
    \/ Refresh \/ Enumerate \/ EnumerateFails \/ Scan \/ Sweep
    \/ Visit \/ VisitedAll \/ SkipBusy \/ Spawn \/ OpenFails \/ Notify

TaskStep(t) ==
    \/ TaskOpens(t) \/ TaskOpenFails(t) \/ Probe(t) \/ ProbeFails(t)
    \/ Insert(t) \/ Send(t) \/ Take(t) \/ Unlock(t) \/ UnlockSilent(t)
    \/ Settle(t) \/ Resend(t)

Next ==
    \/ \E id \in Ids : Plug(id) \/ Unplug(id)
    \/ Consume
    \/ ListenStep
    \/ \E t \in Tasks : TaskStep(t)

Spec == Init /\ [][Next]_vars
\* The listener thread and the tokio runtime make progress, and the consumer
\* reads its channel.  An exchange with a device that is gone ends in an error;
\* while the device is there the user decides how long an unlock takes.
Fairness ==
    /\ WF_vars(ListenStep) /\ WF_vars(Consume)
    /\ \A t \in Tasks : WF_vars(TaskStep(t) /\ (task[t].pc = "unlock" => ~Alive(t)))

FairSpec == Spec /\ Fairness

-----------------------------------------------------------------------------
(* Properties.  A Locked entry is unlocked by the task that made it; the   *)
(* devices without such a phase are the Plain ones.                        *)

Plain == {"specter", "coldcard", "ledger"}

\* A change of the map the consumer has not seen is announced, or about to be
\* by the task that made it.
Announced(id) ==
    id \in unseen => \/ pending
                     \/ \E t \in Tasks : task[t].id = id /\ task[t].pc \in {"send", "resend"}

\* An emptied Locked entry is in the hands of the task that emptied it.
BeingUnlocked(id) ==
    devices[id].state = "Locked" /\ ~devices[id].full =>
        LET t == devices[id].by IN task[t].id = id /\ task[t].pc \in {"unlock", "settle"}

\* No change of the map is lost on a consumer that lists it on Update, for
\* every kind but Ledger, whose task announces nothing.
UpdateFollowsChange == \A id \in Ids : KindOf[id] # "ledger" => Announced(id)

\* A BitBox02 without its device is being unlocked: it becomes Supported or
\* leaves the map, whatever happens to the handle, the cable or the entry.
UnlockUnderway == \A id \in Ids : KindOf[id] = "bitbox" => BeingUnlocked(id)

\* A connection the listener opens itself is never worked on by two tasks,
\* detached ones included.
OneTaskPerConnection ==
    \A t, u \in Tasks :
        Running(t) /\ Running(u) /\ task[t].id = task[u].id
        /\ task[t].conn = task[u].conn /\ KindOfTask(t) \in HidKinds => t = u

\* The cleanup acts on a list that is up to a cycle old, and still never
\* removes the entry of a HID connection that is there.
SweepSparesConnected ==
    [][Sweep => \A id \in gone : KindOf[id] \in HidKinds /\ plugged[id] =>
                   devices[id].conn # session[id]]_vars

\* The directory HwiDirectory specifies, of every kind but Ledger: a task owes an
\* announcement from its change of the map to its send.
Announcing == {id \in Ids : KindOf[id] # "ledger"}
Directory == INSTANCE HwiDirectory WITH
    Ids <- Announcing,
    Workers <- Tasks,
    entries <- [id \in Announcing |-> devices[id].state],
    owed <- {<<t, task[t].id>> : t \in {u \in Tasks : task[u].pc \in {"send", "resend"}}},
    unseen <- unseen \intersect Announcing

\* The listener, its tasks and the devices make up a directory that announces every
\* change: none of their steps changes the map without announcing it or owing that.
ImplementsDirectory == Directory!Spec

\* A device that stays away leaves the map for good, tasks that were still
\* probing it when it went notwithstanding.
DisconnectedLeaves ==
    \A id \in Ids : KindOf[id] \notin SimKinds =>
        (<>[](~plugged[id]) => <>[](~Listed(id)))

\* A device that stays attached comes into the map after any number of failed
\* attempts.  A Plain one stays there; a simulator, which is taken out by being polled,
\* and a device whose unlock failed come back again and again, but for what an unlock
\* in the user's hands keeps from being polled.
ConnectedStays ==
    \A id \in Ids :
        /\ KindOf[id] \in Plain => (<>[]plugged[id] => <>[]Listed(id))
        /\ KindOf[id] \notin Plain =>
              (<>[]plugged[id] =>
                  []<>(Listed(id) \/ \E t \in Tasks : task[t].id = id /\ task[t].pc = "unlock"))

-----------------------------------------------------------------------------
(* What the comments and documents promise, and the code does not keep.    *)

\* "Device map changed": every change is announced, a Ledger's too.
EveryChangeAnnounced == \A id \in Ids : Announced(id)

\* "Inner Option is None while unlock is in progress", of a Jade too.
NoneWhileUnlocking == \A id \in Ids : BeingUnlocked(id)

\* "Device is ready for use": an entry is not for ever on a connection that
\* has been replaced.
ListedIsCurrent ==
    \A id \in Ids : []<>(Listed(id) => devices[id].conn = session[id])
=============================================================================
