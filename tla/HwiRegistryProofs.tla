------------------------- MODULE HwiRegistryProofs --------------------------
(***************************************************************************)
(* Proofs about HwiRegistry for any ids and kinds, any number of tasks and *)
(* any worlds: IInv is an inductive invariant, and the five safety         *)
(* properties of the device map follow from it.                            *)
(***************************************************************************)
EXTENDS HwiRegistry, TLAPS

(* The inductive invariant.                                                *)

\* Some device can still be there: no cycle is without a handler to run.
SomeDevice == \E id \in Ids : session[id] + left[id] > 0

\* A task that is to write to the map knows what it writes, and a Locked entry
\* names the task that made it.
ResultsKnown ==
    /\ \A t \in Tasks : /\ task[t].pc = "insert" => task[t].res \in States
                        /\ task[t].pc = "settle" => task[t].res \in States \union {"Failed"}
    /\ \A id \in Ids : devices[id].state = "Locked" => devices[id].by \in Tasks

\* A HID task is given its connection, and no connection is of the future.
ConnectionsPast ==
    /\ \A id \in Ids : /\ plugged[id] => session[id] > 0
                       /\ devices[id].conn <= session[id]
    /\ \A t \in Tasks : /\ task[t].conn <= session[task[t].id]
                        /\ task[t].pc = "open" => KindOfTask(t) \notin HidKinds

\* What the handler still has to visit is on the HID list of this cycle, and
\* what it is about to remove is not.
PortsOnList ==
    /\ step \notin {"refresh", "enter"} =>
          \A id \in ports : KindOf[id] \in HidKinds => id \in hid
    /\ step = "scan" =>
          \A id \in hid : KindOf[id] = Handler /\ Handler \in HidKinds => id \in ports
    /\ step = "sweep" => \A id \in gone : KindOf[id] \in HidKinds => id \notin hid
    /\ step = "poll" /\ KindOf[cur] \in HidKinds => cur \in hid

\* A HID device missing from the list of this cycle may have come since, but
\* neither the map nor a task knows of that connection.
OffListUnknown ==
    step # "refresh" =>
        \A id \in Ids : KindOf[id] \in HidKinds /\ id \notin hid /\ plugged[id] =>
            /\ devices[id].conn # session[id]
            /\ \A t \in Tasks : Running(t) /\ task[t].id = id => task[t].conn # session[id]

\* A HID task the listener has no handle of is on a connection that is gone.
DetachedIsDead ==
    \A t \in Tasks : Running(t) /\ KindOfTask(t) \in HidKinds /\ handles[task[t].id] # t =>
        ~Alive(t)

IInv ==
    /\ TypeOK /\ SomeDevice /\ ResultsKnown /\ ConnectionsPast
    /\ PortsOnList /\ OffListUnknown /\ DetachedIsDead
    /\ UpdateFollowsChange /\ UnlockUnderway /\ OneTaskPerConnection

-----------------------------------------------------------------------------
(* What the choices in the model yield.                                    *)

\* A nonempty set of handlers has a first one.
LEMMA Least ==
    ASSUME NEW S, S \subseteq 1..Len(ListenOrder), S # {}
    PROVE  Earliest(S) \in S
<1>1. S \subseteq 1..7
  BY DEF ListenOrder
<1>2. \E m \in S : \A k \in S : m <= k
  <2>1. PICK i \in S : TRUE
    OBVIOUS
  <2> QED
    BY <1>1, <2>1
<1> QED
  BY <1>2 DEF Earliest

\* Every kind has its place in the cycle.
LEMMA EveryKindHandled == \A k \in Kinds : \E i \in 1..Len(ListenOrder) : ListenOrder[i] = k
<1>1. Len(ListenOrder) = 7
  BY DEF ListenOrder
<1>2. /\ ListenOrder[1] = "specter-simulator" /\ ListenOrder[2] = "specter"
      /\ ListenOrder[3] = "jade" /\ ListenOrder[4] = "ledger-simulator"
      /\ ListenOrder[5] = "bitbox" /\ ListenOrder[6] = "coldcard"
      /\ ListenOrder[7] = "ledger"
  BY DEF ListenOrder
<1> QED
  BY <1>1, <1>2 DEF Kinds, SimKinds, SerialKinds, HidKinds

\* So a cycle has a first handler.
LEMMA FirstHandler ==
    ASSUME SomeDevice
    PROVE  Earliest(Handlers) \in 1..Len(ListenOrder)
<1>1. PICK id \in Ids : session[id] + left[id] > 0
  BY DEF SomeDevice
<1>2. PICK i \in 1..Len(ListenOrder) : ListenOrder[i] = KindOf[id]
  BY EveryKindHandled, KindOfType
<1>3. i \in Handlers
  BY <1>1, <1>2 DEF Handlers, PrefixKinds
<1>4. Handlers \subseteq 1..Len(ListenOrder)
  BY DEF Handlers
<1> QED
  BY <1>3, <1>4, Least

\* Leaving a handler leads to another or to the end of the cycle.
LEMMA LeaveTyped ==
    ASSUME TypeOK, Leave
    PROVE  at' \in 1..Len(ListenOrder) /\ step' \in {"enter", "refresh"}
<1> DEFINE later == {i \in Handlers : i > at}
<1>1. later \subseteq 1..Len(ListenOrder)
  BY DEF Handlers
<1>2. later # {} => Earliest(later) \in later
  BY <1>1, Least
<1> QED
  BY <1>1, <1>2 DEF Leave, TypeOK

\* The task to spawn is a free one.
LEMMA NextTaskFree ==
    ASSUME FreeTasks # {}
    PROVE  NextTask \in Tasks /\ ~Running(NextTask)
BY DEF FreeTasks, NextTask

\* A free slot is a task like any other.
LEMMA FreeTyped ==
    ASSUME SomeDevice
    PROVE  Free.id \in Ids /\ Free.conn = 0 /\ Free.pc = "free" /\ Free.res = "none"
BY DEF SomeDevice, Free
-----------------------------------------------------------------------------
(* The initial states.                                                     *)

LEMMA InitInv == Init => IInv
<1> SUFFICES ASSUME Init PROVE IInv
  OBVIOUS
<1>1. PICK w \in Worlds : left = w.plugs /\ faults = w.faults
  BY DEF Init
<1>2. left \in [Ids -> Nat] /\ faults \in Nat /\ \E id \in Ids : left[id] > 0
  BY <1>1, WorldsType
<1>3. SomeDevice
  BY <1>2 DEF SomeDevice, Init
<1>4. TypeOK
  <2>1. task \in [Tasks -> [pc : TaskSteps \union {"free"}, id : Ids,
                            conn : Nat, res : Results]]
    BY <1>3 DEF Init, Free, Results, SomeDevice
  <2>2. at \in 1..Len(ListenOrder) /\ cur \in Ids
    BY <1>3 DEF Init, ListenOrder, SomeDevice
  <2> QED
    BY <1>2, <2>1, <2>2 DEF Init, TypeOK
<1>5. ResultsKnown
  BY DEF Init, ResultsKnown, Free, Absent
<1>6. ConnectionsPast
  BY <1>3, FreeTyped DEF Init, ConnectionsPast, Absent
<1>7. PortsOnList /\ OffListUnknown
  BY DEF Init, PortsOnList, OffListUnknown
<1>8. DetachedIsDead /\ OneTaskPerConnection
  BY DEF Init, DetachedIsDead, OneTaskPerConnection, Running, Free
<1>9. UpdateFollowsChange /\ UnlockUnderway
  BY DEF Init, UpdateFollowsChange, Announced, UnlockUnderway, BeingUnlocked, Absent
<1> QED
  BY <1>3, <1>4, <1>5, <1>6, <1>7, <1>8, <1>9 DEF IInv

-----------------------------------------------------------------------------
(* Devices and consumer.                                                   *)

LEMMA TypedConns ==
    ASSUME TypeOK
    PROVE  /\ \A id \in Ids : devices[id].conn \in Nat
           /\ \A t \in Tasks : task[t].conn \in Nat /\ task[t].id \in Ids
BY DEF TypeOK, Entries, Absent

\* A new connection is unknown to the map and to every task.
LEMMA PlugInv ==
    ASSUME IInv, NEW id \in Ids, Plug(id)
    PROVE  IInv'
<1> USE DEF IInv, Plug, listener
<1>1. TypeOK'
  BY DEF TypeOK
<1>2. SomeDevice'
  BY DEF SomeDevice, TypeOK
<1>3. ResultsKnown'
  BY DEF ResultsKnown
<1>4. ConnectionsPast'
  <2>1. \A i \in Ids : session'[i] >= session[i] /\ (plugged'[i] => session'[i] > 0)
    BY DEF TypeOK, ConnectionsPast
  <2> QED
    BY <2>1, TypedConns, SMTT(30) DEF ConnectionsPast, TypeOK, KindOfTask
<1>5. PortsOnList'
  BY DEF PortsOnList, Handler
<1>6. OffListUnknown'
  BY TypedConns, SMTT(30) DEF OffListUnknown, ConnectionsPast, TypeOK, Running
<1>7. DetachedIsDead'
  BY DEF DetachedIsDead, ConnectionsPast, TypeOK, Running, Alive, KindOfTask
<1>8. OneTaskPerConnection'
  BY DEF OneTaskPerConnection, Running, KindOfTask
<1>9. UpdateFollowsChange' /\ UnlockUnderway'
  BY DEF UpdateFollowsChange, Announced, UnlockUnderway, BeingUnlocked
<1> QED
  BY <1>1, <1>2, <1>3, <1>4, <1>5, <1>6, <1>7, <1>8, <1>9

LEMMA UnplugInv ==
    ASSUME IInv, NEW id \in Ids, Unplug(id)
    PROVE  IInv'
<1> USE DEF IInv, Unplug, listener
<1>1. TypeOK' /\ SomeDevice' /\ ResultsKnown'
  BY DEF TypeOK, SomeDevice, ResultsKnown
<1>2. ConnectionsPast' /\ PortsOnList'
  BY DEF ConnectionsPast, TypeOK, KindOfTask, PortsOnList, Handler
<1>3. OffListUnknown'
  BY DEF OffListUnknown, TypeOK, Running
<1>4. DetachedIsDead' /\ OneTaskPerConnection'
  BY DEF DetachedIsDead, TypeOK, Running, Alive, KindOfTask, OneTaskPerConnection
<1>5. UpdateFollowsChange' /\ UnlockUnderway'
  BY DEF UpdateFollowsChange, Announced, UnlockUnderway, BeingUnlocked
<1> QED
  BY <1>1, <1>2, <1>3, <1>4, <1>5

\* A step that leaves the devices, the map and the tasks alone and announces
\* nothing less preserves what is not about the listener.
LEMMA AsideInv ==
    ASSUME IInv, UNCHANGED <<env, devices, handles, task>>,
           pending => pending', unseen' = unseen,
           TypeOK', PortsOnList', OffListUnknown'
    PROVE  IInv'
<1> USE DEF IInv, env
<1>1. SomeDevice' /\ ResultsKnown' /\ ConnectionsPast'
  BY DEF SomeDevice, ResultsKnown, ConnectionsPast, KindOfTask
<1>2. DetachedIsDead' /\ OneTaskPerConnection'
  BY DEF DetachedIsDead, Running, Alive, KindOfTask, OneTaskPerConnection
<1>3. UpdateFollowsChange' /\ UnlockUnderway'
  BY DEF UpdateFollowsChange, Announced, UnlockUnderway, BeingUnlocked
<1> QED
  BY <1>1, <1>2, <1>3

LEMMA ConsumeInv == ASSUME IInv, Consume PROVE IInv'
<1> USE DEF IInv, Consume, env, listener
<1>1. TypeOK' /\ SomeDevice' /\ ResultsKnown' /\ ConnectionsPast'
  BY DEF TypeOK, SomeDevice, ResultsKnown, ConnectionsPast, KindOfTask
<1>2. PortsOnList' /\ OffListUnknown'
  BY DEF PortsOnList, Handler, OffListUnknown, Running
<1>3. DetachedIsDead' /\ OneTaskPerConnection'
  BY DEF DetachedIsDead, Running, Alive, KindOfTask, OneTaskPerConnection
<1>4. UpdateFollowsChange' /\ UnlockUnderway'
  BY DEF UpdateFollowsChange, Announced, UnlockUnderway, BeingUnlocked
<1> QED
  BY <1>1, <1>2, <1>3, <1>4
-----------------------------------------------------------------------------
(* The listener.                                                           *)

\* A device that is not on the new list is not attached.
LEMMA RefreshInv == ASSUME IInv, Refresh PROVE IInv'
<1>1. TypeOK'
  BY FirstHandler DEF IInv, TypeOK, Refresh, env
<1>2. PortsOnList' /\ OffListUnknown'
  BY DEF Refresh, env, PortsOnList, OffListUnknown
<1> QED
  BY <1>1, <1>2, AsideInv DEF Refresh

LEMMA EnumerateInv == ASSUME IInv, Enumerate PROVE IInv'
<1> USE DEF IInv, Enumerate, Goto
<1>1. TypeOK'
  BY DEF TypeOK, env, OfKind
<1>2. PortsOnList'
  <2>1. \A id \in ports' : KindOf[id] = Handler /\ (Handler \in HidKinds => id \in hid)
    BY DEF OfKind
  <2>2. Handler \in HidKinds => ports' = hid \intersect OfKind(Handler)
    OBVIOUS
  <2>3. step' \in {"visit", "scan"} /\ hid' = hid /\ Handler' = Handler
    BY DEF Handler
  <2>4. hid \subseteq Ids
    BY DEF TypeOK
  <2> QED
    BY <2>1, <2>2, <2>3, <2>4 DEF PortsOnList, OfKind
<1>3. OffListUnknown'
  BY DEF OffListUnknown, env, Running
<1> QED
  BY <1>1, <1>2, <1>3, AsideInv

\* Leaving a handler, after it has done its work or without.
LEMMA LeaveInv == ASSUME IInv, EnumerateFails \/ VisitedAll PROVE IInv'
<1>1. Leave /\ faults' \in Nat /\ UNCHANGED <<env, devices, handles, task, hid, ports, gone, cur,
                                             pending, unseen>>
  BY DEF IInv, TypeOK, EnumerateFails, VisitedAll, Fault
<1>2. at' \in 1..Len(ListenOrder) /\ step' \in {"enter", "refresh"}
  BY <1>1, LeaveTyped DEF IInv
<1>3. TypeOK'
  BY <1>1, <1>2 DEF IInv, TypeOK, env
<1>4. PortsOnList'
  BY <1>2 DEF PortsOnList
<1>5. OffListUnknown'
  BY <1>1 DEF IInv, OffListUnknown, env, Running, EnumerateFails, VisitedAll
<1> QED
  BY <1>1, <1>3, <1>4, <1>5, AsideInv

\* Only a HID handler's prefix selects HID devices, and only of its own kind.
LEMMA ScanInv == ASSUME IInv, Scan PROVE IInv'
<1> USE DEF IInv, Scan, Goto
<1>1. TypeOK'
  BY DEF TypeOK, env
<1>2. \A id \in gone' : KindOf[id] \in HidKinds => KindOf[id] = Handler /\ id \notin ports
  BY DEF PrefixKinds, HidKinds
<1>3. PortsOnList'
  BY <1>2 DEF PortsOnList, Handler, TypeOK
<1>4. OffListUnknown'
  BY DEF OffListUnknown, env, Running
<1> QED
  BY <1>1, <1>3, <1>4, AsideInv

LEMMA VisitInv == ASSUME IInv, Visit PROVE IInv'
<1> USE DEF IInv, Visit, Goto
<1>1. TypeOK'
  BY DEF TypeOK, env
<1>2. PortsOnList'
  BY DEF PortsOnList, Handler
<1>3. OffListUnknown'
  BY DEF OffListUnknown, env, Running
<1> QED
  BY <1>1, <1>2, <1>3, AsideInv

\* The handler turns to the next port without having changed anything.
LEMMA NextPortInv == ASSUME IInv, SkipBusy \/ OpenFails \/ Notify PROVE IInv'
<1>1. /\ step \in {"poll", "notify"} /\ step' = "visit"
      /\ faults' \in Nat /\ pending' \in BOOLEAN /\ (pending => pending')
      /\ UNCHANGED <<env, devices, handles, task, at, hid, ports, gone, cur, unseen>>
  <2>1. CASE SkipBusy
    BY <2>1 DEF IInv, TypeOK, SkipBusy, Goto
  <2>2. CASE OpenFails
    BY <2>2 DEF IInv, TypeOK, OpenFails, Fault, Goto
  <2>3. CASE Notify
    BY <2>3 DEF IInv, TypeOK, Notify, Goto
  <2> QED
    BY <2>1, <2>2, <2>3
<1>2. TypeOK'
  BY <1>1 DEF IInv, TypeOK, env
<1>3. PortsOnList' /\ OffListUnknown'
  BY <1>1 DEF IInv, PortsOnList, OffListUnknown, env, Running, Handler
<1> QED
  BY <1>1, <1>2, <1>3, AsideInv

\* What is removed is not on the list, so a task whose handle is dropped is
\* dead already.
LEMMA SweepInv == ASSUME IInv, Sweep PROVE IInv'
<1> USE DEF IInv, Sweep, Goto, env
<1>1. TypeOK' /\ SomeDevice' /\ ResultsKnown'
  BY DEF TypeOK, SomeDevice, ResultsKnown, Absent
<1>2. ConnectionsPast'
  BY DEF ConnectionsPast, TypeOK, KindOfTask, Absent
<1>3. PortsOnList'
  BY DEF PortsOnList, Handler
<1>4. OffListUnknown'
  BY DEF OffListUnknown, ConnectionsPast, TypeOK, Running, Absent
<1>5. DetachedIsDead'
  BY DEF DetachedIsDead, PortsOnList, OffListUnknown, TypeOK, Running, Alive, KindOfTask
<1>6. OneTaskPerConnection'
  BY DEF OneTaskPerConnection, Running, KindOfTask
<1>7. UpdateFollowsChange' /\ UnlockUnderway'
  BY DEF UpdateFollowsChange, Announced, UnlockUnderway, BeingUnlocked, TypeOK, Absent
<1> QED
  BY <1>1, <1>2, <1>3, <1>4, <1>5, <1>6, <1>7

\* Without a handle every task of the id is on a dead connection, so the new
\* task is alone on the present one.
LEMMA SpawnInv == ASSUME IInv, Spawn PROVE IInv'
<1> DEFINE n == NextTask
<1> USE DEF IInv, Spawn, Goto, env
<1>1. n \in Tasks /\ ~Running(n)
  BY NextTaskFree
<1>2. /\ \A t \in Tasks : t # n => task'[t] = task[t]
      /\ task'[n].id = cur /\ task'[n].res = "none"
      /\ KindOf[cur] \in HidKinds => /\ task'[n].pc = "probe" /\ task'[n].conn = session[cur]
                                     /\ plugged[cur]
      /\ KindOf[cur] \notin HidKinds => task'[n].pc = "open" /\ task'[n].conn = 0
  BY <1>1 DEF TypeOK
<1>3. TypeOK' /\ SomeDevice'
  BY <1>1 DEF TypeOK, SomeDevice, TaskSteps, Results
<1>4. ResultsKnown'
  BY <1>1, <1>2 DEF ResultsKnown
<1>5. ConnectionsPast'
  BY <1>1, <1>2 DEF ConnectionsPast, KindOfTask, TypeOK
<1>6. PortsOnList'
  BY DEF PortsOnList, Handler
<1>7. OffListUnknown'
  BY <1>1, <1>2 DEF OffListUnknown, PortsOnList, Running
<1>8. DetachedIsDead'
  <2>1. \A t \in Tasks : t # n /\ handles'[task[t].id] # t => handles[task[t].id] # t
    BY DEF TypeOK, NoTask, Tasks
  <2> QED
    BY <1>1, <1>2, <2>1 DEF DetachedIsDead, TypeOK, Running, Alive, KindOfTask
<1>9. OneTaskPerConnection'
  <2>1. ASSUME NEW t \in Tasks, t # n, Running(t), task[t].id = cur, KindOf[cur] \in HidKinds
        PROVE  task[t].conn # session[cur]
    <3>1. handles[cur] # t
      BY DEF NoTask, Tasks
    <3>2. ~Alive(t)
      BY <2>1, <3>1 DEF DetachedIsDead, KindOfTask
    <3>3. plugged[cur]
      BY <1>2, <2>1
    <3> QED
      BY <2>1, <3>2, <3>3 DEF Alive
  <2> QED
    BY <1>1, <1>2, <2>1 DEF OneTaskPerConnection, Running, KindOfTask
<1>10. UpdateFollowsChange'
  BY <1>1, <1>2 DEF UpdateFollowsChange, Announced, Running
<1>11. UnlockUnderway'
  BY <1>1, <1>2 DEF UnlockUnderway, BeingUnlocked, Running, ResultsKnown
<1> QED
  BY <1>3, <1>4, <1>5, <1>6, <1>7, <1>8, <1>9, <1>10, <1>11
-----------------------------------------------------------------------------
(* The tasks.                                                              *)

\* What every step of a task has in common: it touches itself, the entry of
\* its own id and, when it ends, the handle that refers to it.
TaskEffect(t) ==
    LET id == task[t].id IN
    /\ Running(t)
    /\ UNCHANGED <<plugged, session, left, at, step, hid, ports, gone, cur>>
    /\ \A u \in Tasks : u # t => task'[u] = task[u]
    /\ \/ /\ task'[t].id = id /\ task'[t].pc \notin {"open", "free"}
          /\ \/ task'[t].conn = task[t].conn
             \/ task'[t].conn = session[id] /\ KindOf[id] \notin HidKinds
          /\ handles' = handles
       \/ /\ task'[t] = Free
          /\ \A i \in Ids : handles'[i] = handles[i] \/ handles[i] = t
    /\ \A i \in Ids : i # id => devices'[i] = devices[i]
    /\ devices'[id].conn \in {devices[id].conn, task[t].conn, 0}

\* Such a step preserves everything about connections.
LEMMA TaskEffectInv ==
    ASSUME IInv, NEW t \in Tasks, TaskEffect(t),
           TypeOK', ResultsKnown', UpdateFollowsChange', UnlockUnderway'
    PROVE  IInv'
<1> USE DEF IInv, TaskEffect
<1>1. task[t].id \in Ids /\ task[t].conn \in Nat
  BY TypedConns
<1>2. SomeDevice'
  BY DEF SomeDevice
<1>3. Free.id \in Ids /\ Free.conn = 0 /\ Free.pc = "free"
  BY FreeTyped
<1>4. ConnectionsPast'
  <2>1. /\ \A id \in Ids : session[id] \in Nat /\ devices[id].conn <= session[id]
        /\ \A u \in Tasks : /\ task[u].conn <= session[task[u].id]
                            /\ task[u].pc = "open" => KindOf[task[u].id] \notin HidKinds
    BY DEF ConnectionsPast, TypeOK, KindOfTask
  <2>2. \A id \in Ids : devices'[id].conn <= session[id]
    BY <1>1, <2>1
  <2>3. /\ task'[t].conn <= session[task'[t].id]
        /\ task'[t].pc = "open" => KindOf[task'[t].id] \notin HidKinds
    BY <1>1, <1>3, <2>1
  <2>4. \A u \in Tasks \ {t} : task'[u] = task[u]
    OBVIOUS
  <2> QED
    BY <2>1, <2>2, <2>3, <2>4 DEF ConnectionsPast, KindOfTask
<1>5. PortsOnList'
  BY DEF PortsOnList, Handler
<1>6. OffListUnknown'
  <2> SUFFICES ASSUME step # "refresh",
                      NEW id \in Ids, KindOf[id] \in HidKinds, id \notin hid, plugged[id]
               PROVE  /\ devices'[id].conn # session[id]
                      /\ \A u \in Tasks : task'[u].pc # "free" /\ task'[u].id = id =>
                                             task'[u].conn # session[id]
    BY DEF OffListUnknown, Running
  <2>1. /\ session[id] > 0 /\ devices[id].conn # session[id]
        /\ \A u \in Tasks : task[u].pc # "free" /\ task[u].id = id => task[u].conn # session[id]
    BY DEF OffListUnknown, ConnectionsPast, Running
  <2>2. devices'[id].conn # session[id]
    BY <2>1 DEF Running
  <2> QED
    BY <2>1, <2>2, <1>3 DEF Running
<1>7. DetachedIsDead'
  <2> SUFFICES ASSUME NEW u \in Tasks, task'[u].pc # "free", KindOf[task'[u].id] \in HidKinds,
                      handles'[task'[u].id] # u
               PROVE  ~ (plugged[task'[u].id] /\ session[task'[u].id] = task'[u].conn)
    BY DEF DetachedIsDead, Running, Alive, KindOfTask
  <2>1. CASE u = t
    BY <2>1, <1>3 DEF DetachedIsDead, Running, Alive, KindOfTask
  <2>2. CASE u # t
    <3>1. task'[u] = task[u] /\ task[u].id \in Ids
      BY <2>2, TypedConns
    <3>2. handles[task[u].id] # u
      BY <2>2, <3>1
    <3> QED
      BY <3>1, <3>2 DEF DetachedIsDead, Running, Alive, KindOfTask
  <2> QED
    BY <2>1, <2>2
<1>8. OneTaskPerConnection'
  <2>1. \A u \in Tasks : task'[u].pc # "free" /\ KindOf[task'[u].id] \in HidKinds =>
                         task[u].pc # "free" /\ task'[u].id = task[u].id
                         /\ task'[u].conn = task[u].conn
    BY <1>3 DEF Running
  <2> QED
    BY <2>1 DEF OneTaskPerConnection, Running, KindOfTask
<1> QED
  BY <1>2, <1>4, <1>5, <1>6, <1>7, <1>8
\* A task that goes on keeps its handle, its id and its connection.
LEMMA AdvanceEffect ==
    ASSUME TypeOK, NEW t \in Tasks, NEW s \in TaskSteps, NEW r \in Results, Advance(t, s, r)
    PROVE  /\ task' \in [Tasks -> [pc : TaskSteps \union {"free"}, id : Ids,
                                  conn : Nat, res : Results]]
           /\ handles' = handles
           /\ task'[t].pc = s /\ task'[t].res = r
           /\ task'[t].id = task[t].id /\ task'[t].conn = task[t].conn
           /\ \A u \in Tasks : u # t => task'[u] = task[u]
BY DEF TypeOK, Advance

\* A task that ends frees its slot and the handle that refers to it.
LEMMA FinishEffect ==
    ASSUME TypeOK, SomeDevice, NEW t \in Tasks, Finish(t)
    PROVE  /\ task' \in [Tasks -> [pc : TaskSteps \union {"free"}, id : Ids,
                                  conn : Nat, res : Results]]
           /\ handles' \in [Ids -> Tasks \union {NoTask}]
           /\ task'[t] = Free
           /\ \A i \in Ids : handles'[i] = handles[i] \/ handles[i] = t
           /\ \A u \in Tasks : u # t => task'[u] = task[u]
<1>1. Free \in [pc : TaskSteps \union {"free"}, id : Ids, conn : Nat, res : Results]
  BY DEF Free, SomeDevice, Results
<1> QED
  BY <1>1 DEF TypeOK, Finish

\* A step that changes no entry leaves what is announced announced, unless the
\* task was the one to announce it.
LEMMA StillAnnounced ==
    ASSUME IInv, NEW t \in Tasks, TaskEffect(t), task[t].pc \notin {"send", "resend"},
           pending' = pending, unseen' = unseen
    PROVE  UpdateFollowsChange'
BY DEF IInv, UpdateFollowsChange, Announced, TaskEffect

\* A step that empties no entry, by a task that is not unlocking or stays at it,
\* leaves every emptied entry in its task's hands.
LEMMA StillUnderway ==
    ASSUME IInv, NEW t \in Tasks, TaskEffect(t),
           \/ task[t].pc \notin {"unlock", "settle"}
           \/ task'[t].pc = "settle"
           \/ KindOf[task[t].id] # "bitbox"
           \/ devices'[task[t].id].state # "Locked" \/ devices'[task[t].id].full,
           LET id == task[t].id IN
              \/ devices'[id] = devices[id]
              \/ devices'[id].state # "Locked" \/ devices'[id].full
    PROVE  UnlockUnderway'
<1> SUFFICES ASSUME NEW i \in Ids, KindOf[i] = "bitbox", devices'[i].state = "Locked",
                    ~devices'[i].full
             PROVE  task'[devices'[i].by].id = i /\ task'[devices'[i].by].pc \in {"unlock", "settle"}
  BY DEF UnlockUnderway, BeingUnlocked
<1>1. devices'[i] = devices[i]
  BY DEF TaskEffect
<1>2. devices[i].by \in Tasks /\ task[devices[i].by].id = i
      /\ task[devices[i].by].pc \in {"unlock", "settle"}
  BY <1>1 DEF IInv, ResultsKnown, UnlockUnderway, BeingUnlocked
<1>3. CASE devices[i].by # t
  BY <1>1, <1>2, <1>3 DEF TaskEffect
<1>4. CASE devices[i].by = t
  BY <1>1, <1>2, <1>4 DEF TaskEffect, Free
<1> QED
  BY <1>3, <1>4

\* A step whose own result and entry are fit leaves all results and entries fit.
LEMMA StillKnown ==
    ASSUME IInv, NEW t \in Tasks, TaskEffect(t),
           task'[t].pc = "insert" => task'[t].res \in States,
           task'[t].pc = "settle" => task'[t].res \in States \union {"Failed"},
           LET id == task[t].id IN
              \/ devices'[id] = devices[id]
              \/ devices'[id].state = "Locked" => devices'[id].by \in Tasks
    PROVE  ResultsKnown'
<1>1. \A u \in Tasks : /\ task'[u].pc = "insert" => task'[u].res \in States
                       /\ task'[u].pc = "settle" => task'[u].res \in States \union {"Failed"}
  BY DEF IInv, TaskEffect, ResultsKnown
<1>2. \A id \in Ids : devices'[id].state = "Locked" => devices'[id].by \in Tasks
  BY DEF IInv, TaskEffect, ResultsKnown
<1> QED
  BY <1>1, <1>2 DEF ResultsKnown

\* What a device is found to be is a state of the map.
LEMMA FoundStates == \A k \in Kinds : Found(k) \subseteq States
BY DEF Kinds, SimKinds, SerialKinds, HidKinds, Found, States

LEMMA FaultTyped == ASSUME TypeOK, NEW b, Fault(b) PROVE faults' \in Nat
BY DEF TypeOK, Fault

\* Opening a port or a socket.
LEMMA TaskOpensInv == ASSUME IInv, NEW t \in Tasks, TaskOpens(t) PROVE IInv'
<1> USE DEF IInv, TaskOpens, env, listener
<1>1. TypeOK'
  <2>1. session[task[t].id] \in Nat
    BY DEF TypeOK
  <2>2. task' \in [Tasks -> [pc : TaskSteps \union {"free"}, id : Ids, conn : Nat, res : Results]]
    <3> DEFINE TaskType == [pc : TaskSteps \union {"free"}, id : Ids, conn : Nat, res : Results]
               e == [task[t] EXCEPT !.pc = "probe", !.conn = session[task[t].id]]
    <3>1. task \in [Tasks -> TaskType] /\ task' = [task EXCEPT ![t] = e]
      BY DEF TypeOK
    <3>2. e \in TaskType
      BY <2>1, <3>1 DEF TaskSteps
    <3> HIDE DEF e, TaskType
    <3>3. task' \in [Tasks -> TaskType]
      BY <3>1, <3>2, Zenon
    <3> QED
      BY <3>3 DEF TaskType
  <2> QED
    BY <2>2 DEF TypeOK
<1>2. TaskEffect(t)
  BY DEF TypeOK, TaskEffect, Running, ConnectionsPast, KindOfTask
<1>3. ResultsKnown'
  BY DEF TypeOK, ResultsKnown
<1> QED
  BY <1>1, <1>2, <1>3, StillAnnounced, StillUnderway, TaskEffectInv

LEMMA TaskOpenFailsInv == ASSUME IInv, NEW t \in Tasks, TaskOpenFails(t) PROVE IInv'
<1> DEFINE id == task[t].id
<1> USE DEF IInv, TaskOpenFails, env, listener
<1>0. task[t].id \in Ids /\ faults' \in Nat
  BY TypedConns, FaultTyped
<1>1. CASE KindOf[id] = "ledger-simulator" /\ Listed(id)
  <2>1. devices' = [devices EXCEPT ![id] = Absent] /\ unseen' = unseen \union {id}
        /\ Advance(t, "resend", "none")
    BY <1>1
  <2>2. "resend" \in TaskSteps /\ "none" \in Results
    BY DEF TaskSteps, Results
  <2>3. TypeOK'
    BY <1>0, <2>1, <2>2, AdvanceEffect DEF TypeOK
  <2>4. TaskEffect(t)
    BY <1>0, <2>1, <2>2, AdvanceEffect DEF TaskEffect, Running, TypeOK, Absent
  <2>5. ResultsKnown'
    BY <1>0, <2>1, <2>2, <2>4, AdvanceEffect, StillKnown DEF TypeOK, Absent
  <2>6. UpdateFollowsChange'
    BY <2>1, <2>2, AdvanceEffect DEF UpdateFollowsChange, Announced
  <2>7. UnlockUnderway'
    BY <1>0, <2>1, <2>4, StillUnderway DEF TypeOK, Absent
  <2> QED
    BY <2>3, <2>4, <2>5, <2>6, <2>7, TaskEffectInv
<1>2. CASE ~ (KindOf[id] = "ledger-simulator" /\ Listed(id))
  <2>1. Finish(t) /\ devices' = devices /\ unseen' = unseen
    BY <1>2
  <2>2. TypeOK'
    BY <1>0, <2>1, FinishEffect DEF TypeOK
  <2>3. TaskEffect(t)
    BY <2>1, FinishEffect DEF TaskEffect, Running
  <2>4. ResultsKnown'
    BY <2>1, <2>3, FinishEffect, FreeTyped, StillKnown
  <2> QED
    BY <2>1, <2>2, <2>3, <2>4, StillAnnounced, StillUnderway, TaskEffectInv
<1> QED
  BY <1>1, <1>2

LEMMA ProbeInv == ASSUME IInv, NEW t \in Tasks, Probe(t) PROVE IInv'
<1> USE DEF IInv, Probe, env, listener
<1>1. PICK s \in Found(KindOfTask(t)) : Advance(t, "insert", s)
  OBVIOUS
<1>2. s \in States /\ s \in Results /\ "insert" \in TaskSteps
  BY TypedConns, KindOfType, FoundStates DEF KindOfTask, Results, TaskSteps
<1>3. TypeOK'
  BY <1>1, <1>2, AdvanceEffect DEF TypeOK
<1>4. TaskEffect(t)
  BY <1>1, <1>2, AdvanceEffect DEF TaskEffect, Running
<1>5. ResultsKnown'
  BY <1>1, <1>2, <1>4, AdvanceEffect, StillKnown
<1> QED
  BY <1>3, <1>4, <1>5, StillAnnounced, StillUnderway, TaskEffectInv

LEMMA ProbeFailsInv == ASSUME IInv, NEW t \in Tasks, ProbeFails(t) PROVE IInv'
<1> USE DEF IInv, ProbeFails, env, listener
<1>1. "Unsupported" \in States /\ "Unsupported" \in Results /\ "insert" \in TaskSteps
  BY DEF States, Results, TaskSteps
<1>2. /\ task[t].pc = "probe" /\ faults' \in Nat
      /\ UNCHANGED <<plugged, session, left, devices, at, step, hid, ports, gone, cur,
                     pending, unseen>>
  BY FaultTyped
<1>3. CASE Advance(t, "insert", "Unsupported")
  <2>1. TypeOK'
    BY <1>1, <1>2, <1>3, AdvanceEffect DEF TypeOK
  <2>2. TaskEffect(t)
    BY <1>1, <1>2, <1>3, AdvanceEffect DEF TaskEffect, Running
  <2>3. ResultsKnown'
    BY <1>1, <1>2, <1>3, <2>2, AdvanceEffect, StillKnown
  <2> QED
    BY <1>2, <2>1, <2>2, <2>3, StillAnnounced, StillUnderway, TaskEffectInv
<1>4. CASE Finish(t)
  <2>1. TypeOK'
    BY <1>2, <1>4, FinishEffect DEF TypeOK
  <2>2. TaskEffect(t)
    BY <1>2, <1>4, FinishEffect DEF TaskEffect, Running
  <2>3. ResultsKnown'
    BY <1>2, <1>4, <2>2, FinishEffect, FreeTyped, StillKnown
  <2> QED
    BY <1>2, <2>1, <2>2, <2>3, StillAnnounced, StillUnderway, TaskEffectInv
<1> QED
  BY <1>3, <1>4

\* The entry a task makes is typed, full, and names the task when Locked.
LEMMA EntryFit ==
    ASSUME NEW t \in Tasks, NEW s \in States, NEW c \in Nat
    PROVE  /\ Entry(t, s, c) \in Entries
           /\ Entry(t, s, c).conn = c
           /\ Entry(t, s, c).state = "Locked" => Entry(t, s, c).by = t /\ Entry(t, s, c).full
BY DEF Entry, Entries

LEMMA InsertInv == ASSUME IInv, NEW t \in Tasks, Insert(t) PROVE IInv'
<1> DEFINE id == task[t].id
           e == Entry(t, task[t].res, task[t].conn)
<1> USE DEF IInv, Insert, env, listener
<1>1. /\ id \in Ids /\ task[t].conn \in Nat /\ task[t].res \in States /\ task[t].res \in Results
      /\ "send" \in TaskSteps
  BY TypedConns DEF ResultsKnown, Results, TaskSteps
<1>2. /\ task[t].pc = "insert" /\ devices' \in [Ids -> Entries \union {Absent}] /\ devices'[id] = e
      /\ \A i \in Ids : i # id => devices'[i] = devices[i]
      /\ unseen' = unseen \union {id}
      /\ UNCHANGED <<plugged, session, left, faults, at, step, hid, ports, gone, cur, pending>>
  BY <1>1, EntryFit DEF TypeOK
<1>3. e.conn = task[t].conn /\ (e.state = "Locked" => e.by = t /\ e.full)
  BY <1>1, EntryFit
<1> HIDE DEF e, Insert
<1>4. CASE KindOf[id] = "ledger" /\ Finish(t)
  <2>1. TypeOK'
    BY <1>1, <1>2, <1>4, FinishEffect DEF TypeOK
  <2>2. TaskEffect(t)
    BY <1>2, <1>3, <1>4, FinishEffect DEF TaskEffect, Running
  <2>3. ResultsKnown'
    BY <1>2, <1>3, <1>4, <2>2, FinishEffect, FreeTyped, StillKnown
  <2>4. UpdateFollowsChange'
    BY <1>2, <1>4, <2>2 DEF UpdateFollowsChange, Announced, TaskEffect
  <2>5. UnlockUnderway'
    BY <1>2, <1>3, <1>4, <2>2, StillUnderway
  <2> QED
    BY <2>1, <2>2, <2>3, <2>4, <2>5, TaskEffectInv
<1>5. CASE KindOf[id] # "ledger" /\ Advance(t, "send", task[t].res)
  <2>1. TypeOK'
    BY <1>1, <1>2, <1>5, AdvanceEffect DEF TypeOK
  <2>2. TaskEffect(t)
    BY <1>1, <1>2, <1>3, <1>5, AdvanceEffect DEF TaskEffect, Running
  <2>3. ResultsKnown'
    BY <1>1, <1>2, <1>3, <1>5, <2>2, AdvanceEffect, StillKnown
  <2>4. UpdateFollowsChange'
    <3>1. task'[t].pc = "send" /\ task'[t].id = id
      BY <1>1, <1>5, AdvanceEffect
    <3> QED
      BY <1>2, <3>1, <2>2 DEF UpdateFollowsChange, Announced, TaskEffect
  <2>5. UnlockUnderway'
    BY <1>2, <1>3, <2>2, StillUnderway
  <2> QED
    BY <2>1, <2>2, <2>3, <2>4, <2>5, TaskEffectInv
<1> QED
  BY <1>4, <1>5 DEF Insert, KindOfTask

LEMMA SendInv == ASSUME IInv, NEW t \in Tasks, Send(t) PROVE IInv'
<1> USE DEF IInv, Send, env, listener
<1>1. "none" \in Results /\ "take" \in TaskSteps
  BY DEF Results, TaskSteps
<1>2. UpdateFollowsChange'
  BY DEF UpdateFollowsChange, Announced
<1>3. CASE Advance(t, "take", "none")
  <2>1. TypeOK'
    BY <1>1, <1>3, AdvanceEffect DEF TypeOK
  <2>2. TaskEffect(t)
    BY <1>1, <1>3, AdvanceEffect DEF TaskEffect, Running
  <2>3. ResultsKnown'
    BY <1>1, <1>3, <2>2, AdvanceEffect, StillKnown
  <2> QED
    BY <1>2, <2>1, <2>2, <2>3, StillUnderway, TaskEffectInv
<1>4. CASE Finish(t)
  <2>1. TypeOK'
    BY <1>4, FinishEffect DEF TypeOK
  <2>2. TaskEffect(t)
    BY <1>4, FinishEffect DEF TaskEffect, Running
  <2>3. ResultsKnown'
    BY <1>4, <2>2, FinishEffect, FreeTyped, StillKnown
  <2> QED
    BY <1>2, <2>1, <2>2, <2>3, StillUnderway, TaskEffectInv
<1> QED
  BY <1>3, <1>4

\* The task that empties an entry is the one the entry names.
LEMMA TakeInv == ASSUME IInv, NEW t \in Tasks, Take(t) PROVE IInv'
<1> DEFINE id == task[t].id
<1> USE DEF IInv, Take, env, listener
<1>1. "none" \in Results /\ "unlock" \in TaskSteps /\ id \in Ids
  BY TypedConns DEF Results, TaskSteps
<1>2. /\ devices' \in [Ids -> Entries \union {Absent}]
      /\ \A i \in Ids : i # id => devices'[i] = devices[i]
      /\ devices'[id].conn = devices[id].conn /\ devices'[id].by = devices[id].by
      /\ devices'[id].state = devices[id].state
      /\ devices[id].by # t => devices'[id] = devices[id]
  <2>1. devices[id].by = t => devices[id] \in Entries
    BY <1>1 DEF TypeOK, Absent, NoTask, Tasks
  <2>2. CASE devices[id].by = t
    <3>1. devices' = [devices EXCEPT ![id] = [@ EXCEPT !.full = FALSE]]
      BY <1>1, <2>2 DEF TypeOK
    <3>2. [devices[id] EXCEPT !.full = FALSE] \in Entries
      BY <2>1, <2>2 DEF Entries
    <3> QED
      BY <1>1, <2>1, <2>2, <3>1, <3>2 DEF TypeOK, Entries
  <2>3. CASE devices[id].by # t
    BY <1>1, <2>3 DEF TypeOK
  <2> QED
    BY <2>2, <2>3
<1>3. /\ task'[t].pc = "unlock" /\ task'[t].res = "none" /\ task'[t].id = id
      /\ \A u \in Tasks : u # t => task'[u] = task[u]
  BY <1>1, AdvanceEffect
<1>4. TypeOK'
  BY <1>1, <1>2, AdvanceEffect DEF TypeOK
<1>5. TaskEffect(t)
  BY <1>1, <1>2, AdvanceEffect DEF TaskEffect, Running
<1>6. ResultsKnown'
  BY <1>1, <1>2, <1>3, <1>5, StillKnown DEF ResultsKnown
<1>7. UnlockUnderway'
  <2> SUFFICES ASSUME NEW i \in Ids, KindOf[i] = "bitbox", devices'[i].state = "Locked",
                      ~devices'[i].full
               PROVE  task'[devices'[i].by].id = i
                      /\ task'[devices'[i].by].pc \in {"unlock", "settle"}
    BY DEF UnlockUnderway, BeingUnlocked
  <2>1. devices[i].state = "Locked" /\ devices'[i].by = devices[i].by /\ devices[i].by \in Tasks
    BY <1>2 DEF ResultsKnown
  <2>2. CASE devices[i].by = t
    <3>1. i = id
      BY <1>2, <2>1, <2>2 DEF UnlockUnderway, BeingUnlocked
    <3> QED
      BY <1>3, <2>1, <2>2, <3>1
  <2>3. CASE devices[i].by # t
    <3>1. ~devices[i].full
      BY <1>2, <2>3
    <3> QED
      BY <1>3, <2>1, <2>3, <3>1 DEF UnlockUnderway, BeingUnlocked
  <2> QED
    BY <2>2, <2>3
<1> QED
  BY <1>4, <1>5, <1>6, <1>7, StillAnnounced, TaskEffectInv

LEMMA UnlockInv == ASSUME IInv, NEW t \in Tasks, Unlock(t) PROVE IInv'
<1> USE DEF IInv, Unlock, env, listener
<1>1. PICK s \in States \union {"Failed"} : Advance(t, "settle", s)
  <2>1. "jade" \in Kinds /\ "Supported" \in States
    BY DEF Kinds, SerialKinds, States
  <2> QED
    BY <2>1, FoundStates
<1>2. s \in Results /\ "settle" \in TaskSteps
  BY DEF Results, TaskSteps
<1>3. TypeOK'
  BY <1>1, <1>2, AdvanceEffect DEF TypeOK
<1>4. TaskEffect(t)
  BY <1>1, <1>2, AdvanceEffect DEF TaskEffect, Running
<1>5. ResultsKnown'
  BY <1>1, <1>2, <1>4, AdvanceEffect, StillKnown
<1>6. UnlockUnderway'
  BY <1>1, <1>2, <1>4, AdvanceEffect, StillUnderway
<1> QED
  BY <1>3, <1>4, <1>5, <1>6, StillAnnounced, TaskEffectInv

LEMMA UnlockSilentInv == ASSUME IInv, NEW t \in Tasks, UnlockSilent(t) PROVE IInv'
<1> USE DEF IInv, UnlockSilent, env, listener
<1>1. faults' \in Nat
  BY FaultTyped
<1>2. TypeOK'
  BY <1>1, FinishEffect DEF TypeOK
<1>3. TaskEffect(t)
  BY FinishEffect DEF TaskEffect, Running
<1>4. ResultsKnown'
  BY <1>3, FinishEffect, FreeTyped, StillKnown
<1>5. UnlockUnderway'
  BY <1>3, StillUnderway DEF KindOfTask
<1> QED
  BY <1>2, <1>3, <1>4, <1>5, StillAnnounced, TaskEffectInv

\* Whatever becomes of the unlock, the entry is not an empty one after it.
LEMMA SettleInv == ASSUME IInv, NEW t \in Tasks, Settle(t) PROVE IInv'
<1> DEFINE id == task[t].id
           new == IF task[t].res = "Failed" THEN Absent ELSE Entry(t, task[t].res, task[t].conn)
<1> USE DEF IInv, Settle, env, listener
<1>1. /\ id \in Ids /\ "none" \in Results /\ "resend" \in TaskSteps
      /\ task[t].res \in States \union {"Failed"} /\ task[t].conn \in Nat
  BY TypedConns DEF Results, TaskSteps, ResultsKnown
<1>2. /\ new \in Entries \union {Absent}
      /\ new.conn \in {task[t].conn, 0}
      /\ new.state = "Locked" => new.by = t /\ new.full
  BY <1>1, EntryFit DEF Absent
<1>3. /\ devices' \in [Ids -> Entries \union {Absent}] /\ devices'[id] = new
      /\ \A i \in Ids : i # id => devices'[i] = devices[i]
      /\ unseen' \subseteq unseen \union {id}
  BY <1>1, <1>2 DEF TypeOK
<1>4. TypeOK'
  BY <1>1, <1>3, AdvanceEffect DEF TypeOK
<1>5. TaskEffect(t)
  BY <1>1, <1>2, <1>3, AdvanceEffect DEF TaskEffect, Running
<1>6. ResultsKnown'
  BY <1>1, <1>2, <1>3, <1>5, AdvanceEffect, StillKnown
<1>7. UpdateFollowsChange'
  <2>1. task'[t].pc = "resend" /\ task'[t].id = id
    BY <1>1, AdvanceEffect
  <2> QED
    BY <1>3, <1>5, <2>1 DEF UpdateFollowsChange, Announced, TaskEffect
<1>8. UnlockUnderway'
  BY <1>2, <1>3, <1>5, StillUnderway
<1> QED
  BY <1>4, <1>5, <1>6, <1>7, <1>8, TaskEffectInv

LEMMA ResendInv == ASSUME IInv, NEW t \in Tasks, Resend(t) PROVE IInv'
<1> USE DEF IInv, Resend, env, listener
<1>1. TypeOK'
  BY FinishEffect DEF TypeOK
<1>2. TaskEffect(t)
  BY FinishEffect DEF TaskEffect, Running
<1>3. ResultsKnown'
  BY <1>2, FinishEffect, FreeTyped, StillKnown
<1>4. UpdateFollowsChange'
  BY DEF UpdateFollowsChange, Announced
<1> QED
  BY <1>1, <1>2, <1>3, <1>4, StillUnderway, TaskEffectInv

-----------------------------------------------------------------------------
(* The theorems.                                                           *)

LEMMA StutterInv == ASSUME IInv, UNCHANGED vars PROVE IInv'
<1> USE DEF vars, env, listener
<1>1. TypeOK' /\ PortsOnList' /\ OffListUnknown'
  BY DEF IInv, TypeOK, PortsOnList, OffListUnknown, Handler, Running
<1> QED
  BY <1>1, AsideInv

\* IInv is inductive, and so an invariant.
THEOREM RegistryInvariance == Spec => []IInv
<1>1. IInv /\ [Next]_vars => IInv'
  <2> SUFFICES ASSUME IInv, [Next]_vars PROVE IInv'
    OBVIOUS
  <2>1. CASE UNCHANGED vars
    BY <2>1, StutterInv
  <2>2. CASE \E id \in Ids : Plug(id) \/ Unplug(id)
    BY <2>2, PlugInv, UnplugInv
  <2>3. CASE Consume
    BY <2>3, ConsumeInv
  <2>4. CASE ListenStep
    BY <2>4, RefreshInv, EnumerateInv, LeaveInv, ScanInv, SweepInv, VisitInv, NextPortInv, SpawnInv
       DEF ListenStep
  <2>5. CASE \E t \in Tasks : TaskStep(t)
    <3>1. PICK t \in Tasks : TaskStep(t)
      BY <2>5
    <3>2. CASE TaskOpens(t) \/ TaskOpenFails(t) \/ Probe(t) \/ ProbeFails(t)
      BY <3>2, TaskOpensInv, TaskOpenFailsInv, ProbeInv, ProbeFailsInv
    <3>3. CASE Insert(t) \/ Send(t) \/ Take(t)
      BY <3>3, InsertInv, SendInv, TakeInv
    <3>4. CASE Unlock(t) \/ UnlockSilent(t) \/ Settle(t) \/ Resend(t)
      BY <3>4, UnlockInv, UnlockSilentInv, SettleInv, ResendInv
    <3> QED
      BY <3>1, <3>2, <3>3, <3>4 DEF TaskStep
  <2> QED
    BY <2>1, <2>2, <2>3, <2>4, <2>5 DEF Next
<1> QED
  BY <1>1, InitInv, PTL DEF Spec

\* The variables of the device map keep their types.
THEOREM RegistryTypes == Spec => []TypeOK
BY RegistryInvariance, PTL DEF IInv

\* A change of the device map is followed by an Update, except a Ledger's.
THEOREM NoChangeLost == Spec => []UpdateFollowsChange
BY RegistryInvariance, PTL DEF IInv

\* A BitBox02 taken out of its Locked entry is in the hands of the task that
\* unlocks it.
THEOREM EmptyMeansUnlocking == Spec => []UnlockUnderway
BY RegistryInvariance, PTL DEF IInv

\* Two tasks never work on one connection the listener has opened.
THEOREM ConnectionsExclusive == Spec => []OneTaskPerConnection
BY RegistryInvariance, PTL DEF IInv

\* A cleanup never removes the entry of a HID connection that is there.
THEOREM SweepIsSafe == Spec => SweepSparesConnected
<1>1. IInv => (Sweep => \A id \in gone : KindOf[id] \in HidKinds /\ plugged[id] =>
                           devices[id].conn # session[id])
  BY DEF IInv, Sweep, PortsOnList, OffListUnknown, TypeOK
<1> QED
  BY <1>1, RegistryInvariance, PTL DEF SweepSparesConnected
=============================================================================
