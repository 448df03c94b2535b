------------------------- MODULE HwiDirectoryProofs --------------------------
(***************************************************************************)
(* HwiRegistry implements HwiDirectory: its initial states map to initial  *)
(* states of the directory, and every step of the listener, of a task, of  *)
(* a device or of the consumer maps to one of the directory's or to none.  *)
(***************************************************************************)
EXTENDS HwiRegistryProofs

\* The abstract state, as Directory maps it.
Listing == [id \in Announcing |-> devices[id].state]
Owing(t) == task[t].pc \in {"send", "resend"}
Debts == {<<t, task[t].id>> : t \in {u \in Tasks : Owing(u)}}
Missed == unseen \intersect Announcing
mapped == <<Listing, Debts, pending, Missed>>

\* The steps of the directory, spelled out over that state.
Changes(t, id) ==
    /\ \E s \in States \union {"Absent"} :
          /\ Listing' = [Listing EXCEPT ![id] = s]
          /\ Missed' = Missed \union {id} \/ (s = Listing[id] /\ Missed' = Missed)
    /\ Debts' = Debts \union {<<t, id>>}
    /\ UNCHANGED pending

Removes(out) ==
    /\ Listing' = [id \in Announcing |-> IF id \in out THEN "Absent" ELSE Listing[id]]
    /\ Missed' = Missed \union {id \in out : Listing[id] # "Absent"}
    /\ pending' = TRUE
    /\ UNCHANGED Debts

Announces(t, id) ==
    /\ <<t, id>> \in Debts
    /\ Debts' = Debts \ {<<t, id>>}
    /\ pending' = TRUE
    /\ UNCHANGED <<Listing, Missed>>

-----------------------------------------------------------------------------
(* What a step does to the debts.                                          *)

\* A step that lets every task owe what it owed leaves the debts alone.
LEMMA SameDebts ==
    ASSUME \A t \in Tasks : /\ Owing(t)' <=> Owing(t)
                            /\ Owing(t) => task'[t].id = task[t].id
    PROVE  Debts' = Debts
<1>1. Debts' = {<<t, task'[t].id>> : t \in {u \in Tasks : Owing(u)'}}
  BY DEF Debts
<1>2. {u \in Tasks : Owing(u)'} = {u \in Tasks : Owing(u)}
  OBVIOUS
<1> QED
  BY <1>1, <1>2 DEF Debts

\* A task that comes to owe an announcement adds a debt,
LEMMA DebtIncurred ==
    ASSUME NEW t \in Tasks, Owing(t)', task'[t].id = task[t].id,
           \A u \in Tasks \ {t} : task'[u] = task[u]
    PROVE  Debts' = Debts \union {<<t, task[t].id>>}
BY DEF Debts, Owing

\* and one that has made it has none left.
LEMMA DebtPaid ==
    ASSUME NEW t \in Tasks, Owing(t), ~Owing(t)',
           \A u \in Tasks \ {t} : task'[u] = task[u]
    PROVE  /\ <<t, task[t].id>> \in Debts
           /\ Debts' = Debts \ {<<t, task[t].id>>}
BY DEF Debts, Owing
-----------------------------------------------------------------------------
(* A Ledger's task ends with its insert, so that it never owes anything.   *)

Early == {"free", "open", "probe", "insert"}
LedgerOwesNothing == \A t \in Tasks : KindOfTask(t) = "ledger" => task[t].pc \in Early

\* Of a task that goes on or ends, only the step tells what it may owe.
LEMMA LedgerAside ==
    ASSUME IInv, LedgerOwesNothing, NEW t \in Tasks,
           \A u \in Tasks : u # t => task'[u] = task[u],
           KindOf[task'[t].id] = "ledger" => task'[t].pc \in Early
    PROVE  LedgerOwesNothing'
BY DEF LedgerOwesNothing, KindOfTask

\* A Ledger's task has nothing after its insert.
LEMMA LedgerStep ==
    ASSUME IInv, LedgerOwesNothing, NEW t \in Tasks, TaskStep(t)
    PROVE  LedgerOwesNothing'
<1> USE DEF IInv
<1>1. TypeOK /\ SomeDevice /\ Free.pc \in Early
  BY FreeTyped DEF Early
<1>2. CASE Finish(t)
  BY <1>1, <1>2, FinishEffect, LedgerAside
<1>3. CASE \E s \in TaskSteps, r \in Results : Advance(t, s, r) /\ s \in Early
  BY <1>1, <1>3, AdvanceEffect, LedgerAside
<1>4. CASE \E s \in TaskSteps, r \in Results : Advance(t, s, r) /\ KindOfTask(t) # "ledger"
  BY <1>1, <1>4, AdvanceEffect, LedgerAside DEF KindOfTask
<1>5. TaskOpens(t) => LedgerOwesNothing'
  BY <1>1, LedgerAside DEF TaskOpens, TypeOK, Early
<1>6. TaskOpenFails(t) => Finish(t) \/ (Advance(t, "resend", "none") /\ KindOfTask(t) # "ledger")
  BY DEF TaskOpenFails, KindOfTask
<1>7. Probe(t) => \E r \in Results : Advance(t, "insert", r)
  BY FoundStates, KindOfType DEF Probe, Results, KindOfTask, TypeOK
<1>8. ProbeFails(t) => Finish(t) \/ Advance(t, "insert", "Unsupported")
  BY DEF ProbeFails
<1>9. Insert(t) => Finish(t) \/ (Advance(t, "send", task[t].res) /\ KindOfTask(t) # "ledger")
  BY DEF Insert
<1>10. task[t].pc \notin Early => KindOfTask(t) # "ledger"
  BY DEF LedgerOwesNothing
<1>11. Send(t) => Finish(t) \/ (Advance(t, "take", "none") /\ KindOfTask(t) # "ledger")
  BY <1>10 DEF Send, Early
<1>12. Take(t) => Advance(t, "unlock", "none") /\ KindOfTask(t) # "ledger"
  BY <1>10 DEF Take, Early
<1>13. Unlock(t) => \E r \in Results : Advance(t, "settle", r) /\ KindOfTask(t) # "ledger"
  BY <1>10, FoundStates DEF Unlock, Early, Results, States, Found
<1>14. UnlockSilent(t) => Finish(t)
  BY DEF UnlockSilent
<1>15. Settle(t) => Advance(t, "resend", "none") /\ KindOfTask(t) # "ledger"
  BY <1>10 DEF Settle, Early
<1>16. Resend(t) => Finish(t)
  BY DEF Resend
<1>17. {"insert", "send", "take", "unlock", "settle", "resend"} \subseteq TaskSteps
       /\ "insert" \in Early /\ {"none", "Unsupported", task[t].res} \subseteq Results
  BY DEF TaskSteps, Early, Results, States, TypeOK
<1> HIDE DEF IInv
<1> QED
  BY <1>2, <1>3, <1>4, <1>5, <1>6, <1>7, <1>8, <1>9, <1>11, <1>12, <1>13, <1>14, <1>15, <1>16,
     <1>17 DEF TaskStep

\* No other step makes one owe.
LEMMA LedgerInv ==
    ASSUME IInv, LedgerOwesNothing, [Next]_vars
    PROVE  LedgerOwesNothing'
<1>1. CASE \E t \in Tasks : TaskStep(t)
  BY <1>1, LedgerStep
<1>2. CASE Spawn
  BY <1>2, NextTaskFree, LedgerAside DEF IInv, Spawn, TypeOK, Early
<1>3. CASE UNCHANGED task
  BY <1>3 DEF LedgerOwesNothing, KindOfTask
<1>4. [Next]_vars => Spawn \/ UNCHANGED task \/ \E t \in Tasks : TaskStep(t)
  BY DEF Next, Plug, Unplug, Consume, ListenStep, Refresh, Enumerate, EnumerateFails, Scan, Sweep,
         Visit, VisitedAll, SkipBusy, OpenFails, Notify, vars
<1> QED
  BY <1>1, <1>2, <1>3, <1>4
-----------------------------------------------------------------------------
(* The steps.                                                              *)

\* A step that owes what it owed and changes no state is none of the directory's.
LEMMA Unmoved ==
    ASSUME \A id \in Announcing : devices'[id].state = devices[id].state,
           \A t \in Tasks : /\ Owing(t)' <=> Owing(t)
                            /\ Owing(t) => task'[t].id = task[t].id,
           pending' = pending, \A id \in Announcing : id \in unseen' <=> id \in unseen
    PROVE  UNCHANGED mapped
<1>1. Debts' = Debts
  BY SameDebts
<1>2. Listing' = Listing
  BY DEF Listing
<1>3. Missed' = Missed
  BY DEF Missed
<1> QED
  BY <1>1, <1>2, <1>3 DEF mapped

\* Plugging, listing and visiting leave the directory alone; the sweep removes,
\* and handle_ledger announces that nothing was.
LEMMA ListenerMaps ==
    ASSUME IInv, ListenStep
    PROVE  UNCHANGED mapped \/ \E out \in SUBSET Announcing : Removes(out)
<1> USE DEF IInv
<1>1. CASE Sweep
  <2> DEFINE out == gone \intersect Announcing
  <2>1. Listing' = [id \in Announcing |-> IF id \in out THEN "Absent" ELSE Listing[id]]
    <3>1. \A id \in Announcing :
             devices'[id].state = IF id \in out THEN "Absent" ELSE Listing[id]
      BY <1>1 DEF Sweep, Listing, Announcing, Absent
    <3> QED
      BY <3>1 DEF Listing
  <2>2. Missed' = Missed \union {id \in out : Listing[id] # "Absent"}
    <3>1. \A id \in Ids : devices[id] \in Entries \/ devices[id] = Absent
      BY DEF TypeOK
    <3>2. \A entry \in Entries : entry.state # "Absent"
      BY DEF Entries, States
    <3>3. Absent.state = "Absent"
      BY DEF Absent
    <3> QED
      BY <1>1, <3>1, <3>2, <3>3 DEF Sweep, Listed, Missed, Listing, Announcing
  <2>3. Debts' = Debts /\ pending' = TRUE
    BY <1>1, SameDebts DEF Sweep, Owing
  <2>4. out \in SUBSET Announcing
    OBVIOUS
  <2>5. Removes(out)
    BY <2>1, <2>2, <2>3 DEF Removes
  <2> QED
    BY <2>4, <2>5
<1>2. CASE Notify
  <2>1. Listing' = Listing /\ Missed' = Missed /\ Debts' = Debts /\ pending' = TRUE
    BY <1>2, SameDebts DEF Notify, Listing, Missed, Owing
  <2>2. Removes({})
    BY <2>1 DEF Removes, Listing
  <2> QED
    BY <2>2
<1>3. CASE Spawn
  <2>1. \A t \in Tasks : Owing(t)' <=> Owing(t)
    BY <1>3, NextTaskFree DEF Spawn, Owing, Running, TypeOK
  <2>2. \A t \in Tasks : Owing(t) => task'[t].id = task[t].id
    BY <1>3, NextTaskFree DEF Spawn, Owing, Running, TypeOK
  <2> QED
    BY <1>3, <2>1, <2>2, Unmoved DEF Spawn
<1>4. CASE UNCHANGED <<devices, task, pending, unseen>>
  BY <1>4, Unmoved DEF Owing
<1> QED
  BY <1>1, <1>2, <1>3, <1>4 DEF ListenStep, Refresh, Enumerate, EnumerateFails, Scan, Visit,
     VisitedAll, SkipBusy, OpenFails

\* A task that goes on without owing more or less, or ends owing nothing.
LEMMA TaskUnmoved ==
    ASSUME TypeOK, SomeDevice, NEW t \in Tasks, ~Owing(t),
           \/ Finish(t)
           \/ \E s \in TaskSteps \ {"send", "resend"}, r \in Results : Advance(t, s, r),
           \A id \in Announcing : devices'[id].state = devices[id].state,
           pending' = pending, \A id \in Announcing : id \in unseen' <=> id \in unseen
    PROVE  UNCHANGED mapped
<1>1. /\ \A u \in Tasks : u # t => task'[u] = task[u]
      /\ task'[t].pc \notin {"send", "resend"}
  BY AdvanceEffect, FinishEffect, FreeTyped
<1> QED
  BY <1>1, Unmoved DEF Owing

\* A task that writes to the map and goes on to announce it.
LEMMA TaskChanges ==
    ASSUME TypeOK, NEW t \in Tasks, task[t].id \in Announcing,
           NEW s \in {"send", "resend"}, NEW r \in Results, Advance(t, s, r),
           NEW entry, entry.state \in States \union {"Absent"},
           devices' = [devices EXCEPT ![task[t].id] = entry],
           pending' = pending,
           \/ unseen' = unseen \union {task[t].id}
           \/ devices[task[t].id] = entry /\ unseen' = unseen
    PROVE  \E id \in Announcing : Changes(t, id)
<1> DEFINE id == task[t].id
<1>1. Debts' = Debts \union {<<t, id>>}
  BY AdvanceEffect, DebtIncurred DEF TaskSteps, Owing
<1>2. Listing' = [Listing EXCEPT ![id] = entry.state]
  BY DEF TypeOK, Listing, Announcing
<1>3. Missed' = Missed \union {id} \/ (entry.state = Listing[id] /\ Missed' = Missed)
  BY DEF Missed, Listing
<1> QED
  BY <1>1, <1>2, <1>3 DEF Changes

\* A task that sends and then owes nothing more.
LEMMA TaskAnnounces ==
    ASSUME TypeOK, SomeDevice, NEW t \in Tasks, Owing(t), task[t].id \in Announcing,
           Finish(t) \/ Advance(t, "take", "none"),
           pending' = TRUE, UNCHANGED <<devices, unseen>>
    PROVE  \E id \in Announcing : Announces(t, id)
<1>1. /\ \A u \in Tasks : u # t => task'[u] = task[u]
      /\ task'[t].pc \notin {"send", "resend"}
  BY AdvanceEffect, FinishEffect, FreeTyped DEF TaskSteps, Results
<1>2. <<t, task[t].id>> \in Debts /\ Debts' = Debts \ {<<t, task[t].id>>}
  BY <1>1, DebtPaid DEF Owing
<1> QED
  BY <1>2 DEF Announces, Listing, Missed

\* A task changes an entry, announces that, or leaves the directory alone.
LEMMA TaskMaps ==
    ASSUME IInv, LedgerOwesNothing, NEW t \in Tasks, TaskStep(t)
    PROVE  \/ UNCHANGED mapped
           \/ \E id \in Announcing : Changes(t, id) \/ Announces(t, id)
<1> DEFINE id == task[t].id
<1> USE DEF IInv
<1>1. TypeOK /\ SomeDevice /\ id \in Ids
  BY TypedConns
<1>2. TaskSteps \ {"send", "resend"} = {"open", "probe", "insert", "take", "unlock", "settle"}
      /\ {"none", "Failed"} \union States \subseteq Results /\ task[t].res \in Results
  BY DEF TaskSteps, Results, TypeOK
<1>3. KindOfTask(t) # "ledger" => id \in Announcing
  BY <1>1 DEF Announcing, KindOfTask
<1>4. task[t].pc \notin Early => id \in Announcing
  BY <1>3 DEF LedgerOwesNothing
<1>5. CASE TaskOpens(t)
  BY <1>1, <1>5, Unmoved DEF TaskOpens, Owing, TypeOK
<1>6. CASE TaskOpenFails(t)
  <2>1. CASE KindOf[id] = "ledger-simulator" /\ Listed(id)
    <3>1. Advance(t, "resend", "none") /\ devices' = [devices EXCEPT ![id] = Absent]
          /\ unseen' = unseen \union {id} /\ pending' = pending /\ Absent.state = "Absent"
      BY <1>6, <2>1 DEF TaskOpenFails, Absent
    <3> QED
      BY <1>1, <1>2, <1>3, <2>1, <3>1, TaskChanges DEF KindOfTask
  <2>2. CASE ~ (KindOf[id] = "ledger-simulator" /\ Listed(id))
    BY <1>1, <1>6, <2>2, TaskUnmoved DEF TaskOpenFails, Owing
  <2> QED
    BY <2>1, <2>2
<1>7. CASE Probe(t) \/ ProbeFails(t)
  <2>1. Finish(t) \/ \E r \in Results : Advance(t, "insert", r)
    BY <1>2, <1>7, FoundStates, KindOfType, <1>1 DEF Probe, ProbeFails, KindOfTask, States
  <2> QED
    BY <1>1, <1>2, <1>7, <2>1, TaskUnmoved DEF Probe, ProbeFails, Owing
<1>8. CASE Insert(t)
  <2>1. CASE KindOfTask(t) = "ledger"
    <3>1. id \notin Announcing
      BY <2>1 DEF Announcing, KindOfTask
    <3> QED
      BY <1>1, <1>8, <2>1, <3>1, TaskUnmoved DEF Insert, Owing, TypeOK, Announcing
  <2>2. CASE KindOfTask(t) # "ledger"
    <3> DEFINE entry == Entry(t, task[t].res, task[t].conn)
    <3>1. entry.state \in States
      BY <1>8 DEF Insert, ResultsKnown, Entry
    <3>2. Advance(t, "send", task[t].res) /\ devices' = [devices EXCEPT ![id] = entry]
          /\ unseen' = unseen \union {id} /\ pending' = pending
      BY <1>8, <2>2 DEF Insert
    <3> HIDE DEF entry
    <3> QED
      BY <1>1, <1>2, <1>3, <2>2, <3>1, <3>2, TaskChanges
  <2> QED
    BY <2>1, <2>2
<1>9. CASE Send(t) \/ Resend(t)
  BY <1>1, <1>4, <1>9, TaskAnnounces DEF Send, Resend, Owing, Early
<1>10. CASE Take(t)
  <2>1. \A i \in Announcing : devices'[i].state = devices[i].state
    BY <1>10 DEF Take, TypeOK, Entries, Absent, Announcing
  <2> QED
    BY <1>1, <1>2, <1>10, <2>1, TaskUnmoved DEF Take, Owing
<1>11. CASE Unlock(t) \/ UnlockSilent(t)
  <2>1. Finish(t) \/ \E r \in Results : Advance(t, "settle", r)
    BY <1>2, <1>11, FoundStates DEF Unlock, UnlockSilent, Found, States
  <2> QED
    BY <1>1, <1>2, <1>11, <2>1, TaskUnmoved DEF Unlock, UnlockSilent, Owing
<1>12. CASE Settle(t)
  <2> DEFINE new == IF task[t].res = "Failed" THEN Absent ELSE Entry(t, task[t].res, task[t].conn)
  <2>1. new.state \in States \union {"Absent"}
    BY <1>12 DEF Settle, ResultsKnown, Entry, Absent
  <2>2. Advance(t, "resend", "none") /\ devices' = [devices EXCEPT ![id] = new]
        /\ pending' = pending
        /\ (unseen' = unseen \union {id} \/ (devices[id] = new /\ unseen' = unseen))
    BY <1>12 DEF Settle
  <2>3. id \in Announcing
    BY <1>4, <1>12 DEF Settle, Early
  <2> HIDE DEF new
  <2> QED
    BY <1>1, <1>2, <2>1, <2>2, <2>3, TaskChanges
<1> HIDE DEF IInv
<1> QED
  BY <1>5, <1>6, <1>7, <1>8, <1>9, <1>10, <1>11, <1>12 DEF TaskStep
-----------------------------------------------------------------------------
(* The theorem.                                                            *)

\* The spelled-out steps are the directory's.
LEMMA Spelled ==
    /\ Directory!Init <=> /\ Listing = [id \in Announcing |-> "Absent"]
                           /\ Debts = {} /\ pending = FALSE /\ Missed = {}
    /\ (\E t \in Tasks, id \in Announcing : Changes(t, id) \/ Announces(t, id))
          => Directory!Next
    /\ (\E out \in SUBSET Announcing : Removes(out)) => Directory!Next
    /\ Consume => Directory!Next
    /\ UNCHANGED mapped => UNCHANGED Directory!vars
BY DEF Directory!Init, Directory!Next, Directory!vars, Directory!Change, Directory!Announce,
       Directory!Remove, Directory!Consume, Changes, Announces, Removes, Consume, mapped,
       Listing, Debts, Missed, Owing

\* The empty map is the empty directory.
LEMMA InitMaps == Init => Directory!Init /\ LedgerOwesNothing
<1> SUFFICES ASSUME Init PROVE Directory!Init /\ LedgerOwesNothing
  OBVIOUS
<1>1. \A t \in Tasks : task[t].pc = "free"
  BY DEF Init, Free
<1>2. Listing = [id \in Announcing |-> "Absent"] /\ Missed = {} /\ pending = FALSE
  BY DEF Init, Listing, Missed, Announcing, Absent
<1>3. Debts = {}
  BY <1>1 DEF Debts, Owing
<1> QED
  BY <1>1, <1>2, <1>3, Spelled DEF LedgerOwesNothing, Early

\* Every step is one of the directory's or none.
LEMMA StepMaps ==
    ASSUME IInv, LedgerOwesNothing, [Next]_vars
    PROVE  [Directory!Next]_(Directory!vars)
<1>1. CASE UNCHANGED <<devices, task, pending, unseen>>
  BY <1>1, Unmoved, Spelled DEF Owing
<1>2. CASE Consume
  BY <1>2, Spelled
<1>3. CASE ListenStep
  BY <1>3, ListenerMaps, Spelled
<1>4. CASE \E t \in Tasks : TaskStep(t)
  BY <1>4, TaskMaps, Spelled
<1> QED
  BY <1>1, <1>2, <1>3, <1>4 DEF Next, Plug, Unplug, vars

\* The listener, its tasks and the devices implement the directory: every change
\* of the map is announced as it is made, or the task that made it owes that.
THEOREM RegistryRefinesDirectory == Spec => ImplementsDirectory
<1>1. Init => Directory!Init /\ LedgerOwesNothing
  BY InitMaps
<1>2. LedgerOwesNothing /\ IInv /\ [Next]_vars => LedgerOwesNothing'
  BY LedgerInv
<1>3. LedgerOwesNothing /\ IInv /\ [Next]_vars => [Directory!Next]_(Directory!vars)
  BY StepMaps
<1> QED
  BY <1>1, <1>2, <1>3, RegistryInvariance, PTL DEF Spec, ImplementsDirectory, Directory!Spec

\* What the directory promises, and so the registry: a change the consumer has not
\* seen is announced, or a worker owes the announcement.
THEOREM DirectoryAnnounces == Directory!Spec => []Directory!NothingUnannounced
<1> DEFINE Told == \A id \in Missed : pending \/ \E w \in Tasks : <<w, id>> \in Debts
<1>1. Directory!NothingUnannounced <=> Told
  BY DEF Directory!NothingUnannounced, Missed, Debts, Owing
<1>2. Directory!Init => Told
  BY DEF Directory!Init, Missed
<1>3. Told /\ [Directory!Next]_(Directory!vars) => Told'
  <2> SUFFICES ASSUME Told, [Directory!Next]_(Directory!vars) PROVE Told'
    OBVIOUS
  <2>1. CASE \E t \in Tasks, id \in Announcing : Directory!Change(t, id)
    <3>1. PICK t \in Tasks, id \in Announcing : Directory!Change(t, id)
      BY <2>1
    <3>2. /\ Debts' = Debts \union {<<t, id>>} /\ pending' = pending
          /\ Missed' \subseteq Missed \union {id}
      BY <3>1 DEF Directory!Change, Debts, Missed, Owing
    <3> QED
      BY <3>2
  <2>2. CASE \E t \in Tasks, id \in Announcing : Directory!Announce(t, id)
    BY <2>2 DEF Directory!Announce
  <2>3. CASE \E out \in SUBSET Announcing : Directory!Remove(out)
    BY <2>3 DEF Directory!Remove
  <2>4. CASE Directory!Consume
    BY <2>4 DEF Directory!Consume, Missed
  <2>5. CASE UNCHANGED Directory!vars
    BY <2>5 DEF Directory!vars, Missed, Debts, Owing
  <2> QED
    BY <2>1, <2>2, <2>3, <2>4, <2>5 DEF Directory!Next
<1> QED
  BY <1>1, <1>2, <1>3, PTL DEF Directory!Spec
=============================================================================
