---------------------------- MODULE HwiDirectory ----------------------------
(***************************************************************************)
(* What HwiService promises a consumer, without polls, tasks or exchanges: *)
(* a directory of devices that changes, and tells that it has.  A change   *)
(* is announced as it is made, or whoever makes it owes the announcement;  *)
(* a consumer that lists the directory at an announcement has then seen    *)
(* all there is.                                                           *)
(***************************************************************************)
CONSTANTS
    Ids,     \* the device ids
    States,  \* what a listed device may be in
    Workers  \* those who make changes

VARIABLES
    entries,  \* a state per id, or "Absent"
    owed,     \* the announcements still to be made: a worker, and the id it changed
    pending,  \* an announcement is in the consumer's channel
    unseen    \* the ids that changed since the consumer last listed

vars == <<entries, owed, pending, unseen>>

Init ==
    /\ entries = [id \in Ids |-> "Absent"]
    /\ owed = {}
    /\ pending = FALSE
    /\ unseen = {}

\* A worker puts a device into the directory, replaces or removes it, and owes the
\* announcement even if it finds nothing to change.
Change(w, id) ==
    /\ \E s \in States \union {"Absent"} :
          /\ entries' = [entries EXCEPT ![id] = s]
          /\ unseen' = unseen \union {id} \/ (s = entries[id] /\ unseen' = unseen)
    /\ owed' = owed \union {<<w, id>>}
    /\ UNCHANGED pending

\* Some devices are removed, and that is announced; perhaps none are there.
Remove(gone) ==
    /\ entries' = [id \in Ids |-> IF id \in gone THEN "Absent" ELSE entries[id]]
    /\ unseen' = unseen \union {id \in gone : entries[id] # "Absent"}
    /\ pending' = TRUE
    /\ UNCHANGED owed

Announce(w, id) ==
    /\ <<w, id>> \in owed
    /\ owed' = owed \ {<<w, id>>}
    /\ pending' = TRUE
    /\ UNCHANGED <<entries, unseen>>

Consume ==
    /\ pending
    /\ pending' = FALSE
    /\ unseen' = {}
    /\ UNCHANGED <<entries, owed>>

Next ==
    \/ \E w \in Workers, id \in Ids : Change(w, id) \/ Announce(w, id)
    \/ \E gone \in SUBSET Ids : Remove(gone)
    \/ Consume

Spec == Init /\ [][Next]_vars

\* A change the consumer has not seen is announced, or someone owes that.
NothingUnannounced == \A id \in unseen : pending \/ \E w \in Workers : <<w, id>> \in owed
=============================================================================
