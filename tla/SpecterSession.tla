--------------------------- MODULE SpecterSession --------------------------
(***************************************************************************)
(* A Specter from the first probe of its port to the requests of its       *)
(* consumers.  Every request is one exchange: a line with the command, a   *)
(* line "ACK" back, and a line with the result.  Neither line says which   *)
(* request it answers.                                                     *)
(*                                                                         *)
(* On a serial port the probe is given up after 500 ms, and the answer may *)
(* still come.  All exchanges share the port, under a mutex.  With the     *)
(* simulator each exchange has a TCP connection of its own, and the probe  *)
(* is not timed.                                                           *)
(***************************************************************************)
EXTENDS Naturals, Sequences

CONSTANTS
    Requests,     \* the requests of all consumers
    Method,       \* what each asks for
    Transports,   \* how the device may be attached
    Sessions,     \* bound: in each, the requests that may be made
    MaxProbes,    \* bound: how often the device is probed
    MaxTimeouts   \* bound: how many of these probes time out

Methods == {"get_extended_pubkey", "register_wallet", "sign_tx"}
Probe == "probe"
Tasks == Requests \union {Probe}
Port == "port"
NoOne == "no one"

ASSUME MethodType == Method \in [Requests -> Methods]
ASSUME NamesDiffer == {Probe, Port, NoOne} \intersect Requests = {}
ASSUME TransportsType == Transports \subseteq {"serial", "tcp"}
ASSUME SessionsType == Sessions \subseteq SUBSET Requests
ASSUME BoundsNat == MaxProbes \in Nat /\ MaxTimeouts \in Nat

VARIABLES
    transport,  \* how the device is attached
    attached,   \* it is
    inbox,      \* the commands it has not yet looked at
    owed,       \* the lines of its present answer that are not sent yet
    wire,       \* of the port or of each connection, the lines sent and not read
    mutex,      \* who holds SerialTransport.stream
    probing,    \* how far the task of handle_specter has come
    task,       \* the exchange of each task
    probes,     \* how often the device was probed
    timeouts,   \* how many probes have timed out
    asked       \* the number of exchanges begun

device == <<transport, attached, inbox, owed>>
vars == <<device, wire, mutex, probing, task, probes, timeouts, asked>>

Serial == transport = "serial"
Channel(r) == IF Serial THEN Port ELSE r

\* A line of the answer to exchange num, of r, with the command cmd.
Line(q, text, ok) == [to |-> q.to, cmd |-> q.cmd, num |-> q.num, text |-> text, ok |-> ok]
NoLine == [to |-> NoOne, cmd |-> "none", num |-> 0, text |-> "none", ok |-> FALSE]
Idle == [pc |-> "idle", num |-> 0, acked |-> FALSE, got |-> NoLine, out |-> "none"]
Asking == [Idle EXCEPT !.pc = "ask"]

Init ==
    /\ transport \in Transports
    /\ attached = TRUE /\ inbox = <<>> /\ owed = <<>>
    /\ wire = [c \in Tasks \union {Port} |-> <<>>]
    /\ mutex = NoOne
    /\ probing = "closed"
    /\ \E S \in Sessions :
          task = [r \in Tasks |-> IF r \in S \union {Probe} THEN Idle
                                  ELSE [Idle EXCEPT !.pc = "unmade"]]
    /\ probes = 0 /\ timeouts = 0 /\ asked = 0

-----------------------------------------------------------------------------
\* The device

\* It carries out one command after another, and may refuse it.
Reply ==
    /\ attached /\ inbox # <<>> /\ owed = <<>>
    /\ inbox' = Tail(inbox)
    /\ \E ok \in BOOLEAN :
          owed' = <<Line(Head(inbox), "ACK", TRUE), Line(Head(inbox), "result", ok)>>
    /\ UNCHANGED <<transport, attached, wire, mutex, probing, task, probes, timeouts, asked>>

\* A line for a connection that was closed goes nowhere.
Send ==
    /\ owed # <<>>
    /\ owed' = Tail(owed)
    /\ LET l == Head(owed) IN
       IF Serial \/ (task[l.to].pc = "read" /\ task[l.to].num = l.num)
       THEN wire' = [wire EXCEPT ![Channel(l.to)] = Append(@, l)]
       ELSE UNCHANGED wire
    /\ UNCHANGED <<transport, attached, inbox, mutex, probing, task, probes, timeouts, asked>>

Unplug ==
    /\ attached
    /\ attached' = FALSE /\ inbox' = <<>> /\ owed' = <<>>
    /\ UNCHANGED <<transport, wire, mutex, probing, task, probes, timeouts, asked>>

-----------------------------------------------------------------------------
\* An exchange

Command(r) ==
    IF r = Probe THEN "fingerprint"
    ELSE CASE Method[r] = "get_extended_pubkey" -> "xpub"
           [] Method[r] = "register_wallet" -> "addwallet"
           [] Method[r] = "sign_tx" -> "sign"

\* Mutant of Ask: the stream is not locked.
AskAtOnce(r) ==
    /\ task[r].pc = "ask" /\ attached
    /\ mutex' = IF Serial THEN r ELSE mutex
    /\ asked' = asked + 1
    /\ inbox' = Append(inbox, [to |-> r, cmd |-> Command(r), num |-> asked'])
    /\ task' = [task EXCEPT ![r].pc = "read", ![r].num = asked']
    /\ UNCHANGED <<transport, attached, owed, wire, probing, probes, timeouts>>

\* The port is locked, or a connection made, and the command written.
Ask(r) ==
    /\ task[r].pc = "ask" /\ attached
    /\ Serial => mutex = NoOne
    /\ mutex' = IF Serial THEN r ELSE mutex
    /\ asked' = asked + 1
    /\ inbox' = Append(inbox, [to |-> r, cmd |-> Command(r), num |-> asked'])
    /\ task' = [task EXCEPT ![r].pc = "read", ![r].num = asked']
    /\ UNCHANGED <<transport, attached, owed, wire, probing, probes, timeouts>>

\* Mutant of End: an error leaves the port locked.
EndLocked(r, l, out) ==
    /\ mutex' = IF Serial /\ out = "Ok" THEN NoOne ELSE mutex
    /\ IF r # Probe
       THEN task' = [task EXCEPT ![r] = [@ EXCEPT !.pc = "done", !.got = l, !.out = out]]
            /\ UNCHANGED probing
       ELSE IF probing = "checking" /\ (Serial \/ out = "Ok")
       THEN task' = [task EXCEPT ![r] = Asking] /\ probing' = "creating"
       ELSE task' = [task EXCEPT ![r] = Idle]
            /\ probing' = IF probing = "creating" /\ out = "Ok" THEN "listed" ELSE "closed"

\* The exchange of r ends, with the line l if any.  The task of handle_specter
\* looks only at whether the first came in time, and repeats it in
\* SigningDevice::new, whose result decides.
End(r, l, out) ==
    /\ mutex' = IF Serial THEN NoOne ELSE mutex
    /\ IF r # Probe
       THEN task' = [task EXCEPT ![r] = [@ EXCEPT !.pc = "done", !.got = l, !.out = out]]
            /\ UNCHANGED probing
       ELSE IF probing = "checking" /\ (Serial \/ out = "Ok")
       THEN task' = [task EXCEPT ![r] = Asking] /\ probing' = "creating"
       ELSE task' = [task EXCEPT ![r] = Idle]
            /\ probing' = IF probing = "creating" /\ out = "Ok" THEN "listed" ELSE "closed"

\* The result is parsed to what the command returns.
Outcome(r, l) == IF l.text = "result" /\ l.ok /\ l.cmd = Command(r) THEN "Ok" ELSE "Error"

\* Mutant of Lines: what comes first is the result.
LinesAckless(r, b) ==
    IF b[1].text = "ACK" /\ Len(b) > 1 THEN End(r, b[2], Outcome(r, b[2]))
    ELSE End(r, b[1], Outcome(r, b[1]))

\* The lines b are read: the first of the exchange must be "ACK", the second is
\* the result, and further ones are dropped with the buffer.
Lines(r, b) ==
    CASE task[r].acked -> End(r, b[1], Outcome(r, b[1]))
      [] ~task[r].acked /\ b[1].text # "ACK" -> End(r, b[1], "Error")
      [] ~task[r].acked /\ b[1].text = "ACK" ->
            IF Len(b) > 1 THEN End(r, b[2], Outcome(r, b[2]))
            ELSE task' = [task EXCEPT ![r].acked = TRUE] /\ UNCHANGED <<mutex, probing>>

\* One read takes some of the lines that have come.
Read(r) ==
    /\ task[r].pc = "read"
    /\ LET w == wire[Channel(r)] IN
       \E n \in 1..Len(w) :
          /\ wire' = [wire EXCEPT ![Channel(r)] = SubSeq(w, n + 1, Len(w))]
          /\ Lines(r, SubSeq(w, 1, n))
    /\ UNCHANGED <<device, probes, timeouts, asked>>

\* The port or the connection is closed: nothing can be written or read.
ExchangeFails(r) ==
    /\ ~attached
    /\ \/ task[r].pc = "ask" /\ (Serial => mutex = NoOne)
       \/ task[r].pc = "read" /\ wire[Channel(r)] = <<>>
    /\ End(r, NoLine, "Error")
    /\ UNCHANGED <<device, wire, probes, timeouts, asked>>

-----------------------------------------------------------------------------
\* The task of the handler, and the consumers' requests

\* The task opens the port.  What the last one has not read is still there, or
\* was thrown away.
Open ==
    /\ probing = "closed" /\ probes < MaxProbes
    /\ probes' = probes + 1
    /\ probing' = "checking"
    /\ task' = [task EXCEPT ![Probe] = Asking]
    /\ \/ UNCHANGED wire
       \/ wire' = [wire EXCEPT ![Port] = <<>>]
    /\ UNCHANGED <<device, mutex, timeouts, asked>>

\* Mutant of ProbeTimeout: the exchange that was given up keeps the lock.
ProbeTimeoutLocked ==
    /\ Serial /\ probing = "checking" /\ task[Probe].pc = "read"
    /\ timeouts < MaxTimeouts
    /\ timeouts' = timeouts + 1
    /\ probing' = "closed"
    /\ task' = [task EXCEPT ![Probe] = Idle]
    /\ UNCHANGED <<device, wire, mutex, probes, asked>>

\* After 500 ms the exchange is dropped, and with it the port.
ProbeTimeout ==
    /\ Serial /\ probing = "checking" /\ task[Probe].pc = "read"
    /\ timeouts < MaxTimeouts
    /\ timeouts' = timeouts + 1
    /\ probing' = "closed"
    /\ task' = [task EXCEPT ![Probe] = Idle]
    /\ mutex' = NoOne
    /\ UNCHANGED <<device, wire, probes, asked>>

\* A consumer calls a method of the SupportedDevice it has listed.
Start(r) ==
    /\ probing = "listed"
    /\ r # Probe /\ task[r].pc = "idle"
    /\ task' = [task EXCEPT ![r] = Asking]
    /\ UNCHANGED <<device, wire, mutex, probing, probes, timeouts, asked>>

-----------------------------------------------------------------------------
DeviceStep == Reply \/ Send
TaskStep(r) == Ask(r) \/ Read(r) \/ ExchangeFails(r)

Next ==
    \/ DeviceStep
    \/ Unplug
    \/ Open
    \/ ProbeTimeout
    \/ \E r \in Tasks : Start(r) \/ TaskStep(r)

Spec == Init /\ [][Next]_vars

\* The runtime polls its tasks, and the device answers as long as it is attached.
FairSpec == Spec /\ WF_vars(DeviceStep) /\ \A r \in Tasks : WF_vars(TaskStep(r))

-----------------------------------------------------------------------------
\* Properties

Commands == {"fingerprint", "xpub", "addwallet", "sign"}
LineSet == [to : Tasks \union {NoOne}, cmd : Commands \union {"none"}, num : Nat,
            text : {"ACK", "result", "none"}, ok : BOOLEAN]

\* Only one reads the port, and the handler's task ends with the listing.
TypeOK ==
    /\ transport \in Transports
    /\ attached \in BOOLEAN
    /\ inbox \in Seq([to : Tasks, cmd : Commands, num : Nat])
    /\ owed \in Seq(LineSet)
    /\ wire \in [Tasks \union {Port} -> Seq(LineSet)]
    /\ mutex \in Tasks \union {NoOne}
    /\ probing \in {"closed", "checking", "creating", "listed"}
    /\ task \in [Tasks -> [pc : {"unmade", "idle", "ask", "read", "done"}, num : Nat,
                           acked : BOOLEAN, got : LineSet, out : {"none", "Ok", "Error"}]]
    /\ \A r \in Tasks : Serial => (task[r].pc = "read" <=> mutex = r)
    /\ task[Probe].pc = "idle" <=> probing \in {"closed", "listed"}
    /\ probes \in 0..MaxProbes /\ timeouts \in 0..MaxTimeouts
    /\ asked \in Nat

\* Without a timed out probe, no request succeeds with another's answer.
OwnUnlessTimedOut ==
    timeouts = 0 => \A r \in Requests : task[r].out = "Ok" => task[r].got.to = r

\* Timed out probes shift the answers, but no more than one exchange each: errors
\* and dropped lines in between never add to the delay.
LagBounded ==
    \A r \in Requests : task[r].out = "Ok" => task[r].num - task[r].got.num <= timeouts

\* With a device that is there, and no timed out probe, a request fails only if
\* the device refuses it.
FailureHasCause ==
    timeouts = 0 /\ attached =>
        \A r \in Requests : task[r].out = "Error" => task[r].got.to = r /\ ~task[r].got.ok

\* Every request ends, and every probe, whatever stale lines are read.
EveryExchangeEnds ==
    \A r \in Tasks : task[r].pc = "ask" ~> task[r].pc \in {"idle", "done"}
=============================================================================
