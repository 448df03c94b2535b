----------------------------- MODULE JadeSession ----------------------------
(***************************************************************************)
(* The requests consumers make on a supported Jade: each is a task on the  *)
(* tokio runtime, made of one or more exchanges over the serial stream all *)
(* tasks share.  A mutex is held for one exchange, not for one request.    *)
(*                                                                         *)
(* The device answers one command after another and sends an answer in one *)
(* part or in two.  A reader waits for the first part as long as it takes  *)
(* and gives up when the next does not come within a second; whatever is   *)
(* sent after that stays in the stream.                                    *)
(***************************************************************************)
EXTENDS Naturals, SequencesExt

CONSTANTS
    Requests,   \* the requests of all consumers
    Method,     \* what each asks for
    Pieces,     \* in how many pieces the device returns what it has signed for each
    Sessions,   \* bound: in each, the requests that may be made, and whether the
                \* client was given the name of a wallet: a service's never is
    MaxStalls   \* bound: how often the device pauses for a second within an answer

\* display_address is asked for an address of the wallet, or for a P2TR one.
Methods == {"get_extended_pubkey", "display_miniscript", "display_p2tr", "register_wallet",
            "is_wallet_registered", "sign_tx"}
NoOne == "no one"

ASSUME MethodType == Method \in [Requests -> Methods]
ASSUME PiecesType == Pieces \in [Requests -> Nat \ {0}]
ASSUME NamesDiffer == NoOne \notin Requests
ASSUME SessionsType == Sessions \subseteq [made : SUBSET Requests, named : BOOLEAN]
ASSUME MaxStallsNat == MaxStalls \in Nat

VARIABLES
    named,     \* descriptor_name is set: the client was built with_wallet
    attached,  \* the device is connected
    inbox,     \* the commands it has not yet looked at
    sending,   \* the last piece it has given out, if the last answer was one
    owed,      \* the parts of its present answer that are not sent yet
    wire,      \* the parts sent and not yet read
    mutex,     \* who holds SerialTransport.stream
    task,      \* the task of each request
    stalls     \* how often the device has paused

device == <<attached, inbox, sending, owed>>
vars == <<named, device, wire, mutex, task, stalls>>

Commands == {"get_xpub", "get_receive_address", "register_descriptor",
             "get_registered_descriptors", "get_registered_descriptor",
             "sign_psbt", "get_extended_data"}
Signing == {"sign_psbt", "get_extended_data"}

\* An answer is the num-th of the len its request takes.  For which request it
\* was given is not part of what is sent: the id is that of the process.
Answer(r, cmd, num, len) == [to |-> r, cmd |-> cmd, ok |-> TRUE, num |-> num, len |-> len]
Refusal(r, cmd) == [to |-> r, cmd |-> cmd, ok |-> FALSE, num |-> 0, len |-> 0]
NoAnswer == Refusal(NoOne, "sign_psbt")
RequestId(r) == "process id"

Part(a, p) == [answer |-> a, part |-> p]
Idle == [pc |-> "idle", buf |-> <<>>, got |-> <<>>, out |-> "none"]

Init ==
    /\ attached = TRUE /\ inbox = <<>> /\ sending = NoAnswer /\ owed = <<>>
    /\ wire = <<>> /\ mutex = NoOne
    /\ \E S \in Sessions :
          /\ named = S.named
          /\ task = [r \in Requests |-> IF r \in S.made THEN Idle ELSE [Idle EXCEPT !.pc = "unmade"]]
    /\ stalls = 0

-----------------------------------------------------------------------------
\* The device

\* It gives out the next piece of what it has signed last, when asked for it by
\* its number, the number of pieces and the id of the request it has signed for.
NextPiece(q) ==
    /\ sending.ok /\ sending.num < sending.len
    /\ q.num = sending.num + 1 /\ q.len = sending.len
    /\ RequestId(q.to) = RequestId(sending.to)

Answers(q) ==
    {Refusal(q.to, q.cmd)} \union
    CASE q.cmd = "sign_psbt" -> {Answer(q.to, q.cmd, 1, Pieces[q.to])}
      [] q.cmd = "get_extended_data" ->
            IF NextPiece(q) THEN {Answer(sending.to, q.cmd, q.num, q.len)} ELSE {}
      [] q.cmd = "get_registered_descriptors" ->
            {Answer(q.to, q.cmd, 1, 1), Answer(q.to, q.cmd, 1, 2)}
      [] q.cmd = "get_registered_descriptor" -> {Answer(q.to, q.cmd, 2, 2)}
      [] OTHER -> {Answer(q.to, q.cmd, 1, 1)}

Reply ==
    /\ attached /\ inbox # <<>> /\ owed = <<>>
    /\ inbox' = Tail(inbox)
    /\ \E a \in Answers(Head(inbox)) :
          /\ owed' \in {<<Part(a, "whole")>>, <<Part(a, "head"), Part(a, "tail")>>}
          /\ sending' = IF a.ok /\ a.cmd \in Signing THEN a ELSE NoAnswer
    /\ UNCHANGED <<named, attached, wire, mutex, task, stalls>>

Send ==
    /\ owed # <<>>
    /\ wire' = Append(wire, Head(owed))
    /\ owed' = Tail(owed)
    /\ UNCHANGED <<named, attached, inbox, sending, mutex, task, stalls>>

Unplug ==
    /\ attached
    /\ attached' = FALSE /\ inbox' = <<>> /\ owed' = <<>>
    /\ UNCHANGED <<named, sending, wire, mutex, task, stalls>>

-----------------------------------------------------------------------------
\* The tasks

\* A consumer calls a method of SupportedDevice, which spawns a task.
Start(r) ==
    /\ task[r].pc = "idle"
    /\ task' = [task EXCEPT ![r].pc = "ask"]
    /\ UNCHANGED <<named, device, wire, mutex, stalls>>

\* display_address knows addresses of a wallet it can name, and no others.
Unimplemented(r) ==
    \/ Method[r] = "display_p2tr"
    \/ Method[r] = "display_miniscript" /\ ~named

\* UnimplementedMethod: the stream is neither locked nor waited for.
Decline(r) ==
    /\ task[r].pc = "ask" /\ Unimplemented(r)
    /\ task' = [task EXCEPT ![r].pc = "done", ![r].out = "Error"]
    /\ UNCHANGED <<named, device, wire, mutex, stalls>>

\* The next command of r, from the answers it has got; a display_address that gets
\* here has one only.
Command(r) ==
    CASE Method[r] = "get_extended_pubkey" -> "get_xpub"
      [] Method[r] \in {"display_miniscript", "display_p2tr"} -> "get_receive_address"
      [] Method[r] = "register_wallet" -> "register_descriptor"
      [] Method[r] = "is_wallet_registered" ->
            IF task[r].got = <<>> THEN "get_registered_descriptors" ELSE "get_registered_descriptor"
      [] Method[r] = "sign_tx" ->
            IF task[r].got = <<>> THEN "sign_psbt" ELSE "get_extended_data"

\* Only a request for a piece says which one it wants, after the last it got.
Question(r) ==
    LET piece == Command(r) = "get_extended_data" IN
    [to |-> r, cmd |-> Command(r),
     num |-> IF piece THEN Last(task[r].got).num + 1 ELSE 1,
     len |-> IF piece THEN Last(task[r].got).len ELSE 1]

\* Mutant of Ask: the stream is not locked.
AskAtOnce(r) ==
    /\ task[r].pc = "ask" /\ ~Unimplemented(r) /\ attached
    /\ mutex' = r
    /\ inbox' = Append(inbox, Question(r))
    /\ task' = [task EXCEPT ![r].pc = "read"]
    /\ UNCHANGED <<named, attached, sending, owed, wire, stalls>>

\* The stream is locked and the command written.
Ask(r) ==
    /\ task[r].pc = "ask" /\ ~Unimplemented(r) /\ attached
    /\ mutex = NoOne /\ mutex' = r
    /\ inbox' = Append(inbox, Question(r))
    /\ task' = [task EXCEPT ![r].pc = "read"]
    /\ UNCHANGED <<named, attached, sending, owed, wire, stalls>>

\* The exchange ends without an answer, and the request with an error.
Fail(r) ==
    /\ task' = [task EXCEPT ![r].pc = "done", ![r].buf = <<>>, ![r].out = "Error"]
    /\ mutex' = NoOne

AskFails(r) ==
    /\ task[r].pc = "ask" /\ ~Unimplemented(r) /\ ~attached
    /\ mutex = NoOne
    /\ Fail(r)
    /\ UNCHANGED <<named, device, wire, stalls>>

\* The type the result is deserialized to.
ResultType(cmd) ==
    CASE cmd \in {"get_xpub", "get_receive_address"} -> "String"
      [] cmd = "register_descriptor" -> "bool"
      [] cmd = "get_registered_descriptors" -> "BTreeMap"
      [] cmd = "get_registered_descriptor" -> "GetRegisteredDescriptorResponse"
      [] cmd \in Signing -> "ByteBuf"

\* What was read is one answer, of the type expected if it is no error.
Parses(b, cmd) ==
    /\ \/ Len(b) = 1 /\ b[1].part = "whole"
       \/ Len(b) = 2 /\ b[1].part = "head" /\ b[2] = Part(b[1].answer, "tail")
    /\ b[1].answer.ok => ResultType(b[1].answer.cmd) = ResultType(cmd)

\* The pieces are the bytes of one PSBT.
Deserializes(g) == \A i \in DOMAIN g : g[i].to = g[1].to /\ g[i].num = i /\ g[i].len = Len(g)

\* What the request comes to with the answers g, the last of its exchanges done.
Result(r, g) ==
    IF /\ Last(g).ok
       /\ Method[r] = "get_extended_pubkey" => Last(g).cmd = "get_xpub"
       /\ Method[r] = "sign_tx" => Deserializes(g)
    THEN "Ok" ELSE "Error"

\* Mutant of More: the last piece is not asked for.
MoreButOne(a) == a.ok /\ a.num + 1 < a.len

\* A further exchange follows: while seqnum < seqlen, or the name is registered.
More(a) == a.ok /\ a.num < a.len

\* Mutant of TakeIn: the stream stays locked between the pieces.
TakeInLocked(r, a) ==
    LET g == Append(task[r].got, a) IN
    /\ mutex' = IF More(a) THEN r ELSE NoOne
    /\ task' = [task EXCEPT ![r] =
                  IF More(a) THEN [pc |-> "ask", buf |-> <<>>, got |-> g, out |-> "none"]
                  ELSE [pc |-> "done", buf |-> <<>>, got |-> g, out |-> Result(r, g)]]

\* Mutant of TakeIn: the next exchange goes on with the buffer of the last one.
TakeInBuffered(r, a) ==
    LET g == Append(task[r].got, a) IN
    /\ mutex' = NoOne
    /\ task' = [task EXCEPT ![r] =
                  IF More(a) THEN [@ EXCEPT !.pc = "ask", !.got = g]
                  ELSE [pc |-> "done", buf |-> <<>>, got |-> g, out |-> Result(r, g)]]

\* The exchange ends with the answer a: the next one, or the message to the consumer.
TakeIn(r, a) ==
    LET g == Append(task[r].got, a) IN
    /\ mutex' = NoOne
    /\ task' = [task EXCEPT ![r] =
                  IF More(a) THEN [pc |-> "ask", buf |-> <<>>, got |-> g, out |-> "none"]
                  ELSE [pc |-> "done", buf |-> <<>>, got |-> g, out |-> Result(r, g)]]

\* One read returns some of the parts that have come; it ends the exchange as
\* soon as all that was read is an answer, and with an error if the answer's id
\* is another.
Read(r) ==
    /\ task[r].pc = "read"
    /\ \E n \in 1..Len(wire) :
          LET b == task[r].buf \o SubSeq(wire, 1, n) IN
          /\ wire' = SubSeq(wire, n + 1, Len(wire))
          /\ IF ~Parses(b, Command(r))
             THEN task' = [task EXCEPT ![r].buf = b] /\ UNCHANGED mutex
             ELSE IF RequestId(b[1].answer.to) = RequestId(r) THEN TakeIn(r, b[1].answer)
             ELSE Fail(r)
    /\ UNCHANGED <<named, device, stalls>>

\* Something was read, and nothing more has come for a second.  Within an answer
\* that is the device's pause; before one it is the time an answer takes.
ReadTimeout(r) ==
    /\ task[r].pc = "read" /\ task[r].buf # <<>>
    /\ wire = <<>>
    /\ IF owed # <<>> /\ Head(owed).part = "tail"
       THEN stalls < MaxStalls /\ stalls' = stalls + 1
       ELSE UNCHANGED stalls
    /\ Fail(r)
    /\ UNCHANGED <<named, device, wire>>

ReadFails(r) ==
    /\ task[r].pc = "read" /\ ~attached
    /\ wire = <<>>
    /\ Fail(r)
    /\ UNCHANGED <<named, device, wire, stalls>>

-----------------------------------------------------------------------------
DeviceStep == Reply \/ Send
TaskStep(r) ==
    Decline(r) \/ Ask(r) \/ AskFails(r) \/ Read(r) \/ ReadTimeout(r) \/ ReadFails(r)

Next ==
    \/ DeviceStep
    \/ Unplug
    \/ \E r \in Requests : Start(r) \/ TaskStep(r)

Spec == Init /\ [][Next]_vars

\* The runtime polls its tasks, and the device answers as long as it is attached.
Fairness == WF_vars(DeviceStep) /\ \A r \in Requests : WF_vars(TaskStep(r))

FairSpec == Spec /\ Fairness

-----------------------------------------------------------------------------
\* Properties

AnswerSet == [to : Requests \union {NoOne}, cmd : Commands, ok : BOOLEAN, num : Nat, len : Nat]
Parts == [answer : AnswerSet, part : {"whole", "head", "tail"}]

\* The bytes read are local to an exchange; what a request comes to is known at its end.
TypeOK ==
    /\ named \in BOOLEAN
    /\ attached \in BOOLEAN
    /\ inbox \in Seq([to : Requests, cmd : Commands, num : Nat, len : Nat])
    /\ sending \in AnswerSet
    /\ owed \in Seq(Parts) /\ wire \in Seq(Parts)
    /\ mutex \in Requests \union {NoOne}
    /\ task \in [Requests -> [pc : {"unmade", "idle", "ask", "read", "done"}, buf : Seq(Parts),
                              got : Seq(AnswerSet), out : {"none", "Ok", "Error"}]]
    /\ \A r \in Requests : /\ task[r].pc # "read" => task[r].buf = <<>>
                           /\ task[r].pc = "done" <=> task[r].out # "none"
    /\ stalls \in 0..MaxStalls

\* A request that succeeds was answered by what the device gave for it: a
\* response with another id is refused.
OwnAnswers ==
    \A r \in Requests : task[r].out = "Ok" => \A i \in DOMAIN task[r].got : task[r].got[i].to = r

\* As long as the device has not paused within an answer, no request succeeds
\* with the answer to another, whoever asks at the same time.
OwnUnlessStalled == stalls = 0 => OwnAnswers

\* With a device that is there and has not paused, a request fails only if the client
\* cannot put it to the device, and then without an exchange, or else if the device
\* refuses it, or has given it a piece of another signing.
FailureHasCause ==
    stalls = 0 /\ attached =>
        \A r \in Requests : task[r].out = "Error" =>
            IF Unimplemented(r) THEN task[r].got = <<>>
            ELSE /\ task[r].got # <<>>
                 /\ \/ ~Last(task[r].got).ok
                    \/ \E i \in DOMAIN task[r].got : task[r].got[i].to # r

\* Every request is answered in the end, pauses and disconnection notwithstanding.
EveryRequestEnds == \A r \in Requests : task[r].pc = "ask" ~> task[r].pc = "done"
=============================================================================
