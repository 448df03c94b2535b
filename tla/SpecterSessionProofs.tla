------------------------ MODULE SpecterSessionProofs -----------------------
(***************************************************************************)
(* Proofs about SpecterSession for any requests, transports and bounds: a  *)
(* timed out probe shifts the answers by one exchange and nothing else     *)
(* does, so without one each request gets its own.                         *)
(***************************************************************************)
EXTENDS SpecterSession, SequenceTheorems, TLAPS

(* The inductive invariant.                                                *)

\* Commands and lines, as the tasks and the device write them.
CommandSet == [to : Tasks, cmd : Commands, num : Nat]
AnswerSet == [to : Tasks, cmd : Commands, num : Nat, text : {"ACK", "result"}, ok : BOOLEAN]

\* What is under way is of an exchange that was begun, and names its command.
Genuine(q, n) == q.cmd = Command(q.to) /\ q.num <= n

UnderWay ==
    /\ inbox \in Seq(CommandSet) /\ owed \in Seq(AnswerSet)
    /\ wire \in [Tasks \union {Port} -> Seq(AnswerSet)]
    /\ \A i \in 1..Len(inbox) : Genuine(inbox[i], asked)
    /\ \A i \in 1..Len(owed) : Genuine(owed[i], asked)
    /\ \A c \in Tasks \union {Port} : \A i \in 1..Len(wire[c]) : Genuine(wire[c][i], asked)
    /\ ~attached => inbox = <<>> /\ owed = <<>>

\* Commands are looked at in the order they were written.
Increasing(cmds) == \A i, j \in 1..Len(cmds) : i < j => cmds[i].num < cmds[j].num
Before(lines, cmds) ==
    \A i \in 1..Len(lines), j \in 1..Len(cmds) : lines[i].num < cmds[j].num

\* What is left of an answer is its result, preceded or not by its ACK.
OneAnswer(lines) ==
    /\ Len(lines) <= 2
    /\ lines # <<>> => lines[Len(lines)].text = "result"
    /\ Len(lines) = 2 => /\ lines[1].text = "ACK"
                         /\ lines[1].to = lines[2].to /\ lines[1].num = lines[2].num

DeviceInOrder == Increasing(inbox) /\ Before(owed, inbox) /\ OneAnswer(owed)

\* A request asks once, when the device is listed.
OneExchange ==
    /\ probing # "listed" => \A r \in Requests : task[r].pc \in {"idle", "unmade"}
    /\ \A r \in Tasks : /\ task[r].pc # "done" => task[r].out = "none"
                        /\ task[r].pc \in {"unmade", "idle", "ask"} => ~task[r].acked

-----------------------------------------------------------------------------
\* The lines of the port, those not sent yet included.
Stream == wire[Port] \o owed

\* Answers follow one another: an ACK and its result, then those of a later exchange.
InOrder(lines) ==
    /\ \A i, j \in 1..Len(lines) :
          i < j => /\ lines[i].num <= lines[j].num
                   /\ lines[i].text = "result" => lines[i].num < lines[j].num
    /\ \A i \in 1..Len(lines) :
          lines[i].text = "ACK" /\ i < Len(lines) => lines[i + 1].text = "result"

\* Of the n exchanges begun so far, one that is over has left something only if a
\* probe timed out since or with it; what is of the present one is for its holder.
Recent(q, holder, n, late) ==
    /\ (IF holder = NoOne THEN n + 1 ELSE n) <= q.num + late
    /\ holder # NoOne /\ q.num = n => q.to = holder

\* Who has read the ACK finds the result next; without timeouts, who has not finds
\* the ACK.
InStep(lines, acked, there, late) ==
    /\ acked => IF lines = <<>> THEN ~there ELSE lines[1].text = "result"
    /\ late = 0 /\ ~acked /\ lines # <<>> => lines[1].text = "ACK"

SerialInv ==
    /\ InOrder(Stream) /\ Before(Stream, inbox)
    /\ attached /\ Stream # <<>> => Stream[Len(Stream)].text = "result"
    /\ \A i \in 1..Len(Stream) : Recent(Stream[i], mutex, asked, timeouts)
    /\ \A i \in 1..Len(inbox) : Recent(inbox[i], mutex, asked, timeouts)
    /\ mutex # NoOne => /\ task[mutex].num = asked
                        /\ InStep(Stream, task[mutex].acked, attached, timeouts)

-----------------------------------------------------------------------------
\* What a reader can still find in its connection.
Fits(lines, acked) ==
    IF acked THEN Len(lines) <= 1 /\ (lines # <<>> => lines[1].text = "result")
    ELSE /\ Len(lines) <= 2
         /\ lines # <<>> => lines[1].text = "ACK"
         /\ Len(lines) = 2 => lines[2].text = "result"

\* How much of the answer to r has been sent, by what is left of it.
SentSoFar(r, acked, cmds, left, lines) ==
    /\ \A i \in 1..Len(cmds) : cmds[i].to = r => lines = <<>> /\ ~acked
    /\ left # <<>> /\ left[1].to = r =>
          IF Len(left) = 2 THEN lines = <<>> /\ ~acked
          ELSE Len(lines) = IF acked THEN 0 ELSE 1

\* What is under way for the request r is of its only exchange, e.
Connection(r, e, cmds, left, lines) ==
    /\ \A i \in 1..Len(cmds) :
          cmds[i].to = r => e.pc \in {"read", "done"} /\ cmds[i].num = e.num
    /\ \A i \in 1..Len(left) :
          left[i].to = r => e.pc \in {"read", "done"} /\ left[i].num = e.num
    /\ \A i \in 1..Len(lines) : lines[i].to = r /\ lines[i].num = e.num
    /\ IF e.pc = "read" THEN Fits(lines, e.acked) /\ SentSoFar(r, e.acked, cmds, left, lines)
       ELSE lines = <<>>

TcpInv == timeouts = 0 /\ \A r \in Requests : Connection(r, task[r], inbox, owed, wire[r])

IInv ==
    /\ TypeOK /\ UnderWay /\ DeviceInOrder /\ OneExchange
    /\ IF Serial THEN SerialInv ELSE TcpInv
    /\ OwnUnlessTimedOut /\ LagBounded /\ FailureHasCause

-----------------------------------------------------------------------------
(* Sequences                                                               *)

\* What a read takes and what it leaves.
LEMMA Split ==
    ASSUME NEW S, NEW w \in Seq(S), NEW n \in 0..Len(w)
    PROVE  /\ SubSeq(w, 1, n) \in Seq(S) /\ Len(SubSeq(w, 1, n)) = n
           /\ \A i \in 1..n : SubSeq(w, 1, n)[i] = w[i]
           /\ SubSeq(w, n + 1, Len(w)) \in Seq(S)
           /\ Len(SubSeq(w, n + 1, Len(w))) = Len(w) - n
           /\ \A i \in 1..(Len(w) - n) : SubSeq(w, n + 1, Len(w))[i] = w[n + i]
<1>1. \A i \in 1..Len(w) : w[i] \in S
  BY ElementOfSeq
<1>2. Len(w) \in Nat /\ n \in Nat /\ n <= Len(w)
  BY LenProperties
<1>3. /\ SubSeq(w, 1, n) \in Seq(S) /\ Len(SubSeq(w, 1, n)) = n
      /\ \A i \in 1..n : SubSeq(w, 1, n)[i] = w[i]
  <2>1. /\ SubSeq(w, 1, n) \in Seq(S) 
        /\ Len(SubSeq(w, 1, n)) = IF 1 <= n THEN n - 1 + 1 ELSE 0
        /\ \A i \in 1..(n - 1 + 1) : SubSeq(w, 1, n)[i] = w[1 + i - 1]
    BY <1>1, <1>2, SubSeqProperties
  <2> QED
    BY <2>1, <1>2
<1>4. /\ SubSeq(w, n + 1, Len(w)) \in Seq(S)
      /\ Len(SubSeq(w, n + 1, Len(w))) = Len(w) - n
      /\ \A i \in 1..(Len(w) - n) : SubSeq(w, n + 1, Len(w))[i] = w[n + i]
  <2>1. /\ SubSeq(w, n + 1, Len(w)) \in Seq(S)
        /\ Len(SubSeq(w, n + 1, Len(w))) =
              IF n + 1 <= Len(w) THEN Len(w) - (n + 1) + 1 ELSE 0
        /\ \A i \in 1..(Len(w) - (n + 1) + 1) : SubSeq(w, n + 1, Len(w))[i] = w[(n + 1) + i - 1]
    BY <1>1, <1>2, SubSeqProperties
  <2> QED
    BY <2>1, <1>2
<1> QED
  BY <1>3, <1>4

\* The first of a sequence, and the rest.
LEMMA First ==
    ASSUME NEW S, NEW s \in Seq(S), s # <<>>
    PROVE  /\ Len(s) \in Nat \ {0} /\ s[1] \in S /\ Head(s) = s[1]
           /\ Tail(s) \in Seq(S) /\ Len(Tail(s)) = Len(s) - 1
           /\ \A i \in 1..(Len(s) - 1) : Tail(s)[i] = s[i + 1]
           /\ Len(s) = 1 => Tail(s) = <<>>
<1>1. Len(s) \in Nat \ {0}
  BY EmptySeq
<1>2. s[1] \in S
  BY <1>1, ElementOfSeq
<1>3. Head(s) = s[1]
  BY <1>1
<1>4. /\ Tail(s) \in Seq(S) /\ Len(Tail(s)) = Len(s) - 1
      /\ \A i \in 1..(Len(s) - 1) : Tail(s)[i] = s[i + 1]
  BY HeadTailProperties
<1>5. Len(s) = 1 => Tail(s) = <<>>
  <2>1. \A t \in Seq(S) : t # <<>> => Len(t) \in Nat \ {0}
    BY EmptySeq
  <2>2. ASSUME Len(s) = 1, Tail(s) # <<>> PROVE FALSE
    <3>1. Len(Tail(s)) \in Nat \ {0}
      BY <1>4, <2>1, <2>2
    <3>2. Len(Tail(s)) = 0
      BY <1>4, <2>2
    <3> QED
      BY <3>1, <3>2
  <2> QED
    BY <2>2
<1> QED
  BY <1>1, <1>2, <1>3, <1>4, <1>5

\* What is added at the end.
LEMMA Added ==
    ASSUME NEW S, NEW s \in Seq(S), NEW e \in S
    PROVE  /\ Append(s, e) \in Seq(S) /\ Len(s) \in Nat
           /\ Len(Append(s, e)) = Len(s) + 1 /\ Append(s, e)[Len(s) + 1] = e
           /\ \A i \in 1..Len(s) : Append(s, e)[i] = s[i]
BY AppendProperties, LenProperties

\* One sequence after the other.
LEMMA Joined ==
    ASSUME NEW S, NEW s \in Seq(S), NEW t \in Seq(S)
    PROVE  /\ s \o t \in Seq(S) /\ Len(s) \in Nat /\ Len(t) \in Nat
           /\ Len(s \o t) = Len(s) + Len(t)
           /\ \A i \in 1..Len(s) : (s \o t)[i] = s[i]
           /\ \A i \in 1..Len(t) : (s \o t)[Len(s) + i] = t[i]
<1>1. Len(s) \in Nat /\ Len(t) \in Nat
  BY LenProperties
<1>2. /\ s \o t \in Seq(S) /\ Len(s \o t) = Len(s) + Len(t)
      /\ \A i \in 1..(Len(s) + Len(t)) : (s \o t)[i] =
            IF i <= Len(s) THEN s[i] ELSE t[i - Len(s)]
  BY ConcatProperties
<1>3. \A i \in 1..Len(t) : (s \o t)[Len(s) + i] = t[i]
  <2> SUFFICES ASSUME NEW i \in 1..Len(t) PROVE (s \o t)[Len(s) + i] = t[i]
    OBVIOUS
  <2> QED
    BY <1>1, <1>2
<1> QED
  BY <1>1, <1>2, <1>3

LEMMA Pair ==
    ASSUME NEW S, NEW a \in S, NEW b \in S
    PROVE  /\ <<a, b>> \in Seq(S) /\ Len(<<a, b>>) = 2
           /\ <<a, b>>[1] = a /\ <<a, b>>[2] = b
OBVIOUS

\* Sending a line moves it, and leaves the stream.
LEMMA Moved ==
    ASSUME NEW S, NEW w \in Seq(S), NEW o \in Seq(S), o # <<>>
    PROVE  Append(w, Head(o)) \o Tail(o) = w \o o
<1> DEFINE a == Append(w, Head(o))
<1>1. /\ Len(o) \in Nat \ {0} /\ o[1] \in S /\ Head(o) = o[1]
      /\ Tail(o) \in Seq(S) /\ Len(Tail(o)) = Len(o) - 1
      /\ \A i \in 1..(Len(o) - 1) : Tail(o)[i] = o[i + 1]
  BY First
<1>2. /\ a \in Seq(S) /\ Len(w) \in Nat /\ Len(a) = Len(w) + 1
      /\ a[Len(w) + 1] = o[1] /\ \A i \in 1..Len(w) : a[i] = w[i]
  BY <1>1, Added
<1> HIDE DEF a
<1>3. /\ a \o Tail(o) \in Seq(S) /\ Len(a \o Tail(o)) = Len(a) + Len(Tail(o))
      /\ \A i \in 1..(Len(a) + Len(Tail(o))) : (a \o Tail(o))[i] =
            IF i <= Len(a) THEN a[i] ELSE Tail(o)[i - Len(a)]
  BY <1>1, <1>2, ConcatProperties
<1>4. /\ w \o o \in Seq(S) /\ Len(w \o o) = Len(w) + Len(o)
      /\ \A i \in 1..(Len(w) + Len(o)) : (w \o o)[i] =
            IF i <= Len(w) THEN w[i] ELSE o[i - Len(w)]
  BY ConcatProperties
<1>5. Len(a \o Tail(o)) = Len(w \o o)
  BY <1>1, <1>2, <1>3, <1>4
<1>6. ASSUME NEW i \in 1..Len(w \o o)
      PROVE  (a \o Tail(o))[i] = (w \o o)[i]
  <2>1. i \in Nat /\ 1 <= i /\ i <= Len(w) + Len(o)
    BY <1>1, <1>2, <1>4
  <2>2. CASE i <= Len(w)
    BY <2>1, <2>2, <1>1, <1>2, <1>3, <1>4
  <2>3. CASE i = Len(w) + 1
    BY <2>1, <2>3, <1>1, <1>2, <1>3, <1>4
  <2>4. CASE i > Len(w) + 1
    <3>1. (a \o Tail(o))[i] = Tail(o)[i - (Len(w) + 1)]
      BY <2>1, <2>4, <1>1, <1>2, <1>3
    <3>2. i - (Len(w) + 1) \in 1..(Len(o) - 1) /\ i - (Len(w) + 1) + 1 = i - Len(w)
      BY <2>1, <2>4, <1>1, <1>2
    <3>3. (w \o o)[i] = o[i - Len(w)]
      BY <2>1, <2>4, <1>1, <1>2, <1>4
    <3> QED
      BY <3>1, <3>2, <3>3, <1>1
  <2> QED
    BY <2>1, <2>2, <2>3, <2>4, <1>2
<1> QED
  BY <1>3, <1>4, <1>5, <1>6, SeqEqual DEF a

\* t is s without its first n lines.
EndOf(t, s, n) ==
    /\ t \in Seq(AnswerSet) /\ n \in 0..Len(s)
    /\ Len(t) = Len(s) - n /\ \A i \in 1..Len(t) : t[i] = s[n + i]

\* Reading from the front leaves the end, whatever follows.
LEMMA Rest ==
    ASSUME NEW w \in Seq(AnswerSet), NEW o \in Seq(AnswerSet), NEW v, NEW n, EndOf(v, w, n)
    PROVE  EndOf(v \o o, w \o o, n)
<1>1. /\ Len(w) \in Nat /\ Len(o) \in Nat /\ Len(v) \in Nat
      /\ v \in Seq(AnswerSet) /\ n \in Nat /\ n <= Len(w) /\ Len(v) = Len(w) - n
      /\ \A i \in 1..Len(v) : v[i] = w[n + i]
  BY LenProperties DEF EndOf
<1>2. /\ v \o o \in Seq(AnswerSet) /\ Len(v \o o) = Len(v) + Len(o)
      /\ \A i \in 1..(Len(v) + Len(o)) : (v \o o)[i] =
            IF i <= Len(v) THEN v[i] ELSE o[i - Len(v)]
  BY <1>1, ConcatProperties
<1>3. /\ w \o o \in Seq(AnswerSet) /\ Len(w \o o) = Len(w) + Len(o)
      /\ \A i \in 1..(Len(w) + Len(o)) : (w \o o)[i] =
            IF i <= Len(w) THEN w[i] ELSE o[i - Len(w)]
  BY ConcatProperties
<1>4. ASSUME NEW i \in 1..Len(v \o o)
      PROVE  (v \o o)[i] = (w \o o)[n + i]
  <2>1. i \in Nat /\ 1 <= i /\ n + i <= Len(w) + Len(o)
    BY <1>1, <1>2
  <2>2. CASE i <= Len(v)
    BY <2>1, <2>2, <1>1, <1>2, <1>3
  <2>3. CASE i > Len(v)
    <3>1. (v \o o)[i] = o[i - Len(v)]
      BY <2>1, <2>3, <1>1, <1>2
    <3>2. (w \o o)[n + i] = o[n + i - Len(w)]
      BY <2>1, <2>3, <1>1, <1>3
    <3>3. i - Len(v) = n + i - Len(w)
      BY <2>1, <1>1
    <3> QED
      BY <3>1, <3>2, <3>3
  <2>4. i <= Len(v) \/ i > Len(v)
    BY <2>1, <1>1
  <2> QED
    BY <2>2, <2>3, <2>4
<1>5. n \in 0..Len(w \o o) /\ Len(v \o o) = Len(w \o o) - n
  BY <1>1, <1>2, <1>3
<1> QED
  BY <1>2, <1>4, <1>5 DEF EndOf

-----------------------------------------------------------------------------
(* The constants, and the end of an exchange                               *)

LEMMA Names == NoOne \notin Tasks /\ Port \notin Tasks /\ Probe \notin Requests
BY NamesDiffer DEF NoOne, Port, Probe, Tasks

LEMMA CommandType == ASSUME NEW r \in Tasks PROVE Command(r) \in Commands
<1>1. r # Probe => Method[r] \in Methods
  BY MethodType DEF Tasks
<1> QED
  BY <1>1 DEF Command, Commands, Methods

TaskSet == [pc : {"unmade", "idle", "ask", "read", "done"}, num : Nat,
            acked : BOOLEAN, got : LineSet, out : {"none", "Ok", "Error"}]

LEMMA StartTypes == Idle \in TaskSet /\ Asking \in TaskSet /\ NoLine \in LineSet
<1>1. NoLine \in LineSet
  BY DEF NoLine, LineSet
<1>2. Idle \in TaskSet
  BY <1>1 DEF Idle, TaskSet
<1>3. Asking \in TaskSet
  BY <1>2 DEF Asking, TaskSet
<1> QED
  BY <1>1, <1>2, <1>3

LEMMA AnswersAreLines == AnswerSet \subseteq LineSet
BY DEF AnswerSet, LineSet

\* What the end of an exchange does to the task of it, and to whom it leaves the port.
LEMMA EndEffect ==
    ASSUME NEW r \in Tasks, NEW l \in LineSet, NEW out \in {"Ok", "Error"},
           task \in [Tasks -> TaskSet], task[r].pc \in {"ask", "read"},
           probing \in {"closed", "checking", "creating", "listed"},
           task[Probe].pc = "idle" <=> probing \in {"closed", "listed"},
           End(r, l, out)
    PROVE  /\ mutex' = IF Serial THEN NoOne ELSE mutex
           /\ task' \in [Tasks -> TaskSet]
           /\ \A o \in Tasks \ {r} : task'[o] = task[o]
           /\ probing' \in {"closed", "checking", "creating", "listed"}
           /\ task'[Probe].pc = "idle" <=> probing' \in {"closed", "listed"}
           /\ task'[r].pc # "read"
           /\ r \in Requests =>
                 /\ probing' = probing
                 /\ task'[r].pc = "done" /\ task'[r].num = task[r].num
                 /\ task'[r].got = l /\ task'[r].out = out
           /\ r = Probe => task'[r] \in {Idle, Asking} /\ probing # "listed"
<1>1. /\ task[r] \in TaskSet /\ Probe \in Tasks /\ r \in Requests \union {Probe}
      /\ Probe \notin Requests
  BY Names DEF Tasks
<1>2. mutex' = IF Serial THEN NoOne ELSE mutex
  BY DEF End
<1>3. CASE r # Probe
  <2>1. /\ task' = [task EXCEPT ![r] = [@ EXCEPT !.pc = "done", !.got = l, !.out = out]]
        /\ probing' = probing
    BY <1>3 DEF End
  <2>2. [task[r] EXCEPT !.pc = "done", !.got = l, !.out = out] \in TaskSet
    BY <1>1 DEF TaskSet
  <2>3. /\ task'[r] = [task[r] EXCEPT !.pc = "done", !.got = l, !.out = out]
        /\ \A o \in Tasks \ {r} : task'[o] = task[o]
        /\ task' \in [Tasks -> TaskSet]
    BY <2>1, <2>2
  <2>4. /\ task'[r].pc = "done" /\ task'[r].num = task[r].num
        /\ task'[r].got = l /\ task'[r].out = out
    BY <2>3, <1>1 DEF TaskSet
  <2> QED
    BY <1>1, <1>2, <1>3, <2>1, <2>3, <2>4
<1>4. CASE r = Probe
  <2>1. probing \in {"checking", "creating"}
    BY <1>4
  <2>2. \/ task' = [task EXCEPT ![r] = Asking] /\ probing' = "creating"
        \/ /\ task' = [task EXCEPT ![r] = Idle]
           /\ probing' \in {"listed", "closed"}
    BY <1>4 DEF End
  <2>3. /\ task' \in [Tasks -> TaskSet] /\ \A o \in Tasks \ {r} : task'[o] = task[o]
        /\ \/ task'[r] = Asking /\ probing' = "creating"
           \/ task'[r] = Idle /\ probing' \in {"listed", "closed"}
    BY <2>2, StartTypes
  <2>4. Idle.pc = "idle" /\ Asking.pc = "ask"
    BY DEF Idle, Asking
  <2> QED
    BY <1>1, <1>2, <1>4, <2>1, <2>3, <2>4
<1> QED
  BY <1>3, <1>4

\* What a read takes, and what becomes of it.
LEMMA ReadEffect ==
    ASSUME TypeOK, UnderWay, NEW r \in Tasks, Read(r)
    PROVE  LET w == wire[Channel(r)] IN
           /\ w \in Seq(AnswerSet) /\ task[r].pc = "read" /\ w # <<>>
           /\ \E n \in 1..Len(w) :
                /\ wire' = [wire EXCEPT ![Channel(r)] = SubSeq(w, n + 1, Len(w))]
                /\ \/ /\ ~task[r].acked /\ w[1].text = "ACK" /\ n = 1
                      /\ task' = [task EXCEPT ![r].acked = TRUE]
                      /\ mutex' = mutex /\ probing' = probing
                   \/ \E k \in 1..n, out \in {"Ok", "Error"} :
                         /\ End(r, w[k], out)
                         /\ out = "Ok" => w[k].text = "result"
                         /\ \/ task[r].acked /\ k = 1 /\ out = Outcome(r, w[1])
                            \/ ~task[r].acked /\ w[1].text # "ACK" /\ k = 1 /\ out = "Error"
                            \/ /\ ~task[r].acked /\ w[1].text = "ACK" /\ k = 2
                               /\ out = Outcome(r, w[2])
<1> DEFINE w == wire[Channel(r)]
<1>1. w \in Seq(AnswerSet)
  BY DEF UnderWay, Channel
<1>2. task[r].pc = "read"
  BY DEF Read
<1>3. PICK n \in 1..Len(w) :
         /\ wire' = [wire EXCEPT ![Channel(r)] = SubSeq(w, n + 1, Len(w))]
         /\ Lines(r, SubSeq(w, 1, n))
  BY DEF Read
<1>4. Len(w) \in Nat /\ n \in Nat /\ 1 <= n /\ n <= Len(w) /\ w # <<>>
  BY <1>1, LenProperties, EmptySeq
<1> DEFINE b == SubSeq(w, 1, n)
<1>5. Len(b) = n /\ \A i \in 1..n : b[i] = w[i]
  BY <1>1, <1>4, Split
<1>6. Lines(r, b)
  BY <1>3
<1> HIDE DEF w, b
<1>7. b[1] = w[1] /\ (n > 1 => b[2] = w[2])
  BY <1>4, <1>5
<1>8. task[r].acked \in BOOLEAN
  BY DEF TypeOK
<1>9. \A l : Outcome(r, l) \in {"Ok", "Error"} /\ (Outcome(r, l) = "Ok" => l.text = "result")
  BY DEF Outcome
<1>10. \/ /\ ~task[r].acked /\ w[1].text = "ACK" /\ n = 1
          /\ task' = [task EXCEPT ![r].acked = TRUE]
          /\ mutex' = mutex /\ probing' = probing
       \/ \E k \in 1..n, out \in {"Ok", "Error"} :
             /\ End(r, w[k], out)
             /\ out = "Ok" => w[k].text = "result"
             /\ \/ task[r].acked /\ k = 1 /\ out = Outcome(r, w[1])
                \/ ~task[r].acked /\ w[1].text # "ACK" /\ k = 1 /\ out = "Error"
                \/ /\ ~task[r].acked /\ w[1].text = "ACK" /\ k = 2
                   /\ out = Outcome(r, w[2])
  <2>1. CASE task[r].acked
    <3>1. End(r, w[1], Outcome(r, w[1]))
      BY <1>6, <1>7, <1>8, <2>1 DEF Lines
    <3> QED
      BY <3>1, <2>1, <1>4, <1>9
  <2>2. CASE ~task[r].acked /\ w[1].text # "ACK"
    <3>1. End(r, w[1], "Error")
      BY <1>6, <1>7, <1>8, <2>2 DEF Lines
    <3> QED
      BY <3>1, <2>2, <1>4
  <2>3. CASE ~task[r].acked /\ w[1].text = "ACK" /\ n > 1
    <3>1. End(r, w[2], Outcome(r, w[2]))
      BY <1>4, <1>5, <1>6, <1>7, <1>8, <2>3 DEF Lines
    <3>2. 2 \in 1..n
      BY <1>4, <2>3
    <3> QED
      BY <3>1, <3>2, <2>3, <1>9
  <2>4. CASE ~task[r].acked /\ w[1].text = "ACK" /\ n = 1
    <3>1. ~(Len(b) > 1) /\ b[1].text = "ACK"
      BY <1>4, <1>5, <1>7, <2>4
    <3>2. task' = [task EXCEPT ![r].acked = TRUE] /\ UNCHANGED <<mutex, probing>>
      BY <1>6, <2>4, <3>1 DEF Lines
    <3> QED
      BY <3>2, <2>4
  <2> QED
    BY <1>4, <1>8, <2>1, <2>2, <2>3, <2>4
<1> QED
  BY <1>1, <1>2, <1>3, <1>4, <1>10 DEF w

-----------------------------------------------------------------------------
(* Types, and what is under way                                            *)

LEMMA InitTypes == Init => TypeOK /\ UnderWay
<1> SUFFICES ASSUME Init PROVE TypeOK /\ UnderWay
  OBVIOUS
<1>1. \A S : <<>> \in Seq(S) /\ Len(<<>>) = 0
  BY EmptySeq
<1>2. PICK S \in Sessions :
         task = [r \in Tasks |-> IF r \in S \union {Probe} THEN Idle
                                 ELSE [Idle EXCEPT !.pc = "unmade"]]
  BY DEF Init
<1>3. [Idle EXCEPT !.pc = "unmade"] \in TaskSet
  BY StartTypes DEF TaskSet
<1>4. task \in [Tasks -> TaskSet]
  BY <1>2, <1>3, StartTypes
<1>5. Probe \in Tasks /\ task[Probe].pc = "idle" /\ \A r \in Tasks : task[r].pc # "read"
  BY <1>2 DEF Tasks, Idle
<1>6. \A r \in Tasks : mutex # r
  BY Names DEF Init
<1>7. wire \in [Tasks \union {Port} -> Seq(LineSet)]
  BY <1>1 DEF Init
<1>8. wire \in [Tasks \union {Port} -> Seq(AnswerSet)]
  BY <1>1 DEF Init
<1>9. inbox = <<>> /\ owed = <<>> /\ \A c \in Tasks \union {Port} : wire[c] = <<>>
  BY DEF Init
<1>10. TypeOK
  BY <1>1, <1>4, <1>5, <1>6, <1>7, BoundsNat DEF Init, TypeOK, TaskSet
<1>11. UnderWay
  <2>1. \A i : i \notin 1..0
    OBVIOUS
  <2> QED
    BY <1>1, <1>8, <1>9, <2>1 DEF UnderWay
<1> QED
  BY <1>10, <1>11

\* Parts of the types that the steps below go back to.
LEMMA Parts ==
    ASSUME TypeOK, UnderWay
    PROVE  /\ task \in [Tasks -> TaskSet] /\ Probe \in Tasks
           /\ inbox \in Seq(CommandSet) /\ owed \in Seq(AnswerSet)
           /\ wire \in [Tasks \union {Port} -> Seq(AnswerSet)]
           /\ asked \in Nat /\ probes \in Nat /\ timeouts \in Nat
           /\ Len(inbox) \in Nat /\ Len(owed) \in Nat
           /\ \A c \in Tasks \union {Port} : Len(wire[c]) \in Nat
<1>1. \A S : \A s \in Seq(S) : Len(s) \in Nat
  BY LenProperties
<1> QED
  BY <1>1, BoundsNat DEF TypeOK, UnderWay, TaskSet, Tasks

LEMMA InCommands ==
    ASSUME NEW s \in Seq(CommandSet), NEW i \in 1..Len(s)
    PROVE  s[i] \in CommandSet /\ s[i].num \in Nat /\ s[i].to \in Tasks
<1>1. s[i] \in CommandSet
  BY ElementOfSeq
<1> QED
  BY <1>1 DEF CommandSet

LEMMA InAnswers ==
    ASSUME NEW s \in Seq(AnswerSet), NEW i \in 1..Len(s)
    PROVE  /\ s[i] \in AnswerSet /\ s[i].num \in Nat /\ s[i].to \in Tasks
           /\ s[i].text \in {"ACK", "result"}
<1>1. s[i] \in AnswerSet
  BY ElementOfSeq
<1> QED
  BY <1>1 DEF AnswerSet

LEMMA ReplyTypes == TypeOK /\ UnderWay /\ Reply => TypeOK' /\ UnderWay'
<1> SUFFICES ASSUME TypeOK, UnderWay, Reply PROVE TypeOK' /\ UnderWay'
  OBVIOUS
<1>1. inbox \in Seq(CommandSet) /\ inbox # <<>> /\ inbox' = Tail(inbox)
  BY DEF Reply, UnderWay
<1>2. /\ Len(inbox) \in Nat \ {0} /\ inbox[1] \in CommandSet /\ Head(inbox) = inbox[1]
      /\ inbox' \in Seq(CommandSet) /\ Len(inbox') = Len(inbox) - 1
      /\ \A i \in 1..(Len(inbox) - 1) : inbox'[i] = inbox[i + 1]
  BY <1>1, First
<1>3. PICK ok \in BOOLEAN :
         owed' = <<Line(inbox[1], "ACK", TRUE), Line(inbox[1], "result", ok)>>
  BY <1>2 DEF Reply
<1>4. \A text \in {"ACK", "result"}, o \in BOOLEAN : Line(inbox[1], text, o) \in AnswerSet
  BY <1>2 DEF Line, CommandSet, AnswerSet
<1>5. \A text, o : /\ Line(inbox[1], text, o).cmd = inbox[1].cmd
                   /\ Line(inbox[1], text, o).to = inbox[1].to
                   /\ Line(inbox[1], text, o).num = inbox[1].num
  BY DEF Line
<1>6. owed' \in Seq(AnswerSet) /\ Len(owed') = 2
  <2>1. /\ Line(inbox[1], "ACK", TRUE) \in AnswerSet
        /\ Line(inbox[1], "result", ok) \in AnswerSet
    BY <1>4
  <2> QED
    BY <1>3, <2>1, Pair
<1>7. UnderWay'
  <2>1. \A i \in 1..Len(inbox') : Genuine(inbox'[i], asked)
    BY <1>2 DEF UnderWay
  <2>2. Genuine(inbox[1], asked)
    BY <1>2 DEF UnderWay
  <2>3. \A i \in 1..Len(owed') : Genuine(owed'[i], asked)
    <3>1. Genuine(owed'[1], asked) /\ Genuine(owed'[2], asked)
      BY <1>3, <1>5, <2>2 DEF Genuine
    <3> QED
      BY <3>1, <1>6
  <2> QED
    BY <1>2, <1>6, <2>1, <2>3 DEF UnderWay, Reply, Genuine
<1>8. TypeOK'
  <2>1. owed' \in Seq(LineSet)
    BY <1>6, AnswersAreLines, SeqMonotonic
  <2> QED
    BY <1>2, <2>1 DEF TypeOK, Reply, CommandSet, Serial
<1> QED
  BY <1>7, <1>8

LEMMA SendTypes == TypeOK /\ UnderWay /\ Send => TypeOK' /\ UnderWay'
<1> SUFFICES ASSUME TypeOK, UnderWay, Send PROVE TypeOK' /\ UnderWay'
  OBVIOUS
<1>1. owed \in Seq(AnswerSet) /\ owed # <<>> /\ owed' = Tail(owed)
  BY DEF Send, UnderWay
<1>2. /\ Len(owed) \in Nat \ {0} /\ owed[1] \in AnswerSet /\ Head(owed) = owed[1]
      /\ owed' \in Seq(AnswerSet) /\ Len(owed') = Len(owed) - 1
      /\ \A i \in 1..(Len(owed) - 1) : owed'[i] = owed[i + 1]
  BY <1>1, First
<1> DEFINE c == Channel(owed[1].to)
<1>3. c \in Tasks \union {Port}
  BY <1>2 DEF Channel, AnswerSet
<1>4. wire' = [wire EXCEPT ![c] = Append(wire[c], owed[1])] \/ wire' = wire
  BY <1>2 DEF Send
<1> HIDE DEF c
<1>5. /\ Append(wire[c], owed[1]) \in Seq(AnswerSet) /\ Len(wire[c]) \in Nat
      /\ Len(Append(wire[c], owed[1])) = Len(wire[c]) + 1
      /\ Append(wire[c], owed[1])[Len(wire[c]) + 1] = owed[1]
      /\ \A i \in 1..Len(wire[c]) : Append(wire[c], owed[1])[i] = wire[c][i]
  <2>1. wire[c] \in Seq(AnswerSet)
    BY <1>3 DEF UnderWay
  <2> QED
    BY <2>1, <1>2, Added
<1>6. Genuine(owed[1], asked)
  BY <1>2 DEF UnderWay
<1>7. UnderWay'
  <2>1. wire' \in [Tasks \union {Port} -> Seq(AnswerSet)]
    BY <1>3, <1>4, <1>5 DEF UnderWay
  <2>2. \A d \in Tasks \union {Port} : \A i \in 1..Len(wire'[d]) : Genuine(wire'[d][i], asked)
    <3> SUFFICES ASSUME NEW d \in Tasks \union {Port}, NEW i \in 1..Len(wire'[d])
                 PROVE  Genuine(wire'[d][i], asked)
      OBVIOUS
    <3>1. CASE d = c /\ wire' = [wire EXCEPT ![c] = Append(wire[c], owed[1])]
      <4>1. wire'[d] = Append(wire[c], owed[1])
        BY <3>1, <1>3 DEF UnderWay
      <4>2. i \in 1..Len(wire[c]) \/ i = Len(wire[c]) + 1
        BY <4>1, <1>5
      <4> QED
        BY <4>1, <4>2, <1>3, <1>5, <1>6 DEF UnderWay
    <3>2. CASE d # c \/ wire' = wire
      <4>1. wire'[d] = wire[d]
        BY <3>2, <1>3, <1>4 DEF UnderWay
      <4> QED
        BY <4>1 DEF UnderWay
    <3> QED
      BY <3>1, <3>2, <1>4
  <2>3. \A i \in 1..Len(owed') : Genuine(owed'[i], asked)
    BY <1>2 DEF UnderWay
  <2>4. ~attached => owed = <<>>
    BY DEF UnderWay
  <2> QED
    BY <1>1, <1>2, <2>1, <2>2, <2>3, <2>4 DEF UnderWay, Send, Genuine
<1>8. TypeOK'
  <2>1. owed' \in Seq(LineSet)
    BY <1>2, AnswersAreLines, SeqMonotonic
  <2>2. Append(wire[c], owed[1]) \in Seq(LineSet)
    BY <1>5, AnswersAreLines, SeqMonotonic
  <2>3. wire' \in [Tasks \union {Port} -> Seq(LineSet)]
    BY <1>3, <1>4, <2>2 DEF TypeOK
  <2> QED
    BY <2>1, <2>3 DEF TypeOK, Send, Serial
<1> QED
  BY <1>7, <1>8

LEMMA UnplugTypes == TypeOK /\ UnderWay /\ Unplug => TypeOK' /\ UnderWay'
<1> SUFFICES ASSUME TypeOK, UnderWay, Unplug PROVE TypeOK' /\ UnderWay'
  OBVIOUS
<1>1. \A S : <<>> \in Seq(S) /\ Len(<<>>) = 0
  BY EmptySeq
<1>2. \A i : i \notin 1..0
  OBVIOUS
<1>3. TypeOK'
  BY <1>1 DEF TypeOK, Unplug, Serial
<1>4. UnderWay'
  BY <1>1, <1>2 DEF UnderWay, Unplug, Genuine
<1> QED
  BY <1>3, <1>4

LEMMA AskTypes ==
    ASSUME NEW r \in Tasks
    PROVE  TypeOK /\ UnderWay /\ Ask(r) => TypeOK' /\ UnderWay'
<1> SUFFICES ASSUME TypeOK, UnderWay, Ask(r) PROVE TypeOK' /\ UnderWay'
  OBVIOUS
<1> DEFINE q == [to |-> r, cmd |-> Command(r), num |-> asked + 1]
<1>1. q \in CommandSet /\ q.cmd = Command(q.to) /\ q.num = asked + 1
  BY CommandType, Parts DEF CommandSet
<1>2. inbox' = Append(inbox, q) /\ asked' = asked + 1 /\ asked' \in Nat
  BY Parts DEF Ask
<1> HIDE DEF q
<1>3. inbox \in Seq(CommandSet)
  BY DEF UnderWay
<1>4. /\ inbox' \in Seq(CommandSet) /\ Len(inbox) \in Nat /\ Len(inbox') = Len(inbox) + 1
      /\ inbox'[Len(inbox) + 1] = q /\ \A i \in 1..Len(inbox) : inbox'[i] = inbox[i]
  BY <1>1, <1>2, <1>3, Added
<1>5. task' = [task EXCEPT ![r] = [task[r] EXCEPT !.pc = "read", !.num = asked']]
  <2>1. task' = [task EXCEPT ![r].pc = "read", ![r].num = asked']
    BY DEF Ask
  <2> QED
    BY <2>1, Parts
<1>6. [task[r] EXCEPT !.pc = "read", !.num = asked'] \in TaskSet
  BY <1>2, Parts DEF TaskSet
<1>7. task' \in [Tasks -> TaskSet] /\ \A o \in Tasks \ {r} : task'[o] = task[o]
  BY <1>5, <1>6, Parts
<1>8. task'[r].pc = "read" /\ task[r].pc = "ask"
  BY <1>5, Parts DEF Ask, TaskSet
<1>9. UnderWay'
  <2>1. \A o : Genuine(o, asked) /\ o.num \in Nat => Genuine(o, asked')
    BY <1>2, Parts DEF Genuine
  <2>2. Genuine(q, asked')
    BY <1>1, <1>2, Parts DEF Genuine
  <2>3. \A i \in 1..Len(inbox') : Genuine(inbox'[i], asked')
    <3> SUFFICES ASSUME NEW i \in 1..Len(inbox') PROVE Genuine(inbox'[i], asked')
      OBVIOUS
    <3>1. CASE i \in 1..Len(inbox)
      <4>1. inbox[i].num \in Nat
        BY <1>3, <3>1, InCommands
      <4> QED
        BY <4>1, <2>1, <3>1, <1>4 DEF UnderWay
    <3>2. CASE i = Len(inbox) + 1
      BY <2>2, <3>2, <1>4
    <3> QED
      BY <3>1, <3>2, <1>4
  <2>4. \A i \in 1..Len(owed) : Genuine(owed[i], asked')
    BY <2>1, InAnswers DEF UnderWay
  <2>5. \A c \in Tasks \union {Port} : \A i \in 1..Len(wire[c]) : Genuine(wire[c][i], asked')
    BY <2>1, InAnswers DEF UnderWay
  <2>6. owed' = owed /\ wire' = wire /\ attached' /\ attached
    BY DEF Ask
  <2> QED
    BY <1>4, <2>3, <2>4, <2>5, <2>6 DEF UnderWay
<1>10. TypeOK'
  <2>1. \A o \in Tasks : Serial' => (task'[o].pc = "read" <=> mutex' = o)
    BY <1>7, <1>8, Names DEF TypeOK, Ask, Serial
  <2>2. task'[Probe].pc = "idle" <=> probing' \in {"closed", "listed"}
    BY <1>7, <1>8, Parts DEF TypeOK, Ask
  <2>3. mutex' \in Tasks \union {NoOne}
    BY DEF TypeOK, Ask
  <2> QED
    BY <1>2, <1>4, <1>7, <2>1, <2>2, <2>3 DEF TypeOK, Ask, TaskSet, CommandSet
<1> QED
  BY <1>9, <1>10

\* Where the end of an exchange leaves the types and the lock.
LEMMA EndTypes ==
    ASSUME TypeOK, NEW r \in Tasks, NEW l \in LineSet, NEW out \in {"Ok", "Error"},
           task[r].pc \in {"ask", "read"}, Serial /\ task[r].pc = "ask" => mutex = NoOne,
           End(r, l, out), transport' = transport
    PROVE  /\ task' \in [Tasks -> TaskSet] /\ mutex' \in Tasks \union {NoOne}
           /\ probing' \in {"closed", "checking", "creating", "listed"}
           /\ \A o \in Tasks : Serial' => (task'[o].pc = "read" <=> mutex' = o)
           /\ task'[Probe].pc = "idle" <=> probing' \in {"closed", "listed"}
<1>1. task \in [Tasks -> TaskSet]
  BY DEF TypeOK, TaskSet
<1>2. /\ mutex' = IF Serial THEN NoOne ELSE mutex
      /\ task' \in [Tasks -> TaskSet]
      /\ \A o \in Tasks \ {r} : task'[o] = task[o]
      /\ probing' \in {"closed", "checking", "creating", "listed"}
      /\ task'[Probe].pc = "idle" <=> probing' \in {"closed", "listed"}
      /\ task'[r].pc # "read"
  BY <1>1, EndEffect DEF TypeOK
<1>3. mutex' \in Tasks \union {NoOne}
  BY <1>2 DEF TypeOK
<1>4. ASSUME NEW o \in Tasks, Serial' PROVE task'[o].pc = "read" <=> mutex' = o
  <2>1. Serial
    BY <1>4 DEF Serial
  <2>2. mutex' = NoOne /\ mutex' # o
    BY <1>2, <2>1, Names
  <2>3. task'[o].pc # "read"
    <3>1. CASE o = r
      BY <3>1, <1>2
    <3>2. CASE o # r
      <4>1. mutex = r \/ mutex = NoOne
        BY <2>1 DEF TypeOK
      <4> QED
        BY <3>2, <4>1, <1>2, <2>1, Names DEF TypeOK
    <3> QED
      BY <3>1, <3>2
  <2> QED
    BY <2>2, <2>3
<1> QED
  BY <1>2, <1>3, <1>4

LEMMA ReadTypes ==
    ASSUME NEW r \in Tasks
    PROVE  TypeOK /\ UnderWay /\ Read(r) => TypeOK' /\ UnderWay'
<1> SUFFICES ASSUME TypeOK, UnderWay, Read(r) PROVE TypeOK' /\ UnderWay'
  OBVIOUS
<1> DEFINE c == Channel(r)
           w == wire[c]
<1>1. /\ w \in Seq(AnswerSet) /\ task[r].pc = "read" /\ w # <<>>
      /\ \E n \in 1..Len(w) :
           /\ wire' = [wire EXCEPT ![c] = SubSeq(w, n + 1, Len(w))]
           /\ \/ /\ ~task[r].acked /\ w[1].text = "ACK" /\ n = 1
                 /\ task' = [task EXCEPT ![r].acked = TRUE]
                 /\ mutex' = mutex /\ probing' = probing
              \/ \E k \in 1..n, out \in {"Ok", "Error"} : End(r, w[k], out)
  BY ReadEffect
<1>2. c \in Tasks \union {Port}
  BY DEF Channel
<1> HIDE DEF c
<1>3. PICK n \in 1..Len(w) :
           /\ wire' = [wire EXCEPT ![c] = SubSeq(w, n + 1, Len(w))]
           /\ \/ /\ ~task[r].acked /\ w[1].text = "ACK" /\ n = 1
                 /\ task' = [task EXCEPT ![r].acked = TRUE]
                 /\ mutex' = mutex /\ probing' = probing
              \/ \E k \in 1..n, out \in {"Ok", "Error"} : End(r, w[k], out)
  BY <1>1
<1>4. Len(w) \in Nat /\ n \in 0..Len(w)
  <2>1. Len(w) \in Nat
    BY <1>2, Parts
  <2> QED
    BY <2>1
<1>5. /\ SubSeq(w, n + 1, Len(w)) \in Seq(AnswerSet)
      /\ Len(SubSeq(w, n + 1, Len(w))) = Len(w) - n
      /\ \A i \in 1..(Len(w) - n) : SubSeq(w, n + 1, Len(w))[i] = w[n + i]
  BY <1>1, <1>4, Split
<1>6. wire' \in [Tasks \union {Port} -> Seq(AnswerSet)]
  BY <1>2, <1>3, <1>5 DEF UnderWay
<1>7. \A d \in Tasks \union {Port} : \A i \in 1..Len(wire'[d]) : Genuine(wire'[d][i], asked)
  <2> SUFFICES ASSUME NEW d \in Tasks \union {Port}, NEW i \in 1..Len(wire'[d])
               PROVE  Genuine(wire'[d][i], asked)
    OBVIOUS
  <2>1. CASE d = c
    <3>1. wire'[d] = SubSeq(w, n + 1, Len(w))
      BY <1>2, <1>3, <2>1 DEF UnderWay
    <3>2. wire'[d][i] = w[n + i] /\ n + i \in 1..Len(w)
      BY <3>1, <1>4, <1>5
    <3> QED
      BY <3>2, <1>2 DEF UnderWay
  <2>2. CASE d # c
    <3>1. wire'[d] = wire[d]
      BY <1>2, <1>3, <2>2 DEF UnderWay
    <3> QED
      BY <3>1 DEF UnderWay
  <2> QED
    BY <2>1, <2>2
<1>8. UnderWay'
  BY <1>6, <1>7 DEF UnderWay, Read, device
<1>9. /\ task' \in [Tasks -> TaskSet] /\ mutex' \in Tasks \union {NoOne}
      /\ probing' \in {"closed", "checking", "creating", "listed"}
      /\ \A o \in Tasks : Serial' => (task'[o].pc = "read" <=> mutex' = o)
      /\ task'[Probe].pc = "idle" <=> probing' \in {"closed", "listed"}
  <2>1. CASE /\ task' = [task EXCEPT ![r].acked = TRUE]
             /\ mutex' = mutex /\ probing' = probing
    <3>1. task' = [task EXCEPT ![r] = [task[r] EXCEPT !.acked = TRUE]]
      BY <2>1, Parts
    <3>2. [task[r] EXCEPT !.acked = TRUE] \in TaskSet
      BY Parts DEF TaskSet
    <3>3. task' \in [Tasks -> TaskSet]
      BY <3>1, <3>2, Parts
    <3>4. \A o \in Tasks : task'[o].pc = task[o].pc
      BY <3>1, Parts DEF TaskSet
    <3> QED
      BY <2>1, <3>3, <3>4, Parts DEF TypeOK, Read, device, Serial
  <2>2. CASE \E k \in 1..n, out \in {"Ok", "Error"} : End(r, w[k], out)
    <3>1. PICK k \in 1..n, out \in {"Ok", "Error"} : End(r, w[k], out)
      BY <2>2
    <3>2. w[k] \in LineSet
      <4>1. k \in 1..Len(w)
        BY <1>4
      <4> QED
        BY <4>1, <1>1, InAnswers, AnswersAreLines
    <3>3. transport' = transport
      BY DEF Read, device
    <3> QED
      BY <1>1, <3>1, <3>2, <3>3, EndTypes
  <2> QED
    BY <1>3, <2>1, <2>2
<1>10. TypeOK'
  <2>1. wire' \in [Tasks \union {Port} -> Seq(LineSet)]
    <3>1. Seq(AnswerSet) \subseteq Seq(LineSet)
      BY AnswersAreLines, SeqMonotonic
    <3> QED
      BY <1>6, <3>1
  <2> QED
    BY <1>9, <2>1 DEF TypeOK, Read, device, TaskSet
<1> QED
  BY <1>8, <1>10

LEMMA ExchangeFailsTypes ==
    ASSUME NEW r \in Tasks
    PROVE  TypeOK /\ UnderWay /\ ExchangeFails(r) => TypeOK' /\ UnderWay'
<1> SUFFICES ASSUME TypeOK, UnderWay, ExchangeFails(r) PROVE TypeOK' /\ UnderWay'
  OBVIOUS
<1>1. /\ task[r].pc \in {"ask", "read"} /\ (Serial /\ task[r].pc = "ask" => mutex = NoOne)
      /\ End(r, NoLine, "Error") /\ transport' = transport
  BY DEF ExchangeFails, device
<1>2. /\ task' \in [Tasks -> TaskSet] /\ mutex' \in Tasks \union {NoOne}
      /\ probing' \in {"closed", "checking", "creating", "listed"}
      /\ \A o \in Tasks : Serial' => (task'[o].pc = "read" <=> mutex' = o)
      /\ task'[Probe].pc = "idle" <=> probing' \in {"closed", "listed"}
  BY <1>1, StartTypes, EndTypes
<1>3. UnderWay'
  BY DEF UnderWay, ExchangeFails, device
<1>4. TypeOK'
  BY <1>2 DEF TypeOK, ExchangeFails, device, TaskSet
<1> QED
  BY <1>3, <1>4

LEMMA OpenTypes == TypeOK /\ UnderWay /\ Open => TypeOK' /\ UnderWay'
<1> SUFFICES ASSUME TypeOK, UnderWay, Open PROVE TypeOK' /\ UnderWay'
  OBVIOUS
<1>1. \A S : <<>> \in Seq(S) /\ Len(<<>>) = 0
  BY EmptySeq
<1>2. wire' = wire \/ wire' = [wire EXCEPT ![Port] = <<>>]
  BY DEF Open
<1>3. /\ task' \in [Tasks -> TaskSet] /\ task'[Probe].pc = "ask"
      /\ \A o \in Tasks \ {Probe} : task'[o] = task[o]
  <2>1. task' = [task EXCEPT ![Probe] = Asking] /\ Asking.pc = "ask"
    BY DEF Open, Asking, Idle
  <2> QED
    BY <2>1, StartTypes, Parts
<1>4. task[Probe].pc = "idle"
  BY DEF TypeOK, Open
<1>5. UnderWay'
  <2>1. wire' \in [Tasks \union {Port} -> Seq(AnswerSet)]
    BY <1>1, <1>2 DEF UnderWay
  <2>2. \A d \in Tasks \union {Port} : \A i \in 1..Len(wire'[d]) : Genuine(wire'[d][i], asked)
    <3> SUFFICES ASSUME NEW d \in Tasks \union {Port}, NEW i \in 1..Len(wire'[d])
                 PROVE  Genuine(wire'[d][i], asked)
      OBVIOUS
    <3>1. wire'[d] = wire[d] \/ wire'[d] = <<>>
      BY <1>2 DEF UnderWay
    <3>2. wire'[d] # <<>>
      BY <1>1
    <3> QED
      BY <3>1, <3>2 DEF UnderWay
  <2> QED
    BY <2>1, <2>2 DEF UnderWay, Open, device
<1>6. TypeOK'
  <2>1. wire' \in [Tasks \union {Port} -> Seq(LineSet)]
    BY <1>1, <1>2 DEF TypeOK
  <2>2. probes' \in 0..MaxProbes
    BY BoundsNat, Parts DEF TypeOK, Open
  <2>3. \A o \in Tasks : Serial' => (task'[o].pc = "read" <=> mutex' = o)
    BY <1>3, <1>4, Parts DEF TypeOK, Open, device, Serial
  <2> QED
    BY <1>3, <2>1, <2>2, <2>3 DEF TypeOK, Open, device, TaskSet
<1> QED
  BY <1>5, <1>6

LEMMA ProbeTimeoutTypes == TypeOK /\ UnderWay /\ ProbeTimeout => TypeOK' /\ UnderWay'
<1> SUFFICES ASSUME TypeOK, UnderWay, ProbeTimeout PROVE TypeOK' /\ UnderWay'
  OBVIOUS
<1>1. /\ task' \in [Tasks -> TaskSet] /\ task'[Probe].pc = "idle"
      /\ \A o \in Tasks \ {Probe} : task'[o] = task[o]
  <2>1. task' = [task EXCEPT ![Probe] = Idle] /\ Idle.pc = "idle"
    BY DEF ProbeTimeout, Idle
  <2> QED
    BY <2>1, StartTypes, Parts
<1>2. UnderWay'
  BY DEF UnderWay, ProbeTimeout, device
<1>3. \A o \in Tasks : Serial' => (task'[o].pc = "read" <=> mutex' = o)
  <2>1. Serial /\ mutex = Probe /\ mutex' = NoOne
    BY Parts DEF TypeOK, ProbeTimeout
  <2> QED
    BY <1>1, <2>1, Names DEF TypeOK
<1>4. timeouts' \in 0..MaxTimeouts
  BY BoundsNat, Parts DEF TypeOK, ProbeTimeout
<1>5. TypeOK'
  BY <1>1, <1>3, <1>4 DEF TypeOK, ProbeTimeout, device, TaskSet
<1> QED
  BY <1>2, <1>5

LEMMA StartRequestTypes ==
    ASSUME NEW r \in Tasks
    PROVE  TypeOK /\ UnderWay /\ Start(r) => TypeOK' /\ UnderWay'
<1> SUFFICES ASSUME TypeOK, UnderWay, Start(r) PROVE TypeOK' /\ UnderWay'
  OBVIOUS
<1>1. /\ task' \in [Tasks -> TaskSet] /\ task'[r].pc = "ask"
      /\ \A o \in Tasks \ {r} : task'[o] = task[o]
  <2>1. task' = [task EXCEPT ![r] = Asking] /\ Asking.pc = "ask"
    BY DEF Start, Asking, Idle
  <2> QED
    BY <2>1, StartTypes, Parts
<1>2. r # Probe /\ task[r].pc = "idle"
  BY DEF Start
<1>3. UnderWay'
  BY DEF UnderWay, Start, device
<1>4. TypeOK'
  BY <1>1, <1>2, Parts DEF TypeOK, Start, device, TaskSet, Serial
<1> QED
  BY <1>3, <1>4

LEMMA NextTypes == TypeOK /\ UnderWay /\ [Next]_vars => TypeOK' /\ UnderWay'
<1> SUFFICES ASSUME TypeOK, UnderWay, [Next]_vars PROVE TypeOK' /\ UnderWay'
  OBVIOUS
<1>1. CASE UNCHANGED vars
  <2>1. TypeOK'
    BY <1>1 DEF TypeOK, vars, device, Serial
  <2>2. UnderWay'
    BY <1>1 DEF UnderWay, vars, device
  <2> QED
    BY <2>1, <2>2
<1> QED
  BY <1>1, ReplyTypes, SendTypes, UnplugTypes, OpenTypes, ProbeTimeoutTypes,
     StartRequestTypes, AskTypes, ReadTypes, ExchangeFailsTypes
     DEF Next, DeviceStep, TaskStep

-----------------------------------------------------------------------------
(* The device answers in order, and a request asks once                    *)

LEMMA ReplyInOrder == TypeOK /\ UnderWay /\ DeviceInOrder /\ Reply => DeviceInOrder'
<1> SUFFICES ASSUME TypeOK, UnderWay, DeviceInOrder, Reply PROVE DeviceInOrder'
  OBVIOUS
<1>1. inbox \in Seq(CommandSet) /\ inbox # <<>> /\ inbox' = Tail(inbox)
  BY DEF Reply, UnderWay
<1>2. /\ Len(inbox) \in Nat \ {0} /\ Head(inbox) = inbox[1]
      /\ Len(inbox') = Len(inbox) - 1
      /\ \A i \in 1..(Len(inbox) - 1) : inbox'[i] = inbox[i + 1]
  BY <1>1, First
<1>3. PICK ok \in BOOLEAN :
         owed' = <<Line(inbox[1], "ACK", TRUE), Line(inbox[1], "result", ok)>>
  BY <1>2 DEF Reply
<1>4. /\ Len(owed') = 2 /\ owed'[1].text = "ACK" /\ owed'[2].text = "result"
      /\ owed'[1].to = inbox[1].to /\ owed'[2].to = inbox[1].to
      /\ owed'[1].num = inbox[1].num /\ owed'[2].num = inbox[1].num
  BY <1>3 DEF Line
<1>5. \A i \in 1..(Len(inbox) - 1) : inbox[1].num < inbox[i + 1].num
  BY <1>2 DEF DeviceInOrder, Increasing
<1>6. Increasing(inbox')
  <2> SUFFICES ASSUME NEW i \in 1..Len(inbox'), NEW j \in 1..Len(inbox'), i < j
               PROVE  inbox'[i].num < inbox'[j].num
    BY DEF Increasing
  <2>1. i + 1 \in 1..Len(inbox) /\ j + 1 \in 1..Len(inbox) /\ i + 1 < j + 1
    BY <1>2
  <2> QED
    BY <2>1, <1>2 DEF DeviceInOrder, Increasing
<1>7. Before(owed', inbox')
  <2> SUFFICES ASSUME NEW i \in 1..Len(owed'), NEW j \in 1..Len(inbox')
               PROVE  owed'[i].num < inbox'[j].num
    BY DEF Before
  <2>1. owed'[i].num = inbox[1].num
    BY <1>4
  <2> QED
    BY <2>1, <1>2, <1>5
<1>8. OneAnswer(owed')
  BY <1>4 DEF OneAnswer
<1> QED
  BY <1>6, <1>7, <1>8 DEF DeviceInOrder

LEMMA SendInOrder == TypeOK /\ UnderWay /\ DeviceInOrder /\ Send => DeviceInOrder'
<1> SUFFICES ASSUME TypeOK, UnderWay, DeviceInOrder, Send PROVE DeviceInOrder'
  OBVIOUS
<1>1. owed \in Seq(AnswerSet) /\ owed # <<>> /\ owed' = Tail(owed) /\ inbox' = inbox
  BY DEF Send, UnderWay
<1>2. /\ Len(owed) \in Nat \ {0} /\ Len(owed') = Len(owed) - 1
      /\ \A i \in 1..(Len(owed) - 1) : owed'[i] = owed[i + 1]
      /\ Len(owed) = 1 => owed' = <<>>
  BY <1>1, First
<1>3. Before(owed', inbox')
  <2> SUFFICES ASSUME NEW i \in 1..Len(owed'), NEW j \in 1..Len(inbox')
               PROVE  owed'[i].num < inbox'[j].num
    BY DEF Before
  <2>1. owed'[i] = owed[i + 1] /\ i + 1 \in 1..Len(owed)
    BY <1>2
  <2> QED
    BY <2>1, <1>1 DEF DeviceInOrder, Before
<1>4. OneAnswer(owed')
  BY <1>1, <1>2 DEF DeviceInOrder, OneAnswer
<1> QED
  BY <1>1, <1>3, <1>4 DEF DeviceInOrder

LEMMA AskInOrder ==
    ASSUME NEW r \in Tasks
    PROVE  TypeOK /\ UnderWay /\ DeviceInOrder /\ Ask(r) => DeviceInOrder'
<1> SUFFICES ASSUME TypeOK, UnderWay, DeviceInOrder, Ask(r) PROVE DeviceInOrder'
  OBVIOUS
<1> DEFINE q == [to |-> r, cmd |-> Command(r), num |-> asked + 1]
<1>1. q \in CommandSet /\ q.num = asked + 1 /\ asked \in Nat
  BY CommandType, Parts DEF CommandSet
<1>2. inbox' = Append(inbox, q) /\ inbox \in Seq(CommandSet) /\ owed' = owed
  BY DEF Ask, UnderWay
<1> HIDE DEF q
<1>3. /\ Len(inbox) \in Nat /\ Len(inbox') = Len(inbox) + 1
      /\ inbox'[Len(inbox) + 1] = q /\ \A i \in 1..Len(inbox) : inbox'[i] = inbox[i]
  BY <1>1, <1>2, Added
<1>4. \A i \in 1..Len(inbox) : inbox[i].num < q.num
  <2> SUFFICES ASSUME NEW i \in 1..Len(inbox) PROVE inbox[i].num < q.num
    OBVIOUS
  <2>1. inbox[i].num <= asked /\ inbox[i].num \in Nat
    BY <1>2, InCommands DEF UnderWay, Genuine
  <2> QED
    BY <2>1, <1>1
<1>5. \A i \in 1..Len(owed) : owed[i].num < q.num
  <2> SUFFICES ASSUME NEW i \in 1..Len(owed) PROVE owed[i].num < q.num
    OBVIOUS
  <2>1. owed[i].num <= asked /\ owed[i].num \in Nat
    BY InAnswers DEF UnderWay, Genuine
  <2> QED
    BY <2>1, <1>1
<1>6. \A j \in 1..Len(inbox') : j \in 1..Len(inbox) \/ j = Len(inbox) + 1
  BY <1>3
<1>7. Increasing(inbox')
  <2> SUFFICES ASSUME NEW i \in 1..Len(inbox'), NEW j \in 1..Len(inbox'), i < j
               PROVE  inbox'[i].num < inbox'[j].num
    BY DEF Increasing
  <2>1. i \in 1..Len(inbox)
    BY <1>3
  <2> QED
    BY <2>1, <1>3, <1>4, <1>6 DEF DeviceInOrder, Increasing
<1>8. Before(owed', inbox')
  BY <1>2, <1>3, <1>5, <1>6 DEF DeviceInOrder, Before
<1> QED
  BY <1>2, <1>7, <1>8 DEF DeviceInOrder

LEMMA NextInOrder == TypeOK /\ UnderWay /\ DeviceInOrder /\ [Next]_vars => DeviceInOrder'
<1> SUFFICES ASSUME TypeOK, UnderWay, DeviceInOrder, [Next]_vars PROVE DeviceInOrder'
  OBVIOUS
<1>1. ASSUME inbox' = <<>>, owed' = <<>> PROVE DeviceInOrder'
  <2>1. Len(<<>>) = 0 /\ \A i : i \notin 1..0
    BY EmptySeq
  <2> QED
    BY <1>1, <2>1 DEF DeviceInOrder, Increasing, Before, OneAnswer
<1>2. ASSUME inbox' = inbox, owed' = owed PROVE DeviceInOrder'
  BY <1>2 DEF DeviceInOrder
<1>3. Unplug => DeviceInOrder'
  BY <1>1 DEF Unplug
<1>4. Open \/ ProbeTimeout => DeviceInOrder'
  BY <1>2 DEF Open, ProbeTimeout, device
<1>5. ASSUME NEW r \in Tasks, Start(r) \/ Read(r) \/ ExchangeFails(r) PROVE DeviceInOrder'
  BY <1>2, <1>5 DEF Start, Read, ExchangeFails, device
<1>6. CASE UNCHANGED vars
  BY <1>2, <1>6 DEF vars, device
<1> QED
  BY <1>3, <1>4, <1>5, <1>6, ReplyInOrder, SendInOrder, AskInOrder
     DEF Next, DeviceStep, TaskStep

\* Where the end of an exchange leaves the task of it.
LEMMA EndOnce ==
    ASSUME TypeOK, OneExchange, NEW r \in Tasks, NEW l \in LineSet, NEW out \in {"Ok", "Error"},
           task[r].pc \in {"ask", "read"}, End(r, l, out)
    PROVE  OneExchange'
<1>1. task \in [Tasks -> TaskSet]
  BY DEF TypeOK, TaskSet
<1>2. /\ \A o \in Tasks \ {r} : task'[o] = task[o]
      /\ r \in Requests => probing' = probing /\ task'[r].pc = "done"
      /\ r = Probe => task'[r] \in {Idle, Asking} /\ probing # "listed"
  BY <1>1, EndEffect DEF TypeOK
<1>3. /\ Idle.out = "none" /\ ~Idle.acked /\ Idle.pc = "idle"
      /\ Asking.out = "none" /\ ~Asking.acked /\ Asking.pc = "ask"
  BY DEF Idle, Asking
<1>4. r \in Requests \/ r = Probe
  BY DEF Tasks
<1>5. \A o \in Requests : o \in Tasks /\ o # Probe
  BY Names DEF Tasks
<1> QED
  BY <1>2, <1>3, <1>4, <1>5 DEF OneExchange

LEMMA NextOnce == TypeOK /\ UnderWay /\ OneExchange /\ [Next]_vars => OneExchange'
<1> SUFFICES ASSUME TypeOK, UnderWay, OneExchange, [Next]_vars PROVE OneExchange'
  OBVIOUS
<1>1. task \in [Tasks -> TaskSet] /\ Probe \in Tasks /\ Probe \notin Requests
  BY Parts, Names
<1>2. Requests \subseteq Tasks
  BY DEF Tasks
<1>3. /\ Idle.out = "none" /\ ~Idle.acked /\ Idle.pc = "idle"
      /\ Asking.out = "none" /\ ~Asking.acked /\ Asking.pc = "ask"
  BY DEF Idle, Asking
<1>4. ASSUME task' = task, probing' = probing PROVE OneExchange'
  BY <1>4 DEF OneExchange
<1>5. CASE Reply \/ Send \/ Unplug \/ UNCHANGED vars
  BY <1>4, <1>5 DEF Reply, Send, Unplug, vars
<1>6. CASE Open
  <2>1. /\ probing = "closed" /\ task' = [task EXCEPT ![Probe] = Asking]
    BY <1>6 DEF Open
  <2> QED
    BY <2>1, <1>1, <1>2, <1>3 DEF OneExchange
<1>7. CASE ProbeTimeout
  <2>1. /\ probing = "checking" /\ task' = [task EXCEPT ![Probe] = Idle]
    BY <1>7 DEF ProbeTimeout
  <2> QED
    BY <2>1, <1>1, <1>2, <1>3 DEF OneExchange
<1>8. ASSUME NEW r \in Tasks, Start(r) PROVE OneExchange'
  <2>1. /\ probing = "listed" /\ probing' = probing /\ task' = [task EXCEPT ![r] = Asking]
    BY <1>8 DEF Start
  <2> QED
    BY <2>1, <1>1, <1>3 DEF OneExchange
<1>9. ASSUME NEW r \in Tasks, Ask(r) PROVE OneExchange'
  <2>1. /\ probing' = probing /\ task[r].pc = "ask"
        /\ task' = [task EXCEPT ![r].pc = "read", ![r].num = asked']
    BY <1>9 DEF Ask
  <2>2. /\ \A o \in Tasks \ {r} : task'[o] = task[o]
        /\ task'[r].pc = "read" /\ task'[r].out = task[r].out
    BY <2>1, <1>1 DEF TaskSet
  <2> QED
    BY <2>1, <2>2, <1>1, <1>2 DEF OneExchange
<1>10. ASSUME NEW r \in Tasks, ExchangeFails(r) PROVE OneExchange'
  BY <1>10, StartTypes, EndOnce DEF ExchangeFails
<1>11. ASSUME NEW r \in Tasks, Read(r) PROVE OneExchange'
  <2> DEFINE w == wire[Channel(r)]
  <2>1. /\ w \in Seq(AnswerSet) /\ task[r].pc = "read"
        /\ \E n \in 1..Len(w) :
             \/ task' = [task EXCEPT ![r].acked = TRUE] /\ probing' = probing
             \/ \E k \in 1..n, out \in {"Ok", "Error"} : End(r, w[k], out)
    BY <1>11, ReadEffect
  <2>2. Len(w) \in Nat
    BY <2>1, LenProperties
  <2> HIDE DEF w
  <2>3. CASE task' = [task EXCEPT ![r].acked = TRUE] /\ probing' = probing
    <3>1. \A o \in Tasks : task'[o].pc = task[o].pc /\ task'[o].out = task[o].out
      BY <2>3, <1>1 DEF TaskSet
    <3>2. \A o \in Tasks \ {r} : task'[o] = task[o]
      BY <2>3, <1>1
    <3> QED
      BY <2>1, <2>3, <3>1, <3>2, <1>2 DEF OneExchange
  <2>4. ASSUME NEW n \in 1..Len(w), NEW k \in 1..n, NEW out \in {"Ok", "Error"},
               End(r, w[k], out)
        PROVE  OneExchange'
    <3>1. k \in 1..Len(w)
      BY <2>2
    <3>2. w[k] \in LineSet
      BY <2>1, <3>1, InAnswers, AnswersAreLines
    <3> QED
      BY <2>1, <2>4, <3>2, EndOnce
  <2> QED
    BY <2>1, <2>3, <2>4
<1> QED
  BY <1>5, <1>6, <1>7, <1>8, <1>9, <1>10, <1>11 DEF Next, DeviceStep, TaskStep

-----------------------------------------------------------------------------
(* The port                                                                *)

\* What is known of the stream as long as it is one.
LEMMA StreamParts ==
    ASSUME TypeOK, UnderWay
    PROVE  /\ wire[Port] \in Seq(AnswerSet) /\ Len(wire[Port]) \in Nat
           /\ Stream \in Seq(AnswerSet) /\ Len(Stream) \in Nat
           /\ Len(Stream) = Len(wire[Port]) + Len(owed) /\ Len(owed) \in Nat
           /\ \A i \in 1..Len(wire[Port]) : i \in 1..Len(Stream) /\ Stream[i] = wire[Port][i]
           /\ \A i \in 1..Len(Stream) : /\ Stream[i].num \in Nat /\ Stream[i].num <= asked
                                        /\ Stream[i].cmd = Command(Stream[i].to)
                                        /\ Stream[i].text \in {"ACK", "result"}
           /\ Stream = <<>> <=> Len(Stream) = 0
           /\ owed = <<>> => Stream = wire[Port]
<1>1. wire[Port] \in Seq(AnswerSet) /\ owed \in Seq(AnswerSet)
  BY DEF UnderWay
<1>2. /\ Stream \in Seq(AnswerSet) /\ Len(wire[Port]) \in Nat /\ Len(owed) \in Nat
      /\ Len(Stream) = Len(wire[Port]) + Len(owed)
      /\ \A i \in 1..Len(wire[Port]) : Stream[i] = wire[Port][i]
      /\ \A i \in 1..Len(owed) : Stream[Len(wire[Port]) + i] = owed[i]
  BY <1>1, Joined DEF Stream
<1>3. ASSUME NEW i \in 1..Len(Stream)
      PROVE  Genuine(Stream[i], asked)
  <2>1. CASE i \in 1..Len(wire[Port])
    BY <2>1, <1>2 DEF UnderWay
  <2>2. CASE i \notin 1..Len(wire[Port])
    <3>1. i - Len(wire[Port]) \in 1..Len(owed) /\ Len(wire[Port]) + (i - Len(wire[Port])) = i
      BY <2>2, <1>2
    <3>2. Stream[i] = owed[i - Len(wire[Port])]
      BY <3>1, <1>2
    <3> QED
      BY <3>1, <3>2 DEF UnderWay
  <2> QED
    BY <2>1, <2>2
<1>4. Stream = <<>> <=> Len(Stream) = 0
  BY <1>2, EmptySeq
<1>5. owed = <<>> => Stream = wire[Port]
  BY <1>1, ConcatEmptySeq DEF Stream
<1>6. \A i \in 1..Len(wire[Port]) : i \in 1..Len(Stream) /\ Stream[i] = wire[Port][i]
  <2> HIDE DEF Stream
  <2> QED
    BY <1>2
<1>7. ASSUME NEW i \in 1..Len(Stream)
      PROVE  /\ Stream[i].num \in Nat /\ Stream[i].num <= asked
             /\ Stream[i].cmd = Command(Stream[i].to)
             /\ Stream[i].text \in {"ACK", "result"}
  <2> HIDE DEF Stream
  <2>1. Stream[i].num \in Nat /\ Stream[i].text \in {"ACK", "result"}
    BY <1>2, <1>7, InAnswers
  <2>2. Genuine(Stream[i], asked)
    BY <1>3, <1>7
  <2> QED
    BY <2>1, <2>2 DEF Genuine
<1>8. \A i \in 1..Len(Stream) : /\ Stream[i].num \in Nat /\ Stream[i].num <= asked
                                /\ Stream[i].cmd = Command(Stream[i].to)
                                /\ Stream[i].text \in {"ACK", "result"}
  BY <1>7
<1> HIDE DEF Stream
<1> QED
  BY <1>1, <1>2, <1>4, <1>5, <1>6, <1>8

\* What the end of a stream inherits.
LEMMA Window ==
    ASSUME NEW s \in Seq(AnswerSet), NEW t, NEW n, EndOf(t, s, n)
    PROVE  /\ InOrder(s) => InOrder(t)
           /\ \A cmds \in Seq(CommandSet) : Before(s, cmds) => Before(t, cmds)
           /\ \A i \in 1..Len(t) : n + i \in 1..Len(s)
           /\ t # <<>> => s # <<>> /\ t[Len(t)] = s[Len(s)]
           /\ t = <<>> <=> n = Len(s)
<1>1. /\ Len(s) \in Nat /\ Len(t) \in Nat /\ n \in 0..Len(s) /\ t \in Seq(AnswerSet)
      /\ Len(t) = Len(s) - n /\ \A i \in 1..Len(t) : t[i] = s[n + i]
  BY LenProperties DEF EndOf
<1>2. \A i \in 1..Len(t) : n + i \in 1..Len(s)
  BY <1>1
<1>3. (t = <<>> <=> Len(t) = 0) /\ (s = <<>> <=> Len(s) = 0)
  BY <1>1, EmptySeq
<1>4. ASSUME InOrder(s) PROVE InOrder(t)
  <2>1. ASSUME NEW i \in 1..Len(t), NEW j \in 1..Len(t), i < j
        PROVE  /\ t[i].num <= t[j].num
               /\ t[i].text = "result" => t[i].num < t[j].num
    <3>1. n + i \in 1..Len(s) /\ n + j \in 1..Len(s) /\ n + i < n + j
      BY <1>1, <1>2, <2>1
    <3> QED
      BY <3>1, <1>1, <1>4 DEF InOrder
  <2>2. ASSUME NEW i \in 1..Len(t), t[i].text = "ACK", i < Len(t)
        PROVE  t[i + 1].text = "result"
    <3>1. n + i \in 1..Len(s) /\ n + i < Len(s) /\ i + 1 \in 1..Len(t) /\ n + (i + 1) = (n + i) + 1
      BY <1>1, <1>2, <2>2
    <3>2. s[(n + i) + 1].text = "result"
      BY <3>1, <1>1, <2>2, <1>4 DEF InOrder
    <3>3. t[i + 1] = s[n + (i + 1)]
      BY <3>1, <1>1
    <3> QED
      BY <3>1, <3>2, <3>3
  <2> QED
    BY <2>1, <2>2 DEF InOrder
<1>5. \A cmds \in Seq(CommandSet) : Before(s, cmds) => Before(t, cmds)
  BY <1>1, <1>2 DEF Before
<1>6. t # <<>> => s # <<>> /\ t[Len(t)] = s[Len(s)]
  <2> SUFFICES ASSUME t # <<>> PROVE s # <<>> /\ t[Len(t)] = s[Len(s)]
    OBVIOUS
  <2>1. Len(t) \in 1..Len(t) /\ n + Len(t) = Len(s) /\ Len(s) # 0
    BY <1>1, <1>3
  <2> QED
    BY <2>1, <1>1, <1>3
<1>7. t = <<>> <=> n = Len(s)
  BY <1>1, <1>3
<1> QED
  BY <1>2, <1>4, <1>5, <1>6, <1>7

\* A stream that is read from, with the lines left as they are.
LEMMA StreamRead ==
    ASSUME TypeOK, UnderWay, NEW n \in 0..Len(wire[Port]), owed' = owed,
           wire'[Port] = SubSeq(wire[Port], n + 1, Len(wire[Port]))
    PROVE  EndOf(Stream', Stream, n)
<1>1. wire[Port] \in Seq(AnswerSet) /\ owed \in Seq(AnswerSet)
  BY DEF UnderWay
<1>2. EndOf(wire'[Port], wire[Port], n)
  BY <1>1, Split DEF EndOf
<1> QED
  BY <1>1, <1>2, Rest DEF Stream

LEMMA ReplySerial ==
    TypeOK /\ UnderWay /\ DeviceInOrder /\ Serial /\ SerialInv /\ Reply => SerialInv'
<1> SUFFICES ASSUME TypeOK, UnderWay, DeviceInOrder, Serial, SerialInv, Reply
             PROVE  SerialInv'
  OBVIOUS
<1>1. /\ inbox \in Seq(CommandSet) /\ inbox # <<>> /\ inbox' = Tail(inbox) /\ owed = <<>>
      /\ wire' = wire /\ mutex' = mutex /\ task' = task /\ asked' = asked
      /\ timeouts' = timeouts /\ attached /\ attached'
  BY DEF Reply, UnderWay
<1>2. /\ Len(inbox) \in Nat \ {0} /\ Head(inbox) = inbox[1] /\ inbox[1] \in CommandSet
      /\ Len(inbox') = Len(inbox) - 1
      /\ \A i \in 1..(Len(inbox) - 1) : inbox'[i] = inbox[i + 1]
  BY <1>1, First
<1>3. PICK ok \in BOOLEAN :
         owed' = <<Line(inbox[1], "ACK", TRUE), Line(inbox[1], "result", ok)>>
  BY <1>2 DEF Reply
<1>4. /\ owed' \in Seq(AnswerSet)
      /\ Len(owed') = 2 /\ owed'[1].text = "ACK" /\ owed'[2].text = "result"
      /\ owed'[1].to = inbox[1].to /\ owed'[2].to = inbox[1].to
      /\ owed'[1].num = inbox[1].num /\ owed'[2].num = inbox[1].num
  <2>1. /\ Line(inbox[1], "ACK", TRUE) \in AnswerSet
        /\ Line(inbox[1], "result", ok) \in AnswerSet
    BY <1>2 DEF Line, CommandSet, AnswerSet
  <2> QED
    BY <1>3, <2>1, Pair DEF Line
<1> DEFINE s == Stream
           t == Stream'
           num == inbox[1].num
<1>5. /\ s \in Seq(AnswerSet) /\ Len(s) \in Nat /\ s = wire[Port]
      /\ \A i \in 1..Len(s) : s[i].num \in Nat
      /\ s = <<>> <=> Len(s) = 0
  BY <1>1, StreamParts
<1>6. t = s \o owed'
  BY <1>1, <1>5 DEF Stream
<1>7. SerialInv => /\ InOrder(s) /\ Before(s, inbox)
                   /\ s # <<>> => s[Len(s)].text = "result"
                   /\ \A i \in 1..Len(s) : Recent(s[i], mutex, asked, timeouts)
                   /\ \A i \in 1..Len(inbox) : Recent(inbox[i], mutex, asked, timeouts)
                   /\ mutex # NoOne => /\ task[mutex].num = asked
                                       /\ InStep(s, task[mutex].acked, attached, timeouts)
  BY <1>1 DEF SerialInv
<1> HIDE DEF s, t
<1>8. /\ t \in Seq(AnswerSet) /\ Len(t) = Len(s) + 2
      /\ \A i \in 1..Len(s) : t[i] = s[i]
      /\ t[Len(s) + 1] = owed'[1] /\ t[Len(s) + 2] = owed'[2]
  <2>1. /\ s \o owed' \in Seq(AnswerSet) /\ Len(s \o owed') = Len(s) + Len(owed')
        /\ \A i \in 1..Len(s) : (s \o owed')[i] = s[i]
        /\ \A i \in 1..Len(owed') : (s \o owed')[Len(s) + i] = owed'[i]
    BY <1>4, <1>5, Joined, SMTT(30)
  <2> QED
    BY <2>1, <1>4, <1>6
<1>9. \A i \in 1..Len(t) : i \in 1..Len(s) \/ i = Len(s) + 1 \/ i = Len(s) + 2
  BY <1>5, <1>8
<1>10. num \in Nat /\ \A i \in 1..Len(s) : s[i].num < num
  BY <1>2, <1>7 DEF Before, CommandSet
<1>11. InOrder(t)
  <2>1. ASSUME NEW i \in 1..Len(t), NEW j \in 1..Len(t), i < j
        PROVE  /\ t[i].num <= t[j].num
               /\ t[i].text = "result" => t[i].num < t[j].num
    <3>1. CASE j \in 1..Len(s)
      <4>1. i \in 1..Len(s)
        BY <2>1, <3>1, <1>5
      <4> QED
        BY <2>1, <3>1, <4>1, <1>7, <1>8 DEF InOrder
    <3>2. CASE j \notin 1..Len(s) /\ i \in 1..Len(s)
      <4>1. t[j].num = num /\ t[i].num = s[i].num
        BY <3>2, <1>4, <1>8, <1>9
      <4> QED
        BY <4>1, <3>2, <1>5, <1>10
    <3>3. CASE i \notin 1..Len(s)
      <4>1. i = Len(s) + 1 /\ j = Len(s) + 2
        BY <2>1, <3>3, <1>5, <1>8
      <4> QED
        BY <4>1, <1>4, <1>8, <1>10
    <3> QED
      BY <3>1, <3>2, <3>3
  <2>2. ASSUME NEW i \in 1..Len(t), t[i].text = "ACK", i < Len(t)
        PROVE  t[i + 1].text = "result"
    <3>1. CASE i = Len(s) + 1
      <4>1. i + 1 = Len(s) + 2
        BY <3>1, <1>5
      <4> QED
        BY <4>1, <1>4, <1>8
    <3>2. CASE i \in 1..Len(s)
      <4>1. s[i].text = "ACK" /\ i # Len(s)
        BY <2>2, <3>2, <1>5, <1>7, <1>8
      <4>2. i < Len(s) /\ i + 1 \in 1..Len(s)
        BY <3>2, <4>1, <1>5
      <4> QED
        BY <3>2, <4>1, <4>2, <1>7, <1>8 DEF InOrder
    <3> QED
      BY <2>2, <3>1, <3>2, <1>4, <1>8, <1>9
  <2> QED
    BY <2>1, <2>2 DEF InOrder
<1>12. Before(t, inbox')
  <2> SUFFICES ASSUME NEW i \in 1..Len(t), NEW j \in 1..Len(inbox')
               PROVE  t[i].num < inbox'[j].num
    BY DEF Before
  <2>1. inbox'[j] = inbox[j + 1] /\ j + 1 \in 1..Len(inbox) /\ 1 \in 1..Len(inbox) /\ 1 < j + 1
    BY <1>2
  <2>2. num < inbox'[j].num
    BY <2>1 DEF DeviceInOrder, Increasing
  <2>3. CASE i \in 1..Len(s)
    BY <2>1, <2>3, <1>7, <1>8 DEF Before
  <2>4. CASE i \notin 1..Len(s)
    BY <2>2, <2>4, <1>4, <1>8, <1>9
  <2> QED
    BY <2>3, <2>4
<1>13. t[Len(t)].text = "result"
  BY <1>4, <1>8
<1>14. \A q, p : Recent(q, mutex, asked, timeouts) /\ p.num = q.num /\ p.to = q.to
                 => Recent(p, mutex, asked, timeouts)
  BY DEF Recent
<1>15. \A i \in 1..Len(t) : Recent(t[i], mutex, asked, timeouts)
  <2>1. Recent(inbox[1], mutex, asked, timeouts)
    BY <1>2, <1>7
  <2>2. /\ Recent(t[Len(s) + 1], mutex, asked, timeouts)
        /\ Recent(t[Len(s) + 2], mutex, asked, timeouts)
    BY <2>1, <1>4, <1>8, <1>14
  <2> QED
    BY <2>2, <1>7, <1>8, <1>9
<1>16. \A i \in 1..Len(inbox') : Recent(inbox'[i], mutex, asked, timeouts)
  <2> SUFFICES ASSUME NEW i \in 1..Len(inbox') PROVE Recent(inbox'[i], mutex, asked, timeouts)
    OBVIOUS
  <2>1. inbox'[i] = inbox[i + 1] /\ i + 1 \in 1..Len(inbox)
    BY <1>2
  <2> QED
    BY <2>1, <1>7
<1>17. ASSUME mutex # NoOne
       PROVE  InStep(t, task[mutex].acked, attached, timeouts)
  <2>1. InStep(s, task[mutex].acked, attached, timeouts)
    BY <1>7, <1>17
  <2>2. t # <<>>
    <3>1. Len(t) # 0
      BY <1>5, <1>8
    <3> QED
      BY <3>1, <1>8, EmptySeq
  <2>3. CASE s = <<>>
    <3>1. ~task[mutex].acked
      BY <2>1, <2>3, <1>1 DEF InStep
    <3>2. t[1].text = "ACK"
      BY <2>3, <1>4, <1>5, <1>8
    <3> QED
      BY <3>1, <3>2 DEF InStep
  <2>4. CASE s # <<>>
    <3>1. 1 \in 1..Len(s) /\ t[1] = s[1]
      BY <2>4, <1>5, <1>8
    <3> QED
      BY <2>1, <2>2, <2>4, <3>1 DEF InStep
  <2> QED
    BY <2>3, <2>4
<1> QED
  <2>1. SerialInv' = ( /\ InOrder(t) /\ Before(t, inbox')
                       /\ attached' /\ t # <<>> => t[Len(t)].text = "result"
                       /\ \A i \in 1..Len(t) : Recent(t[i], mutex', asked', timeouts')
                       /\ \A i \in 1..Len(inbox') : Recent(inbox'[i], mutex', asked', timeouts')
                       /\ mutex' # NoOne =>
                             /\ task'[mutex'].num = asked'
                             /\ InStep(t, task'[mutex'].acked, attached', timeouts') )
    BY DEF SerialInv, t
  <2> QED
    BY <2>1, <1>1, <1>7, <1>11, <1>12, <1>13, <1>15, <1>16, <1>17

LEMMA SendSerial ==
    TypeOK /\ UnderWay /\ Serial /\ SerialInv /\ Send => SerialInv'
<1> SUFFICES ASSUME TypeOK, UnderWay, Serial, SerialInv, Send PROVE SerialInv'
  OBVIOUS
<1>1. owed \in Seq(AnswerSet) /\ owed # <<>> /\ wire[Port] \in Seq(AnswerSet)
  BY DEF Send, UnderWay
<1>2. /\ owed' = Tail(owed) /\ wire' = [wire EXCEPT ![Port] = Append(wire[Port], Head(owed))]
      /\ attached' = attached /\ inbox' = inbox /\ mutex' = mutex /\ task' = task
      /\ timeouts' = timeouts /\ asked' = asked
  BY DEF Send, Channel
<1>3. wire'[Port] = Append(wire[Port], Head(owed))
  BY <1>2 DEF UnderWay
<1>4. Stream' = Stream
  BY <1>1, <1>2, <1>3, Moved DEF Stream
<1> QED
  BY <1>2, <1>4 DEF SerialInv

LEMMA UnplugSerial ==
    TypeOK /\ UnderWay /\ Serial /\ SerialInv /\ Unplug => SerialInv'
<1> SUFFICES ASSUME TypeOK, UnderWay, Serial, SerialInv, Unplug PROVE SerialInv'
  OBVIOUS
<1>1. /\ ~attached' /\ inbox' = <<>> /\ owed' = <<>> /\ wire' = wire /\ mutex' = mutex
      /\ task' = task /\ timeouts' = timeouts /\ asked' = asked
  BY DEF Unplug
<1> DEFINE s == Stream
           t == Stream'
<1>2. /\ wire[Port] \in Seq(AnswerSet) /\ s \in Seq(AnswerSet)
      /\ Len(wire[Port]) \in Nat /\ Len(s) \in Nat /\ Len(wire[Port]) <= Len(s)
      /\ \A i \in 1..Len(wire[Port]) : i \in 1..Len(s) /\ s[i] = wire[Port][i]
  BY StreamParts
<1>3. t = wire[Port]
  BY <1>1, <1>2, ConcatEmptySeq DEF Stream
<1>4. Len(<<>>) = 0 /\ \A i : i \notin 1..0
  BY EmptySeq
<1>5. /\ InOrder(s) /\ \A i \in 1..Len(s) : Recent(s[i], mutex, asked, timeouts)
      /\ mutex # NoOne => /\ task[mutex].num = asked
                          /\ InStep(s, task[mutex].acked, attached, timeouts)
  BY DEF SerialInv
<1> HIDE DEF s, t
<1>6. Len(t) \in Nat /\ Len(t) <= Len(s) /\ \A i \in 1..Len(t) : i \in 1..Len(s) /\ s[i] = t[i]
  BY <1>2, <1>3
<1>7. InOrder(t)
  <2>1. \A i \in 1..Len(t) : i < Len(t) => i < Len(s) /\ i + 1 \in 1..Len(t)
    BY <1>2, <1>6
  <2> QED
    BY <1>5, <1>6, <2>1 DEF InOrder
<1>8. \A i \in 1..Len(t) : Recent(t[i], mutex, asked, timeouts)
  BY <1>5, <1>6
<1>9. ASSUME mutex # NoOne PROVE InStep(t, task[mutex].acked, FALSE, timeouts)
  <2>1. CASE t = <<>>
    BY <2>1 DEF InStep
  <2>2. CASE t # <<>>
    <3>1. Len(t) # 0
      BY <1>2, <1>3, <2>2, EmptySeq
    <3>2. 1 \in 1..Len(t) /\ t[1] = s[1]
      BY <1>6, <3>1
    <3>3. s # <<>>
      BY <1>4, <1>6, <3>2
    <3> QED
      BY <1>5, <1>9, <2>2, <3>2, <3>3 DEF InStep
  <2> QED
    BY <2>1, <2>2
<1>10. \A holder, n, late : \A i \in 1..Len(inbox') : Recent(inbox'[i], holder, n, late)
  BY <1>1, <1>4
<1>11. Before(t, inbox')
  BY <1>1, <1>4 DEF Before
<1> QED
  <2>1. SerialInv' = ( /\ InOrder(t) /\ Before(t, inbox')
                       /\ attached' /\ t # <<>> => t[Len(t)].text = "result"
                       /\ \A i \in 1..Len(t) : Recent(t[i], mutex', asked', timeouts')
                       /\ \A i \in 1..Len(inbox') : Recent(inbox'[i], mutex', asked', timeouts')
                       /\ mutex' # NoOne =>
                             /\ task'[mutex'].num = asked'
                             /\ InStep(t, task'[mutex'].acked, attached', timeouts') )
    BY DEF SerialInv, t
  <2> QED
    BY <2>1, <1>1, <1>5, <1>7, <1>8, <1>9, <1>10, <1>11 DEF InStep

LEMMA AskSerial ==
    ASSUME NEW r \in Tasks
    PROVE  TypeOK /\ UnderWay /\ OneExchange /\ Serial /\ SerialInv /\ Ask(r) => SerialInv'
<1> SUFFICES ASSUME TypeOK, UnderWay, OneExchange, Serial, SerialInv, Ask(r)
             PROVE  SerialInv'
  OBVIOUS
<1> DEFINE q == [to |-> r, cmd |-> Command(r), num |-> asked + 1]
<1>1. q \in CommandSet /\ q.num = asked + 1 /\ q.to = r /\ asked \in Nat /\ timeouts \in Nat
  BY CommandType, Parts DEF CommandSet
<1>2. /\ inbox' = Append(inbox, q) /\ inbox \in Seq(CommandSet) /\ owed' = owed
      /\ wire' = wire /\ attached' = attached /\ timeouts' = timeouts
      /\ mutex = NoOne /\ mutex' = r /\ r # NoOne /\ asked' = asked + 1
      /\ task[r].pc = "ask"
  BY Names DEF Ask, UnderWay
<1> HIDE DEF q
<1>3. /\ Len(inbox) \in Nat /\ Len(inbox') = Len(inbox) + 1
      /\ inbox'[Len(inbox) + 1] = q /\ \A i \in 1..Len(inbox) : inbox'[i] = inbox[i]
  BY <1>1, <1>2, Added
<1>4. \A i \in 1..Len(inbox') : i \in 1..Len(inbox) \/ i = Len(inbox) + 1
  BY <1>3
<1>5. task'[r].num = asked' /\ ~task'[r].acked
  <2>1. ~task[r].acked
    BY <1>2 DEF OneExchange
  <2>2. task' = [task EXCEPT ![r].pc = "read", ![r].num = asked']
    BY DEF Ask
  <2> QED
    BY <2>1, <2>2, Parts DEF TaskSet
<1>6. Stream' = Stream
  BY <1>2 DEF Stream
<1>7. /\ \A i \in 1..Len(Stream) : Stream[i].num \in Nat /\ Stream[i].num <= asked
      /\ \A i \in 1..Len(inbox) : inbox[i].num \in Nat /\ inbox[i].num <= asked
  BY <1>2, StreamParts, InCommands DEF UnderWay, Genuine
<1>8. Before(Stream, inbox')
  <2> SUFFICES ASSUME NEW i \in 1..Len(Stream), NEW j \in 1..Len(inbox')
               PROVE  Stream[i].num < inbox'[j].num
    BY DEF Before
  <2>1. CASE j \in 1..Len(inbox)
    BY <2>1, <1>3 DEF SerialInv, Before
  <2>2. CASE j = Len(inbox) + 1
    BY <2>2, <1>1, <1>3, <1>7
  <2> QED
    BY <2>1, <2>2, <1>4
<1>9. \A l : l.num \in Nat /\ l.num <= asked /\ Recent(l, mutex, asked, timeouts)
             => Recent(l, r, asked + 1, timeouts)
  BY <1>1, <1>2 DEF Recent
<1>10. \A i \in 1..Len(Stream) : Recent(Stream[i], r, asked + 1, timeouts)
  BY <1>7, <1>9 DEF SerialInv
<1>11. \A i \in 1..Len(inbox') : Recent(inbox'[i], r, asked + 1, timeouts)
  <2>1. Recent(q, r, asked + 1, timeouts)
    BY <1>1, <1>2 DEF Recent
  <2>2. \A i \in 1..Len(inbox) : Recent(inbox[i], r, asked + 1, timeouts)
    BY <1>7, <1>9 DEF SerialInv
  <2> QED
    BY <2>1, <2>2, <1>3, <1>4
<1>12. timeouts = 0 => Stream = <<>>
  <2> SUFFICES ASSUME timeouts = 0, Stream # <<>> PROVE FALSE
    OBVIOUS
  <2>1. 1 \in 1..Len(Stream)
    BY StreamParts
  <2>2. asked + 1 <= Stream[1].num
    BY <2>1, <1>2, <1>7 DEF SerialInv, Recent
  <2> QED
    BY <2>1, <2>2, <1>1, <1>7
<1>13. InStep(Stream, task'[r].acked, attached, timeouts)
  BY <1>5, <1>12 DEF InStep
<1> QED
  BY <1>2, <1>5, <1>6, <1>8, <1>10, <1>11, <1>13 DEF SerialInv

LEMMA OpenSerial ==
    TypeOK /\ UnderWay /\ OneExchange /\ Serial /\ SerialInv /\ Open => SerialInv'
<1> SUFFICES ASSUME TypeOK, UnderWay, OneExchange, Serial, SerialInv, Open PROVE SerialInv'
  OBVIOUS
<1>1. /\ inbox' = inbox /\ owed' = owed /\ attached' = attached /\ timeouts' = timeouts
      /\ mutex' = mutex /\ asked' = asked /\ probing = "closed"
  BY DEF Open, device
<1>2. mutex = NoOne
  <2>1. \A r \in Tasks : task[r].pc # "read"
    BY <1>1 DEF OneExchange, TypeOK, Tasks
  <2> QED
    BY <2>1 DEF TypeOK
<1> DEFINE s == Stream
           t == Stream'
<1>3. s \in Seq(AnswerSet) /\ inbox \in Seq(CommandSet) /\ Len(wire[Port]) \in Nat
  BY StreamParts DEF UnderWay
<1>4. PICK n : EndOf(t, s, n)
  <2>1. wire[Port] \in Seq(AnswerSet)
    BY DEF UnderWay
  <2>2. CASE wire' = wire
    <3>1. wire'[Port] = SubSeq(wire[Port], 0 + 1, Len(wire[Port])) /\ 0 \in 0..Len(wire[Port])
      BY <1>3, <2>1, <2>2, SubSeqFull
    <3> QED
      BY <1>1, <3>1, StreamRead
  <2>3. CASE wire' = [wire EXCEPT ![Port] = <<>>]
    <3>1. wire'[Port] = <<>>
      BY <2>3 DEF UnderWay
    <3>2. SubSeq(wire[Port], Len(wire[Port]) + 1, Len(wire[Port])) = <<>>
      BY <1>3, SubSeqEmpty
    <3>3. Len(wire[Port]) \in 0..Len(wire[Port])
      BY <1>3
    <3> QED
      BY <1>1, <3>1, <3>2, <3>3, StreamRead
  <2> QED
    BY <2>2, <2>3 DEF Open
<1>5. /\ InOrder(s) /\ Before(s, inbox)
      /\ attached /\ s # <<>> => s[Len(s)].text = "result"
      /\ \A i \in 1..Len(s) : Recent(s[i], mutex, asked, timeouts)
      /\ \A i \in 1..Len(inbox) : Recent(inbox[i], mutex, asked, timeouts)
  BY DEF SerialInv
<1>6. SerialInv' = ( /\ InOrder(t) /\ Before(t, inbox')
                     /\ attached' /\ t # <<>> => t[Len(t)].text = "result"
                     /\ \A i \in 1..Len(t) : Recent(t[i], mutex', asked', timeouts')
                     /\ \A i \in 1..Len(inbox') : Recent(inbox'[i], mutex', asked', timeouts')
                     /\ mutex' # NoOne =>
                           /\ task'[mutex'].num = asked'
                           /\ InStep(t, task'[mutex'].acked, attached', timeouts') )
  BY DEF SerialInv
<1> HIDE DEF s, t
<1>7. /\ InOrder(t) /\ Before(t, inbox)
      /\ \A i \in 1..Len(t) : n + i \in 1..Len(s)
      /\ t # <<>> => s # <<>> /\ t[Len(t)] = s[Len(s)]
  BY <1>3, <1>4, <1>5, Window
<1>8. \A i \in 1..Len(t) : t[i] = s[n + i]
  BY <1>4 DEF EndOf
<1> QED
  BY <1>1, <1>2, <1>5, <1>6, <1>7, <1>8

\* An exchange that ends with a line of the port leaves no line of its own, and none
\* of an earlier one: what is left is of a later exchange.
LEMMA LeftIsLater ==
    ASSUME TypeOK, UnderWay, Serial, SerialInv, NEW r \in Tasks, mutex = r,
           NEW n \in 1..Len(wire[Port]), NEW k \in 1..n,
           \/ task[r].acked /\ k = 1
           \/ ~task[r].acked /\ Stream[1].text # "ACK" /\ k = 1
           \/ ~task[r].acked /\ Stream[1].text = "ACK" /\ k = 2
    PROVE  /\ k \in 1..Len(Stream)
           /\ Stream[k].text = "result" /\ asked <= Stream[k].num + timeouts
           /\ \A i \in 1..Len(Stream) : n < i => asked < Stream[i].num + timeouts
           /\ \A i \in 1..Len(inbox) : asked < inbox[i].num + timeouts
<1> DEFINE s == Stream
<1>1. /\ s \in Seq(AnswerSet) /\ Len(s) \in Nat /\ Len(wire[Port]) \in Nat
      /\ Len(wire[Port]) <= Len(s) /\ asked \in Nat /\ timeouts \in Nat
      /\ \A i \in 1..Len(s) : s[i].num \in Nat /\ s[i].text \in {"ACK", "result"}
  BY StreamParts, Parts
<1>2. /\ InOrder(s) /\ Before(s, inbox)
      /\ \A i \in 1..Len(s) : Recent(s[i], mutex, asked, timeouts)
      /\ InStep(s, task[r].acked, attached, timeouts)
  BY Names DEF SerialInv
<1>3. mutex # NoOne /\ n \in Nat /\ 1 <= k /\ k <= n /\ n <= Len(s) /\ k \in Nat
  BY <1>1, Names
<1> HIDE DEF s
<1>4. k \in 1..Len(s) /\ 1 \in 1..Len(s) /\ s # <<>>
  BY <1>1, <1>3, EmptySeq
<1>5. s[k].text = "result"
  <2>1. CASE task[r].acked
    BY <1>2, <1>4, <2>1 DEF InStep, s
  <2>2. CASE ~task[r].acked /\ s[1].text # "ACK" /\ k = 1
    BY <1>1, <1>4, <2>2
  <2>3. CASE ~task[r].acked /\ s[1].text = "ACK" /\ k = 2
    <3>1. 1 < Len(s) /\ 1 + 1 = 2
      BY <1>1, <1>4, <2>3
    <3> QED
      BY <1>2, <1>4, <2>3, <3>1 DEF InOrder
  <2> QED
    BY <2>1, <2>2, <2>3 DEF s
<1>6. asked <= s[k].num + timeouts
  BY <1>2, <1>3, <1>4 DEF Recent
<1>7. ASSUME NEW i \in 1..Len(s), n < i PROVE asked < s[i].num + timeouts
  <2>1. k < i
    BY <1>3, <1>7
  <2>2. s[k].num < s[i].num
    BY <1>2, <1>4, <1>5, <2>1 DEF InOrder
  <2> QED
    BY <2>2, <1>1, <1>4, <1>6, SMTT(30)
<1>8. ASSUME NEW i \in 1..Len(inbox) PROVE asked < inbox[i].num + timeouts
  <2>1. s[k].num < inbox[i].num
    BY <1>2, <1>4 DEF Before
  <2>2. inbox[i].num \in Nat
    BY InCommands DEF UnderWay
  <2> QED
    BY <2>1, <2>2, <1>1, <1>4, <1>6
<1> QED
  BY <1>4, <1>5, <1>6, <1>7, <1>8 DEF s

LEMMA ReadSerial ==
    ASSUME NEW r \in Tasks
    PROVE  TypeOK /\ UnderWay /\ Serial /\ SerialInv /\ Read(r) => SerialInv'
<1> SUFFICES ASSUME TypeOK, UnderWay, Serial, SerialInv, Read(r) PROVE SerialInv'
  OBVIOUS
<1> DEFINE w == wire[Port]
           s == Stream
           t == Stream'
<1>1. /\ w \in Seq(AnswerSet) /\ task[r].pc = "read" /\ w # <<>>
      /\ \E n \in 1..Len(w) :
           /\ wire' = [wire EXCEPT ![Port] = SubSeq(w, n + 1, Len(w))]
           /\ \/ /\ ~task[r].acked /\ w[1].text = "ACK" /\ n = 1
                 /\ task' = [task EXCEPT ![r].acked = TRUE]
                 /\ mutex' = mutex /\ probing' = probing
              \/ \E k \in 1..n, out \in {"Ok", "Error"} :
                    /\ End(r, w[k], out)
                    /\ \/ task[r].acked /\ k = 1
                       \/ ~task[r].acked /\ w[1].text # "ACK" /\ k = 1
                       \/ ~task[r].acked /\ w[1].text = "ACK" /\ k = 2
  BY ReadEffect DEF Channel
<1>2. PICK n \in 1..Len(w) :
           /\ wire' = [wire EXCEPT ![Port] = SubSeq(w, n + 1, Len(w))]
           /\ \/ /\ ~task[r].acked /\ w[1].text = "ACK" /\ n = 1
                 /\ task' = [task EXCEPT ![r].acked = TRUE]
                 /\ mutex' = mutex /\ probing' = probing
              \/ \E k \in 1..n, out \in {"Ok", "Error"} :
                    /\ End(r, w[k], out)
                    /\ \/ task[r].acked /\ k = 1
                       \/ ~task[r].acked /\ w[1].text # "ACK" /\ k = 1
                       \/ ~task[r].acked /\ w[1].text = "ACK" /\ k = 2
  BY <1>1
<1>3. /\ inbox' = inbox /\ owed' = owed /\ attached' = attached /\ timeouts' = timeouts
      /\ asked' = asked /\ mutex = r /\ r # NoOne
  BY <1>1, Names DEF Read, device, TypeOK
<1>4. /\ Len(w) \in Nat /\ s \in Seq(AnswerSet) /\ Len(s) \in Nat /\ Len(w) <= Len(s)
      /\ \A i \in 1..Len(w) : s[i] = w[i]
      /\ inbox \in Seq(CommandSet) /\ asked \in Nat /\ timeouts \in Nat
      /\ \A i \in 1..Len(s) : s[i].num \in Nat
  BY StreamParts, Parts
<1>5. EndOf(t, s, n)
  <2>1. n \in 0..Len(w)
    BY <1>4
  <2>2. wire'[Port] = SubSeq(w, n + 1, Len(w))
    BY <1>2 DEF UnderWay
  <2> QED
    BY <1>3, <2>1, <2>2, StreamRead
<1>6. /\ InOrder(s) /\ Before(s, inbox)
      /\ attached /\ s # <<>> => s[Len(s)].text = "result"
      /\ \A i \in 1..Len(s) : Recent(s[i], mutex, asked, timeouts)
      /\ \A i \in 1..Len(inbox) : Recent(inbox[i], mutex, asked, timeouts)
      /\ task[r].num = asked
  BY <1>3 DEF SerialInv
<1>7. SerialInv' = ( /\ InOrder(t) /\ Before(t, inbox')
                     /\ attached' /\ t # <<>> => t[Len(t)].text = "result"
                     /\ \A i \in 1..Len(t) : Recent(t[i], mutex', asked', timeouts')
                     /\ \A i \in 1..Len(inbox') : Recent(inbox'[i], mutex', asked', timeouts')
                     /\ mutex' # NoOne =>
                           /\ task'[mutex'].num = asked'
                           /\ InStep(t, task'[mutex'].acked, attached', timeouts') )
  BY DEF SerialInv
<1> HIDE DEF s, t, w
<1>8. /\ InOrder(t) /\ Before(t, inbox)
      /\ \A i \in 1..Len(t) : n + i \in 1..Len(s)
      /\ t # <<>> => s # <<>> /\ t[Len(t)] = s[Len(s)]
      /\ t = <<>> <=> n = Len(s)
  BY <1>4, <1>5, <1>6, Window
<1>9. n \in Nat /\ 1 <= n /\ n <= Len(w) /\ Len(t) = Len(s) - n /\ \A i \in 1..Len(t) : t[i] = s[n + i]
  BY <1>4, <1>5 DEF EndOf
<1>10. CASE /\ ~task[r].acked /\ w[1].text = "ACK" /\ n = 1
            /\ task' = [task EXCEPT ![r].acked = TRUE] /\ mutex' = mutex
  <2>1. task'[r].acked /\ task'[r].num = asked
    BY <1>6, <1>10, Parts DEF TaskSet
  <2>2. s[1].text = "ACK"
    BY <1>4, <1>9, <1>10
  <2>3. IF t = <<>> THEN ~attached ELSE t[1].text = "result"
    <3>1. CASE t = <<>>
      <4>1. Len(s) = 1 /\ s # <<>>
        BY <1>4, <1>8, <1>9, <1>10, <3>1, EmptySeq
      <4> QED
        BY <1>6, <2>2, <3>1, <4>1
    <3>2. CASE t # <<>>
      <4>1. 1 \in 1..Len(s) /\ 1 < Len(s) /\ 1 \in 1..Len(t)
        BY <1>4, <1>8, <1>9, <1>10, <3>2
      <4>2. s[1 + 1].text = "result"
        BY <1>6, <2>2, <4>1 DEF InOrder
      <4> QED
        BY <1>9, <1>10, <3>2, <4>1, <4>2
    <3> QED
      BY <3>1, <3>2
  <2>4. InStep(t, task'[r].acked, attached, timeouts)
    BY <2>1, <2>3 DEF InStep
  <2>5. \A i \in 1..Len(t) : Recent(t[i], mutex, asked, timeouts)
    BY <1>6, <1>8, <1>9
  <2> QED
    BY <1>3, <1>6, <1>7, <1>8, <1>10, <2>1, <2>4, <2>5
<1>11. ASSUME NEW k \in 1..n, NEW out \in {"Ok", "Error"}, End(r, w[k], out),
              \/ task[r].acked /\ k = 1
              \/ ~task[r].acked /\ w[1].text # "ACK" /\ k = 1
              \/ ~task[r].acked /\ w[1].text = "ACK" /\ k = 2
       PROVE  SerialInv'
  <2>1. mutex' = NoOne
    BY <1>11 DEF End
  <2>2. s[1] = w[1]
    BY <1>4, <1>9
  <2>3. /\ \A i \in 1..Len(s) : n < i => asked < s[i].num + timeouts
        /\ \A i \in 1..Len(inbox) : asked < inbox[i].num + timeouts
    BY <1>2, <1>3, <1>11, <2>2, LeftIsLater DEF s, w
  <2>4. \A i \in 1..Len(t) : Recent(t[i], mutex', asked, timeouts)
    <3> SUFFICES ASSUME NEW i \in 1..Len(t) PROVE Recent(t[i], mutex', asked, timeouts)
      OBVIOUS
    <3>1. n + i \in 1..Len(s) /\ n < n + i
      BY <1>8, <1>9
    <3>2. asked < t[i].num + timeouts /\ t[i].num \in Nat
      BY <1>4, <1>9, <2>3, <3>1
    <3> QED
      BY <2>1, <3>2, <1>4 DEF Recent
  <2>5. \A i \in 1..Len(inbox) : Recent(inbox[i], mutex', asked, timeouts)
    <3> SUFFICES ASSUME NEW i \in 1..Len(inbox) PROVE Recent(inbox[i], mutex', asked, timeouts)
      OBVIOUS
    <3>1. inbox[i].num \in Nat
      BY <1>4, InCommands
    <3> QED
      BY <2>1, <2>3, <3>1, <1>4 DEF Recent
  <2> QED
    BY <1>3, <1>6, <1>7, <1>8, <2>1, <2>4, <2>5
<1> QED
  BY <1>2, <1>10, <1>11

LEMMA ExchangeFailsSerial ==
    ASSUME NEW r \in Tasks
    PROVE  TypeOK /\ UnderWay /\ Serial /\ SerialInv /\ ExchangeFails(r) => SerialInv'
<1> SUFFICES ASSUME TypeOK, UnderWay, Serial, SerialInv, ExchangeFails(r) PROVE SerialInv'
  OBVIOUS
<1>1. /\ ~attached /\ inbox' = inbox /\ owed' = owed /\ attached' = attached
      /\ timeouts' = timeouts /\ asked' = asked /\ wire' = wire /\ mutex' = NoOne
  BY DEF ExchangeFails, device, End
<1>2. Stream' = Stream
  BY <1>1 DEF Stream
<1>3. CASE mutex = NoOne
  BY <1>1, <1>2, <1>3 DEF SerialInv
<1>4. CASE wire[Port] = <<>>
  <2>1. inbox = <<>> /\ Stream = <<>>
    BY <1>1, <1>4, StreamParts DEF UnderWay
  <2>2. Len(<<>>) = 0 /\ \A i : i \notin 1..0
    BY EmptySeq
  <2> QED
    BY <1>1, <1>2, <2>1, <2>2 DEF SerialInv, InOrder, Before
<1> QED
  BY <1>3, <1>4 DEF ExchangeFails, Channel

LEMMA ProbeTimeoutSerial ==
    TypeOK /\ UnderWay /\ Serial /\ SerialInv /\ ProbeTimeout => SerialInv'
<1> SUFFICES ASSUME TypeOK, UnderWay, Serial, SerialInv, ProbeTimeout PROVE SerialInv'
  OBVIOUS
<1>1. /\ inbox' = inbox /\ owed' = owed /\ attached' = attached /\ wire' = wire
      /\ timeouts' = timeouts + 1 /\ asked' = asked /\ mutex' = NoOne
      /\ mutex = Probe /\ Probe # NoOne
  BY Parts, Names DEF ProbeTimeout, device, TypeOK
<1>2. Stream' = Stream
  BY <1>1 DEF Stream
<1>3. asked \in Nat /\ timeouts \in Nat
  BY Parts
<1>4. \A q : q.num \in Nat /\ Recent(q, mutex, asked, timeouts)
             => Recent(q, NoOne, asked, timeouts + 1)
  BY <1>1, <1>3 DEF Recent
<1>5. /\ \A i \in 1..Len(Stream) : Stream[i].num \in Nat
      /\ \A i \in 1..Len(inbox) : inbox[i].num \in Nat
  BY StreamParts, InCommands DEF UnderWay
<1> QED
  BY <1>1, <1>2, <1>4, <1>5 DEF SerialInv

LEMMA StartSerial ==
    ASSUME NEW r \in Tasks
    PROVE  TypeOK /\ UnderWay /\ Serial /\ SerialInv /\ Start(r) => SerialInv'
<1> SUFFICES ASSUME TypeOK, UnderWay, Serial, SerialInv, Start(r) PROVE SerialInv'
  OBVIOUS
<1>1. /\ inbox' = inbox /\ owed' = owed /\ attached' = attached /\ wire' = wire
      /\ timeouts' = timeouts /\ asked' = asked /\ mutex' = mutex /\ task[r].pc = "idle"
      /\ task' = [task EXCEPT ![r] = Asking]
  BY DEF Start, device
<1>2. Stream' = Stream
  BY <1>1 DEF Stream
<1>3. mutex # NoOne => task'[mutex] = task[mutex]
  BY <1>1, Parts DEF TypeOK
<1> QED
  BY <1>1, <1>2, <1>3 DEF SerialInv

LEMMA NextSerial ==
    ASSUME TypeOK, UnderWay, DeviceInOrder, OneExchange, Serial, SerialInv, [Next]_vars
    PROVE  SerialInv'
<1>1. CASE UNCHANGED vars
  <2>1. Stream' = Stream
    BY <1>1 DEF Stream, vars, device
  <2> QED
    BY <1>1, <2>1 DEF SerialInv, vars, device
<1> QED
  BY <1>1, ReplySerial, SendSerial, UnplugSerial, AskSerial, OpenSerial, ReadSerial,
     ExchangeFailsSerial, ProbeTimeoutSerial, StartSerial DEF Next, DeviceStep, TaskStep

-----------------------------------------------------------------------------
(* The connections                                                         *)

LEMMA ReplyTcp ==
    ASSUME NEW r \in Requests
    PROVE  TypeOK /\ UnderWay /\ Reply /\ Connection(r, task[r], inbox, owed, wire[r])
           => Connection(r, task'[r], inbox', owed', wire'[r])
<1> SUFFICES ASSUME TypeOK, UnderWay, Reply, Connection(r, task[r], inbox, owed, wire[r])
             PROVE  Connection(r, task[r], inbox', owed', wire[r])
  BY DEF Reply
<1>1. inbox \in Seq(CommandSet) /\ inbox # <<>> /\ inbox' = Tail(inbox)
  BY DEF Reply, UnderWay
<1>2. /\ Len(inbox) \in Nat \ {0} /\ Head(inbox) = inbox[1] /\ 1 \in 1..Len(inbox)
      /\ Len(inbox') = Len(inbox) - 1
      /\ \A i \in 1..(Len(inbox) - 1) : inbox'[i] = inbox[i + 1]
  BY <1>1, First
<1>3. PICK ok \in BOOLEAN :
         owed' = <<Line(inbox[1], "ACK", TRUE), Line(inbox[1], "result", ok)>>
  BY <1>2 DEF Reply
<1>4. /\ Len(owed') = 2
      /\ \A i \in 1..2 : owed'[i].to = inbox[1].to /\ owed'[i].num = inbox[1].num
  BY <1>3 DEF Line
<1>5. \A i \in 1..Len(inbox') : inbox'[i] = inbox[i + 1] /\ i + 1 \in 1..Len(inbox)
  BY <1>2
<1> QED
  BY <1>2, <1>4, <1>5 DEF Connection, SentSoFar

\* A line for r is the next of its only answer, and no command of r is left.
LEMMA SendTcp ==
    ASSUME NEW r \in Requests
    PROVE  TypeOK /\ UnderWay /\ DeviceInOrder /\ ~Serial /\ Send
           /\ Connection(r, task[r], inbox, owed, wire[r])
           => Connection(r, task'[r], inbox', owed', wire'[r])
<1> SUFFICES ASSUME TypeOK, UnderWay, DeviceInOrder, ~Serial, Send,
                    Connection(r, task[r], inbox, owed, wire[r])
             PROVE  Connection(r, task[r], inbox, owed', wire'[r])
  BY DEF Send
<1> DEFINE w == wire[r]
           v == wire'[r]
           l == owed[1]
<1>1. /\ owed \in Seq(AnswerSet) /\ owed # <<>> /\ owed' = Tail(owed)
      /\ inbox \in Seq(CommandSet) /\ r \in Tasks /\ w \in Seq(AnswerSet)
  BY DEF Send, UnderWay, Tasks
<1>2. /\ Len(owed) \in Nat \ {0} /\ l \in AnswerSet /\ Head(owed) = l
      /\ Len(owed') = Len(owed) - 1
      /\ \A i \in 1..(Len(owed) - 1) : owed'[i] = owed[i + 1]
      /\ Len(owed) = 1 => owed' = <<>>
  BY <1>1, First
<1>3. /\ Len(owed) <= 2
      /\ Len(owed) = 1 => l.text = "result"
      /\ Len(owed) = 2 => l.text = "ACK" /\ owed[2].to = l.to
  BY <1>1, <1>2 DEF DeviceInOrder, OneAnswer
<1>4. /\ l.to \in Tasks
      /\ IF task[l.to].pc = "read" /\ task[l.to].num = l.num
         THEN wire' = [wire EXCEPT ![l.to] = Append(wire[l.to], l)]
         ELSE wire' = wire
  BY <1>2 DEF Send, Channel, AnswerSet
<1>5. IF l.to = r /\ task[r].pc = "read" /\ task[r].num = l.num
      THEN v = Append(w, l) ELSE v = w
  BY <1>1, <1>4 DEF UnderWay
<1>6. l.to = r => /\ task[r].pc \in {"read", "done"} /\ task[r].num = l.num
                  /\ \A i \in 1..Len(inbox) : inbox[i].to # r
  <2> SUFFICES ASSUME l.to = r
               PROVE  /\ task[r].pc \in {"read", "done"} /\ task[r].num = l.num
                      /\ \A i \in 1..Len(inbox) : inbox[i].to # r
    OBVIOUS
  <2>1. 1 \in 1..Len(owed)
    BY <1>2
  <2>2. task[r].pc \in {"read", "done"} /\ task[r].num = l.num
    BY <2>1 DEF Connection
  <2>3. \A i \in 1..Len(inbox) : l.num < inbox[i].num
    BY <2>1 DEF DeviceInOrder, Before
  <2>4. \A i \in 1..Len(inbox) : inbox[i].to = r => inbox[i].num = l.num
    BY <2>2 DEF Connection
  <2>5. l.num \in Nat
    BY <1>2 DEF AnswerSet
  <2> QED
    BY <2>2, <2>3, <2>4, <2>5
<1>7. /\ Append(w, l) \in Seq(AnswerSet) /\ Len(w) \in Nat /\ Append(w, l) # <<>>
      /\ Len(Append(w, l)) = Len(w) + 1 /\ Append(w, l)[Len(w) + 1] = l
      /\ \A i \in 1..Len(w) : Append(w, l)[i] = w[i]
  <2>1. /\ Append(w, l) \in Seq(AnswerSet) /\ Len(w) \in Nat
        /\ Len(Append(w, l)) = Len(w) + 1 /\ Append(w, l)[Len(w) + 1] = l
        /\ \A i \in 1..Len(w) : Append(w, l)[i] = w[i]
    BY <1>1, <1>2, Added
  <2> QED
    BY <2>1, EmptySeq
<1>8. \A i \in 1..Len(owed') : owed'[i] = owed[i + 1] /\ i + 1 \in 1..Len(owed)
  BY <1>2
<1> HIDE DEF w, v, l
<1>9. /\ \A i \in 1..Len(inbox) :
            inbox[i].to = r => task[r].pc \in {"read", "done"} /\ inbox[i].num = task[r].num
      /\ \A i \in 1..Len(owed') :
            owed'[i].to = r => task[r].pc \in {"read", "done"} /\ owed'[i].num = task[r].num
  BY <1>8 DEF Connection
<1>10. CASE l.to # r
  <2>1. owed' # <<>> => owed'[1].to # r
    <3>1. Len(owed) # 1 => Len(owed) = 2
      BY <1>2, <1>3
    <3> QED
      BY <1>2, <1>3, <1>10, <3>1
  <2>2. v = w
    BY <1>5, <1>10
  <2> QED
    BY <2>1, <2>2, <1>9 DEF Connection, SentSoFar, v, w
<1>11. CASE l.to = r /\ task[r].pc = "done"
  <2>1. v = w
    BY <1>5, <1>11
  <2> QED
    BY <2>1, <1>9, <1>11 DEF Connection, v, w
<1>12. CASE l.to = r /\ task[r].pc = "read"
  <2>1. v = Append(w, l) /\ l.num = task[r].num
    BY <1>5, <1>6, <1>12
  <2>2. \A i \in 1..Len(v) : v[i].to = r /\ v[i].num = task[r].num
    <3>1. \A i \in 1..Len(w) : w[i].to = r /\ w[i].num = task[r].num
      BY DEF Connection, w
    <3>2. \A i \in 1..Len(v) : i \in 1..Len(w) \/ i = Len(w) + 1
      BY <2>1, <1>7
    <3> QED
      BY <3>1, <3>2, <2>1, <1>7, <1>12
  <2>3. /\ IF Len(owed) = 2 THEN w = <<>> /\ ~task[r].acked
           ELSE Len(w) = IF task[r].acked THEN 0 ELSE 1
        /\ Fits(w, task[r].acked)
    BY <1>1, <1>12 DEF Connection, SentSoFar, w, l
  <2>4. Len(<<>>) = 0 /\ (w = <<>> <=> Len(w) = 0)
    BY <1>1, EmptySeq DEF w
  <2>5. Fits(v, task[r].acked)
    <3>1. CASE Len(owed) = 2
      <4>1. Len(v) = 1 /\ v[1].text = "ACK"
        BY <3>1, <2>1, <2>3, <2>4, <1>3, <1>7
      <4> QED
        BY <3>1, <4>1, <2>3 DEF Fits
    <3>2. CASE Len(owed) = 1 /\ task[r].acked
      <4>1. Len(v) = 1 /\ v[1].text = "result"
        BY <3>2, <2>1, <2>3, <1>3, <1>7
      <4> QED
        BY <3>2, <4>1 DEF Fits
    <3>3. CASE Len(owed) = 1 /\ ~task[r].acked
      <4>1. Len(w) = 1
        BY <3>3, <2>3
      <4>2. Len(v) = 2 /\ v[2].text = "result" /\ v[1] = w[1]
        BY <3>3, <4>1, <2>1, <1>3, <1>7
      <4>3. w[1].text = "ACK"
        BY <3>3, <4>1, <2>3, <2>4 DEF Fits
      <4> QED
        BY <3>3, <4>2, <4>3 DEF Fits
    <3> QED
      BY <3>1, <3>2, <3>3, <1>2, <1>3
  <2>6. SentSoFar(r, task[r].acked, inbox, owed', v)
    <3>1. \A i \in 1..Len(inbox) : inbox[i].to # r
      BY <1>6, <1>12
    <3>2. CASE Len(owed) = 2
      <4>1. Len(owed') = 1 /\ Len(v) = 1
        BY <3>2, <2>1, <2>3, <2>4, <1>2, <1>7
      <4> QED
        BY <3>1, <3>2, <4>1, <2>3 DEF SentSoFar
    <3>3. CASE Len(owed) = 1
      BY <3>1, <3>3, <1>2 DEF SentSoFar
    <3> QED
      BY <3>2, <3>3, <1>2, <1>3
  <2> QED
    BY <2>2, <2>5, <2>6, <1>9, <1>12 DEF Connection, v
<1> QED
  BY <1>6, <1>10, <1>11, <1>12

LEMMA UnplugTcp ==
    ASSUME NEW r \in Requests
    PROVE  Unplug /\ Connection(r, task[r], inbox, owed, wire[r])
           => Connection(r, task'[r], inbox', owed', wire'[r])
<1> SUFFICES ASSUME Unplug, Connection(r, task[r], inbox, owed, wire[r])
             PROVE  Connection(r, task[r], <<>>, <<>>, wire[r])
  BY DEF Unplug
<1>1. Len(<<>>) = 0 /\ \A i : i \notin 1..0
  BY EmptySeq
<1> QED
  BY <1>1 DEF Connection, SentSoFar

\* Nothing is under way for a request that has not asked.
LEMMA AskTcp ==
    ASSUME NEW r \in Requests, NEW o \in Tasks
    PROVE  TypeOK /\ UnderWay /\ OneExchange /\ Ask(o)
           /\ Connection(r, task[r], inbox, owed, wire[r])
           => Connection(r, task'[r], inbox', owed', wire'[r])
<1> SUFFICES ASSUME TypeOK, UnderWay, OneExchange, Ask(o),
                    Connection(r, task[r], inbox, owed, wire[r])
             PROVE  Connection(r, task'[r], inbox', owed, wire[r])
  BY DEF Ask
<1> DEFINE q == [to |-> o, cmd |-> Command(o), num |-> asked + 1]
<1>1. q \in CommandSet /\ q.to = o /\ q.num = asked + 1
  BY CommandType, Parts DEF CommandSet
<1>2. /\ inbox' = Append(inbox, q) /\ inbox \in Seq(CommandSet) /\ asked' = asked + 1
      /\ task' = [task EXCEPT ![o].pc = "read", ![o].num = asked'] /\ task[o].pc = "ask"
  BY DEF Ask, UnderWay
<1> HIDE DEF q
<1>3. /\ Len(inbox) \in Nat /\ Len(inbox') = Len(inbox) + 1
      /\ inbox'[Len(inbox) + 1] = q /\ \A i \in 1..Len(inbox) : inbox'[i] = inbox[i]
  BY <1>1, <1>2, Added
<1>4. \A i \in 1..Len(inbox') : i \in 1..Len(inbox) \/ i = Len(inbox) + 1
  BY <1>3
<1>5. r \in Tasks /\ task \in [Tasks -> TaskSet]
  BY Parts DEF Tasks
<1>6. CASE o # r
  <2>1. task'[r] = task[r]
    BY <1>2, <1>5, <1>6
  <2>2. \A i \in 1..Len(inbox') : inbox'[i].to = r => i \in 1..Len(inbox) /\ inbox'[i] = inbox[i]
    BY <1>1, <1>3, <1>4, <1>6
  <2> QED
    BY <2>1, <2>2 DEF Connection, SentSoFar
<1>7. CASE o = r
  <2>1. /\ task'[r].pc = "read" /\ task'[r].num = asked + 1
        /\ task'[r].acked = task[r].acked /\ ~task[r].acked
    BY <1>2, <1>5, <1>7 DEF TaskSet, OneExchange
  <2>2. /\ \A i \in 1..Len(inbox) : inbox[i].to # r
        /\ \A i \in 1..Len(owed) : owed[i].to # r
        /\ wire[r] = <<>>
    BY <1>2, <1>7 DEF Connection
  <2>3. owed # <<>> => 1 \in 1..Len(owed)
    <3>1. owed \in Seq(AnswerSet)
      BY DEF UnderWay
    <3> QED
      BY <3>1, First
  <2>4. Len(<<>>) = 0 /\ \A i : i \notin 1..0
    BY EmptySeq
  <2>5. Fits(wire[r], task'[r].acked)
    BY <2>1, <2>2, <2>4 DEF Fits
  <2>6. SentSoFar(r, task'[r].acked, inbox', owed, wire[r])
    BY <2>1, <2>2, <2>3 DEF SentSoFar
  <2>7. \A i \in 1..Len(inbox') : inbox'[i].to = r => inbox'[i].num = task'[r].num
    BY <2>1, <2>2, <1>1, <1>3, <1>4
  <2> QED
    BY <2>1, <2>2, <2>4, <2>5, <2>6, <2>7 DEF Connection
<1> QED
  BY <1>6, <1>7

LEMMA OpenTcp ==
    ASSUME NEW r \in Requests
    PROVE  TypeOK /\ UnderWay /\ Open /\ Connection(r, task[r], inbox, owed, wire[r])
           => Connection(r, task'[r], inbox', owed', wire'[r])
<1> SUFFICES ASSUME TypeOK, UnderWay, Open PROVE task'[r] = task[r] /\ wire'[r] = wire[r]
  BY DEF Open, device
<1>1. r \in Tasks /\ r # Port /\ r # Probe
  BY Names DEF Tasks
<1> QED
  BY <1>1, Parts DEF Open

LEMMA StartTcp ==
    ASSUME NEW r \in Requests, NEW o \in Tasks
    PROVE  TypeOK /\ UnderWay /\ Start(o) /\ Connection(r, task[r], inbox, owed, wire[r])
           => Connection(r, task'[r], inbox', owed', wire'[r])
<1> SUFFICES ASSUME TypeOK, UnderWay, Start(o), Connection(r, task[r], inbox, owed, wire[r])
             PROVE  Connection(r, task'[r], inbox, owed, wire[r])
  BY DEF Start, device
<1>1. task' = [task EXCEPT ![o] = Asking] /\ task[o].pc = "idle" /\ Asking.pc = "ask"
  BY DEF Start, Asking, Idle
<1>2. task'[r] = task[r] \/ (task'[r].pc = "ask" /\ task[r].pc = "idle")
  <2>1. r \in Tasks
    BY DEF Tasks
  <2> QED
    BY <1>1, <2>1, Parts
<1> QED
  BY <1>1, <1>2 DEF Connection

\* A request whose exchange is over keeps the number of it.
LEMMA OverTcp ==
    ASSUME NEW r, NEW e, NEW f, NEW cmds, NEW left, NEW lines, e.pc \in {"ask", "read"},
           Connection(r, e, cmds, left, lines), f.pc = "done", f.num = e.num
    PROVE  Connection(r, f, cmds, left, <<>>)
<1>1. Len(<<>>) = 0 /\ \A i : i \notin 1..0
  BY EmptySeq
<1> QED
  BY <1>1 DEF Connection

LEMMA ExchangeFailsTcp ==
    ASSUME NEW r \in Requests, NEW o \in Tasks
    PROVE  TypeOK /\ UnderWay /\ ~Serial /\ ExchangeFails(o)
           /\ Connection(r, task[r], inbox, owed, wire[r])
           => Connection(r, task'[r], inbox', owed', wire'[r])
<1> SUFFICES ASSUME TypeOK, UnderWay, ~Serial, ExchangeFails(o),
                    Connection(r, task[r], inbox, owed, wire[r])
             PROVE  Connection(r, task'[r], inbox, owed, wire[r])
  BY DEF ExchangeFails, device
<1>1. task[o].pc \in {"ask", "read"} /\ End(o, NoLine, "Error")
  BY DEF ExchangeFails
<1>2. /\ \A p \in Tasks \ {o} : task'[p] = task[p]
      /\ o \in Requests => task'[o].pc = "done" /\ task'[o].num = task[o].num
  BY <1>1, StartTypes, Parts, EndEffect DEF TypeOK
<1>3. r \in Tasks
  BY DEF Tasks
<1>4. CASE o # r
  BY <1>2, <1>3, <1>4
<1>5. CASE o = r
  <2>1. wire[r] = <<>>
    BY <1>5 DEF ExchangeFails, Channel, Connection
  <2> QED
    BY <2>1, <1>1, <1>2, <1>5, OverTcp
<1> QED
  BY <1>4, <1>5

\* A read that ends the exchange empties the connection.
LEMMA ReadTcp ==
    ASSUME NEW r \in Requests, NEW o \in Tasks
    PROVE  TypeOK /\ UnderWay /\ ~Serial /\ Read(o)
           /\ Connection(r, task[r], inbox, owed, wire[r])
           => Connection(r, task'[r], inbox', owed', wire'[r])
<1> SUFFICES ASSUME TypeOK, UnderWay, ~Serial, Read(o),
                    Connection(r, task[r], inbox, owed, wire[r])
             PROVE  Connection(r, task'[r], inbox, owed, wire'[r])
  BY DEF Read, device
<1> DEFINE w == wire[o]
<1>1. /\ w \in Seq(AnswerSet) /\ task[o].pc = "read" /\ w # <<>>
      /\ \E n \in 1..Len(w) :
           /\ wire' = [wire EXCEPT ![o] = SubSeq(w, n + 1, Len(w))]
           /\ \/ /\ ~task[o].acked /\ w[1].text = "ACK" /\ n = 1
                 /\ task' = [task EXCEPT ![o].acked = TRUE]
              \/ \E k \in 1..n, out \in {"Ok", "Error"} :
                    /\ End(o, w[k], out)
                    /\ \/ task[o].acked /\ k = 1
                       \/ ~task[o].acked /\ w[1].text # "ACK" /\ k = 1
                       \/ ~task[o].acked /\ w[1].text = "ACK" /\ k = 2
  BY ReadEffect DEF Channel
<1>2. PICK n \in 1..Len(w) :
           /\ wire' = [wire EXCEPT ![o] = SubSeq(w, n + 1, Len(w))]
           /\ \/ /\ ~task[o].acked /\ w[1].text = "ACK" /\ n = 1
                 /\ task' = [task EXCEPT ![o].acked = TRUE]
              \/ \E k \in 1..n, out \in {"Ok", "Error"} :
                    /\ End(o, w[k], out)
                    /\ \/ task[o].acked /\ k = 1
                       \/ ~task[o].acked /\ w[1].text # "ACK" /\ k = 1
                       \/ ~task[o].acked /\ w[1].text = "ACK" /\ k = 2
  BY <1>1
<1>w. w \in Seq(AnswerSet) /\ task[o].pc = "read" /\ w # <<>>
  BY <1>1
<1>3. /\ Len(w) \in Nat \ {0} /\ n \in Nat /\ 1 <= n /\ n <= Len(w) /\ 1 \in 1..Len(w)
      /\ r \in Tasks /\ task \in [Tasks -> TaskSet]
      /\ wire \in [Tasks \union {Port} -> Seq(AnswerSet)]
  BY <1>w, First, Parts DEF Tasks
<1> DEFINE v == SubSeq(w, n + 1, Len(w))
<1>4. /\ v \in Seq(AnswerSet) /\ Len(v) = Len(w) - n
      /\ \A i \in 1..Len(v) : v[i] = w[n + i]
      /\ v = <<>> <=> Len(v) = 0
  <2>1. n \in 0..Len(w)
    BY <1>3
  <2>2. /\ v \in Seq(AnswerSet) /\ Len(v) = Len(w) - n
        /\ \A i \in 1..(Len(w) - n) : v[i] = w[n + i]
    BY <2>1, <1>w, Split
  <2> QED
    BY <2>2, EmptySeq
<1>5. wire'[o] = v /\ \A c \in Tasks \ {o} : wire'[c] = wire[c]
  BY <1>2, <1>3
<1> HIDE DEF v
<1>6. CASE o # r
  <2>1. wire'[r] = wire[r]
    BY <1>3, <1>5, <1>6
  <2>2. task'[r] = task[r]
    <3>1. CASE task' = [task EXCEPT ![o].acked = TRUE]
      BY <3>1, <1>3, <1>6
    <3>2. ASSUME NEW k \in 1..n, NEW out \in {"Ok", "Error"}, End(o, w[k], out)
          PROVE  task'[r] = task[r]
      <4>1. w[k] \in LineSet
        <5>1. k \in 1..Len(w)
          BY <1>3
        <5> QED
          BY <5>1, <1>w, InAnswers, AnswersAreLines
      <4>2. \A p \in Tasks \ {o} : task'[p] = task[p]
        <5>1. /\ probing \in {"closed", "checking", "creating", "listed"}
              /\ task[Probe].pc = "idle" <=> probing \in {"closed", "listed"}
              /\ task[o].pc \in {"ask", "read"}
          BY <1>w DEF TypeOK
        <5> HIDE DEF w
        <5> QED
          BY <1>3, <3>2, <4>1, <5>1, EndEffect
      <4> QED
        BY <4>2, <1>3, <1>6
    <3> QED
      BY <1>2, <3>1, <3>2
  <2> QED
    BY <2>1, <2>2
<1>7. CASE o = r
  <2>1. /\ \A i \in 1..Len(w) : w[i].to = r /\ w[i].num = task[r].num
        /\ Fits(w, task[r].acked) /\ SentSoFar(r, task[r].acked, inbox, owed, w)
        /\ \A i \in 1..Len(inbox) : inbox[i].to # r
    BY <1>w, <1>7 DEF Connection, SentSoFar
  <2>2. CASE /\ ~task[r].acked /\ w[1].text = "ACK" /\ n = 1
             /\ task' = [task EXCEPT ![r].acked = TRUE]
    <3>1. task'[r].acked /\ task'[r].pc = task[r].pc /\ task'[r].num = task[r].num
      BY <2>2, <1>3 DEF TaskSet
    <3>2. \A i \in 1..Len(v) : v[i].to = r /\ v[i].num = task[r].num
      <4>1. \A i \in 1..Len(v) : n + i \in 1..Len(w)
        BY <1>3, <1>4
      <4> QED
        BY <4>1, <2>1, <1>4
    <3>3. Fits(v, TRUE)
      <4>1. Len(v) = 0 \/ (Len(v) = 1 /\ v[1] = w[2] /\ Len(w) = 2)
        <5>1. Len(w) <= 2
          BY <2>1, <2>2 DEF Fits
        <5>2. Len(w) \in {1, 2} /\ Len(v) = Len(w) - 1
          BY <5>1, <2>2, <1>3, <1>4, SMTT(30)
        <5>3. Len(w) = 2 => 1 \in 1..Len(v) /\ v[1] = w[1 + 1]
          BY <5>2, <2>2, <1>4
        <5> QED
          BY <5>2, <5>3
      <4> QED
        BY <4>1, <2>1, <2>2, <1>4 DEF Fits
    <3>4. SentSoFar(r, TRUE, inbox, owed, v)
      <4>1. owed # <<>> /\ owed[1].to = r => Len(owed) # 2 /\ Len(w) = 1
        BY <2>1, <2>2, <1>w DEF SentSoFar
      <4> QED
        BY <4>1, <2>1, <2>2, <1>4 DEF SentSoFar
    <3> QED
      BY <3>1, <3>2, <3>3, <3>4, <1>w, <1>5, <1>7 DEF Connection
  <2>3. ASSUME NEW k \in 1..n, NEW out \in {"Ok", "Error"}, End(r, w[k], out),
               \/ task[r].acked /\ k = 1
               \/ ~task[r].acked /\ w[1].text # "ACK" /\ k = 1
               \/ ~task[r].acked /\ w[1].text = "ACK" /\ k = 2
        PROVE  Connection(r, task'[r], inbox, owed, wire'[r])
    <3>1. k \in 1..Len(w) /\ k <= n
      BY <1>3
    <3>2. w[k] \in LineSet
      BY <3>1, <1>w, InAnswers, AnswersAreLines
    <3>3. task'[r].pc = "done" /\ task'[r].num = task[r].num
      BY <1>w, <1>3, <1>7, <2>3, <3>2, EndEffect DEF TypeOK
    <3>4. Len(v) = 0
      BY <2>1, <2>3, <3>1, <1>w, <1>3, <1>4 DEF Fits
    <3>5. wire'[r] = <<>>
      BY <3>4, <1>4, <1>5, <1>7
    <3> QED
      BY <3>3, <3>5, <1>w, <1>7, OverTcp
  <2> QED
    BY <1>2, <1>7, <2>2, <2>3
<1> QED
  BY <1>6, <1>7

LEMMA NextTcp ==
    ASSUME TypeOK, UnderWay, DeviceInOrder, OneExchange, ~Serial, TcpInv, [Next]_vars
    PROVE  TcpInv'
<1>1. timeouts' = 0
  BY DEF TcpInv, Next, DeviceStep, TaskStep, Reply, Send, Unplug, Open, ProbeTimeout, Start,
         Ask, Read, ExchangeFails, vars
<1>2. ASSUME NEW r \in Requests
      PROVE  Connection(r, task'[r], inbox', owed', wire'[r])
  <2>1. Connection(r, task[r], inbox, owed, wire[r])
    BY DEF TcpInv
  <2>2. CASE UNCHANGED vars
    BY <2>1, <2>2 DEF vars, device
  <2>3. ~ProbeTimeout
    BY DEF ProbeTimeout
  <2> QED
    BY <2>1, <2>2, <2>3, ReplyTcp, SendTcp, UnplugTcp, OpenTcp, StartTcp, AskTcp, ReadTcp,
       ExchangeFailsTcp DEF Next, DeviceStep, TaskStep
<1> QED
  BY <1>1, <1>2 DEF TcpInv

-----------------------------------------------------------------------------
(* The results of the requests                                             *)

Results == OwnUnlessTimedOut /\ LagBounded /\ FailureHasCause

\* The line that ends the exchange of a request is of a late exchange by at most the
\* number of timeouts, and the result of its own if there were none.
LEMMA LineRead ==
    ASSUME TypeOK, UnderWay, IF Serial THEN SerialInv ELSE TcpInv,
           NEW r \in Requests, task[r].pc = "read",
           NEW n \in 1..Len(wire[Channel(r)]), NEW k \in 1..n,
           LET w == wire[Channel(r)] IN
              \/ task[r].acked /\ k = 1
              \/ ~task[r].acked /\ w[1].text # "ACK" /\ k = 1
              \/ ~task[r].acked /\ w[1].text = "ACK" /\ k = 2
    PROVE  LET w == wire[Channel(r)] IN
           /\ w[k] \in AnswerSet /\ w[k].cmd = Command(w[k].to)
           /\ task[r].num <= w[k].num + timeouts
           /\ timeouts = 0 => /\ w[k].to = r /\ w[k].text = "result"
                              /\ task[r].acked \/ w[1].text = "ACK"
<1>1. /\ r \in Tasks /\ task \in [Tasks -> TaskSet] /\ timeouts \in Nat /\ asked \in Nat
      /\ wire \in [Tasks \union {Port} -> Seq(AnswerSet)]
  BY Parts DEF Tasks
<1>2. CASE Serial
  <2> DEFINE w == wire[Port]
  <2>1. Channel(r) = Port /\ mutex = r /\ r # NoOne
    BY <1>1, <1>2, Names DEF Channel, TypeOK
  <2>2. /\ w \in Seq(AnswerSet) /\ Len(w) \in Nat /\ Len(Stream) \in Nat
        /\ \A i \in 1..Len(w) : i \in 1..Len(Stream) /\ Stream[i] = w[i]
        /\ Stream = <<>> <=> Len(Stream) = 0
    BY StreamParts
  <2>3. n \in 1..Len(w) /\ k \in 1..Len(w) /\ 1 \in 1..Len(w)
    BY <2>1, <2>2
  <2>4. Stream[1] = w[1] /\ Stream[k] = w[k] /\ k \in 1..Len(Stream)
    BY <2>2, <2>3
  <2>5. Stream[k].text = "result" /\ asked <= Stream[k].num + timeouts
    BY <1>1, <1>2, <2>1, <2>3, <2>4, LeftIsLater
  <2>6. /\ w[k] \in AnswerSet /\ w[k].num \in Nat /\ w[k].cmd = Command(w[k].to)
        /\ w[k].num <= asked
    BY <2>2, <2>3, InAnswers DEF UnderWay, Genuine
  <2>7. /\ task[r].num = asked /\ InStep(Stream, task[r].acked, attached, timeouts)
        /\ Recent(Stream[k], mutex, asked, timeouts)
    BY <1>2, <2>1, <2>4 DEF SerialInv
  <2>8. timeouts = 0 => w[k].to = r
    BY <1>1, <2>1, <2>4, <2>5, <2>6, <2>7 DEF Recent
  <2>9. Stream # <<>>
    BY <2>2, <2>3
  <2>10. timeouts = 0 => task[r].acked \/ w[1].text = "ACK"
    BY <2>4, <2>7, <2>9 DEF InStep
  <2> QED
    BY <2>1, <2>4, <2>5, <2>6, <2>7, <2>8, <2>10
<1>3. CASE ~Serial
  <2> DEFINE w == wire[r]
  <2>1. Channel(r) = r /\ w \in Seq(AnswerSet)
    BY <1>1, <1>3 DEF Channel
  <2>2. Len(w) \in Nat
    BY <2>1, LenProperties
  <2>3. n \in 1..Len(w) /\ k \in 1..Len(w) /\ 1 \in 1..Len(w) /\ w # <<>>
    BY <2>1, <2>2, EmptySeq
  <2>4. /\ w[k] \in AnswerSet /\ w[k].num \in Nat /\ w[k].cmd = Command(w[k].to)
    BY <1>1, <2>1, <2>3, InAnswers DEF UnderWay, Genuine
  <2>5. timeouts = 0 /\ Connection(r, task[r], inbox, owed, w)
    BY <1>3 DEF TcpInv
  <2>6. w[k].to = r /\ w[k].num = task[r].num /\ Fits(w, task[r].acked)
    BY <2>3, <2>5 DEF Connection
  <2>7. w[k].text = "result" /\ (task[r].acked \/ w[1].text = "ACK")
    <3>1. CASE task[r].acked
      BY <2>1, <2>3, <2>6, <3>1 DEF Fits
    <3>2. CASE ~task[r].acked
      <4>1. w[1].text = "ACK" /\ Len(w) <= 2
        BY <2>3, <2>6, <3>2 DEF Fits
      <4>2. k = 2
        BY <2>1, <3>2, <4>1
      <4>3. Len(w) = 2
        <5>1. 2 \in 1..Len(w)
          BY <2>3, <4>2
        <5>2. \A m \in Nat : 2 \in 1..m /\ m <= 2 => m = 2
          OBVIOUS
        <5> QED
          BY <2>2, <4>1, <5>1, <5>2, Zenon
      <4> QED
        BY <2>6, <3>2, <4>1, <4>2, <4>3 DEF Fits
    <3> QED
      BY <3>1, <3>2
  <2>8. task[r].num <= w[k].num + timeouts
    BY <2>4, <2>5, <2>6
  <2> QED
    BY <2>1, <2>4, <2>6, <2>7, <2>8
<1> QED
  BY <1>2, <1>3

\* What the result of one request must be: e is its exchange.
Due(r, e, late, there) ==
    /\ late = 0 /\ e.out = "Ok" => e.got.to = r
    /\ e.out = "Ok" => e.num - e.got.num <= late
    /\ late = 0 /\ there /\ e.out = "Error" => e.got.to = r /\ ~e.got.ok

LEMMA DueIsResults == Results <=> \A r \in Requests : Due(r, task[r], timeouts, attached)
BY DEF Results, Due, OwnUnlessTimedOut, LagBounded, FailureHasCause

\* A result stays what it should be.
LEMMA Kept ==
    ASSUME TypeOK, TypeOK', NEW r \in Requests, Due(r, task[r], timeouts, attached),
           \/ task'[r].out = "none"
           \/ /\ task'[r].out = task[r].out /\ task'[r].got = task[r].got
              /\ task'[r].num = task[r].num,
           timeouts' >= timeouts, attached' => attached
    PROVE  Due(r, task'[r], timeouts', attached')
<1>1. /\ r \in Tasks /\ timeouts \in Nat /\ timeouts' \in Nat
      /\ task[r].num \in Nat /\ task[r].got.num \in Nat
  BY BoundsNat, SMTT(30) DEF TypeOK, Tasks, LineSet
<1> QED
  BY <1>1 DEF Due

LEMMA ReadResults ==
    ASSUME TypeOK, TypeOK', UnderWay, IF Serial THEN SerialInv ELSE TcpInv, Results,
           NEW o \in Tasks, Read(o)
    PROVE  Results'
<1> SUFFICES ASSUME NEW r \in Requests PROVE Due(r, task'[r], timeouts', attached')
  BY DueIsResults DEF Results, Due, OwnUnlessTimedOut, LagBounded, FailureHasCause
<1>1. /\ r \in Tasks /\ task \in [Tasks -> TaskSet] /\ timeouts \in Nat
      /\ timeouts' = timeouts /\ attached' = attached
      /\ Due(r, task[r], timeouts, attached)
  BY Parts, DueIsResults DEF Tasks, Read, device
<1> DEFINE w == wire[Channel(o)]
<1>2. /\ w \in Seq(AnswerSet) /\ task[o].pc = "read" /\ w # <<>>
      /\ \E n \in 1..Len(w) :
              \/ task' = [task EXCEPT ![o].acked = TRUE]
              \/ \E k \in 1..n, out \in {"Ok", "Error"} :
                    /\ End(o, w[k], out)
                    /\ \/ task[o].acked /\ k = 1 /\ out = Outcome(o, w[1])
                       \/ ~task[o].acked /\ w[1].text # "ACK" /\ k = 1 /\ out = "Error"
                       \/ /\ ~task[o].acked /\ w[1].text = "ACK" /\ k = 2
                          /\ out = Outcome(o, w[2])
  BY ReadEffect
<1>3. w \in Seq(AnswerSet) /\ task[o].pc = "read" /\ Len(w) \in Nat
  BY <1>2, LenProperties
<1>4. CASE task' = [task EXCEPT ![o].acked = TRUE]
  <2>1. /\ task'[r].out = task[r].out /\ task'[r].got = task[r].got
        /\ task'[r].num = task[r].num
    BY <1>1, <1>4 DEF TaskSet
  <2>2. timeouts' >= timeouts
    BY <1>1
  <2> QED
    BY <1>1, <2>1, <2>2, Kept
<1>5. ASSUME NEW n \in 1..Len(w), NEW k \in 1..n, NEW out \in {"Ok", "Error"},
             End(o, w[k], out),
             \/ task[o].acked /\ k = 1 /\ out = Outcome(o, w[1])
             \/ ~task[o].acked /\ w[1].text # "ACK" /\ k = 1 /\ out = "Error"
             \/ ~task[o].acked /\ w[1].text = "ACK" /\ k = 2 /\ out = Outcome(o, w[2])
      PROVE  Due(r, task'[r], timeouts', attached')
  <2>1. k \in 1..Len(w)
    BY <1>3
  <2>2. w[k] \in LineSet
    BY <1>3, <2>1, InAnswers, AnswersAreLines
  <2>3. /\ \A p \in Tasks \ {o} : task'[p] = task[p]
        /\ o \in Requests => /\ task'[o].num = task[o].num
                             /\ task'[o].got = w[k] /\ task'[o].out = out
    <3>1. task \in [Tasks -> TaskSet] /\ End(o, w[k], out)
      BY <1>1, <1>5
    <3>2. /\ probing \in {"closed", "checking", "creating", "listed"}
          /\ task[Probe].pc = "idle" <=> probing \in {"closed", "listed"}
      BY DEF TypeOK
    <3> QED
      BY <1>3, <2>2, <3>1, <3>2, EndEffect
  <2>4. CASE o # r
    <3>1. task'[r] = task[r]
      BY <1>1, <2>3, <2>4
    <3> QED
      BY <1>1, <3>1
  <2>5. CASE o = r
    <3>1. /\ w[k] \in AnswerSet /\ w[k].cmd = Command(w[k].to)
          /\ task[r].num <= w[k].num + timeouts
          /\ timeouts = 0 => /\ w[k].to = r /\ w[k].text = "result"
                             /\ task[r].acked \/ w[1].text = "ACK"
      BY <1>3, <1>5, <2>5, LineRead
    <3>2. task[r].num \in Nat /\ w[k].num \in Nat
      BY <1>1, <3>1 DEF TaskSet, AnswerSet
    <3>3. timeouts = 0 => out = Outcome(r, w[k])
      BY <1>5, <2>5, <3>1
    <3>4. timeouts = 0 /\ out = "Error" => ~w[k].ok
      BY <3>1, <3>3 DEF Outcome
    <3>5. task[r].num - w[k].num <= timeouts
      BY <1>1, <3>1, <3>2
    <3> QED
      BY <1>1, <2>3, <2>5, <3>1, <3>4, <3>5 DEF Due
  <2> QED
    BY <2>4, <2>5
<1> QED
  BY <1>2, <1>4, <1>5

LEMMA NextResults ==
    ASSUME TypeOK, TypeOK', UnderWay, OneExchange, IF Serial THEN SerialInv ELSE TcpInv,
           Results, [Next]_vars
    PROVE  Results'
<1>1. task \in [Tasks -> TaskSet] /\ timeouts \in Nat
  BY Parts
<1>2. ASSUME \A r \in Requests :
                \/ task'[r].out = "none"
                \/ /\ task'[r].out = task[r].out /\ task'[r].got = task[r].got
                   /\ task'[r].num = task[r].num,
             timeouts' >= timeouts, attached' => attached
      PROVE  Results'
  <2> SUFFICES ASSUME NEW r \in Requests PROVE Due(r, task'[r], timeouts', attached')
    BY DEF Results, Due, OwnUnlessTimedOut, LagBounded, FailureHasCause
  <2>1. Due(r, task[r], timeouts, attached)
    BY DueIsResults
  <2> QED
    BY <1>2, <2>1, Kept
<1>3. Requests \subseteq Tasks
  BY DEF Tasks
<1>4. Idle.out = "none" /\ Asking.out = "none"
  BY DEF Idle, Asking
<1>5. CASE Reply \/ Send \/ Unplug \/ UNCHANGED vars
  <2>1. task' = task /\ timeouts' = timeouts /\ (attached' => attached)
    <3>1. CASE Reply
      BY <3>1 DEF Reply
    <3>2. CASE Send
      BY <3>2 DEF Send
    <3>3. CASE Unplug
      BY <3>3 DEF Unplug
    <3>4. CASE UNCHANGED vars
      BY <3>4 DEF vars, device
    <3> QED
      BY <1>5, <3>1, <3>2, <3>3, <3>4
  <2> QED
    BY <1>1, <1>2, <2>1
<1>6. CASE Open
  BY <1>1, <1>2, <1>3, <1>4, <1>6 DEF Open, device
<1>7. CASE ProbeTimeout
  BY <1>1, <1>2, <1>3, <1>4, <1>7 DEF ProbeTimeout, device
<1>8. ASSUME NEW o \in Tasks, Start(o) PROVE Results'
  BY <1>1, <1>2, <1>3, <1>4, <1>8 DEF Start, device
<1>9. ASSUME NEW o \in Tasks, Ask(o) PROVE Results'
  <2>1. /\ task[o].pc = "ask" /\ timeouts' = timeouts /\ attached' = attached
        /\ task' = [task EXCEPT ![o].pc = "read", ![o].num = asked']
    BY <1>9 DEF Ask
  <2>2. task'[o].out = "none" /\ \A p \in Tasks \ {o} : task'[p] = task[p]
    BY <1>1, <2>1 DEF TaskSet, OneExchange
  <2> QED
    BY <1>1, <1>2, <1>3, <2>1, <2>2
<1>10. ASSUME NEW o \in Tasks, ExchangeFails(o) PROVE Results'
  <2> SUFFICES ASSUME NEW r \in Requests PROVE Due(r, task'[r], timeouts', attached')
    BY DEF Results, Due, OwnUnlessTimedOut, LagBounded, FailureHasCause
  <2>1. /\ ~attached' /\ attached' = attached /\ timeouts' = timeouts
        /\ End(o, NoLine, "Error") /\ task[o].pc \in {"ask", "read"}
    BY <1>10 DEF ExchangeFails, device
  <2>2. /\ \A p \in Tasks \ {o} : task'[p] = task[p]
        /\ o \in Requests => task'[o].out = "Error"
    BY <1>1, <2>1, StartTypes, EndEffect DEF TypeOK
  <2>3. CASE o # r
    BY <1>3, <2>1, <2>2, <2>3, DueIsResults
  <2>4. CASE o = r
    BY <2>1, <2>2, <2>4 DEF Due
  <2> QED
    BY <2>3, <2>4
<1> QED
  BY <1>5, <1>6, <1>7, <1>8, <1>9, <1>10, ReadResults DEF Next, DeviceStep, TaskStep

-----------------------------------------------------------------------------
(* The theorems                                                            *)

LEMMA InitInv == Init => IInv
<1> SUFFICES ASSUME Init PROVE IInv
  OBVIOUS
<1>1. TypeOK /\ UnderWay
  BY InitTypes
<1>2. /\ inbox = <<>> /\ owed = <<>> /\ mutex = NoOne /\ timeouts = 0 /\ probing = "closed"
      /\ \A c \in Tasks \union {Port} : wire[c] = <<>>
      /\ \A r \in Tasks : /\ task[r].pc \in {"idle", "unmade"}
                         /\ task[r].out = "none" /\ ~task[r].acked
  BY DEF Init, Idle
<1>3. Len(<<>>) = 0 /\ \A i : i \notin 1..0
  BY EmptySeq
<1>4. Requests \subseteq Tasks
  BY DEF Tasks
<1>5. DeviceInOrder
  BY <1>2, <1>3 DEF DeviceInOrder, Increasing, Before, OneAnswer
<1>6. OneExchange
  BY <1>2, <1>4 DEF OneExchange
<1>7. SerialInv
  <2>1. Stream = <<>>
    BY <1>1, <1>2, StreamParts
  <2> QED
    BY <1>2, <1>3, <2>1 DEF SerialInv, InOrder, Before
<1>8. TcpInv
  BY <1>2, <1>3, <1>4 DEF TcpInv, Connection
<1>9. Results
  BY <1>2, <1>4 DEF Results, OwnUnlessTimedOut, LagBounded, FailureHasCause
<1> QED
  BY <1>1, <1>5, <1>6, <1>7, <1>8, <1>9 DEF IInv, Results

LEMMA NextInv == IInv /\ [Next]_vars => IInv'
<1> SUFFICES ASSUME IInv, [Next]_vars PROVE IInv'
  OBVIOUS
<1>1. /\ TypeOK /\ UnderWay /\ DeviceInOrder /\ OneExchange
      /\ (IF Serial THEN SerialInv ELSE TcpInv) /\ Results
  BY DEF IInv, Results
<1>2. TypeOK' /\ UnderWay'
  BY <1>1, NextTypes
<1>3. DeviceInOrder' /\ OneExchange'
  BY <1>1, NextInOrder, NextOnce
<1>4. Serial' <=> Serial
  BY DEF Serial, Next, DeviceStep, TaskStep, Reply, Send, Unplug, Open, ProbeTimeout, Start,
         Ask, Read, ExchangeFails, vars, device
<1>5. IF Serial' THEN SerialInv' ELSE TcpInv'
  BY <1>1, <1>4, NextSerial, NextTcp
<1>6. Results'
  BY <1>1, <1>2, NextResults
<1> QED
  BY <1>2, <1>3, <1>5, <1>6 DEF IInv, Results

LEMMA Invariance == Spec => []IInv
<1>1. IInv /\ [Next]_vars => IInv'
  BY NextInv
<1> QED
  BY <1>1, InitInv, PTL DEF Spec

\* The types, and with them that on a serial port exactly the holder of the lock of
\* the stream reads, and that the task of the handler ends with the listing.
THEOREM TypeCorrect == Spec => []TypeOK
<1>1. IInv => TypeOK
  BY DEF IInv
<1> QED
  BY <1>1, Invariance, PTL

\* As long as no probe was given up, no request returns the answer of another.
THEOREM OwnAnswer == Spec => []OwnUnlessTimedOut
<1>1. IInv => OwnUnlessTimedOut
  BY DEF IInv
<1> QED
  BY <1>1, Invariance, PTL

\* What a request returns is of an exchange at most as many back as probes were given
\* up, whatever was read, dropped or thrown away with the buffer in between.
THEOREM LagIsBounded == Spec => []LagBounded
<1>1. IInv => LagBounded
  BY DEF IInv
<1> QED
  BY <1>1, Invariance, PTL

\* With a device that is there and no probe given up, a request fails only if the
\* device refuses it.
THEOREM FailureOfDevice == Spec => []FailureHasCause
<1>1. IInv => FailureHasCause
  BY DEF IInv
<1> QED
  BY <1>1, Invariance, PTL
=============================================================================
