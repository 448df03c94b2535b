-------------------------- MODULE JadeSessionProofs -------------------------
(***************************************************************************)
(* Proofs about JadeSession for any requests, pieces and bounds: the lock  *)
(* of the stream keeps the answers apart as long as the device has not     *)
(* paused within one.                                                      *)
(***************************************************************************)
EXTENDS JadeSession, SequenceTheorems, TLAPS

(* The inductive invariant.                                                *)

CommandSet == [to : Requests, cmd : Commands, num : Nat, len : Nat]

\* Who reads holds the lock, and what is lost with the device is lost at once.
Locked ==
    /\ \A r \in Requests : task[r].pc = "read" <=> mutex = r
    /\ ~attached => inbox = <<>> /\ owed = <<>>

\* The command of r after the answers g, and what it asks.
CommandOf(r, g) ==
    CASE Method[r] = "get_extended_pubkey" -> "get_xpub"
      [] Method[r] \in {"display_miniscript", "display_p2tr"} -> "get_receive_address"
      [] Method[r] = "register_wallet" -> "register_descriptor"
      [] Method[r] = "is_wallet_registered" ->
            IF g = <<>> THEN "get_registered_descriptors" ELSE "get_registered_descriptor"
      [] Method[r] = "sign_tx" -> IF g = <<>> THEN "sign_psbt" ELSE "get_extended_data"

QuestionOf(r, g) ==
    LET piece == CommandOf(r, g) = "get_extended_data" IN
    [to |-> r, cmd |-> CommandOf(r, g), num |-> IF piece THEN Last(g).num + 1 ELSE 1,
     len |-> IF piece THEN Last(g).len ELSE 1]

\* A refusal, or the answer to q: only a piece may be of another's signing, and only
\* these answers have more to come.
AnswerTo(a, q) ==
    /\ a.cmd = q.cmd
    /\ a.ok =>
          /\ a.num = IF q.cmd = "get_registered_descriptor" THEN 2 ELSE q.num
          /\ IF q.cmd = "get_extended_data" THEN a.len = q.len ELSE a.to = q.to
          /\ IF q.cmd \in {"sign_psbt", "get_registered_descriptors"} THEN a.num <= a.len
             ELSE q.cmd = "get_extended_data" \/ a.len = a.num

\* The answer a, in one part or two: what was read, what was sent, what is left.
Spread(a, there, buf, lines, left) ==
    LET whole == Part(a, "whole")
        head == Part(a, "head")
        tail == Part(a, "tail")
    IN  \/ /\ buf = <<>>
           /\ \/ lines = <<>> /\ left = <<whole>>
              \/ lines = <<whole>> /\ left = <<>>
              \/ lines = <<>> /\ left = <<head, tail>>
              \/ lines = <<head>> /\ left = IF there THEN <<tail>> ELSE <<>>
              \/ lines = <<head, tail>> /\ left = <<>>
        \/ /\ buf = <<head>>
           /\ \/ lines = <<>> /\ left = IF there THEN <<tail>> ELSE <<>>
              \/ lines = <<tail>> /\ left = <<>>

\* The question q and then its answer are all there is, or the device is gone.
OnItsWay(q, there, buf, cmds, lines, left) ==
    \/ cmds = (IF there THEN <<q>> ELSE <<>>) /\ buf = <<>> /\ lines = <<>> /\ left = <<>>
    \/ cmds = <<>> /\ \E a \in AnswerSet : AnswerTo(a, q) /\ Spread(a, there, buf, lines, left)

StreamInv ==
    IF mutex = NoOne THEN inbox = <<>> /\ wire = <<>> /\ owed = <<>>
    ELSE OnItsWay(QuestionOf(mutex, task[mutex].got), attached, task[mutex].buf,
                  inbox, wire, owed)

\* The answers r has got before its last exchange: pieces 1, 2 .. of as many as the
\* first, its own, has said, or the list of the wallets.
GotSoFar(r, g) ==
    /\ \A i \in 1..Len(g) : g[i].ok /\ g[i].num = i /\ g[i].len = g[1].len /\ i < g[1].len
    /\ g # <<>> => g[1].to = r
    /\ Method[r] # "sign_tx" => Len(g) <= 1
    /\ Method[r] \notin {"sign_tx", "is_wallet_registered"} => g = <<>>

\* What a request comes to: e is its task, and unable says that the client declines it.
Due(r, e, there, unable) ==
    /\ e.out = "Ok" => \A i \in DOMAIN e.got : e.got[i].to = r
    /\ there /\ e.out = "Error" =>
          IF unable THEN e.got = <<>>
          ELSE /\ e.got # <<>>
               /\ ~Last(e.got).ok \/ \E i \in DOMAIN e.got : e.got[i].to # r

\* A request the client declines has no exchange.
TaskInv(r, e, there, unable) ==
    IF e.pc = "done" THEN Due(r, e, there, unable)
    ELSE GotSoFar(r, e.got) /\ (unable => e.pc # "read" /\ e.got = <<>>)

IInv ==
    /\ TypeOK /\ Locked
    /\ stalls = 0 =>
          /\ StreamInv
          /\ \A r \in Requests : TaskInv(r, task[r], attached, Unimplemented(r))
-----------------------------------------------------------------------------
(* Sequences of one or two                                                 *)

LEMMA One ==
    ASSUME NEW S, NEW s \in Seq(S), Len(s) = 1
    PROVE  s = <<s[1]>> /\ s[1] \in S
<1>1. s[1] \in S
  BY ElementOfSeq
<1>2. <<s[1]>> \in Seq(S) /\ Len(<<s[1]>>) = 1 /\ <<s[1]>>[1] = s[1]
  BY <1>1
<1>3. \A i \in 1..Len(s) : s[i] = <<s[1]>>[i]
  BY <1>2
<1> QED
  BY <1>1, <1>2, <1>3, SeqEqual

LEMMA Two ==
    ASSUME NEW S, NEW s \in Seq(S), Len(s) = 2
    PROVE  s = <<s[1], s[2]>> /\ s[1] \in S /\ s[2] \in S
<1>1. s[1] \in S /\ s[2] \in S
  BY ElementOfSeq
<1>2. /\ <<s[1], s[2]>> \in Seq(S) /\ Len(<<s[1], s[2]>>) = 2
      /\ <<s[1], s[2]>>[1] = s[1] /\ <<s[1], s[2]>>[2] = s[2]
  BY <1>1
<1>3. \A i \in 1..Len(s) : s[i] = <<s[1], s[2]>>[i]
  BY <1>2
<1> QED
  BY <1>1, <1>2, <1>3, SeqEqual

\* What a read takes of one element, or of two, and what it leaves.
LEMMA CutOne ==
    ASSUME NEW S, NEW x \in S
    PROVE  /\ <<x>> \in Seq(S) /\ Len(<<x>>) = 1 /\ <<x>> # <<>>
           /\ SubSeq(<<x>>, 1, 1) = <<x>> /\ SubSeq(<<x>>, 2, 1) = <<>>
<1>1. <<x>> \in Seq(S) /\ Len(<<x>>) = 1 /\ <<x>> # <<>>
  OBVIOUS
<1>2. SubSeq(<<x>>, 1, Len(<<x>>)) = <<x>>
  BY <1>1, SubSeqFull
<1>3. SubSeq(<<x>>, 2, 1) = <<>>
  BY <1>1, SubSeqEmpty
<1> QED
  BY <1>1, <1>2, <1>3

LEMMA CutTwo ==
    ASSUME NEW S, NEW x \in S, NEW y \in S
    PROVE  /\ <<x, y>> \in Seq(S) /\ Len(<<x, y>>) = 2 /\ <<x, y>> # <<>>
           /\ SubSeq(<<x, y>>, 1, 2) = <<x, y>> /\ SubSeq(<<x, y>>, 3, 2) = <<>>
           /\ SubSeq(<<x, y>>, 1, 1) = <<x>> /\ SubSeq(<<x, y>>, 2, 2) = <<y>>
           /\ <<x>> \o <<y>> = <<x, y>>
<1> DEFINE s == <<x, y>>
<1>1. s \in Seq(S) /\ Len(s) = 2 /\ s # <<>> /\ s[1] = x /\ s[2] = y
  OBVIOUS
<1> HIDE DEF s
<1>2. SubSeq(s, 1, 2) = s
  BY <1>1, SubSeqFull
<1>3. SubSeq(s, 3, 2) = <<>>
  BY <1>1, SubSeqEmpty
<1>4. \A i \in 1..2 : s[i] \in S
  BY <1>1
<1>5. SubSeq(s, 1, 1) = <<x>>
  <2>1. SubSeq(s, 1, 1) \in Seq(S) /\ Len(SubSeq(s, 1, 1)) = 1 /\ SubSeq(s, 1, 1)[1] = x
    BY <1>1, <1>4, SubSeqProperties
  <2> QED
    BY <2>1, One
<1>6. SubSeq(s, 2, 2) = <<y>>
  <2>1. SubSeq(s, 2, 2) \in Seq(S) /\ Len(SubSeq(s, 2, 2)) = 1 /\ SubSeq(s, 2, 2)[1] = y
    BY <1>1, <1>4, SubSeqProperties
  <2> QED
    BY <2>1, One
<1>7. <<x>> \o <<y>> = <<x, y>>
  <2>1. /\ <<x>> \in Seq(S) /\ <<y>> \in Seq(S) /\ Len(<<x>>) = 1 /\ Len(<<y>>) = 1
        /\ <<x>>[1] = x /\ <<y>>[1] = y
    OBVIOUS
  <2> DEFINE t == <<x>> \o <<y>>
  <2>2. t \in Seq(S) /\ Len(t) = 2 /\ t[1] = x /\ t[2] = y
    BY <2>1, ConcatProperties
  <2> HIDE DEF t
  <2>3. t = <<x, y>>
    BY <2>2, Two
  <2> QED
    BY <2>3 DEF t
<1> QED
  BY <1>1, <1>2, <1>3, <1>5, <1>6, <1>7 DEF s

LEMMA LastType ==
    ASSUME NEW S, NEW s \in Seq(S), s # <<>>
    PROVE  Len(s) \in Nat \ {0} /\ Last(s) = s[Len(s)] /\ Last(s) \in S /\ DOMAIN s = 1..Len(s)
<1>1. Len(s) \in Nat \ {0} /\ DOMAIN s = 1..Len(s)
  BY EmptySeq, LenProperties
<1>2. s[Len(s)] \in S
  BY <1>1, ElementOfSeq
<1> QED
  BY <1>1, <1>2 DEF Last

\* What is added at the end.
LEMMA Added ==
    ASSUME NEW S, NEW s \in Seq(S), NEW e \in S
    PROVE  /\ Append(s, e) \in Seq(S) /\ Len(s) \in Nat
           /\ Len(Append(s, e)) = Len(s) + 1 /\ Append(s, e)[Len(s) + 1] = e
           /\ \A i \in 1..Len(s) : Append(s, e)[i] = s[i]
           /\ Append(s, e) # <<>> /\ Last(Append(s, e)) = e
           /\ DOMAIN Append(s, e) = 1..(Len(s) + 1)
<1>1. /\ Append(s, e) \in Seq(S) /\ Len(s) \in Nat
      /\ Len(Append(s, e)) = Len(s) + 1 /\ Append(s, e)[Len(s) + 1] = e
      /\ \A i \in 1..Len(s) : Append(s, e)[i] = s[i]
  BY AppendProperties, LenProperties
<1>2. Append(s, e) # <<>>
  BY <1>1, EmptySeq
<1>3. DOMAIN Append(s, e) = 1..(Len(s) + 1)
  BY <1>1, LenProperties
<1> QED
  BY <1>1, <1>2, <1>3 DEF Last

\* The first of a sequence, and the rest.
LEMMA First ==
    ASSUME NEW S, NEW s \in Seq(S), s # <<>>
    PROVE  Len(s) \in Nat \ {0} /\ s[1] \in S /\ Head(s) = s[1] /\ Tail(s) \in Seq(S)
<1>1. Len(s) \in Nat \ {0}
  BY EmptySeq
<1>2. s[1] \in S /\ Head(s) = s[1]
  BY <1>1, ElementOfSeq
<1> QED
  BY <1>1, <1>2, HeadTailProperties

\* The ends of one or two.
LEMMA Ends ==
    ASSUME NEW S, NEW x \in S, NEW y \in S
    PROVE  /\ Append(<<>>, x) = <<x>> /\ Append(<<x>>, y) = <<x, y>>
           /\ Head(<<x>>) = x /\ Tail(<<x>>) = <<>>
           /\ Head(<<x, y>>) = x /\ Tail(<<x, y>>) = <<y>>
<1>1. /\ <<x>> \in Seq(S) /\ Len(<<x>>) = 1 /\ <<x>> # <<>> /\ <<x>>[1] = x
      /\ <<x, y>> \in Seq(S) /\ Len(<<x, y>>) = 2 /\ <<x, y>> # <<>>
      /\ <<x, y>>[1] = x /\ <<x, y>>[2] = y
  OBVIOUS
<1>2. Append(<<>>, x) = <<x>>
  OBVIOUS
<1>3. Append(<<x>>, y) = <<x, y>>
  <2> DEFINE s == <<x>>
             t == Append(s, y)
  <2>1. s \in Seq(S) /\ Len(s) = 1 /\ s[1] = x
    BY <1>1
  <2> HIDE DEF s
  <2>2. /\ t \in Seq(S) /\ Len(t) = Len(s) + 1 /\ t[Len(s) + 1] = y
        /\ \A i \in 1..Len(s) : t[i] = s[i]
    <3>1. s \in Seq(S) /\ y \in S
      BY <2>1
    <3> QED
      BY <3>1, AppendProperties
  <2> HIDE DEF t
  <2>3. Len(t) = 2 /\ t[1] = x /\ t[2] = y
    BY <2>1, <2>2
  <2>4. t = <<x, y>>
    BY <2>2, <2>3, Two
  <2> QED
    BY <2>4 DEF t, s
<1>4. Head(<<x>>) = x /\ Head(<<x, y>>) = x
  OBVIOUS
<1>5. Tail(<<x>>) = <<>>
  OBVIOUS
<1>6. Tail(<<x, y>>) = <<y>>
  OBVIOUS
<1> QED
  BY <1>2, <1>3, <1>4, <1>5, <1>6

-----------------------------------------------------------------------------
(* Types                                                                   *)

TaskSet == [pc : {"unmade", "idle", "ask", "read", "done"}, buf : Seq(Parts),
            got : Seq(AnswerSet), out : {"none", "Ok", "Error"}]

\* Of a task: nothing read outside of an exchange, and an outcome at the end only.
TaskOK(e) == (e.pc # "read" => e.buf = <<>>) /\ (e.pc = "done" <=> e.out # "none")

LEMMA TypeParts ==
    ASSUME TypeOK
    PROVE  /\ named \in BOOLEAN /\ attached \in BOOLEAN
           /\ inbox \in Seq(CommandSet) /\ sending \in AnswerSet
           /\ owed \in Seq(Parts) /\ wire \in Seq(Parts) /\ mutex \in Requests \union {NoOne}
           /\ task \in [Requests -> TaskSet] /\ stalls \in Nat /\ stalls <= MaxStalls
           /\ \A r \in Requests : task[r] \in TaskSet /\ TaskOK(task[r])
BY MaxStallsNat DEF TypeOK, CommandSet, TaskSet, TaskOK

LEMMA TypeWhole ==
    ASSUME named' \in BOOLEAN, attached' \in BOOLEAN,
           inbox' \in Seq(CommandSet), sending' \in AnswerSet,
           owed' \in Seq(Parts), wire' \in Seq(Parts), mutex' \in Requests \union {NoOne},
           task' \in [Requests -> TaskSet], stalls' \in 0..MaxStalls,
           \A r \in Requests : TaskOK(task'[r])
    PROVE  TypeOK'
BY DEF TypeOK, CommandSet, TaskSet, TaskOK

\* A step of one task.
LEMMA TaskStepTypes ==
    ASSUME TypeOK, NEW r \in Requests, NEW e \in TaskSet, TaskOK(e),
           task' = [task EXCEPT ![r] = e]
    PROVE  /\ task' \in [Requests -> TaskSet] /\ \A o \in Requests : TaskOK(task'[o])
           /\ task'[r] = e /\ \A o \in Requests \ {r} : task'[o] = task[o]
BY TypeParts

LEMMA QuestionIs ==
    ASSUME NEW r
    PROVE  Command(r) = CommandOf(r, task[r].got) /\ Question(r) = QuestionOf(r, task[r].got)
BY DEF Command, CommandOf, Question, QuestionOf

LEMMA QuestionType ==
    ASSUME NEW r \in Requests, NEW g \in Seq(AnswerSet)
    PROVE  /\ QuestionOf(r, g) \in CommandSet
           /\ QuestionOf(r, g).to = r /\ QuestionOf(r, g).cmd = CommandOf(r, g)
           /\ CommandOf(r, g) \in Commands
           /\ CommandOf(r, g) = "get_extended_data" <=> Method[r] = "sign_tx" /\ g # <<>>
           /\ IF CommandOf(r, g) = "get_extended_data"
              THEN /\ QuestionOf(r, g).num = Last(g).num + 1
                   /\ QuestionOf(r, g).len = Last(g).len
              ELSE QuestionOf(r, g).num = 1
<1>1. Method[r] \in Methods
  BY MethodType
<1>2. /\ CommandOf(r, g) \in Commands
      /\ CommandOf(r, g) = "get_extended_data" <=> Method[r] = "sign_tx" /\ g # <<>>
  BY <1>1 DEF Methods, CommandOf, Commands
<1>3. g # <<>> => Last(g).num \in Nat /\ Last(g).len \in Nat
  <2>1. g # <<>> => Last(g) \in AnswerSet
    BY LastType
  <2> QED
    BY <2>1 DEF AnswerSet
<1> QED
  BY <1>2, <1>3 DEF QuestionOf, CommandSet

\* The device answers what it was asked.
LEMMA AnswersType ==
    ASSUME NEW q \in CommandSet, sending \in AnswerSet, NEW a \in Answers(q)
    PROVE  /\ a \in AnswerSet /\ a.cmd = q.cmd
           /\ q.cmd = "get_extended_data" \/ q.num = 1 => AnswerTo(a, q)
<1>1. q.to \in Requests /\ q.cmd \in Commands /\ q.num \in Nat /\ q.len \in Nat
  BY DEF CommandSet
<1>2. Pieces[q.to] \in Nat \ {0}
  BY <1>1, PiecesType
<1>3. sending.to \in Requests \union {NoOne}
  BY DEF AnswerSet
<1>4. CASE a = Refusal(q.to, q.cmd)
  BY <1>1, <1>4 DEF Refusal, AnswerSet, AnswerTo
<1>5. CASE q.cmd = "sign_psbt" /\ a = Answer(q.to, q.cmd, 1, Pieces[q.to])
  BY <1>1, <1>2, <1>5 DEF Answer, AnswerSet, AnswerTo
<1>6. CASE q.cmd = "get_extended_data" /\ a = Answer(sending.to, q.cmd, q.num, q.len)
  BY <1>1, <1>3, <1>6 DEF Answer, AnswerSet, AnswerTo
<1>7. ASSUME NEW len \in {1, 2},
             q.cmd = "get_registered_descriptors", a = Answer(q.to, q.cmd, 1, len)
      PROVE  a \in AnswerSet /\ a.cmd = q.cmd /\ (q.num = 1 => AnswerTo(a, q))
  BY <1>1, <1>7 DEF Answer, AnswerSet, AnswerTo
<1>8. CASE q.cmd = "get_registered_descriptor" /\ a = Answer(q.to, q.cmd, 2, 2)
  BY <1>1, <1>8 DEF Answer, AnswerSet, AnswerTo
<1>9. CASE /\ q.cmd \in {"get_xpub", "get_receive_address", "register_descriptor"}
           /\ a = Answer(q.to, q.cmd, 1, 1)
  BY <1>1, <1>9 DEF Answer, AnswerSet, AnswerTo
<1> QED
  BY <1>1, <1>4, <1>5, <1>6, <1>7, <1>8, <1>9 DEF Answers, Commands

LEMMA PartTypes ==
    ASSUME NEW a \in AnswerSet
    PROVE  /\ Part(a, "whole") \in Parts /\ Part(a, "head") \in Parts
           /\ Part(a, "tail") \in Parts
           /\ \A p : Part(a, p).answer = a /\ Part(a, p).part = p
BY DEF Part, Parts

\* The device's steps and the end of an exchange.
LEMMA ReplyTypes == TypeOK /\ Reply => TypeOK'
<1> SUFFICES ASSUME TypeOK, Reply PROVE TypeOK'
  OBVIOUS
<1>1. inbox \in Seq(CommandSet) /\ inbox # <<>> /\ inbox' = Tail(inbox)
  BY TypeParts DEF Reply
<1>2. Head(inbox) \in CommandSet /\ inbox' \in Seq(CommandSet)
  BY <1>1, First
<1>3. PICK a \in Answers(Head(inbox)) :
         /\ owed' \in {<<Part(a, "whole")>>, <<Part(a, "head"), Part(a, "tail")>>}
         /\ sending' = IF a.ok /\ a.cmd \in Signing THEN a ELSE NoAnswer
  BY DEF Reply
<1>4. a \in AnswerSet
  BY <1>2, AnswersType, TypeParts
<1>5. owed' \in Seq(Parts)
  <2>1. /\ <<Part(a, "whole")>> \in Seq(Parts)
        /\ <<Part(a, "head"), Part(a, "tail")>> \in Seq(Parts)
    BY <1>4, PartTypes
  <2> QED
    BY <1>3, <2>1
<1>6. sending' \in AnswerSet
  BY <1>3, <1>4 DEF NoAnswer, Refusal, AnswerSet, Commands
<1> QED
  BY <1>2, <1>5, <1>6 DEF TypeOK, Reply, CommandSet

LEMMA SendTypes == TypeOK /\ Send => TypeOK'
<1> SUFFICES ASSUME TypeOK, Send PROVE TypeOK'
  OBVIOUS
<1>1. owed \in Seq(Parts) /\ owed # <<>> /\ wire \in Seq(Parts)
  BY TypeParts DEF Send
<1>2. Head(owed) \in Parts /\ Tail(owed) \in Seq(Parts)
  BY <1>1, First
<1>3. Append(wire, Head(owed)) \in Seq(Parts)
  BY <1>1, <1>2, Added
<1> QED
  BY <1>2, <1>3 DEF TypeOK, Send

LEMMA UnplugTypes == TypeOK /\ Unplug => TypeOK'
<1>1. \A S : <<>> \in Seq(S)
  BY EmptySeq
<1> QED
  BY <1>1 DEF TypeOK, Unplug

LEMMA FailTypes ==
    ASSUME TypeOK, NEW r \in Requests, Fail(r),
           named' = named, attached' = attached,
           inbox' = inbox, sending' = sending, owed' = owed,
           wire' \in Seq(Parts), stalls' \in 0..MaxStalls
    PROVE  TypeOK'
<1> DEFINE e == [task[r] EXCEPT !.pc = "done", !.buf = <<>>, !.out = "Error"]
<1>1. task' = [task EXCEPT ![r] = e] /\ mutex' = NoOne
  BY TypeParts DEF Fail
<1>2. e \in TaskSet /\ TaskOK(e)
  BY EmptySeq, TypeParts DEF TaskSet, TaskOK
<1> HIDE DEF e
<1>3. task' \in [Requests -> TaskSet] /\ \A o \in Requests : TaskOK(task'[o])
  BY <1>1, <1>2, TaskStepTypes
<1> QED
  BY <1>1, <1>3, TypeParts, TypeWhole

\* What becomes of what is read.
LEMMA ReadEffect ==
    ASSUME TypeOK, NEW r \in Requests, Read(r)
    PROVE  \E n \in 1..Len(wire) :
              LET b == task[r].buf \o SubSeq(wire, 1, n) IN
              /\ b \in Seq(Parts) /\ wire' = SubSeq(wire, n + 1, Len(wire))
              /\ wire' \in Seq(Parts)
              /\ \/ /\ ~Parses(b, CommandOf(r, task[r].got))
                    /\ task' = [task EXCEPT ![r] = [task[r] EXCEPT !.buf = b]]
                    /\ mutex' = mutex
                 \/ /\ Parses(b, CommandOf(r, task[r].got))
                    /\ b[1].answer \in AnswerSet /\ TakeIn(r, b[1].answer)
<1>1. wire \in Seq(Parts) /\ task[r].buf \in Seq(Parts) /\ Len(wire) \in Nat
  BY TypeParts, LenProperties DEF TaskSet
<1>2. PICK n \in 1..Len(wire) :
          LET b == task[r].buf \o SubSeq(wire, 1, n) IN
          /\ wire' = SubSeq(wire, n + 1, Len(wire))
          /\ IF ~Parses(b, Command(r))
             THEN task' = [task EXCEPT ![r].buf = b] /\ UNCHANGED mutex
             ELSE IF RequestId(b[1].answer.to) = RequestId(r) THEN TakeIn(r, b[1].answer)
             ELSE Fail(r)
  BY DEF Read
<1>3. \A i \in 1..Len(wire) : wire[i] \in Parts
  BY <1>1, ElementOfSeq
<1>4. n \in Nat /\ 1 <= n /\ n <= Len(wire)
  BY <1>1
<1>5. SubSeq(wire, 1, n) \in Seq(Parts) /\ SubSeq(wire, n + 1, Len(wire)) \in Seq(Parts)
  BY <1>1, <1>3, <1>4, SubSeqProperties
<1> DEFINE b == task[r].buf \o SubSeq(wire, 1, n)
<1>6. b \in Seq(Parts)
  BY <1>1, <1>5, ConcatProperties
<1>7. RequestId(b[1].answer.to) = RequestId(r)
  BY DEF RequestId
<1>8. IF ~Parses(b, CommandOf(r, task[r].got))
      THEN task' = [task EXCEPT ![r].buf = b] /\ mutex' = mutex
      ELSE TakeIn(r, b[1].answer)
  <2>1. IF ~Parses(b, Command(r)) THEN task' = [task EXCEPT ![r].buf = b] /\ UNCHANGED mutex
        ELSE IF RequestId(b[1].answer.to) = RequestId(r) THEN TakeIn(r, b[1].answer)
        ELSE Fail(r)
    BY <1>2
  <2>2. Command(r) = CommandOf(r, task[r].got)
    BY QuestionIs
  <2> HIDE DEF b
  <2> QED
    BY <1>7, <2>1, <2>2
<1> HIDE DEF b
<1>9. Parses(b, CommandOf(r, task[r].got)) => b[1].answer \in AnswerSet
  <2> SUFFICES ASSUME Parses(b, CommandOf(r, task[r].got)) PROVE b[1].answer \in AnswerSet
    OBVIOUS
  <2>1. Len(b) = 1 \/ Len(b) = 2
    BY DEF Parses
  <2>2. b[1] \in Parts
    BY <1>6, <2>1, ElementOfSeq
  <2> QED
    BY <2>2 DEF Parts
<1>10. task' = [task EXCEPT ![r].buf = b] => task' = [task EXCEPT ![r] = [task[r] EXCEPT !.buf = b]]
  BY TypeParts
<1> QED
  BY <1>2, <1>5, <1>6, <1>8, <1>9, <1>10 DEF b

\* What the end of an exchange with the answer a makes of the task.
Taken(r, e, a) ==
    LET g == Append(e.got, a) IN
    IF More(a) THEN [pc |-> "ask", buf |-> <<>>, got |-> g, out |-> "none"]
    ELSE [pc |-> "done", buf |-> <<>>, got |-> g, out |-> Result(r, g)]

LEMMA TakenType ==
    ASSUME NEW r, NEW e \in TaskSet, NEW a \in AnswerSet
    PROVE  Taken(r, e, a) \in TaskSet /\ TaskOK(Taken(r, e, a)) /\ Taken(r, e, a).pc # "read"
<1> DEFINE g == Append(e.got, a)
<1>1. g \in Seq(AnswerSet)
  BY Added DEF TaskSet
<1>2. Result(r, g) \in {"Ok", "Error"}
  BY DEF Result
<1>3. <<>> \in Seq(Parts)
  BY EmptySeq
<1> HIDE DEF g
<1>4. CASE More(a)
  <2> DEFINE f == [pc |-> "ask", buf |-> <<>>, got |-> g, out |-> "none"]
  <2>1. Taken(r, e, a) = f
    BY <1>4 DEF Taken, g
  <2>2. f \in TaskSet /\ TaskOK(f) /\ f.pc # "read"
    BY <1>1, <1>3 DEF TaskSet, TaskOK
  <2> QED
    BY <2>1, <2>2
<1>5. CASE ~More(a)
  <2> DEFINE f == [pc |-> "done", buf |-> <<>>, got |-> g, out |-> Result(r, g)]
  <2>1. Taken(r, e, a) = f
    BY <1>5 DEF Taken, g
  <2>2. f \in TaskSet /\ TaskOK(f) /\ f.pc # "read"
    BY <1>1, <1>2, <1>3 DEF TaskSet, TaskOK
  <2> QED
    BY <2>1, <2>2
<1> QED
  BY <1>4, <1>5

LEMMA TakeInIs ==
    ASSUME NEW r \in Requests, NEW a, TypeOK, TakeIn(r, a)
    PROVE  mutex' = NoOne /\ task' = [task EXCEPT ![r] = Taken(r, task[r], a)]
BY TypeParts DEF TakeIn, Taken

LEMMA RequestTypes ==
    ASSUME TypeOK, NEW r \in Requests, Start(r) \/ TaskStep(r)
    PROVE  TypeOK'
<1>1. CASE Start(r)
  <2> DEFINE e == [task[r] EXCEPT !.pc = "ask"]
  <2>1. task' = [task EXCEPT ![r] = e] /\ task[r].pc = "idle"
    BY <1>1, TypeParts DEF Start
  <2>2. e \in TaskSet /\ TaskOK(e)
    BY <2>1, TypeParts DEF TaskSet, TaskOK
  <2> HIDE DEF e
  <2>3. task' \in [Requests -> TaskSet] /\ \A o \in Requests : TaskOK(task'[o])
    BY <2>1, <2>2, TaskStepTypes
  <2> QED
    BY <1>1, <2>3 DEF TypeOK, Start, device, TaskSet, TaskOK
<1>2. CASE Ask(r)
  <2> DEFINE e == [task[r] EXCEPT !.pc = "read"]
  <2>1. task' = [task EXCEPT ![r] = e] /\ task[r].pc = "ask"
    BY <1>2, TypeParts DEF Ask
  <2>2. e \in TaskSet /\ TaskOK(e)
    BY <2>1, TypeParts DEF TaskSet, TaskOK
  <2> HIDE DEF e
  <2>3. task' \in [Requests -> TaskSet] /\ \A o \in Requests : TaskOK(task'[o])
    BY <2>1, <2>2, TaskStepTypes
  <2>4. inbox' \in Seq(CommandSet)
    <3>1. Question(r) \in CommandSet
      BY QuestionIs, QuestionType, TypeParts DEF TaskSet
    <3> QED
      BY <1>2, <3>1, Added, TypeParts DEF Ask
  <2> QED
    BY <1>2, <2>3, <2>4 DEF TypeOK, Ask, TaskSet, TaskOK, CommandSet
<1>3. CASE AskFails(r)
  BY <1>3, FailTypes, TypeParts DEF AskFails, device, TypeOK
<1>4. CASE Read(r)
  <2>1. PICK n \in 1..Len(wire) :
              LET b == task[r].buf \o SubSeq(wire, 1, n) IN
              /\ b \in Seq(Parts) /\ wire' \in Seq(Parts)
              /\ \/ /\ task' = [task EXCEPT ![r] = [task[r] EXCEPT !.buf = b]]
                    /\ mutex' = mutex
                 \/ /\ b[1].answer \in AnswerSet /\ TakeIn(r, b[1].answer)
    BY <1>4, ReadEffect
  <2> DEFINE b == task[r].buf \o SubSeq(wire, 1, n)
  <2>2. /\ b \in Seq(Parts) /\ wire' \in Seq(Parts)
        /\ \/ /\ task' = [task EXCEPT ![r] = [task[r] EXCEPT !.buf = b]]
              /\ mutex' = mutex
           \/ /\ b[1].answer \in AnswerSet /\ TakeIn(r, b[1].answer)
    BY <2>1
  <2> HIDE DEF b
  <2>3. PICK e \in TaskSet : TaskOK(e) /\ task' = [task EXCEPT ![r] = e]
    <3>1. CASE task' = [task EXCEPT ![r] = [task[r] EXCEPT !.buf = b]]
      <4>1. task[r].pc = "read"
        BY <1>4 DEF Read
      <4>2. /\ [task[r] EXCEPT !.buf = b] \in TaskSet
            /\ TaskOK([task[r] EXCEPT !.buf = b])
        BY <2>2, <4>1, TypeParts DEF TaskSet, TaskOK
      <4> QED
        BY <3>1, <4>2
    <3>2. CASE b[1].answer \in AnswerSet /\ TakeIn(r, b[1].answer)
      BY <3>2, TakeInIs, TakenType, TypeParts
    <3> QED
      BY <2>2, <3>1, <3>2
  <2>4. task' \in [Requests -> TaskSet] /\ \A o \in Requests : TaskOK(task'[o])
    BY <2>3, TaskStepTypes
  <2>5. mutex' \in Requests \union {NoOne}
    BY <2>2, TakeInIs, TypeParts
  <2> QED
    BY <1>4, <2>2, <2>4, <2>5 DEF TypeOK, Read, device, TaskSet, TaskOK
<1>5. CASE ReadTimeout(r)
  <2>1. stalls' \in 0..MaxStalls
    BY <1>5, TypeParts, MaxStallsNat DEF ReadTimeout, TypeOK
  <2> QED
    BY <1>5, <2>1, FailTypes, TypeParts DEF ReadTimeout, device
<1>6. CASE ReadFails(r)
  BY <1>6, FailTypes, TypeParts DEF ReadFails, device, TypeOK
<1>7. CASE Decline(r)
  <2> DEFINE e == [task[r] EXCEPT !.pc = "done", !.out = "Error"]
  <2>1. task' = [task EXCEPT ![r] = e] /\ task[r].pc = "ask"
    BY <1>7, TypeParts DEF Decline
  <2>2. e \in TaskSet /\ TaskOK(e)
    BY <2>1, TypeParts DEF TaskSet, TaskOK
  <2> HIDE DEF e
  <2>3. task' \in [Requests -> TaskSet] /\ \A o \in Requests : TaskOK(task'[o])
    BY <2>1, <2>2, TaskStepTypes
  <2> QED
    BY <1>7, <2>3 DEF TypeOK, Decline, device, TaskSet, TaskOK
<1> QED
  BY <1>1, <1>2, <1>3, <1>4, <1>5, <1>6, <1>7 DEF TaskStep

LEMMA NextTypes == TypeOK /\ [Next]_vars => TypeOK'
<1> SUFFICES ASSUME TypeOK, [Next]_vars PROVE TypeOK'
  OBVIOUS
<1>1. CASE UNCHANGED vars
  BY <1>1 DEF TypeOK, vars, device
<1> QED
  BY <1>1, ReplyTypes, SendTypes, UnplugTypes, RequestTypes DEF Next, DeviceStep

\* The client is given the name of a wallet when it is built, or never.
LEMMA NamedStays == [Next]_vars => named' = named
BY DEF Next, DeviceStep, TaskStep, Reply, Send, Unplug, Start, Decline, Ask, AskFails, Read,
       ReadTimeout, ReadFails, vars

-----------------------------------------------------------------------------
(* The lock                                                                *)

LEMMA FailIs ==
    ASSUME TypeOK, NEW r \in Requests, Fail(r)
    PROVE  /\ mutex' = NoOne
           /\ task'[r].pc = "done" /\ task'[r].out = "Error"
           /\ \A o \in Requests \ {r} : task'[o] = task[o]
BY TypeParts DEF Fail, TaskSet

LEMMA NextLocked == TypeOK /\ Locked /\ [Next]_vars => Locked'
<1> SUFFICES ASSUME TypeOK, Locked, [Next]_vars PROVE Locked'
  OBVIOUS
<1>1. CASE Reply \/ Send \/ Unplug \/ UNCHANGED vars
  BY <1>1 DEF Locked, Reply, Send, Unplug, vars, device
<1>2. ASSUME NEW r \in Requests, Start(r) \/ Decline(r) PROVE Locked'
  <2>1. \A o \in Requests : task'[o].pc = "read" <=> task[o].pc = "read"
    BY <1>2, TypeParts DEF Start, Decline, TaskSet
  <2> QED
    BY <1>2, <2>1 DEF Locked, Start, Decline, device
<1>3. ASSUME NEW r \in Requests, Ask(r) PROVE Locked'
  <2>1. /\ task'[r].pc = "read" /\ \A o \in Requests \ {r} : task'[o] = task[o]
        /\ mutex = NoOne /\ mutex' = r /\ attached' /\ NoOne \notin Requests
    BY <1>3, TypeParts, NamesDiffer DEF Ask, TaskSet
  <2> QED
    BY <2>1 DEF Locked
<1>4. ASSUME NEW r \in Requests, Fail(r), task[r].pc = "read" \/ mutex = NoOne,
             attached' = attached, inbox' = inbox, owed' = owed
      PROVE  Locked'
  <2>1. /\ mutex' = NoOne /\ task'[r].pc # "read"
        /\ \A o \in Requests \ {r} : task'[o] = task[o] /\ mutex # o
    BY <1>4, FailIs, NamesDiffer DEF Locked
  <2> QED
    BY <1>4, <2>1, NamesDiffer DEF Locked
<1>5. ASSUME NEW r \in Requests, AskFails(r) \/ ReadTimeout(r) \/ ReadFails(r) PROVE Locked'
  BY <1>4, <1>5 DEF AskFails, ReadTimeout, ReadFails, device
<1>6. ASSUME NEW r \in Requests, Read(r) PROVE Locked'
  <2>1. task[r].pc = "read" /\ attached' = attached /\ inbox' = inbox /\ owed' = owed
    BY <1>6 DEF Read, device
  <2>2. \/ \E b : task' = [task EXCEPT ![r] = [task[r] EXCEPT !.buf = b]] /\ mutex' = mutex
        \/ \E a \in AnswerSet : TakeIn(r, a)
    BY <1>6, ReadEffect
  <2>3. CASE \E b : task' = [task EXCEPT ![r] = [task[r] EXCEPT !.buf = b]] /\ mutex' = mutex
    <3>1. \A o \in Requests : task'[o].pc = task[o].pc
      BY <2>3, TypeParts DEF TaskSet
    <3> QED
      BY <2>1, <2>3, <3>1 DEF Locked
  <2>4. ASSUME NEW a \in AnswerSet, TakeIn(r, a) PROVE Locked'
    <3>1. /\ mutex' = NoOne /\ task'[r].pc # "read"
          /\ \A o \in Requests \ {r} : task'[o] = task[o] /\ mutex # o
      BY <2>1, <2>4, TakeInIs, TakenType, TypeParts DEF Locked
    <3> QED
      BY <2>1, <3>1, NamesDiffer DEF Locked
  <2> QED
    BY <2>2, <2>3, <2>4
<1> QED
  BY <1>1, <1>2, <1>3, <1>5, <1>6 DEF Next, DeviceStep, TaskStep

-----------------------------------------------------------------------------
(* The answer on its way                                                   *)

\* An answer parses when it was read to its end.
LEMMA Parsed ==
    ASSUME NEW a \in AnswerSet
    PROVE  LET whole == Part(a, "whole")
               head == Part(a, "head")
               tail == Part(a, "tail")
           IN  /\ Parses(<<whole>>, a.cmd) /\ <<whole>>[1].answer = a
               /\ ~Parses(<<head>>, a.cmd)
               /\ Parses(<<head, tail>>, a.cmd) /\ <<head, tail>>[1].answer = a
<1> DEFINE whole == Part(a, "whole")
           head == Part(a, "head")
           tail == Part(a, "tail")
<1>1. /\ whole.answer = a /\ head.answer = a /\ tail.answer = a /\ tail = Part(head.answer, "tail")
      /\ whole.part = "whole" /\ head.part = "head"
  BY PartTypes
<1> HIDE DEF whole, head, tail
<1>2. /\ Len(<<whole>>) = 1 /\ <<whole>>[1] = whole /\ Len(<<head>>) = 1 /\ <<head>>[1] = head
      /\ Len(<<head, tail>>) = 2 /\ <<head, tail>>[1] = head /\ <<head, tail>>[2] = tail
  OBVIOUS
<1>3. Parses(<<whole>>, a.cmd) /\ <<whole>>[1].answer = a
  BY <1>1, <1>2 DEF Parses
<1>4. ~Parses(<<head>>, a.cmd)
  BY <1>1, <1>2 DEF Parses
<1>5. Parses(<<head, tail>>, a.cmd) /\ <<head, tail>>[1].answer = a
  BY <1>1, <1>2 DEF Parses
<1> QED
  BY <1>3, <1>4, <1>5 DEF whole, head, tail

\* A read takes all of the answer, or its first part.
LEMMA SpreadRead ==
    ASSUME NEW a \in AnswerSet, NEW there, NEW buf, NEW lines, NEW left,
           Spread(a, there, buf, lines, left), NEW n \in 1..Len(lines)
    PROVE  LET b == buf \o SubSeq(lines, 1, n)
               rest == SubSeq(lines, n + 1, Len(lines))
           IN  \/ ~Parses(b, a.cmd) /\ Spread(a, there, b, rest, left)
               \/ Parses(b, a.cmd) /\ b[1].answer = a /\ rest = <<>> /\ left = <<>>
<1> DEFINE whole == Part(a, "whole")
           head == Part(a, "head")
           tail == Part(a, "tail")
           b == buf \o SubSeq(lines, 1, n)
           rest == SubSeq(lines, n + 1, Len(lines))
<1>1. whole \in Parts /\ head \in Parts /\ tail \in Parts
  BY PartTypes
<1>2. /\ Parses(<<whole>>, a.cmd) /\ <<whole>>[1].answer = a
      /\ ~Parses(<<head>>, a.cmd)
      /\ Parses(<<head, tail>>, a.cmd) /\ <<head, tail>>[1].answer = a
  BY Parsed
<1>3. \/ /\ buf = <<>>
         /\ \/ lines = <<>> \/ (lines = <<whole>> /\ left = <<>>)
            \/ lines = <<head>> /\ left = IF there THEN <<tail>> ELSE <<>>
            \/ lines = <<head, tail>> /\ left = <<>>
      \/ buf = <<head>> /\ (lines = <<>> \/ (lines = <<tail>> /\ left = <<>>))
  BY DEF Spread
<1>4. lines # <<>>
  BY EmptySeq
<1>5. /\ left = <<>> => Spread(a, there, <<head>>, <<tail>>, left)
      /\ left = (IF there THEN <<tail>> ELSE <<>>) => Spread(a, there, <<head>>, <<>>, left)
  BY DEF Spread
<1> HIDE DEF whole, head, tail
<1>6. \A s \in Seq(Parts) : <<>> \o s = s
  BY ConcatEmptySeq
<1>7. CASE buf = <<>> /\ lines = <<whole>> /\ left = <<>>
  <2>1. Len(lines) = 1 /\ n = 1
    BY <1>1, <1>7, CutOne
  <2>2. SubSeq(lines, 1, n) = <<whole>> /\ rest = <<>> /\ <<whole>> \in Seq(Parts)
    BY <1>1, <1>7, <2>1, CutOne
  <2>3. b = <<whole>>
    BY <1>6, <1>7, <2>2
  <2> QED
    BY <1>2, <1>7, <2>2, <2>3
<1>8. CASE buf = <<>> /\ lines = <<head>> /\ left = IF there THEN <<tail>> ELSE <<>>
  <2>1. Len(lines) = 1 /\ n = 1
    BY <1>1, <1>8, CutOne
  <2>2. SubSeq(lines, 1, n) = <<head>> /\ rest = <<>> /\ <<head>> \in Seq(Parts)
    BY <1>1, <1>8, <2>1, CutOne
  <2>3. b = <<head>>
    BY <1>6, <1>8, <2>2
  <2> QED
    BY <1>2, <1>5, <1>8, <2>2, <2>3
<1>9. CASE buf = <<>> /\ lines = <<head, tail>> /\ left = <<>>
  <2> DEFINE s == <<head, tail>>
  <2>4. /\ s \in Seq(Parts) /\ Len(s) = 2
        /\ SubSeq(s, 1, 2) = <<head, tail>> /\ SubSeq(s, 3, 2) = <<>>
        /\ SubSeq(s, 1, 1) = <<head>> /\ SubSeq(s, 2, 2) = <<tail>>
    BY <1>1, CutTwo
  <2>5. <<head>> \in Seq(Parts) /\ lines = s
    BY <1>1, <1>9
  <2> HIDE DEF s
  <2>1. Len(lines) = 2 /\ (n = 1 \/ n = 2)
    <3>1. Len(lines) = 2
      BY <2>4, <2>5
    <3>2. n \in 1..2
      BY <3>1
    <3> QED
      BY <3>1, <3>2
  <2>2. CASE n = 1
    <3>1. SubSeq(lines, 1, n) = <<head>> /\ rest = <<tail>> /\ <<head>> \in Seq(Parts)
      BY <2>1, <2>2, <2>4, <2>5
    <3>2. b = <<head>>
      BY <1>6, <1>9, <3>1
    <3> QED
      BY <1>2, <1>5, <1>9, <3>1, <3>2
  <2>3. CASE n = 2
    <3>1. SubSeq(lines, 1, n) = <<head, tail>> /\ rest = <<>> /\ <<head, tail>> \in Seq(Parts)
      BY <2>1, <2>3, <2>4, <2>5 DEF s
    <3>2. b = <<head, tail>>
      BY <1>6, <1>9, <3>1
    <3> QED
      BY <1>2, <1>9, <3>1, <3>2
  <2> QED
    BY <2>1, <2>2, <2>3
<1>10. CASE buf = <<head>> /\ lines = <<tail>> /\ left = <<>>
  <2>1. Len(lines) = 1 /\ n = 1
    BY <1>1, <1>10, CutOne
  <2>2. SubSeq(lines, 1, n) = <<tail>> /\ rest = <<>>
    BY <1>1, <1>10, <2>1, CutOne
  <2>3. b = <<head, tail>>
    <3>1. <<head>> \o <<tail>> = <<head, tail>>
      BY <1>1, CutTwo
    <3> QED
      BY <1>10, <2>2, <3>1
  <2> QED
    BY <1>2, <1>10, <2>2, <2>3
<1> QED
  BY <1>3, <1>4, <1>7, <1>8, <1>9, <1>10

\* The device sends the next part, or is unplugged with what is left.
LEMMA SpreadSend ==
    ASSUME NEW a \in AnswerSet, NEW buf, NEW lines, NEW left, left # <<>>,
           Spread(a, TRUE, buf, lines, left)
    PROVE  Spread(a, TRUE, buf, Append(lines, Head(left)), Tail(left))
<1> DEFINE whole == Part(a, "whole")
           head == Part(a, "head")
           tail == Part(a, "tail")
<1>1. \/ buf = <<>> /\ lines = <<>> /\ left = <<whole>>
      \/ buf = <<>> /\ lines = <<>> /\ left = <<head, tail>>
      \/ buf = <<>> /\ lines = <<head>> /\ left = <<tail>>
      \/ buf = <<head>> /\ lines = <<>> /\ left = <<tail>>
  BY DEF Spread
<1>2. /\ Spread(a, TRUE, <<>>, <<whole>>, <<>>)
      /\ Spread(a, TRUE, <<>>, <<head>>, <<tail>>)
      /\ Spread(a, TRUE, <<>>, <<head, tail>>, <<>>)
      /\ Spread(a, TRUE, <<head>>, <<tail>>, <<>>)
  BY DEF Spread
<1>0. whole \in Parts /\ head \in Parts /\ tail \in Parts
  BY PartTypes
<1> HIDE DEF whole, head, tail
<1>3. CASE buf = <<>> /\ lines = <<>> /\ left = <<whole>>
  <2>1. Append(<<>>, whole) = <<whole>> /\ Head(<<whole>>) = whole /\ Tail(<<whole>>) = <<>>
    BY <1>0, Ends
  <2> QED
    BY <1>2, <1>3, <2>1
<1>4. CASE buf = <<>> /\ lines = <<>> /\ left = <<head, tail>>
  <2>1. /\ Append(<<>>, head) = <<head>>
        /\ Head(<<head, tail>>) = head /\ Tail(<<head, tail>>) = <<tail>>
    BY <1>0, Ends
  <2> QED
    BY <1>2, <1>4, <2>1
<1>5. CASE buf = <<>> /\ lines = <<head>> /\ left = <<tail>>
  <2>1. /\ Append(<<head>>, tail) = <<head, tail>>
        /\ Head(<<tail>>) = tail /\ Tail(<<tail>>) = <<>>
    BY <1>0, Ends
  <2> QED
    BY <1>2, <1>5, <2>1
<1>6. CASE buf = <<head>> /\ lines = <<>> /\ left = <<tail>>
  <2>1. Append(<<>>, tail) = <<tail>> /\ Head(<<tail>>) = tail /\ Tail(<<tail>>) = <<>>
    BY <1>0, Ends
  <2> QED
    BY <1>2, <1>6, <2>1
<1> QED
  BY <1>1, <1>3, <1>4, <1>5, <1>6

LEMMA Unplugged ==
    ASSUME NEW q, NEW buf, NEW cmds, NEW lines, NEW left, OnItsWay(q, TRUE, buf, cmds, lines, left)
    PROVE  OnItsWay(q, FALSE, buf, <<>>, lines, <<>>)
<1>1. CASE buf = <<>> /\ lines = <<>>
  BY <1>1 DEF OnItsWay
<1>2. ASSUME NEW a \in AnswerSet, AnswerTo(a, q), Spread(a, TRUE, buf, lines, left),
             ~(buf = <<>> /\ lines = <<>>)
      PROVE  OnItsWay(q, FALSE, buf, <<>>, lines, <<>>)
  <2>1. Spread(a, FALSE, buf, lines, <<>>)
    BY <1>2 DEF Spread
  <2> QED
    BY <1>2, <2>1 DEF OnItsWay
<1> QED
  BY <1>1, <1>2 DEF OnItsWay

\* In an exchange that runs out of time without a pause of the device, it is gone.
LEMMA TimeoutDetached ==
    ASSUME TypeOK, Locked, StreamInv, NEW r \in Requests, ReadTimeout(r), stalls = 0, stalls' = 0
    PROVE  ~attached
<1> SUFFICES ASSUME attached PROVE FALSE
  OBVIOUS
<1>1. mutex = r /\ mutex # NoOne /\ task[r].buf # <<>> /\ wire = <<>>
  BY NamesDiffer DEF Locked, ReadTimeout
<1>2. PICK a \in AnswerSet : Spread(a, attached, task[r].buf, wire, owed)
  BY <1>1 DEF StreamInv, OnItsWay
<1>3. owed = <<Part(a, "tail")>>
  <2>1. \A x : <<x>> # <<>>
    OBVIOUS
  <2> QED
    BY <1>1, <1>2, <2>1 DEF Spread
<1>4. owed # <<>> /\ Head(owed).part = "tail"
  BY <1>3, PartTypes
<1> QED
  BY <1>4 DEF ReadTimeout

\* Whatever ends the exchange of who holds the lock has read all there was.
LEMMA ReadStream ==
    ASSUME TypeOK, Locked, StreamInv, NEW r \in Requests, Read(r)
    PROVE  /\ StreamInv'
           /\ \/ /\ task'[r].pc = "read" /\ task'[r].got = task[r].got
                 /\ \A o \in Requests \ {r} : task'[o] = task[o]
              \/ \E a \in AnswerSet : /\ AnswerTo(a, QuestionOf(r, task[r].got))
                                      /\ task' = [task EXCEPT ![r] = Taken(r, task[r], a)]
<1> DEFINE e == task[r]
           q == QuestionOf(r, e.got)
<1>1. mutex = r /\ mutex # NoOne /\ e.pc = "read" /\ e \in TaskSet
  BY NamesDiffer, TypeParts DEF Locked, Read
<1>2. inbox' = inbox /\ owed' = owed /\ attached' = attached
  BY DEF Read, device
<1>3. CommandOf(r, e.got) = q.cmd
  BY <1>1, QuestionType DEF TaskSet
<1>4. PICK n \in 1..Len(wire) :
              LET b == e.buf \o SubSeq(wire, 1, n) IN
              /\ b \in Seq(Parts) /\ wire' = SubSeq(wire, n + 1, Len(wire))
              /\ \/ /\ ~Parses(b, CommandOf(r, e.got))
                    /\ task' = [task EXCEPT ![r] = [e EXCEPT !.buf = b]]
                    /\ mutex' = mutex
                 \/ /\ Parses(b, CommandOf(r, e.got))
                    /\ TakeIn(r, b[1].answer)
  BY ReadEffect
<1>5. wire # <<>>
  BY <1>4, EmptySeq
<1>6. inbox = <<>> /\ \E a \in AnswerSet : AnswerTo(a, q) /\ Spread(a, attached, e.buf, wire, owed)
  BY <1>1, <1>5 DEF StreamInv, OnItsWay
<1>7. PICK a \in AnswerSet : AnswerTo(a, q) /\ Spread(a, attached, e.buf, wire, owed)
  BY <1>6
<1>8. a.cmd = CommandOf(r, e.got)
  BY <1>3, <1>7 DEF AnswerTo
<1> DEFINE b == e.buf \o SubSeq(wire, 1, n)
<1>9. \/ ~Parses(b, a.cmd) /\ Spread(a, attached, b, wire', owed)
      \/ Parses(b, a.cmd) /\ b[1].answer = a /\ wire' = <<>> /\ owed = <<>>
  <2>1. Spread(a, attached, e.buf, wire, owed)
    BY <1>7
  <2>2. \/ ~Parses(b, a.cmd) /\ Spread(a, attached, b, SubSeq(wire, n + 1, Len(wire)), owed)
        \/ /\ Parses(b, a.cmd) /\ b[1].answer = a
           /\ SubSeq(wire, n + 1, Len(wire)) = <<>> /\ owed = <<>>
    BY <2>1, SpreadRead
  <2>3. wire' = SubSeq(wire, n + 1, Len(wire))
    BY <1>4
  <2> QED
    BY <2>2, <2>3
<1>10. \/ /\ ~Parses(b, a.cmd) /\ task' = [task EXCEPT ![r] = [e EXCEPT !.buf = b]]
          /\ mutex' = mutex
       \/ Parses(b, a.cmd) /\ TakeIn(r, b[1].answer)
  BY <1>4, <1>8
<1> HIDE DEF b
<1>11. CASE ~Parses(b, a.cmd)
  <2>1. /\ task'[r].pc = "read" /\ task'[r].got = e.got /\ task'[r].buf = b
        /\ \A o \in Requests \ {r} : task'[o] = task[o]
    BY <1>1, <1>10, <1>11, TypeParts DEF TaskSet
  <2>2. OnItsWay(q, attached, b, <<>>, wire', owed)
    BY <1>7, <1>9, <1>11 DEF OnItsWay
  <2>3. StreamInv' = IF mutex' = NoOne THEN inbox' = <<>> /\ wire' = <<>> /\ owed' = <<>>
                     ELSE OnItsWay(QuestionOf(mutex', task'[mutex'].got), attached',
                                   task'[mutex'].buf, inbox', wire', owed')
    BY DEF StreamInv
  <2> QED
    BY <1>1, <1>2, <1>6, <1>10, <1>11, <2>1, <2>2, <2>3
<1>12. CASE Parses(b, a.cmd)
  <2>1. TakeIn(r, a) /\ wire' = <<>> /\ owed = <<>>
    BY <1>9, <1>10, <1>12
  <2>2. mutex' = NoOne /\ task' = [task EXCEPT ![r] = Taken(r, e, a)]
    BY <2>1, TakeInIs
  <2> QED
    BY <1>2, <1>6, <1>7, <2>1, <2>2 DEF StreamInv
<1> QED
  BY <1>11, <1>12

LEMMA NextStream ==
    ASSUME TypeOK, Locked, StreamInv, [Next]_vars, stalls = 0, stalls' = 0
    PROVE  StreamInv'
<1>1. StreamInv' = IF mutex' = NoOne THEN inbox' = <<>> /\ wire' = <<>> /\ owed' = <<>>
                   ELSE OnItsWay(QuestionOf(mutex', task'[mutex'].got), attached',
                                 task'[mutex'].buf, inbox', wire', owed')
  BY DEF StreamInv
<1>2. mutex \in Requests \union {NoOne} /\ task \in [Requests -> TaskSet]
  BY TypeParts
<1>3. ASSUME mutex' = mutex, mutex # NoOne => task'[mutex] = task[mutex],
             attached' = attached, inbox' = inbox, wire' = wire, owed' = owed
      PROVE  StreamInv'
  BY <1>1, <1>3 DEF StreamInv
<1>4. CASE UNCHANGED vars
  BY <1>3, <1>4 DEF vars, device
<1>5. CASE Reply
  <2>1. /\ inbox \in Seq(CommandSet) /\ inbox # <<>> /\ attached /\ owed = <<>>
        /\ attached' = attached /\ mutex' = mutex /\ wire' = wire /\ task' = task
        /\ inbox' = Tail(inbox)
    BY <1>5, TypeParts DEF Reply
  <2> DEFINE q == QuestionOf(mutex, task[mutex].got)
  <2>2. mutex # NoOne /\ OnItsWay(q, attached, task[mutex].buf, inbox, wire, owed)
    BY <2>1 DEF StreamInv
  <2>3. q \in CommandSet /\ (q.cmd = "get_extended_data" \/ q.num = 1)
    BY <1>2, <2>2, QuestionType DEF TaskSet
  <2> HIDE DEF q
  <2>4. inbox = <<q>> /\ task[mutex].buf = <<>> /\ wire = <<>>
    BY <2>1, <2>2 DEF OnItsWay
  <2>5. Head(inbox) = q /\ inbox' = <<>>
    BY <2>1, <2>4
  <2>6. PICK a \in Answers(q) :
           owed' \in {<<Part(a, "whole")>>, <<Part(a, "head"), Part(a, "tail")>>}
    BY <1>5, <2>5 DEF Reply
  <2>7. a \in AnswerSet /\ AnswerTo(a, q)
    <3>1. sending \in AnswerSet
      BY TypeParts
    <3> QED
      BY <2>3, <3>1, AnswersType
  <2>8. Spread(a, attached, <<>>, <<>>, owed')
    BY <2>6 DEF Spread
  <2>9. OnItsWay(q, attached, <<>>, <<>>, <<>>, owed')
    BY <2>7, <2>8 DEF OnItsWay
  <2> QED
    BY <1>1, <2>1, <2>2, <2>4, <2>5, <2>9 DEF q
<1>6. CASE Send
  <2>1. /\ owed # <<>> /\ wire' = Append(wire, Head(owed)) /\ owed' = Tail(owed)
        /\ attached' = attached /\ mutex' = mutex /\ inbox' = inbox /\ task' = task
    BY <1>6 DEF Send
  <2>2. attached = TRUE
    BY <2>1, TypeParts DEF Locked
  <2> DEFINE q == QuestionOf(mutex, task[mutex].got)
             buf == task[mutex].buf
  <2>3. mutex # NoOne /\ OnItsWay(q, TRUE, buf, inbox, wire, owed)
    BY <2>1, <2>2 DEF StreamInv
  <2> HIDE DEF q, buf
  <2>4. PICK a \in AnswerSet : AnswerTo(a, q) /\ Spread(a, TRUE, buf, wire, owed)
    BY <2>1, <2>3 DEF OnItsWay
  <2>5. inbox = <<>>
    BY <2>1, <2>3 DEF OnItsWay
  <2>6. Spread(a, TRUE, buf, wire', owed')
    BY <2>1, <2>4, SpreadSend
  <2>7. OnItsWay(q, TRUE, buf, inbox, wire', owed')
    BY <2>4, <2>5, <2>6 DEF OnItsWay
  <2> QED
    BY <1>1, <2>1, <2>2, <2>3, <2>7 DEF q, buf
<1>7. CASE Unplug
  <2>1. /\ attached /\ attached' = FALSE /\ inbox' = <<>> /\ owed' = <<>>
        /\ mutex' = mutex /\ wire' = wire /\ task' = task
    BY <1>7 DEF Unplug
  <2>2. attached = TRUE
    BY <2>1, TypeParts
  <2> QED
    BY <1>1, <2>1, <2>2, Unplugged DEF StreamInv
<1>8. ASSUME NEW r \in Requests, Start(r) \/ Decline(r) PROVE StreamInv'
  <2>1. r # mutex /\ \A o \in Requests \ {r} : task'[o] = task[o]
    BY <1>2, <1>8 DEF Start, Decline, Locked
  <2> QED
    BY <1>2, <1>3, <1>8, <2>1 DEF Start, Decline, device
<1>9. ASSUME NEW r \in Requests, Ask(r) PROVE StreamInv'
  <2>1. /\ inbox = <<>> /\ wire = <<>> /\ owed = <<>> /\ attached /\ mutex' = r /\ r # NoOne
        /\ attached' = attached /\ wire' = wire /\ owed' = owed /\ task[r].pc = "ask"
        /\ inbox' = Append(inbox, Question(r))
    BY <1>9, NamesDiffer DEF Ask, StreamInv
  <2>2. task'[r].got = task[r].got /\ task'[r].buf = <<>>
    BY <1>9, <2>1, TypeParts DEF Ask, TaskSet, TaskOK
  <2>3. inbox' = <<QuestionOf(r, task'[r].got)>>
    BY <2>1, <2>2, QuestionIs
  <2>4. OnItsWay(QuestionOf(r, task'[r].got), attached', <<>>, inbox', wire', owed')
    BY <2>1, <2>3 DEF OnItsWay
  <2> QED
    BY <1>1, <2>1, <2>2, <2>4
<1>10. ASSUME NEW r \in Requests, AskFails(r) PROVE StreamInv'
  BY <1>1, <1>10 DEF AskFails, Fail, device, StreamInv
<1>11. ASSUME NEW r \in Requests, ReadTimeout(r) \/ ReadFails(r) PROVE StreamInv'
  <2>1. ~attached
    BY <1>11, TimeoutDetached DEF ReadFails
  <2> QED
    BY <1>1, <1>11, <2>1 DEF ReadTimeout, ReadFails, Fail, device, Locked
<1> QED
  BY <1>4, <1>5, <1>6, <1>7, <1>8, <1>9, <1>10, <1>11, ReadStream DEF Next, DeviceStep, TaskStep
-----------------------------------------------------------------------------
(* What a request comes to                                                 *)

\* The answer to the question after got is the next one, the device's own to a first
\* question, and of the same number of pieces.
LEMMA AnswerFits ==
    ASSUME NEW r \in Requests, NEW got \in Seq(AnswerSet), GotSoFar(r, got),
           NEW a \in AnswerSet, AnswerTo(a, QuestionOf(r, got)), a.ok
    PROVE  /\ a.num = Len(got) + 1 /\ a.num <= a.len
           /\ got # <<>> /\ Method[r] = "sign_tx" => a.len = got[1].len
           /\ got = <<>> \/ Method[r] # "sign_tx" => a.to = r
           /\ Method[r] # "sign_tx" /\ (got # <<>> \/ Method[r] # "is_wallet_registered")
                => a.len = a.num
           /\ Method[r] = "get_extended_pubkey" => a.cmd = "get_xpub"
<1> DEFINE q == QuestionOf(r, got)
<1>1. Method[r] \in Methods /\ a.num \in Nat /\ a.len \in Nat /\ Len(got) \in Nat
  BY MethodType, LenProperties DEF AnswerSet
<1>2. /\ q.to = r /\ q.cmd = CommandOf(r, got)
      /\ q.cmd = "get_extended_data" <=> Method[r] = "sign_tx" /\ got # <<>>
      /\ IF q.cmd = "get_extended_data" THEN q.num = Last(got).num + 1 /\ q.len = Last(got).len
         ELSE q.num = 1
  BY QuestionType
<1> HIDE DEF q
<1>3. /\ a.cmd = q.cmd
      /\ a.num = IF q.cmd = "get_registered_descriptor" THEN 2 ELSE q.num
      /\ IF q.cmd = "get_extended_data" THEN a.len = q.len ELSE a.to = q.to
      /\ IF q.cmd \in {"sign_psbt", "get_registered_descriptors"} THEN a.num <= a.len
         ELSE q.cmd = "get_extended_data" \/ a.len = a.num
  BY DEF AnswerTo, q
<1>4. Method[r] = "get_extended_pubkey" => a.cmd = "get_xpub"
  BY <1>2, <1>3 DEF CommandOf
<1>5. CASE Method[r] = "sign_tx" /\ got # <<>>
  <2>1. Len(got) \in 1..Len(got) /\ Last(got) = got[Len(got)]
    BY <1>5, LastType
  <2>2. /\ Last(got).num = Len(got) /\ Last(got).len = got[1].len /\ Len(got) < got[1].len
    BY <2>1 DEF GotSoFar
  <2>3. a.num = Last(got).num + 1 /\ a.len = Last(got).len
    BY <1>2, <1>3, <1>5
  <2> QED
    BY <1>1, <1>5, <2>2, <2>3
<1>6. CASE Method[r] = "sign_tx" /\ got = <<>>
  <2>1. q.cmd = "sign_psbt" /\ q.num = 1 /\ Len(got) = 0
    BY <1>2, <1>6 DEF CommandOf
  <2> QED
    BY <1>2, <1>3, <1>6, <2>1
<1>7. CASE Method[r] = "is_wallet_registered" /\ got = <<>>
  <2>1. q.cmd = "get_registered_descriptors" /\ q.num = 1 /\ Len(got) = 0
    BY <1>2, <1>7 DEF CommandOf
  <2> QED
    BY <1>2, <1>3, <1>7, <2>1
<1>8. CASE Method[r] = "is_wallet_registered" /\ got # <<>>
  <2>1. q.cmd = "get_registered_descriptor"
    BY <1>2, <1>8 DEF CommandOf
  <2>2. Len(got) = 1
    <3>1. Len(got) \in Nat \ {0}
      BY <1>8, LastType
    <3>2. Method[r] # "sign_tx"
      BY <1>8
    <3>3. Len(got) <= 1
      BY <3>2 DEF GotSoFar
    <3>4. \A m \in Nat \ {0} : m <= 1 => m = 1
      OBVIOUS
    <3> QED
      BY <3>1, <3>3, <3>4
  <2>3. a.num = 2 /\ a.len = 2 /\ a.to = r
    BY <1>2, <1>3, <2>1
  <2> QED
    BY <1>8, <2>2, <2>3
<1>9. CASE Method[r] \in {"get_extended_pubkey", "display_miniscript", "display_p2tr",
                         "register_wallet"}
  <2>1. got = <<>> /\ Len(got) = 0
    BY <1>9 DEF GotSoFar
  <2>2. q.cmd \in {"get_xpub", "get_receive_address", "register_descriptor"} /\ q.num = 1
    BY <1>2, <1>9 DEF CommandOf
  <2> QED
    BY <1>2, <1>3, <1>4, <1>9, <2>1, <2>2
<1> QED
  BY <1>1, <1>5, <1>6, <1>7, <1>8, <1>9 DEF Methods

\* With the answer to its question a request goes on as it should, or comes to an end.
LEMMA TakenInv ==
    ASSUME NEW r \in Requests, NEW e \in TaskSet, NEW a \in AnswerSet, NEW there,
           NEW unable, ~unable, GotSoFar(r, e.got), AnswerTo(a, QuestionOf(r, e.got))
    PROVE  TaskInv(r, Taken(r, e, a), there, unable)
<1> DEFINE got == e.got
           g == Append(got, a)
           n == Len(got)
<1>1. got \in Seq(AnswerSet)
  BY DEF TaskSet
<1>2. /\ g \in Seq(AnswerSet) /\ n \in Nat /\ Len(g) = n + 1 /\ g[n + 1] = a
      /\ \A i \in 1..n : g[i] = got[i]
      /\ g # <<>> /\ Last(g) = a /\ DOMAIN g = 1..(n + 1)
  BY <1>1, Added
<1>3. a.num \in Nat /\ a.len \in Nat
  BY DEF AnswerSet
<1>4. got = <<>> <=> n = 0
  BY <1>1, EmptySeq
<1>5. a.ok =>
         /\ a.num = n + 1 /\ a.num <= a.len
         /\ n # 0 /\ Method[r] = "sign_tx" => a.len = got[1].len
         /\ n = 0 \/ Method[r] # "sign_tx" => a.to = r
         /\ Method[r] # "sign_tx" /\ (n # 0 \/ Method[r] # "is_wallet_registered")
              => a.len = a.num
         /\ Method[r] = "get_extended_pubkey" => a.cmd = "get_xpub"
  BY <1>1, <1>4, AnswerFits
<1>6. /\ \A i \in 1..n : /\ got[i].ok /\ got[i].num = i /\ got[i].len = got[1].len
                         /\ i < got[1].len
      /\ n # 0 => got[1].to = r
      /\ Method[r] # "sign_tx" => n <= 1
      /\ Method[r] \notin {"sign_tx", "is_wallet_registered"} => n = 0
  BY <1>4 DEF GotSoFar
<1>7. \A i \in 1..(n + 1) : i \in 1..n \/ i = n + 1
  BY <1>2
<1>8. n # 0 => 1 \in 1..n /\ g[1] = got[1]
  BY <1>2
<1>9. n = 0 => g[1] = a
  BY <1>2
<1> HIDE DEF got, g, n
<1>10. CASE More(a)
  <2>1. a.ok /\ a.num < a.len
    BY <1>10 DEF More
  <2>2. Method[r] # "sign_tx" => n = 0 /\ Method[r] = "is_wallet_registered"
    BY <1>3, <1>5, <2>1
  <2>3. g[1].len = a.len /\ g[1].to = r
    BY <1>5, <1>6, <1>8, <1>9, <2>1, <2>2
  <2>4. ASSUME NEW i \in 1..(n + 1)
        PROVE  g[i].ok /\ g[i].num = i /\ g[i].len = g[1].len /\ i < g[1].len
    <3>1. CASE i = n + 1
      BY <1>2, <1>5, <2>1, <2>3, <3>1
    <3>2. CASE i \in 1..n
      <4>1. n # 0
        BY <1>2, <3>2
      <4>2. g[i] = got[i] /\ g[1] = got[1]
        BY <1>2, <1>8, <3>2, <4>1
      <4> QED
        BY <1>6, <3>2, <4>2
    <3> QED
      BY <1>7, <3>1, <3>2
  <2>5. GotSoFar(r, g)
    BY <1>2, <2>2, <2>3, <2>4 DEF GotSoFar
  <2>6. Taken(r, e, a).pc = "ask" /\ Taken(r, e, a).got = g
    BY <1>10 DEF Taken, g, got
  <2> QED
    BY <2>5, <2>6 DEF TaskInv
<1>11. CASE ~More(a)
  <2> DEFINE f == Taken(r, e, a)
  <2>1. f.pc = "done" /\ f.got = g /\ f.out = Result(r, g)
    BY <1>11 DEF Taken, g, got
  <2> HIDE DEF f
  <2>2. ASSUME Result(r, g) = "Ok", NEW i \in 1..(n + 1) PROVE g[i].to = r
    <3>1. a.ok /\ (Method[r] = "sign_tx" => Deserializes(g))
      BY <1>2, <2>2 DEF Result
    <3>2. g[1].to = r
      BY <1>5, <1>6, <1>8, <1>9, <3>1
    <3>3. CASE Method[r] = "sign_tx"
      BY <1>2, <3>1, <3>2, <3>3 DEF Deserializes
    <3>4. CASE Method[r] # "sign_tx"
      <4>1. a.to = r
        BY <1>5, <3>1, <3>4
      <4>2. CASE i = n + 1
        BY <1>2, <4>1, <4>2
      <4>3. CASE i \in 1..n
        <5>1. i = 1
          BY <1>2, <1>6, <3>4, <4>3
        <5> QED
          BY <3>2, <5>1
      <4> QED
        BY <1>7, <4>2, <4>3
    <3> QED
      BY <3>3, <3>4
  <2>3. ASSUME a.ok, \A i \in 1..(n + 1) : g[i].to = r PROVE Result(r, g) = "Ok"
    <3>1. a.len = n + 1 /\ a.num = n + 1
      BY <1>2, <1>3, <1>5, <1>11, <2>3 DEF More
    <3>2. ASSUME Method[r] = "sign_tx" PROVE Deserializes(g)
      <4>1. g[1].to = r
        BY <1>2, <2>3
      <4>2. ASSUME NEW i \in 1..(n + 1)
            PROVE  g[i].to = g[1].to /\ g[i].num = i /\ g[i].len = n + 1
        <5>1. CASE i = n + 1
          BY <1>2, <2>3, <3>1, <4>1, <5>1
        <5>2. CASE i \in 1..n
          <6>1. n # 0 /\ g[i] = got[i]
            BY <1>2, <5>2
          <6>2. got[1].len = n + 1
            BY <1>5, <2>3, <3>1, <3>2, <6>1
          <6> QED
            BY <1>6, <2>3, <4>1, <5>2, <6>1, <6>2
        <5> QED
          BY <1>7, <5>1, <5>2
      <4> QED
        BY <1>2, <4>2 DEF Deserializes
    <3> QED
      BY <1>2, <1>5, <2>3, <3>2 DEF Result
  <2>4. Result(r, g) = "Error" => ~a.ok \/ \E i \in 1..(n + 1) : g[i].to # r
    BY <2>3
  <2>5. Due(r, f, there, unable)
    BY <1>2, <2>1, <2>2, <2>4 DEF Due
  <2> QED
    BY <2>1, <2>5 DEF TaskInv, f
<1> QED
  BY <1>10, <1>11

\* No step spoils what a request has got or comes to.
LEMMA NextTasks ==
    ASSUME TypeOK, Locked, StreamInv, [Next]_vars, stalls = 0, stalls' = 0,
           \A o \in Requests : TaskInv(o, task[o], attached, Unimplemented(o))
    PROVE  \A o \in Requests : TaskInv(o, task'[o], attached', Unimplemented(o))
<1>1. \A o \in Requests : task[o] \in TaskSet
  BY TypeParts
<1>2. ASSUME NEW o \in Requests, task'[o] = task[o], attached' = attached
      PROVE  TaskInv(o, task'[o], attached', Unimplemented(o))
  BY <1>2
<1>3. CASE UNCHANGED vars \/ Reply \/ Send
  BY <1>2, <1>3 DEF vars, device, Reply, Send
<1>4. CASE Unplug
  <2>1. attached' = FALSE /\ task' = task
    BY <1>4 DEF Unplug
  <2>2. ASSUME NEW o \in Requests PROVE TaskInv(o, task[o], FALSE, Unimplemented(o))
    BY DEF TaskInv, Due
  <2> QED
    BY <2>1, <2>2
\* The outcome of a step of r, the others staying as they are.
<1>5. ASSUME NEW r \in Requests, TaskInv(r, task'[r], attached', Unimplemented(r)),
             attached' = attached, \A o \in Requests \ {r} : task'[o] = task[o]
      PROVE  \A o \in Requests : TaskInv(o, task'[o], attached', Unimplemented(o))
  BY <1>2, <1>5
<1>6. ASSUME NEW r \in Requests, Start(r) \/ Ask(r)
      PROVE  \A o \in Requests : TaskInv(o, task'[o], attached', Unimplemented(o))
  <2>1. /\ task[r].pc # "done" /\ task'[r].pc # "done" /\ task'[r].got = task[r].got
        /\ task'[r].pc = "read" => ~Unimplemented(r)
        /\ attached' = attached /\ \A o \in Requests \ {r} : task'[o] = task[o]
    BY <1>1, <1>6, TypeParts DEF Start, Ask, device, TaskSet
  <2>2. TaskInv(r, task'[r], attached', Unimplemented(r))
    BY <2>1 DEF TaskInv
  <2> QED
    BY <1>5, <2>1, <2>2
<1>7. ASSUME NEW r \in Requests, AskFails(r) \/ ReadTimeout(r) \/ ReadFails(r)
      PROVE  \A o \in Requests : TaskInv(o, task'[o], attached', Unimplemented(o))
  <2>1. Fail(r) /\ attached' = attached
    BY <1>7 DEF AskFails, ReadTimeout, ReadFails, device
  <2>2. /\ task'[r].pc = "done" /\ task'[r].out = "Error"
        /\ \A o \in Requests \ {r} : task'[o] = task[o]
    BY <2>1, FailIs
  <2>3. ~attached
    BY <1>7, TimeoutDetached DEF AskFails, ReadFails
  <2>4. TaskInv(r, task'[r], attached', Unimplemented(r))
    BY <2>1, <2>2, <2>3 DEF TaskInv, Due
  <2> QED
    BY <1>5, <2>1, <2>2, <2>4
<1>8. ASSUME NEW r \in Requests, Read(r)
      PROVE  \A o \in Requests : TaskInv(o, task'[o], attached', Unimplemented(o))
  <2>1. attached' = attached /\ task[r].pc = "read"
    BY <1>8 DEF Read, device
  <2>2. GotSoFar(r, task[r].got) /\ ~Unimplemented(r)
    BY <2>1 DEF TaskInv
  <2>3. CASE /\ task'[r].pc = "read" /\ task'[r].got = task[r].got
             /\ \A o \in Requests \ {r} : task'[o] = task[o]
    <3>1. TaskInv(r, task'[r], attached', Unimplemented(r))
      BY <2>2, <2>3 DEF TaskInv
    <3> QED
      BY <1>5, <2>1, <2>3, <3>1
  <2>4. ASSUME NEW a \in AnswerSet, AnswerTo(a, QuestionOf(r, task[r].got)),
               task' = [task EXCEPT ![r] = Taken(r, task[r], a)]
        PROVE  \A o \in Requests : TaskInv(o, task'[o], attached', Unimplemented(o))
    <3>1. task'[r] = Taken(r, task[r], a) /\ \A o \in Requests \ {r} : task'[o] = task[o]
      BY <2>4, TypeParts
    <3>2. TaskInv(r, Taken(r, task[r], a), attached', Unimplemented(r))
      BY <1>1, <2>2, <2>4, TakenInv
    <3> QED
      BY <1>5, <2>1, <3>1, <3>2
  <2> QED
    BY <1>8, <2>3, <2>4, ReadStream
<1>9. ASSUME NEW r \in Requests, Decline(r)
      PROVE  \A o \in Requests : TaskInv(o, task'[o], attached', Unimplemented(o))
  <2>1. task[r].pc = "ask" /\ Unimplemented(r) /\ attached' = attached
    BY <1>9 DEF Decline, device
  <2>2. /\ task'[r].pc = "done" /\ task'[r].out = "Error" /\ task'[r].got = task[r].got
        /\ \A o \in Requests \ {r} : task'[o] = task[o]
    BY <1>1, <1>9, TypeParts DEF Decline, TaskSet
  <2>3. task[r].got = <<>>
    BY <2>1 DEF TaskInv
  <2>4. TaskInv(r, task'[r], attached', Unimplemented(r))
    BY <2>1, <2>2, <2>3 DEF TaskInv, Due
  <2> QED
    BY <1>5, <2>1, <2>2, <2>4
<1> QED
  BY <1>3, <1>4, <1>6, <1>7, <1>8, <1>9 DEF Next, DeviceStep, TaskStep

-----------------------------------------------------------------------------
(* The theorems                                                            *)

LEMMA InitInv == Init => IInv
<1> SUFFICES ASSUME Init PROVE IInv
  OBVIOUS
<1>1. /\ attached = TRUE /\ inbox = <<>> /\ sending = NoAnswer /\ owed = <<>>
      /\ wire = <<>> /\ mutex = NoOne /\ stalls = 0
  BY DEF Init
<1>2. PICK S \in Sessions :
         /\ named = S.named
         /\ task = [r \in Requests |-> IF r \in S.made THEN Idle
                                       ELSE [Idle EXCEPT !.pc = "unmade"]]
  BY DEF Init
<1>3. ASSUME NEW r \in Requests
      PROVE  /\ task[r].pc \in {"idle", "unmade"} /\ task[r].buf = <<>> /\ task[r].got = <<>>
             /\ task[r].out = "none" /\ task[r] \in TaskSet
  <2>1. <<>> \in Seq(Parts) /\ <<>> \in Seq(AnswerSet)
    BY EmptySeq
  <2> QED
    BY <1>2, <2>1 DEF Idle, TaskSet
<1>4. TypeOK
  <2>1. task \in [Requests -> TaskSet]
    BY <1>2, <1>3
  <2>2. <<>> \in Seq(CommandSet) /\ <<>> \in Seq(Parts)
    BY EmptySeq
  <2>3. NoAnswer \in AnswerSet
    BY DEF NoAnswer, Refusal, AnswerSet, Commands
  <2>4. 0 \in 0..MaxStalls
    BY MaxStallsNat
  <2>5. named \in BOOLEAN
    BY <1>2, SessionsType
  <2> QED
    BY <1>1, <1>3, <2>1, <2>2, <2>3, <2>4, <2>5 DEF TypeOK, CommandSet, TaskSet
<1>5. Locked
  BY <1>1, <1>3, NamesDiffer DEF Locked
<1>6. StreamInv
  BY <1>1 DEF StreamInv
<1>7. ASSUME NEW r \in Requests PROVE TaskInv(r, task[r], attached, Unimplemented(r))
  <2>1. Len(<<>>) = 0
    OBVIOUS
  <2> QED
    BY <1>3, <2>1 DEF TaskInv, GotSoFar
<1> QED
  BY <1>4, <1>5, <1>6, <1>7 DEF IInv

LEMMA NextInv == IInv /\ [Next]_vars => IInv'
<1> SUFFICES ASSUME IInv, [Next]_vars PROVE IInv'
  OBVIOUS
<1>1. TypeOK /\ Locked /\ TypeOK' /\ Locked'
  BY NextTypes, NextLocked DEF IInv
<1>2. stalls' = 0 => stalls = 0
  <2>1. stalls \in Nat
    BY <1>1, TypeParts
  <2>2. stalls' = stalls \/ stalls' = stalls + 1
    BY DEF Next, DeviceStep, TaskStep, Reply, Send, Unplug, Start, Decline, Ask, AskFails,
           Read, ReadTimeout, ReadFails, vars
  <2> QED
    BY <2>1, <2>2
<1>3. ASSUME stalls' = 0
      PROVE  /\ StreamInv'
             /\ \A r \in Requests : TaskInv(r, task'[r], attached', Unimplemented(r))
  <2>1. /\ stalls = 0 /\ StreamInv
        /\ \A r \in Requests : TaskInv(r, task[r], attached, Unimplemented(r))
    BY <1>2, <1>3 DEF IInv
  <2>2. StreamInv'
    BY <1>1, <1>3, <2>1, NextStream
  <2>3. \A r \in Requests : TaskInv(r, task'[r], attached', Unimplemented(r))
    BY <1>1, <1>3, <2>1, NextTasks
  <2> QED
    BY <2>2, <2>3
<1>4. (\A r \in Requests : TaskInv(r, task[r], attached, Unimplemented(r)))'
        = \A r \in Requests : TaskInv(r, task'[r], attached', Unimplemented(r))
  <2>1. ASSUME NEW r \in Requests PROVE Unimplemented(r)' = Unimplemented(r)
    BY NamedStays DEF Unimplemented
  <2> QED
    BY <2>1
<1> QED
  BY <1>1, <1>3, <1>4 DEF IInv

LEMMA Invariance == Spec => []IInv
BY InitInv, NextInv, PTL DEF Spec

\* The variables have their types; outside of an exchange a task has nothing read, and
\* it has an outcome exactly when it is done.
THEOREM TypeCorrect == Spec => []TypeOK
<1>1. IInv => TypeOK
  BY DEF IInv
<1> QED
  BY <1>1, Invariance, PTL

\* As long as the device has not paused within an answer, no request, of however many,
\* succeeds with what the device gave for another, although the lock of the stream is
\* given up between the exchanges of a request and every answer has the same id.
THEOREM OwnAnswer == Spec => []OwnUnlessStalled
<1>1. IInv => OwnUnlessStalled
  <2> SUFFICES ASSUME IInv, stalls = 0, NEW r \in Requests, task[r].out = "Ok"
               PROVE  \A i \in DOMAIN task[r].got : task[r].got[i].to = r
    BY DEF OwnUnlessStalled, OwnAnswers
  <2>1. task[r].pc = "done"
    BY TypeParts DEF IInv, TaskOK
  <2>2. TaskInv(r, task[r], attached, Unimplemented(r))
    BY DEF IInv
  <2> QED
    BY <2>1, <2>2 DEF TaskInv, Due
<1> QED
  BY <1>1, Invariance, PTL

\* With a device that is there and has not paused a request fails only because the client
\* cannot put it to the device, and then without an exchange, or else because the device
\* refused it or gave it a piece of what it signed for another: never for the sake of a
\* part that was not read, a wrong type or a number out of order.
THEOREM FailureOfDevice == Spec => []FailureHasCause
<1>1. IInv => FailureHasCause
  <2> SUFFICES ASSUME IInv, stalls = 0, attached, NEW r \in Requests, task[r].out = "Error"
               PROVE  IF Unimplemented(r) THEN task[r].got = <<>>
                      ELSE /\ task[r].got # <<>>
                           /\ \/ ~Last(task[r].got).ok
                              \/ \E i \in DOMAIN task[r].got : task[r].got[i].to # r
    BY DEF FailureHasCause
  <2>1. task[r].pc = "done"
    BY TypeParts DEF IInv, TaskOK
  <2>2. TaskInv(r, task[r], attached, Unimplemented(r))
    BY DEF IInv
  <2> QED
    BY <2>1, <2>2 DEF TaskInv, Due
<1> QED
  BY <1>1, Invariance, PTL
=============================================================================
