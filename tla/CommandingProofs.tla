-------------------------- MODULE CommandingProofs --------------------------
(***************************************************************************)
(* What is proved of Commanding: that no status is lost or doubled between *)
(* the dispatcher and whoever sent the command, that the sequencer answers *)
(* what it takes, and that a run in turn stays in turn and never reads     *)
(* past its end.  One inductive invariant, Inv, carries all of it, since   *)
(* the sequencer stays in turn only because a response it is given was     *)
(* awaited, which is the conservation of statuses.  The queues have no     *)
(* bound, so the first part counts messages in sequences; the second says  *)
(* what each handler of the sequencer does, as an operator of the state it *)
(* is given; the last has a step for each action.                          *)
(***************************************************************************)
EXTENDS Commanding, TLAPS, FiniteSetTheorems, WellFoundedInduction

(***************************************************************************)
(* Counting messages in a queue.                                           *)
(***************************************************************************)

(* How many elements of the queue q are in M.                              *)
Places(q, M) == {i \in 1..Len(q) : q[i] \in M}
Count(q, M)  == Cardinality(Places(q, M))

(* A count is a natural number.                                            *)
LEMMA CountType ==
    ASSUME NEW S, NEW M, NEW q \in Seq(S)
    PROVE  IsFiniteSet(Places(q, M)) /\ Count(q, M) \in Nat
  <1>1. Len(q) \in Nat /\ IsFiniteSet(1..Len(q))
    BY FS_Interval
  <1>2. Places(q, M) \in SUBSET (1..Len(q))
    BY DEF Places
  <1>3. IsFiniteSet(Places(q, M))
    BY <1>1, <1>2, FS_Subset, Zenon
  <1> QED
    BY <1>3, FS_CardinalityType DEF Count

(* Two disjoint finite sets together.                                      *)
LEMMA DisjointSize ==
    ASSUME NEW A, NEW B, IsFiniteSet(A), IsFiniteSet(B), A \cap B = {}
    PROVE  Cardinality(A \cup B) = Cardinality(A) + Cardinality(B)
  <1>1. Cardinality(A \cup B) = Cardinality(A) + Cardinality(B) - Cardinality(A \cap B)
    BY FS_Union, Zenon
  <1>2. Cardinality(A) \in Nat /\ Cardinality(B) \in Nat /\ Cardinality(A \cap B) = 0
    BY FS_CardinalityType, FS_EmptySet
  <1> QED
    BY <1>1, <1>2

(* A set that is shifted by n keeps its size.                              *)
LEMMA ShiftSize ==
    ASSUME NEW n \in Nat, NEW B, B \subseteq Nat, IsFiniteSet(B)
    PROVE  /\ IsFiniteSet({n + j : j \in B})
           /\ Cardinality({n + j : j \in B}) = Cardinality(B)
  <1> DEFINE C == {n + j : j \in B}
             f == [j \in B |-> n + j]
  <1>1. f \in [B -> C] /\ (\A i, j \in B : f[i] = f[j] => i = j) /\ \A c \in C : \E j \in B : f[j] = c
    OBVIOUS
  <1> HIDE DEF f, C
  <1>2. f \in Bijection(B, C)
    BY <1>1, Zenon DEF Bijection, Injection, Surjection, IsInjective
  <1>3. IsFiniteSet(C) /\ Cardinality(C) = Cardinality(B)
    BY <1>2, FS_Bijection DEF ExistsBijection
  <1> QED
    BY <1>3 DEF C

(* What a concatenation is.                                                *)
LEMMA ConcatFacts ==
    ASSUME NEW S, NEW q \in Seq(S), NEW r \in Seq(S)
    PROVE  /\ q \o r \in Seq(S)
           /\ Len(q) \in Nat /\ Len(r) \in Nat /\ Len(q \o r) = Len(q) + Len(r)
           /\ \A i \in 1..Len(q) : (q \o r)[i] = q[i]
           /\ \A i \in Len(q) + 1..Len(q) + Len(r) : (q \o r)[i] = r[i - Len(q)]
  OBVIOUS

(* Two sequences of one length with the same elements are equal.           *)
LEMMA SameSequence ==
    ASSUME NEW S, NEW q \in Seq(S), NEW r \in Seq(S), Len(q) = Len(r),
           \A i \in 1..Len(q) : q[i] = r[i]
    PROVE  q = r
  OBVIOUS

(* Counting a concatenation counts its parts.                              *)
LEMMA CountConcat ==
    ASSUME NEW S, NEW M, NEW q \in Seq(S), NEW r \in Seq(S)
    PROVE  Count(q \o r, M) = Count(q, M) + Count(r, M)
  <1> DEFINE n == Len(q)
             A == Places(q, M)
             B == Places(r, M)
             C == {n + j : j \in B}
  <1>1. n \in Nat /\ B \subseteq Nat /\ A \subseteq 1..n /\ \A j \in B : j >= 1
    BY DEF Places
  <1>2. IsFiniteSet(A) /\ IsFiniteSet(B)
    BY CountType
  <1>3. IsFiniteSet(C) /\ Cardinality(C) = Cardinality(B)
    BY <1>1, <1>2, ShiftSize
  <1>4. Places(q \o r, M) = A \cup C
    <2>1. Len(q \o r) = n + Len(r) /\ Len(r) \in Nat
      OBVIOUS
    <2>2. \A i \in 1..n : (q \o r)[i] = q[i]
      OBVIOUS
    <2>3. \A j \in 1..Len(r) : (q \o r)[n + j] = r[j]
      OBVIOUS
    <2>4. \A i \in 1..n + Len(r) : i \in 1..n \/ (i - n \in 1..Len(r) /\ i = n + (i - n))
      BY <1>1, <2>1
    <2>5. ASSUME NEW i \in Places(q \o r, M) PROVE i \in A \cup C
      BY <2>1, <2>2, <2>3, <2>4 DEF Places
    <2>6. ASSUME NEW i \in A PROVE i \in Places(q \o r, M)
      BY <1>1, <2>1, <2>2 DEF Places
    <2>7. ASSUME NEW j \in B PROVE n + j \in Places(q \o r, M)
      BY <1>1, <2>1, <2>3 DEF Places
    <2> QED
      BY <2>5, <2>6, <2>7
  <1>5. A \cap C = {}
    BY <1>1
  <1> HIDE DEF n, A, B, C
  <1>6. Cardinality(A \cup C) = Cardinality(A) + Cardinality(B)
    BY <1>2, <1>3, <1>5, DisjointSize
  <1> QED
    BY <1>4, <1>6 DEF Count, A, B

(* One message.                                                            *)
One(x) == <<x>>

(* One message counts if it is in M.                                       *)
LEMMA CountOne ==
    ASSUME NEW S, NEW M, NEW x \in S
    PROVE  /\ One(x) \in Seq(S)
           /\ Count(One(x), M) = IF x \in M THEN 1 ELSE 0
  <1>1. One(x) \in Seq(S) /\ Len(One(x)) = 1 /\ One(x)[1] = x
    BY DEF One
  <1>2. Places(One(x), M) = IF x \in M THEN {1} ELSE {}
    BY <1>1 DEF Places
  <1> QED
    BY <1>1, <1>2, FS_EmptySet, FS_Singleton DEF Count

(* Nothing to count.                                                       *)
LEMMA CountNone ==
    ASSUME NEW S, NEW M, NEW q \in Seq(S), \A i \in 1..Len(q) : q[i] \notin M
    PROVE  Count(q, M) = 0
  <1>1. Places(q, M) = {}
    BY DEF Places
  <1> QED
    BY <1>1, FS_EmptySet DEF Count

(* A message at the end.                                                   *)
LEMMA CountAppend ==
    ASSUME NEW S, NEW M, NEW q \in Seq(S), NEW x \in S
    PROVE  /\ Append(q, x) \in Seq(S)
           /\ Count(Append(q, x), M) = Count(q, M) + (IF x \in M THEN 1 ELSE 0)
  <1>1. Append(q, x) = q \o One(x)
    BY DEF One
  <1>2. Append(q, x) \in Seq(S)
    OBVIOUS
  <1> QED
    BY <1>1, <1>2, CountOne, CountConcat

(* The message at the head is taken.                                       *)
LEMMA CountTail ==
    ASSUME NEW S, NEW M, NEW q \in Seq(S), q # <<>>
    PROVE  /\ Tail(q) \in Seq(S) /\ Head(q) \in S
           /\ Count(q, M) = (IF Head(q) \in M THEN 1 ELSE 0) + Count(Tail(q), M)
  <1>1. q = One(Head(q)) \o Tail(q)
    BY DEF One
  <1>2. Tail(q) \in Seq(S) /\ Head(q) \in S
    OBVIOUS
  <1> DEFINE h == Head(q)
             t == Tail(q)
  <1> HIDE DEF h, t
  <1>3. One(h) \in Seq(S) /\ Count(One(h), M) = IF h \in M THEN 1 ELSE 0
    BY <1>2, CountOne DEF h
  <1>4. Count(One(h) \o t, M) = Count(One(h), M) + Count(t, M)
    BY <1>2, <1>3, CountConcat DEF t
  <1>5. Count(q, M) = (IF h \in M THEN 1 ELSE 0) + Count(t, M)
    BY <1>1, <1>3, <1>4 DEF h, t
  <1> QED
    BY <1>2, <1>5 DEF h, t

(* One message is left out.                                                *)
LEMMA CountRemove ==
    ASSUME NEW S, NEW M, NEW q \in Seq(S), NEW i \in 1..Len(q)
    PROVE  /\ RemoveAt(q, i) \in Seq(S)
           /\ Count(q, M) = Count(RemoveAt(q, i), M) + (IF q[i] \in M THEN 1 ELSE 0)
  <1> DEFINE a == SubSeq(q, 1, i - 1)
             b == SubSeq(q, i + 1, Len(q))
             x == q[i]
  <1>1. /\ a \in Seq(S) /\ b \in Seq(S) /\ x \in S
        /\ Len(a) = i - 1 /\ Len(b) = Len(q) - i /\ Len(q) \in Nat /\ i \in Nat
        /\ \A j \in 1..i - 1 : a[j] = q[j]
        /\ \A j \in 1..Len(q) - i : b[j] = q[i + j]
    OBVIOUS
  <1>2. RemoveAt(q, i) = a \o b
    BY DEF RemoveAt
  <1>3. q = (a \o One(x)) \o b
    <2>1. One(x) \in Seq(S) /\ Len(One(x)) = 1 /\ One(x)[1] = x
      BY <1>1 DEF One
    <2>2. /\ a \o One(x) \in Seq(S) /\ Len(a \o One(x)) = i
          /\ \A j \in 1..i : (a \o One(x))[j] = q[j]
      <3> HIDE DEF a, b
      <3>1. /\ a \o One(x) \in Seq(S)
            /\ Len(a) \in Nat /\ Len(One(x)) \in Nat /\ Len(a \o One(x)) = Len(a) + Len(One(x))
            /\ \A j \in 1..Len(a) : (a \o One(x))[j] = a[j]
            /\ \A j \in Len(a) + 1..Len(a) + Len(One(x)) : (a \o One(x))[j] = One(x)[j - Len(a)]
        BY <1>1, <2>1, ConcatFacts, Zenon
      <3> QED
        BY <1>1, <2>1, <3>1
    <2> DEFINE c == a \o One(x)
    <2> HIDE DEF c, a, b
    <2>3. c \in Seq(S) /\ Len(c) = i /\ \A j \in 1..i : c[j] = q[j]
      BY <2>2 DEF c
    <2>4. /\ c \o b \in Seq(S)
          /\ Len(c) \in Nat /\ Len(b) \in Nat /\ Len(c \o b) = Len(c) + Len(b)
          /\ \A j \in 1..Len(c) : (c \o b)[j] = c[j]
          /\ \A j \in Len(c) + 1..Len(c) + Len(b) : (c \o b)[j] = b[j - Len(c)]
      <3>1. c \in Seq(S) /\ b \in Seq(S)
        BY <1>1, <2>3
      <3> QED
        BY <3>1, ConcatFacts, Zenon
    <2>5. Len(c \o b) = Len(q) /\ \A j \in 1..Len(q) : (c \o b)[j] = q[j]
      BY <1>1, <2>3, <2>4
    <2>6. q = c \o b
      BY <2>4, <2>5, SameSequence
    <2> QED
      BY <2>6 DEF c
  <1> HIDE DEF a, b, x
  <1>4. One(x) \in Seq(S) /\ Count(One(x), M) = IF x \in M THEN 1 ELSE 0
    BY <1>1, CountOne
  <1>5. a \o One(x) \in Seq(S) /\ Count(a \o One(x), M) = Count(a, M) + Count(One(x), M)
    BY <1>1, <1>4, CountConcat
  <1>6. Count(q, M) = Count(a \o One(x), M) + Count(b, M)
    BY <1>1, <1>3, <1>5, CountConcat
  <1>7. Count(a \o b, M) = Count(a, M) + Count(b, M) /\ a \o b \in Seq(S)
    BY <1>1, CountConcat
  <1>8. Count(a, M) \in Nat /\ Count(b, M) \in Nat
    BY <1>1, CountType
  <1>9. Count(q, M) = Count(RemoveAt(q, i), M) + (IF x \in M THEN 1 ELSE 0)
    BY <1>2, <1>4, <1>5, <1>6, <1>7, <1>8
  <1> QED
    BY <1>2, <1>7, <1>9 DEF x

(***************************************************************************)
(* What the state is made of.                                              *)
(***************************************************************************)
Files     == UNION {c.files : c \in Campaigns}
Ops       == Records \cup {NoCommand}
Cmds      == [op : Ops] \cup [op : {"CS_RUN"}, file : Files, block : BOOLEAN]
                        \cup [op : {"CS_VALIDATE"}, file : Files]
Responses == {"OK", "EXECUTION_ERROR", "VALIDATION_ERROR", "INVALID_OPCODE"}

(* Messages to the dispatcher and to the sequencer.                        *)
Buffers(p) == [kind : {"seqCmdBuff"}, port : {p}, cmd : Cmds]
Statuses   == [kind : {"compCmdStat"}, seq : Nat, response : Responses]
OutMsgs    == Buffers("cmdSeq") \cup Statuses
DispMsgs   == Buffers("router") \cup OutMsgs \cup [kind : {"own"}, seq : Nat]
Answers    == [kind : {"response"}, response : Responses]

SeqState ==
    [runMode : {"STOPPED", "RUNNING"}, stepMode : {"AUTO", "MANUAL"}, block : BOOLEAN,
     join : BOOLEAN, owner : Nat, records : Seq(Records), next : Nat, valid : BOOLEAN,
     command : Ops, executed : Nat, cmdTimer : BOOLEAN, timeoutTimer : BOOLEAN,
     timeout : BOOLEAN, asserted : BOOLEAN, out : Seq(OutMsgs)]

(* The commands a state has sent, and the command that waits for the end   *)
(* of the sequence.                                                        *)
Sent(s)    == Count(s.out, Buffers("cmdSeq"))
Waiting(s) == IF s.block \/ s.join THEN {s.owner} ELSE {}

(* Apart from the calls made and the timeout, t is s.                      *)
Same(t, s) ==
    /\ t.runMode = s.runMode /\ t.stepMode = s.stepMode
    /\ t.block = s.block /\ t.join = s.join /\ t.owner = s.owner
    /\ t.records = s.records /\ t.next = s.next /\ t.valid = s.valid
    /\ t.executed = s.executed /\ t.cmdTimer = s.cmdTimer /\ t.asserted = s.asserted

(* The two ways to look at the calls of a state agree.                     *)
LEMMA SentFacts ==
    ASSUME NEW s \in SeqState
    PROVE  /\ Cardinality(Commands(s)) = Sent(s) /\ Sent(s) \in Nat
           /\ Commands(s) = Places(s.out, Buffers("cmdSeq"))
  <1>1. s.out \in Seq(OutMsgs)
    BY DEF SeqState
  <1>2. \A m \in OutMsgs : IsCommand(m) <=> m \in Buffers("cmdSeq")
    BY DEF OutMsgs, Buffers, Statuses, IsCommand
  <1>3. \A i \in 1..Len(s.out) : s.out[i] \in OutMsgs
    BY <1>1
  <1>4. Commands(s) = Places(s.out, Buffers("cmdSeq"))
    BY <1>2, <1>3, Zenon DEF Commands, Places
  <1>5. Sent(s) \in Nat
    BY <1>1, CountType DEF Sent
  <1> QED
    BY <1>4, <1>5 DEF Sent, Count

(* cmdResponse answers the command n and changes nothing else.             *)
LEMMA ResponseFacts ==
    ASSUME NEW s \in SeqState, NEW n \in Nat, NEW r \in Responses
    PROVE  /\ cmdResponse(s, n, r) \in SeqState
           /\ Same(cmdResponse(s, n, r), s)
           /\ Answered(cmdResponse(s, n, r)) = Answered(s) \cup {n}
           /\ Sent(cmdResponse(s, n, r)) = Sent(s)
  <1> DEFINE m == [kind |-> "compCmdStat", seq |-> n, response |-> r]
             t == cmdResponse(s, n, r)
             B == Buffers("cmdSeq")
  <1>1. m \in OutMsgs /\ ~IsCommand(m) /\ m \notin B /\ m.seq = n
    BY DEF OutMsgs, Statuses, IsCommand, Buffers
  <1>2. s.out \in Seq(OutMsgs)
    BY DEF SeqState
  <1>3. t = [s EXCEPT !.out = Append(s.out, m)]
    BY DEF cmdResponse, SeqState
  <1> HIDE DEF m, t, B
  <1>4. /\ Append(s.out, m) \in Seq(OutMsgs)
        /\ Count(Append(s.out, m), B) = Count(s.out, B)
    <2>1. Count(Append(s.out, m), B) = Count(s.out, B) + (IF m \in B THEN 1 ELSE 0)
      BY <1>1, <1>2, CountAppend
    <2>2. Count(s.out, B) \in Nat
      BY <1>2, CountType
    <2> QED
      BY <1>1, <1>2, <2>1, <2>2
  <1>5. t \in SeqState /\ Same(t, s) /\ t.out = Append(s.out, m)
    BY <1>3, <1>4 DEF SeqState, Same
  <1>6. Answered(t) = Answered(s) \cup {n}
    <2> DEFINE k == Len(s.out)
    <2>1. /\ k \in Nat /\ Len(t.out) = k + 1
          /\ \A i \in 1..k : t.out[i] = s.out[i]
          /\ t.out[k + 1] = m
      BY <1>1, <1>2, <1>5
    <2>2. 1..Len(t.out) \ Commands(t) = (1..k \ Commands(s)) \cup {k + 1}
      BY <1>1, <2>1 DEF Commands
    <2>3. \A i \in 1..k \ Commands(s) : t.out[i].seq = s.out[i].seq
      BY <2>1
    <2> DEFINE I == 1..k \ Commands(s)
    <2>4. Answered(t) = {t.out[i].seq : i \in I \cup {k + 1}}
      BY <2>2 DEF Answered
    <2>5. Answered(s) = {s.out[i].seq : i \in I}
      BY DEF Answered
    <2>6. t.out[k + 1].seq = n
      BY <1>1, <2>1
    <2> HIDE DEF k, I
    <2>7. Answered(t) = {t.out[i].seq : i \in I} \cup {t.out[k + 1].seq}
      BY <2>4, Zenon
    <2>8. {t.out[i].seq : i \in I} = {s.out[i].seq : i \in I}
      BY <2>3, Zenon DEF I, k
    <2> QED
      BY <2>5, <2>6, <2>7, <2>8
  <1> QED
    BY <1>4, <1>5, <1>6 DEF t, B, Sent

(* comCmdOut sends one command.                                            *)
LEMMA CommandFacts ==
    ASSUME NEW s \in SeqState
    PROVE  /\ comCmdOut(s) \in SeqState
           /\ Same(comCmdOut(s), s)
           /\ Answered(comCmdOut(s)) = Answered(s)
           /\ Sent(comCmdOut(s)) = Sent(s) + 1
  <1> DEFINE m == [kind |-> "seqCmdBuff", port |-> "cmdSeq", cmd |-> [op |-> s.command]]
             t == comCmdOut(s)
             B == Buffers("cmdSeq")
  <1>1. m \in OutMsgs /\ IsCommand(m) /\ m \in B
    <2>1. [op |-> s.command] \in Cmds
      BY DEF SeqState, Cmds
    <2> HIDE DEF Cmds
    <2> QED
      BY <2>1 DEF OutMsgs, IsCommand, Buffers
  <1>2. s.out \in Seq(OutMsgs)
    BY DEF SeqState
  <1>3. t = [s EXCEPT !.out = Append(s.out, m)]
    BY DEF comCmdOut, SeqState
  <1> HIDE DEF m, t, B
  <1>4. /\ Append(s.out, m) \in Seq(OutMsgs)
        /\ Count(Append(s.out, m), B) = Count(s.out, B) + 1
    <2>1. Count(Append(s.out, m), B) = Count(s.out, B) + (IF m \in B THEN 1 ELSE 0)
      BY <1>1, <1>2, CountAppend
    <2> QED
      BY <1>1, <1>2, <2>1
  <1>5. t \in SeqState /\ Same(t, s) /\ t.out = Append(s.out, m)
    BY <1>3, <1>4 DEF SeqState, Same
  <1>6. Answered(t) = Answered(s)
    <2> DEFINE k == Len(s.out)
    <2>1. /\ k \in Nat /\ Len(t.out) = k + 1
          /\ \A i \in 1..k : t.out[i] = s.out[i]
          /\ t.out[k + 1] = m
      BY <1>1, <1>2, <1>5
    <2>2. 1..Len(t.out) \ Commands(t) = 1..k \ Commands(s)
      BY <1>1, <2>1 DEF Commands
    <2>3. \A i \in 1..k \ Commands(s) : t.out[i].seq = s.out[i].seq
      BY <2>1
    <2> HIDE DEF k
    <2> QED
      BY <1>1, <2>1, <2>2, <2>3 DEF Answered, k
  <1> QED
    BY <1>4, <1>5, <1>6 DEF t, B, Sent

(***************************************************************************)
(* What the sequencer's helper methods do.                                 *)
(***************************************************************************)
NoGarbage(r) == \A i \in 1..Len(r) : r[i] # "GARBAGE"

(* The sequencer's state between two handlers.                             *)
Sound(s) ==
    /\ s \in SeqState
    /\ 1 <= s.next /\ s.next <= Len(s.records) + 1
    /\ s.valid => NoGarbage(s.records)
    /\ s.runMode = "STOPPED" => s.executed = 0

(* From s, the sequence has ended in t: whoever waited is answered.        *)
Ended(t, s) ==
    /\ t \in SeqState
    /\ t.runMode = "STOPPED" /\ t.executed = 0 /\ t.next = 1
    /\ t.block = FALSE /\ t.join = FALSE /\ t.owner = s.owner
    /\ t.stepMode = s.stepMode /\ t.asserted = s.asserted
    /\ \/ t.records = s.records /\ t.valid = s.valid
       \/ t.records = <<>>
    /\ Answered(t) = Answered(s) \cup Waiting(s)
    /\ Sent(t) = Sent(s)

(* From s, nextRecord has failed its assertion in t.                       *)
Fails(s) == s.next > Len(s.records) \/ s.records[s.next] = "GARBAGE"
Stuck(t, s) ==
    /\ t \in SeqState
    /\ Same(t, [s EXCEPT !.asserted = TRUE])
    /\ Answered(t) = Answered(s) /\ Sent(t) = Sent(s)

(* From s, a record was read: its command is sent or waits for its time.   *)
Reads(t, s) ==
    /\ t \in SeqState
    /\ t.next = s.next + 1
    /\ t.runMode = s.runMode /\ t.stepMode = s.stepMode
    /\ t.block = s.block /\ t.join = s.join /\ t.owner = s.owner
    /\ t.records = s.records /\ t.valid = s.valid
    /\ t.executed = s.executed /\ t.asserted = s.asserted
    /\ Answered(t) = Answered(s)
    /\ \/ t.cmdTimer = s.cmdTimer /\ Sent(t) = Sent(s) + 1
       \/ t.cmdTimer = TRUE /\ Sent(t) = Sent(s)

(* Answers and commands sent depend on the calls alone.                    *)
LEMMA CallsOnly ==
    ASSUME NEW s, NEW t, t.out = s.out
    PROVE  Answered(t) = Answered(s) /\ Sent(t) = Sent(s)
  BY DEF Answered, Commands, Sent

(* At the end of a sequence the command recorded last is answered, if it   *)
(* waits.                                                                  *)
LEMMA AnswerFacts ==
    ASSUME NEW s \in SeqState, NEW r \in Responses
    PROVE  /\ answerOwner(s, r) \in SeqState
           /\ Same(answerOwner(s, r), [s EXCEPT !.join = FALSE, !.block = FALSE])
           /\ Answered(answerOwner(s, r)) = Answered(s) \cup Waiting(s)
           /\ Sent(answerOwner(s, r)) = Sent(s)
  <1>1. CASE s.block \/ s.join
    <2> DEFINE u == cmdResponse(s, s.owner, r)
               t == [u EXCEPT !.join = FALSE, !.block = FALSE]
    <2>1. s.owner \in Nat
      BY DEF SeqState
    <2>2. u \in SeqState /\ Same(u, s) /\ Answered(u) = Answered(s) \cup {s.owner} /\ Sent(u) = Sent(s)
      BY <2>1, ResponseFacts
    <2>3. answerOwner(s, r) = t
      BY <1>1 DEF answerOwner
    <2> HIDE DEF u
    <2>4. t \in SeqState /\ Same(t, [s EXCEPT !.join = FALSE, !.block = FALSE]) /\ t.out = u.out
      BY <2>2 DEF SeqState, Same
    <2>5. Answered(t) = Answered(u) /\ Sent(t) = Sent(u)
      BY <2>4, CallsOnly
    <2> QED
      BY <1>1, <2>2, <2>3, <2>4, <2>5 DEF Waiting
  <1>2. CASE ~(s.block \/ s.join)
    <2>1. answerOwner(s, r) = s /\ Waiting(s) = {}
      BY <1>2 DEF answerOwner, Waiting
    <2>2. Same(s, [s EXCEPT !.join = FALSE, !.block = FALSE])
      BY <1>2 DEF Same, SeqState
    <2> QED
      BY <2>1, <2>2
  <1> QED
    BY <1>1, <1>2

(* performCmd_Cancel ends the sequence.                                    *)
LEMMA CancelFacts ==
    ASSUME NEW s \in SeqState
    PROVE  Ended(performCmd_Cancel(s), s)
  <1> DEFINE u == [reset(s) EXCEPT !.runMode = "STOPPED", !.cmdTimer = FALSE,
                                   !.timeoutTimer = FALSE, !.executed = 0]
             t == answerOwner(u, "EXECUTION_ERROR")
  <1>1. /\ u \in SeqState /\ u.out = s.out
        /\ u.runMode = "STOPPED" /\ u.executed = 0 /\ u.next = 1
        /\ u.owner = s.owner /\ u.stepMode = s.stepMode /\ u.asserted = s.asserted
        /\ u.records = s.records /\ u.valid = s.valid /\ u.block = s.block /\ u.join = s.join
    BY DEF SeqState, reset
  <1> HIDE DEF u
  <1>2. "EXECUTION_ERROR" \in Responses
    BY DEF Responses
  <1>3. /\ t \in SeqState /\ Same(t, [u EXCEPT !.join = FALSE, !.block = FALSE])
        /\ Answered(t) = Answered(u) \cup Waiting(u) /\ Sent(t) = Sent(u)
    BY <1>1, <1>2, AnswerFacts
  <1>4. Answered(u) = Answered(s) /\ Sent(u) = Sent(s) /\ Waiting(u) = Waiting(s)
    BY <1>1, CallsOnly DEF Waiting
  <1>5. performCmd_Cancel(s) = t
    BY DEF performCmd_Cancel, u
  <1> HIDE DEF t
  <1>6. /\ t.runMode = "STOPPED" /\ t.executed = 0 /\ t.next = 1
        /\ t.block = FALSE /\ t.join = FALSE /\ t.owner = s.owner
        /\ t.stepMode = s.stepMode /\ t.asserted = s.asserted
        /\ t.records = s.records /\ t.valid = s.valid
    BY <1>1, <1>3 DEF Same, SeqState
  <1> QED
    BY <1>3, <1>4, <1>5, <1>6 DEF Ended

(* sequenceComplete ends the sequence.                                     *)
LEMMA CompleteFacts ==
    ASSUME NEW s \in SeqState
    PROVE  Ended(sequenceComplete(s), s)
  <1> DEFINE u == [clear(s) EXCEPT !.runMode = "STOPPED", !.executed = 0]
             t == answerOwner(u, "OK")
  <1>1. /\ u \in SeqState /\ u.out = s.out
        /\ u.runMode = "STOPPED" /\ u.executed = 0 /\ u.next = 1
        /\ u.owner = s.owner /\ u.stepMode = s.stepMode /\ u.asserted = s.asserted
        /\ u.records = <<>> /\ u.block = s.block /\ u.join = s.join
    <2> DEFINE empty == <<>>
               v == [s EXCEPT !.records = empty, !.next = 1, !.valid = TRUE]
    <2>1. empty \in Seq(Records) /\ clear(s) = v
      BY DEF clear
    <2> HIDE DEF empty
    <2>2. /\ v \in SeqState /\ v.out = s.out /\ v.next = 1 /\ v.records = empty
          /\ v.owner = s.owner /\ v.stepMode = s.stepMode /\ v.asserted = s.asserted
          /\ v.block = s.block /\ v.join = s.join
      BY <2>1 DEF SeqState
    <2> HIDE DEF v
    <2> QED
      BY <2>1, <2>2 DEF SeqState, empty
  <1> HIDE DEF u
  <1>2. "OK" \in Responses
    BY DEF Responses
  <1>3. /\ t \in SeqState /\ Same(t, [u EXCEPT !.join = FALSE, !.block = FALSE])
        /\ Answered(t) = Answered(u) \cup Waiting(u) /\ Sent(t) = Sent(u)
    BY <1>1, <1>2, AnswerFacts
  <1>4. Answered(u) = Answered(s) /\ Sent(u) = Sent(s) /\ Waiting(u) = Waiting(s)
    BY <1>1, CallsOnly DEF Waiting
  <1>5. sequenceComplete(s) = t
    BY DEF sequenceComplete, u
  <1> HIDE DEF t
  <1>6. /\ t.runMode = "STOPPED" /\ t.executed = 0 /\ t.next = 1
        /\ t.block = FALSE /\ t.join = FALSE /\ t.owner = s.owner
        /\ t.stepMode = s.stepMode /\ t.asserted = s.asserted
        /\ t.records = <<>>
    BY <1>1, <1>3 DEF Same, SeqState
  <1> QED
    BY <1>3, <1>4, <1>5, <1>6 DEF Ended

(* setCmdTimeout touches the timeout only.                                 *)
LEMMA TimeoutFacts ==
    ASSUME NEW s \in SeqState
    PROVE  /\ setCmdTimeout(s) \in SeqState /\ Same(setCmdTimeout(s), s)
           /\ Answered(setCmdTimeout(s)) = Answered(s) /\ Sent(setCmdTimeout(s)) = Sent(s)
  <1> DEFINE t == setCmdTimeout(s)
  <1>1. t \in SeqState /\ Same(t, s) /\ t.out = s.out
    BY DEF setCmdTimeout, SeqState, Same
  <1> HIDE DEF t
  <1>2. Answered(t) = Answered(s) /\ Sent(t) = Sent(s)
    BY <1>1, CallsOnly
  <1> QED
    BY <1>1, <1>2 DEF t

(* performCmd_Step fails, ends the sequence, or reads one record.          *)
LEMMA StepFacts ==
    ASSUME NEW s \in SeqState, NEW due \in BOOLEAN, 1 <= s.next
    PROVE  \/ Fails(s) /\ Stuck(performCmd_Step(s, due), s)
           \/ ~Fails(s) /\ Ended(performCmd_Step(s, due), s)
           \/ ~Fails(s) /\ Reads(performCmd_Step(s, due), s)
  <1>0. Len(s.records) \in Nat /\ s.next \in Nat
    BY DEF SeqState
  <1>1. CASE Fails(s)
    <2> DEFINE t == [s EXCEPT !.asserted = TRUE]
    <2>1. performCmd_Step(s, due) = t
      BY <1>0, <1>1 DEF performCmd_Step, Fails, hasMoreRecords
    <2>2. t \in SeqState /\ t.out = s.out /\ Same(t, t)
      BY DEF SeqState, Same
    <2>3. Answered(t) = Answered(s) /\ Sent(t) = Sent(s)
      BY <2>2, CallsOnly
    <2> QED
      BY <1>1, <2>1, <2>2, <2>3 DEF Stuck
  <1>2. CASE ~Fails(s) /\ s.records[s.next] = "END"
    <2>1. performCmd_Step(s, due) = sequenceComplete(s)
      BY <1>0, <1>2 DEF performCmd_Step, Fails, hasMoreRecords
    <2> QED
      BY <1>2, <2>1, CompleteFacts
  <1>3. CASE ~Fails(s) /\ s.records[s.next] # "END"
    <2> DEFINE read == [s EXCEPT !.command = s.records[s.next], !.next = s.next + 1]
    <2>1. performCmd_Step(s, due) =
             IF due THEN setCmdTimeout(comCmdOut(read)) ELSE [read EXCEPT !.cmdTimer = TRUE]
      BY <1>0, <1>3 DEF performCmd_Step, Fails, hasMoreRecords
    <2>2. s.records[s.next] \in Ops
      BY <1>0, <1>3 DEF SeqState, Fails, Ops
    <2>3. /\ read \in SeqState /\ read.out = s.out /\ read.next = s.next + 1
          /\ Same(read, [s EXCEPT !.next = s.next + 1])
      <3> DEFINE k == s.next + 1
                 c == s.records[s.next]
      <3>1. k \in Nat /\ c \in Ops
        BY <1>0, <2>2
      <3> HIDE DEF k, c
      <3>2. /\ [s EXCEPT !.command = c, !.next = k] \in SeqState
            /\ [s EXCEPT !.command = c, !.next = k].out = s.out
            /\ [s EXCEPT !.command = c, !.next = k].next = k
            /\ Same([s EXCEPT !.command = c, !.next = k], [s EXCEPT !.next = k])
        BY <3>1 DEF SeqState, Same
      <3> QED
        BY <3>2 DEF k, c
    <2>4. Answered(read) = Answered(s) /\ Sent(read) = Sent(s)
      BY <2>3, CallsOnly
    <2>5. CASE due
      <3> DEFINE c == comCmdOut(read)
                 t == setCmdTimeout(c)
      <3> HIDE DEF read
      <3>1. c \in SeqState /\ Same(c, read) /\ Answered(c) = Answered(read) /\ Sent(c) = Sent(read) + 1
        BY <2>3, CommandFacts
      <3> HIDE DEF c
      <3>2. t \in SeqState /\ Same(t, c) /\ Answered(t) = Answered(c) /\ Sent(t) = Sent(c)
        BY <3>1, TimeoutFacts
      <3> HIDE DEF t
      <3>3. Reads(t, s)
        BY <2>3, <2>4, <3>1, <3>2 DEF Reads, Same, SeqState
      <3> QED
        BY <1>3, <2>1, <2>5, <3>3 DEF t, c, read
    <2>6. CASE ~due
      <3> DEFINE t == [read EXCEPT !.cmdTimer = TRUE]
      <3> HIDE DEF read
      <3>1. t \in SeqState /\ t.out = read.out /\ t.cmdTimer = TRUE
        BY <2>3 DEF SeqState
      <3>2. Answered(t) = Answered(s) /\ Sent(t) = Sent(s)
        BY <2>4, <3>1, CallsOnly
      <3>3. Reads(t, s)
        BY <2>3, <3>1, <3>2 DEF Reads, Same, SeqState
      <3> QED
        BY <1>3, <2>1, <2>6, <3>3 DEF t, read
    <2> QED
      BY <2>5, <2>6
  <1> QED
    BY <1>1, <1>2, <1>3

(***************************************************************************)
(* What the sequencer's handlers do.                                       *)
(***************************************************************************)

(* A run that began with record f and awaits a statuses is in turn.        *)
Turn(s, f, a) ==
    s.runMode = "RUNNING" =>
        LET ahead == s.next - f - s.executed
        IN  /\ ahead = 0 \/ ahead = 1
            /\ s.stepMode = "AUTO" => ahead = 1
            /\ a + (IF s.cmdTimer THEN 1 ELSE 0) <= ahead
            /\ ahead = 0 => s.next <= Len(s.records)

(* The state after a handler, if the run is in turn: a failed assertion    *)
(* means that the file had been refused.                                   *)
Orderly(t, f, a) == IF t.asserted THEN ~t.valid ELSE Turn(t, f, a)

(* The answers a handler may owe: those it gave and the one it records.    *)
Settled(t) == Answered(t) \cup Waiting(t)

(* Commanding's history variables as functions of the state s.             *)
StartsIn(s, cmd) == cmd.op \in {"CS_RUN", "CS_START"} /\ s.runMode = "STOPPED"
FirstIn(s, f, cmd) ==
    IF ~StartsIn(s, cmd) THEN f ELSE IF cmd.op = "CS_RUN" THEN cmd.file.next ELSE s.next
CleanIn(s, a, f, c, cmd) ==
    CASE StartsIn(s, cmd)   -> a = 0 /\ ~s.cmdTimer
      [] cmd.op = "CS_STEP" -> c /\ s.stepMode = "MANUAL" /\ s.next - f = s.executed
      [] OTHER              -> c

(* A handler is called in a sound state, with no calls made yet.           *)
Idle(s) == Sound(s) /\ ~s.asserted /\ s.out = <<>>

(* What every command handler ensures: t is sound; n is settled, and who   *)
(* waited before is, unless the command takes its place; and a run stays   *)
(* in turn.                                                                *)
Handles(t, s, cmd, n) ==
    /\ Sound(t)
    /\ ~t.asserted => /\ n \in Settled(t)
                      /\ Displaces(cmd) \/ Waiting(s) \subseteq Settled(t)
    /\ \A a \in Nat, f \in Nat, c \in BOOLEAN :
          (c => Turn(s, f, a)) /\ CleanIn(s, a, f, c, cmd) =>
              Orderly(t, FirstIn(s, f, cmd), a + Sent(t))

(* No calls, no answers and no commands.                                   *)
LEMMA IdleFacts ==
    ASSUME NEW s, Idle(s)
    PROVE  Answered(s) = {} /\ Sent(s) = 0 /\ s \in SeqState
  <1>1. s \in SeqState /\ s.out = <<>>
    BY DEF Idle, Sound
  <1>2. Len(s.out) = 0 /\ s.out \in Seq(OutMsgs)
    BY <1>1 DEF SeqState
  <1>3. Answered(s) = {}
    BY <1>2 DEF Answered
  <1>4. Sent(s) = 0
    <2>1. \A i \in 1..Len(s.out) : s.out[i] \notin Buffers("cmdSeq")
      BY <1>2
    <2> HIDE DEF Buffers
    <2> QED
      BY <1>2, <2>1, CountNone DEF Sent
  <1> QED
    BY <1>1, <1>3, <1>4

(* A sequence that has ended leaves a sound state, and a stopped one is    *)
(* always in turn.                                                         *)
LEMMA EndedSound ==
    ASSUME NEW s, NEW t, Sound(s), Ended(t, s)
    PROVE  /\ Sound(t)
           /\ Waiting(t) = {}
           /\ \A f, a : Turn(t, f, a)
  <1>1. Len(s.records) \in Nat /\ t \in SeqState
    BY DEF Sound, SeqState, Ended
  <1>2. t.next = 1 /\ t.runMode = "STOPPED" /\ t.executed = 0
    BY DEF Ended
  <1>3. ASSUME t.records = <<>> PROVE Sound(t)
    BY <1>1, <1>2, <1>3 DEF Sound, NoGarbage
  <1>4. ASSUME t.records = s.records, t.valid = s.valid PROVE Sound(t)
    BY <1>1, <1>2, <1>4 DEF Sound
  <1>5. Waiting(t) = {}
    BY DEF Ended, Waiting
  <1>6. \A f, a : Turn(t, f, a)
    BY <1>2 DEF Turn
  <1> QED
    BY <1>3, <1>4, <1>5, <1>6 DEF Ended

(* Reading a record or failing to leaves a sound state.                    *)
LEMMA StepSound ==
    ASSUME NEW s, NEW due \in BOOLEAN, Sound(s), s.runMode = "RUNNING", ~s.asserted
    PROVE  LET t == performCmd_Step(s, due) IN
           /\ Sound(t)
           /\ ~t.asserted => Settled(s) \subseteq Settled(t)
           /\ t.block => s.block /\ t.owner = s.owner
           /\ t.owner = s.owner
           /\ t.asserted => t.valid = s.valid /\ Fails(s)
           /\ ~t.asserted => ~Fails(s)
           /\ \A f \in Nat : s.next - f = s.executed /\ ~s.cmdTimer /\ ~t.asserted
                 => Turn(t, f, Sent(t) - Sent(s))
  <1> DEFINE t == performCmd_Step(s, due)
  <1>0. /\ s \in SeqState /\ 1 <= s.next /\ s.next \in Nat /\ s.executed \in Nat
        /\ Len(s.records) \in Nat
    BY DEF Sound, SeqState
  <1>1. \/ Fails(s) /\ Stuck(t, s)
        \/ ~Fails(s) /\ Ended(t, s)
        \/ ~Fails(s) /\ Reads(t, s)
    BY <1>0, StepFacts
  <1>2. Sent(s) \in Nat /\ s.block \in BOOLEAN /\ s.cmdTimer \in BOOLEAN
    BY <1>0, SentFacts DEF SeqState
  <1> HIDE DEF t
  <1>3. CASE Fails(s) /\ Stuck(t, s)
    <2>1. t \in SeqState /\ t.asserted /\ t.valid = s.valid /\ t.block = s.block /\ t.owner = s.owner
      BY <1>0, <1>3 DEF Stuck, Same, SeqState
    <2>2. Sound(t)
      BY <1>0, <1>3 DEF Sound, Stuck, Same, SeqState
    <2> QED
      BY <1>3, <2>1, <2>2 DEF t
  <1>4. CASE ~Fails(s) /\ Ended(t, s)
    <2>1. Sound(t) /\ \A f, a : Turn(t, f, a)
      BY <1>4, EndedSound
    <2>2. ~t.asserted /\ ~t.block /\ t.owner = s.owner /\ Settled(s) \subseteq Settled(t)
      BY <1>4 DEF Ended, Settled
    <2> QED
      BY <1>4, <2>1, <2>2 DEF t
  <1>5. CASE ~Fails(s) /\ Reads(t, s)
    <2>1. s.next <= Len(s.records)
      BY <1>0, <1>5 DEF Fails
    <2>2. Sound(t)
      BY <1>0, <1>5, <2>1 DEF Sound, Reads
    <2>3. ~t.asserted /\ t.block = s.block /\ t.owner = s.owner /\ Settled(s) = Settled(t)
      BY <1>5 DEF Reads, Settled, Waiting
    <2>4. ASSUME NEW f \in Nat, s.next - f = s.executed, ~s.cmdTimer
          PROVE  Turn(t, f, Sent(t) - Sent(s))
      <3>1. t.next = s.next + 1 /\ t.executed = s.executed
        BY <1>5 DEF Reads
      <3>2. t.next - f - t.executed = 1
        BY <1>0, <2>4, <3>1
      <3>3. Sent(t) - Sent(s) + (IF t.cmdTimer THEN 1 ELSE 0) <= 1
        BY <1>2, <1>5, <2>4 DEF Reads
      <3> QED
        BY <3>2, <3>3 DEF Turn
    <2> QED
      BY <1>5, <2>2, <2>3, <2>4 DEF t
  <1> QED
    BY <1>1, <1>3, <1>4, <1>5

(* Answering n from a sound state.                                         *)
LEMMA AnsweredSound ==
    ASSUME NEW s, NEW n \in Nat, NEW r \in Responses, Sound(s)
    PROVE  LET t == cmdResponse(s, n, r) IN
           /\ Sound(t) /\ Same(t, s) /\ Sent(t) = Sent(s)
           /\ Settled(t) = Settled(s) \cup {n}
           /\ \A f, a : Turn(s, f, a) => Turn(t, f, a)
  <1> DEFINE t == cmdResponse(s, n, r)
  <1>1. s \in SeqState
    BY DEF Sound
  <1>2. t \in SeqState /\ Same(t, s) /\ Sent(t) = Sent(s) /\ Answered(t) = Answered(s) \cup {n}
    BY <1>1, ResponseFacts
  <1> HIDE DEF t
  <1>3. Sound(t)
    BY <1>2 DEF Sound, Same
  <1>4. Settled(t) = Settled(s) \cup {n}
    <2>1. Waiting(t) = Waiting(s)
      BY <1>2 DEF Waiting, Same
    <2> QED
      BY <1>2, <2>1 DEF Settled
  <1>5. \A f, a : Turn(s, f, a) => Turn(t, f, a)
    BY <1>2 DEF Turn, Same
  <1> QED
    BY <1>2, <1>3, <1>4, <1>5 DEF t

(* A command that is answered at once and changes nothing else.            *)
LEMMA RefusedHandles ==
    ASSUME NEW s, NEW cmd, NEW n \in Nat, NEW r \in Responses, Idle(s),
           ~StartsIn(s, cmd)
    PROVE  Handles(cmdResponse(s, n, r), s, cmd, n)
  <1> DEFINE t == cmdResponse(s, n, r)
  <1>1. Answered(s) = {} /\ Sent(s) = 0 /\ Sound(s) /\ ~s.asserted
    BY IdleFacts DEF Idle
  <1>2. /\ Sound(t) /\ Same(t, s) /\ Sent(t) = Sent(s)
        /\ Settled(t) = Settled(s) \cup {n}
        /\ \A f, a : Turn(s, f, a) => Turn(t, f, a)
    BY <1>1, AnsweredSound
  <1> HIDE DEF t
  <1>3. n \in Settled(t) /\ Waiting(s) \subseteq Settled(t)
    BY <1>2 DEF Settled
  <1>4. ASSUME NEW a \in Nat, NEW f \in Nat, NEW c \in BOOLEAN,
               c => Turn(s, f, a), CleanIn(s, a, f, c, cmd)
        PROVE  Orderly(t, FirstIn(s, f, cmd), a + Sent(t))
    <2>1. c /\ FirstIn(s, f, cmd) = f
      BY <1>4 DEF CleanIn, FirstIn
    <2>2. a + Sent(t) = a /\ ~t.asserted
      BY <1>1, <1>2 DEF Same
    <2> QED
      BY <1>2, <1>4, <2>1, <2>2 DEF Orderly
  <1> QED
    BY <1>2, <1>3, <1>4 DEF Handles, t

(* The same for a start that is refused or only loads: the sequencer stays *)
(* stopped.                                                                *)
LEMMA StoppedHandles ==
    ASSUME NEW s, NEW u, NEW cmd, NEW n \in Nat, Sound(u), u.runMode = "STOPPED", ~u.asserted,
           n \in Settled(u), Displaces(cmd) \/ Waiting(s) \subseteq Settled(u)
    PROVE  Handles(u, s, cmd, n)
  <1>1. \A f, a : Turn(u, f, a)
    BY DEF Turn
  <1>2. \A f, a : Orderly(u, f, a)
    BY <1>1 DEF Orderly
  <1> QED
    BY <1>2 DEF Handles

(* CS_CANCEL.                                                              *)
LEMMA CancelHandles ==
    ASSUME NEW s, NEW cmd, NEW n \in Nat, Idle(s), cmd.op = "CS_CANCEL"
    PROVE  Handles(CS_CANCEL(s, n), s, cmd, n)
  <1>0. "OK" \in Responses /\ ~StartsIn(s, cmd)
    BY DEF Responses, StartsIn
  <1>1. Sound(s) /\ s \in SeqState /\ ~s.asserted
    BY DEF Idle, Sound
  <1>2. CASE s.runMode # "RUNNING"
    <2>1. CS_CANCEL(s, n) = cmdResponse(s, n, "OK")
      BY <1>2 DEF CS_CANCEL
    <2> QED
      BY <1>0, <2>1, RefusedHandles
  <1>3. CASE s.runMode = "RUNNING"
    <2> DEFINE u == performCmd_Cancel(s)
               t == cmdResponse(u, n, "OK")
    <2>1. Ended(u, s) /\ Sound(u)
      BY <1>1, CancelFacts, EndedSound
    <2>2. CS_CANCEL(s, n) = t
      BY <1>3 DEF CS_CANCEL
    <2> HIDE DEF u
    <2>3. Sound(t) /\ Same(t, u) /\ Settled(t) = Settled(u) \cup {n}
      BY <1>0, <2>1, AnsweredSound
    <2> HIDE DEF t
    <2>4. Waiting(s) \subseteq Settled(t) /\ n \in Settled(t)
      BY <2>1, <2>3 DEF Ended, Settled
    <2>5. t.runMode = "STOPPED" /\ ~t.asserted
      BY <1>1, <2>1, <2>3 DEF Ended, Same
    <2> QED
      BY <2>2, <2>3, <2>4, <2>5, StoppedHandles
  <1> QED
    BY <1>2, <1>3

(* CS_JOIN_WAIT.                                                           *)
LEMMA JoinHandles ==
    ASSUME NEW s, NEW cmd, NEW n \in Nat, Idle(s), cmd.op = "CS_JOIN_WAIT"
    PROVE  Handles(CS_JOIN_WAIT(s, n), s, cmd, n)
  <1>0. "OK" \in Responses /\ ~StartsIn(s, cmd) /\ Displaces(cmd)
    BY DEF Responses, StartsIn, Displaces
  <1>1. Sound(s) /\ s \in SeqState /\ ~s.asserted /\ Sent(s) = 0
    BY IdleFacts DEF Idle, Sound
  <1>2. CASE s.runMode # "RUNNING"
    <2>1. CS_JOIN_WAIT(s, n) = cmdResponse(s, n, "OK")
      BY <1>2 DEF CS_JOIN_WAIT
    <2> QED
      BY <1>0, <2>1, RefusedHandles
  <1>3. CASE s.runMode = "RUNNING"
    <2> DEFINE t == [s EXCEPT !.join = TRUE, !.owner = n]
    <2>1. CS_JOIN_WAIT(s, n) = t
      BY <1>3 DEF CS_JOIN_WAIT
    <2>2. /\ t \in SeqState /\ t.out = s.out /\ t.join /\ t.owner = n /\ ~t.asserted
          /\ t.runMode = s.runMode /\ t.stepMode = s.stepMode /\ t.records = s.records
          /\ t.next = s.next /\ t.valid = s.valid /\ t.executed = s.executed
          /\ t.cmdTimer = s.cmdTimer
      BY <1>1 DEF SeqState
    <2> HIDE DEF t
    <2>3. Sound(t)
      BY <1>1, <2>2 DEF Sound
    <2>4. n \in Settled(t) /\ Sent(t) = 0
      BY <1>1, <2>2, CallsOnly DEF Settled, Waiting
    <2>5. ASSUME NEW a \in Nat, NEW f \in Nat, NEW c \in BOOLEAN,
                 c => Turn(s, f, a), CleanIn(s, a, f, c, cmd)
          PROVE  Orderly(t, FirstIn(s, f, cmd), a + Sent(t))
      <3>1. Turn(s, f, a) /\ FirstIn(s, f, cmd) = f /\ a + Sent(t) = a
        BY <1>0, <2>4, <2>5 DEF CleanIn, FirstIn
      <3>2. Turn(t, f, a)
        BY <2>2, <3>1 DEF Turn
      <3> QED
        BY <2>2, <3>1, <3>2 DEF Orderly
    <2> QED
      BY <1>0, <2>1, <2>2, <2>3, <2>4, <2>5 DEF Handles
  <1> QED
    BY <1>2, <1>3

(* CS_AUTO and CS_MANUAL.                                                  *)
LEMMA SwitchHandles ==
    ASSUME NEW s, NEW cmd, NEW n \in Nat, NEW mode \in {"AUTO", "MANUAL"}, Idle(s),
           ~StartsIn(s, cmd)
    PROVE  Handles(switchMode(s, n, mode), s, cmd, n)
  <1>0. "OK" \in Responses /\ "EXECUTION_ERROR" \in Responses
    BY DEF Responses
  <1>1. CASE s.runMode # "STOPPED"
    <2>1. switchMode(s, n, mode) = cmdResponse(s, n, "EXECUTION_ERROR")
      BY <1>1 DEF switchMode, requireRunMode, Refused
    <2> QED
      BY <1>0, <2>1, RefusedHandles
  <1>2. CASE s.runMode = "STOPPED"
    <2> DEFINE u == [s EXCEPT !.stepMode = mode]
               t == cmdResponse(u, n, "OK")
    <2>1. switchMode(s, n, mode) = t
      BY <1>2 DEF switchMode, requireRunMode
    <2>2. /\ u \in SeqState /\ u.runMode = "STOPPED" /\ ~u.asserted /\ u.records = s.records
          /\ u.next = s.next /\ u.valid = s.valid /\ u.executed = s.executed
          /\ u.block = s.block /\ u.join = s.join /\ u.owner = s.owner
      BY <1>2 DEF SeqState, Idle, Sound
    <2> HIDE DEF u
    <2>3. Sound(u) /\ Waiting(u) = Waiting(s)
      <3>1. Sound(s)
        BY DEF Idle
      <3>2. Sound(u)
        BY <1>2, <2>2, <3>1 DEF Sound
      <3> QED
        BY <2>2, <3>2 DEF Waiting
    <2>4. Sound(t) /\ Same(t, u) /\ Settled(t) = Settled(u) \cup {n}
      BY <1>0, <2>3, AnsweredSound
    <2> HIDE DEF t
    <2>5. Waiting(s) \subseteq Settled(t) /\ n \in Settled(t)
      BY <2>3, <2>4 DEF Settled
    <2>6. t.runMode = "STOPPED" /\ ~t.asserted
      BY <2>2, <2>4 DEF Same
    <2> QED
      BY <2>1, <2>4, <2>5, <2>6, StoppedHandles
  <1> QED
    BY <1>1, <1>2

(* Loading a file changes the sequence buffer only.                        *)
LEMMA LoadFacts ==
    ASSUME NEW s, NEW file, Sound(s), IsFile(file)
    PROVE  LET t == loadFile(s, file) IN
           /\ Sound(t) /\ t.out = s.out
           /\ t.runMode = s.runMode /\ t.stepMode = s.stepMode /\ t.block = s.block
           /\ t.join = s.join /\ t.owner = s.owner /\ t.executed = s.executed
           /\ t.cmdTimer = s.cmdTimer /\ t.asserted = s.asserted
           /\ file.found => t.records = file.records /\ t.next = file.next /\ t.valid = file.accepted
  <1> DEFINE t == loadFile(s, file)
  <1>1. CASE ~file.found
    BY <1>1 DEF loadFile
  <1>2. CASE file.found
    <2>1. /\ file.records \in Seq(Records) /\ file.next \in Nat /\ file.accepted \in BOOLEAN
          /\ 1 <= file.next /\ file.next <= Len(file.records) + 1
          /\ file.accepted => NoGarbage(file.records)
      BY DEF IsFile, NoGarbage
    <2>2. t = [s EXCEPT !.records = file.records, !.next = file.next, !.valid = file.accepted]
      BY <1>2 DEF loadFile
    <2> HIDE DEF t
    <2>3. /\ t \in SeqState /\ t.out = s.out
          /\ t.runMode = s.runMode /\ t.stepMode = s.stepMode /\ t.block = s.block
          /\ t.join = s.join /\ t.owner = s.owner /\ t.executed = s.executed
          /\ t.cmdTimer = s.cmdTimer /\ t.asserted = s.asserted
          /\ t.records = file.records /\ t.next = file.next /\ t.valid = file.accepted
      BY <2>1, <2>2 DEF SeqState, Sound
    <2>4. Sound(t)
      BY <2>1, <2>3 DEF Sound
    <2> QED
      BY <2>3, <2>4 DEF t
  <1> QED
    BY <1>1, <1>2

(* Answering n in a stopped state.                                         *)
LEMMA AnsweredStopped ==
    ASSUME NEW s, NEW u, NEW cmd, NEW n \in Nat, NEW r \in Responses,
           Sound(u), u.runMode = "STOPPED", ~u.asserted,
           Displaces(cmd) \/ Waiting(s) \subseteq Waiting(u)
    PROVE  Handles(cmdResponse(u, n, r), s, cmd, n)
  <1> DEFINE t == cmdResponse(u, n, r)
  <1>1. Sound(t) /\ Same(t, u) /\ Settled(t) = Settled(u) \cup {n}
    BY AnsweredSound
  <1> HIDE DEF t
  <1>2. (Displaces(cmd) \/ Waiting(s) \subseteq Settled(t)) /\ n \in Settled(t)
    BY <1>1 DEF Settled
  <1>3. t.runMode = "STOPPED" /\ ~t.asserted
    BY <1>1 DEF Same
  <1>4. Handles(t, s, cmd, n)
    BY <1>1, <1>2, <1>3, StoppedHandles
  <1> QED
    BY <1>4 DEF t

(* CS_VALIDATE.                                                            *)
LEMMA ValidateHandles ==
    ASSUME NEW s, NEW cmd, NEW n \in Nat, NEW file, Idle(s), IsFile(file), cmd.op = "CS_VALIDATE"
    PROVE  Handles(CS_VALIDATE(s, n, file), s, cmd, n)
  <1>0. "OK" \in Responses /\ "EXECUTION_ERROR" \in Responses /\ ~StartsIn(s, cmd)
    BY DEF Responses, StartsIn
  <1>1. CASE s.runMode # "STOPPED"
    <2>1. CS_VALIDATE(s, n, file) = cmdResponse(s, n, "EXECUTION_ERROR")
      BY <1>1 DEF CS_VALIDATE, requireRunMode, Refused
    <2> QED
      BY <1>0, <2>1, RefusedHandles
  <1>2. CASE s.runMode = "STOPPED"
    <2>1. CASE ~(file.found /\ file.accepted)
      <3> DEFINE u == loadFile(s, file)
      <3>1. CS_VALIDATE(s, n, file) = cmdResponse(u, n, "EXECUTION_ERROR")
        BY <1>2, <2>1 DEF CS_VALIDATE, requireRunMode, Refused
      <3>2. /\ Sound(u) /\ u.runMode = s.runMode /\ u.asserted = s.asserted
            /\ u.block = s.block /\ u.join = s.join /\ u.owner = s.owner
        BY LoadFacts DEF Idle
      <3> HIDE DEF u
      <3>3. ~u.asserted /\ Waiting(s) \subseteq Waiting(u)
        BY <3>2 DEF Waiting, Idle
      <3> QED
        BY <1>0, <1>2, <3>1, <3>2, <3>3, AnsweredStopped
    <2>2. CASE file.found /\ file.accepted
      <3> DEFINE e == <<>>
                 u == [s EXCEPT !.records = e, !.next = 1, !.valid = TRUE]
      <3>1. CS_VALIDATE(s, n, file) = cmdResponse(u, n, "OK")
        BY <1>2, <2>2 DEF CS_VALIDATE, requireRunMode, clear
      <3>2. e \in Seq(Records) /\ Len(e) = 0
        OBVIOUS
      <3>3. s \in SeqState /\ ~s.asserted /\ s.executed = 0
        BY <1>2 DEF Idle, Sound
      <3> HIDE DEF e
      <3>4. /\ u \in SeqState /\ u.runMode = s.runMode /\ ~u.asserted /\ u.executed = 0
            /\ u.block = s.block /\ u.join = s.join /\ u.owner = s.owner
            /\ u.records = e /\ u.next = 1
        BY <3>2, <3>3 DEF SeqState
      <3> HIDE DEF u
      <3>5. Sound(u)
        BY <3>2, <3>4 DEF Sound, NoGarbage
      <3>6. Waiting(s) \subseteq Waiting(u)
        BY <3>4 DEF Waiting
      <3> QED
        BY <1>0, <1>2, <3>1, <3>4, <3>5, <3>6, AnsweredStopped
    <2> QED
      BY <2>1, <2>2
  <1> QED
    BY <1>1, <1>2

(* A handler that takes the first step of a run from u, and answers n      *)
(* unless it fails or keeps n waiting.                                     *)
LEMMA BegunHandles ==
    ASSUME NEW s, NEW u, NEW cmd, NEW n \in Nat, NEW due \in BOOLEAN, NEW t,
           Idle(s), Sound(u), u.runMode = "RUNNING", ~u.asserted, u.out = <<>>,
           t = performCmd_Step(u, due) \/ t = cmdResponse(performCmd_Step(u, due), n, "OK"),
           ~t.asserted => n \in Settled(t),
           Displaces(cmd) \/ Waiting(s) \subseteq Waiting(u),
           \A a \in Nat, f \in Nat, c \in BOOLEAN :
              (c => Turn(s, f, a)) /\ CleanIn(s, a, f, c, cmd) =>
                 /\ a = 0 /\ ~u.cmdTimer /\ u.next <= Len(u.records)
                 /\ u.next - FirstIn(s, f, cmd) = u.executed /\ FirstIn(s, f, cmd) \in Nat
    PROVE  Handles(t, s, cmd, n)
  <1> DEFINE v == performCmd_Step(u, due)
  <1>0. "OK" \in Responses
    BY DEF Responses
  <1>1. Answered(u) = {} /\ Sent(u) = 0
    BY IdleFacts DEF Idle
  <1>2. /\ Sound(v)
        /\ ~v.asserted => Settled(u) \subseteq Settled(v)
        /\ v.asserted => v.valid = u.valid /\ Fails(u)
        /\ \A f \in Nat : u.next - f = u.executed /\ ~u.cmdTimer /\ ~v.asserted
              => Turn(v, f, Sent(v) - Sent(u))
    BY StepSound
  <1>3. Sent(v) \in Nat
    BY <1>2, SentFacts DEF Sound
  <1>4. t = v \/ t = cmdResponse(v, n, "OK")
    OBVIOUS
  <1> HIDE DEF v
  <1>5. /\ Sound(t) /\ Settled(v) \subseteq Settled(t) /\ Sent(t) = Sent(v)
        /\ t.asserted = v.asserted /\ t.valid = v.valid
        /\ \A f, a : Turn(v, f, a) => Turn(t, f, a)
    <2>1. CASE t = v
      BY <1>2, <2>1
    <2>2. CASE t = cmdResponse(v, n, "OK")
      <3>1. /\ Sound(t) /\ Same(t, v) /\ Sent(t) = Sent(v) /\ Settled(t) = Settled(v) \cup {n}
            /\ \A f, a : Turn(v, f, a) => Turn(t, f, a)
        BY <1>0, <1>2, <2>2, AnsweredSound
      <3>2. t.asserted = v.asserted /\ t.valid = v.valid
        BY <3>1 DEF Same
      <3> QED
        BY <3>1, <3>2
    <2> QED
      BY <1>4, <2>1, <2>2
  <1>6. ~t.asserted => Displaces(cmd) \/ Waiting(s) \subseteq Settled(t)
    BY <1>2, <1>5 DEF Settled
  <1>7. ASSUME NEW a \in Nat, NEW f \in Nat, NEW c \in BOOLEAN,
               c => Turn(s, f, a), CleanIn(s, a, f, c, cmd)
        PROVE  Orderly(t, FirstIn(s, f, cmd), a + Sent(t))
    <2>1. /\ a = 0 /\ ~u.cmdTimer /\ u.next <= Len(u.records)
          /\ u.next - FirstIn(s, f, cmd) = u.executed /\ FirstIn(s, f, cmd) \in Nat
      BY <1>7
    <2>2. a + Sent(t) = Sent(v) - Sent(u)
      BY <1>1, <1>3, <1>5, <2>1
    <2>3. CASE ~t.asserted
      BY <1>2, <1>5, <2>1, <2>2, <2>3 DEF Orderly
    <2>4. CASE t.asserted
      <3>1. Fails(u) /\ v.valid = u.valid
        BY <1>2, <1>5, <2>4
      <3>2. u.next \in Nat /\ Len(u.records) \in Nat /\ 1 <= u.next /\ (u.valid => NoGarbage(u.records))
        BY DEF Sound, SeqState
      <3>3. ~u.valid
        BY <2>1, <3>1, <3>2 DEF Fails, NoGarbage
      <3> QED
        BY <1>5, <2>4, <3>1, <3>3 DEF Orderly
    <2> QED
      BY <2>3, <2>4
  <1> QED
    BY <1>5, <1>6, <1>7 DEF Handles

(* CS_START.                                                               *)
LEMMA StartHandles ==
    ASSUME NEW s, NEW cmd, NEW n \in Nat, NEW due \in BOOLEAN, Idle(s), cmd.op = "CS_START"
    PROVE  Handles(CS_START(s, n, due), s, cmd, n)
  <1>0. "OK" \in Responses /\ "EXECUTION_ERROR" \in Responses /\ Displaces(cmd)
    BY DEF Responses, Displaces
  <1>1. CASE s.runMode # "STOPPED"
    <2>1. CS_START(s, n, due) = cmdResponse(s, n, "EXECUTION_ERROR")
      BY <1>1 DEF CS_START, requireRunMode, Refused
    <2>2. ~StartsIn(s, cmd)
      BY <1>1 DEF StartsIn
    <2> QED
      BY <1>0, <2>1, <2>2, RefusedHandles
  <1>2. CASE s.runMode = "STOPPED" /\ ~hasMoreRecords(s)
    <2>1. CS_START(s, n, due) = cmdResponse(s, n, "EXECUTION_ERROR")
      BY <1>2 DEF CS_START, Refused
    <2> QED
      BY <1>0, <1>2, <2>1, AnsweredStopped DEF Idle
  <1>3. CASE s.runMode = "STOPPED" /\ hasMoreRecords(s)
    <2> DEFINE u == [s EXCEPT !.block = FALSE, !.runMode = "RUNNING"]
               v == performCmd_Step(u, due)
               t == CS_START(s, n, due)
    <2>1. t = IF v.asserted THEN v ELSE cmdResponse(v, n, "OK")
      BY <1>3 DEF CS_START, requireRunMode
    <2>2. /\ u \in SeqState /\ u.out = <<>> /\ ~u.asserted /\ u.runMode = "RUNNING"
          /\ u.records = s.records /\ u.next = s.next /\ u.valid = s.valid
          /\ u.executed = 0 /\ u.cmdTimer = s.cmdTimer
      BY <1>3 DEF SeqState, Idle, Sound
    <2> HIDE DEF u
    <2>3. Sound(u)
      BY <2>2 DEF Sound, Idle
    <2>4. Sound(v)
      BY <2>2, <2>3, StepSound
    <2> HIDE DEF t, v
    <2>5. ~t.asserted => n \in Settled(t)
      BY <1>0, <2>1, <2>4, AnsweredSound
    <2>6. ASSUME NEW a \in Nat, NEW f \in Nat, NEW c \in BOOLEAN, CleanIn(s, a, f, c, cmd)
          PROVE  /\ a = 0 /\ ~u.cmdTimer /\ u.next <= Len(u.records)
                 /\ u.next - FirstIn(s, f, cmd) = u.executed /\ FirstIn(s, f, cmd) \in Nat
      <3>1. StartsIn(s, cmd) /\ FirstIn(s, f, cmd) = s.next
        BY <1>3 DEF StartsIn, FirstIn
      <3>2. a = 0 /\ ~s.cmdTimer
        BY <2>6, <3>1 DEF CleanIn
      <3>3. s.next \in Nat /\ s.next <= Len(s.records)
        BY <1>3 DEF Idle, Sound, SeqState, hasMoreRecords
      <3> QED
        BY <2>2, <3>1, <3>2, <3>3
    <2>7. t = performCmd_Step(u, due) \/ t = cmdResponse(performCmd_Step(u, due), n, "OK")
      BY <2>1 DEF v
    <2>8. Handles(t, s, cmd, n)
      BY <1>0, <2>2, <2>3, <2>5, <2>6, <2>7, BegunHandles
    <2> QED
      BY <2>8 DEF t
  <1> QED
    BY <1>1, <1>2, <1>3

(* CS_STEP.                                                                *)
LEMMA StepHandles ==
    ASSUME NEW s, NEW cmd, NEW n \in Nat, NEW due \in BOOLEAN, Idle(s), cmd.op = "CS_STEP"
    PROVE  Handles(CS_STEP(s, n, due), s, cmd, n)
  <1>0. "OK" \in Responses /\ "EXECUTION_ERROR" \in Responses /\ ~StartsIn(s, cmd)
    BY DEF Responses, StartsIn
  <1>1. CASE s.runMode # "RUNNING"
    <2>1. CS_STEP(s, n, due) = cmdResponse(s, n, "EXECUTION_ERROR")
      BY <1>1 DEF CS_STEP, requireRunMode, Refused
    <2> QED
      BY <1>0, <2>1, RefusedHandles
  <1>2. CASE s.runMode = "RUNNING"
    <2> DEFINE v == performCmd_Step(s, due)
               t == CS_STEP(s, n, due)
    <2>1. t = IF v.asserted THEN v ELSE cmdResponse(v, n, "OK")
      BY <1>2 DEF CS_STEP, requireRunMode
    <2>2. Sound(s) /\ s.out = <<>> /\ ~s.asserted
      BY DEF Idle
    <2>3. Sound(v)
      BY <1>2, <2>2, StepSound
    <2> HIDE DEF t, v
    <2>4. ~t.asserted => n \in Settled(t)
      BY <1>0, <2>1, <2>3, AnsweredSound
    <2>5. ASSUME NEW a \in Nat, NEW f \in Nat, NEW c \in BOOLEAN, c => Turn(s, f, a),
                 CleanIn(s, a, f, c, cmd)
          PROVE  /\ a = 0 /\ ~s.cmdTimer /\ s.next <= Len(s.records)
                 /\ s.next - FirstIn(s, f, cmd) = s.executed /\ FirstIn(s, f, cmd) \in Nat
      <3>1. FirstIn(s, f, cmd) = f /\ c /\ s.next - f = s.executed
        BY <1>0, <2>5 DEF FirstIn, CleanIn
      <3>2. s.next \in Nat /\ s.executed \in Nat /\ s.cmdTimer \in BOOLEAN
        BY <2>2 DEF Sound, SeqState
      <3>3. s.next - f - s.executed = 0
        BY <3>1, <3>2
      <3>4. a + (IF s.cmdTimer THEN 1 ELSE 0) <= 0 /\ s.next <= Len(s.records)
        BY <1>2, <2>5, <3>1, <3>3 DEF Turn
      <3>5. a = 0 /\ ~s.cmdTimer
        BY <3>2, <3>4
      <3> QED
        BY <3>1, <3>4, <3>5
    <2>6. t = performCmd_Step(s, due) \/ t = cmdResponse(performCmd_Step(s, due), n, "OK")
      BY <2>1 DEF v
    <2>7. Handles(t, s, cmd, n)
      BY <1>2, <2>2, <2>4, <2>5, <2>6, BegunHandles
    <2> QED
      BY <2>7 DEF t
  <1> QED
    BY <1>1, <1>2

(* CS_RUN.                                                                 *)
LEMMA RunHandles ==
    ASSUME NEW s, NEW cmd, NEW n \in Nat, NEW due \in BOOLEAN, Idle(s),
           cmd.op = "CS_RUN", IsFile(cmd.file), cmd.block \in BOOLEAN
    PROVE  Handles(CS_RUN(s, n, cmd.file, cmd.block, due), s, cmd, n)
  <1> DEFINE file == cmd.file
             block == cmd.block
             recorded == [s EXCEPT !.block = block, !.owner = n]
             kept == loadFile(recorded, file)
             loaded == [kept EXCEPT !.executed = 0]
             u == [loaded EXCEPT !.runMode = "RUNNING"]
             v == performCmd_Step(u, due)
             begun == IF s.stepMode = "AUTO" THEN v ELSE loaded
             t == CS_RUN(s, n, file, block, due)
  <1>0. "OK" \in Responses /\ "EXECUTION_ERROR" \in Responses /\ Displaces(cmd) /\ Sound(s)
    BY DEF Responses, Displaces, Idle
  <1>1. CASE s.runMode # "STOPPED"
    <2>1. t = cmdResponse(s, n, "EXECUTION_ERROR")
      BY <1>1 DEF CS_RUN, requireRunMode, Refused
    <2>2. ~StartsIn(s, cmd)
      BY <1>1 DEF StartsIn
    <2> QED
      BY <1>0, <2>1, <2>2, RefusedHandles
  <1>2. CASE s.runMode = "STOPPED"
    <2>1. t = IF ~(file.found /\ file.accepted) THEN cmdResponse(kept, n, "EXECUTION_ERROR")
              ELSE IF begun.block \/ begun.asserted THEN begun
              ELSE cmdResponse(begun, n, "OK")
      BY <1>2 DEF CS_RUN, requireRunMode, Refused
    <2>2. /\ recorded \in SeqState /\ recorded.out = <<>> /\ ~recorded.asserted
          /\ recorded.runMode = "STOPPED" /\ recorded.stepMode = s.stepMode
          /\ recorded.records = s.records /\ recorded.next = s.next /\ recorded.valid = s.valid
          /\ recorded.executed = s.executed /\ recorded.cmdTimer = s.cmdTimer
          /\ recorded.block = block /\ recorded.owner = n
      BY <1>2 DEF SeqState, Idle, Sound
    <2> HIDE DEF recorded
    <2>3. Sound(recorded)
      BY <1>0, <1>2, <2>2 DEF Sound
    <2>4. /\ Sound(kept) /\ kept.out = <<>> /\ ~kept.asserted
          /\ kept.runMode = "STOPPED" /\ kept.stepMode = s.stepMode
          /\ kept.cmdTimer = s.cmdTimer /\ kept.block = block /\ kept.owner = n
          /\ file.found => kept.records = file.records /\ kept.next = file.next
      BY <2>2, <2>3, LoadFacts
    <2> HIDE DEF kept, t
    <2>5. CASE ~(file.found /\ file.accepted)
      <3>1. t = cmdResponse(kept, n, "EXECUTION_ERROR")
        BY <2>1, <2>5
      <3>2. Handles(t, s, cmd, n)
        BY <1>0, <2>4, <3>1, AnsweredStopped
      <3> QED
        BY <3>2 DEF t
    <2>6. CASE file.found /\ file.accepted
      <3>1. t = IF begun.block \/ begun.asserted THEN begun ELSE cmdResponse(begun, n, "OK")
        BY <2>1, <2>6
      <3>2. /\ loaded \in SeqState /\ loaded.out = <<>> /\ ~loaded.asserted
            /\ loaded.runMode = "STOPPED" /\ loaded.executed = 0
            /\ loaded.records = file.records /\ loaded.next = file.next /\ loaded.valid = kept.valid
            /\ loaded.cmdTimer = s.cmdTimer /\ loaded.block = block /\ loaded.owner = n
        BY <2>4, <2>6 DEF Sound, SeqState
      <3>3. Sound(loaded)
        BY <2>4, <2>6, <3>2 DEF Sound
      <3> HIDE DEF loaded
      <3>4. CASE s.stepMode # "AUTO"
        <4>1. t = IF loaded.block THEN loaded ELSE cmdResponse(loaded, n, "OK")
          BY <3>1, <3>2, <3>4
        <4>2. CASE loaded.block
          <5>1. n \in Settled(loaded)
            BY <3>2, <4>2 DEF Settled, Waiting
          <5>2. Handles(t, s, cmd, n)
            BY <1>0, <3>2, <3>3, <4>1, <4>2, <5>1, StoppedHandles
          <5> QED
            BY <5>2 DEF t
        <4>3. CASE ~loaded.block
          <5>1. Handles(t, s, cmd, n)
            BY <1>0, <3>2, <3>3, <4>1, <4>3, AnsweredStopped
          <5> QED
            BY <5>1 DEF t
        <4> QED
          BY <4>2, <4>3
      <3>5. CASE s.stepMode = "AUTO"
        <4>1. t = IF v.block \/ v.asserted THEN v ELSE cmdResponse(v, n, "OK")
          BY <3>1, <3>5
        <4>2. /\ u \in SeqState /\ u.out = <<>> /\ ~u.asserted /\ u.runMode = "RUNNING"
              /\ u.executed = 0 /\ u.records = file.records /\ u.next = file.next
              /\ u.valid = loaded.valid /\ u.cmdTimer = s.cmdTimer /\ u.block = block /\ u.owner = n
          BY <3>2 DEF SeqState
        <4> HIDE DEF u
        <4>3. Sound(u)
          BY <3>2, <3>3, <4>2 DEF Sound
        <4>4. Sound(v) /\ v.owner = u.owner
          BY <4>2, <4>3, StepSound
        <4> HIDE DEF v
        <4>5. ~t.asserted => n \in Settled(t)
          <5>1. CASE v.block \/ v.asserted
            BY <4>1, <4>2, <4>4, <5>1 DEF Settled, Waiting
          <5>2. CASE ~(v.block \/ v.asserted)
            BY <1>0, <4>1, <4>4, <5>2, AnsweredSound
          <5> QED
            BY <5>1, <5>2
        <4>6. ASSUME NEW a \in Nat, NEW f \in Nat, NEW c \in BOOLEAN, CleanIn(s, a, f, c, cmd)
              PROVE  /\ a = 0 /\ ~u.cmdTimer /\ u.next <= Len(u.records)
                     /\ u.next - FirstIn(s, f, cmd) = u.executed /\ FirstIn(s, f, cmd) \in Nat
          <5>1. StartsIn(s, cmd) /\ FirstIn(s, f, cmd) = file.next
            BY <1>2 DEF StartsIn, FirstIn
          <5>2. a = 0 /\ ~s.cmdTimer
            BY <4>6, <5>1 DEF CleanIn
          <5>3. file.next = 1 /\ file.records \in Seq(Records) /\ file.records # <<>>
            BY <2>6 DEF IsFile
          <5>4. 1 <= Len(file.records)
            BY <5>3
          <5> QED
            BY <4>2, <5>1, <5>2, <5>3, <5>4
        <4>7. t = performCmd_Step(u, due) \/ t = cmdResponse(performCmd_Step(u, due), n, "OK")
          BY <4>1 DEF v
        <4>8. Handles(t, s, cmd, n)
          BY <1>0, <4>2, <4>3, <4>5, <4>6, <4>7, BegunHandles
        <4> QED
          BY <4>8 DEF t
      <3> QED
        BY <3>4, <3>5
    <2> QED
      BY <2>5, <2>6
  <1> QED
    BY <1>1, <1>2

(* Every command the sequencer takes.                                      *)
LEMMA CommandHandles ==
    ASSUME NEW s, NEW cmd \in Cmds, NEW n \in Nat, NEW due \in BOOLEAN, Idle(s),
           SequencerCommand(cmd)
    PROVE  Handles(cmdIn(s, cmd, n, due), s, cmd, n)
  <1>0. \A f \in Files : IsFile(f)
    BY FilesAssumption DEF Files
  <1>1. CASE cmd.op = "CS_RUN"
    <2>1. cmd.file \in Files /\ cmd.block \in BOOLEAN
      BY <1>1 DEF Cmds, Ops, Records, NoCommand, Opcodes, SeqOps
    <2>2. cmdIn(s, cmd, n, due) = CS_RUN(s, n, cmd.file, cmd.block, due)
      BY <1>1 DEF cmdIn
    <2> QED
      BY <1>0, <1>1, <2>1, <2>2, RunHandles
  <1>2. CASE cmd.op = "CS_VALIDATE"
    <2>1. cmd.file \in Files
      BY <1>2 DEF Cmds, Ops, Records, NoCommand, Opcodes, SeqOps
    <2>2. cmdIn(s, cmd, n, due) = CS_VALIDATE(s, n, cmd.file)
      BY <1>2 DEF cmdIn
    <2> QED
      BY <1>0, <1>2, <2>1, <2>2, ValidateHandles
  <1>3. CASE cmd.op = "CS_CANCEL"
    <2>1. cmdIn(s, cmd, n, due) = CS_CANCEL(s, n)
      BY <1>3 DEF cmdIn
    <2> QED
      BY <1>3, <2>1, CancelHandles
  <1>4. CASE cmd.op = "CS_JOIN_WAIT"
    <2>1. cmdIn(s, cmd, n, due) = CS_JOIN_WAIT(s, n)
      BY <1>4 DEF cmdIn
    <2> QED
      BY <1>4, <2>1, JoinHandles
  <1>5. CASE cmd.op = "CS_START"
    <2>1. cmdIn(s, cmd, n, due) = CS_START(s, n, due)
      BY <1>5 DEF cmdIn
    <2> QED
      BY <1>5, <2>1, StartHandles
  <1>6. CASE cmd.op = "CS_STEP"
    <2>1. cmdIn(s, cmd, n, due) = CS_STEP(s, n, due)
      BY <1>6 DEF cmdIn
    <2> QED
      BY <1>6, <2>1, StepHandles
  <1>7. CASE cmd.op = "CS_AUTO"
    <2>1. cmdIn(s, cmd, n, due) = switchMode(s, n, "AUTO")
      BY <1>7 DEF cmdIn
    <2> QED
      BY <1>7, <2>1, SwitchHandles DEF StartsIn
  <1>8. CASE cmd.op = "CS_MANUAL"
    <2>1. cmdIn(s, cmd, n, due) = switchMode(s, n, "MANUAL")
      BY <1>8 DEF cmdIn
    <2> QED
      BY <1>8, <2>1, SwitchHandles DEF StartsIn
  <1> QED
    BY <1>1, <1>2, <1>3, <1>4, <1>5, <1>6, <1>7, <1>8 DEF SequencerCommand, SeqOps

(* What a handler that is not a command ensures, when a statuses are       *)
(* awaited afterwards without what it sends.                               *)
Continues(t, s) ==
    /\ Sound(t)
    /\ ~t.asserted => Waiting(s) \subseteq Settled(t)

(* cmdResponseIn: the status that is credited was awaited.                 *)
LEMMA ResponseHandles ==
    ASSUME NEW s, NEW r \in Responses, NEW due \in BOOLEAN, Idle(s)
    PROVE  LET t == cmdResponseIn(s, r, due) IN
           /\ Continues(t, s)
           /\ \A a \in Nat, f \in Nat : Turn(s, f, a) /\ a > 0 => Orderly(t, f, a - 1 + Sent(t))
  <1> DEFINE answered == [s EXCEPT !.timeoutTimer = FALSE]
             credited == [answered EXCEPT !.executed = s.executed + 1]
             t == cmdResponseIn(s, r, due)
  <1>0. /\ s \in SeqState /\ Sound(s) /\ ~s.asserted /\ Answered(s) = {} /\ Sent(s) = 0
        /\ s.out = <<>>
    BY IdleFacts DEF Idle
  <1>1. t = IF s.runMode = "STOPPED" THEN s
            ELSE IF r # "OK" THEN performCmd_Cancel(answered)
            ELSE IF ~hasMoreRecords(credited) THEN sequenceComplete(credited)
            ELSE IF s.stepMode = "AUTO" THEN performCmd_Step(credited, due)
            ELSE credited
    BY <1>0 DEF cmdResponseIn, SeqState
  <1>2. answered \in SeqState /\ Same(answered, s) /\ answered.out = <<>>
    BY <1>0 DEF SeqState, Same
  <1>3. /\ credited \in SeqState /\ Same(credited, [s EXCEPT !.executed = s.executed + 1])
        /\ credited.out = <<>>
    <2> DEFINE e == s.executed + 1
    <2>1. e \in Nat
      BY <1>0 DEF SeqState
    <2> HIDE DEF e, answered
    <2> SUFFICES /\ [answered EXCEPT !.executed = e] \in SeqState
                 /\ Same([answered EXCEPT !.executed = e], [s EXCEPT !.executed = e])
                 /\ [answered EXCEPT !.executed = e].out = <<>>
      BY DEF e
    <2> QED
      BY <1>0, <1>2, <2>1 DEF SeqState, Same
  <1> HIDE DEF answered, credited, t
  <1>4. /\ answered.asserted = FALSE /\ Waiting(answered) = Waiting(s) /\ Sound(answered)
        /\ Answered(answered) = {} /\ Sent(answered) = 0
    <2>1. Answered(answered) = Answered(s) /\ Sent(answered) = Sent(s)
      BY <1>0, <1>2, CallsOnly
    <2> QED
      BY <1>0, <1>2, <2>1 DEF Same, Sound, Waiting, SeqState
  <1>5. ASSUME s.runMode # "STOPPED"
        PROVE  /\ credited.asserted = FALSE /\ Waiting(credited) = Waiting(s)
               /\ Sound(credited) /\ Answered(credited) = {} /\ Sent(credited) = 0
               /\ credited.runMode = "RUNNING" /\ credited.executed = s.executed + 1
               /\ credited.next = s.next /\ credited.records = s.records
               /\ credited.cmdTimer = s.cmdTimer /\ credited.stepMode = s.stepMode
    <2>1. Answered(credited) = Answered(s) /\ Sent(credited) = Sent(s)
      BY <1>0, <1>3, CallsOnly
    <2>2. /\ credited.asserted = FALSE
          /\ credited.runMode = "RUNNING" /\ credited.executed = s.executed + 1
          /\ credited.next = s.next /\ credited.records = s.records /\ credited.valid = s.valid
          /\ credited.cmdTimer = s.cmdTimer /\ credited.stepMode = s.stepMode
          /\ credited.block = s.block /\ credited.join = s.join /\ credited.owner = s.owner
      BY <1>0, <1>3, <1>5 DEF Same, SeqState
    <2>3. Sound(credited)
      BY <1>0, <1>3, <2>2 DEF Sound
    <2> QED
      BY <1>0, <2>1, <2>2, <2>3 DEF Waiting
  <1>6. CASE s.runMode = "STOPPED"
    <2>1. t = s
      BY <1>1, <1>6
    <2>2. \A a, f : Turn(t, f, a)
      BY <1>6, <2>1 DEF Turn
    <2>3. Continues(t, s)
      BY <1>0, <2>1 DEF Continues, Settled
    <2> QED
      BY <1>0, <2>1, <2>2, <2>3 DEF Orderly, t
  <1>7. CASE s.runMode # "STOPPED" /\ r # "OK"
    <2>1. t = performCmd_Cancel(answered)
      BY <1>1, <1>7
    <2>2. Ended(t, answered) /\ Sound(t) /\ \A f, a : Turn(t, f, a)
      BY <1>2, <1>4, <2>1, CancelFacts, EndedSound
    <2>3. ~t.asserted /\ Waiting(s) \subseteq Settled(t)
      BY <1>4, <2>2 DEF Ended, Settled
    <2> QED
      BY <2>2, <2>3 DEF Continues, Orderly, t
  <1>8. CASE s.runMode # "STOPPED" /\ r = "OK" /\ ~hasMoreRecords(credited)
    <2>1. t = sequenceComplete(credited)
      BY <1>1, <1>8
    <2>2. Ended(t, credited) /\ Sound(t) /\ \A f, a : Turn(t, f, a)
      BY <1>3, <1>5, <1>8, <2>1, CompleteFacts, EndedSound
    <2>3. ~t.asserted /\ Waiting(s) \subseteq Settled(t)
      BY <1>5, <1>8, <2>2 DEF Ended, Settled
    <2> QED
      BY <2>2, <2>3 DEF Continues, Orderly, t
  <1>9. ASSUME s.runMode # "STOPPED", NEW a \in Nat, NEW f \in Nat, Turn(s, f, a), a > 0
        PROVE  a = 1 /\ ~s.cmdTimer /\ credited.next - f = credited.executed
    <2>1. s.next \in Nat /\ s.executed \in Nat /\ s.cmdTimer \in BOOLEAN /\ s.runMode = "RUNNING"
      BY <1>0, <1>9 DEF SeqState
    <2>2. /\ s.next - f - s.executed = 0 \/ s.next - f - s.executed = 1
          /\ a + (IF s.cmdTimer THEN 1 ELSE 0) <= s.next - f - s.executed
      BY <1>9, <2>1 DEF Turn
    <2>3. a = 1 /\ ~s.cmdTimer /\ s.next - f = s.executed + 1
      BY <1>9, <2>1, <2>2
    <2> QED
      BY <1>5, <1>9, <2>3
  <1>10. CASE s.runMode # "STOPPED" /\ r = "OK" /\ hasMoreRecords(credited) /\ s.stepMode = "AUTO"
    <2>1. t = performCmd_Step(credited, due)
      BY <1>1, <1>10
    <2>2. /\ Sound(t)
          /\ ~t.asserted => Settled(credited) \subseteq Settled(t)
          /\ t.asserted => t.valid = credited.valid /\ Fails(credited)
          /\ \A f \in Nat : credited.next - f = credited.executed /\ ~credited.cmdTimer /\ ~t.asserted
                => Turn(t, f, Sent(t) - Sent(credited))
      BY <1>5, <1>10, <2>1, StepSound
    <2>3. Continues(t, s)
      BY <1>5, <1>10, <2>2 DEF Continues, Settled
    <2>4. ASSUME NEW a \in Nat, NEW f \in Nat, Turn(s, f, a), a > 0
          PROVE  Orderly(t, f, a - 1 + Sent(t))
      <3>1. a = 1 /\ ~credited.cmdTimer /\ credited.next - f = credited.executed
        BY <1>5, <1>9, <1>10, <2>4
      <3>2. CASE ~t.asserted
        <4>1. Sent(t) \in Nat
          BY <2>2, SentFacts DEF Sound
        <4>2. Sent(credited) = 0
          BY <1>5, <1>10
        <4>3. a - 1 + Sent(t) = Sent(t) - Sent(credited)
          BY <3>1, <4>1, <4>2
        <4> QED
          BY <2>2, <3>1, <3>2, <4>3 DEF Orderly
      <3>3. CASE t.asserted
        <4>1. Fails(credited) /\ t.valid = credited.valid
          BY <2>2, <3>3
        <4>2. /\ credited.next \in Nat /\ Len(credited.records) \in Nat /\ 1 <= credited.next
              /\ credited.valid => NoGarbage(credited.records)
              /\ credited.next <= Len(credited.records)
          <5>1. Sound(credited)
            BY <1>5, <1>10
          <5>2. credited.next <= Len(credited.records)
            BY <1>10 DEF hasMoreRecords
          <5> QED
            BY <5>1, <5>2 DEF Sound, SeqState
        <4>3. ~credited.valid
          BY <4>1, <4>2 DEF Fails, NoGarbage
        <4> QED
          BY <3>3, <4>1, <4>3 DEF Orderly
      <3> QED
        BY <3>2, <3>3
    <2> QED
      BY <2>3, <2>4 DEF t
  <1>11. CASE s.runMode # "STOPPED" /\ r = "OK" /\ hasMoreRecords(credited) /\ s.stepMode # "AUTO"
    <2>1. t = credited
      BY <1>1, <1>11
    <2>2. Continues(t, s)
      BY <1>5, <1>11, <2>1 DEF Continues, Settled
    <2>3. ASSUME NEW a \in Nat, NEW f \in Nat, Turn(s, f, a), a > 0
          PROVE  Orderly(t, f, a - 1 + Sent(t))
      <3>1. a = 1 /\ ~credited.cmdTimer /\ credited.next - f = credited.executed
        BY <1>5, <1>9, <1>11, <2>3
      <3>2. a - 1 + Sent(t) = 0 /\ ~t.asserted
        <4>1. Sent(credited) = 0 /\ credited.asserted = FALSE
          BY <1>5, <1>11
        <4> QED
          BY <2>1, <3>1, <4>1
      <3>3. credited.next \in Nat /\ credited.executed \in Nat /\ credited.next <= Len(credited.records)
        BY <1>3, <1>11 DEF SeqState, hasMoreRecords
      <3>4. credited.next - f - credited.executed = 0
        BY <3>1, <3>3
      <3>5. credited.stepMode # "AUTO"
        BY <1>5, <1>11
      <3>6. Turn(credited, f, 0)
        BY <3>1, <3>3, <3>4, <3>5 DEF Turn
      <3> QED
        BY <2>1, <3>2, <3>6 DEF Orderly
    <2> QED
      BY <2>2, <2>3 DEF t
  <1> QED
    BY <1>6, <1>7, <1>8, <1>10, <1>11

(* schedIn when the time of a command has come.                            *)
LEMMA DueHandles ==
    ASSUME NEW s, Idle(s), s.cmdTimer
    PROVE  LET t == schedInDue(s) IN
           /\ Continues(t, s)
           /\ \A a \in Nat, f \in Nat : Turn(s, f, a) => Orderly(t, f, a + Sent(t))
  <1> DEFINE c == comCmdOut(s)
             u == [c EXCEPT !.cmdTimer = FALSE]
             t == setCmdTimeout(u)
  <1>0. s \in SeqState /\ Sound(s) /\ ~s.asserted /\ Answered(s) = {} /\ Sent(s) = 0
    BY IdleFacts DEF Idle
  <1>1. c \in SeqState /\ Same(c, s) /\ Sent(c) = 1
    <2>1. c \in SeqState /\ Same(c, s) /\ Sent(c) = Sent(s) + 1
      BY <1>0, CommandFacts
    <2> HIDE DEF c
    <2> QED
      BY <1>0, <2>1
  <1> HIDE DEF c
  <1>2. u \in SeqState /\ Same(u, [s EXCEPT !.cmdTimer = FALSE]) /\ u.out = c.out
    BY <1>0, <1>1 DEF SeqState, Same
  <1>3. Sent(u) = 1
    BY <1>1, <1>2, CallsOnly
  <1> HIDE DEF u
  <1>4. t \in SeqState /\ Same(t, u) /\ Sent(t) = 1
    BY <1>2, <1>3, TimeoutFacts
  <1>5. schedInDue(s) = t
    BY DEF schedInDue, t, u, c
  <1> HIDE DEF t
  <1>6. /\ t.runMode = s.runMode /\ t.stepMode = s.stepMode /\ t.records = s.records
        /\ t.next = s.next /\ t.valid = s.valid /\ t.executed = s.executed
        /\ t.cmdTimer = FALSE /\ t.asserted = s.asserted
        /\ t.block = s.block /\ t.join = s.join /\ t.owner = s.owner
    BY <1>0, <1>2, <1>4 DEF Same, SeqState
  <1>7. Sound(t)
    BY <1>0, <1>4, <1>6 DEF Sound
  <1>8. Continues(t, s)
    BY <1>6, <1>7 DEF Continues, Settled, Waiting
  <1>9. ASSUME NEW a \in Nat, NEW f \in Nat, Turn(s, f, a)
        PROVE  Orderly(t, f, a + Sent(t))
    <2>1. ASSUME s.runMode = "RUNNING" 
          PROVE  LET ahead == s.next - f - s.executed
                 IN  /\ ahead = 0 \/ ahead = 1
                     /\ s.stepMode = "AUTO" => ahead = 1
                     /\ a + 1 <= ahead
                     /\ ahead = 0 => s.next <= Len(s.records)
      BY <1>9, <2>1 DEF Turn
    <2>2. Turn(t, f, a + 1)
      BY <1>6, <2>1 DEF Turn
    <2> QED
      BY <1>0, <1>4, <1>6, <2>2 DEF Orderly
  <1> QED
    BY <1>5, <1>8, <1>9

(* schedIn when the command timeout has expired.                           *)
LEMMA ExpiredHandles ==
    ASSUME NEW s, Idle(s)
    PROVE  LET t == schedInTimeout(s) IN
           /\ Continues(t, s)
           /\ \A a \in Nat, f \in Nat : Turn(s, f, a) => Orderly(t, f, a + Sent(t))
  <1> DEFINE t == schedInTimeout(s)
  <1>0. s \in SeqState /\ Sound(s) /\ ~s.asserted
    BY IdleFacts DEF Idle
  <1>1. Ended(t, s) /\ Sound(t) /\ \A f, a : Turn(t, f, a)
    BY <1>0, CancelFacts, EndedSound DEF schedInTimeout
  <1> HIDE DEF t
  <1>2. ~t.asserted /\ Waiting(s) \subseteq Settled(t)
    BY <1>0, <1>1 DEF Ended, Settled
  <1> QED
    BY <1>1, <1>2 DEF Continues, Orderly, t

(* Awaiting less does not put a run out of turn.                           *)
LEMMA TurnMonotone ==
    ASSUME NEW s \in SeqState, NEW f \in Nat, NEW a \in Nat, NEW b \in Nat, b <= a, Orderly(s, f, a)
    PROVE  Orderly(s, f, b)
  <1>1. CASE s.asserted
    BY <1>1 DEF Orderly
  <1>2. CASE ~s.asserted
    <2>1. Turn(s, f, a) /\ s.next \in Nat /\ s.executed \in Nat
      BY <1>2 DEF Orderly, SeqState
    <2>2. Turn(s, f, b)
      BY <2>1 DEF Turn
    <2> QED
      BY <1>2, <2>2 DEF Orderly
  <1> QED
    BY <1>1, <1>2

(***************************************************************************)
(* The inductive invariant.                                                *)
(***************************************************************************)

(* What the sequencer's queue holds once the dispatcher has given the      *)
(* numbers below n.                                                        *)
SeqCmds  == {cmd \in Cmds : SequencerCommand(cmd)}
Inbox(n) == Answers \cup [kind : {"cmd"}, cmd : SeqCmds, seq : 1..n - 1]

Entries   == [used : {TRUE}, seq : Nat, port : Ports]
Tables    == [1..Slots -> {NoEntry} \cup Entries]
DispState ==
    [seq : Nat \ {0}, tracker : Tables, status : Seq([port : Ports, response : Responses]),
     send : Seq([cmd : Cmds, seq : Nat])]
Holding(t, p) == {i \in 1..Slots : t[i].used /\ t[i].port = p}

(* The typing that the rest rests on.                                      *)
StateOK ==
    /\ Sound(seqr) /\ seqr.out = <<>>
    /\ disp \in DispState /\ disp.status = <<>> /\ disp.send = <<>>
    /\ seqQueue \in Seq(Inbox(disp.seq)) /\ dispQueue \in Seq(DispMsgs)
    /\ working \subseteq 1..disp.seq - 1 /\ owed \subseteq 1..disp.seq - 1
    /\ campaign \in Campaigns /\ drops \in Nat
    /\ awaited \in [Ports -> Nat] /\ first \in Nat /\ clean \in BOOLEAN

(* Every status a port awaits is somewhere.                                *)
Conserved ==
    /\ awaited["router"] = Count(dispQueue, Buffers("router"))
                             + Cardinality(Holding(disp.tracker, "router"))
    /\ awaited["cmdSeq"] = Count(dispQueue, Buffers("cmdSeq"))
                             + Cardinality(Holding(disp.tracker, "cmdSeq"))
                             + Count(seqQueue, Answers)

(* Who is owed an answer waits for it or was displaced.                    *)
OwedInv == ~seqr.asserted => owed \subseteq displaced \cup Waiting(seqr)

(* A run that began in turn and was stepped in turn is in turn.            *)
TurnInv == clean => Orderly(seqr, first, awaited["cmdSeq"])

Inv == StateOK /\ Conserved /\ OwedInv /\ TurnInv

(* What the model counts in a queue is what Count counts.                  *)
LEMMA QueuedFacts ==
    ASSUME NEW q \in Seq(DispMsgs), NEW p \in Ports
    PROVE  {i \in 1..Len(q) : IsCommand(q[i]) /\ q[i].port = p} = Places(q, Buffers(p))
  <1>1. ASSUME NEW i \in 1..Len(q) PROVE (IsCommand(q[i]) /\ q[i].port = p) <=> q[i] \in Buffers(p)
    <2>1. q[i] \in DispMsgs
      OBVIOUS
    <2> QED
      BY <2>1 DEF DispMsgs, OutMsgs, Statuses, Buffers, IsCommand, Ports
  <1> QED
    BY <1>1 DEF Places

(* The same for the answers in the sequencer's queue.                      *)
LEMMA ReturningFacts ==
    ASSUME NEW n \in Nat, NEW q \in Seq(Inbox(n))
    PROVE  {i \in 1..Len(q) : q[i].kind = "response"} = Places(q, Answers)
  <1>1. ASSUME NEW i \in 1..Len(q) PROVE q[i].kind = "response" <=> q[i] \in Answers
    <2>1. q[i] \in Inbox(n)
      OBVIOUS
    <2> QED
      BY <2>1 DEF Inbox, Answers
  <1> QED
    BY <1>1 DEF Places

(* Numbers given out stay given out.                                       *)
LEMMA InboxGrows ==
    ASSUME NEW n \in Nat, NEW k \in Nat, n <= k, NEW q \in Seq(Inbox(n))
    PROVE  q \in Seq(Inbox(k))
  <1>1. Inbox(n) \subseteq Inbox(k)
    <2>1. 1..n - 1 \subseteq 1..k - 1
      OBVIOUS
    <2> QED
      BY <2>1, Zenon DEF Inbox
  <1> HIDE DEF Inbox
  <1> QED
    BY <1>1

(* The table is finite.                                                    *)
LEMMA HoldingFinite ==
    ASSUME NEW t, NEW p
    PROVE  IsFiniteSet(Holding(t, p)) /\ Cardinality(Holding(t, p)) \in Nat
  <1>1. IsFiniteSet(1..Slots)
    BY CommandingAssumption, FS_Interval
  <1>2. Holding(t, p) \subseteq 1..Slots
    BY DEF Holding
  <1>3. IsFiniteSet(Holding(t, p))
    BY <1>1, <1>2, FS_Subset, Zenon
  <1> QED
    BY <1>3, FS_CardinalityType, Zenon

(* The invariant says what the runs check.                                 *)
LEMMA Implies ==
    ASSUME Inv
    PROVE  TypeOK /\ StatusConserved /\ InTurn /\ AnswerOwed /\ RecordsLast
  <1> USE DEF Inv
  <1>1. TypeOK
    <2>1. seqr \in SeqState /\ 1 <= seqr.next /\ seqr.next <= Len(seqr.records) + 1
      BY DEF StateOK, Sound
    <2>2. seqr.runMode \in {"STOPPED", "RUNNING"} /\ seqr.next \in Nat /\ Len(seqr.records) \in Nat
      BY <2>1 DEF SeqState
    <2> QED
      BY <2>1, <2>2 DEF TypeOK, StateOK
  <1>2. StatusConserved
    <2>1. dispQueue \in Seq(DispMsgs) /\ disp.seq \in Nat /\ seqQueue \in Seq(Inbox(disp.seq))
      BY DEF StateOK, DispState
    <2>2. Queued("router") = Count(dispQueue, Buffers("router"))
      BY <2>1, QueuedFacts, Zenon DEF Queued, Count, Ports
    <2>3. Queued("cmdSeq") = Count(dispQueue, Buffers("cmdSeq"))
      BY <2>1, QueuedFacts, Zenon DEF Queued, Count, Ports
    <2>4. Returning = Count(seqQueue, Answers)
      BY <2>1, ReturningFacts, Zenon DEF Returning, Count
    <2> QED
      BY <2>2, <2>3, <2>4 DEF StatusConserved, Conserved, Tracked, Holding
  <1>3. InTurn
    <2> SUFFICES ASSUME seqr.runMode = "RUNNING", clean, Alive PROVE
             LET ahead == seqr.next - first - seqr.executed
             IN  /\ ahead \in {0, 1}
                 /\ seqr.stepMode = "AUTO" => ahead = 1
                 /\ awaited["cmdSeq"] + (IF seqr.cmdTimer THEN 1 ELSE 0) <= ahead
      BY DEF InTurn
    <2>1. Turn(seqr, first, awaited["cmdSeq"])
      BY DEF TurnInv, Orderly, Alive
    <2> QED
      BY <2>1 DEF Turn
  <1>4. AnswerOwed
    BY DEF AnswerOwed, OwedInv, Waiting, Alive
  <1>5. RecordsLast
    BY DEF RecordsLast, TurnInv, Orderly
  <1> QED
    BY <1>1, <1>2, <1>3, <1>4, <1>5

(* Nothing is awaited at first.                                            *)
LEMMA Initially ==
    Init => Inv
  <1> SUFFICES ASSUME Init PROVE Inv
    OBVIOUS
  <1>1. campaign \in Campaigns /\ campaign.timeout \in BOOLEAN
    BY CommandingAssumption DEF Init
  <1>2. Sound(seqr) /\ seqr.out = <<>>
    <2>1. seqr = Constructed(campaign.timeout)
      BY DEF Init
    <2>2. Constructed(campaign.timeout) \in SeqState
      BY <1>1 DEF Constructed, SeqState, Ops
    <2> QED
      BY <2>1, <2>2 DEF Constructed, Sound, NoGarbage
  <1>3. disp \in DispState /\ disp.status = <<>> /\ disp.send = <<>> /\ disp.seq = 1
    BY DEF Init, DispState, Tables
  <1>4. StateOK
    BY <1>1, <1>2, <1>3 DEF StateOK, Init
  <1>5. Conserved
    <2>1. Count(dispQueue, Buffers("router")) = 0 /\ Count(dispQueue, Buffers("cmdSeq")) = 0
          /\ Count(seqQueue, Answers) = 0
      <3>1. Places(<<>>, Buffers("router")) = {} /\ Places(<<>>, Buffers("cmdSeq")) = {}
            /\ Places(<<>>, Answers) = {}
        BY DEF Places
      <3> QED
        BY <3>1, FS_EmptySet DEF Init, Count
    <2>2. Holding(disp.tracker, "router") = {} /\ Holding(disp.tracker, "cmdSeq") = {}
      BY DEF Init, Holding, NoEntry
    <2>3. awaited["router"] = 0 /\ awaited["cmdSeq"] = 0
      BY DEF Init, Ports
    <2>4. Cardinality({}) = 0
      BY FS_EmptySet
    <2> QED
      BY <2>1, <2>2, <2>3, <2>4 DEF Conserved
  <1>6. OwedInv
    BY DEF OwedInv, Init
  <1>7. TurnInv
    BY DEF TurnInv, Init, Orderly, Turn, Constructed
  <1> QED
    BY <1>4, <1>5, <1>6, <1>7 DEF Inv

(***************************************************************************)
(* The steps of the sequencer.                                             *)
(***************************************************************************)

(* Emptying the list of calls changes nothing else.                        *)
LEMMA FlushedSound ==
    ASSUME NEW s, Sound(s)
    PROVE  LET t == [s EXCEPT !.out = <<>>] IN
           /\ Sound(t) /\ t.out = <<>> /\ t.asserted = s.asserted
           /\ Waiting(t) = Waiting(s)
           /\ \A f, a : Orderly(s, f, a) => Orderly(t, f, a)
  <1> DEFINE t == [s EXCEPT !.out = <<>>]
  <1>1. s \in SeqState
    BY DEF Sound
  <1>2. t \in SeqState /\ t.out = <<>> /\ Same(t, s)
    <2>1. t \in SeqState
      <3> DEFINE none == <<>>
      <3>1. none \in Seq(OutMsgs)
        OBVIOUS
      <3>2. t = [s EXCEPT !.out = none]
        OBVIOUS
      <3> HIDE DEF none, t
      <3> QED
        BY <1>1, <3>1, <3>2 DEF SeqState
    <2>2. t.out = <<>>
      BY <1>1 DEF SeqState
    <2>3. Same(t, s)
      BY <1>1 DEF SeqState, Same
    <2> QED
      BY <2>1, <2>2, <2>3
  <1> HIDE DEF t
  <1>3. Sound(t) /\ Waiting(t) = Waiting(s)
    BY <1>2 DEF Sound, Same, Waiting
  <1>4. ASSUME NEW f, NEW a, Orderly(s, f, a) PROVE Orderly(t, f, a)
    BY <1>2, <1>4 DEF Orderly, Turn, Same
  <1>5. t.asserted = s.asserted
    BY <1>2 DEF Same
  <1> QED
    BY <1>2, <1>3, <1>4, <1>5 DEF t

(* Flush: the dispatcher's queue gains the commands sent, less one that is *)
(* dropped.                                                                *)
LEMMA FlushFacts ==
    ASSUME NEW s \in SeqState, Flush(s), dispQueue \in Seq(DispMsgs), drops \in Nat
    PROVE  /\ dispQueue' \in Seq(DispMsgs) /\ drops' \in Nat
           /\ Count(dispQueue', Buffers("router")) = Count(dispQueue, Buffers("router"))
           /\ Count(dispQueue', Buffers("cmdSeq"))
                = Count(dispQueue, Buffers("cmdSeq")) + Sent(s) - (drops' - drops)
           /\ drops' - drops \in Nat /\ drops' - drops <= Sent(s)
  <1> DEFINE C == Buffers("cmdSeq")
             R == Buffers("router")
             o == s.out
  <1>1. o \in Seq(OutMsgs) /\ Sent(s) \in Nat /\ Commands(s) = Places(o, C) /\ Sent(s) = Count(o, C)
    BY SentFacts DEF SeqState, Sent
  <1>2. OutMsgs \subseteq DispMsgs /\ \A m \in OutMsgs : m \notin R
    BY DEF OutMsgs, DispMsgs, Buffers, Statuses
  <1> HIDE DEF C, R, o
  <1>3. ASSUME NEW q \in Seq(OutMsgs)
        PROVE  /\ q \in Seq(DispMsgs) /\ dispQueue \o q \in Seq(DispMsgs)
               /\ Count(dispQueue \o q, R) = Count(dispQueue, R)
               /\ Count(dispQueue \o q, C) = Count(dispQueue, C) + Count(q, C)
    <2>1. q \in Seq(DispMsgs)
      BY <1>2
    <2>2. Count(q, R) = 0
      <3>1. \A i \in 1..Len(q) : q[i] \notin R
        BY <1>2
      <3> QED
        BY <2>1, <3>1, CountNone, Zenon
    <2>3. Count(dispQueue \o q, R) = Count(dispQueue, R) + Count(q, R)
      BY <2>1, CountConcat, Zenon
    <2>4. Count(dispQueue \o q, C) = Count(dispQueue, C) + Count(q, C)
      BY <2>1, CountConcat, Zenon
    <2>5. Count(dispQueue, R) \in Nat
      BY CountType, Zenon
    <2>6. dispQueue \o q \in Seq(DispMsgs)
      BY <2>1
    <2> QED
      BY <2>1, <2>2, <2>3, <2>4, <2>5, <2>6
  <1>4. Count(dispQueue, C) \in Nat
    BY CountType, Zenon
  <1>5. CASE dispQueue' = dispQueue \o o /\ drops' = drops
    BY <1>1, <1>3, <1>4, <1>5 DEF C, R
  <1>6. CASE drops' = drops + 1 /\ \E i \in Commands(s) : dispQueue' = dispQueue \o RemoveAt(o, i)
    <2>1. PICK i \in Commands(s) : dispQueue' = dispQueue \o RemoveAt(o, i)
      BY <1>6
    <2>2. i \in 1..Len(o) /\ o[i] \in C
      BY <1>1 DEF Places
    <2>3. RemoveAt(o, i) \in Seq(OutMsgs)
          /\ Count(o, C) = Count(RemoveAt(o, i), C) + (IF o[i] \in C THEN 1 ELSE 0)
      BY <1>1, <2>2, CountRemove, Zenon
    <2>4. Count(RemoveAt(o, i), C) \in Nat
      BY <2>3, CountType, Zenon
    <2> DEFINE q == RemoveAt(o, i)
    <2> HIDE DEF q
    <2>5. /\ dispQueue \o q \in Seq(DispMsgs)
          /\ Count(dispQueue \o q, R) = Count(dispQueue, R)
          /\ Count(dispQueue \o q, C) = Count(dispQueue, C) + Count(q, C)
      BY <1>3, <2>3 DEF q
    <2>6. Count(o, C) = Count(q, C) + 1 /\ Count(q, C) \in Nat
      BY <2>2, <2>3, <2>4 DEF q
    <2>7. drops' = drops + 1
      BY <1>6
    <2>8. dispQueue' = dispQueue \o q
      BY <2>1 DEF q
    <2> QED
      BY <1>1, <1>4, <2>5, <2>6, <2>7, <2>8 DEF C, R
  <1> QED
    BY <1>5, <1>6 DEF Flush, o

(* What a handler of the sequencer that ends in s preserves, when b        *)
(* statuses are awaited before its own commands and k answers are left.    *)
LEMMA HandlerPreserves ==
    ASSUME StateOK, Conserved, NEW s, Sound(s), Flush(s), NEW b \in Nat, Awaiting(b, s),
           disp' = disp, working' = working, campaign' = campaign,
           seqQueue' \in Seq(Inbox(disp.seq)),
           owed' \subseteq 1..disp.seq - 1, first' \in Nat, clean' \in BOOLEAN,
           b = Count(dispQueue, Buffers("cmdSeq")) + Cardinality(Holding(disp.tracker, "cmdSeq"))
                 + Count(seqQueue', Answers),
           clean' => Orderly(s, first', b + Sent(s)),
           ~s.asserted => owed' \subseteq displaced' \cup Waiting(s)
    PROVE  Inv'
  <1>1. s \in SeqState /\ Sent(s) \in Nat /\ Cardinality(Commands(s)) = Sent(s)
    BY SentFacts DEF Sound
  <1>2. /\ dispQueue' \in Seq(DispMsgs) /\ drops' \in Nat
        /\ Count(dispQueue', Buffers("router")) = Count(dispQueue, Buffers("router"))
        /\ Count(dispQueue', Buffers("cmdSeq"))
             = Count(dispQueue, Buffers("cmdSeq")) + Sent(s) - (drops' - drops)
        /\ drops' - drops \in Nat /\ drops' - drops <= Sent(s)
    BY <1>1, FlushFacts, Zenon DEF StateOK
  <1>3. seqr' = [s EXCEPT !.out = <<>>]
    BY DEF Flush
  <1>4. /\ Sound(seqr') /\ seqr'.out = <<>> /\ seqr'.asserted = s.asserted
        /\ Waiting(seqr') = Waiting(s)
        /\ \A f, a : Orderly(s, f, a) => Orderly(seqr', f, a)
    BY <1>3, FlushedSound
  <1> DEFINE v == b + Sent(s) - (drops' - drops)
  <1>5. v \in Nat /\ v <= b + Sent(s) /\ b + Sent(s) \in Nat
    <2>1. ASSUME NEW x \in Nat, NEW k \in Nat, k <= x
          PROVE  b + x - k \in Nat /\ b + x - k <= b + x /\ b + x \in Nat
      BY <2>1
    <2> QED
      BY <1>1, <1>2, <2>1
  <1>6. awaited' = [awaited EXCEPT !["cmdSeq"] = v]
    BY <1>1 DEF Awaiting
  <1> HIDE DEF v
  <1>7. awaited \in [Ports -> Nat] /\ awaited' \in [Ports -> Nat]
        /\ awaited'["cmdSeq"] = v /\ awaited'["router"] = awaited["router"]
    BY <1>5, <1>6 DEF StateOK, Ports
  <1>8. StateOK'
    BY <1>2, <1>4, <1>7 DEF StateOK
  <1>9. Conserved'
    <2>1. Cardinality(Holding(disp.tracker, "cmdSeq")) = Cardinality(Holding(disp'.tracker, "cmdSeq"))
          /\ Cardinality(Holding(disp.tracker, "router")) = Cardinality(Holding(disp'.tracker, "router"))
      OBVIOUS
    <2>2. awaited'["router"] = Count(dispQueue', Buffers("router"))
                             + Cardinality(Holding(disp'.tracker, "router"))
      BY <1>2, <1>7, <2>1 DEF Conserved
    <2>3. v = Count(dispQueue, Buffers("cmdSeq")) + Cardinality(Holding(disp'.tracker, "cmdSeq"))
                 + Count(seqQueue', Answers) + Sent(s) - (drops' - drops)
      BY <2>1 DEF v
    <2>4. awaited'["cmdSeq"] = Count(dispQueue', Buffers("cmdSeq"))
                 + Cardinality(Holding(disp'.tracker, "cmdSeq")) + Count(seqQueue', Answers)
      <3>1. ASSUME NEW c \in Nat, NEW h \in Nat, NEW a \in Nat, NEW x \in Nat, NEW k \in Nat
            PROVE  c + h + a + x - k = (c + x - k) + h + a
        OBVIOUS
      <3>2. Count(dispQueue, Buffers("cmdSeq")) \in Nat
        BY CountType, Zenon DEF StateOK
      <3>3. Count(seqQueue', Answers) \in Nat
        BY CountType, Zenon
      <3>4. Cardinality(Holding(disp'.tracker, "cmdSeq")) \in Nat
        BY HoldingFinite, Zenon
      <3> QED
        BY <1>1, <1>2, <1>7, <2>3, <3>1, <3>2, <3>3, <3>4
    <2> QED
      BY <2>2, <2>4 DEF Conserved
  <1>10. OwedInv'
    BY <1>4 DEF OwedInv
  <1>11. TurnInv'
    <2> SUFFICES ASSUME clean' PROVE Orderly(seqr', first', awaited'["cmdSeq"])
      BY DEF TurnInv
    <2>1. Orderly(s, first', b + Sent(s))
      OBVIOUS
    <2>2. Orderly(s, first', v)
      BY <1>1, <1>5, <2>1, TurnMonotone, Zenon
    <2> QED
      BY <1>4, <1>7, <2>2
  <1> QED
    BY <1>8, <1>9, <1>10, <1>11 DEF Inv

(* A command.                                                              *)
LEMMA CommandStep ==
    ASSUME Inv, sequencerCommand
    PROVE  Inv'
  <1>1. StateOK /\ Conserved /\ OwedInv /\ TurnInv /\ ~seqr.asserted /\ Idle(seqr)
    BY DEF Inv, sequencerCommand, Alive, StateOK, Idle
  <1> DEFINE m == Head(seqQueue)
             B == Inbox(disp.seq)
  <1>2. seqQueue \in Seq(B) /\ seqQueue # <<>> /\ m.kind = "cmd"
    BY <1>1 DEF sequencerCommand, StateOK
  <1>3. m \in B /\ Tail(seqQueue) \in Seq(B)
        /\ Count(seqQueue, Answers) = (IF m \in Answers THEN 1 ELSE 0) + Count(Tail(seqQueue), Answers)
    <2> HIDE DEF B
    <2> QED
      BY <1>2, CountTail, Zenon
  <1>4. /\ m.cmd \in Cmds /\ SequencerCommand(m.cmd)
        /\ m.seq \in 1..disp.seq - 1 /\ m \notin Answers
    BY <1>2, <1>3 DEF Inbox, Answers, SeqCmds
  <1>5. disp.seq \in Nat /\ m.seq \in Nat
    BY <1>1, <1>4 DEF StateOK, DispState
  <1>6. PICK due \in BOOLEAN :
            LET s == cmdIn(seqr, m.cmd, m.seq, due)
            IN  /\ Flush(s)
                /\ Awaiting(awaited["cmdSeq"], s)
                /\ owed' = (owed \cup {m.seq}) \ Answered(s)
                /\ displaced' = owed' \cap
                        (displaced \cup IF Displaces(m.cmd) /\ (seqr.block \/ seqr.join)
                                        THEN {seqr.owner} ELSE {})
                /\ first' = FirstAfter(m.cmd)
                /\ clean' = InTurnAfter(m.cmd)
    BY DEF sequencerCommand
  <1>7. seqQueue' = Tail(seqQueue) /\ disp' = disp /\ working' = working /\ campaign' = campaign
    BY DEF sequencerCommand
  <1> DEFINE s == cmdIn(seqr, m.cmd, m.seq, due)
             cmd == m.cmd
             n == m.seq
             a == awaited["cmdSeq"]
  <1>8. Handles(s, seqr, cmd, n)
    <2> HIDE DEF m
    <2> QED
      BY <1>1, <1>4, <1>5, CommandHandles, Zenon
  <1>9. a \in Nat /\ first \in Nat /\ clean \in BOOLEAN /\ owed \subseteq 1..disp.seq - 1
    BY <1>1 DEF StateOK, Ports
  <1>10. first' = FirstIn(seqr, first, cmd) /\ clean' = CleanIn(seqr, a, first, clean, cmd)
    BY <1>6 DEF FirstAfter, FirstIn, InTurnAfter, CleanIn, Starts, StartsIn
  <1>11. owed' = (owed \cup {n}) \ Answered(s) /\ Flush(s) /\ Awaiting(a, s)
         /\ displaced' = owed' \cap (displaced \cup (IF Displaces(cmd) THEN Waiting(seqr) ELSE {}))
    BY <1>6 DEF Waiting
  <1>12. cmd \in Cmds /\ n \in 1..disp.seq - 1
    BY <1>4
  <1> HIDE DEF s, cmd, n, a, m, B
  <1>13. Sound(s)
    BY <1>8 DEF Handles
  <1>14. clean' => Orderly(s, first', a + Sent(s))
    <2> SUFFICES ASSUME clean' PROVE Orderly(s, first', a + Sent(s))
      OBVIOUS
    <2>1. CleanIn(seqr, a, first, clean, cmd)
      BY <1>10
    <2>2. clean => Turn(seqr, first, a)
      BY <1>1 DEF TurnInv, Orderly, a
    <2>3. Orderly(s, FirstIn(seqr, first, cmd), a + Sent(s))
      BY <1>8, <1>9, <2>1, <2>2, Zenon DEF Handles
    <2> QED
      BY <1>10, <2>3
  <1>15. ~s.asserted => owed' \subseteq displaced' \cup Waiting(s)
    <2> SUFFICES ASSUME ~s.asserted, NEW x \in owed' PROVE x \in displaced' \cup Waiting(s)
      OBVIOUS
    <2>1. n \in Answered(s) \cup Waiting(s)
          /\ (Displaces(cmd) \/ Waiting(seqr) \subseteq Answered(s) \cup Waiting(s))
      BY <1>8 DEF Handles, Settled
    <2>2. owed \subseteq displaced \cup Waiting(seqr)
      BY <1>1 DEF OwedInv
    <2> QED
      BY <1>11, <2>1, <2>2
  <1>16. first' \in Nat /\ clean' \in BOOLEAN
    <2>1. first' \in Nat
      <3>1. seqr.next \in Nat
        BY <1>1 DEF Idle, Sound, SeqState
      <3>2. cmd.op = "CS_RUN" => cmd.file.next \in Nat
        BY <1>12, FilesAssumption DEF Cmds, Files, IsFile, Ops, Records, Opcodes, SeqOps, NoCommand
      <3> QED
        BY <1>9, <1>10, <3>1, <3>2 DEF FirstIn
    <2>2. clean' \in BOOLEAN
      BY <1>9, <1>10 DEF CleanIn, StartsIn
    <2> QED
      BY <2>1, <2>2
  <1>17. owed' \subseteq 1..disp.seq - 1
    BY <1>9, <1>11, <1>12
  <1>18. a = Count(dispQueue, Buffers("cmdSeq")) + Cardinality(Holding(disp.tracker, "cmdSeq"))
               + Count(seqQueue', Answers)
    <2>1. Count(Tail(seqQueue), Answers) \in Nat
      BY <1>3, CountType, Zenon
    <2>2. Count(seqQueue, Answers) = Count(seqQueue', Answers)
      BY <1>3, <1>4, <1>7, <2>1
    <2> QED
      BY <1>1, <2>2 DEF Conserved, a
  <1>19. seqQueue' \in Seq(Inbox(disp.seq))
    BY <1>3, <1>7 DEF B
  <1> QED
    BY <1>1, <1>7, <1>9, <1>11, <1>13, <1>14, <1>15, <1>16, <1>17, <1>18, <1>19,
       HandlerPreserves, Zenon

(* What a handler other than a command preserves.                          *)
LEMMA OtherPreserves ==
    ASSUME Inv, ~seqr.asserted, NEW s, Continues(s, seqr), Flush(s), NEW b \in Nat, Awaiting(b, s),
           UNCHANGED <<disp, working, campaign, displaced, first, clean>>,
           owed' = owed \ Answered(s),
           seqQueue' \in Seq(Inbox(disp.seq)),
           b = Count(dispQueue, Buffers("cmdSeq")) + Cardinality(Holding(disp.tracker, "cmdSeq"))
                 + Count(seqQueue', Answers),
           clean => Orderly(s, first, b + Sent(s))
    PROVE  Inv'
  <1>1. StateOK /\ Conserved /\ OwedInv
    BY DEF Inv
  <1>2. Sound(s)
    BY DEF Continues
  <1>3. ~s.asserted => owed' \subseteq displaced' \cup Waiting(s)
    BY <1>1 DEF OwedInv, Continues, Settled
  <1>4. owed' \subseteq 1..disp.seq - 1 /\ first' \in Nat /\ clean' \in BOOLEAN
    BY <1>1 DEF StateOK
  <1>5. clean' => Orderly(s, first', b + Sent(s))
    OBVIOUS
  <1>6. disp' = disp /\ working' = working /\ campaign' = campaign
    OBVIOUS
  <1> QED
    BY <1>1, <1>2, <1>3, <1>4, <1>5, <1>6, HandlerPreserves, Zenon

(* A response: it was awaited, since no status is doubled.                 *)
LEMMA ResponseStep ==
    ASSUME Inv, sequencerResponse
    PROVE  Inv'
  <1>1. StateOK /\ Conserved /\ OwedInv /\ TurnInv /\ ~seqr.asserted /\ Idle(seqr)
    BY DEF Inv, sequencerResponse, Alive, StateOK, Idle
  <1> DEFINE m == Head(seqQueue)
             B == Inbox(disp.seq)
             a == awaited["cmdSeq"]
             b == a - 1
  <1>2. seqQueue \in Seq(B) /\ seqQueue # <<>> /\ m.kind = "response"
    BY <1>1 DEF sequencerResponse, StateOK
  <1>3. m \in B /\ Tail(seqQueue) \in Seq(B)
        /\ Count(seqQueue, Answers) = (IF m \in Answers THEN 1 ELSE 0) + Count(Tail(seqQueue), Answers)
    <2> HIDE DEF B
    <2> QED
      BY <1>2, CountTail, Zenon
  <1>4. m \in Answers /\ m.response \in Responses
    BY <1>2, <1>3 DEF Inbox, Answers
  <1>5. PICK due \in BOOLEAN :
        LET s == cmdResponseIn(seqr, m.response, due)
        IN  /\ Flush(s)
            /\ Awaiting(b, s)
            /\ owed' = owed \ Answered(s)
    BY DEF sequencerResponse
  <1>6. seqQueue' = Tail(seqQueue) /\ UNCHANGED <<disp, working, campaign, displaced, first, clean>>
    BY DEF sequencerResponse
  <1> DEFINE s == cmdResponseIn(seqr, m.response, due)
  <1>7. /\ Continues(s, seqr)
        /\ \A x \in Nat, f \in Nat : Turn(seqr, f, x) /\ x > 0 => Orderly(s, f, x - 1 + Sent(s))
    <2> HIDE DEF m
    <2> QED
      BY <1>1, <1>4, ResponseHandles, Zenon
  <1>8. Flush(s) /\ Awaiting(b, s) /\ owed' = owed \ Answered(s)
    BY <1>5
  <1> HIDE DEF s, m, B
  <1>9. a \in Nat /\ first \in Nat
    BY <1>1 DEF StateOK, Ports
  <1>10. a > 0 /\ b = Count(dispQueue, Buffers("cmdSeq")) + Cardinality(Holding(disp.tracker, "cmdSeq"))
               + Count(seqQueue', Answers)
    <2>1. Count(Tail(seqQueue), Answers) \in Nat
      BY <1>3, CountType, Zenon
    <2>2. Count(dispQueue, Buffers("cmdSeq")) \in Nat
      BY <1>1, CountType, Zenon DEF StateOK
    <2>3. Cardinality(Holding(disp.tracker, "cmdSeq")) \in Nat
      BY HoldingFinite, Zenon
    <2>4. Count(seqQueue, Answers) = 1 + Count(seqQueue', Answers)
      BY <1>3, <1>4, <1>6, <2>1
    <2>5. a = Count(dispQueue, Buffers("cmdSeq")) + Cardinality(Holding(disp.tracker, "cmdSeq"))
               + Count(seqQueue, Answers)
      BY <1>1 DEF Conserved
    <2>6. Count(seqQueue', Answers) \in Nat
      BY <1>6, <2>1
    <2> HIDE DEF a
    <2> QED
      BY <2>2, <2>3, <2>4, <2>5, <2>6
  <1> HIDE DEF a
  <1>11. clean => Orderly(s, first, b + Sent(s))
    <2> SUFFICES ASSUME clean PROVE Orderly(s, first, b + Sent(s))
      OBVIOUS
    <2>1. Turn(seqr, first, a)
      BY <1>1 DEF TurnInv, Orderly, a
    <2> QED
      BY <1>7, <1>9, <1>10, <2>1, Zenon
  <1>12. seqQueue' \in Seq(Inbox(disp.seq))
    BY <1>3, <1>6 DEF B
  <1>13. b \in Nat
    BY <1>9, <1>10
  <1> HIDE DEF b
  <1> QED
    BY <1>1, <1>6, <1>7, <1>8, <1>10, <1>11, <1>12, <1>13, OtherPreserves, Zenon

(* The rate group.                                                         *)
LEMMA SchedStep ==
    ASSUME Inv, schedIn
    PROVE  Inv'
  <1>1. StateOK /\ Conserved /\ TurnInv /\ ~seqr.asserted /\ Idle(seqr)
    BY DEF Inv, schedIn, Alive, StateOK, Idle
  <1> DEFINE a == awaited["cmdSeq"]
  <1>2. ASSUME NEW s, sched(s), Continues(s, seqr),
               \A x \in Nat, f \in Nat : Turn(seqr, f, x) => Orderly(s, f, x + Sent(s))
        PROVE  Inv'
    <2>1. Flush(s) /\ Awaiting(a, s) /\ owed' = owed \ Answered(s) /\ seqQueue' = seqQueue
          /\ UNCHANGED <<disp, working, campaign, displaced, first, clean>>
      BY <1>2 DEF sched
    <2>2. a \in Nat /\ first \in Nat /\ seqQueue' \in Seq(Inbox(disp.seq))
      BY <1>1, <2>1 DEF StateOK, Ports
    <2>3. a = Count(dispQueue, Buffers("cmdSeq")) + Cardinality(Holding(disp.tracker, "cmdSeq"))
               + Count(seqQueue', Answers)
      BY <1>1, <2>1 DEF Conserved
    <2>4. clean => Turn(seqr, first, a)
      BY <1>1 DEF TurnInv, Orderly
    <2> HIDE DEF a
    <2>5. clean => Orderly(s, first, a + Sent(s))
      BY <1>2, <2>2, <2>4, Zenon
    <2> QED
      BY <1>1, <1>2, <2>1, <2>2, <2>3, <2>5, OtherPreserves, Zenon
  <1>3. CASE seqr.cmdTimer /\ sched(schedInDue(seqr))
    BY <1>1, <1>2, <1>3, DueHandles, Zenon
  <1>4. CASE seqr.timeoutTimer /\ sched(schedInTimeout(seqr))
    BY <1>1, <1>2, <1>4, ExpiredHandles, Zenon
  <1> QED
    BY <1>3, <1>4 DEF schedIn

(***************************************************************************)
(* The steps of the dispatcher and of the environment.                     *)
(***************************************************************************)

(* A nonempty set of natural numbers has a least element, which is its Min.*)
LEMMA Least ==
    ASSUME NEW A, A \subseteq Nat, A # {}
    PROVE  Min(A) \in A
  <1>1. PICK x \in A : \A y \in A : ~(<<y, x>> \in OpToRel(<, Nat))
    BY NatLessThanWellFounded, WFMin
  <1>2. \A y \in A : ~(y < x)
    BY <1>1 DEF OpToRel
  <1>3. \E z \in A : \A y \in A : z <= y
    BY <1>2
  <1> QED
    BY <1>3, Zenon DEF Min

(* Statuses of a dispatcher's handler for a port.                          *)
Returns(d, p) == IF d.status # <<>> /\ Head(d.status).port = p THEN 1 ELSE 0

(* A handler of the dispatcher makes one call at most of each kind; what   *)
(* it sends has a number given out; and the entries it leaves together     *)
(* with the statuses it returns are the entries there were and x, of the   *)
(* port p, a command just taken (or nothing taken, when x is 0).           *)
Balanced(d, c, p, x) ==
    /\ d \in DispState /\ c.seq <= d.seq
    /\ Len(d.status) <= 1 /\ Len(d.send) <= 1
    /\ d.send # <<>> => Head(d.send).seq \in 1..d.seq - 1
    /\ \A r \in Ports :
          Cardinality(Holding(d.tracker, r)) + Returns(d, r)
            = Cardinality(Holding(c.tracker, r)) + (IF r = p THEN x ELSE 0)

(* Making an entry.                                                        *)
LEMMA EntryMade ==
    ASSUME NEW t \in Tables, NEW i \in 1..Slots, ~t[i].used, NEW n \in Nat, NEW p \in Ports
    PROVE  LET u == [t EXCEPT ![i] = Entry(n, p)] IN
           /\ u \in Tables
           /\ \A r \in Ports : Cardinality(Holding(u, r))
                                 = Cardinality(Holding(t, r)) + (IF r = p THEN 1 ELSE 0)
  <1> DEFINE e == Entry(n, p)
             u == [t EXCEPT ![i] = e]
  <1>1. e \in Entries /\ e.used /\ e.port = p
    BY DEF Entries, Entry
  <1> HIDE DEF e
  <1>2. u \in Tables /\ u[i] = e /\ \A j \in 1..Slots : j # i => u[j] = t[j]
    BY <1>1 DEF Tables
  <1> HIDE DEF u
  <1>3. ASSUME NEW r \in Ports
        PROVE  Cardinality(Holding(u, r)) = Cardinality(Holding(t, r)) + (IF r = p THEN 1 ELSE 0)
    <2>0. i \notin Holding(t, r)
      BY DEF Holding
    <2>1. IsFiniteSet(Holding(t, r)) /\ Cardinality(Holding(t, r)) \in Nat /\ i \notin Holding(t, r)
      BY <2>0, HoldingFinite, Zenon
    <2>2. CASE r = p
      <3>1. Holding(u, r) = Holding(t, r) \cup {i}
        BY <1>1, <1>2, <2>2 DEF Holding
      <3>2. Cardinality(Holding(t, r) \cup {i}) = Cardinality(Holding(t, r)) + 1
        BY <2>1, FS_AddElement
      <3> QED
        BY <2>2, <3>1, <3>2
    <2>3. CASE r # p
      <3>1. Holding(u, r) = Holding(t, r)
        BY <1>1, <1>2, <2>3 DEF Holding
      <3> QED
        BY <2>1, <2>3, <3>1
    <2> QED
      BY <2>2, <2>3
  <1> QED
    BY <1>2, <1>3 DEF u, e

(* Releasing an entry.                                                     *)
LEMMA EntryReleased ==
    ASSUME NEW t \in Tables, NEW i \in 1..Slots, t[i].used
    PROVE  LET u == [t EXCEPT ![i] = NoEntry] IN
           /\ u \in Tables /\ t[i].port \in Ports
           /\ \A r \in Ports : Cardinality(Holding(u, r)) + (IF r = t[i].port THEN 1 ELSE 0)
                                 = Cardinality(Holding(t, r))
  <1> DEFINE u == [t EXCEPT ![i] = NoEntry]
  <1>1. t[i] \in Entries
    BY DEF Tables, NoEntry
  <1>2. t[i].port \in Ports
    BY <1>1 DEF Entries
  <1>3. u \in Tables /\ u[i] = NoEntry /\ \A j \in 1..Slots : j # i => u[j] = t[j]
    BY DEF Tables
  <1>4. ~NoEntry.used
    BY DEF NoEntry
  <1> HIDE DEF u
  <1>5. ASSUME NEW r \in Ports
        PROVE  Cardinality(Holding(u, r)) + (IF r = t[i].port THEN 1 ELSE 0)
                 = Cardinality(Holding(t, r))
    <2>1. IsFiniteSet(Holding(u, r)) /\ Cardinality(Holding(u, r)) \in Nat /\ i \notin Holding(u, r)
      BY <1>3, <1>4, HoldingFinite DEF Holding
    <2>2. CASE r = t[i].port
      <3>1. Holding(t, r) = Holding(u, r) \cup {i}
        BY <1>3, <1>4, <2>2 DEF Holding
      <3>2. Cardinality(Holding(u, r) \cup {i}) = Cardinality(Holding(u, r)) + 1
        BY <2>1, FS_AddElement
      <3> QED
        BY <2>2, <3>1, <3>2
    <2>3. CASE r # t[i].port
      <3>1. Holding(t, r) = Holding(u, r)
        BY <1>3, <1>4, <2>3 DEF Holding
      <3> QED
        BY <2>1, <2>3, <3>1
    <2> QED
      BY <2>2, <2>3
  <1> QED
    BY <1>2, <1>3, <1>5 DEF u

(* seqCmdStatus from a state without calls.                                *)
LEMMA StatusMade ==
    ASSUME NEW d \in DispState, d.status = <<>>, d.send = <<>>, NEW p \in Ports, NEW r \in Responses
    PROVE  LET u == seqCmdStatus(d, p, r) IN
           /\ u \in DispState /\ u.seq = d.seq /\ u.tracker = d.tracker /\ u.send = <<>>
           /\ Len(u.status) = 1 /\ u.status # <<>>
           /\ Head(u.status) = [port |-> p, response |-> r]
  <1> DEFINE m == [port |-> p, response |-> r]
             o == Append(d.status, m)
             u == [d EXCEPT !.status = o]
  <1>1. m \in [port : Ports, response : Responses]
    OBVIOUS
  <1> HIDE DEF m
  <1>2. o \in Seq([port : Ports, response : Responses]) /\ Len(o) = 1 /\ o # <<>> /\ Head(o) = m
    BY <1>1
  <1> HIDE DEF o
  <1>3. u \in DispState
    BY <1>2 DEF DispState
  <1>4. u.seq = d.seq /\ u.tracker = d.tracker /\ u.send = <<>> /\ u.status = o
    BY DEF DispState
  <1> QED
    BY <1>2, <1>3, <1>4 DEF seqCmdStatus, m, o

(* seqCmdBuff: the command is answered at once, or tracked.                *)
LEMMA BufferBalanced ==
    ASSUME NEW c \in DispState, c.status = <<>>, c.send = <<>>, NEW p \in Ports, NEW cmd \in Cmds
    PROVE  Balanced(seqCmdBuff(c, p, cmd), c, p, 1)
  <1>1. c.tracker \in Tables /\ c.seq \in Nat \ {0} /\ DOMAIN c.tracker = 1..Slots
    BY DEF DispState, Tables
  <1>2. ASSUME NEW r \in Ports PROVE Cardinality(Holding(c.tracker, r)) \in Nat
    BY HoldingFinite, Zenon
  <1>3. ASSUME NEW b \in DispState, b.status = <<>>, b.send = <<>>, b.tracker = c.tracker,
               c.seq <= b.seq, NEW r \in Responses
        PROVE  Balanced(seqCmdStatus(b, p, r), c, p, 1)
    <2> DEFINE u == seqCmdStatus(b, p, r)
    <2>1. /\ u \in DispState /\ u.seq = b.seq /\ u.tracker = c.tracker /\ u.send = <<>>
          /\ Len(u.status) = 1 /\ u.status # <<>>
          /\ Head(u.status) = [port |-> p, response |-> r]
      BY <1>3, StatusMade
    <2> HIDE DEF u
    <2>2. ASSUME NEW q \in Ports
          PROVE  Cardinality(Holding(u.tracker, q)) + Returns(u, q)
                   = Cardinality(Holding(c.tracker, q)) + (IF q = p THEN 1 ELSE 0)
      BY <1>2, <2>1 DEF Returns
    <2>3. Len(u.send) = 0
      BY <2>1
    <2> QED
      BY <1>3, <2>1, <2>2, <2>3 DEF Balanced, u
  <1>4. CASE cmd.op = "MALFORMED"
    BY <1>1, <1>3, <1>4 DEF seqCmdBuff, Responses
  <1>5. CASE cmd.op = "UNKNOWN"
    <2> DEFINE b == [c EXCEPT !.seq = @ + 1]
    <2>1. b \in DispState /\ b.status = <<>> /\ b.send = <<>> /\ b.tracker = c.tracker /\ c.seq <= b.seq
      BY <1>1 DEF DispState
    <2> HIDE DEF b
    <2>2. Balanced(seqCmdStatus(b, p, "INVALID_OPCODE"), c, p, 1)
      BY <1>3, <2>1 DEF Responses
    <2> QED
      BY <1>5, <2>2 DEF seqCmdBuff, b
  <1>6. CASE cmd.op # "MALFORMED" /\ cmd.op # "UNKNOWN" /\ Unused(c) = {}
    BY <1>1, <1>3, <1>6 DEF seqCmdBuff, Responses
  <1>7. CASE cmd.op # "MALFORMED" /\ cmd.op # "UNKNOWN" /\ Unused(c) # {}
    <2> DEFINE i == Min(Unused(c))
               t == [c.tracker EXCEPT ![i] = Entry(c.seq, p)]
               m == [cmd |-> cmd, seq |-> c.seq]
               o == Append(c.send, m)
               k == c.seq + 1
               u == [c EXCEPT !.tracker = t, !.send = o, !.seq = k]
    <2>1. i \in 1..Slots /\ ~c.tracker[i].used
      <3>1. Unused(c) \subseteq 1..Slots /\ Unused(c) \subseteq Nat
        BY <1>1, CommandingAssumption DEF Unused
      <3>2. i \in Unused(c)
        BY <1>7, <3>1, Least
      <3> HIDE DEF i
      <3> QED
        BY <1>1, <3>2 DEF Unused
    <2>2. u = seqCmdBuff(c, p, cmd)
      BY <1>7 DEF seqCmdBuff
    <2> HIDE DEF i
    <2>3. /\ t \in Tables
          /\ \A r \in Ports : Cardinality(Holding(t, r))
                                 = Cardinality(Holding(c.tracker, r)) + (IF r = p THEN 1 ELSE 0)
      BY <1>1, <2>1, EntryMade
    <2>4. m \in [cmd : Cmds, seq : Nat] /\ m.seq = c.seq
      BY <1>1
    <2> HIDE DEF m, t
    <2>5. o \in Seq([cmd : Cmds, seq : Nat]) /\ Len(o) = 1 /\ Head(o) = m
      BY <2>4
    <2>6. k \in Nat \ {0} /\ c.seq <= k /\ c.seq \in 1..k - 1
      BY <1>1
    <2> HIDE DEF o, k
    <2>7. u \in DispState
      BY <2>3, <2>5, <2>6 DEF DispState
    <2>8. u.status = <<>> /\ u.send = o /\ u.seq = k /\ u.tracker = t
      BY DEF DispState
    <2> HIDE DEF u
    <2>9. ASSUME NEW r \in Ports
          PROVE  Cardinality(Holding(u.tracker, r)) + Returns(u, r)
                   = Cardinality(Holding(c.tracker, r)) + (IF r = p THEN 1 ELSE 0)
      BY <1>2, <2>3, <2>8 DEF Returns
    <2>10. Len(u.status) <= 1 /\ Len(u.send) <= 1 /\ c.seq <= u.seq
      <3>1. Len(<<>>) = 0 /\ 0 <= 1 /\ 1 <= 1
        OBVIOUS
      <3> QED
        BY <2>5, <2>6, <2>8, <3>1, Zenon
    <2>11. Head(u.send).seq \in 1..u.seq - 1
      BY <2>4, <2>5, <2>6, <2>8
    <2>12. Balanced(u, c, p, 1)
      BY <2>7, <2>9, <2>10, <2>11, Zenon DEF Balanced
    <2> QED
      BY <2>2, <2>12
  <1> QED
    BY <1>4, <1>5, <1>6, <1>7

(* compCmdStat: the entry is released and its port gets the status.        *)
LEMMA StatusBalanced ==
    ASSUME NEW c \in DispState, c.status = <<>>, c.send = <<>>, NEW n \in Nat, NEW r \in Responses,
           NEW p \in Ports
    PROVE  Balanced(compCmdStat(c, n, r), c, p, 0)
  <1>1. c.tracker \in Tables /\ c.seq \in Nat \ {0} /\ DOMAIN c.tracker = 1..Slots
    BY DEF DispState, Tables
  <1>2. ASSUME NEW q \in Ports PROVE Cardinality(Holding(c.tracker, q)) \in Nat
    BY HoldingFinite, Zenon
  <1>3. CASE Matching(c, n) = {}
    <2>1. compCmdStat(c, n, r) = c
      BY <1>3 DEF compCmdStat
    <2>2. Len(c.status) = 0 /\ Len(c.send) = 0
      OBVIOUS
    <2>3. ASSUME NEW q \in Ports
          PROVE  Cardinality(Holding(c.tracker, q)) + Returns(c, q)
                   = Cardinality(Holding(c.tracker, q)) + (IF q = p THEN 0 ELSE 0)
      BY <1>2 DEF Returns
    <2>4. c.seq <= c.seq
      BY <1>1
    <2> QED
      BY <2>1, <2>2, <2>3, <2>4 DEF Balanced
  <1>4. CASE Matching(c, n) # {}
    <2> DEFINE i == Min(Matching(c, n))
               t == [c.tracker EXCEPT ![i] = NoEntry]
               b == [c EXCEPT !.tracker = t]
               q == c.tracker[i].port
               u == seqCmdStatus(b, q, r)
    <2>1. i \in 1..Slots /\ c.tracker[i].used
      <3>1. Matching(c, n) \subseteq 1..Slots /\ Matching(c, n) \subseteq Nat
        BY <1>1, CommandingAssumption DEF Matching
      <3>2. i \in Matching(c, n)
        BY <1>4, <3>1, Least
      <3> HIDE DEF i
      <3> QED
        BY <1>1, <3>2 DEF Matching
    <2>2. u = compCmdStat(c, n, r)
      BY <1>4 DEF compCmdStat
    <2> HIDE DEF i
    <2>3. /\ t \in Tables /\ q \in Ports
          /\ \A x \in Ports : Cardinality(Holding(t, x)) + (IF x = q THEN 1 ELSE 0)
                                = Cardinality(Holding(c.tracker, x))
      BY <1>1, <2>1, EntryReleased
    <2> HIDE DEF t, q
    <2>4. b \in DispState /\ b.status = <<>> /\ b.send = <<>> /\ b.tracker = t /\ b.seq = c.seq
      BY <2>3 DEF DispState
    <2> HIDE DEF b
    <2>5. /\ u \in DispState /\ u.seq = c.seq /\ u.tracker = t /\ u.send = <<>>
          /\ Len(u.status) = 1 /\ u.status # <<>>
          /\ Head(u.status) = [port |-> q, response |-> r]
      BY <2>3, <2>4, StatusMade
    <2> HIDE DEF u
    <2>6. ASSUME NEW x \in Ports
          PROVE  Cardinality(Holding(u.tracker, x)) + Returns(u, x)
                   = Cardinality(Holding(c.tracker, x)) + (IF x = p THEN 0 ELSE 0)
      BY <1>2, <2>3, <2>5 DEF Returns
    <2>7. Len(u.send) = 0 /\ c.seq <= u.seq
      BY <1>1, <2>5
    <2> QED
      BY <2>2, <2>5, <2>6, <2>7 DEF Balanced
  <1> QED
    BY <1>3, <1>4

(* A sequence of one element at most, by its head.                         *)
LEMMA ShortSequence ==
    ASSUME NEW S, NEW q \in Seq(S), Len(q) <= 1
    PROVE  \/ q = <<>> /\ 1..Len(q) = {}
           \/ q # <<>> /\ 1..Len(q) = {1} /\ q[1] = Head(q) /\ Head(q) \in S
  <1>1. Len(q) \in Nat
    OBVIOUS
  <1>2. CASE Len(q) = 0
    <2>1. q = <<>>
      BY <1>2
    <2> QED
      BY <1>2, <2>1
  <1>3. CASE Len(q) = 1
    <2>1. 1..Len(q) = {1}
      BY <1>3
    <2>2. q # <<>> /\ q[1] = Head(q) /\ Head(q) \in S
      BY <1>3
    <2> QED
      BY <2>1, <2>2
  <1> QED
    BY <1>1, <1>2, <1>3

(* What a handler of the dispatcher preserves that takes the message at    *)
(* the head of the queue: x commands of the port p.                        *)
LEMMA DispatchPreserves ==
    ASSUME Inv, dispQueue # <<>>, NEW d, NEW p \in Ports, NEW x \in {0, 1},
           Balanced(d, disp, p, x), dispatched(d),
           \A r \in Ports : (IF Head(dispQueue) \in Buffers(r) THEN 1 ELSE 0)
                              = IF r = p THEN x ELSE 0
    PROVE  Inv'
  <1>1. StateOK /\ Conserved /\ OwedInv /\ TurnInv
    BY DEF Inv
  <1>2. /\ d \in DispState /\ disp.seq <= d.seq
        /\ Len(d.status) <= 1 /\ Len(d.send) <= 1
        /\ d.send # <<>> => Head(d.send).seq \in 1..d.seq - 1
    BY DEF Balanced
  <1>3. /\ d.seq \in Nat /\ disp.seq \in Nat
        /\ d.status \in Seq([port : Ports, response : Responses])
        /\ d.send \in Seq([cmd : Cmds, seq : Nat])
    BY <1>1, <1>2 DEF DispState, StateOK
  <1>4. /\ disp' = [d EXCEPT !.status = <<>>, !.send = <<>>]
        /\ seqQueue' = seqQueue \o Returned(d) \o Delivered(d)
        /\ dispQueue' = Tail(dispQueue) \o Own(d)
        /\ working' = working \cup Elsewhere(d)
        /\ awaited' = [awaited EXCEPT !["router"] = @ - Routed(d)]
        /\ UNCHANGED <<seqr, campaign, ground, drops, owed, displaced, first, clean, lost>>
    BY DEF dispatched
  <1>5. disp' \in DispState /\ disp'.status = <<>> /\ disp'.send = <<>>
        /\ disp'.seq = d.seq /\ disp'.tracker = d.tracker
    <2> DEFINE none == <<>>
    <2>1. none \in Seq([port : Ports, response : Responses]) /\ none \in Seq([cmd : Cmds, seq : Nat])
      OBVIOUS
    <2>2. disp' = [d EXCEPT !.status = none, !.send = none]
      BY <1>4
    <2> HIDE DEF none
    <2>3. disp' \in DispState /\ disp'.status = none /\ disp'.send = none
          /\ disp'.seq = d.seq /\ disp'.tracker = d.tracker
      BY <1>2, <2>1, <2>2 DEF DispState
    <2> QED
      BY <2>3 DEF none
  <1>6. \/ d.status = <<>> /\ 1..Len(d.status) = {}
        \/ /\ d.status # <<>> /\ 1..Len(d.status) = {1} /\ d.status[1] = Head(d.status)
           /\ Head(d.status) \in [port : Ports, response : Responses]
    BY <1>2, <1>3, ShortSequence, Zenon
  <1>7. \/ d.send = <<>> /\ 1..Len(d.send) = {}
        \/ /\ d.send # <<>> /\ 1..Len(d.send) = {1} /\ d.send[1] = Head(d.send)
           /\ Head(d.send) \in [cmd : Cmds, seq : Nat]
    BY <1>2, <1>3, ShortSequence, Zenon
  <1>8. Routed(d) = Returns(d, "router")
    <2> DEFINE A == {i \in 1..Len(d.status) : d.status[i].port = "router"}
    <2>1. CASE Returns(d, "router") = 1
      <3>1. A = {1}
        BY <1>6, <2>1 DEF Returns
      <3> QED
        BY <2>1, <3>1, FS_Singleton DEF Routed
    <2>2. CASE Returns(d, "router") = 0
      <3>1. A = {}
        BY <1>6, <2>2 DEF Returns
      <3> QED
        BY <2>2, <3>1, FS_EmptySet DEF Routed
    <2> QED
      BY <2>1, <2>2 DEF Returns
  <1>9. Elsewhere(d) \subseteq 1..d.seq - 1
    BY <1>2, <1>7 DEF Elsewhere
  <1>10. /\ Returned(d) \in Seq(Inbox(d.seq))
         /\ Count(Returned(d), Answers) = Returns(d, "cmdSeq")
    <2>1. CASE d.status # <<>> /\ Head(d.status).port = "cmdSeq"
      <3> DEFINE m == [kind |-> "response", response |-> Head(d.status).response]
                 B == Inbox(d.seq)
      <3>1. m \in Answers /\ m \in B
        BY <1>6, <2>1 DEF Answers, Inbox
      <3>2. Returned(d) = One(m)
        BY <2>1 DEF Returned, One
      <3> HIDE DEF m, B
      <3>3. One(m) \in Seq(B) /\ Count(One(m), Answers) = IF m \in Answers THEN 1 ELSE 0
        BY <3>1, CountOne, Zenon
      <3> QED
        BY <2>1, <3>1, <3>2, <3>3 DEF Returns, B
    <2>2. CASE ~(d.status # <<>> /\ Head(d.status).port = "cmdSeq")
      <3>1. Returned(d) = <<>>
        BY <2>2 DEF Returned
      <3>2. Places(<<>>, Answers) = {}
        BY DEF Places
      <3>3. Count(<<>>, Answers) = 0
        BY <3>2, FS_EmptySet DEF Count
      <3>4. <<>> \in Seq(Inbox(d.seq))
        OBVIOUS
      <3> QED
        BY <2>2, <3>1, <3>3, <3>4 DEF Returns
    <2> QED
      BY <2>1, <2>2
  <1>11. /\ Delivered(d) \in Seq(Inbox(d.seq))
         /\ Count(Delivered(d), Answers) = 0
    <2>1. CASE d.send # <<>> /\ SequencerCommand(Head(d.send).cmd)
      <3> DEFINE m == [kind |-> "cmd", cmd |-> Head(d.send).cmd, seq |-> Head(d.send).seq]
                 B == Inbox(d.seq)
      <3>1. m \notin Answers /\ m \in B
        BY <1>2, <1>7, <2>1 DEF Answers, Inbox, SeqCmds
      <3>2. Delivered(d) = One(m)
        BY <2>1 DEF Delivered, One
      <3> HIDE DEF m, B
      <3>3. One(m) \in Seq(B) /\ Count(One(m), Answers) = IF m \in Answers THEN 1 ELSE 0
        BY <3>1, CountOne, Zenon
      <3> QED
        BY <3>1, <3>2, <3>3 DEF B
    <2>2. CASE ~(d.send # <<>> /\ SequencerCommand(Head(d.send).cmd))
      <3>1. Delivered(d) = <<>>
        BY <2>2 DEF Delivered
      <3>2. Places(<<>>, Answers) = {}
        BY DEF Places
      <3>3. Count(<<>>, Answers) = 0
        BY <3>2, FS_EmptySet DEF Count
      <3>4. <<>> \in Seq(Inbox(d.seq))
        OBVIOUS
      <3> QED
        BY <3>1, <3>3, <3>4
    <2> QED
      BY <2>1, <2>2
  <1>12. /\ seqQueue' \in Seq(Inbox(d.seq))
         /\ Count(seqQueue', Answers) = Count(seqQueue, Answers) + Returns(d, "cmdSeq")
         /\ Count(seqQueue, Answers) \in Nat
    <2> DEFINE B == Inbox(d.seq)
    <2>1. seqQueue \in Seq(B)
      BY <1>1, <1>2, <1>3, InboxGrows, Zenon DEF StateOK
    <2>2. Returned(d) \in Seq(B) /\ Delivered(d) \in Seq(B)
      BY <1>10, <1>11
    <2> HIDE DEF B
    <2>3. seqQueue \o Returned(d) \in Seq(B)
          /\ Count(seqQueue \o Returned(d), Answers) = Count(seqQueue, Answers) + Count(Returned(d), Answers)
      BY <2>1, <2>2, CountConcat, ConcatFacts, Zenon
    <2>4. seqQueue \o Returned(d) \o Delivered(d) \in Seq(B)
          /\ Count(seqQueue \o Returned(d) \o Delivered(d), Answers)
               = Count(seqQueue \o Returned(d), Answers) + Count(Delivered(d), Answers)
      BY <2>2, <2>3, CountConcat, ConcatFacts, Zenon
    <2>5. Count(seqQueue, Answers) \in Nat
      BY <2>1, CountType, Zenon
    <2>6. Returns(d, "cmdSeq") \in Nat
      BY DEF Returns
    <2>7. Count(seqQueue', Answers)
            = (Count(seqQueue, Answers) + Returns(d, "cmdSeq")) + 0
      BY <1>4, <1>10, <1>11, <2>3, <2>4
    <2>8. Count(seqQueue', Answers) = Count(seqQueue, Answers) + Returns(d, "cmdSeq")
      BY <2>5, <2>6, <2>7
    <2> QED
      BY <1>4, <2>4, <2>5, <2>8 DEF B
  <1>13. /\ Own(d) \in Seq(DispMsgs)
         /\ \A r \in Ports : Count(Own(d), Buffers(r)) = 0
    <2>1. CASE d.send # <<>> /\ Head(d.send).cmd.op = "CMD_CLEAR_TRACKING"
      <3> DEFINE m == [kind |-> "own", seq |-> Head(d.send).seq]
      <3>1. m \in DispMsgs /\ \A r \in Ports : m \notin Buffers(r)
        BY <1>7, <2>1 DEF DispMsgs, Buffers
      <3>2. Own(d) = One(m)
        BY <2>1 DEF Own, One
      <3> HIDE DEF m
      <3>3. ASSUME NEW r \in Ports
            PROVE  One(m) \in Seq(DispMsgs) /\ Count(One(m), Buffers(r)) = IF m \in Buffers(r) THEN 1 ELSE 0
        BY <3>1, CountOne, Zenon
      <3>4. "router" \in Ports
        BY DEF Ports
      <3> QED
        BY <3>1, <3>2, <3>3, <3>4
    <2>2. CASE ~(d.send # <<>> /\ Head(d.send).cmd.op = "CMD_CLEAR_TRACKING")
      <3>1. Own(d) = <<>>
        BY <2>2 DEF Own
      <3>2. ASSUME NEW r \in Ports PROVE Count(<<>>, Buffers(r)) = 0
        <4>1. Places(<<>>, Buffers(r)) = {}
          BY DEF Places
        <4> QED
          BY <4>1, FS_EmptySet DEF Count
      <3>3. <<>> \in Seq(DispMsgs)
        OBVIOUS
      <3> QED
        BY <3>1, <3>2, <3>3
    <2> QED
      BY <2>1, <2>2
  <1>14. Tail(dispQueue) \in Seq(DispMsgs) /\ dispQueue' \in Seq(DispMsgs)
    <2>1. dispQueue \in Seq(DispMsgs)
      BY <1>1 DEF StateOK
    <2>2. Tail(dispQueue) \in Seq(DispMsgs)
      BY <2>1, CountTail, Zenon
    <2> QED
      BY <1>4, <1>13, <2>2, ConcatFacts, Zenon
  <1>15. ASSUME NEW r \in Ports
         PROVE  /\ Count(dispQueue, Buffers(r)) = Count(dispQueue', Buffers(r)) + (IF r = p THEN x ELSE 0)
                /\ Count(dispQueue', Buffers(r)) \in Nat
    <2> DEFINE M == Buffers(r)
    <2>1. dispQueue \in Seq(DispMsgs)
      BY <1>1 DEF StateOK
    <2>2. (IF Head(dispQueue) \in M THEN 1 ELSE 0) = IF r = p THEN x ELSE 0
      OBVIOUS
    <2> HIDE DEF M
    <2>3. Count(dispQueue, M) = (IF Head(dispQueue) \in M THEN 1 ELSE 0) + Count(Tail(dispQueue), M)
      BY <2>1, CountTail, Zenon
    <2>4. Count(Tail(dispQueue) \o Own(d), M) = Count(Tail(dispQueue), M) + Count(Own(d), M)
      BY <1>13, <1>14, CountConcat, Zenon
    <2>5. Count(Own(d), M) = 0
      BY <1>13 DEF M
    <2>6. Count(Tail(dispQueue), M) \in Nat
      BY <1>14, CountType, Zenon
    <2>7. Count(dispQueue', M) = Count(Tail(dispQueue), M)
      BY <1>4, <2>4, <2>5, <2>6
    <2> QED
      BY <2>2, <2>3, <2>6, <2>7 DEF M
  <1>16. ASSUME NEW r \in Ports
         PROVE  /\ Cardinality(Holding(d.tracker, r)) + Returns(d, r)
                     = Cardinality(Holding(disp.tracker, r)) + (IF r = p THEN x ELSE 0)
                /\ Cardinality(Holding(d.tracker, r)) \in Nat
                /\ Cardinality(Holding(disp.tracker, r)) \in Nat
                /\ Returns(d, r) \in Nat
    BY HoldingFinite DEF Balanced, Returns
  <1>17. awaited["router"] \in Nat /\ awaited["cmdSeq"] \in Nat /\ awaited \in [Ports -> Nat]
    BY <1>1 DEF StateOK, Ports
  <1>18. awaited'["router"] = awaited["router"] - Returns(d, "router")
         /\ awaited'["cmdSeq"] = awaited["cmdSeq"]
    BY <1>4, <1>8, <1>17 DEF Ports
  <1>19. awaited'["router"] = Count(dispQueue', Buffers("router")) + Cardinality(Holding(d.tracker, "router"))
    <2> "router" \in Ports
      BY DEF Ports
    <2>1. awaited["router"] = Count(dispQueue, Buffers("router"))
                                + Cardinality(Holding(disp.tracker, "router"))
      BY <1>1 DEF Conserved
    <2>2. /\ Count(dispQueue, Buffers("router"))
               = Count(dispQueue', Buffers("router")) + (IF "router" = p THEN x ELSE 0)
          /\ Count(dispQueue', Buffers("router")) \in Nat
      BY <1>15
    <2>3. /\ Cardinality(Holding(d.tracker, "router")) + Returns(d, "router")
               = Cardinality(Holding(disp.tracker, "router")) + (IF "router" = p THEN x ELSE 0)
          /\ Cardinality(Holding(d.tracker, "router")) \in Nat
          /\ Cardinality(Holding(disp.tracker, "router")) \in Nat
          /\ Returns(d, "router") \in Nat
      BY <1>16
    <2> DEFINE y == IF "router" = p THEN x ELSE 0
    <2>4. y \in Nat
      OBVIOUS
    <2> HIDE DEF y
    <2> QED
      BY <1>18, <2>1, <2>2, <2>3, <2>4 DEF y
  <1>20. awaited'["cmdSeq"] = Count(dispQueue', Buffers("cmdSeq")) + Cardinality(Holding(d.tracker, "cmdSeq"))
                               + Count(seqQueue', Answers)
    <2> "cmdSeq" \in Ports
      BY DEF Ports
    <2>1. awaited["cmdSeq"] = Count(dispQueue, Buffers("cmdSeq"))
                                + Cardinality(Holding(disp.tracker, "cmdSeq")) + Count(seqQueue, Answers)
      BY <1>1 DEF Conserved
    <2>2. /\ Count(dispQueue, Buffers("cmdSeq"))
               = Count(dispQueue', Buffers("cmdSeq")) + (IF "cmdSeq" = p THEN x ELSE 0)
          /\ Count(dispQueue', Buffers("cmdSeq")) \in Nat
      BY <1>15
    <2>3. /\ Cardinality(Holding(d.tracker, "cmdSeq")) + Returns(d, "cmdSeq")
               = Cardinality(Holding(disp.tracker, "cmdSeq")) + (IF "cmdSeq" = p THEN x ELSE 0)
          /\ Cardinality(Holding(d.tracker, "cmdSeq")) \in Nat
          /\ Cardinality(Holding(disp.tracker, "cmdSeq")) \in Nat
          /\ Returns(d, "cmdSeq") \in Nat
      BY <1>16
    <2> DEFINE y == IF "cmdSeq" = p THEN x ELSE 0
    <2>4. y \in Nat
      OBVIOUS
    <2> DEFINE c == Count(dispQueue', Buffers("cmdSeq"))
               h == Cardinality(Holding(d.tracker, "cmdSeq"))
               k == Cardinality(Holding(disp.tracker, "cmdSeq"))
               v == Returns(d, "cmdSeq")
               w == Count(seqQueue, Answers)
    <2>5. c \in Nat /\ h \in Nat /\ k \in Nat /\ v \in Nat /\ w \in Nat /\ h + v = k + y
      BY <1>12, <2>2, <2>3
    <2>6. awaited'["cmdSeq"] = (c + y) + k + w /\ Count(seqQueue', Answers) = w + v
      BY <1>12, <1>18, <2>1, <2>2
    <2> HIDE DEF y, c, h, k, v, w
    <2>7. (c + y) + k + w = c + h + (w + v)
      BY <2>4, <2>5
    <2> QED
      BY <2>6, <2>7 DEF c, h
  <1>21. Conserved'
    BY <1>5, <1>19, <1>20 DEF Conserved
  <1>22. awaited' \in [Ports -> Nat]
    <2>1. awaited'["router"] \in Nat
      <3>1. Count(dispQueue', Buffers("router")) \in Nat
        BY <1>15 DEF Ports
      <3>2. Cardinality(Holding(d.tracker, "router")) \in Nat
        BY <1>16 DEF Ports
      <3> QED
        BY <1>19, <3>1, <3>2
    <2> DEFINE k == awaited["router"] - Routed(d)
    <2>2. awaited' = [awaited EXCEPT !["router"] = k]
      BY <1>4
    <2>3. k \in Nat
      BY <1>8, <1>18, <2>1
    <2> HIDE DEF k
    <2> QED
      BY <1>17, <2>2, <2>3
  <1>23. StateOK'
    <2>1. 1..disp.seq - 1 \subseteq 1..d.seq - 1
      BY <1>2, <1>3
    <2> QED
      BY <1>1, <1>4, <1>5, <1>9, <1>12, <1>14, <1>22, <2>1 DEF StateOK
  <1>24. OwedInv'
    BY <1>1, <1>4 DEF OwedInv
  <1>25. TurnInv'
    BY <1>1, <1>4, <1>18 DEF TurnInv
  <1> QED
    BY <1>21, <1>23, <1>24, <1>25 DEF Inv

(* A command buffer.                                                       *)
LEMMA BufferStep ==
    ASSUME Inv, dispatcherBuffer
    PROVE  Inv'
  <1> DEFINE m == Head(dispQueue)
  <1>1. dispQueue # <<>> /\ m \in DispMsgs /\ IsCommand(m)
    <2>1. dispQueue \in Seq(DispMsgs) /\ dispQueue # <<>>
      BY DEF Inv, StateOK, dispatcherBuffer
    <2>2. Head(dispQueue) \in DispMsgs
      BY <2>1, CountTail, Zenon
    <2> QED
      BY <2>1, <2>2 DEF dispatcherBuffer
  <1>2. m.port \in Ports /\ m.cmd \in Cmds
    BY <1>1 DEF DispMsgs, OutMsgs, Statuses, Buffers, IsCommand, Ports
  <1>3. \A r \in Ports : (IF m \in Buffers(r) THEN 1 ELSE 0) = IF r = m.port THEN 1 ELSE 0
    BY <1>1 DEF DispMsgs, OutMsgs, Statuses, Buffers, IsCommand, Ports
  <1>4. dispatched(seqCmdBuff(disp, m.port, m.cmd))
    BY DEF dispatcherBuffer
  <1> HIDE DEF m
  <1>5. Balanced(seqCmdBuff(disp, m.port, m.cmd), disp, m.port, 1)
    BY <1>2, BufferBalanced DEF Inv, StateOK
  <1> DEFINE d == seqCmdBuff(disp, m.port, m.cmd)
             p == m.port
             x == 1
  <1>6. x \in {0, 1} /\ p \in Ports /\ Balanced(d, disp, p, x) /\ dispatched(d)
        /\ \A r \in Ports : (IF Head(dispQueue) \in Buffers(r) THEN 1 ELSE 0) = IF r = p THEN x ELSE 0
    BY <1>2, <1>3, <1>4, <1>5 DEF m
  <1> HIDE DEF d, p, x
  <1> QED
    BY <1>1, <1>6, DispatchPreserves, Zenon

(* The status of a command.                                                *)
LEMMA StatusStep ==
    ASSUME Inv, dispatcherStatus
    PROVE  Inv'
  <1> DEFINE m == Head(dispQueue)
             d == compCmdStat(disp, m.seq, m.response)
             p == "router"
             x == 0
  <1>1. dispQueue # <<>> /\ m \in DispMsgs /\ m.kind = "compCmdStat"
    <2>1. dispQueue \in Seq(DispMsgs) /\ dispQueue # <<>>
      BY DEF Inv, StateOK, dispatcherStatus
    <2>2. Head(dispQueue) \in DispMsgs
      BY <2>1, CountTail, Zenon
    <2> QED
      BY <2>1, <2>2 DEF dispatcherStatus
  <1>2. m.seq \in Nat /\ m.response \in Responses
    BY <1>1 DEF DispMsgs, OutMsgs, Statuses, Buffers
  <1>3. \A r \in Ports : m \notin Buffers(r)
    BY <1>1 DEF Buffers
  <1>4. dispatched(d)
    BY DEF dispatcherStatus
  <1>5. p \in Ports
    BY DEF Ports
  <1> HIDE DEF m, p
  <1>6. Balanced(d, disp, p, 0)
    BY <1>2, <1>5, StatusBalanced DEF Inv, StateOK
  <1> HIDE DEF d
  <1>7. x \in {0, 1} /\ Balanced(d, disp, p, x)
        /\ \A r \in Ports : (IF Head(dispQueue) \in Buffers(r) THEN 1 ELSE 0) = IF r = p THEN x ELSE 0
    BY <1>3, <1>6 DEF m
  <1> HIDE DEF x
  <1> QED
    BY <1>1, <1>4, <1>5, <1>7, DispatchPreserves, Zenon

(* What a step that leaves the sequencer alone and changes the queue of    *)
(* the dispatcher preserves: Conserved and the types of what it changed    *)
(* are what has to be shown.                                               *)
LEMMA ElsewherePreserves ==
    ASSUME Inv, UNCHANGED <<seqr, seqQueue, campaign, drops, owed, displaced, first, clean>>,
           dispQueue' \in Seq(DispMsgs), disp' \in DispState, disp'.seq = disp.seq,
           disp'.status = <<>>, disp'.send = <<>>,
           working' \subseteq working, awaited' \in [Ports -> Nat],
           awaited'["cmdSeq"] <= awaited["cmdSeq"], Conserved'
    PROVE  Inv'
  <1>1. StateOK'
    BY DEF Inv, StateOK
  <1>2. OwedInv'
    BY DEF Inv, OwedInv
  <1>3. TurnInv'
    <2> SUFFICES ASSUME clean PROVE Orderly(seqr, first, awaited'["cmdSeq"])
      BY DEF TurnInv
    <2>1. Orderly(seqr, first, awaited["cmdSeq"])
      BY DEF Inv, TurnInv
    <2>2. awaited["cmdSeq"] \in Nat /\ awaited'["cmdSeq"] \in Nat /\ first \in Nat /\ seqr \in SeqState
      BY DEF Inv, StateOK, Ports, Sound
    <2> QED
      BY <2>1, <2>2, TurnMonotone, Zenon
  <1> QED
    BY <1>1, <1>2, <1>3 DEF Inv

(* CMD_CLEAR_TRACKING: what was tracked is not awaited any more.           *)
LEMMA ClearStep ==
    ASSUME Inv, dispatcherClear
    PROVE  Inv'
  <1>1. StateOK /\ Conserved
    BY DEF Inv
  <1> DEFINE m == Head(dispQueue)
             e == [kind |-> "compCmdStat", seq |-> m.seq, response |-> "OK"]
             t == Tail(dispQueue)
  <1>2. dispQueue \in Seq(DispMsgs) /\ dispQueue # <<>> /\ m.kind = "own"
    BY <1>1 DEF StateOK, dispatcherClear
  <1>3. m \in DispMsgs /\ t \in Seq(DispMsgs)
    BY <1>2, CountTail, Zenon
  <1>4. \A r \in Ports : m \notin Buffers(r)
    BY <1>2 DEF Buffers
  <1>5. e \in DispMsgs /\ \A r \in Ports : e \notin Buffers(r)
    <2>1. m.seq \in Nat
      BY <1>2, <1>3 DEF DispMsgs, OutMsgs, Statuses, Buffers
    <2> QED
      BY <2>1 DEF DispMsgs, OutMsgs, Statuses, Responses, Buffers
  <1>6. dispQueue' = Append(t, e) /\ disp' = CMD_CLEAR_TRACKING(disp)
        /\ awaited' = [p \in Ports |-> awaited[p] - Tracked(p)]
        /\ UNCHANGED <<seqr, seqQueue, working, campaign, drops, owed, displaced, first, clean>>
    BY DEF dispatcherClear
  <1> HIDE DEF m, e
  <1>7. dispQueue' \in Seq(DispMsgs)
    BY <1>3, <1>5, <1>6, CountAppend, Zenon
  <1>8. ASSUME NEW r \in Ports
        PROVE  Count(dispQueue', Buffers(r)) = Count(dispQueue, Buffers(r))
               /\ Count(dispQueue, Buffers(r)) \in Nat
    <2> DEFINE M == Buffers(r)
    <2>1. m \notin M /\ e \notin M
      BY <1>4, <1>5
    <2> HIDE DEF M
    <2>2. Count(dispQueue, M) = (IF m \in M THEN 1 ELSE 0) + Count(t, M)
      BY <1>2, CountTail, Zenon DEF m
    <2> HIDE DEF t
    <2>3. Count(Append(t, e), M) = Count(t, M) + (IF e \in M THEN 1 ELSE 0)
      <3>1. t \in Seq(DispMsgs) /\ e \in DispMsgs
        BY <1>3, <1>5
      <3> QED
        BY <3>1, CountAppend
    <2>4. Count(t, M) \in Nat
      BY <1>3, CountType, Zenon
    <2> QED
      BY <1>6, <2>1, <2>2, <2>3, <2>4 DEF M
  <1>9. disp \in DispState /\ disp.tracker \in Tables
    BY <1>1 DEF StateOK, DispState
  <1>10. /\ disp' \in DispState /\ disp'.seq = disp.seq /\ disp'.status = <<>> /\ disp'.send = <<>>
         /\ \A i \in 1..Slots : disp'.tracker[i] = NoEntry
    <2> DEFINE u == [i \in DOMAIN disp.tracker |-> NoEntry]
    <2>1. u \in Tables /\ \A i \in 1..Slots : u[i] = NoEntry
      BY <1>9 DEF Tables
    <2>2. disp' = [disp EXCEPT !.tracker = u]
      BY <1>6 DEF CMD_CLEAR_TRACKING
    <2> HIDE DEF u
    <2>3. disp' \in DispState /\ disp'.tracker = u
      BY <1>9, <2>1, <2>2 DEF DispState
    <2>4. disp'.seq = disp.seq /\ disp'.status = disp.status /\ disp'.send = disp.send
      BY <1>9, <2>2 DEF DispState
    <2>5. disp.status = <<>> /\ disp.send = <<>>
      BY <1>1 DEF StateOK
    <2> QED
      BY <2>1, <2>3, <2>4, <2>5
  <1>11. ASSUME NEW r \in Ports PROVE Cardinality(Holding(disp'.tracker, r)) = 0
    <2>1. Holding(disp'.tracker, r) = {}
      BY <1>10 DEF Holding, NoEntry
    <2> QED
      BY <2>1, FS_EmptySet
  <1>12. ASSUME NEW r \in Ports
         PROVE  Tracked(r) = Cardinality(Holding(disp.tracker, r)) /\ Tracked(r) \in Nat
    BY HoldingFinite, Zenon DEF Tracked, Holding
  <1>13. awaited["router"] \in Nat /\ awaited["cmdSeq"] \in Nat
    BY <1>1 DEF StateOK, Ports
  <1>14. awaited'["router"] = awaited["router"] - Tracked("router")
         /\ awaited'["cmdSeq"] = awaited["cmdSeq"] - Tracked("cmdSeq")
    BY <1>6 DEF Ports
  <1>15. awaited'["router"] = Count(dispQueue', Buffers("router"))
         /\ awaited'["router"] \in Nat
    <2> "router" \in Ports
      BY DEF Ports
    <2>1. awaited["router"] = Count(dispQueue, Buffers("router")) + Tracked("router")
      BY <1>1, <1>12 DEF Conserved
    <2>2. Count(dispQueue', Buffers("router")) = Count(dispQueue, Buffers("router"))
          /\ Count(dispQueue, Buffers("router")) \in Nat /\ Tracked("router") \in Nat
      BY <1>8, <1>12
    <2> QED
      BY <1>14, <2>1, <2>2
  <1>16. awaited'["cmdSeq"] = Count(dispQueue', Buffers("cmdSeq")) + Count(seqQueue', Answers)
         /\ awaited'["cmdSeq"] \in Nat /\ awaited'["cmdSeq"] <= awaited["cmdSeq"]
         /\ Count(dispQueue', Buffers("cmdSeq")) \in Nat /\ Count(seqQueue', Answers) \in Nat
    <2> "cmdSeq" \in Ports
      BY DEF Ports
    <2>1. awaited["cmdSeq"] = Count(dispQueue, Buffers("cmdSeq")) + Tracked("cmdSeq")
                                + Count(seqQueue, Answers)
      BY <1>1, <1>12 DEF Conserved
    <2>2. Count(dispQueue', Buffers("cmdSeq")) = Count(dispQueue, Buffers("cmdSeq"))
          /\ Count(dispQueue, Buffers("cmdSeq")) \in Nat /\ Tracked("cmdSeq") \in Nat
      BY <1>8, <1>12
    <2>3. Count(seqQueue, Answers) \in Nat
      BY <1>1, CountType, Zenon DEF StateOK
    <2>4. Count(seqQueue', Answers) = Count(seqQueue, Answers)
      BY <1>6
    <2>5. ASSUME NEW c \in Nat, NEW h \in Nat, NEW a \in Nat
          PROVE  c + h + a - h = c + a /\ c + a \in Nat /\ c + a <= c + h + a
      OBVIOUS
    <2> QED
      BY <1>14, <2>1, <2>2, <2>3, <2>4, <2>5
  <1>17. Conserved'
    <2> "router" \in Ports /\ "cmdSeq" \in Ports
      BY DEF Ports
    <2>1. Cardinality(Holding(disp'.tracker, "router")) = 0
          /\ Cardinality(Holding(disp'.tracker, "cmdSeq")) = 0
      BY <1>11
    <2>2. awaited'["router"] = Count(dispQueue', Buffers("router")) + 0
      BY <1>15
    <2>3. awaited'["cmdSeq"] = Count(dispQueue', Buffers("cmdSeq")) + 0 + Count(seqQueue', Answers)
      BY <1>16
    <2> QED
      BY <2>1, <2>2, <2>3 DEF Conserved
  <1>18. awaited' \in [Ports -> Nat]
    BY <1>6, <1>15, <1>16 DEF Ports
  <1> HIDE DEF t
  <1> QED
    BY <1>6, <1>7, <1>10, <1>16, <1>17, <1>18, ElsewherePreserves, Zenon

(* Another component answers.                                              *)
LEMMA WorkerStep ==
    ASSUME Inv, workerResponds
    PROVE  Inv'
  <1>1. StateOK /\ Conserved
    BY DEF Inv
  <1>2. PICK n \in working, r \in {"OK", "EXECUTION_ERROR"} :
            /\ working' = working \ {n}
            /\ dispQueue' = Append(dispQueue, [kind |-> "compCmdStat", seq |-> n, response |-> r])
    BY DEF workerResponds
  <1>3. UNCHANGED <<seqr, seqQueue, disp, campaign, drops, awaited, owed, displaced, first, clean>>
    BY DEF workerResponds
  <1> DEFINE e == [kind |-> "compCmdStat", seq |-> n, response |-> r]
  <1>4. e \in DispMsgs /\ \A p \in Ports : e \notin Buffers(p)
    <2>1. n \in Nat
      BY <1>1 DEF StateOK, DispState
    <2> QED
      BY <2>1 DEF DispMsgs, OutMsgs, Statuses, Responses, Buffers
  <1>5. dispQueue \in Seq(DispMsgs) /\ dispQueue' = Append(dispQueue, e)
    BY <1>1, <1>2 DEF StateOK
  <1> HIDE DEF e
  <1>6. dispQueue' \in Seq(DispMsgs)
    BY <1>4, <1>5, CountAppend, Zenon
  <1>7. ASSUME NEW p \in Ports PROVE Count(dispQueue', Buffers(p)) = Count(dispQueue, Buffers(p))
    <2> DEFINE M == Buffers(p)
    <2>1. e \notin M
      BY <1>4
    <2> HIDE DEF M
    <2>2. Count(Append(dispQueue, e), M) = Count(dispQueue, M) + (IF e \in M THEN 1 ELSE 0)
      <3>1. dispQueue \in Seq(DispMsgs) /\ e \in DispMsgs
        BY <1>4, <1>5
      <3> QED
        BY <3>1, CountAppend
    <2>3. Count(dispQueue, M) \in Nat
      BY <1>5, CountType, Zenon
    <2> QED
      BY <1>5, <2>1, <2>2, <2>3 DEF M
  <1>8. Conserved'
    <2>1. Count(dispQueue', Buffers("router")) = Count(dispQueue, Buffers("router"))
          /\ Count(dispQueue', Buffers("cmdSeq")) = Count(dispQueue, Buffers("cmdSeq"))
      BY <1>7 DEF Ports
    <2> QED
      BY <1>1, <1>3, <2>1 DEF Conserved
  <1>9. awaited' \in [Ports -> Nat] /\ awaited'["cmdSeq"] <= awaited["cmdSeq"]
        /\ disp' \in DispState /\ disp'.seq = disp.seq /\ disp'.status = <<>> /\ disp'.send = <<>>
    BY <1>1, <1>3 DEF StateOK, Ports
  <1>10. working' \subseteq working
    BY <1>2
  <1> QED
    BY <1>3, <1>6, <1>8, <1>9, <1>10, ElsewherePreserves, Zenon

(* The ground sends a command.                                             *)
LEMMA GroundStep ==
    ASSUME Inv, groundSends
    PROVE  Inv'
  <1>1. StateOK /\ Conserved
    BY DEF Inv
  <1>2. PICK cmd \in GroundCommands :
            dispQueue' = Append(dispQueue, [kind |-> "seqCmdBuff", port |-> "router", cmd |-> cmd])
    BY DEF groundSends
  <1>3. /\ UNCHANGED <<seqr, seqQueue, disp, working, campaign, drops, owed, displaced, first, clean>>
        /\ awaited' = [awaited EXCEPT !["router"] = @ + 1]
    BY DEF groundSends
  <1>4. cmd \in Cmds
    <2>1. campaign \in Campaigns /\ campaign.ops \subseteq Opcodes /\ campaign.files \subseteq Files
      BY <1>1, CommandingAssumption DEF StateOK, Files
    <2>2. campaign.ops \ {"CS_RUN", "CS_VALIDATE"} \subseteq Ops
      BY <2>1 DEF Ops, Records
    <2> QED
      BY <2>1, <2>2 DEF GroundCommands, Cmds
  <1> DEFINE e == [kind |-> "seqCmdBuff", port |-> "router", cmd |-> cmd]
             R == Buffers("router")
             C == Buffers("cmdSeq")
  <1>5. e \in DispMsgs /\ e \in R /\ e \notin C
    BY <1>4 DEF DispMsgs, Buffers
  <1>6. dispQueue \in Seq(DispMsgs) /\ dispQueue' = Append(dispQueue, e)
    BY <1>1, <1>2 DEF StateOK
  <1> HIDE DEF e, R, C
  <1>7. dispQueue' \in Seq(DispMsgs)
        /\ Count(dispQueue', R) = Count(dispQueue, R) + (IF e \in R THEN 1 ELSE 0)
        /\ Count(dispQueue', C) = Count(dispQueue, C) + (IF e \in C THEN 1 ELSE 0)
    <2>1. dispQueue \in Seq(DispMsgs) /\ e \in DispMsgs
      BY <1>5, <1>6
    <2>2. Append(dispQueue, e) \in Seq(DispMsgs)
          /\ Count(Append(dispQueue, e), R) = Count(dispQueue, R) + (IF e \in R THEN 1 ELSE 0)
      BY <2>1, CountAppend
    <2>3. Count(Append(dispQueue, e), C) = Count(dispQueue, C) + (IF e \in C THEN 1 ELSE 0)
      BY <2>1, CountAppend
    <2> QED
      BY <1>6, <2>2, <2>3
  <1>8. Count(dispQueue, R) \in Nat /\ Count(dispQueue, C) \in Nat
    BY <1>6, CountType, Zenon
  <1>9. Count(dispQueue', R) = Count(dispQueue, R) + 1 /\ Count(dispQueue', C) = Count(dispQueue, C)
    BY <1>5, <1>7, <1>8
  <1>10. awaited \in [Ports -> Nat] /\ awaited["router"] \in Nat /\ awaited["cmdSeq"] \in Nat
    BY <1>1 DEF StateOK, Ports
  <1>11. awaited' \in [Ports -> Nat] /\ awaited'["router"] = awaited["router"] + 1
         /\ awaited'["cmdSeq"] = awaited["cmdSeq"]
    BY <1>3, <1>10 DEF Ports
  <1>12. Conserved'
    <2> DEFINE H == Cardinality(Holding(disp.tracker, "router"))
    <2>1. H \in Nat
      BY HoldingFinite, Zenon
    <2>2. awaited["router"] = Count(dispQueue, R) + H
      BY <1>1 DEF Conserved, R
    <2> HIDE DEF H
    <2>3. awaited'["router"] = Count(dispQueue', R) + H
      BY <1>8, <1>9, <1>11, <2>1, <2>2
    <2>4. awaited'["cmdSeq"] = Count(dispQueue', C) + Cardinality(Holding(disp.tracker, "cmdSeq"))
                                 + Count(seqQueue, Answers)
      BY <1>1, <1>9, <1>11 DEF Conserved, C
    <2> QED
      BY <1>3, <2>3, <2>4 DEF Conserved, R, C, H
  <1>13. awaited'["cmdSeq"] <= awaited["cmdSeq"] /\ working' \subseteq working
         /\ disp' \in DispState /\ disp'.seq = disp.seq /\ disp'.status = <<>> /\ disp'.send = <<>>
    BY <1>1, <1>3, <1>10, <1>11 DEF StateOK
  <1> QED
    BY <1>3, <1>7, <1>11, <1>12, <1>13, ElsewherePreserves, Zenon

(***************************************************************************)
(* The theorems.                                                           *)
(***************************************************************************)

(* The invariant is inductive.                                             *)
LEMMA Inductive ==
    ASSUME Inv, [Next]_vars
    PROVE  Inv'
  <1>1. CASE sequencerCommand
    BY <1>1, CommandStep
  <1>2. CASE sequencerResponse
    BY <1>2, ResponseStep
  <1>3. CASE schedIn
    BY <1>3, SchedStep
  <1>4. CASE dispatcherBuffer
    BY <1>4, BufferStep
  <1>5. CASE dispatcherStatus
    BY <1>5, StatusStep
  <1>6. CASE dispatcherClear
    BY <1>6, ClearStep
  <1>7. CASE workerResponds
    BY <1>7, WorkerStep
  <1>8. CASE groundSends
    BY <1>8, GroundStep
  <1>9. CASE UNCHANGED vars
    BY <1>9 DEF vars, Inv, StateOK, Conserved, OwedInv, TurnInv
  <1> QED
    BY <1>1, <1>2, <1>3, <1>4, <1>5, <1>6, <1>7, <1>8, <1>9 DEF Next, Sequencer, Dispatcher

(* ... and so it holds throughout.                                         *)
LEMMA Throughout ==
    Spec => []Inv
  <1>1. Inv /\ [Next]_vars => Inv'
    BY Inductive
  <1> QED
    BY Initially, <1>1, PTL DEF Spec

(* Every state is well formed, for all tables, campaigns and files: the    *)
(* read position never leaves the sequence buffer, no port is owed fewer   *)
(* than no statuses, and only numbers the dispatcher has given are used.   *)
THEOREM CommandingTyped ==
    Spec => []TypeOK
  <1>1. Inv => TypeOK
    BY Implies
  <1> QED
    BY Throughout, <1>1, PTL

(* CommandDispatcher returns one status for each command it was given,     *)
(* less those that are in the queue, tracked or on their way, whatever is  *)
(* dropped, cleared, cancelled or answered twice.                          *)
THEOREM StatusesConserved ==
    Spec => []StatusConserved
  <1>1. Inv => StatusConserved
    BY Implies
  <1> QED
    BY Throughout, <1>1, PTL

(* CmdSequencer, which credits any response to the command sent last, has  *)
(* one command of a run out at most and reads a record only when the one   *)
(* before was answered, if the run began with nothing awaited and was      *)
(* stepped in turn.                                                        *)
THEOREM RunsInTurn ==
    Spec => []InTurn
  <1>1. Inv => InTurn
    BY Implies
  <1> QED
    BY Throughout, <1>1, PTL

(* Every command CmdSequencer takes is answered, waits as the recorded     *)
(* owner of m_cmdSeq, or was displaced by a later one.                     *)
THEOREM AnswersOwed ==
    Spec => []AnswerOwed
  <1>1. Inv => AnswerOwed
    BY Implies
  <1> QED
    BY Throughout, <1>1, PTL

(* The FW_ASSERT of nextRecord fails only after a step out of turn or in a *)
(* file that had been refused.                                             *)
THEOREM NeverPastTheEnd ==
    Spec => []RecordsLast
  <1>1. Inv => RecordsLast
    BY Implies
  <1> QED
    BY Throughout, <1>1, PTL
=============================================================================
