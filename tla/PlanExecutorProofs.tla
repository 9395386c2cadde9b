------------------------- MODULE PlanExecutorProofs -------------------------
(***************************************************************************)
(* Proofs about PlanExecutor, for any number of steps, retries and         *)
(* readers, with the process stopping anywhere: types, what the readers    *)
(* get, and what the checkpoint file claims.                               *)
(***************************************************************************)
EXTENDS PlanExecutor, SequenceTheorems, FiniteSetTheorems, TLAPS

-----------------------------------------------------------------------------
(* Sequences.                                                               *)

Item == Entry \cup {END}

LEMMA Single ==
    ASSUME NEW S, NEW e \in S
    PROVE  <<e>> \in Seq(S)
<1>1. <<e>> \in [1 .. 1 -> S]
    OBVIOUS
<1> QED
    BY <1>1, SeqDef

LEMMA AppendAfter ==
    ASSUME NEW S, NEW s \in Seq(S), NEW t \in Seq(S), NEW e \in S
    PROVE  s \o Append(t, e) = Append(s \o t, e)
<1> DEFINE one == <<e>>
<1>1. one \in Seq(S)
    BY Single
<1>2. Append(t, e) = t \o one /\ s \o t \in Seq(S)
    BY AppendIsConcat, ConcatProperties
<1>3. Append(s \o t, e) = (s \o t) \o one
    BY <1>2, AppendIsConcat
<1> HIDE DEF one
<1>4. (s \o t) \o one = s \o (t \o one)
    BY <1>1, ConcatAssociative
<1> QED
    BY <1>2, <1>3, <1>4

\* Taking the head of what is left and appending it to what was taken loses
\* nothing.
LEMMA HeadAfter ==
    ASSUME NEW S, NEW s \in Seq(S), NEW t \in Seq(S), t # << >>
    PROVE  /\ Head(t) \in S
           /\ Append(s, Head(t)) \o Tail(t) = s \o t
           /\ Append(s, Head(t)) \in Seq(S) /\ Tail(t) \in Seq(S)
<1> DEFINE h == Head(t)
           u == Tail(t)
           one == <<h>>
<1>1. h \in S /\ u \in Seq(S) /\ Len(u) = Len(t) - 1 /\ Len(t) \in Nat /\ Len(t) # 0
      /\ \A i \in 1 .. Len(u) : u[i] = t[i + 1]
    BY HeadTailProperties, LenProperties, EmptySeq
<1>2. h = t[1]
    BY <1>1, HeadTailProperties
<1> HIDE DEF h, u
<1>3. one \in Seq(S)
    BY <1>1, Single
<1>3a. Len(one) = 1 /\ one[1] = h
    OBVIOUS
<1>9. Append(s, h) = s \o one /\ Append(s, h) \in Seq(S)
    BY <1>1, AppendIsConcat, AppendProperties
<1> HIDE DEF one
<1>4. one \o u \in Seq(S) /\ Len(one \o u) = Len(one) + Len(u)
      /\ \A i \in 1 .. Len(one) + Len(u) :
             (one \o u)[i] = IF i <= Len(one) THEN one[i] ELSE u[i - Len(one)]
    <2>1. u \in Seq(S)
        BY <1>1
    <2> QED
        BY <1>3, <2>1, ConcatProperties
<1>5. PICK n \in Nat : n + 1 = Len(t) /\ n = Len(u)
    BY <1>1
<1>6. \A i \in 1 .. n + 1 : (one \o u)[i] = t[i]
    <2>1. ASSUME NEW i \in 1 .. n + 1 PROVE (one \o u)[i] = t[i]
        <3>1. i \in 1 .. Len(one) + Len(u)
            BY <1>3a, <1>5
        <3>2. CASE i = 1
            BY <1>2, <1>3a, <1>4, <3>1, <3>2
        <3>3. CASE i # 1
            <4>1. i - 1 \in 1 .. n /\ (i - 1) + 1 = i /\ ~ (i <= 1)
                BY <3>3
            <4>2. (one \o u)[i] = u[i - 1] /\ u[i - 1] = t[(i - 1) + 1]
                BY <1>1, <1>3a, <1>4, <1>5, <3>1, <4>1
            <4> QED
                BY <4>1, <4>2
        <3> QED
            BY <3>2, <3>3
    <2> QED
        BY <2>1
<1>7. Len(one \o u) = n + 1
    BY <1>3a, <1>4, <1>5
<1>8. one \o u = t
    BY <1>4, <1>5, <1>6, <1>7, SeqEqual
<1>10. (s \o one) \o u = s \o (one \o u)
    <2>1. u \in Seq(S)
        BY <1>1
    <2> QED
        BY <1>3, <2>1, ConcatAssociative
<1> QED
    BY <1>1, <1>8, <1>9, <1>10 DEF h, u

\* One entry more adds its step to those with its type.
LEMMA OneEntryMore ==
    ASSUME NEW log \in Seq(Entry), NEW e \in Entry, NEW type
    PROVE  stepsWith(type, Append(log, e)) =
               stepsWith(type, log) \cup (IF e.type = type THEN {e.step} ELSE {})
<1>1. /\ Append(log, e) \in Seq(Entry) /\ Len(Append(log, e)) = Len(log) + 1
      /\ \A i \in 1 .. Len(log) : Append(log, e)[i] = log[i]
      /\ Append(log, e)[Len(log) + 1] = e
    BY AppendProperties
<1>2. /\ Len(log) \in Nat /\ DOMAIN log = 1 .. Len(log)
      /\ DOMAIN Append(log, e) = 1 .. Len(log) + 1
    BY <1>1, LenProperties
<1>3. ToSet(Append(log, e)) = ToSet(log) \cup {e}
    BY <1>1, <1>2 DEF ToSet
<1> QED
    BY <1>3 DEF stepsWith

\* A sequence that agrees with a longer one as far as it goes is a prefix of it.
LEMMA PrefixOf ==
    ASSUME NEW S, NEW s \in Seq(S), NEW t \in Seq(S), Len(s) <= Len(t),
           \A i \in 1 .. Len(s) : s[i] = t[i]
    PROVE  IsPrefix(s, t)
<1>1. PICK n \in Nat : n = Len(s)
    BY LenProperties
<1>2. PICK m \in Nat : m = Len(t)
    BY LenProperties
<1>3. /\ SubSeq(s, 1, n) \in Seq(S) /\ Len(SubSeq(s, 1, n)) = n
      /\ \A i \in 1 .. n : SubSeq(s, 1, n)[i] = s[i]
    BY <1>1
<1>4. /\ SubSeq(t, 1, n) \in Seq(S) /\ Len(SubSeq(t, 1, n)) = n
      /\ \A i \in 1 .. n : SubSeq(t, 1, n)[i] = t[i]
    BY <1>1, <1>2
<1>5. SubSeq(s, 1, n) = SubSeq(t, 1, n)
    <2> DEFINE a == SubSeq(s, 1, n)
               b == SubSeq(t, 1, n)
    <2>1. a \in Seq(S) /\ b \in Seq(S) /\ Len(a) = Len(b)
          /\ \A i \in 1 .. Len(a) : a[i] = b[i]
        BY <1>1, <1>3, <1>4
    <2> HIDE DEF a, b
    <2>2. a = b
        BY <2>1, SeqEqual
    <2> QED
        BY <2>2 DEF a, b
<1> QED
    BY <1>1, <1>5 DEF IsPrefix

LEMMA EntriesAreItems == \A s \in Seq(Entry) : s \in Seq(Item)
<1> SUFFICES ASSUME NEW s \in Seq(Entry) PROVE s \in Seq(Item)
    OBVIOUS
<1>1. Entry \subseteq Item
    BY DEF Item
<1>2. PICK n \in Nat : s \in [1 .. n -> Entry]
    BY SeqDef
<1>3. s \in [1 .. n -> Item]
    BY <1>1, <1>2
<1> QED
    BY <1>3, SeqDef

-----------------------------------------------------------------------------
(* Types.                                                                   *)

\* An execution that is at a step is at one of the plan.
AtStep ==
    run.pc \in {"attempt", "invoking", "saving", "writing"} => run.index \in Position

Types == TypeOK /\ AtStep

LEMMA Entries ==
    /\ \A type \in StepEvents, i \in Position : [type |-> type, step |-> i] \in Entry
    /\ \A type \in {"EXECUTION_STARTED", "EXECUTION_COMPLETED", "EXECUTION_FAILED"} :
           final(type) \in Entry
    /\ END \notin Entry
    BY DEF Entry, StepEvents, final, END

\* What an appended entry adds to journal and queues.
LEMMA Appended ==
    ASSUME Types, NEW e \in Entry, append(e)
    PROVE  /\ journal' \in Seq(Entry)
           /\ Last(journal') = e
           /\ \A type : stepsWith(type, journal') =
                  stepsWith(type, journal) \cup (IF e.type = type THEN {e.step} ELSE {})
           /\ bus' \in [closed : BOOLEAN, queue : [Reader -> Seq(Item)],
                        subscribers : SUBSET Reader]
           /\ bus'.closed = bus.closed /\ bus'.subscribers = bus.subscribers
<1>1. journal' = Append(journal, e) /\ journal \in Seq(Entry)
    BY DEF append, Types, TypeOK
<1>2. /\ journal' \in Seq(Entry) /\ Len(journal') = Len(journal) + 1
      /\ journal'[Len(journal) + 1] = e
    BY <1>1, AppendProperties
<1>3. Last(journal') = e
    BY <1>2 DEF Last
<1>4. \A type : stepsWith(type, journal') =
          stepsWith(type, journal) \cup (IF e.type = type THEN {e.step} ELSE {})
    BY <1>1, OneEntryMore
<1>5. pushed(e) \in [Reader -> Seq(Item)]
    <2>1. \A r \in Reader : bus.queue[r] \in Seq(Item) /\ e \in Item
        BY DEF Types, TypeOK, Item
    <2>2. \A r \in Reader : Append(bus.queue[r], e) \in Seq(Item)
        BY <2>1, AppendProperties
    <2> QED
        BY <2>1, <2>2 DEF pushed
<1>6. bus' = bus \/ bus' = [bus EXCEPT !.queue = pushed(e)]
    BY DEF append
<1> QED
    BY <1>2, <1>3, <1>4, <1>5, <1>6 DEF Types, TypeOK, Item

\* The entry that each step of the executor logs.
Logged(e) == e \in Entry /\ append(e)

LEMMA InitTypes == Init => Types
<1> SUFFICES ASSUME Init PROVE Types
    OBVIOUS
<1>1. \A S : << >> \in Seq(S)
    BY EmptySeq
<1> QED
    BY <1>1, PlanAssumption DEF Init, Types, TypeOK, AtStep, NoRun, Pcs, Position

\* One fact per action: what it logs.
LEMMA StepsLog ==
    ASSUME Types
    PROVE  /\ execute => Logged(final("EXECUTION_STARTED"))
           /\ startStep => run.index \in Position /\ Logged(entry("STEP_STARTED"))
           /\ invoke => Logged(entry("PROVIDER_INVOKED"))
           /\ providerAnswers => Logged(entry("STEP_COMPLETED"))
           /\ stepFails => Logged(entry("STEP_FAILED"))
           /\ checkpointSaved => Logged(entry("CHECKPOINT_SAVED"))
           /\ finish => Logged(final(IF run.failed THEN "EXECUTION_FAILED"
                                     ELSE "EXECUTION_COMPLETED"))
<1>1. execute => Logged(final("EXECUTION_STARTED"))
    BY Entries DEF execute, Logged
<1>2. startStep => run.index \in Position
    <2> SUFFICES ASSUME startStep PROVE run.index \in Position
        OBVIOUS
    <2>1. run.index \in 1 .. Steps + 1 /\ run.index <= Steps
        BY DEF startStep, Types, TypeOK
    <2> QED
        BY <2>1, PlanAssumption DEF Position
<1>3. startStep => Logged(entry("STEP_STARTED"))
    BY <1>2, Entries DEF startStep, Logged, entry, StepEvents
<1>4. invoke => Logged(entry("PROVIDER_INVOKED"))
    BY Entries DEF invoke, Logged, entry, StepEvents, Types, AtStep
<1>5. providerAnswers => Logged(entry("STEP_COMPLETED"))
    BY Entries DEF providerAnswers, Logged, entry, StepEvents, Types, AtStep
<1>6. stepFails => Logged(entry("STEP_FAILED"))
    BY Entries DEF stepFails, Logged, entry, StepEvents, Types, AtStep
<1>7. checkpointSaved => Logged(entry("CHECKPOINT_SAVED"))
    BY Entries DEF checkpointSaved, Logged, entry, StepEvents, Types, AtStep
<1>8. finish => Logged(final(IF run.failed THEN "EXECUTION_FAILED" ELSE "EXECUTION_COMPLETED"))
    BY Entries DEF finish, Logged
<1> QED
    BY <1>1, <1>2, <1>3, <1>4, <1>5, <1>6, <1>7, <1>8

RunTypes ==
    run \in [pc : Pcs, continueOnFailure : BOOLEAN, index : 1 .. Steps + 1,
             attempts : 0 .. MaxRetries + 1, completed : SUBSET Position,
             failedSteps : SUBSET Position, failed : BOOLEAN]

LEMMA StepTypes == Types /\ [Next]_vars => Types'
<1> SUFFICES ASSUME Types, [Next]_vars PROVE Types'
    OBVIOUS
<1> USE PlanAssumption
<1>0. RunTypes /\ AtStep
    BY DEF Types, TypeOK, RunTypes
<1>a. ASSUME NEW e \in Entry, append(e), (RunTypes /\ AtStep)', UNCHANGED <<received, resumption>>,
             checkpoint' = checkpoint \/ checkpoint' \in Checkpoint,
             result' = result \/ result' = Torn
      PROVE  Types'
    <2>1. journal' \in Seq(Entry)
          /\ bus' \in [closed : BOOLEAN, queue : [Reader -> Seq(Item)],
                       subscribers : SUBSET Reader]
        BY <1>a, Appended
    <2>2. (RunTypes /\ AtStep)' /\ received' = received /\ resumption' = resumption
        BY <1>a
    <2>3. (checkpoint' \in {Absent, Torn} \/ checkpoint' \in Checkpoint)
          /\ (result' \in {Absent, Torn} \/ result' \in Result)
        BY <1>a DEF Types, TypeOK
    <2> QED
        BY <2>1, <2>2, <2>3 DEF Types, TypeOK, RunTypes, Item
<1>1. CASE execute
    <2>1. (RunTypes /\ AtStep)'
        BY <1>0, <1>1 DEF execute, RunTypes, AtStep, Pcs
    <2> QED
        BY <1>a, <1>1, <2>1, StepsLog DEF execute, Logged
<1>2. CASE startStep
    <2>1. (RunTypes /\ AtStep)'
        <3>1. 1 \in 0 .. MaxRetries + 1 /\ run.index \in Position
            BY <1>2, StepsLog
        <3>2. run' = [run EXCEPT !.pc = "attempt", !.attempts = 1]
            BY <1>2 DEF startStep
        <3> HIDE PlanAssumption
        <3> QED
            BY <1>0, <3>1, <3>2 DEF RunTypes, AtStep, Pcs
    <2> QED
        BY <1>a, <1>2, <2>1, StepsLog DEF startStep, Logged
<1>3. CASE invoke
    <2>1. (RunTypes /\ AtStep)'
        BY <1>0, <1>3 DEF invoke, RunTypes, AtStep, Pcs
    <2> QED
        BY <1>a, <1>3, <2>1, StepsLog DEF invoke, Logged
<1>4. CASE providerAnswers
    <2>1. (RunTypes /\ AtStep)'
        BY <1>0, <1>4 DEF providerAnswers, RunTypes, AtStep, Pcs
    <2> QED
        BY <1>a, <1>4, <2>1, StepsLog DEF providerAnswers, Logged
<1>5. CASE attemptFails
    <2>1. (RunTypes /\ AtStep)'
        <3>1. run.attempts \in 0 .. MaxRetries + 1 /\ run.attempts <= MaxRetries
            BY <1>0, <1>5 DEF attemptFails, retriesLeft, RunTypes
        <3>2. run.attempts + 1 \in 0 .. MaxRetries + 1
            BY <3>1
        <3>3. /\ run.pc \in {"attempt", "invoking"} /\ run.index \in Position
              /\ run' = [run EXCEPT !.pc = "attempt", !.attempts = run.attempts + 1]
            BY <1>0, <1>5 DEF attemptFails, AtStep
        <3> HIDE PlanAssumption
        <3> QED
            BY <1>0, <3>2, <3>3 DEF RunTypes, AtStep, Pcs
    <2> QED
        BY <1>5, <2>1 DEF attemptFails, Types, TypeOK, RunTypes
<1>6. CASE stepFails
    <2>1. (RunTypes /\ AtStep)'
        BY <1>0, <1>6 DEF stepFails, RunTypes, AtStep, Pcs
    <2> QED
        BY <1>a, <1>6, <2>1, StepsLog DEF stepFails, Logged
<1>7. CASE saveCheckpoint
    <2>1. (RunTypes /\ AtStep)'
        BY <1>0, <1>7 DEF saveCheckpoint, RunTypes, AtStep, Pcs
    <2> QED
        BY <1>7, <2>1 DEF saveCheckpoint, Types, TypeOK, RunTypes
<1>8. CASE checkpointSaved
    <2>1. (RunTypes /\ AtStep)'
        <3>1. run.index \in Position
            BY <1>0, <1>8 DEF checkpointSaved, AtStep
        <3>2. run.index + 1 \in 1 .. Steps + 1
            BY <3>1 DEF Position
        <3>3. run' = [run EXCEPT !.pc = "loop", !.index = run.index + 1]
            BY <1>8 DEF checkpointSaved
        <3> HIDE PlanAssumption
        <3> QED
            BY <1>0, <3>2, <3>3 DEF RunTypes, AtStep, Pcs
    <2>2. checkpoint' \in Checkpoint
        <3>1. Len(journal) \in Nat
            BY LenProperties DEF Types, TypeOK
        <3> QED
            BY <1>0, <1>8, <3>1 DEF checkpointSaved, newCheckpoint, Checkpoint, RunTypes
    <2> QED
        BY <1>a, <1>8, <2>1, <2>2, StepsLog DEF checkpointSaved, Logged
<1>9. CASE finish
    <2>1. (RunTypes /\ AtStep)'
        BY <1>0, <1>9 DEF finish, RunTypes, AtStep, Pcs
    <2> QED
        BY <1>a, <1>9, <2>1, StepsLog DEF finish, Logged
<1>10. CASE resultSaved
    <2>1. (RunTypes /\ AtStep)'
        BY <1>0, <1>10 DEF resultSaved, RunTypes, AtStep, Pcs
    <2>2. result' \in Result
        BY <1>10 DEF resultSaved, newResult, Result, Types, TypeOK
    <2>3. pushed(END) \in [Reader -> Seq(Item)]
        <3>1. \A r \in Reader : bus.queue[r] \in Seq(Item) /\ END \in Item
            BY DEF Types, TypeOK, Item
        <3>2. \A r \in Reader : Append(bus.queue[r], END) \in Seq(Item)
            BY <3>1, AppendProperties
        <3> QED
            BY <3>1, <3>2 DEF pushed
    <2>4. bus' \in [closed : BOOLEAN, queue : [Reader -> Seq(Item)],
                    subscribers : SUBSET Reader]
        BY <1>10, <2>3 DEF resultSaved, close
    <2> QED
        BY <1>10, <2>1, <2>2, <2>4 DEF resultSaved, Types, TypeOK, RunTypes, Item
<1>11. CASE crash
    <2>1. (RunTypes /\ AtStep)'
        BY <1>0, <1>11 DEF crash, RunTypes, AtStep, Pcs
    <2> QED
        BY <1>11, <2>1 DEF crash, Types, TypeOK, RunTypes
<1>12. CASE resume
    BY <1>12 DEF resume, Types, TypeOK, AtStep
<1>13. ASSUME NEW r \in Reader, subscribe(r) PROVE Types'
    <2>1. journal \o (IF bus.closed THEN <<END>> ELSE << >>) \in Seq(Item)
        <3>1. journal \in Seq(Item) /\ << >> \in Seq(Item)
            BY EntriesAreItems, EmptySeq DEF Types, TypeOK
        <3>2. <<END>> \in Seq(Item)
            BY Single DEF Item
        <3> QED
            BY <3>1, <3>2, ConcatProperties
    <2> QED
        BY <1>13, <2>1 DEF subscribe, Types, TypeOK, AtStep, Item
<1>14. ASSUME NEW r \in Reader, receive(r) PROVE Types'
    <2>1. bus.queue[r] \in Seq(Item) /\ received[r] \in Seq(Item) /\ bus.queue[r] # << >>
        BY <1>14 DEF receive, Types, TypeOK, Item
    <2>2. Append(received[r], Head(bus.queue[r])) \in Seq(Item) /\ Tail(bus.queue[r]) \in Seq(Item)
        BY <2>1, HeadAfter
    <2> QED
        BY <1>14, <2>2 DEF receive, Types, TypeOK, AtStep, Item
<1>15. CASE UNCHANGED vars
    BY <1>15 DEF vars, Types, TypeOK, AtStep
<1> QED
    BY <1>1, <1>2, <1>3, <1>4, <1>5, <1>6, <1>7, <1>8, <1>9, <1>10, <1>11, <1>12, <1>13, <1>14,
       <1>15 DEF Next, proceed

\* TypeOK: the execution, its journal, the queues and the files keep their
\* types, for any plan, retries and readers.
THEOREM PlanTypeCorrect == Spec => []TypeOK
<1>1. Types => TypeOK
    BY DEF Types
<1> QED
    BY <1>1, InitTypes, StepTypes, PTL DEF Spec

-----------------------------------------------------------------------------
(* What the readers have and what waits for them.                           *)

Story == IF bus.closed THEN Append(journal, END) ELSE journal

\* A reader that has not come yet.
Fresh(r) == received[r] = << >> /\ bus.queue[r] = << >> /\ r \notin bus.subscribers

\* One that has, has received the story up to what its queue holds.
Following(r) ==
    /\ bus.closed \/ r \in bus.subscribers
    /\ received[r] \o bus.queue[r] = Story

Closed ==
    bus.closed =>
        run.pc \in {"done", "crashed"} /\ result \notin {Absent, Torn} /\ bus.subscribers = {}

ReadersInv == Closed /\ \A r \in Reader : Fresh(r) \/ Following(r)

LEMMA InitReaders == Init => ReadersInv
    BY DEF Init, ReadersInv, Closed, Fresh

\* A logged entry reaches every reader that follows.
LEMMA LogKeepsReaders ==
    ASSUME Types, ReadersInv, ~ bus.closed, NEW e \in Entry, append(e), received' = received
    PROVE  ReadersInv'
<1>1. /\ bus' = [bus EXCEPT !.queue = pushed(e)]
      /\ journal' = Append(journal, e) /\ journal \in Seq(Item) /\ e \in Item
    <2>1. journal \in Seq(Item)
        BY EntriesAreItems DEF Types, TypeOK
    <2> QED
        BY <2>1 DEF append, Item
<1>2. bus'.closed = FALSE /\ bus'.subscribers = bus.subscribers /\ bus'.queue = pushed(e)
    BY <1>1 DEF Types, TypeOK
<1>3. ASSUME NEW r \in Reader PROVE (Fresh(r) \/ Following(r))'
    <2>1. received[r] \in Seq(Item) /\ bus.queue[r] \in Seq(Item)
        BY DEF Types, TypeOK, Item
    <2>2. CASE Fresh(r)
        BY <1>2, <2>2 DEF Fresh, pushed
    <2>3. CASE Following(r)
        <3>1. r \in bus.subscribers /\ received[r] \o bus.queue[r] = journal
            BY <2>3 DEF Following, Story
        <3>2. bus'.queue[r] = Append(bus.queue[r], e)
            BY <1>2, <3>1 DEF pushed
        <3>3. received[r] \o Append(bus.queue[r], e) = Append(journal, e)
            <4>1. received[r] \o Append(bus.queue[r], e) = Append(received[r] \o bus.queue[r], e)
                <5> DEFINE a == received[r]
                           b == bus.queue[r]
                <5>1. a \in Seq(Item) /\ b \in Seq(Item) /\ e \in Item
                    BY <1>1, <2>1
                <5> HIDE DEF a, b
                <5>2. a \o Append(b, e) = Append(a \o b, e)
                    BY <5>1, AppendAfter
                <5> QED
                    BY <5>2 DEF a, b
            <4> QED
                BY <4>1, <3>1
        <3> QED
            BY <1>1, <1>2, <3>1, <3>2, <3>3 DEF Following, Story
    <2> QED
        BY <2>2, <2>3 DEF ReadersInv
<1> QED
    BY <1>2, <1>3 DEF ReadersInv, Closed

LEMMA StepReaders == Types /\ ReadersInv /\ [Next]_vars => ReadersInv'
<1> SUFFICES ASSUME Types, ReadersInv, [Next]_vars PROVE ReadersInv'
    OBVIOUS
<1>1. CASE execute \/ startStep \/ invoke \/ providerAnswers \/ stepFails \/ checkpointSaved
           \/ finish
    <2>1. \E e \in Entry : append(e)
        BY <1>1, StepsLog DEF Logged
    <2>2. ~ bus.closed /\ received' = received
        BY <1>1 DEF execute, startStep, invoke, providerAnswers, stepFails, checkpointSaved,
                    finish, ReadersInv, Closed
    <2> QED
        BY <2>1, <2>2, LogKeepsReaders
<1>2. CASE attemptFails \/ saveCheckpoint
    <2>1. bus' = bus /\ journal' = journal /\ received' = received /\ ~ bus.closed
        BY <1>2 DEF attemptFails, saveCheckpoint, ReadersInv, Closed
    <2> QED
        BY <2>1 DEF ReadersInv, Closed, Fresh, Following, Story
<1>3. CASE resultSaved
    <2>1. ~ bus.closed
        BY <1>3 DEF resultSaved, ReadersInv, Closed
    <2>2. /\ bus'.closed = TRUE /\ bus'.queue = pushed(END) /\ bus'.subscribers = {}
          /\ received' = received /\ journal' = journal
        BY <1>3 DEF resultSaved, close
    <2>3. run'.pc = "done" /\ result' \notin {Absent, Torn}
        <3>1. newResult \in Result
            BY DEF newResult, Result, Types, TypeOK
        <3> QED
            BY <1>3, <3>1, FileAssumption DEF resultSaved, Types, TypeOK
    <2>4. ASSUME NEW r \in Reader PROVE (Fresh(r) \/ Following(r))'
        <3>1. /\ received[r] \in Seq(Item) /\ bus.queue[r] \in Seq(Item)
              /\ END \in Item
            BY DEF Types, TypeOK, Item
        <3>2. CASE Fresh(r)
            BY <2>2, <3>2 DEF Fresh, pushed
        <3>3. CASE Following(r)
            <4>1. r \in bus.subscribers /\ received[r] \o bus.queue[r] = journal
                BY <2>1, <3>3 DEF Following, Story
            <4>2. bus'.queue[r] = Append(bus.queue[r], END)
                BY <2>2, <4>1 DEF pushed
            <4>3. received[r] \o Append(bus.queue[r], END) = Append(journal, END)
                <5>1. received[r] \o Append(bus.queue[r], END) = Append(received[r] \o bus.queue[r], END)
                    <6> DEFINE a == received[r]
                               b == bus.queue[r]
                    <6>1. a \in Seq(Item) /\ b \in Seq(Item) /\ END \in Item
                        BY <3>1
                    <6> HIDE DEF a, b
                    <6>2. a \o Append(b, END) = Append(a \o b, END)
                        BY <6>1, AppendAfter
                    <6> QED
                        BY <6>2 DEF a, b
                <5> QED
                    BY <5>1, <4>1
            <4> QED
                BY <2>2, <4>2, <4>3 DEF Following, Story
        <3> QED
            BY <3>2, <3>3 DEF ReadersInv
    <2> QED
        BY <2>2, <2>3, <2>4 DEF ReadersInv, Closed
<1>4. CASE crash
    <2>1. bus' = bus /\ journal' = journal /\ received' = received /\ result' = result
          /\ run'.pc = "crashed"
        BY <1>4 DEF crash, Types, TypeOK
    <2> QED
        BY <2>1 DEF ReadersInv, Closed, Fresh, Following, Story
<1>5. CASE resume \/ UNCHANGED vars
    <2>1. bus' = bus /\ journal' = journal /\ received' = received /\ result' = result
          /\ run' = run
        BY <1>5 DEF resume, vars
    <2> QED
        BY <2>1 DEF ReadersInv, Closed, Fresh, Following, Story
<1>6. ASSUME NEW r \in Reader, subscribe(r) PROVE ReadersInv'
    <2> DEFINE history == journal \o (IF bus.closed THEN <<END>> ELSE << >>)
    <2>1. /\ received' = received /\ journal' = journal /\ run' = run /\ result' = result
          /\ bus'.closed = bus.closed /\ bus'.queue = [bus.queue EXCEPT ![r] = history]
          /\ bus'.subscribers = IF bus.closed THEN bus.subscribers ELSE bus.subscribers \cup {r}
        BY <1>6 DEF subscribe, Types, TypeOK
    <2>2. history = Story
        <3>1. journal \in Seq(Item) /\ END \in Item
            BY EntriesAreItems DEF Types, TypeOK, Item
        <3>2. journal \o << >> = journal /\ Append(journal, END) = journal \o <<END>>
            BY <3>1, ConcatEmptySeq, AppendIsConcat
        <3> QED
            BY <3>2 DEF Story
    <2>3. received[r] \o history = history
        <3>1. received[r] = << >>
            BY <1>6 DEF subscribe
        <3>2. history \in Seq(Item)
            <4>1. journal \in Seq(Item) /\ END \in Item
                BY EntriesAreItems DEF Types, TypeOK, Item
            <4> QED
                BY <2>2, <4>1, AppendProperties DEF Story
        <3> QED
            BY <3>1, <3>2, ConcatEmptySeq
    <2> HIDE DEF history
    <2>4. ASSUME NEW q \in Reader PROVE (Fresh(q) \/ Following(q))'
        <3>1. CASE q = r
            <4>1. bus'.queue[r] = history /\ (bus'.closed \/ r \in bus'.subscribers)
                BY <2>1 DEF Types, TypeOK
            <4> QED
                BY <2>1, <2>2, <2>3, <3>1, <4>1 DEF Following, Story
        <3>2. CASE q # r
            <4>1. bus'.queue[q] = bus.queue[q]
                  /\ (q \in bus'.subscribers <=> q \in bus.subscribers)
                BY <2>1, <3>2 DEF Types, TypeOK
            <4>2. Fresh(q) \/ Following(q)
                BY DEF ReadersInv
            <4> QED
                BY <2>1, <4>1, <4>2 DEF Fresh, Following, Story
        <3> QED
            BY <3>1, <3>2
    <2> QED
        BY <2>1, <2>4 DEF ReadersInv, Closed
<1>7. ASSUME NEW r \in Reader, receive(r) PROVE ReadersInv'
    <2>1. received[r] \in Seq(Item) /\ bus.queue[r] \in Seq(Item) /\ bus.queue[r] # << >>
        BY <1>7 DEF receive, Types, TypeOK, Item
    <2>2. /\ received' = [received EXCEPT ![r] = Append(received[r], Head(bus.queue[r]))]
          /\ bus'.queue = [bus.queue EXCEPT ![r] = Tail(bus.queue[r])]
          /\ bus'.closed = bus.closed /\ bus'.subscribers = bus.subscribers
          /\ journal' = journal /\ run' = run /\ result' = result
        BY <1>7 DEF receive, Types, TypeOK
    <2>3. Append(received[r], Head(bus.queue[r])) \o Tail(bus.queue[r])
              = received[r] \o bus.queue[r]
        BY <2>1, HeadAfter
    <2>4. Following(r)
        BY <2>1 DEF ReadersInv, Fresh
    <2>5. ASSUME NEW q \in Reader PROVE (Fresh(q) \/ Following(q))'
        <3>1. CASE q = r
            <4>1. /\ received'[r] = Append(received[r], Head(bus.queue[r]))
                  /\ bus'.queue[r] = Tail(bus.queue[r])
                BY <2>2 DEF Types, TypeOK
            <4>2. received'[r] \o bus'.queue[r] = received[r] \o bus.queue[r]
                BY <2>3, <4>1
            <4> QED
                BY <2>2, <2>4, <3>1, <4>2 DEF Following, Story
        <3>2. CASE q # r
            <4>1. bus'.queue[q] = bus.queue[q] /\ received'[q] = received[q]
                BY <2>2, <3>2 DEF Types, TypeOK
            <4>2. Fresh(q) \/ Following(q)
                BY DEF ReadersInv
            <4> QED
                BY <2>2, <4>1, <4>2 DEF Fresh, Following, Story
        <3> QED
            BY <3>1, <3>2
    <2> QED
        BY <2>2, <2>5 DEF ReadersInv, Closed
<1> QED
    BY <1>1, <1>2, <1>3, <1>4, <1>5, <1>6, <1>7 DEF Next, proceed

LEMMA ReadersGiveStory == Types /\ ReadersInv => ReadersSeeTheJournal
<1> SUFFICES ASSUME Types, ReadersInv, NEW r \in Reader
             PROVE  IF received[r] # << >> /\ Last(received[r]) = END
                    THEN received[r] = Append(journal, END) /\ result \notin {Absent, Torn}
                    ELSE IsPrefix(received[r], journal)
    BY DEF ReadersSeeTheJournal
<1> DEFINE a == received[r]
           b == bus.queue[r]
<1>1. a \in Seq(Item) /\ b \in Seq(Item) /\ journal \in Seq(Entry) /\ journal \in Seq(Item)
    BY EntriesAreItems DEF Types, TypeOK, Item
<1> HIDE DEF a, b
<1>2. PICK m \in Nat, n \in Nat, k \in Nat : m = Len(a) /\ n = Len(b) /\ k = Len(journal)
    BY <1>1, LenProperties
<1>3. \A i \in 1 .. k : journal[i] # END
    <2>1. \A i \in 1 .. k : journal[i] \in Entry
        BY <1>1, <1>2, ElementOfSeq
    <2> QED
        BY <2>1, Entries
<1>4. a # << >> => m # 0
    BY <1>1, <1>2, EmptySeq
<1>5. CASE Fresh(r)
    <2>1. a = << >>
        BY <1>5 DEF Fresh, a
    <2>2. Len(a) = 0
        BY <2>1
    <2>3. IsPrefix(a, journal)
        <3>1. Len(a) <= Len(journal) /\ \A i \in 1 .. Len(a) : a[i] = journal[i]
            BY <1>2, <2>2
        <3> QED
            BY <1>1, <3>1, PrefixOf
    <2> QED
        BY <2>1, <2>3 DEF a
<1>6. CASE Following(r)
    <2>1. a \o b = Story
        BY <1>6 DEF Following, a, b
    <2>2. Len(a \o b) = m + n /\ \A i \in 1 .. m : (a \o b)[i] = a[i]
        <3>1. /\ Len(a \o b) = Len(a) + Len(b)
              /\ \A i \in 1 .. Len(a) + Len(b) :
                     (a \o b)[i] = IF i <= Len(a) THEN a[i] ELSE b[i - Len(a)]
            BY <1>1, ConcatProperties
        <3> QED
            BY <1>2, <3>1
    <2>3. Len(Story) = m + n /\ \A i \in 1 .. m : Story[i] = a[i]
        BY <2>1, <2>2
    <2>4. CASE ~ bus.closed
        <3>1. Len(journal) = m + n /\ \A i \in 1 .. m : journal[i] = a[i]
            BY <2>3, <2>4 DEF Story
        <3>2. IsPrefix(a, journal)
            <4>1. Len(a) <= Len(journal) /\ \A i \in 1 .. Len(a) : a[i] = journal[i]
                BY <1>2, <3>1
            <4> QED
                BY <1>1, <4>1, PrefixOf
        <3>3. ~ (a # << >> /\ Last(a) = END)
            <4>1. ASSUME a # << >> PROVE Last(a) # END
                <5>1. m \in 1 .. m /\ m \in 1 .. k
                    BY <1>2, <1>4, <3>1, <4>1
                <5> QED
                    BY <1>2, <1>3, <3>1, <5>1 DEF Last
            <4> QED
                BY <4>1
        <3> QED
            BY <3>2, <3>3 DEF a
    <2>5. CASE bus.closed
        <3>1. Story = Append(journal, END) /\ result \notin {Absent, Torn}
            BY <2>5 DEF Story, ReadersInv, Closed
        <3>2. /\ Len(Append(journal, END)) = k + 1
              /\ \A i \in 1 .. k : Append(journal, END)[i] = journal[i]
              /\ Append(journal, END)[k + 1] = END
            <4>1. END \in Item
                BY DEF Item
            <4> QED
                BY <1>1, <1>2, <4>1, AppendProperties
        <3>3. m + n = k + 1 /\ \A i \in 1 .. m : Append(journal, END)[i] = a[i]
            BY <2>3, <3>1, <3>2
        <3>4. CASE m = k + 1
            <4>1. b = << >>
                BY <1>1, <1>2, <3>3, <3>4, EmptySeq
            <4>2. a = Append(journal, END)
                <5>1. a \o b = a
                    BY <1>1, <4>1, ConcatEmptySeq
                <5> QED
                    BY <2>1, <3>1, <5>1
            <4>3. Last(a) = END
                <5>1. k + 1 \in 1 .. m
                    BY <3>4
                <5> QED
                    BY <1>2, <3>2, <3>3, <3>4, <5>1 DEF Last
            <4>4. a # << >>
                <5>1. Len(a) # 0
                    BY <1>2, <3>4
                <5> QED
                    BY <1>1, <5>1, EmptySeq
            <4> QED
                BY <3>1, <4>2, <4>3, <4>4 DEF a
        <3>5. CASE m <= k
            <4>1. \A i \in 1 .. m : a[i] = journal[i]
                BY <3>2, <3>3, <3>5
            <4>2. IsPrefix(a, journal)
                <5>1. Len(a) <= Len(journal) /\ \A i \in 1 .. Len(a) : a[i] = journal[i]
                    BY <1>2, <3>5, <4>1
                <5> QED
                    BY <1>1, <5>1, PrefixOf
            <4>3. ~ (a # << >> /\ Last(a) = END)
                <5>1. ASSUME a # << >> PROVE Last(a) # END
                    <6>1. m \in 1 .. m /\ m \in 1 .. k
                        BY <1>4, <3>5, <5>1
                    <6> QED
                        BY <1>2, <1>3, <4>1, <6>1 DEF Last
                <5> QED
                    BY <5>1
            <4> QED
                BY <4>2, <4>3 DEF a
        <3> QED
            BY <3>3, <3>4, <3>5
    <2> QED
        BY <2>4, <2>5
<1> QED
    BY <1>5, <1>6 DEF ReadersInv

\* ReadersSeeTheJournal: EventBus gives every iterator the whole journal, the
\* part before it came from the history.
THEOREM ReadersInOrder == Spec => []ReadersSeeTheJournal
<1>1. Init => Types /\ ReadersInv
    BY InitTypes, InitReaders
<1>2. Types /\ ReadersInv /\ [Next]_vars => (Types /\ ReadersInv)'
    BY StepTypes, StepReaders
<1> QED
    BY <1>1, <1>2, ReadersGiveStory, PTL DEF Spec

-----------------------------------------------------------------------------
(* The work that was done, what the journal says of it, and what the files  *)
(* claim.                                                                   *)

\* The journal tells what was started, completed and failed.
JournalTells ==
    /\ stepsWith("STEP_COMPLETED", journal) = run.completed
    /\ stepsWith("STEP_FAILED", journal) = run.failedSteps
    /\ run.pc # "crashed" =>
           stepsWith("STEP_STARTED", journal) =
               run.completed \cup run.failedSteps
                   \cup (IF run.pc \in {"attempt", "invoking"} THEN {run.index} ELSE {})

\* Steps are done one after another; without continueOnFailure the first
\* failure is the last step.
InTurn ==
    run.pc # "crashed" =>
        /\ run.completed \cap run.failedSteps = {}
        /\ \A i \in Position :
               i \in run.completed \cup run.failedSteps <=>
                   \/ i < run.index
                   \/ i = run.index /\ (run.pc \in {"saving", "writing"} \/ run.failed)
        /\ run.failed =>
               /\ run.pc \in {"loop", "writingResult", "done"}
               /\ ~ run.continueOnFailure
               /\ run.index \in Position /\ run.failedSteps = {run.index}
        /\ run.pc = "none" \/ (~ run.continueOnFailure /\ ~ run.failed) => run.failedSteps = {}
        /\ run.pc \in {"writingResult", "done"} => run.failed \/ run.index > Steps
        /\ run.pc = "writingResult" =>
               Last(journal).type = IF run.failed THEN "EXECUTION_FAILED"
                                    ELSE "EXECUTION_COMPLETED"

\* The checkpoint claims what was completed, but for the step at hand.
CheckpointInv ==
    checkpoint # Torn =>
        LET claimed == IF checkpoint = Absent THEN {} ELSE checkpoint.completedSteps
        IN  /\ claimed \subseteq run.completed
            /\ run.completed \ claimed \subseteq {run.index}
            /\ checkpoint # Absent =>
                   \A i \in Position : i < checkpoint.currentStep =>
                       i \in claimed \cup run.failedSteps

Work == JournalTells /\ InTurn

\* Nothing was logged yet.
LEMMA InitWork == Init => Work /\ CheckpointInv /\ ResultTellsTheJournal
<1> SUFFICES ASSUME Init PROVE Work /\ CheckpointInv /\ ResultTellsTheJournal
    OBVIOUS
<1>1. \A type : stepsWith(type, << >>) = {}
    BY DEF stepsWith, ToSet
<1> QED
    BY <1>1, PlanAssumption
    DEF Init, NoRun, Work, JournalTells, InTurn, CheckpointInv, ResultTellsTheJournal, Position

\* The steps that an entry adds to the journal's.
Adds(e, started, completed, failed) ==
    /\ stepsWith("STEP_STARTED", journal') = stepsWith("STEP_STARTED", journal) \cup started
    /\ stepsWith("STEP_COMPLETED", journal') = stepsWith("STEP_COMPLETED", journal) \cup completed
    /\ stepsWith("STEP_FAILED", journal') = stepsWith("STEP_FAILED", journal) \cup failed
    /\ Last(journal').type = e.type

LEMMA StepsAdd ==
    ASSUME Types
    PROVE  /\ execute => Adds(final("EXECUTION_STARTED"), {}, {}, {})
           /\ startStep => Adds(entry("STEP_STARTED"), {run.index}, {}, {})
           /\ invoke => Adds(entry("PROVIDER_INVOKED"), {}, {}, {})
           /\ providerAnswers => Adds(entry("STEP_COMPLETED"), {}, {run.index}, {})
           /\ stepFails => Adds(entry("STEP_FAILED"), {}, {}, {run.index})
           /\ checkpointSaved => Adds(entry("CHECKPOINT_SAVED"), {}, {}, {})
           /\ finish => Adds(final(IF run.failed THEN "EXECUTION_FAILED"
                                   ELSE "EXECUTION_COMPLETED"), {}, {}, {})
<1>1. ASSUME NEW e, Logged(e)
      PROVE  Adds(e, IF e.type = "STEP_STARTED" THEN {e.step} ELSE {},
                     IF e.type = "STEP_COMPLETED" THEN {e.step} ELSE {},
                     IF e.type = "STEP_FAILED" THEN {e.step} ELSE {})
    <2>1. e \in Entry /\ append(e)
        BY <1>1 DEF Logged
    <2>2. /\ Last(journal') = e
          /\ \A type : stepsWith(type, journal') =
                 stepsWith(type, journal) \cup (IF e.type = type THEN {e.step} ELSE {})
        BY <2>1, Appended
    <2> QED
        BY <2>2 DEF Adds
<1>2. \A type : entry(type).type = type /\ entry(type).step = run.index /\ final(type).type = type
    BY DEF entry, final
<1>3. execute => Adds(final("EXECUTION_STARTED"), {}, {}, {})
    BY <1>1, <1>2, StepsLog
<1>4. startStep => Adds(entry("STEP_STARTED"), {run.index}, {}, {})
    BY <1>1, <1>2, StepsLog
<1>5. invoke => Adds(entry("PROVIDER_INVOKED"), {}, {}, {})
    BY <1>1, <1>2, StepsLog
<1>6. providerAnswers => Adds(entry("STEP_COMPLETED"), {}, {run.index}, {})
    BY <1>1, <1>2, StepsLog
<1>7. stepFails => Adds(entry("STEP_FAILED"), {}, {}, {run.index})
    BY <1>1, <1>2, StepsLog
<1>8. checkpointSaved => Adds(entry("CHECKPOINT_SAVED"), {}, {}, {})
    BY <1>1, <1>2, StepsLog
<1>9. finish => Adds(final(IF run.failed THEN "EXECUTION_FAILED" ELSE "EXECUTION_COMPLETED"),
                     {}, {}, {})
    BY <1>1, <1>2, StepsLog
<1> QED
    BY <1>3, <1>4, <1>5, <1>6, <1>7, <1>8, <1>9

LEMMA RunFacts ==
    /\ \A i \in Position : i \in Nat /\ 1 <= i /\ i <= Steps
    /\ Types => RunTypes /\ AtStep
<1>1. \A i \in Position : i \in Nat /\ 1 <= i /\ i <= Steps
    BY PlanAssumption DEF Position
<1>2. Types => RunTypes /\ AtStep
    BY DEF Types, TypeOK, RunTypes
<1> QED
    BY <1>1, <1>2

LEMMA StepWork == Types /\ Work /\ [Next]_vars => Work'
<1> SUFFICES ASSUME Types, Work, [Next]_vars PROVE Work'
    OBVIOUS
<1>0. RunTypes /\ AtStep /\ \A i \in Position : i \in Nat
    BY RunFacts
<1> USE DEF Work, JournalTells, InTurn
<1>1. CASE execute
    <2>1. Adds(final("EXECUTION_STARTED"), {}, {}, {})
        BY <1>1, StepsAdd
    <2> QED
        <3>1. /\ run'.pc = "loop" /\ run'.completed = run.completed /\ run'.index = run.index
              /\ run'.failedSteps = run.failedSteps /\ run'.failed = run.failed /\ run.pc = "none"
            BY <1>0, <1>1 DEF execute, RunTypes
        <3>2. run.failed = FALSE /\ run.failedSteps = {}
            BY <1>0, <3>1 DEF RunTypes
        <3> QED
            BY <3>1, <3>2, <2>1 DEF Adds, final
<1>2. CASE startStep
    <2>1. Adds(entry("STEP_STARTED"), {run.index}, {}, {})
        BY <1>2, StepsAdd
    <2> QED
        BY <1>0, <1>2, <2>1 DEF startStep, Adds, RunTypes, entry
<1>3. CASE invoke
    <2>1. Adds(entry("PROVIDER_INVOKED"), {}, {}, {})
        BY <1>3, StepsAdd
    <2> QED
        BY <1>0, <1>3, <2>1 DEF invoke, Adds, RunTypes, entry
<1>4. CASE providerAnswers
    <2>1. Adds(entry("STEP_COMPLETED"), {}, {run.index}, {})
        BY <1>4, StepsAdd
    <2> QED
        BY <1>0, <1>4, <2>1 DEF providerAnswers, Adds, RunTypes, AtStep, entry
<1>5. CASE attemptFails
    BY <1>0, <1>5 DEF attemptFails, RunTypes
<1>6. CASE stepFails
    <2>1. Adds(entry("STEP_FAILED"), {}, {}, {run.index})
        BY <1>6, StepsAdd
    <2> QED
        <3>1. /\ run'.completed = run.completed /\ run'.index = run.index
              /\ run'.failedSteps = run.failedSteps \cup {run.index}
              /\ run'.continueOnFailure = run.continueOnFailure
              /\ run'.failed = ~ run.continueOnFailure
              /\ run.pc \in {"attempt", "invoking"} /\ run.index \in Position
              /\ run'.pc = IF run.continueOnFailure THEN "saving" ELSE "loop"
            BY <1>0, <1>6 DEF stepFails, RunTypes, AtStep
        <3>2. run.failed = FALSE
            BY <1>0, <3>1 DEF RunTypes
        <3>3. JournalTells'
            BY <2>1, <3>1 DEF Adds
        <3>4. \A i \in Position :
                  i \in run.completed \cup run.failedSteps <=> i < run.index
            BY <3>1, <3>2
        <3>5. run.index \in Nat /\ ~ (run.index < run.index)
            BY <1>0, <3>1
        <3>6. /\ run'.completed \cap run'.failedSteps = {}
              /\ \A i \in Position :
                     i \in run'.completed \cup run'.failedSteps <=>
                         i < run'.index \/ i = run'.index
            BY <3>1, <3>2, <3>4, <3>5
        <3>7. ~ run.continueOnFailure => run.failedSteps = {}
            BY <3>1, <3>2
        <3>8. CASE run.continueOnFailure
            BY <3>1, <3>3, <3>6, <3>8
        <3>9. CASE ~ run.continueOnFailure
            BY <3>1, <3>3, <3>6, <3>7, <3>9
        <3> QED
            BY <3>8, <3>9
<1>7. CASE saveCheckpoint
    BY <1>0, <1>7 DEF saveCheckpoint, RunTypes
<1>8. CASE checkpointSaved
    <2>1. Adds(entry("CHECKPOINT_SAVED"), {}, {}, {})
        BY <1>8, StepsAdd
    <2>2. \A i \in Position : i < run.index + 1 <=> i < run.index \/ i = run.index
        BY <1>0 DEF RunTypes
    <2> QED
        BY <1>0, <1>8, <2>1, <2>2 DEF checkpointSaved, Adds, RunTypes, AtStep, entry
<1>9. CASE finish
    <2>1. Adds(final(IF run.failed THEN "EXECUTION_FAILED" ELSE "EXECUTION_COMPLETED"),
               {}, {}, {})
        BY <1>9, StepsAdd
    <2> QED
        BY <1>0, <1>9, <2>1 DEF finish, Adds, RunTypes, final
<1>10. CASE resultSaved
    BY <1>0, <1>10 DEF resultSaved, RunTypes
<1>11. CASE crash
    BY <1>0, <1>11 DEF crash, RunTypes
<1>12. CASE resume \/ (\E r \in Reader : subscribe(r) \/ receive(r)) \/ UNCHANGED vars
    <2>1. run' = run /\ journal' = journal
        BY <1>12 DEF resume, subscribe, receive, vars
    <2> QED
        BY <2>1
<1> QED
    BY <1>1, <1>2, <1>3, <1>4, <1>5, <1>6, <1>7, <1>8, <1>9, <1>10, <1>11, <1>12
    DEF Next, proceed

LEMMA StepCheckpoint == Types /\ Work /\ CheckpointInv /\ [Next]_vars => CheckpointInv'
<1> SUFFICES ASSUME Types, Work, CheckpointInv, [Next]_vars PROVE CheckpointInv'
    OBVIOUS
<1>0. RunTypes /\ AtStep /\ \A i \in Position : i \in Nat
    BY RunFacts
<1>1. CASE checkpointSaved
    <2>1. /\ checkpoint' = newCheckpoint /\ newCheckpoint \in Checkpoint
          /\ run' = [run EXCEPT !.pc = "loop", !.index = run.index + 1]
        <3>1. Len(journal) \in Nat
            BY LenProperties DEF Types, TypeOK
        <3> QED
            BY <1>0, <1>1, <3>1 DEF checkpointSaved, newCheckpoint, Checkpoint, RunTypes
    <2>2. checkpoint' \notin {Absent, Torn}
        BY <2>1, FileAssumption
    <2>3. checkpoint'.completedSteps = run.completed /\ checkpoint'.currentStep = run.index + 1
        BY <2>1 DEF newCheckpoint
    <2>4. \A i \in Position : i < run.index + 1 => i \in run.completed \cup run.failedSteps
        BY <1>0, <1>1 DEF checkpointSaved, Work, InTurn, RunTypes
    <2>5. run'.completed = run.completed /\ run'.failedSteps = run.failedSteps
        BY <1>0, <2>1 DEF RunTypes
    <2> QED
        BY <2>2, <2>3, <2>4, <2>5 DEF CheckpointInv
<1>2. CASE saveCheckpoint
    BY <1>2 DEF saveCheckpoint, CheckpointInv
<1>3. CASE execute \/ startStep \/ invoke \/ attemptFails \/ finish \/ resultSaved \/ crash
    <2>1. /\ checkpoint' = checkpoint /\ run'.completed = run.completed
          /\ run'.failedSteps = run.failedSteps /\ run'.index = run.index
        BY <1>0, <1>3 DEF execute, startStep, invoke, attemptFails, finish, resultSaved, crash,
                         RunTypes
    <2> QED
        BY <2>1 DEF CheckpointInv
<1>4. CASE providerAnswers \/ stepFails
    <2>1. /\ checkpoint' = checkpoint /\ run'.index = run.index
          /\ run.completed \subseteq run'.completed
          /\ run'.completed \subseteq run.completed \cup {run.index}
          /\ run.failedSteps \subseteq run'.failedSteps
        <3>1. CASE providerAnswers
            <4>1. /\ checkpoint' = checkpoint /\ run'.index = run.index
                  /\ run'.completed = run.completed \cup {run.index}
                  /\ run'.failedSteps = run.failedSteps
                BY <1>0, <3>1 DEF providerAnswers, RunTypes
            <4> QED
                BY <4>1
        <3>2. CASE stepFails
            <4>1. /\ checkpoint' = checkpoint /\ run'.index = run.index
                  /\ run'.completed = run.completed
                  /\ run'.failedSteps = run.failedSteps \cup {run.index}
                BY <1>0, <3>2 DEF stepFails, RunTypes
            <4> QED
                BY <4>1
        <3> QED
            BY <1>4, <3>1, <3>2
    <2> QED
        BY <2>1 DEF CheckpointInv
<1>5. CASE resume \/ (\E r \in Reader : subscribe(r) \/ receive(r)) \/ UNCHANGED vars
    <2>1. run' = run /\ checkpoint' = checkpoint
        BY <1>5 DEF resume, subscribe, receive, vars
    <2> QED
        BY <2>1 DEF CheckpointInv
<1> QED
    BY <1>1, <1>2, <1>3, <1>4, <1>5 DEF Next, proceed

\* CheckpointTellsTheWork: saveCheckpoint() after every step, with the process
\* stopping anywhere.
THEOREM CheckpointTrue == Spec => []CheckpointTellsTheWork
<1>1. Init => Types /\ Work /\ CheckpointInv
    BY InitTypes, InitWork
<1>2. Types /\ Work /\ CheckpointInv /\ [Next]_vars => (Types /\ Work /\ CheckpointInv)'
    BY StepTypes, StepWork, StepCheckpoint
<1>3. Types /\ Work /\ CheckpointInv => CheckpointTellsTheWork
    <2> SUFFICES ASSUME Types, Work, CheckpointInv PROVE CheckpointTellsTheWork
        OBVIOUS
    <2> DEFINE claimed == IF checkpoint = Absent THEN {} ELSE checkpoint.completedSteps
               rest == run.completed \ claimed
    <2>1. /\ stepsWith("STEP_COMPLETED", journal) = run.completed
          /\ stepsWith("STEP_FAILED", journal) = run.failedSteps
        BY DEF Work, JournalTells
    <2>2. ASSUME checkpoint # Torn PROVE Cardinality(rest) <= 1
        <3>1. rest \subseteq {run.index}
            BY <2>2 DEF CheckpointInv
        <3> HIDE DEF rest
        <3>2. rest = {} \/ rest = {run.index}
            BY <3>1
        <3>3. Cardinality({}) = 0 /\ Cardinality({run.index}) = 1
            BY FS_EmptySet, FS_Singleton
        <3> QED
            BY <3>2, <3>3
    <2> QED
        BY <2>1, <2>2 DEF CheckpointTellsTheWork, CheckpointInv
<1> QED
    BY <1>1, <1>2, <1>3, PTL DEF Spec

ResultInv == ResultTellsTheJournal /\ (run.pc = "none" => result = Absent)

\* ResultTellsTheJournal: the result that saveResult() writes is the journal's
\* story.
THEOREM ResultTrue == Spec => []ResultTellsTheJournal
<1>1. Init => Types /\ Work /\ ResultInv
    BY InitTypes, InitWork DEF Init, ResultInv
<1>2. Types /\ Work /\ ResultInv /\ [Next]_vars => ResultInv'
    <2> SUFFICES ASSUME Types, Work, ResultInv, [Next]_vars
                 PROVE  ResultInv'
        OBVIOUS
    <2>0. RunTypes /\ \A i \in Position : i \in Nat /\ i <= Steps
        BY RunFacts
    <2>1. CASE resultSaved
        <3>1. result' = newResult /\ run'.continueOnFailure = run.continueOnFailure
              /\ run.pc = "writingResult"
            BY <2>0, <2>1 DEF resultSaved, RunTypes
        <3>2. /\ newResult.completed = run.completed /\ newResult.failed = run.failedSteps
              /\ newResult.journal = journal /\ newResult.success = ~ run.failed
            BY DEF newResult
        <3>3. stepsWith("STEP_STARTED", journal) = run.completed \cup run.failedSteps
            BY <3>1 DEF Work, JournalTells
        <3>4. /\ run.completed \cap run.failedSteps = {}
              /\ run.failed \/ run.index > Steps
              /\ \A i \in Position : i \in run.completed \cup run.failedSteps <=>
                     i < run.index \/ (i = run.index /\ run.failed)
              /\ run.failed => ~ run.continueOnFailure /\ run.index \in Position
                               /\ run.failedSteps = {run.index}
              /\ ~ run.continueOnFailure /\ ~ run.failed => run.failedSteps = {}
              /\ Last(journal).type = IF run.failed THEN "EXECUTION_FAILED"
                                      ELSE "EXECUTION_COMPLETED"
            BY <3>1 DEF Work, InTurn
        <3>5. run.completed \subseteq Position /\ run.failedSteps \subseteq Position
              /\ run.index \in Nat /\ Steps \in Nat
            BY <2>0, PlanAssumption DEF RunTypes
        <3>6. ~ run.failed => run.completed \cup run.failedSteps = Position
            BY <2>0, <3>4, <3>5
        <3>7. ~ run.continueOnFailure => (~ run.failed <=> run.completed = Position)
            BY <3>4, <3>5, <3>6
        <3>8. ~ run.continueOnFailure =>
                  \A i \in run.failedSteps : \A j \in run.completed \cup run.failedSteps : j <= i
            BY <2>0, <3>4, <3>5
        <3>9. ResultTellsTheJournal'
            BY <3>1, <3>2, <3>3, <3>4, <3>6, <3>7, <3>8
            DEF ResultTellsTheJournal, Work, JournalTells
        <3>10. run'.pc = "done"
            BY <2>0, <2>1 DEF resultSaved, RunTypes
        <3> QED
            BY <3>9, <3>10 DEF ResultInv
    <2>2. CASE finish
        <3>1. result' = Torn /\ run'.pc = "writingResult"
            BY <2>0, <2>2 DEF finish, RunTypes
        <3> QED
            BY <3>1 DEF ResultInv, ResultTellsTheJournal
    <2>3. CASE execute
        <3>1. result' = Absent /\ run'.pc = "loop"
            BY <2>0, <2>3 DEF execute, RunTypes, ResultInv
        <3> QED
            BY <3>1 DEF ResultInv, ResultTellsTheJournal
    <2>4. CASE startStep \/ invoke \/ providerAnswers \/ attemptFails \/ stepFails
               \/ saveCheckpoint \/ checkpointSaved \/ crash
        <3>1. /\ result' = result /\ run'.continueOnFailure = run.continueOnFailure
              /\ run'.pc # "none"
            <4>1. CASE startStep
                BY <2>0, <4>1 DEF startStep, RunTypes
            <4>2. CASE invoke
                BY <2>0, <4>2 DEF invoke, RunTypes
            <4>3. CASE providerAnswers
                BY <2>0, <4>3 DEF providerAnswers, RunTypes
            <4>4. CASE attemptFails
                BY <2>0, <4>4 DEF attemptFails, RunTypes
            <4>5. CASE stepFails
                BY <2>0, <4>5 DEF stepFails, RunTypes
            <4>6. CASE saveCheckpoint
                BY <2>0, <4>6 DEF saveCheckpoint, RunTypes
            <4>7. CASE checkpointSaved
                BY <2>0, <4>7 DEF checkpointSaved, RunTypes
            <4>8. CASE crash
                BY <2>0, <4>8 DEF crash, RunTypes
            <4> QED
                BY <2>4, <4>1, <4>2, <4>3, <4>4, <4>5, <4>6, <4>7, <4>8
        <3> QED
            BY <3>1 DEF ResultInv, ResultTellsTheJournal
    <2>5. CASE resume \/ (\E r \in Reader : subscribe(r) \/ receive(r)) \/ UNCHANGED vars
        <3>1. run' = run /\ result' = result
            BY <2>5 DEF resume, subscribe, receive, vars
        <3> QED
            BY <3>1 DEF ResultInv, ResultTellsTheJournal
    <2> QED
        BY <2>1, <2>2, <2>3, <2>4, <2>5 DEF Next, proceed
<1>3. ResultInv => ResultTellsTheJournal
    BY DEF ResultInv
<1> QED
    BY <1>1, <1>2, <1>3, StepTypes, StepWork, PTL DEF Spec
=============================================================================
