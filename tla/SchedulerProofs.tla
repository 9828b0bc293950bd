-------------------------- MODULE SchedulerProofs --------------------------
(***************************************************************************)
(* Theorems about Scheduler for every configuration.                       *)
(***************************************************************************)
EXTENDS Scheduler, TLAPS

(***************************************************************************)
(* Type correctness.                                                       *)
(***************************************************************************)
\* What is read off the configuration has its type.
LEMMA ConfigType ==
  ASSUME config \in Configs
  PROVE  /\ NumMeters \in Nat /\ NumItems \in Nat /\ Interval \in Nat
         /\ Polled \subseteq 1..NumMeters
         /\ ItemEnabled \subseteq 1..NumItems
<1>1. /\ config.meters \in Seq(BOOLEAN) /\ config.items \in Seq(BOOLEAN)
      /\ config.interval \in Nat
  BY ConfigAssumption
<1> QED BY <1>1 DEF NumMeters, NumItems, Interval, Polled, ItemEnabled

\* The scheduler keeps its configuration.
LEMMA ConfigKept ==
  ASSUME [Next]_vars
  PROVE  /\ config' = config
         /\ NumMeters' = NumMeters /\ NumItems' = NumItems /\ Interval' = Interval
         /\ Polled' = Polled /\ ItemEnabled' = ItemEnabled
<1>1. config' = config
  BY DEF Next, Poller, Stop, Terminated, Run, LoopTest, Sleep, VisitMeter, VisitItem,
         ReadItem, Flush, vars
<1> QED BY <1>1 DEF NumMeters, NumItems, Interval, Polled, ItemEnabled

LEMMA InitType == Init => TypeOK
<1> SUFFICES ASSUME Init
             PROVE  TypeOK
  OBVIOUS
<1>1. config \in Configs
  BY DEF Init
<1>2. 1 \in 1..NumMeters + 1 /\ 1 \in 1..NumItems + 1 /\ 0 \in 0..Interval /\ 0 \in Nat
  BY <1>1, ConfigType
<1>3. <<>> \in Seq(Reading)
  OBVIOUS
<1>4. [meter |-> 0, items |-> <<>>] \in [meter : Nat, items : Seq(Reading)]
  BY <1>3
<1>5. "boot" \in Control /\ pc = "boot"
  BY DEF Init, Constructed, Control
<1> QED BY <1>1, <1>2, <1>3, <1>4, <1>5 DEF Init, Constructed, TypeOK

LEMMA NextType == TypeOK /\ [Next]_vars => TypeOK'
<1> SUFFICES ASSUME TypeOK, [Next]_vars
             PROVE  TypeOK'
  OBVIOUS
<1>0. config \in Configs
  BY DEF TypeOK
<1> USE <1>0, ConfigType, ConfigKept DEF TypeOK, Control, loop, ghost
<1>1. CASE Run
  BY <1>1 DEF Run
<1>2. CASE LoopTest
  BY <1>2 DEF LoopTest
<1>3. CASE Sleep
  BY <1>3 DEF Sleep
<1>4. CASE VisitMeter
  <2>1. <<>> \in Seq(Reading) /\ 1 \in 1..NumItems + 1 /\ 0 \in 0..Interval
    OBVIOUS
  <2>2. CASE i > NumMeters \/ ~running
    BY <1>4, <2>1, <2>2 DEF VisitMeter, LeavePoll
  <2>3. CASE i <= NumMeters /\ running /\ i \notin Polled
    BY <1>4, <2>1, <2>3 DEF VisitMeter
  <2>4. CASE i <= NumMeters /\ running /\ i \in Polled
    <3>1. /\ batch' = <<>> /\ shown' = <<>> /\ j' = 1 /\ pc' = "item"
          /\ UNCHANGED <<i, nap, running, uploads, stopped, lateReads>>
      BY <1>4, <2>4, ~(i > NumMeters) DEF VisitMeter
    <3>2. batch' \in Seq(Reading) /\ shown' \in Seq(Reading)
      BY <2>1, <3>1
    <3> QED BY <2>1, <2>4, <3>1, <3>2
  <2> QED BY <1>4, <2>2, <2>3, <2>4 DEF VisitMeter
<1>5. CASE VisitItem
  BY <1>5 DEF VisitItem, LeavePoll
<1>6. CASE Flush
  <2>1. i \in 1..NumMeters
    BY <1>6 DEF Flush
  <2>2. uploads' \in [meter : Nat, items : Seq(Reading)]
    BY <1>6, <2>1 DEF Flush
  <2> QED BY <1>6, <2>1, <2>2 DEF Flush
<1>7. ASSUME NEW c \in Code, ReadItem(c)
      PROVE  TypeOK'
  <2>1. [item |-> j, code |-> c] \in Reading
    BY <1>7 DEF ReadItem, Reading
  <2>2. Append(shown, [item |-> j, code |-> c]) \in Seq(Reading)
        /\ Append(batch, [item |-> j, code |-> c]) \in Seq(Reading)
    BY <2>1
  <2> QED BY <1>7, <2>2 DEF ReadItem
<1>8. CASE Stop
  BY <1>8 DEF Stop
<1>9. CASE UNCHANGED vars
  BY <1>9 DEF vars
<1> QED BY <1>1, <1>2, <1>3, <1>4, <1>5, <1>6, <1>7, <1>8, <1>9
        DEF Next, Poller, Terminated

\* The state of the polling loop keeps its type: in particular only meters
\* that are enabled and have a reader are visited, and only enabled items are
\* read.
THEOREM TypeCorrect == Spec => []TypeOK
<1>1. Init => TypeOK
  BY InitType
<1>2. TypeOK /\ [Next]_vars => TypeOK'
  BY NextType
<1> QED BY <1>1, <1>2, PTL DEF Spec

(***************************************************************************)
(* The reads made after a stop.                                            *)
(***************************************************************************)
\* Once the running loop has been stopped nothing sets running_ again, and a
\* read is about to be made only if none has been made since.
LateInv ==
  /\ OneReadAfterStop
  /\ stopped # "yes" => lateReads = 0
  /\ stopped = "yes" => ~running /\ pc # "boot"
  /\ pc = "read" => lateReads = 0

LEMMA NextLate == TypeOK /\ LateInv /\ [Next]_vars => LateInv'
<1> SUFFICES ASSUME TypeOK, LateInv, [Next]_vars
             PROVE  LateInv'
  OBVIOUS
<1> USE DEF LateInv, OneReadAfterStop, TypeOK, loop, ghost
<1>1. CASE Run
  BY <1>1 DEF Run
<1>2. CASE LoopTest
  BY <1>2 DEF LoopTest
<1>3. CASE Sleep
  BY <1>3 DEF Sleep
<1>4. CASE VisitMeter
  BY <1>4 DEF VisitMeter, LeavePoll
<1>5. CASE VisitItem
  BY <1>5 DEF VisitItem, LeavePoll
<1>6. CASE Flush
  BY <1>6 DEF Flush
<1>7. ASSUME NEW c \in Code, ReadItem(c)
      PROVE  LateInv'
  BY <1>7 DEF ReadItem
<1>8. CASE Stop
  BY <1>8 DEF Stop
<1>9. CASE UNCHANGED vars
  BY <1>9 DEF vars
<1> QED BY <1>1, <1>2, <1>3, <1>4, <1>5, <1>6, <1>7, <1>8, <1>9
        DEF Next, Poller, Terminated

\* After stop() has been called on the running loop at most one read is made,
\* the one that had been decided on.
THEOREM AtMostOneReadAfterStop == Spec => []OneReadAfterStop
<1>1. Init => LateInv
  BY DEF Init, Constructed, LateInv, OneReadAfterStop
<1>2. TypeOK /\ LateInv /\ [Next]_vars => LateInv'
  BY NextLate
<1>3. LateInv => OneReadAfterStop
  BY DEF LateInv
<1> QED BY <1>1, <1>2, <1>3, TypeCorrect, PTL DEF Spec

(***************************************************************************)
(* Batches.                                                                *)
(***************************************************************************)
\* The results of the enabled items before item n, in configuration order.
CompleteUpTo(items, n) ==
  /\ \A m \in DOMAIN items : items[m].item \in ItemEnabled /\ items[m].item < n
  /\ \A e \in ItemEnabled : e < n => \E m \in DOMAIN items : items[m].item = e
  /\ \A l, m \in DOMAIN items : l < m => items[l].item < items[m].item

\* During a visit the batch is what was shown of this meter in this visit.
BatchInv ==
  /\ pc \in {"item", "read", "flush"} => batch = shown /\ CompleteUpTo(batch, j)
  /\ pc = "flush" => j = NumItems + 1

LEMMA EmptyUpToFirst ==
  ASSUME config \in Configs
  PROVE  CompleteUpTo(<<>>, 1)
BY ConfigType DEF CompleteUpTo

\* An item that is not enabled adds nothing to what is complete.
LEMMA CompleteSkip ==
  ASSUME config \in Configs, NEW s \in Seq(Reading), NEW n \in 1..NumItems, CompleteUpTo(s, n),
         n \notin ItemEnabled
  PROVE  CompleteUpTo(s, n + 1)
<1>1. \A e \in ItemEnabled : e \in Nat /\ e # n
  BY ConfigType
<1>2. n \in Nat /\ \A e \in ItemEnabled : (e < n + 1) <=> (e < n)
  BY <1>1, ConfigType
<1> QED BY <1>2 DEF CompleteUpTo

\* The reading of the item at hand completes the batch by one item.
LEMMA CompleteAppend ==
  ASSUME config \in Configs,
         NEW s \in Seq(Reading), NEW n \in ItemEnabled, CompleteUpTo(s, n),
         NEW r \in Reading, r.item = n
  PROVE  CompleteUpTo(Append(s, r), n + 1)
<1> DEFINE t == Append(s, r)
<1>1. /\ n \in Nat
      /\ \A e \in ItemEnabled : e \in Nat
      /\ \A e \in ItemEnabled : (e < n + 1) <=> (e < n \/ e = n)
  BY ConfigType
<1>2. /\ Len(t) = Len(s) + 1 /\ Len(s) \in Nat
      /\ DOMAIN s = 1..Len(s) /\ DOMAIN t = 1..(Len(s) + 1)
      /\ \A m \in 1..Len(s) : t[m] = s[m]
      /\ t[Len(s) + 1] = r
  OBVIOUS
<1> HIDE DEF t
<1>3. \A m \in DOMAIN t : t[m].item \in ItemEnabled /\ t[m].item < n + 1
  <2> SUFFICES ASSUME NEW m \in DOMAIN t
               PROVE  t[m].item \in ItemEnabled /\ t[m].item < n + 1
    OBVIOUS
  <2>1. CASE m = Len(s) + 1
    BY <1>1, <1>2, <2>1
  <2>2. CASE m \in 1..Len(s)
    BY <1>1, <1>2, <2>2 DEF CompleteUpTo
  <2> QED BY <1>2, <2>1, <2>2
<1>4. ASSUME NEW e \in ItemEnabled, e < n + 1
      PROVE  \E m \in DOMAIN t : t[m].item = e
  <2>1. CASE e = n
    BY <1>2, <2>1
  <2>2. CASE e < n
    <3>1. PICK m \in DOMAIN s : s[m].item = e
      BY <2>2 DEF CompleteUpTo
    <3> QED BY <1>2, <3>1
  <2> QED BY <1>1, <1>4, <2>1, <2>2
<1>5. ASSUME NEW l \in DOMAIN t, NEW m \in DOMAIN t, l < m
      PROVE  t[l].item < t[m].item
  <2>1. l \in 1..Len(s) /\ t[l] = s[l] /\ s[l].item < n
    BY <1>2, <1>5 DEF CompleteUpTo
  <2>2. CASE m = Len(s) + 1
    BY <1>2, <2>1, <2>2
  <2>3. CASE m \in 1..Len(s)
    BY <1>2, <1>5, <2>1, <2>3 DEF CompleteUpTo
  <2> QED BY <1>2, <2>2, <2>3
<1> QED BY <1>3, <1>4, <1>5 DEF CompleteUpTo, t

LEMMA NextBatch == TypeOK /\ BatchInv /\ [Next]_vars => BatchInv'
<1> SUFFICES ASSUME TypeOK, BatchInv, [Next]_vars
             PROVE  BatchInv'
  OBVIOUS
<1>0. config \in Configs
  BY DEF TypeOK
<1>c. /\ NumItems' = NumItems /\ ItemEnabled' = ItemEnabled
      /\ NumItems \in Nat /\ ItemEnabled \subseteq 1..NumItems
  BY <1>0, ConfigType, ConfigKept
<1> DEFINE Goal ==
      /\ pc' \in {"item", "read", "flush"} =>
           batch' = shown' /\ CompleteUpTo(batch', j')
      /\ pc' = "flush" => j' = NumItems + 1
\* What is complete depends on the configuration, which stays.
<1> SUFFICES Goal
  BY <1>c DEF BatchInv, CompleteUpTo
<1> USE <1>0, <1>c DEF BatchInv, loop, ghost
<1>1. CASE Run
  BY <1>1 DEF Run
<1>2. CASE LoopTest
  BY <1>2 DEF LoopTest
<1>3. CASE Sleep
  BY <1>3 DEF Sleep
<1>4. CASE VisitMeter
  BY <1>4, EmptyUpToFirst DEF VisitMeter, LeavePoll
<1>5. CASE VisitItem
  <2>1. CASE j > NumItems
    BY <1>5, <2>1, ConfigType DEF VisitItem, TypeOK
  <2>2. CASE j <= NumItems /\ ~running
    BY <1>5, <2>2, ConfigType DEF VisitItem, LeavePoll, TypeOK
  <2>3. CASE j <= NumItems /\ running /\ j \notin ItemEnabled
    <3>1. j \in 1..NumItems /\ batch \in Seq(Reading)
      BY <2>3, ConfigType DEF TypeOK
    <3>2. pc = "item" /\ pc' = "item" /\ j' = j + 1
          /\ batch' = batch /\ shown' = shown
      BY <1>5, <2>3, <3>1, ConfigType DEF VisitItem
    <3>3. CompleteUpTo(batch, j + 1)
      BY <2>3, <3>1, <3>2, CompleteSkip
    <3> QED BY <3>2, <3>3
  <2>4. CASE j <= NumItems /\ running /\ j \in ItemEnabled
    BY <1>5, <2>4, ConfigType DEF VisitItem, TypeOK
  <2> QED BY <1>5, <2>1, <2>2, <2>3, <2>4 DEF VisitItem
<1>6. CASE Flush
  BY <1>6 DEF Flush
<1>7. ASSUME NEW c \in Code, ReadItem(c)
      PROVE  Goal
  <2> DEFINE r == [item |-> j, code |-> c]
  <2>1. pc = "read" /\ pc' = "item" /\ j' = j + 1
        /\ batch' = Append(batch, r) /\ shown' = Append(shown, r)
    BY <1>7 DEF ReadItem
  <2>2. j \in ItemEnabled /\ batch \in Seq(Reading) /\ r \in Reading /\ r.item = j
    BY <2>1, ConfigType DEF TypeOK, Reading
  <2>3. CompleteUpTo(Append(batch, r), j + 1)
    BY <2>1, <2>2, CompleteAppend
  <2> QED BY <2>1, <2>3
<1>8. CASE Stop
  BY <1>8 DEF Stop
<1>9. CASE UNCHANGED vars
  BY <1>9 DEF vars
<1> QED BY <1>1, <1>2, <1>3, <1>4, <1>5, <1>6, <1>7, <1>8, <1>9
        DEF Next, Poller, Terminated

\* What is complete up to the last item is complete.
LEMMA CompleteAtEnd ==
  ASSUME config \in Configs, NEW s \in Seq(Reading), CompleteUpTo(s, NumItems + 1)
  PROVE  Complete(s)
<1>1. \A e \in ItemEnabled : e < NumItems + 1
  BY ConfigType
<1>2. ItemEnabled \subseteq {s[m].item : m \in DOMAIN s}
  BY <1>1 DEF CompleteUpTo
<1>3. {s[m].item : m \in DOMAIN s} \subseteq ItemEnabled
  BY DEF CompleteUpTo
<1>4. \A l, m \in DOMAIN s : l < m => s[l].item < s[m].item
  BY DEF CompleteUpTo
<1> QED BY <1>2, <1>3, <1>4 DEF Complete

\* With an item to read, what is handed over is something.
LEMMA BatchNotEmpty ==
  ASSUME TypeOK, BatchInv, pc = "flush", ItemEnabled # {}
  PROVE  batch # <<>>
<1>1. PICK e \in ItemEnabled : TRUE
  OBVIOUS
<1>2. config \in Configs /\ CompleteUpTo(batch, NumItems + 1)
  BY DEF BatchInv, TypeOK
<1>3. e < NumItems + 1
  BY <1>2, ConfigType
<1> QED BY <1>2, <1>3 DEF CompleteUpTo

\* The step that hands over a batch, as BatchWhole has it.
HandoverWhole ==
  ItemEnabled # {} /\ pc = "flush" /\ pc' # pc =>
    /\ uploads'.meter = i /\ i \in Polled
    /\ Complete(uploads'.items)
    /\ uploads'.items = shown

LEMMA StepWhole == TypeOK /\ BatchInv /\ [Next]_vars => [HandoverWhole]_vars
<1> SUFFICES ASSUME TypeOK, BatchInv, Next,
                    ItemEnabled # {}, pc = "flush", pc' # pc
             PROVE  HandoverWhole
  BY DEF HandoverWhole
<1>1. Flush
  BY DEF Next, Poller, Terminated, Stop, Run, LoopTest, Sleep, VisitMeter,
         VisitItem, ReadItem, vars
<1>2. batch = shown /\ CompleteUpTo(batch, NumItems + 1) /\ batch \in Seq(Reading)
      /\ i \in Polled /\ config \in Configs
  BY DEF BatchInv, TypeOK
<1>3. Complete(batch)
  BY <1>2, CompleteAtEnd
<1>4. batch # <<>>
  BY BatchNotEmpty
<1>5. uploads' = [meter |-> i, items |-> batch]
  BY <1>1, <1>4 DEF Flush
<1> QED BY <1>2, <1>3, <1>5 DEF HandoverWhole

LEMMA InitLate == Init => LateInv
BY DEF Init, Constructed, LateInv, OneReadAfterStop

LEMMA InitBatch == Init => BatchInv
BY DEF Init, Constructed, BatchInv

\* Every batch handed over has one result for each enabled item, in the order
\* of the configuration, all of this meter and of this visit.
THEOREM BatchesAreWhole == Spec => BatchWhole
<1>1. TypeOK /\ BatchInv /\ [Next]_vars => [HandoverWhole]_vars
  BY StepWhole
<1>2. [][HandoverWhole]_vars => BatchWhole
  BY DEF HandoverWhole, BatchWhole
<1> QED BY <1>1, <1>2, InitBatch, NextBatch, TypeCorrect, PTL DEF Spec

(***************************************************************************)
(* The end of the loop and of each round of it, as a measure that falls.   *)
(***************************************************************************)
\* The step after a stop, as StopIsPrompt has it.
Prompt == stopped = "yes" => StepsLeft' < StepsLeft

LEMMA StepPrompt == TypeOK /\ LateInv /\ [Next]_vars => [Prompt]_vars
<1> SUFFICES ASSUME TypeOK, LateInv, Next, vars' # vars, stopped = "yes"
             PROVE  StepsLeft' < StepsLeft
  BY DEF Prompt
<1>0. ~running /\ pc # "boot"
  BY DEF LateInv
<1> USE <1>0 DEF StepsLeft
<1>1. CASE LoopTest
  BY <1>1 DEF LoopTest
<1>2. CASE Sleep
  BY <1>2 DEF Sleep
<1>3. CASE VisitMeter
  BY <1>3 DEF VisitMeter, LeavePoll
<1>4. CASE VisitItem
  BY <1>4 DEF VisitItem, LeavePoll, TypeOK
<1>5. CASE Flush
  BY <1>5 DEF Flush
<1>6. ASSUME NEW c \in Code, ReadItem(c)
      PROVE  StepsLeft' < StepsLeft
  BY <1>6 DEF ReadItem
<1> QED BY <1>1, <1>2, <1>3, <1>4, <1>5, <1>6 DEF Next, Poller, Run, Stop, Terminated

\* A stop of the running loop is followed by six of its steps at most, for
\* every configuration: the safety half of StopReturns.
THEOREM StopsPromptly == Spec => StopIsPrompt
<1>1. TypeOK /\ LateInv /\ [Next]_vars => [Prompt]_vars
  BY StepPrompt
<1>2. [][Prompt]_vars => StopIsPrompt
  BY DEF Prompt, StopIsPrompt
<1> QED BY <1>1, <1>2, InitLate, NextLate, TypeCorrect, PTL DEF Spec

\* The steps of n visits of which each has the same number at most.
LEMMA MoreVisits ==
  ASSUME NEW n \in Nat, NEW b \in Nat
  PROVE  n * b \in Nat /\ (n + 1) * b = n * b + b
OBVIOUS

\* The loop runs until it is stopped, and what returns has been stopped.
Awake ==
  /\ pc # "boot" /\ stopped # "yes" => running
  /\ pc = "returned" => ~running

LEMMA InitAwake == Init => Awake
BY DEF Init, Constructed, Awake

LEMMA NextAwake == Awake /\ [Next]_vars => Awake'
<1> SUFFICES ASSUME Awake, [Next]_vars
             PROVE  Awake'
  OBVIOUS
<1> USE DEF Awake, loop, ghost
<1>1. CASE Run \/ LoopTest \/ Sleep
  BY <1>1 DEF Run, LoopTest, Sleep
<1>2. CASE VisitMeter \/ VisitItem \/ Flush
  BY <1>2 DEF VisitMeter, VisitItem, Flush, LeavePoll
<1>3. ASSUME NEW c \in Code, ReadItem(c)
      PROVE  Awake'
  BY <1>3 DEF ReadItem
<1>4. CASE Stop
  BY <1>4 DEF Stop
<1>5. CASE UNCHANGED vars
  BY <1>5 DEF vars
<1> QED BY <1>1, <1>2, <1>3, <1>4, <1>5 DEF Next, Poller, Terminated

\* The step within a round, as RoundEnds has it.
Ending == pc \notin {"boot", "loop"} /\ UNCHANGED running => RoundLeft' < RoundLeft

LEMMA StepEnds == TypeOK /\ Awake /\ [Next]_vars => [Ending]_vars
<1> SUFFICES ASSUME TypeOK, Awake, Next, vars' # vars,
                    pc \notin {"boot", "loop"}, UNCHANGED running
             PROVE  RoundLeft' < RoundLeft
  BY DEF Ending
<1> DEFINE b == 2 * NumItems + 3
           rest(n) == n * b
<1>0. /\ config \in Configs
      /\ NumMeters' = NumMeters /\ NumItems' = NumItems /\ Interval' = Interval
      /\ NumMeters \in Nat /\ NumItems \in Nat /\ Interval \in Nat
      /\ Polled \subseteq 1..NumMeters /\ ItemEnabled \subseteq 1..NumItems
  BY ConfigType, ConfigKept DEF TypeOK
<1>b. b \in Nat
  BY <1>0
<1>n. \A n \in Nat : rest(n) \in Nat /\ rest(n + 1) = rest(n) + b
  BY <1>b, MoreVisits
\* The measure, place by place, before the step and after it.
<1>m. RoundLeft = CASE pc = "meter" -> Interval + 2 + rest(NumMeters + 1 - i)
                    [] pc \in {"item", "read", "flush"} ->
                         Interval + 2 + rest(NumMeters - i) + VisitLeft
                    [] pc = "sleep" -> Interval + 1 - nap
                    [] OTHER -> 0
  BY DEF RoundLeft
<1>p. RoundLeft' = CASE pc' = "meter" -> Interval + 2 + rest(NumMeters + 1 - i')
                     [] pc' \in {"item", "read", "flush"} ->
                          Interval + 2 + rest(NumMeters - i') + VisitLeft'
                     [] pc' = "sleep" -> Interval + 1 - nap'
                     [] OTHER -> 0
  BY <1>0 DEF RoundLeft
<1>v. /\ pc = "item" => VisitLeft = 2 * (NumItems - j) + 4
      /\ pc = "read" => VisitLeft = 2 * (NumItems - j) + 3
      /\ pc = "flush" => VisitLeft = 1
      /\ pc' = "item" => VisitLeft' = 2 * (NumItems - j') + 4
      /\ pc' = "read" => VisitLeft' = 2 * (NumItems - j') + 3
      /\ pc' = "flush" => VisitLeft' = 1
  BY <1>0 DEF VisitLeft
<1>t. /\ i \in 1..NumMeters + 1 /\ j \in 1..NumItems + 1 /\ nap \in 0..Interval
      /\ pc \in {"item", "read", "flush"} => i \in 1..NumMeters
      /\ pc = "read" => j \in 1..NumItems
  BY <1>0 DEF TypeOK
\* What is left of the other visits, around the meter at hand.
<1>r. /\ rest(NumMeters + 1 - i) \in Nat
      /\ i \in 1..NumMeters =>
           /\ rest(NumMeters - i) \in Nat
           /\ rest(NumMeters + 1 - i) = rest(NumMeters - i) + b
           /\ NumMeters + 1 - (i + 1) = NumMeters - i
  <2>1. NumMeters + 1 - i \in Nat
    BY <1>0, <1>t
  <2>2. ASSUME i \in 1..NumMeters
        PROVE  /\ NumMeters - i \in Nat
               /\ NumMeters + 1 - i = (NumMeters - i) + 1
               /\ NumMeters + 1 - (i + 1) = NumMeters - i
    BY <1>0, <2>2
  <2> HIDE DEF rest, b
  <2> QED BY <1>n, <2>1, <2>2
<1> HIDE DEF rest
<1>1. CASE Sleep
  BY <1>0, <1>m, <1>p, <1>t, <1>1, vars' # vars DEF Sleep
<1>2. CASE VisitMeter
  <2>1. CASE i > NumMeters \/ ~running
    <3>1. pc = "meter" /\ pc' = "sleep" /\ nap' = 0
      BY <1>2, <1>t, <1>0, <2>1 DEF VisitMeter, LeavePoll
    <3> QED BY <1>0, <1>m, <1>p, <1>r, <3>1
  <2>2. CASE i <= NumMeters /\ running /\ i \notin Polled
    <3>1. pc = "meter" /\ pc' = "meter" /\ i' = i + 1 /\ i \in 1..NumMeters
      BY <1>2, <1>t, <1>0, <2>2 DEF VisitMeter
    <3>2. RoundLeft = Interval + 2 + rest(NumMeters + 1 - i)
          /\ RoundLeft' = Interval + 2 + rest(NumMeters - i)
      BY <1>m, <1>p, <1>r, <3>1
    <3> QED BY <1>0, <1>r, <3>1, <3>2
  <2>3. CASE i <= NumMeters /\ running /\ i \in Polled
    <3>1. pc = "meter" /\ pc' = "item" /\ i' = i /\ j' = 1 /\ i \in 1..NumMeters
      BY <1>2, <1>t, <1>0, <2>3 DEF VisitMeter
    <3>2. RoundLeft = Interval + 2 + rest(NumMeters + 1 - i)
          /\ RoundLeft' = Interval + 2 + rest(NumMeters - i) + (2 * (NumItems - 1) + 4)
      BY <1>m, <1>p, <1>v, <3>1
    <3> QED BY <1>0, <1>r, <3>1, <3>2
  <2> QED BY <1>2, <2>1, <2>2, <2>3 DEF VisitMeter
<1>3. CASE VisitItem
  <2>1. pc = "item" /\ i' = i /\ i \in 1..NumMeters
    BY <1>3, <1>t DEF VisitItem
  <2>2. RoundLeft = Interval + 2 + rest(NumMeters - i) + (2 * (NumItems - j) + 4)
    BY <1>m, <1>v, <2>1
  <2>3. \/ pc' = "flush" /\ j = NumItems + 1
        \/ pc' = "sleep" /\ nap' = 0 /\ j <= NumItems
        \/ pc' = "item" /\ j' = j + 1 /\ j <= NumItems
        \/ pc' = "read" /\ j' = j /\ j <= NumItems
    BY <1>0, <1>t, <1>3 DEF VisitItem, LeavePoll
  <2>4. CASE pc' = "sleep"
    BY <1>0, <1>p, <1>r, <1>t, <2>1, <2>2, <2>3, <2>4
  <2>5. CASE pc' # "sleep"
    <3>1. RoundLeft' = Interval + 2 + rest(NumMeters - i) + VisitLeft'
      BY <1>p, <2>1, <2>3, <2>5
    <3>2. VisitLeft' < 2 * (NumItems - j) + 4 /\ VisitLeft' \in Nat
      BY <1>0, <1>t, <1>v, <2>3, <2>5
    <3>3. rest(NumMeters - i) \in Nat
      BY <1>r, <2>1
    <3> QED BY <1>0, <1>t, <2>2, <3>1, <3>2, <3>3
  <2> QED BY <2>4, <2>5
<1>4. CASE Flush
  <2>1. pc = "flush" /\ pc' = "meter" /\ i' = i + 1 /\ i \in 1..NumMeters
    BY <1>4, <1>t DEF Flush
  <2>2. RoundLeft = Interval + 2 + rest(NumMeters - i) + 1
        /\ RoundLeft' = Interval + 2 + rest(NumMeters - i)
    BY <1>m, <1>p, <1>r, <1>v, <2>1
  <2> QED BY <1>0, <1>r, <2>1, <2>2
<1>5. ASSUME NEW c \in Code, ReadItem(c)
      PROVE  RoundLeft' < RoundLeft
  <2>1. pc = "read" /\ pc' = "item" /\ i' = i /\ j' = j + 1 /\ i \in 1..NumMeters
    BY <1>5, <1>t DEF ReadItem
  <2>2. RoundLeft = Interval + 2 + rest(NumMeters - i) + (2 * (NumItems - j) + 3)
        /\ RoundLeft' = Interval + 2 + rest(NumMeters - i) + (2 * (NumItems - (j + 1)) + 4)
    BY <1>m, <1>p, <1>v, <2>1
  <2> QED BY <1>0, <1>r, <1>t, <2>1, <2>2
<1>6. ~Stop
  BY DEF Stop, Awake
<1> QED BY <1>1, <1>2, <1>3, <1>4, <1>5, <1>6 DEF Next, Poller, Run, LoopTest, Terminated

\* Every round comes to its end, for every configuration: no place in it is
\* left for one with as many steps to go.
THEOREM RoundsEnd == Spec => RoundEnds
<1>1. TypeOK /\ Awake /\ [Next]_vars => [Ending]_vars
  BY StepEnds
<1>2. [][Ending]_vars => RoundEnds
  BY DEF Ending, RoundEnds
<1> QED BY <1>1, <1>2, InitAwake, NextAwake, TypeCorrect, PTL DEF Spec

(***************************************************************************)
(* The order of the meters.                                                *)
(***************************************************************************)
\* The meters between the last handover and the one at hand are passed over
\* only if they cannot be polled; between two rounds the next one at hand is the
\* first meter.
TurnInv ==
  ItemEnabled # {} =>
    /\ uploads.meter \in 0..NumMeters
    /\ pc = "boot" => uploads.meter = 0
    /\ pc \in {"meter", "item", "read", "flush"} => Between(uploads.meter, i) = {}
    /\ pc \in {"loop", "sleep"} /\ running => Between(uploads.meter, 1) = {}

LEMMA NothingBetween ==
  ASSUME NEW m, NEW n
  PROVE  Between(m, n) = {} <=>
           \A k \in Polled : IF m < n THEN ~(m < k /\ k < n) ELSE ~(m < k) /\ ~(k < n)
BY DEF Between

LEMMA InitTurn == Init => TurnInv
<1> SUFFICES ASSUME Init
             PROVE  TurnInv
  OBVIOUS
<1>1. uploads.meter = 0 /\ pc = "boot" /\ config \in Configs
  BY DEF Init, Constructed
<1>2. NumMeters \in Nat
  BY <1>1, ConfigType
<1> QED BY <1>1, <1>2 DEF TurnInv

LEMMA NextTurn ==
  TypeOK /\ BatchInv /\ TurnInv /\ [Next]_vars => TurnInv'
<1> SUFFICES ASSUME TypeOK, BatchInv, TurnInv, [Next]_vars, ItemEnabled # {}
             PROVE  TurnInv'
  BY ConfigKept DEF TurnInv, TypeOK
<1>0. /\ config \in Configs
      /\ NumMeters' = NumMeters /\ Polled' = Polled /\ ItemEnabled' = ItemEnabled
      /\ NumMeters \in Nat /\ Polled \subseteq 1..NumMeters
  BY ConfigType, ConfigKept DEF TypeOK
<1>k. \A k \in Polled : k \in Nat
  BY <1>0
<1> DEFINE Goal ==
      /\ uploads'.meter \in 0..NumMeters
      /\ pc' = "boot" => uploads'.meter = 0
      /\ pc' \in {"meter", "item", "read", "flush"} => Between(uploads'.meter, i') = {}
      /\ pc' \in {"loop", "sleep"} /\ running' => Between(uploads'.meter, 1) = {}
<1> SUFFICES Goal
  BY <1>0 DEF TurnInv, Between
<1>t. i \in 1..NumMeters + 1 /\ uploads.meter \in 0..NumMeters
  BY DEF TypeOK, TurnInv
<1> USE <1>0, <1>k, <1>t, NothingBetween DEF TurnInv, loop, ghost
<1>1. CASE Run
  BY <1>1 DEF Run
<1>2. CASE LoopTest
  BY <1>2 DEF LoopTest
<1>3. CASE Sleep
  BY <1>3 DEF Sleep
<1>4. CASE VisitMeter
  <2>1. Between(uploads.meter, i) = {} /\ uploads' = uploads /\ running' = running
    BY <1>4 DEF VisitMeter
  <2>2. CASE i > NumMeters \/ ~running
    <3>1. pc' = "sleep"
      BY <1>4, <2>2 DEF VisitMeter, LeavePoll
    <3>2. ASSUME running
          PROVE  Between(uploads.meter, 1) = {}
      <4>1. i = NumMeters + 1 /\ uploads.meter < i
        BY <2>2, <3>2
      <4>2. \A k \in Polled : ~(uploads.meter < k /\ k < i)
        BY <2>1, <4>1
      <4>3. \A k \in Polled : k \in 1..NumMeters
        OBVIOUS
      <4>4. \A k \in Polled : k < i /\ ~(k < 1)
        BY <4>1, <4>3
      <4> QED BY <4>2, <4>4
    <3> QED BY <2>1, <3>1, <3>2
  <2>3. CASE i <= NumMeters /\ running /\ i \notin Polled
    <3>1. pc' = "meter" /\ i' = i + 1
      BY <1>4, <2>3 DEF VisitMeter
    <3>2. Between(uploads.meter, i + 1) = {}
      BY <2>1, <2>3
    <3> QED BY <2>1, <3>1, <3>2
  <2>4. CASE i <= NumMeters /\ running /\ i \in Polled
    <3>1. pc' = "item" /\ i' = i
      BY <1>4, <2>4 DEF VisitMeter
    <3> QED BY <2>1, <3>1
  <2> QED BY <1>4, <2>2, <2>3, <2>4 DEF VisitMeter
<1>5. CASE VisitItem
  BY <1>5 DEF VisitItem, LeavePoll
<1>6. CASE Flush
  <2>1. batch # <<>>
    BY <1>6, BatchNotEmpty DEF Flush
  <2>2. uploads'.meter = i /\ i' = i + 1 /\ pc' = "meter" /\ i \in 1..NumMeters
    BY <1>6, <2>1 DEF Flush, TypeOK
  <2> QED BY <2>2
<1>7. ASSUME NEW c \in Code, ReadItem(c)
      PROVE  Goal
  BY <1>7 DEF ReadItem
<1>8. CASE Stop
  BY <1>8 DEF Stop
<1>9. CASE UNCHANGED vars
  BY <1>9 DEF vars
<1> QED BY <1>1, <1>2, <1>3, <1>4, <1>5, <1>6, <1>7, <1>8, <1>9
        DEF Next, Poller, Terminated

\* The handover, as InTurn has it.
HandoverInTurn ==
  ItemEnabled # {} /\ pc = "flush" /\ pc' # pc =>
    Between(uploads.meter, uploads'.meter) = {}

LEMMA StepInTurn ==
  TypeOK /\ BatchInv /\ TurnInv /\ [Next]_vars => [HandoverInTurn]_vars
<1> SUFFICES ASSUME TypeOK, BatchInv, TurnInv, Next,
                    ItemEnabled # {}, pc = "flush", pc' # pc
             PROVE  Between(uploads.meter, uploads'.meter) = {}
  BY DEF HandoverInTurn
<1>1. Flush
  BY DEF Next, Poller, Terminated, Stop, Run, LoopTest, Sleep, VisitMeter,
         VisitItem, ReadItem, vars
<1>2. uploads'.meter = i
  BY <1>1, BatchNotEmpty DEF Flush
<1> QED BY <1>2 DEF TurnInv

\* The meters are polled in turn, none passed over, whichever meters before
\* and after are disabled or have no reader: the safety half of EveryMeterPolled.
THEOREM MetersInTurn == Spec => InTurn
<1>1. TypeOK /\ BatchInv /\ TurnInv /\ [Next]_vars => [HandoverInTurn]_vars
  BY StepInTurn
<1>2. [][HandoverInTurn]_vars => InTurn
  BY DEF HandoverInTurn, InTurn
<1> QED BY <1>1, <1>2, InitBatch, NextBatch, InitTurn, NextTurn, TypeCorrect, PTL DEF Spec
=============================================================================
